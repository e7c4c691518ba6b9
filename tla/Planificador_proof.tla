------------------------- MODULE Planificador_proof -------------------------
(***************************************************************************)
(* Proofs about the planner, for every set of instances: first the marks   *)
(* of vehicles and visits, then the candidates of a day and the order the  *)
(* assignment comes in, and last the sums of what the trips made account   *)
(* for in the cost and in the solution.                                    *)
(***************************************************************************)
EXTENDS Planificador, Instancia_proof, SequenceTheorems

-----------------------------------------------------------------------------
(* The inductive invariant                                                 *)

(* A visit that fits fits within the blocks of the day: the comparison of  *)
(* times is one of numbers of blocks.                                      *)
LEMMA CabeEnElDia ==
  ASSUME TypeOK, DiaIdentificado, CandidatasAcotadas, Evaluando
  PROVE  /\ pvisitalocal \in Visitas(ii)
         /\ cantPersonas \in Nat \ {0}
         /\ total \in Nat \ {0}
         /\ countBloqueInicio \in Nat /\ countBloqueFin \in Nat
         /\ jor_pos_inicio <= countBloqueInicio
         /\ countBloqueInicio <= countBloqueFin
         /\ countBloqueFin <= jor_pos_fin - 1
         /\ countBloqueFin = countBloqueInicio + total - 1
<1>1. /\ EsInstancia(ii)
      /\ jor_pos_inicio \in Nat /\ jor_pos_fin \in Nat /\ deltaBloques \in Nat
      /\ ii.z \in Nat \ {0}
      /\ i \in 1 .. Len(visJornada)
  <2>1. EsInstancia(ii) /\ deltaBloques \in Nat /\ i \in Nat \ {0}
    BY DEF TypeOK
  <2>2. ii.z \in Nat \ {0} /\ ii.h \in Nat
    BY <2>1 DEF EsInstancia
  <2>3. jor_pos_inicio \in Nat /\ jor_pos_fin \in Nat
    BY <2>2 DEF TypeOK, Bloques
  <2>4. i <= Len(visJornada) /\ Len(visJornada) \in Nat
    BY LenProperties DEF CandidatasAcotadas, Evaluando
  <2> QED BY <2>1, <2>2, <2>3, <2>4
<1>2. visJornada[i] \in Pedidas
  BY <1>1, ElementOfSeq DEF CandidatasAcotadas
<1>3. pvisitalocal \in Visitas(ii) /\ cantPersonas \in Nat \ {0}
  <2>1. \A p, v : Tripleta(ii, p, v).posVisita = v
    BY DEF Tripleta
  <2>2. pvisitalocal \in Visitas(ii) /\ cantPersonas > 0
    BY <1>2, <2>1 DEF Pedidas, Tripletas, pvisitalocal, cantPersonas
  <2>3. cantPersonas \in Nat
    BY <1>1, <2>2 DEF EsInstancia, cantPersonas
  <2> QED BY <2>2, <2>3
<1>4. total \in Nat \ {0}
  BY <1>1, <1>3, TrasladoNat DEF total
<1>5. total + deltaBloques <= jor_pos_fin - jor_pos_inicio
  <2> DEFINE t0 == ii.bloque_timestamp[jor_pos_inicio]
             a  == total + deltaBloques
             b  == jor_pos_fin - jor_pos_inicio
  <2>1. t0 \in Nat
    BY <1>1 DEF TypeOK, EsInstancia
  <2>2. t0 + a * ii.z <= t_jorn_fin
    BY DEF Evaluando, Cabe, sumaMinutos
  <2>3. t_jorn_fin = t0 + (jor_pos_fin - 1 - jor_pos_inicio + 1) * ii.z
    BY DEF DiaIdentificado, Dia, EnJornada, Evaluando
  <2>4. jor_pos_fin - 1 - jor_pos_inicio + 1 = b
    BY <1>1
  <2>5. a \in Int /\ b \in Int
    BY <1>1, <1>4
  <2>6. a * ii.z \in Int /\ b * ii.z \in Int
    BY <2>5, <1>1
  <2>7. t0 + a * ii.z <= t0 + b * ii.z
    BY <2>2, <2>3, <2>4
  <2> HIDE DEF t0, a, b
  <2>8. a * ii.z <= b * ii.z
    BY <2>1, <2>6, <2>7
  <2>9. a <= b
    BY <1>1, <2>5, <2>8, ProductoMonotono
  <2> QED BY <2>9 DEF a, b
<1> QED BY <1>1, <1>3, <1>4, <1>5 DEF countBloqueInicio, countBloqueFin

(* What the invariants are stated over does not change with the instance. *)
LEMMA MismaInstancia ==
  ASSUME ii' = ii
  PROVE  Cuartetas' = Cuartetas /\ Viajes' = Viajes /\ Pedidas' = Pedidas
BY DEF Cuartetas, Viajes, Pedidas

LEMMA InstanciaFija ==
  ASSUME Next PROVE ii' = ii
BY DEF Next, MinCostFlow, SinFlujo, IniciarJornada, ExtenderJornada, CerrarJornada,
       Recolectar, FinRecolectar, TomarVisita, FinJornada, Asignar, SiguienteBloque,
       LecturaFuera, DejarVisita, Checker

(* The part of the state a trip changes *)
LEMMA SolucionFija ==
  ASSUME Next, ~ \E ve \in Vehiculos(ii) : Asignar(ve)
  PROVE  UNCHANGED solucion
BY DEF Next, MinCostFlow, SinFlujo, IniciarJornada, ExtenderJornada, CerrarJornada,
       Recolectar, FinRecolectar, TomarVisita, FinJornada, SiguienteBloque,
       LecturaFuera, DejarVisita, Checker

-----------------------------------------------------------------------------
(* Candidates                                                              *)

(* A sorted assignment is a sequence of pairs that some visit asks for. *)
LEMMA FlujoPedido ==
  ASSUME EsInstancia(ii), NEW F \in Flujos(ii), NEW s \in [1 .. Cardinality(F) -> F]
  PROVE  s \in Seq(Pedidas)
<1>1. F \subseteq Tripletas(ii)
  BY DEF Flujos, Arcos
<1>2. IsFiniteSet(F)
  BY <1>1, TripletasFinito, FS_Subset
<1>3. Cardinality(F) \in Nat
  BY <1>2, FS_CardinalityType
<1>4. F \subseteq Pedidas
  <2>1. SUFFICES ASSUME NEW t \in F PROVE ii.visita_cant_personas[t.posVisita] > 0
    BY <1>1 DEF Pedidas
  <2> DEFINE v == t.posVisita
             G == {u \in F : u.posVisita = v}
  <2>2. v \in Visitas(ii)
    BY <1>1 DEF Tripletas, Tripleta
  <2>3. Cardinality(G) = ii.visita_cant_personas[v]
    BY <2>2 DEF Flujos
  <2>4. IsFiniteSet(G) /\ G # {}
    BY <1>2, FS_Subset, G \in SUBSET F, t \in G
  <2>5. Cardinality(G) \in Nat /\ Cardinality(G) # 0
    BY <2>4, FS_CardinalityType, FS_EmptySet
  <2> QED BY <2>3, <2>5
<1>5. s \in [1 .. Cardinality(F) -> Pedidas]
  BY <1>4
<1> QED BY <1>3, <1>5

LEMMA CandidatasPaso ==
  ASSUME TypeOK, DiaIdentificado, CandidatasAcotadas, Next
  PROVE  CandidatasAcotadas'
<1>1. ii' = ii /\ Pedidas' = Pedidas
  BY InstanciaFija, MismaInstancia
<1>2. EsInstancia(ii) /\ i \in Nat \ {0}
  BY DEF TypeOK
<1>3. Len(visJornada) \in Nat /\ Len(insIn) \in Nat
  BY LenProperties DEF CandidatasAcotadas
<1>4. CASE MinCostFlow
  <2>1. PICK F \in Flujos(ii) : \E s \in [1 .. Cardinality(F) -> F] : insIn' = s
    BY <1>4 DEF MinCostFlow
  <2>2. insIn' \in Seq(Pedidas)
    BY <1>2, <2>1, FlujoPedido
  <2>3. visJornada' = <<>> /\ pc' = "jornada"
    BY <1>4 DEF MinCostFlow, CandidatasAcotadas
  <2>4. Len(visJornada') = 0 /\ visJornada' \in Seq(Pedidas)
    BY <2>3, EmptySeq
  <2>5. Len(insIn') \in Nat
    BY <2>2, LenProperties
  <2> QED BY <1>1, <2>2, <2>3, <2>4, <2>5 DEF CandidatasAcotadas
<1>5. CASE CerrarJornada
  <2>1. visJornada' = <<>> /\ pc' = "recolecta" /\ i' = 1 /\ insIn' = insIn
    BY <1>5 DEF CerrarJornada
  <2>2. Len(visJornada') = 0 /\ visJornada' \in Seq(Pedidas)
    BY <2>1, EmptySeq
  <2> QED BY <1>1, <1>3, <2>1, <2>2 DEF CandidatasAcotadas
<1>6. CASE Recolectar
  <2>1. /\ pc = "recolecta" /\ pc' = pc /\ i' = i + 1 /\ insIn' = insIn
        /\ i <= Len(insIn)
        /\ visJornada' = visJornada \/ visJornada' = Append(visJornada, insIn[i])
    BY <1>6 DEF Recolectar, PorRecolectar
  <2>2. Len(visJornada) < i /\ visJornada \in Seq(Pedidas) /\ insIn \in Seq(Pedidas)
    BY <2>1 DEF CandidatasAcotadas
  <2>3. insIn[i] \in Pedidas
    BY <1>2, <1>3, <2>1, <2>2, ElementOfSeq
  <2>4. /\ visJornada' \in Seq(Pedidas)
        /\ Len(visJornada') \in Nat /\ Len(visJornada') <= Len(visJornada) + 1
    <3>1. CASE visJornada' = visJornada
      BY <3>1, <2>2, <1>3
    <3>2. CASE visJornada' = Append(visJornada, insIn[i])
      BY <3>2, <2>2, <2>3, <1>3, AppendProperties
    <3> QED BY <2>1, <3>1, <3>2
  <2>5. Len(visJornada') < i' /\ Len(visJornada') <= Len(insIn')
    BY <1>2, <1>3, <2>1, <2>2, <2>4
  <2> QED BY <1>1, <2>1, <2>2, <2>4, <2>5 DEF CandidatasAcotadas
<1>7. CASE TomarVisita
  BY <1>1, <1>7 DEF TomarVisita, CandidatasAcotadas
<1>8. CASE SiguienteBloque
  BY <1>1, <1>8 DEF SiguienteBloque, Evaluando, CandidatasAcotadas
<1>9. CASE \E ve \in Vehiculos(ii) : Asignar(ve)
  BY <1>1, <1>9 DEF Asignar, Evaluando, CandidatasAcotadas
<1>10. CASE SinFlujo \/ IniciarJornada \/ ExtenderJornada \/ FinRecolectar \/ FinJornada
              \/ LecturaFuera \/ DejarVisita \/ Checker
  BY <1>1, <1>10 DEF SinFlujo, IniciarJornada, ExtenderJornada, FinRecolectar, FinJornada,
       LecturaFuera, DejarVisita, Checker, Evaluando, CandidatasAcotadas
<1> QED BY <1>4, <1>5, <1>6, <1>7, <1>8, <1>9, <1>10 DEF Next

-----------------------------------------------------------------------------
(* The day                                                                 *)

LEMMA DiaPaso ==
  ASSUME TypeOK, DiaIdentificado, Next
  PROVE  DiaIdentificado'
<1>1. ii' = ii
  BY InstanciaFija
<1>2. EsInstancia(ii) /\ ii.h \in Nat /\ ii.z \in Nat
  BY DEF TypeOK, EsInstancia
<1>3. jor_pos_inicio \in Nat /\ jor_pos_fin \in Nat /\ t_jorn_fin \in Nat
  BY <1>2 DEF TypeOK, Bloques
<1>4. CASE IniciarJornada
  <2>1. /\ jor_pos_fin < ii.h /\ jor_pos_fin' = jor_pos_fin /\ jor_pos_inicio' = jor_pos_fin
        /\ t_jorn_fin' = ii.bloque_timestamp[jor_pos_fin] + ii.z /\ pc' = "extiende"
    BY <1>4 DEF IniciarJornada, sumaMinutos
  <2>2. (jor_pos_fin - jor_pos_fin + 1) * ii.z = ii.z
    BY <1>2, <1>3
  <2>3. Dia(jor_pos_inicio, jor_pos_fin)'
    BY <1>1, <1>3, <2>1, <2>2 DEF Dia
  <2> QED BY <2>1, <2>3 DEF DiaIdentificado, EnJornada
<1>5. CASE ExtenderJornada
  <2>1. /\ pc = "extiende" /\ pc' = pc
        /\ jor_pos_fin < ii.h - 1 /\ bloqueContiguoConSiguiente(ii, jor_pos_fin)
        /\ t_jorn_fin' = t_jorn_fin + ii.z
        /\ jor_pos_fin' = jor_pos_fin + 1 /\ jor_pos_inicio' = jor_pos_inicio
    BY <1>5 DEF ExtenderJornada, Extensible, sumaMinutos
  <2>2. Dia(jor_pos_inicio, jor_pos_fin)
    BY <2>1 DEF DiaIdentificado
  <2>3. (jor_pos_fin - jor_pos_inicio + 1) * ii.z + ii.z
          = (jor_pos_fin + 1 - jor_pos_inicio + 1) * ii.z
    BY <1>2, <1>3
  <2>4. ii.bloque_timestamp[jor_pos_inicio] \in Nat
    BY <1>2 DEF TypeOK, EsInstancia
  <2>5. (jor_pos_fin - jor_pos_inicio + 1) * ii.z \in Int
    BY <1>2, <1>3
  <2>6. t_jorn_fin' = ii.bloque_timestamp[jor_pos_inicio]
                        + (jor_pos_fin + 1 - jor_pos_inicio + 1) * ii.z
    <3> DEFINE t0 == ii.bloque_timestamp[jor_pos_inicio]
               a  == (jor_pos_fin - jor_pos_inicio + 1) * ii.z
               b  == (jor_pos_fin + 1 - jor_pos_inicio + 1) * ii.z
    <3>1. t_jorn_fin = t0 + a /\ a + ii.z = b /\ t0 \in Nat /\ a \in Int
      BY <2>2, <2>3, <2>4, <2>5 DEF Dia
    <3>2. t_jorn_fin' = t_jorn_fin + ii.z
      BY <2>1
    <3> HIDE DEF t0, a, b
    <3>3. t_jorn_fin' = t0 + b
      BY <1>2, <3>1, <3>2
    <3> QED BY <3>3 DEF t0, b
  <2>7. \A b \in jor_pos_inicio .. jor_pos_fin : bloqueContiguoConSiguiente(ii, b)
    BY <1>3, <2>1, <2>2 DEF Dia
  <2>8. jor_pos_fin + 1 - 1 = jor_pos_fin /\ jor_pos_inicio <= jor_pos_fin + 1
        /\ jor_pos_fin + 1 < ii.h
    BY <1>2, <1>3, <2>1, <2>2 DEF Dia
  <2>9. Dia(jor_pos_inicio, jor_pos_fin)'
    <3>1. \A b \in jor_pos_inicio .. (jor_pos_fin + 1) - 1 : bloqueContiguoConSiguiente(ii, b)
      BY <1>3, <2>7
    <3> QED BY <1>1, <1>3, <2>1, <2>6, <2>8, <3>1 DEF Dia
  <2> QED BY <2>1, <2>9 DEF DiaIdentificado, EnJornada
<1>6. CASE CerrarJornada
  <2>1. /\ pc = "extiende" /\ pc' = "recolecta" /\ ~ Extensible
        /\ jor_pos_fin' = jor_pos_fin + 1 /\ jor_pos_inicio' = jor_pos_inicio
        /\ t_jorn_fin' = t_jorn_fin
    BY <1>6 DEF CerrarJornada
  <2>2. Dia(jor_pos_inicio, jor_pos_fin) /\ jor_pos_fin' - 1 = jor_pos_fin
    BY <1>3, <2>1 DEF DiaIdentificado
  <2>3. Dia(jor_pos_inicio, jor_pos_fin - 1)'
    BY <1>1, <2>1, <2>2 DEF Dia
  <2>4. jor_pos_fin' = ii.h \/ ~ bloqueContiguoConSiguiente(ii, jor_pos_fin' - 1)
    BY <1>2, <1>3, <2>1, <2>2 DEF Dia, Extensible
  <2> QED BY <1>1, <2>1, <2>3, <2>4 DEF DiaIdentificado, EnJornada
<1>7. CASE Recolectar \/ FinRecolectar \/ TomarVisita \/ SiguienteBloque \/ DejarVisita
             \/ \E ve \in Vehiculos(ii) : Asignar(ve)
  <2>1. EnJornada /\ EnJornada' /\ UNCHANGED jornada
    BY <1>7 DEF Recolectar, FinRecolectar, TomarVisita, SiguienteBloque, DejarVisita,
         Asignar, Evaluando, EnJornada
  <2> QED BY <1>1, <2>1 DEF DiaIdentificado, EnJornada, Dia, jornada
<1>8. CASE MinCostFlow \/ SinFlujo \/ FinJornada \/ LecturaFuera \/ Checker
  <2>1. pc' # "extiende" /\ ~ EnJornada'
    BY <1>8 DEF MinCostFlow, SinFlujo, FinJornada, LecturaFuera, Checker, EnJornada
  <2> QED BY <2>1 DEF DiaIdentificado
<1> QED BY <1>4, <1>5, <1>6, <1>7, <1>8 DEF Next

-----------------------------------------------------------------------------
(* Types                                                                   *)

(* What an assignment writes lies within the instance. *)
LEMMA Asignado ==
  ASSUME TypeOK, DiaIdentificado, CandidatasAcotadas, Evaluando,
         NEW ve \in Vehiculos(ii)
  PROVE  /\ i \in 1 .. Len(insIn) /\ insIn[i].posPersona \in Personas(ii)
         /\ countBloqueInicio \in Bloques(ii) /\ countBloqueFin \in Bloques(ii)
         /\ Marcados \subseteq Bloques(ii)
         /\ Ocupados \subseteq Bloques(ii)
         /\ CostoViaje(ve) \in Nat
         /\ Siguiente \in Nat \ {0}
<1>1. /\ pvisitalocal \in Visitas(ii) /\ cantPersonas \in Nat \ {0} /\ total \in Nat \ {0}
      /\ countBloqueInicio \in Nat /\ countBloqueFin \in Nat
      /\ jor_pos_inicio <= countBloqueInicio
      /\ countBloqueInicio <= countBloqueFin /\ countBloqueFin <= jor_pos_fin - 1
      /\ countBloqueFin = countBloqueInicio + total - 1
  BY CabeEnElDia
<1>2. EsInstancia(ii) /\ ii.h \in Nat /\ i \in Nat \ {0} /\ jor_pos_fin \in 0 .. ii.h
  BY DEF TypeOK, EsInstancia
<1>3. jor_pos_inicio \in Nat
  BY <1>2 DEF TypeOK, Bloques
<1>4. i \in 1 .. Len(insIn)
  BY <1>2, LenProperties DEF CandidatasAcotadas, Evaluando
<1>5. insIn[i] \in Tripletas(ii)
  BY <1>4, ElementOfSeq DEF TypeOK
<1>6. insIn[i].posPersona \in Personas(ii)
  BY <1>5 DEF Tripletas, Tripleta
<1>7. countBloqueFin <= ii.h - 1
  BY <1>1, <1>2
<1>8. countBloqueInicio \in Bloques(ii) /\ countBloqueFin \in Bloques(ii)
  BY <1>1, <1>2, <1>7 DEF Bloques
<1>9. Marcados \subseteq Bloques(ii)
  BY <1>1, <1>2, <1>7 DEF Bloques, Marcados
<1>10. \A ij \in 0 .. total - 1 : jor_pos_inicio + ij \in Bloques(ii)
  BY <1>1, <1>2, <1>3, <1>7 DEF Bloques
<1>11. Ocupados \subseteq Bloques(ii)
  BY <1>10 DEF Ocupados
<1>12. CostoViaje(ve) \in Nat
  <2>1. ii.distancia[pvisitalocal] \in Nat /\ ii.vehi_cost[ve] \in Nat
    BY <1>1, <1>2 DEF EsInstancia
  <2> QED BY <2>1 DEF CostoViaje
<1>13. Siguiente \in Nat \ {0}
  BY <1>1, <1>2 DEF Siguiente
<1> QED BY <1>4, <1>6, <1>8, <1>9, <1>11, <1>12, <1>13

(* The Cuartetas of a trip are Cuartetas of the instance, at the blocks    *)
(* the person is marked as occupied in.                                    *)
LEMMA AnotadasTipo ==
  ASSUME TypeOK, DiaIdentificado, CandidatasAcotadas, Evaluando,
         NEW ve \in Vehiculos(ii), NEW p \in Personas(ii)
  PROVE  /\ Anotadas(ve, p) \subseteq Cuartetas
         /\ {q.posbh : q \in Anotadas(ve, p)} = Ocupados
         /\ \A q \in Anotadas(ve, p) : q.posp = p
<1>1. pvisitalocal \in Visitas(ii)
  BY CabeEnElDia
<1>2. Ocupados \subseteq Bloques(ii)
  BY Asignado
<1>3. Anotadas(ve, p) \subseteq Cuartetas
  <2> SUFFICES ASSUME NEW ij \in 0 .. total - 1
               PROVE  [posbh |-> jor_pos_inicio + ij, posp |-> p,
                       posve |-> IF EnVisita(ij) THEN -1 ELSE ve,
                       posvi |-> IF EnVisita(ij) THEN pvisitalocal ELSE -1] \in Cuartetas
    BY DEF Anotadas
  <2>1. jor_pos_inicio + ij \in Bloques(ii)
    BY <1>2 DEF Ocupados
  <2> QED BY <1>1, <2>1 DEF Cuartetas
<1> DEFINE c(ij) == [posbh |-> jor_pos_inicio + ij, posp |-> p,
                     posve |-> IF EnVisita(ij) THEN -1 ELSE ve,
                     posvi |-> IF EnVisita(ij) THEN pvisitalocal ELSE -1]
<1>4. {q.posbh : q \in Anotadas(ve, p)} = Ocupados
  <2>1. Anotadas(ve, p) = {c(ij) : ij \in 0 .. total - 1}
    BY DEF Anotadas
  <2>2. \A ij : c(ij).posbh = jor_pos_inicio + ij
    OBVIOUS
  <2> HIDE DEF c
  <2> QED BY <2>1, <2>2 DEF Ocupados
<1>5. \A q \in Anotadas(ve, p) : q.posp = p
  BY DEF Anotadas
<1> QED BY <1>3, <1>4, <1>5

LEMMA SumaDeBolsas ==
  ASSUME NEW B, IsABag(B), NEW S, NEW k \in Nat \ {0}
  PROVE  /\ IsABag(B (+) [q \in S |-> k])
         /\ DOMAIN (B (+) [q \in S |-> k]) = DOMAIN B \cup S
BY DEF IsABag, (+)

LEMMA TiposPaso ==
  ASSUME TypeOK, DiaIdentificado, CandidatasAcotadas, Next
  PROVE  TypeOK'
<1>1. ii' = ii /\ Cuartetas' = Cuartetas /\ Viajes' = Viajes /\ EsInstancia(ii)
  BY InstanciaFija, MismaInstancia DEF TypeOK
<1>2. ii.h \in Nat /\ ii.z \in Nat
  BY <1>1 DEF EsInstancia
<1>3. CandidatasAcotadas'
  BY CandidatasPaso
<1>4. insIn' \in Seq(Tripletas(ii)) /\ visJornada' \in Seq(Tripletas(ii))
  <2>1. Pedidas' \subseteq Tripletas(ii)
    BY <1>1 DEF Pedidas
  <2> QED BY <1>3, <2>1, SeqMonotonic DEF CandidatasAcotadas
<1>5. /\ i \in Nat \ {0} /\ deltaBloques \in Nat /\ isValid \in BOOLEAN
      /\ jor_pos_fin \in 0 .. ii.h /\ jor_pos_inicio \in Bloques(ii) /\ t_jorn_fin \in Nat
  BY DEF TypeOK
<1>6. CASE \E ve \in Vehiculos(ii) : Asignar(ve)
  <2>1. PICK ve \in Vehiculos(ii) : Asignar(ve)
    BY <1>6
  <2> DEFINE p == insIn[i].posPersona
  <2>2. Evaluando /\ cantPersonas \in Nat \ {0} /\ pvisitalocal \in Visitas(ii)
    BY <2>1, CabeEnElDia DEF Asignar
  <2>3. /\ p \in Personas(ii) /\ Siguiente \in Nat \ {0} /\ CostoViaje(ve) \in Nat
        /\ countBloqueInicio \in Bloques(ii) /\ countBloqueFin \in Bloques(ii)
        /\ Marcados \subseteq Bloques(ii)
    BY <2>2, Asignado
  <2>4. IsABag(instance') /\ DOMAIN instance' \subseteq Cuartetas
    <3>1. instance' = instance (+) [q \in Anotadas(ve, p) |-> cantPersonas]
      BY <2>1 DEF Asignar
    <3>2. Anotadas(ve, p) \subseteq Cuartetas
      BY <2>2, <2>3, AnotadasTipo
    <3>3. IsABag(instance) /\ DOMAIN instance \subseteq Cuartetas
      BY DEF TypeOK
    <3> HIDE DEF p
    <3>4. /\ IsABag(instance (+) [q \in Anotadas(ve, p) |-> cantPersonas])
          /\ DOMAIN (instance (+) [q \in Anotadas(ve, p) |-> cantPersonas])
               = DOMAIN instance \cup Anotadas(ve, p)
      BY <3>3, <2>2, SumaDeBolsas
    <3> QED BY <3>1, <3>2, <3>3, <3>4
  <2>5. horasUsoVeh' \in [Vehiculos(ii) -> SUBSET Bloques(ii)]
    <3>1. horasUsoVeh' = [horasUsoVeh EXCEPT ![ve] = @ \cup Marcados]
      BY <2>1 DEF Asignar
    <3> QED BY <3>1, <2>3 DEF TypeOK
  <2>6. horasDispPer' \in [Personas(ii) -> SUBSET Bloques(ii)]
    <3>1. horasDispPer' = [horasDispPer EXCEPT ![p] = @ \ Ocupados]
      BY <2>1 DEF Asignar
    <3> QED BY <3>1, <2>3 DEF TypeOK
  <2>7. visitasAsignadas' \subseteq Visitas(ii)
    BY <2>1, <2>2 DEF Asignar, MarcaVisita, TypeOK
  <2>8. viajes' \subseteq Viajes
    <3>1. [visita |-> pvisitalocal, vehiculo |-> ve,
           ini |-> countBloqueInicio, fin |-> countBloqueFin] \in Viajes
      BY <2>2, <2>3 DEF Viajes
    <3> QED BY <2>1, <3>1 DEF Asignar, TypeOK
  <2>9. costo' \in Nat /\ i' \in Nat \ {0}
    BY <2>1, <2>3 DEF Asignar, TypeOK
  <2>10. pc' = "visita" /\ UNCHANGED <<isValid, jornada, deltaBloques>>
    BY <2>1 DEF Asignar
  <2> QED BY <1>1, <1>4, <1>5, <2>4, <2>5, <2>6, <2>7, <2>8, <2>9, <2>10 DEF TypeOK, jornada
<1>7. CASE ~ \E ve \in Vehiculos(ii) : Asignar(ve)
  <2>1. UNCHANGED solucion
    BY <1>7, SolucionFija
  <2>2. /\ pc' \in {"inicio", "jornada", "extiende", "recolecta", "visita", "bloque",
                    "checker", "fin", "abortado"}
        /\ i' \in Nat \ {0} /\ deltaBloques' \in Nat /\ isValid' \in BOOLEAN
    <3>1. pc \in {"inicio", "jornada", "extiende", "recolecta", "visita", "bloque",
                  "checker", "fin", "abortado"}
      BY DEF TypeOK
    <3>2. CASE MinCostFlow \/ SinFlujo \/ IniciarJornada \/ ExtenderJornada \/ CerrarJornada
      BY <1>5, <3>1, <3>2 DEF MinCostFlow, SinFlujo, IniciarJornada, ExtenderJornada,
           CerrarJornada
    <3>3. CASE Recolectar \/ FinRecolectar \/ TomarVisita \/ FinJornada
      BY <1>5, <3>1, <3>3 DEF Recolectar, FinRecolectar, TomarVisita, FinJornada
    <3>4. CASE SiguienteBloque
      BY <1>5, <3>1, <3>4 DEF SiguienteBloque
    <3>5. CASE LecturaFuera \/ DejarVisita
      BY <1>5, <3>1, <3>5 DEF LecturaFuera, DejarVisita
    <3>6. CASE Checker
      BY <1>5, <3>1, <3>6 DEF Checker
    <3>7. \/ MinCostFlow \/ SinFlujo \/ IniciarJornada \/ ExtenderJornada \/ CerrarJornada
          \/ Recolectar \/ FinRecolectar \/ TomarVisita \/ FinJornada
          \/ SiguienteBloque \/ LecturaFuera \/ DejarVisita \/ Checker
      BY <1>7 DEF Next
    <3> QED BY <3>2, <3>3, <3>4, <3>5, <3>6, <3>7
  <2>3. jor_pos_fin' \in 0 .. ii.h /\ jor_pos_inicio' \in Bloques(ii) /\ t_jorn_fin' \in Nat
    <3>1. CASE IniciarJornada
      <4>1. jor_pos_fin \in Bloques(ii)
        BY <3>1, <1>2, <1>5 DEF IniciarJornada, Bloques
      <4>2. ii.bloque_timestamp[jor_pos_fin] \in Nat
        BY <4>1, <1>1 DEF EsInstancia
      <4> QED BY <3>1, <4>1, <4>2, <1>2, <1>5 DEF IniciarJornada, sumaMinutos
    <3>2. CASE ExtenderJornada
      BY <3>2, <1>2, <1>5 DEF ExtenderJornada, Extensible, sumaMinutos
    <3>3. CASE CerrarJornada
      <4>1. jor_pos_fin < ii.h
        BY <3>3 DEF CerrarJornada, DiaIdentificado, Dia
      <4> QED BY <3>3, <4>1, <1>2, <1>5 DEF CerrarJornada
    <3>4. CASE UNCHANGED jornada
      BY <3>4, <1>5 DEF jornada
    <3> QED BY <1>7, <3>1, <3>2, <3>3, <3>4 DEF Next, MinCostFlow, SinFlujo, Recolectar,
         FinRecolectar, TomarVisita, FinJornada, SiguienteBloque, LecturaFuera,
         DejarVisita, Checker
  <2> QED BY <1>1, <1>4, <2>1, <2>2, <2>3 DEF TypeOK, solucion
<1> QED BY <1>6, <1>7

-----------------------------------------------------------------------------
(* Trips                                                                   *)

(* Two ranges of blocks that share none do not overlap. *)
LEMMA RangosAjenos ==
  ASSUME NEW a \in Int, NEW b \in Int, NEW c \in Int, NEW d \in Int, a <= b, c <= d,
         \A k \in c .. d : ~ (a <= k /\ k <= b)
  PROVE  b < c \/ d < a
<1>1. CASE a <= c
  BY <1>1
<1>2. CASE c < a
  BY <1>2
<1> QED BY <1>1, <1>2

(* The trips already made have the shape the new one has. *)
LEMMA ViajeOrdenado ==
  ASSUME TypeOK, ViajeEnJornada, NEW r \in viajes
  PROVE  /\ r.visita \in Visitas(ii) /\ r.vehiculo \in Vehiculos(ii)
         /\ r.ini \in Bloques(ii) /\ r.fin \in Bloques(ii)
         /\ r.ini \in Int /\ r.fin \in Int /\ r.ini <= r.fin
<1>1. EsInstancia(ii) /\ ii.h \in Nat /\ r \in Viajes
  BY DEF TypeOK, EsInstancia
<1>2. /\ r.visita \in Visitas(ii) /\ r.vehiculo \in Vehiculos(ii)
      /\ r.ini \in Bloques(ii) /\ r.fin \in Bloques(ii)
  BY <1>1 DEF Viajes
<1>3. r.ini \in Int /\ r.fin \in Int
  BY <1>1, <1>2 DEF Bloques
<1>4. bloquesTotal(ii, r.visita) \in Nat \ {0}
  BY <1>1, <1>2, TrasladoNat
<1>5. r.fin - r.ini + 1 = bloquesTotal(ii, r.visita)
  BY DEF ViajeEnJornada
<1> QED BY <1>2, <1>3, <1>4, <1>5

(* No trip of a free vehicle touches the blocks that were asked for. *)
LEMMA VehiculoLibre ==
  ASSUME TypeOK, DiaIdentificado, CandidatasAcotadas, UsoMarcado, ViajeEnJornada,
         Evaluando, NEW ve \in Vehiculos(ii), Libre(ve),
         NEW r \in viajes, r.vehiculo = ve
  PROVE  countBloqueFin < r.ini \/ r.fin < countBloqueInicio
<1>1. /\ countBloqueInicio \in Int /\ countBloqueFin \in Int
      /\ countBloqueInicio <= countBloqueFin
  BY CabeEnElDia
<1>2. /\ r.ini \in Bloques(ii) /\ r.fin \in Bloques(ii)
      /\ r.ini \in Int /\ r.fin \in Int /\ r.ini <= r.fin
  BY ViajeOrdenado
<1>3. ii.h \in Nat
  BY DEF TypeOK, EsInstancia
<1>4. IsFiniteSet(horasUsoVeh[ve])
  <2>1. horasUsoVeh[ve] \in SUBSET (0 .. ii.h - 1)
    BY DEF TypeOK, Bloques
  <2>2. IsFiniteSet(0 .. ii.h - 1)
    BY <1>3, FS_Interval, ii.h - 1 \in Int
  <2> QED BY <2>1, <2>2, FS_Subset
<1>5. \A c \in horasUsoVeh[ve] : ~ (countBloqueInicio <= c /\ c <= countBloqueFin)
  BY <1>1, <1>4, CuentaCero DEF Libre
<1>6. r.ini .. r.fin \subseteq horasUsoVeh[ve]
  <2>1. r.ini .. r.fin \subseteq Bloques(ii)
    BY <1>2, <1>3 DEF Bloques
  <2> QED BY <2>1, <1>2 DEF UsoMarcado
<1>7. \A c \in r.ini .. r.fin : ~ (countBloqueInicio <= c /\ c <= countBloqueFin)
  BY <1>5, <1>6
<1> QED BY <1>1, <1>2, <1>7, RangosAjenos

ViajesInv == UsoMarcado /\ VisitaUnaVez /\ ViajeEnJornada /\ VehiculoExclusivo

LEMMA ViajesPaso ==
  ASSUME TypeOK, DiaIdentificado, CandidatasAcotadas, ViajesInv, Next
  PROVE  ViajesInv'
<1>1. ii' = ii
  BY InstanciaFija
<1>2. CASE ~ \E ve \in Vehiculos(ii) : Asignar(ve)
  <2>1. UNCHANGED solucion
    BY <1>2, SolucionFija
  <2> QED BY <1>1, <2>1 DEF ViajesInv, UsoMarcado, VisitaUnaVez, ViajeEnJornada,
       VehiculoExclusivo, solucion
<1>3. CASE \E ve \in Vehiculos(ii) : Asignar(ve)
  <2>1. PICK ve \in Vehiculos(ii) : Asignar(ve)
    BY <1>3
  <2> DEFINE nuevo == [visita |-> pvisitalocal, vehiculo |-> ve,
                       ini |-> countBloqueInicio, fin |-> countBloqueFin]
             a == countBloqueInicio
             b == countBloqueFin
  <2>2. /\ Evaluando /\ Libre(ve) /\ viajes' = viajes \cup {nuevo}
        /\ horasUsoVeh' = [horasUsoVeh EXCEPT ![ve] = @ \cup Marcados]
        /\ visitasAsignadas' = visitasAsignadas \cup {pvisitalocal}
    BY <2>1 DEF Asignar, MarcaVisita
  <2>3. /\ a \in Nat /\ b \in Nat /\ jor_pos_inicio <= a /\ a <= b
        /\ b <= jor_pos_fin - 1 /\ b = a + total - 1
        /\ total \in Nat \ {0}
    BY <2>2, CabeEnElDia
  <2>4. UsoMarcado'
    <3>1. horasUsoVeh \in [Vehiculos(ii) -> SUBSET Bloques(ii)] /\ Marcados \subseteq Bloques(ii)
      BY <2>2, Asignado DEF TypeOK
    <3>2. \A c \in Bloques(ii) : c \in Marcados <=> a <= c /\ c <= b
      <4>1. ii.h \in Nat
        BY DEF TypeOK, EsInstancia
      <4> QED BY <2>3, <4>1 DEF Marcados, Bloques
    <3>3. ASSUME NEW u \in Vehiculos(ii), NEW c \in Bloques(ii)
          PROVE  c \in horasUsoVeh'[u]
                   <=> \E r \in viajes' : r.vehiculo = u /\ r.ini <= c /\ c <= r.fin
      <4>1. c \in horasUsoVeh[u]
              <=> \E r \in viajes : r.vehiculo = u /\ r.ini <= c /\ c <= r.fin
        BY DEF ViajesInv, UsoMarcado
      <4>2. c \in horasUsoVeh'[u] <=> c \in horasUsoVeh[u] \/ (u = ve /\ c \in Marcados)
        BY <2>2, <3>1
      <4>3. nuevo.vehiculo = ve /\ nuevo.ini = a /\ nuevo.fin = b
        OBVIOUS
      <4> HIDE DEF nuevo, a, b
      <4> QED BY <2>2, <3>2, <4>1, <4>2, <4>3
    <3>4. \A u \in Vehiculos(ii) : horasUsoVeh'[u] \subseteq Bloques(ii)
      BY <2>2, <3>1
    <3> QED BY <1>1, <3>3, <3>4 DEF UsoMarcado
  <2>5. VisitaUnaVez'
    <3>1. pvisitalocal \notin visitasAsignadas
      BY <2>2 DEF Evaluando
    <3>2. nuevo.visita = pvisitalocal
      OBVIOUS
    <3> HIDE DEF nuevo
    <3> QED BY <2>2, <3>1, <3>2 DEF ViajesInv, VisitaUnaVez
  <2>6. ViajeEnJornada'
    <3>1. nuevo.fin - nuevo.ini + 1 = bloquesTotal(ii, nuevo.visita)
      BY <2>3 DEF total
    <3>2. \A c \in nuevo.ini .. nuevo.fin - 1 : bloqueContiguoConSiguiente(ii, c)
      <4>1. \A c \in jor_pos_inicio .. jor_pos_fin - 1 - 1 : bloqueContiguoConSiguiente(ii, c)
        BY <2>2 DEF DiaIdentificado, Dia, EnJornada, Evaluando
      <4>2. jor_pos_inicio \in Int /\ jor_pos_fin \in Int
        BY DEF TypeOK, EsInstancia, Bloques
      <4>3. a .. b - 1 \subseteq jor_pos_inicio .. jor_pos_fin - 1 - 1
        BY <2>3, <4>2
      <4> QED BY <4>1, <4>3
    <3> HIDE DEF nuevo
    <3> QED BY <1>1, <2>2, <3>1, <3>2 DEF ViajesInv, ViajeEnJornada
  <2>7. VehiculoExclusivo'
    <3>1. \A r \in viajes : r.vehiculo = ve => b < r.ini \/ r.fin < a
      BY <2>2, VehiculoLibre DEF ViajesInv
    <3>2. nuevo.vehiculo = ve /\ nuevo.ini = a /\ nuevo.fin = b
      OBVIOUS
    <3> HIDE DEF nuevo, a, b
    <3> QED BY <2>2, <3>1, <3>2 DEF ViajesInv, VehiculoExclusivo
  <2> QED BY <2>4, <2>5, <2>6, <2>7 DEF ViajesInv
<1> QED BY <1>2, <1>3

(* Availability                                                            *)
LEMMA DisponibilidadPaso ==
  ASSUME TypeOK, DiaIdentificado, CandidatasAcotadas, DisponibilidadCoherente, Next
  PROVE  DisponibilidadCoherente'
<1>1. ii' = ii
  BY InstanciaFija
<1>2. CASE ~ \E ve \in Vehiculos(ii) : Asignar(ve)
  <2>1. UNCHANGED solucion
    BY <1>2, SolucionFija
  <2> QED BY <1>1, <2>1 DEF DisponibilidadCoherente, solucion
<1>3. CASE \E ve \in Vehiculos(ii) : Asignar(ve)
  <2>1. PICK ve \in Vehiculos(ii) : Asignar(ve)
    BY <1>3
  <2> DEFINE p == insIn[i].posPersona
             A == Anotadas(ve, p)
  <2>2. /\ Evaluando /\ instance' = instance (+) [q \in A |-> cantPersonas]
        /\ horasDispPer' = [horasDispPer EXCEPT ![p] = @ \ Ocupados]
    BY <2>1 DEF Asignar
  <2>3. p \in Personas(ii) /\ cantPersonas \in Nat \ {0}
    BY <2>2, Asignado, CabeEnElDia
  <2>4. {q.posbh : q \in A} = Ocupados /\ \A q \in A : q.posp = p
    BY <2>2, <2>3, AnotadasTipo
  <2> HIDE DEF p, A
  <2>5. DOMAIN instance' = DOMAIN instance \cup A
    BY <2>2, <2>3, SumaDeBolsas DEF TypeOK
  <2>6. ASSUME NEW u \in Personas(ii)
        PROVE  horasDispPer'[u] =
                 ii.pers_horasdisp[u] \ {q.posbh : q \in {q \in DOMAIN instance' : q.posp = u}}
    <3>1. horasDispPer[u] =
            ii.pers_horasdisp[u] \ {q.posbh : q \in {q \in DOMAIN instance : q.posp = u}}
      BY DEF DisponibilidadCoherente
    <3>2. CASE u = p
      <4>1. {q \in DOMAIN instance' : q.posp = u} = {q \in DOMAIN instance : q.posp = u} \cup A
        BY <2>4, <2>5, <3>2
      <4>2. {q.posbh : q \in {q \in DOMAIN instance' : q.posp = u}} =
              {q.posbh : q \in {q \in DOMAIN instance : q.posp = u}} \cup Ocupados
        BY <2>4, <4>1
      <4>3. horasDispPer'[u] = horasDispPer[u] \ Ocupados
        BY <2>2, <2>3, <3>2 DEF TypeOK
      <4> QED BY <3>1, <4>2, <4>3
    <3>3. CASE u # p
      <4>1. {q \in DOMAIN instance' : q.posp = u} = {q \in DOMAIN instance : q.posp = u}
        BY <2>4, <2>5, <3>3
      <4>2. horasDispPer'[u] = horasDispPer[u]
        BY <2>2, <3>3 DEF TypeOK
      <4> QED BY <3>1, <4>1, <4>2
    <3> QED BY <3>2, <3>3
  <2> QED BY <1>1, <2>6 DEF DisponibilidadCoherente
<1> QED BY <1>2, <1>3

-----------------------------------------------------------------------------
(* The accounts of the solution: what it costs and how many times each     *)
(* Cuarteta is in it.                                                      *)

Contabilidad ==
  /\ IsFiniteSet(viajes) /\ IsFiniteSet(DOMAIN instance)
  /\ CostoExacto /\ CuartetasCompletas

(* What is in two bags together, of the elements of X *)
LEMMA SumaEnBolsas ==
  ASSUME NEW B, NEW C, IsABag(B), IsABag(C),
         IsFiniteSet(DOMAIN B), IsFiniteSet(DOMAIN C),
         NEW E, E = B (+) C, NEW X
  PROVE  /\ Suma(E, DOMAIN E \cap X)
              = Suma(B, DOMAIN B \cap X) + Suma(C, DOMAIN C \cap X)
         /\ IsFiniteSet(DOMAIN E)
<1> DEFINE D == (DOMAIN B \cup DOMAIN C) \cap X
           S == DOMAIN B \cap X
           T == DOMAIN C \cap X
           h == B (+) C
           f == [x \in D |-> IF x \in DOMAIN B THEN B[x] ELSE 0]
           g == [x \in D |-> IF x \in DOMAIN C THEN C[x] ELSE 0]
<1>1. DOMAIN h = DOMAIN B \cup DOMAIN C
  BY DEF (+)
<1>2. (\A x \in DOMAIN B : B[x] \in Nat) /\ \A x \in DOMAIN C : C[x] \in Nat
  BY DEF IsABag
<1>3. IsFiniteSet(DOMAIN h) /\ IsFiniteSet(D)
  <2>1. IsFiniteSet(DOMAIN B \cup DOMAIN C)
    BY FS_Union
  <2>2. D \in SUBSET (DOMAIN B \cup DOMAIN C)
    OBVIOUS
  <2> HIDE DEF D, h
  <2> QED BY <1>1, <2>1, <2>2, FS_Subset
<1>4. S \in SUBSET D /\ T \in SUBSET D /\ IsFiniteSet(S) /\ IsFiniteSet(T)
  <2>1. S \in SUBSET D /\ T \in SUBSET D
    OBVIOUS
  <2> HIDE DEF S, T, D
  <2> QED BY <1>3, <2>1, FS_Subset
<1>5. \A x \in D : h[x] = f[x] + g[x]
  <2> TAKE x \in D
  <2>1. h[x] = (IF x \in DOMAIN B THEN B[x] ELSE 0) + (IF x \in DOMAIN C THEN C[x] ELSE 0)
    BY DEF (+)
  <2> QED BY <2>1
<1>6. \A x \in D : f[x] \in Int /\ g[x] \in Int
  BY <1>2
<1>7. /\ \A x \in D \ S : f[x] = 0
      /\ \A x \in D \ T : g[x] = 0
      /\ \A x \in S : f[x] = B[x]
      /\ \A x \in T : g[x] = C[x]
  OBVIOUS
<1>8. DOMAIN h \cap X = D
  BY <1>1
<1> HIDE DEF h, f, g, D, S, T
<1>9. Suma(h, D) = Suma(f, D) + Suma(g, D)
  BY <1>3, <1>5, <1>6, SumaDeSumas
<1>10. Suma(f, D) = Suma(f, S) /\ Suma(f, S) = Suma(B, S)
  <2>1. Suma(f, D) = Suma(f, S)
    BY <1>3, <1>4, <1>6, <1>7, SumaConCeros
  <2> QED BY <1>4, <1>7, <2>1, SumaCongruente
<1>11. Suma(g, D) = Suma(g, T) /\ Suma(g, T) = Suma(C, T)
  <2>1. Suma(g, D) = Suma(g, T)
    BY <1>3, <1>4, <1>6, <1>7, SumaConCeros
  <2> QED BY <1>4, <1>7, <2>1, SumaCongruente
<1>12. E = h
  BY DEF h
<1> QED BY <1>3, <1>8, <1>9, <1>10, <1>11, <1>12 DEF S, T

(* One trip more, with what it adds to a sum over the trips of some kind *)
LEMMA SumaDeViajes ==
  ASSUME NEW f, NEW g, NEW S, IsFiniteSet(S), NEW x, x \notin S,
         \A y \in S : f[y] \in Int /\ g[y] = f[y], g[x] \in Int
  PROVE  Suma(g, S \cup {x}) = Suma(f, S) + g[x]
<1>1. Suma(g, S \cup {x}) = Suma(g, S) + g[x]
  BY SumaMas
<1>2. Suma(g, S) = Suma(f, S)
  BY SumaCongruente
<1> QED BY <1>1, <1>2

(* How many of the Cuartetas of a trip are of the visit and how many of    *)
(* the journeys: there is one for each block the trip takes.               *)
LEMMA CuentaAnotadas ==
  ASSUME TypeOK, DiaIdentificado, CandidatasAcotadas, Evaluando,
         NEW ve \in Vehiculos(ii), NEW p \in Personas(ii)
  PROVE  /\ IsFiniteSet(Anotadas(ve, p))
         /\ Cardinality({q \in Anotadas(ve, p) : q.posvi = pvisitalocal})
              = ii.visita_testimado_bloques[pvisitalocal]
         /\ Cardinality({q \in Anotadas(ve, p) : q.posve = ve})
              = 2 * bloquesTraslado(ii, pvisitalocal)
         /\ \A q \in Anotadas(ve, p) : q.posvi \in {-1, pvisitalocal} /\ q.posve \in {-1, ve}
<1> DEFINE e == ii.visita_testimado_bloques[pvisitalocal]
           t == bloquesTraslado(ii, pvisitalocal)
           c == [ij \in 0 .. total - 1 |->
                   [posbh |-> jor_pos_inicio + ij, posp |-> p,
                    posve |-> IF EnVisita(ij) THEN -1 ELSE ve,
                    posvi |-> IF EnVisita(ij) THEN pvisitalocal ELSE -1]]
           V == t .. (e + t) - 1
           Ida == 0 .. t - 1
           Vuelta == e + t .. total - 1
<1>1. /\ EsInstancia(ii) /\ pvisitalocal \in Visitas(ii) /\ ve \in Nat /\ pvisitalocal \in Nat
      /\ jor_pos_inicio \in Int
  <2>1. EsInstancia(ii) /\ ii.m \in Nat /\ ii.l \in Nat /\ jor_pos_inicio \in 0 .. ii.h - 1
        /\ ii.h \in Nat
    BY DEF TypeOK, EsInstancia, Bloques
  <2>2. pvisitalocal \in Visitas(ii)
    BY CabeEnElDia
  <2> QED BY <2>1, <2>2 DEF Visitas, Vehiculos
<1>2. e \in Nat /\ t \in Nat /\ total = e + 2 * t /\ total \in Nat
  BY <1>1, TrasladoNat DEF EsInstancia, total, bloquesTotal
<1>3. Anotadas(ve, p) = {c[ij] : ij \in 0 .. total - 1}
  BY DEF Anotadas
<1>4. /\ \A ij \in 0 .. total - 1 :
           /\ c[ij].posbh = jor_pos_inicio + ij
           /\ c[ij].posvi = IF EnVisita(ij) THEN pvisitalocal ELSE -1
           /\ c[ij].posve = IF EnVisita(ij) THEN -1 ELSE ve
      /\ \A ij \in 0 .. total - 1 : EnVisita(ij) <=> ij \in V
  <2>1. \A ij \in 0 .. total - 1 : EnVisita(ij) <=> ij \in V
    <3>1. \A ij : EnVisita(ij) <=> t <= ij /\ ij < e + t
      BY DEF EnVisita
    <3> HIDE DEF e, t
    <3> QED BY <1>2, <3>1
  <2> QED BY <2>1
<1>5. /\ V \subseteq 0 .. total - 1 /\ Ida \subseteq 0 .. total - 1
      /\ Vuelta \subseteq 0 .. total - 1
      /\ \A ij \in 0 .. total - 1 : ij \in V \/ ij \in Ida \cup Vuelta
      /\ V \cap (Ida \cup Vuelta) = {} /\ Ida \cap Vuelta = {}
  <2> HIDE DEF e, t
  <2> QED BY <1>2
<1>6. \A x, y \in 0 .. total - 1 : c[x] = c[y] => x = y
  <2> SUFFICES ASSUME NEW x \in 0 .. total - 1, NEW y \in 0 .. total - 1, c[x] = c[y]
               PROVE  x = y
    OBVIOUS
  <2>1. jor_pos_inicio + x = jor_pos_inicio + y
    BY <1>4
  <2> QED BY <1>1, <2>1
<1> HIDE DEF c, V, Ida, Vuelta, e, t
<1>7. IsFiniteSet(0 .. total - 1)
  <2>1. total - 1 \in Int
    BY <1>2
  <2> QED BY <2>1, FS_Interval
<1>8. \A q \in Anotadas(ve, p) : q.posvi \in {-1, pvisitalocal} /\ q.posve \in {-1, ve}
  BY <1>3, <1>4
<1>9. \A S \in SUBSET (0 .. total - 1) : Cardinality({c[ij] : ij \in S}) = Cardinality(S)
  <2> TAKE S \in SUBSET (0 .. total - 1)
  <2>1. IsFiniteSet(S) /\ \A x, y \in S : c[x] = c[y] => x = y
    BY <1>6, <1>7, FS_Subset
  <2> QED BY <2>1, CuentaImagen
<1>10. {q \in Anotadas(ve, p) : q.posvi = pvisitalocal} = {c[ij] : ij \in V}
  <2>1. \A ij \in 0 .. total - 1 : c[ij].posvi = pvisitalocal <=> ij \in V
    BY <1>1, <1>4
  <2> QED BY <1>3, <1>5, <2>1
<1>11. {q \in Anotadas(ve, p) : q.posve = ve} = {c[ij] : ij \in Ida \cup Vuelta}
  <2>1. \A ij \in 0 .. total - 1 : c[ij].posve = ve <=> ij \in Ida \cup Vuelta
    BY <1>1, <1>4, <1>5
  <2> QED BY <1>3, <1>5, <2>1
<1>12. Cardinality(V) = e
  <2>1. t \in Int /\ e + t \in Int /\ t <= e + t /\ (e + t) - t = e
    BY <1>2
  <2> QED BY <2>1, CuentaRango DEF V
<1>13. Cardinality(Ida \cup Vuelta) = 2 * t
  <2>1. IsFiniteSet(Ida) /\ Cardinality(Ida) = t - 0
    <3>1. 0 \in Int /\ t \in Int /\ 0 <= t
      BY <1>2
    <3> QED BY <3>1, CuentaRango DEF Ida
  <2>2. IsFiniteSet(Vuelta) /\ Cardinality(Vuelta) = total - (e + t)
    <3>1. e + t \in Int /\ total \in Int /\ e + t <= total
      BY <1>2
    <3> QED BY <3>1, CuentaRango DEF Vuelta
  <2>3. Cardinality(Ida \cup Vuelta) = Cardinality(Ida) + Cardinality(Vuelta) - 0
    <3>1. Cardinality(Ida \cup Vuelta)
            = Cardinality(Ida) + Cardinality(Vuelta) - Cardinality(Ida \cap Vuelta)
      BY <2>1, <2>2, FS_Union
    <3>2. Cardinality(Ida \cap Vuelta) = 0
      BY <1>5, FS_EmptySet
    <3> QED BY <3>1, <3>2
  <2> QED BY <1>2, <2>1, <2>2, <2>3
<1>14. IsFiniteSet(Anotadas(ve, p))
  <2> DEFINE B == {c[ij] : ij \in 0 .. total - 1}
  <2>1. IsFiniteSet(B)
    <3> DEFINE R == 0 .. total - 1
    <3>1. IsFiniteSet(R) /\ \A x, y \in R : c[x] = c[y] => x = y
      BY <1>6, <1>7
    <3>2. B = {c[ij] : ij \in R}
      OBVIOUS
    <3> HIDE DEF R, B
    <3>3. IsFiniteSet({c[ij] : ij \in R})
      BY <3>1, CuentaImagen
    <3> QED BY <3>2, <3>3
  <2>2. Anotadas(ve, p) = B
    BY <1>3
  <2> HIDE DEF B
  <2> QED BY <2>1, <2>2
<1>15. V \in SUBSET (0 .. total - 1) /\ Ida \cup Vuelta \in SUBSET (0 .. total - 1)
  BY <1>5
<1> QED BY <1>8, <1>9, <1>10, <1>11, <1>12, <1>13, <1>14, <1>15 DEF e, t

LEMMA ContabilidadInicial ==
  ASSUME Init PROVE Contabilidad
<1>1. /\ viajes = {} /\ instance = EmptyBag /\ costo = 0 /\ visitasAsignadas = {}
      /\ DOMAIN instance = {}
  BY DEF Init, EmptyBag, SetToBag
<1>2. IsFiniteSet({}) /\ \A f : Suma(f, {}) = 0
  BY FS_EmptySet, SumaVacia
<1>3. CostoExacto
  BY <1>1, <1>2 DEF CostoExacto
<1>4. CuartetasCompletas
  <2>1. \A v : {q \in DOMAIN instance : q.posvi = v} = {}
    BY <1>1
  <2>2. \A ve : {q \in DOMAIN instance : q.posve = ve} = {} /\ {r \in viajes : r.vehiculo = ve} = {}
    BY <1>1
  <2>3. \A v \in Visitas(ii) : v \notin visitasAsignadas
    BY <1>1
  <2> QED BY <1>2, <2>1, <2>2, <2>3 DEF CuartetasCompletas, Repeticiones
<1> QED BY <1>1, <1>2, <1>3, <1>4 DEF Contabilidad

LEMMA ContabilidadPaso ==
  ASSUME IInv, Contabilidad, [Next]_vars PROVE Contabilidad'
<1>1. CASE UNCHANGED vars
  <2>1. UNCHANGED <<ii, solucion>>
    BY <1>1 DEF vars
  <2> QED BY <2>1 DEF solucion, Contabilidad, CostoExacto, CuartetasCompletas, Repeticiones
<1>2. CASE Next /\ ~ \E ve \in Vehiculos(ii) : Asignar(ve)
  <2>1. UNCHANGED <<ii, solucion>>
    BY <1>2, InstanciaFija, SolucionFija
  <2> QED BY <2>1 DEF solucion, Contabilidad, CostoExacto, CuartetasCompletas, Repeticiones
<1>3. CASE Next /\ \E ve \in Vehiculos(ii) : Asignar(ve)
  <2>1. PICK ve \in Vehiculos(ii) : Asignar(ve)
    BY <1>3
  <2> DEFINE v == pvisitalocal
             p == insIn[i].posPersona
             A == Anotadas(ve, p)
             k == cantPersonas
             C == [q \in A |-> k]
             nuevo == [visita |-> v, vehiculo |-> ve,
                       ini |-> countBloqueInicio, fin |-> countBloqueFin]
  <2>2. TypeOK /\ DiaIdentificado /\ CandidatasAcotadas /\ VisitaUnaVez /\ EsInstancia(ii)
    BY DEF IInv, TypeOK
  <2>3. /\ Evaluando /\ viajes' = viajes \cup {nuevo} /\ instance' = instance (+) C
        /\ costo' = costo + CostoViaje(ve) /\ visitasAsignadas' = visitasAsignadas \cup {v}
        /\ ii' = ii
    BY <2>1 DEF Asignar, MarcaVisita
  <2>4. /\ v \in Visitas(ii) /\ k \in Nat \ {0} /\ p \in Personas(ii)
        /\ k = ii.visita_cant_personas[v]
    BY <2>2, <2>3, CabeEnElDia, Asignado DEF cantPersonas
  <2>5. v \notin visitasAsignadas /\ nuevo \notin viajes
    BY <2>2, <2>3 DEF Evaluando, VisitaUnaVez
  <2>6. nuevo.visita = v /\ nuevo.vehiculo = ve
    OBVIOUS
  <2>7. IsFiniteSet(viajes) /\ IsFiniteSet(DOMAIN instance) /\ IsABag(instance)
        /\ CostoExacto /\ CuartetasCompletas
    BY <2>2 DEF Contabilidad, TypeOK
  <2>8. \A r \in viajes \cup {nuevo} : r.visita \in Visitas(ii) /\ r.vehiculo \in Vehiculos(ii)
    BY <2>2, <2>4, <2>6 DEF TypeOK, Viajes
  <2>9. /\ IsFiniteSet(A) /\ \A q \in A : q.posvi \in {-1, v} /\ q.posve \in {-1, ve}
        /\ Cardinality({q \in A : q.posvi = v}) = ii.visita_testimado_bloques[v]
        /\ Cardinality({q \in A : q.posve = ve}) = 2 * bloquesTraslado(ii, v)
    BY <2>2, <2>3, <2>4, CuentaAnotadas
  <2>10. IsABag(C) /\ DOMAIN C = A
    BY <2>4 DEF IsABag
  <2> HIDE DEF v, p, A, k, nuevo
  <2>11. IsFiniteSet(viajes')
    BY <2>3, <2>7, FS_AddElement
  <2>12. CostoExacto'
    <3> DEFINE f == [r \in viajes |-> 2 * ii.distancia[r.visita] * ii.vehi_cost[r.vehiculo]]
               g == [r \in viajes' |-> 2 * ii.distancia[r.visita] * ii.vehi_cost[r.vehiculo]]
    <3>1. \A r \in viajes' : ii.distancia[r.visita] \in Nat /\ ii.vehi_cost[r.vehiculo] \in Nat
      BY <2>2, <2>3, <2>8 DEF EsInstancia
    <3>2. (\A r \in viajes : f[r] \in Int /\ g[r] = f[r]) /\ g[nuevo] \in Int
      BY <2>3, <3>1
    <3>3. g[nuevo] = CostoViaje(ve)
      <4>1. ii.distancia[v] \in Nat /\ ii.vehi_cost[ve] \in Nat
        BY <2>3, <2>6, <3>1
      <4>2. g[nuevo] = 2 * ii.distancia[v] * ii.vehi_cost[ve]
        BY <2>3, <2>6
      <4>3. \A a, b \in Nat : 2 * a * b = a * b * 2
        OBVIOUS
      <4> QED BY <4>1, <4>2, <4>3 DEF CostoViaje, v
    <3> HIDE DEF f, g
    <3>4. Suma(g, viajes \cup {nuevo}) = Suma(f, viajes) + g[nuevo]
      BY <2>5, <2>7, <3>2, SumaDeViajes
    <3>5. costo = Suma(f, viajes)
      BY <2>7 DEF CostoExacto, f
    <3>6. costo' = Suma(g, viajes')
      BY <2>3, <3>3, <3>4, <3>5
    <3> QED BY <2>3, <3>6 DEF CostoExacto, g
  <2>13. \A S \in SUBSET A : Suma(C, S) = Cardinality(S) * k
    <3> TAKE S \in SUBSET A
    <3>1. IsFiniteSet(S) /\ (\A x \in S : C[x] = k) /\ k \in Int
      BY <2>4, <2>9, FS_Subset
    <3> HIDE DEF C
    <3> QED BY <3>1, SumaConstante
  <2> HIDE DEF C
  <2>14. IsFiniteSet(DOMAIN instance') /\ DOMAIN instance' = DOMAIN instance \cup A
    <3>1. IsFiniteSet(DOMAIN instance')
      BY <2>3, <2>7, <2>9, <2>10, SumaEnBolsas
    <3>2. DOMAIN (instance (+) C) = DOMAIN instance \cup DOMAIN C
      BY DEF (+)
    <3> QED BY <2>3, <2>10, <3>1, <3>2
  <2>15. \A X : Suma(instance', DOMAIN instance' \cap X)
                  = Suma(instance, DOMAIN instance \cap X) + Suma(C, A \cap X)
    <3> TAKE X
    <3>1. IsFiniteSet(DOMAIN C)
      BY <2>9, <2>10
    <3>2. instance' = instance (+) C
      BY <2>3
    <3>3. Suma(instance', DOMAIN instance' \cap X)
            = Suma(instance, DOMAIN instance \cap X) + Suma(C, DOMAIN C \cap X)
      BY <2>7, <2>10, <3>1, <3>2, SumaEnBolsas
    <3> QED BY <2>10, <3>3
  <2>16. ASSUME NEW w \in Visitas(ii)
         PROVE  Repeticiones({q \in DOMAIN instance : q.posvi = w})' =
                  IF w \in visitasAsignadas'
                  THEN ii.visita_testimado_bloques[w] * ii.visita_cant_personas[w] ELSE 0
    <3> DEFINE X == {q \in DOMAIN instance' : q.posvi = w}
               S == {q \in DOMAIN instance : q.posvi = w}
               T == {q \in A : q.posvi = w}
    <3>0. Suma(instance', DOMAIN instance' \cap X)
            = Suma(instance, DOMAIN instance \cap X) + Suma(C, A \cap X)
      BY <2>15
    <3>1. Suma(instance', X) = Suma(instance, S) + Suma(C, T)
      <4>1. DOMAIN instance' \cap X = X /\ DOMAIN instance \cap X = S /\ A \cap X = T
        BY <2>14
      <4> QED BY <3>0, <4>1
    <3>2. Suma(instance, S) = IF w \in visitasAsignadas
                              THEN ii.visita_testimado_bloques[w] * ii.visita_cant_personas[w]
                              ELSE 0
      BY <2>7 DEF CuartetasCompletas, Repeticiones
    <3>3. Suma(C, T) = Cardinality(T) * k
      BY <2>13
    <3>4. CASE w = v
      <4>1. Cardinality(T) = ii.visita_testimado_bloques[v]
        BY <2>9, <3>4
      <4>2. ii.visita_testimado_bloques[v] \in Nat
        BY <2>2, <2>4 DEF EsInstancia
      <4> HIDE DEF X, S, T
      <4>3. Suma(instance', X) = 0 + ii.visita_testimado_bloques[v] * k
        BY <2>5, <3>1, <3>2, <3>3, <3>4, <4>1
      <4>4. \A a, b \in Nat : 0 + a * b = a * b
        OBVIOUS
      <4>5. Suma(instance', X) = ii.visita_testimado_bloques[v] * ii.visita_cant_personas[v]
        BY <2>4, <4>2, <4>3, <4>4
      <4> QED BY <2>3, <3>4, <4>5 DEF Repeticiones, X
    <3>5. CASE w # v
      <4>1. T = {}
        <5>1. w # -1
          BY <2>2 DEF Visitas, EsInstancia
        <5> QED BY <2>9, <3>5, <5>1
      <4>2. Suma(C, T) = 0
        BY <4>1, SumaVacia
      <4>3. Suma(instance, S) \in Int
        <5>1. ii.visita_testimado_bloques[w] \in Nat /\ ii.visita_cant_personas[w] \in Nat
          BY <2>2 DEF EsInstancia
        <5> HIDE DEF S
        <5> QED BY <3>2, <5>1
      <4> HIDE DEF X, S, T
      <4>4. Suma(instance', X) = Suma(instance, S)
        BY <3>1, <4>2, <4>3
      <4> QED BY <2>3, <3>2, <3>5, <4>4 DEF Repeticiones, X
    <3> QED BY <3>4, <3>5
  <2>17. ASSUME NEW u \in Vehiculos(ii)
         PROVE  Repeticiones({q \in DOMAIN instance : q.posve = u})' =
                  Suma([r \in viajes' |-> 2 * bloquesTraslado(ii, r.visita)
                                            * ii.visita_cant_personas[r.visita]],
                       {r \in viajes' : r.vehiculo = u})
    <3> DEFINE X == {q \in DOMAIN instance' : q.posve = u}
               S == {q \in DOMAIN instance : q.posve = u}
               T == {q \in A : q.posve = u}
               f == [r \in viajes |-> 2 * bloquesTraslado(ii, r.visita)
                                        * ii.visita_cant_personas[r.visita]]
               g == [r \in viajes' |-> 2 * bloquesTraslado(ii, r.visita)
                                         * ii.visita_cant_personas[r.visita]]
               R == {r \in viajes : r.vehiculo = u}
    <3>0. Suma(instance', DOMAIN instance' \cap X)
            = Suma(instance, DOMAIN instance \cap X) + Suma(C, A \cap X)
      BY <2>15
    <3>1. Suma(instance', X) = Suma(instance, S) + Suma(C, T)
      <4>1. DOMAIN instance' \cap X = X /\ DOMAIN instance \cap X = S /\ A \cap X = T
        BY <2>14
      <4> QED BY <3>0, <4>1
    <3>2. Suma(instance, S) = Suma(f, R)
      BY <2>7 DEF CuartetasCompletas, Repeticiones
    <3>3. Suma(C, T) = Cardinality(T) * k
      BY <2>13
    <3>4. \A r \in viajes' : /\ bloquesTraslado(ii, r.visita) \in Nat
                             /\ ii.visita_cant_personas[r.visita] \in Nat
      BY <2>2, <2>3, <2>8, TrasladoNat DEF EsInstancia
    <3>5. (\A r \in viajes : f[r] \in Int /\ g[r] = f[r]) /\ \A r \in viajes' : g[r] \in Int
      BY <2>3, <3>4
    <3>6. g[nuevo] = 2 * bloquesTraslado(ii, v) * k
      BY <2>3, <2>4, <2>6
    <3>7. IsFiniteSet(R)
      <4>1. R \in SUBSET viajes
        OBVIOUS
      <4> HIDE DEF R
      <4> QED BY <2>7, <4>1, FS_Subset
    <3>8. \A r \in R : r \in viajes
      OBVIOUS
    <3>9. CASE u = ve
      <4>1. Cardinality(T) = 2 * bloquesTraslado(ii, v)
        BY <2>9, <3>9
      <4>2. {r \in viajes' : r.vehiculo = u} = R \cup {nuevo} /\ nuevo \notin R
        BY <2>3, <2>5, <2>6, <3>9
      <4> HIDE DEF X, S, T, R, f, g
      <4>3. Suma(g, R \cup {nuevo}) = Suma(f, R) + g[nuevo]
        BY <2>3, <3>5, <3>7, <3>8, <4>2, SumaDeViajes
      <4>4. Suma(instance', X) = Suma(g, R \cup {nuevo})
        BY <3>1, <3>2, <3>3, <3>6, <4>1, <4>3
      <4> QED BY <4>2, <4>4 DEF Repeticiones, X, g
    <3>10. CASE u # ve
      <4>1. T = {}
        <5>1. u # -1
          BY <2>2 DEF Vehiculos, EsInstancia
        <5> QED BY <2>9, <3>10, <5>1
      <4>2. Suma(C, T) = 0
        BY <4>1, SumaVacia
      <4>3. {r \in viajes' : r.vehiculo = u} = R
        BY <2>3, <2>6, <3>10
      <4> HIDE DEF X, S, T, R, f, g
      <4>4. Suma(f, R) \in Int
        BY <3>5, <3>7, <3>8, SumaTipo
      <4>5. Suma(g, R) = Suma(f, R)
        BY <3>5, <3>7, <3>8, SumaCongruente
      <4>6. Suma(instance', X) = Suma(g, R)
        BY <3>1, <3>2, <4>2, <4>4, <4>5
      <4> QED BY <4>3, <4>6 DEF Repeticiones, X, g
    <3> QED BY <3>9, <3>10
  <2>18. CuartetasCompletas'
    BY <2>3, <2>16, <2>17 DEF CuartetasCompletas
  <2> QED BY <2>11, <2>12, <2>14, <2>18 DEF Contabilidad
<1> QED BY <1>1, <1>2, <1>3

-----------------------------------------------------------------------------
(* Theorems                                                                *)

LEMMA IInvInicial ==
  ASSUME Init PROVE IInv
<1>1. EsInstancia(ii)
  BY InstanciasAssumption DEF Init
<1>2. /\ ii.h \in Nat \ {0} /\ 0 \in Bloques(ii) /\ 0 \in 0 .. ii.h
  BY <1>1 DEF EsInstancia, Bloques
<1>3. IsABag(instance) /\ DOMAIN instance = {}
  BY DEF Init, EmptyBag, SetToBag, IsABag
<1>4. <<>> \in Seq(Tripletas(ii)) /\ <<>> \in Seq(Pedidas) /\ Len(<<>>) = 0
  BY EmptySeq
<1>5. TypeOK
  <2>1. horasUsoVeh \in [Vehiculos(ii) -> SUBSET Bloques(ii)]
    BY DEF Init
  <2>2. horasDispPer \in [Personas(ii) -> SUBSET Bloques(ii)]
    BY <1>1 DEF Init, EsInstancia
  <2>3. insIn = <<>> /\ visJornada = <<>> /\ viajes = {} /\ visitasAsignadas = {}
    BY DEF Init
  <2>4. /\ pc = "inicio" /\ costo = 0 /\ isValid = FALSE /\ i = 1 /\ deltaBloques = 0
        /\ jor_pos_inicio = 0 /\ jor_pos_fin = 0 /\ t_jorn_fin = 0
    BY DEF Init
  <2>5. insIn \in Seq(Tripletas(ii)) /\ visJornada \in Seq(Tripletas(ii))
    BY <1>4, <2>3
  <2>6. /\ pc \in {"inicio", "jornada", "extiende", "recolecta", "visita", "bloque",
                  "checker", "fin", "abortado"}
        /\ isValid \in BOOLEAN
    BY <2>4
  <2>7. /\ costo \in Nat /\ i \in Nat \ {0} /\ deltaBloques \in Nat /\ t_jorn_fin \in Nat
        /\ jor_pos_inicio \in Bloques(ii) /\ jor_pos_fin \in 0 .. ii.h
    BY <1>2, <2>4
  <2>8. viajes \subseteq Viajes /\ visitasAsignadas \subseteq Visitas(ii)
        /\ IsABag(instance) /\ DOMAIN instance \subseteq Cuartetas
    BY <1>3, <2>3
  <2> QED BY <1>1, <2>1, <2>2, <2>5, <2>6, <2>7, <2>8 DEF TypeOK
<1>6. DiaIdentificado
  BY DEF Init, DiaIdentificado, EnJornada
<1>7. CandidatasAcotadas
  BY <1>4 DEF Init, CandidatasAcotadas
<1>8. UsoMarcado /\ VisitaUnaVez /\ ViajeEnJornada /\ VehiculoExclusivo
  BY DEF Init, UsoMarcado, VisitaUnaVez, ViajeEnJornada, VehiculoExclusivo
<1>9. DisponibilidadCoherente
  BY <1>3 DEF Init, DisponibilidadCoherente
<1> QED BY <1>5, <1>6, <1>7, <1>8, <1>9 DEF IInv

LEMMA IInvPaso ==
  ASSUME IInv, [Next]_vars PROVE IInv'
<1>1. CASE Next
  <2>1. TypeOK' /\ DiaIdentificado' /\ CandidatasAcotadas'
    BY <1>1, TiposPaso, DiaPaso, CandidatasPaso DEF IInv
  <2>2. ViajesInv'
    BY <1>1, ViajesPaso DEF IInv, ViajesInv
  <2>3. DisponibilidadCoherente'
    BY <1>1, DisponibilidadPaso DEF IInv
  <2> QED BY <2>1, <2>2, <2>3 DEF IInv, ViajesInv
<1>2. CASE UNCHANGED vars
  <2>1. UNCHANGED <<ii, pc, insIn, visitasAsignadas, horasUsoVeh, horasDispPer, instance,
                    costo, viajes, isValid, jor_pos_inicio, jor_pos_fin, t_jorn_fin,
                    visJornada, i, deltaBloques>>
    BY <1>2 DEF vars, solucion, jornada
  <2>2. Cuartetas' = Cuartetas /\ Viajes' = Viajes /\ Pedidas' = Pedidas
    BY <2>1, MismaInstancia
  <2>3. TypeOK' /\ CandidatasAcotadas'
    BY <2>1, <2>2 DEF IInv, TypeOK, CandidatasAcotadas
  <2>4. DiaIdentificado'
    BY <2>1 DEF IInv, DiaIdentificado, EnJornada, Dia
  <2>5. UsoMarcado' /\ VisitaUnaVez' /\ ViajeEnJornada' /\ VehiculoExclusivo'
    BY <2>1 DEF IInv, UsoMarcado, VisitaUnaVez, ViajeEnJornada, VehiculoExclusivo
  <2>6. DisponibilidadCoherente'
    BY <2>1 DEF IInv, DisponibilidadCoherente
  <2> QED BY <2>3, <2>4, <2>5, <2>6 DEF IInv
<1> QED BY <1>1, <1>2

(* The day, the candidates, the trips and the marks at every point of the  *)
(* search (SRPlanner.cpp:56-214).                                          *)
THEOREM Invariante == Spec => []IInv
<1>1. Init => IInv
  BY IInvInicial
<1>2. IInv /\ [Next]_vars => IInv'
  BY IInvPaso
<1> QED BY <1>1, <1>2, PTL DEF Spec

(* Every variable keeps its type: in particular no position the planner    *)
(* computes for a vehicle, a person or a block lies outside the instance   *)
(* (SRPlanner.cpp:56-214).                                                 *)
THEOREM Tipos == Spec => []TypeOK
<1>1. IInv => TypeOK
  BY DEF IInv
<1> QED BY <1>1, Invariante, PTL

(* No vehicle is reserved twice for one block, whatever the instance and   *)
(* the assignment the solver answers (SRPlanner.cpp:154-160).              *)
THEOREM VehiculosExclusivos == Spec => []VehiculoExclusivo
<1>1. IInv => VehiculoExclusivo
  BY DEF IInv
<1> QED BY <1>1, Invariante, PTL

(* The day in hand is always a whole run of blocks with no gap, as long as *)
(* its blocks last, and it ends where the calendar does or breaks          *)
(* (SRPlanner.cpp:91-99).                                                  *)
THEOREM DiaSiempreIdentificado == Spec => []DiaIdentificado
<1>1. IInv => DiaIdentificado
  BY DEF IInv
<1> QED BY <1>1, Invariante, PTL

(* The marks of the vehicles are the blocks of the trips made, no more and *)
(* no less (SRPlanner.cpp:160).                                            *)
THEOREM MarcasFieles == Spec => []UsoMarcado
<1>1. IInv => UsoMarcado
  BY DEF IInv
<1> QED BY <1>1, Invariante, PTL

(* A visit is marked exactly when it has one trip, however many of its     *)
(* candidate entries are left (SRPlanner.cpp:138,184).                     *)
THEOREM VisitasUnaSolaVez == Spec => []VisitaUnaVez
<1>1. IInv => VisitaUnaVez
  BY DEF IInv
<1> QED BY <1>1, Invariante, PTL

(* A trip lasts what it takes and crosses no gap of the calendar: the      *)
(* comparison of times at SRPlanner.cpp:138 is enough to stay within the   *)
(* blocks of the day.                                                      *)
THEOREM ViajesEnSuJornada == Spec => []ViajeEnJornada
<1>1. IInv => ViajeEnJornada
  BY DEF IInv
<1> QED BY <1>1, Invariante, PTL

(* The free blocks kept for a person are the declared ones without those   *)
(* the solution books her in (SRPlanner.cpp:76-85,180).                    *)
THEOREM DisponibilidadFiel == Spec => []DisponibilidadCoherente
<1>1. IInv => DisponibilidadCoherente
  BY DEF IInv
<1> QED BY <1>1, Invariante, PTL

(* The accounts of the solution at every point of the search: its trips,   *)
(* its cost and its bag of Cuartetas tell the same story                   *)
(* (SRPlanner.cpp:155-196).                                                *)
THEOREM CuentasAlDia == Spec => []Contabilidad
<1>1. Init => Contabilidad
  BY ContabilidadInicial
<1>2. IInv /\ Contabilidad /\ [Next]_vars => Contabilidad'
  BY ContabilidadPaso
<1> QED BY <1>1, <1>2, Invariante, PTL DEF Spec

(* The cost is that of going to each assigned visit and back, each with    *)
(* the vehicle that was reserved for it (SRPlanner.cpp:158).               *)
THEOREM CostoDeLosViajes == Spec => []CostoExacto
<1>1. Contabilidad => CostoExacto
  BY DEF Contabilidad
<1> QED BY <1>1, CuentasAlDia, PTL

(* An assigned visit has exactly a Cuarteta for each of its blocks and     *)
(* people, an unassigned one none, and each vehicle those of the journeys  *)
(* of its trips (SRPlanner.cpp:160-196).                                   *)
THEOREM CuartetasDeCadaVisita == Spec => []CuartetasCompletas
<1>1. Contabilidad => CuartetasCompletas
  BY DEF Contabilidad
<1> QED BY <1>1, CuentasAlDia, PTL

-----------------------------------------------------------------------------
(* The planner implements the agenda of vehicles.                          *)

(* The agenda reads the instance as the planner does. *)
LEMMA MismaLectura ==
  ASSUME NEW x, NEW v
  PROVE  /\ Agenda!Visitas(x) = Visitas(x) /\ Agenda!Vehiculos(x) = Vehiculos(x)
         /\ Agenda!Bloques(x) = Bloques(x)
         /\ Agenda!bloquesTotal(x, v) = bloquesTotal(x, v)
         /\ Agenda!bloqueContiguoConSiguiente(x, v) = bloqueContiguoConSiguiente(x, v)
BY DEF Agenda!Visitas, Visitas, Agenda!Vehiculos, Vehiculos, Agenda!Bloques, Bloques,
       Agenda!bloquesTotal, bloquesTotal, Agenda!bloquesTraslado, bloquesTraslado,
       Agenda!bloqueContiguoConSiguiente, bloqueContiguoConSiguiente,
       Agenda!sumaMinutos, sumaMinutos

LEMMA AgendaPaso ==
  ASSUME IInv, [Next]_vars PROVE [Agenda!NextAgenda]_(Agenda!varsAgenda)
<1>1. CASE UNCHANGED vars
  BY <1>1 DEF vars, solucion, Agenda!varsAgenda
<1>2. CASE Next /\ ~ \E ve \in Vehiculos(ii) : Asignar(ve)
  <2>1. ii' = ii /\ viajes' = viajes
    BY <1>2, InstanciaFija, SolucionFija DEF solucion
  <2> QED BY <2>1 DEF Agenda!varsAgenda
<1>3. CASE Next /\ \E ve \in Vehiculos(ii) : Asignar(ve)
  <2>1. PICK ve \in Vehiculos(ii) : Asignar(ve)
    BY <1>3
  <2> DEFINE v == pvisitalocal
             a == countBloqueInicio
             b == a + bloquesTotal(ii, v) - 1
  <2>2. TypeOK /\ DiaIdentificado /\ CandidatasAcotadas /\ UsoMarcado /\ ViajeEnJornada
    BY DEF IInv
  <2>3. /\ Evaluando /\ Libre(ve) /\ ve \in Buscados(v) /\ b = countBloqueFin
        /\ viajes' = viajes \cup {[visita |-> v, vehiculo |-> ve, ini |-> a, fin |-> b]}
    BY <2>1 DEF Asignar, countBloqueFin, total
  <2>4. /\ v \in Visitas(ii) /\ a \in Bloques(ii) /\ b \in Bloques(ii)
        /\ jor_pos_inicio <= a /\ a <= b /\ b <= jor_pos_fin - 1
        /\ a \in Nat /\ b \in Nat
    BY <2>2, <2>3, CabeEnElDia, Asignado
  <2>5. \A r \in viajes : r.visita # v
    BY <2>3 DEF IInv, VisitaUnaVez, Evaluando
  <2>6. ve \in ii.visita_vehiculos[v]
    <3>1. ii.m \in Nat
      BY <2>2 DEF TypeOK, EsInstancia
    <3> QED BY <2>3, <3>1 DEF Buscados, Vehiculos
  <2>7. a .. b \subseteq Bloques(ii)
    <3>1. ii.h \in Nat
      BY <2>2 DEF TypeOK, EsInstancia
    <3> HIDE DEF a, b
    <3> QED BY <2>4, <3>1 DEF Bloques
  <2>8. Agenda!MismaJornada(a, b)
    <3>1. \A c \in jor_pos_inicio .. jor_pos_fin - 1 - 1 : bloqueContiguoConSiguiente(ii, c)
      BY <2>2, <2>3 DEF DiaIdentificado, Dia, EnJornada, Evaluando
    <3>2. jor_pos_inicio \in Int /\ jor_pos_fin \in Int
      BY <2>2 DEF TypeOK, EsInstancia, Bloques
    <3>3. a .. b - 1 \subseteq jor_pos_inicio .. jor_pos_fin - 1 - 1
      BY <2>4, <3>2
    <3> HIDE DEF a, b
    <3> QED BY <3>1, <3>3, MismaLectura DEF Agenda!MismaJornada
  <2>9. \A c \in a .. b : \A r \in viajes : ~ Agenda!Ocupa(r, ve, c)
    <3> SUFFICES ASSUME NEW c \in a .. b, NEW r \in viajes, Agenda!Ocupa(r, ve, c)
                 PROVE  FALSE
      OBVIOUS
    <3>1. r.vehiculo = ve /\ r.ini <= c /\ c <= r.fin
      BY DEF Agenda!Ocupa
    <3>2. b < r.ini \/ r.fin < a
      BY <2>2, <2>3, <3>1, VehiculoLibre
    <3>3. r.ini \in Int /\ r.fin \in Int
      BY <2>2, ViajeOrdenado
    <3> QED BY <2>4, <3>1, <3>2, <3>3
  <2>10. ii' = ii
    BY <1>3, InstanciaFija
  <2> HIDE DEF v, a
  <2>11. Agenda!Reservar(v, ve, a)
    BY <2>3, <2>5, <2>6, <2>7, <2>8, <2>9, <2>10, MismaLectura DEF Agenda!Reservar
  <2>12. Agenda!NextAgenda
    BY <2>4, <2>11, MismaLectura DEF Agenda!NextAgenda
  <2> QED BY <2>12
<1> QED BY <1>1, <1>2, <1>3

(* Whatever the search tries, all it does to the vehicles is to make       *)
(* reservations an agenda accepts (SRPlanner.cpp:117-198).                 *)
THEOREM ImplementaAgenda == Spec => AgendaSpec
<1>1. Init => Agenda!InitAgenda
  BY DEF Init, Agenda!InitAgenda
<1>2. IInv /\ [Next]_vars => [Agenda!NextAgenda]_(Agenda!varsAgenda)
  BY AgendaPaso
<1> QED BY <1>1, <1>2, Invariante, PTL DEF Spec, AgendaSpec, Agenda!SpecAgenda

-----------------------------------------------------------------------------
(* The loops advance                                                       *)

Falta(a) == IF a > 0 THEN a ELSE 0

(* What is left to do, the most significant first: blocks of the calendar  *)
(* no day has reached, phases of a day, entries to look at, whether the    *)
(* visit in turn is still to be taken, starts to try for it                *)
Dias == ii.h - jor_pos_fin

Fases ==
  [inicio |-> 6, recolecta |-> 5, visita |-> 4, bloque |-> 4, jornada |-> 3, extiende |-> 2,
   checker |-> 1, fin |-> 0, abortado |-> 0]

Entradas  == Falta(Len(insIn) + 1 - i)
PorTomar  == IF pc = "visita" THEN 1 ELSE 0
Comienzos == Falta(ii.h - deltaBloques)

MedidaNatural ==
  /\ Dias \in Nat /\ Fases[pc] \in Nat /\ Entradas \in Nat
  /\ PorTomar \in Nat /\ Comienzos \in Nat

Avanza ==
  \/ Dias' < Dias
  \/ Dias' = Dias /\ Fases[pc'] < Fases[pc]
  \/ Dias' = Dias /\ Fases[pc'] = Fases[pc] /\ Entradas' < Entradas
  \/ Dias' = Dias /\ Fases[pc'] = Fases[pc] /\ Entradas' = Entradas /\ PorTomar' < PorTomar
  \/ /\ Dias' = Dias /\ Fases[pc'] = Fases[pc] /\ Entradas' = Entradas
     /\ PorTomar' = PorTomar /\ Comienzos' < Comienzos

LEMMA FaltaBaja ==
  /\ \A a \in Int : Falta(a) \in Nat
  /\ \A a, b \in Int : a < b /\ 0 < b => Falta(a) < Falta(b)
  BY DEF Falta

LEMMA MedidaEsNatural ==
  ASSUME TypeOK PROVE MedidaNatural
<1>1. ii.h \in Nat /\ jor_pos_fin \in 0 .. ii.h /\ i \in Nat /\ deltaBloques \in Nat
  BY DEF TypeOK, EsInstancia
<1>2. Len(insIn) \in Nat
  BY LenProperties DEF TypeOK
<1>3. Fases[pc] \in Nat
  BY DEF TypeOK, Fases
<1>4. Dias \in Nat
  BY <1>1 DEF Dias
<1>5. Entradas \in Nat /\ Comienzos \in Nat
  <2>1. Len(insIn) + 1 - i \in Int /\ ii.h - deltaBloques \in Int
    BY <1>1, <1>2
  <2> QED BY <2>1, FaltaBaja DEF Entradas, Comienzos
<1>6. PorTomar \in Nat
  BY DEF PorTomar
<1> QED BY <1>3, <1>4, <1>5, <1>6 DEF MedidaNatural

(* Of a day already found, only the phase, or a loop inside it, changes. *)
LEMMA CadaPaso ==
  ASSUME IInv, Next PROVE Avanza
<1>1. /\ ii.h \in Nat /\ jor_pos_fin \in 0 .. ii.h /\ i \in Nat \ {0} /\ deltaBloques \in Nat
      /\ ii.h \in Int /\ jor_pos_fin \in Int
  BY DEF IInv, TypeOK, EsInstancia
<1>2. Len(insIn) \in Nat /\ Len(visJornada) \in Nat /\ Len(visJornada) <= Len(insIn)
  BY LenProperties DEF IInv, TypeOK, CandidatasAcotadas
<1>3. ASSUME ii' = ii, jor_pos_fin' = jor_pos_fin PROVE Dias' = Dias
  BY <1>3 DEF Dias
<1>4. CASE MinCostFlow
  BY <1>3, <1>4 DEF MinCostFlow, jornada, Avanza, Fases
<1>5. CASE SinFlujo
  BY <1>3, <1>5 DEF SinFlujo, jornada, Avanza, Fases
<1>6. CASE IniciarJornada
  BY <1>3, <1>6 DEF IniciarJornada, Avanza, Fases
<1>7. CASE ExtenderJornada
  BY <1>1, <1>7 DEF ExtenderJornada, Avanza, Dias
<1>8. CASE CerrarJornada
  BY <1>1, <1>8 DEF CerrarJornada, Avanza, Dias
<1>9. CASE Recolectar
  <2>1. i <= Len(insIn) /\ i' = i + 1 /\ insIn' = insIn /\ pc' = pc /\ Dias' = Dias
    BY <1>3, <1>9 DEF Recolectar, PorRecolectar, jornada
  <2>2. /\ Len(insIn) + 1 - (i + 1) \in Int /\ Len(insIn) + 1 - i \in Int
        /\ Len(insIn) + 1 - (i + 1) < Len(insIn) + 1 - i /\ 0 < Len(insIn) + 1 - i
    BY <1>1, <1>2, <2>1
  <2>3. Entradas' = Falta(Len(insIn) + 1 - (i + 1))
    BY <2>1 DEF Entradas
  <2>4. Entradas' < Entradas
    BY <2>2, <2>3, FaltaBaja DEF Entradas
  <2> QED BY <2>1, <2>4 DEF Avanza
<1>10. CASE FinRecolectar
  BY <1>3, <1>10 DEF FinRecolectar, jornada, Avanza, Fases
<1>11. CASE TomarVisita
  <2>1. /\ pc = "visita" /\ pc' = "bloque" /\ Dias' = Dias
        /\ i' = i /\ insIn' = insIn
    BY <1>3, <1>11 DEF TomarVisita, jornada
  <2> QED BY <2>1 DEF Avanza, Fases, Entradas, PorTomar
<1>12. CASE FinJornada
  <2>1. pc = "visita" /\ pc' \in {"jornada", "checker"} /\ Dias' = Dias
    BY <1>3, <1>12 DEF FinJornada, jornada
  <2> QED BY <2>1 DEF Avanza, Fases
<1>13. ASSUME pc = "bloque", pc' = "visita", Dias' = Dias, insIn' = insIn,
              i' \in Nat, i < i'
       PROVE  Avanza
  <2>1. i <= Len(insIn)
    BY <1>1, <1>2, <1>13 DEF IInv, CandidatasAcotadas
  <2>2. Entradas' < Entradas
    <3>1. /\ Len(insIn) + 1 - i' \in Int /\ Len(insIn) + 1 - i \in Int
          /\ Len(insIn) + 1 - i' < Len(insIn) + 1 - i /\ 0 < Len(insIn) + 1 - i
      <4>1. /\ Len(insIn) \in Int /\ i \in Int /\ i' \in Int
            /\ i < i' /\ i <= Len(insIn)
        BY <1>1, <1>2, <1>13, <2>1
      <4> QED BY <4>1
    <3>2. Entradas' = Falta(Len(insIn) + 1 - i')
      BY <1>13 DEF Entradas
    <3> QED BY <3>1, <3>2, FaltaBaja DEF Entradas
  <2> QED BY <1>13, <2>2 DEF Avanza, Fases
<1>14. ASSUME NEW ve \in Vehiculos(ii), Asignar(ve) PROVE Avanza
  <2>1. cantPersonas \in Nat \ {0}
    BY <1>14, CabeEnElDia DEF IInv, Asignar
  <2>2. pc = "bloque" /\ pc' = "visita" /\ Dias' = Dias /\ insIn' = insIn
        /\ i' = i + cantPersonas
    BY <1>3, <1>14 DEF Asignar, Evaluando, Siguiente, jornada
  <2> HIDE DEF cantPersonas
  <2>3. i' \in Nat /\ i < i'
    BY <1>1, <2>1, <2>2
  <2> QED BY <1>13, <2>2, <2>3
<1>15. CASE SiguienteBloque
  <2>1. /\ deltaBloques' = deltaBloques + 1 /\ pc' = pc /\ i' = i /\ insIn' = insIn
        /\ Dias' = Dias /\ ii' = ii
    BY <1>3, <1>15 DEF SiguienteBloque, jornada
  <2>2. deltaBloques < ii.h
    <3>1. /\ countBloqueInicio <= countBloqueFin /\ countBloqueFin <= jor_pos_fin - 1
          /\ countBloqueInicio \in Nat /\ countBloqueFin \in Nat
      BY <1>15, CabeEnElDia DEF IInv, SiguienteBloque
    <3>2. jor_pos_inicio \in Nat
      BY <1>1 DEF IInv, TypeOK, Bloques
    <3> HIDE DEF countBloqueFin
    <3> QED BY <1>1, <3>1, <3>2 DEF countBloqueInicio
  <2>3. Comienzos' < Comienzos
    BY <1>1, <2>1, <2>2 DEF Comienzos, Falta
  <2> QED BY <2>1, <2>3 DEF Avanza, Entradas, PorTomar
<1>16. CASE LecturaFuera
  BY <1>3, <1>16 DEF LecturaFuera, Evaluando, jornada, Avanza, Fases
<1>17. CASE DejarVisita
  <2>1. pc = "bloque" /\ pc' = "visita" /\ Dias' = Dias /\ insIn' = insIn /\ i' = i + 1
    BY <1>3, <1>17 DEF DejarVisita, jornada
  <2> QED BY <1>1, <1>13, <2>1
<1>18. CASE Checker
  BY <1>3, <1>18 DEF Checker, jornada, Avanza, Fases
<1> QED
  BY <1>4, <1>5, <1>6, <1>7, <1>8, <1>9, <1>10, <1>11, <1>12, <1>14, <1>15, <1>16, <1>17, <1>18
     DEF Next

(* The four loops, whose variables change inside them, never go round in   *)
(* circles: every step of the constructor lowers, in lexicographic order,  *)
(* the natural numbers above, so that there are finitely many              *)
(* (SRPlanner.cpp:91-199).                                                 *)
THEOREM SiempreAvanza == Spec => []MedidaNatural /\ [][Avanza]_vars
<1>1. IInv => MedidaNatural
  BY MedidaEsNatural DEF IInv
<1>2. IInv /\ [Next]_vars => [Avanza]_vars
  BY CadaPaso
<1> QED BY <1>1, <1>2, Invariante, PTL DEF Spec

-----------------------------------------------------------------------------
(* The candidates of a day.  What has been gathered of the assignment are  *)
(* its first entries, all of which open in time; the assignment is sorted, *)
(* so the entries after the first one that does not open in time do not    *)
(* either.                                                                 *)

Elementos(s) == {s[k] : k \in DOMAIN s}

Reunidas == {k \in 1 .. i - 1 : insIn[k].posVisita \notin visitasAsignadas}

Recoleccion ==
  /\ Ordenada(insIn)
  /\ pc = "recolecta" =>
       /\ i <= Len(insIn) + 1
       /\ \A k \in 1 .. i - 1 : insIn[k].tInicioVisita < t_jorn_fin
       /\ Elementos(visJornada) = {insIn[k] : k \in Reunidas}

(* An appended element joins those of a sequence. *)
LEMMA ElementosAppend ==
  ASSUME NEW S, NEW s \in Seq(S), NEW e \in S
  PROVE  Elementos(Append(s, e)) = Elementos(s) \cup {e}
<1>1. /\ Append(s, e) \in Seq(S) /\ Len(Append(s, e)) = Len(s) + 1
      /\ \A k \in 1 .. Len(s) : Append(s, e)[k] = s[k]
      /\ Append(s, e)[Len(s) + 1] = e
  BY AppendProperties
<1>2. /\ Len(s) \in Nat /\ DOMAIN s = 1 .. Len(s)
      /\ DOMAIN Append(s, e) = 1 .. Len(s) + 1
  BY <1>1, LenProperties
<1>3. 1 .. Len(s) + 1 = (1 .. Len(s)) \cup {Len(s) + 1}
  BY <1>2
<1> DEFINE r == Append(s, e)
<1> HIDE DEF r
<1>4. {r[k] : k \in (1 .. Len(s)) \cup {Len(s) + 1}}
        = {r[k] : k \in 1 .. Len(s)} \cup {r[Len(s) + 1]}
  OBVIOUS
<1>5. {r[k] : k \in 1 .. Len(s)} = {s[k] : k \in 1 .. Len(s)}
  BY <1>1 DEF r
<1> QED BY <1>1, <1>2, <1>3, <1>4, <1>5 DEF Elementos, r

(* The times of the assignment, in order *)
LEMMA TiemposOrdenados ==
  ASSUME EsInstancia(ii), insIn \in Seq(Pedidas), Ordenada(insIn),
         NEW a \in DOMAIN insIn, NEW b \in DOMAIN insIn, a <= b
  PROVE  /\ insIn[a].tInicioVisita \in Int /\ insIn[b].tInicioVisita \in Int
         /\ insIn[a].tInicioVisita <= insIn[b].tInicioVisita
<1>1. \A t \in Pedidas : t.tInicioVisita \in Int
  <2>1. \A v \in Visitas(ii) : getInicioVentanaVisita(ii, v) \in Int
    BY DEF EsInstancia, getInicioVentanaVisita
  <2> QED BY <2>1 DEF Pedidas, Tripletas, Tripleta
<1>2. insIn[a] \in Pedidas /\ insIn[b] \in Pedidas
  BY ElementOfSeq, LenProperties
<1>3. CASE a = b
  BY <1>1, <1>2, <1>3
<1>4. CASE a # b
  <2>1. a \in Nat /\ b \in Nat
    BY LenProperties
  <2>2. a < b
    BY <1>4, <2>1
  <2>3. sortTripletaPorTiempoInicio(insIn[a], insIn[b])
    BY <2>2 DEF Ordenada
  <2> QED BY <1>1, <1>2, <2>3 DEF sortTripletaPorTiempoInicio
<1> QED BY <1>3, <1>4

LEMMA PasoRecolectar ==
  ASSUME IInv, Recoleccion, Recolectar PROVE Recoleccion'
<1>1. /\ pc = "recolecta" /\ pc' = pc /\ i' = i + 1
      /\ UNCHANGED <<insIn, visitasAsignadas, t_jorn_fin>>
      /\ i <= Len(insIn) /\ insIn[i].tInicioVisita < t_jorn_fin
      /\ visJornada' = IF insIn[i].posVisita \in visitasAsignadas
                       THEN visJornada ELSE Append(visJornada, insIn[i])
  BY DEF Recolectar, PorRecolectar, solucion, jornada
<1>2. /\ i \in Nat \ {0} /\ Len(insIn) \in Nat
      /\ visJornada \in Seq(Pedidas) /\ insIn \in Seq(Pedidas)
  BY LenProperties DEF IInv, TypeOK, CandidatasAcotadas
<1>3. insIn[i] \in Pedidas
  BY <1>1, <1>2, ElementOfSeq
<1>4. /\ Ordenada(insIn)
      /\ \A k \in 1 .. i - 1 : insIn[k].tInicioVisita < t_jorn_fin
      /\ Elementos(visJornada) = {insIn[k] : k \in Reunidas}
  BY <1>1 DEF Recoleccion
<1>5. 1 .. i' - 1 = (1 .. i - 1) \cup {i} /\ i' <= Len(insIn) + 1
  BY <1>1, <1>2
<1>6. Ordenada(insIn')
  BY <1>1, <1>4
<1>7. Elementos(visJornada') = {insIn[k] : k \in Reunidas'}
  <2>1. CASE insIn[i].posVisita \in visitasAsignadas
    <3>1. Reunidas' = Reunidas
      BY <1>1, <1>5, <2>1 DEF Reunidas
    <3> QED BY <1>1, <1>4, <2>1, <3>1
  <2>2. CASE insIn[i].posVisita \notin visitasAsignadas
    <3>1. Reunidas' = Reunidas \cup {i}
      BY <1>1, <1>5, <2>2 DEF Reunidas
    <3>2. Elementos(visJornada') = Elementos(visJornada) \cup {insIn[i]}
      BY <1>1, <1>2, <1>3, <2>2, ElementosAppend
    <3>3. {insIn[k] : k \in Reunidas \cup {i}} = {insIn[k] : k \in Reunidas} \cup {insIn[i]}
      OBVIOUS
    <3> QED BY <1>4, <3>1, <3>2, <3>3
  <2> QED BY <2>1, <2>2
<1>8. \A k \in 1 .. i' - 1 : insIn[k].tInicioVisita < t_jorn_fin
  BY <1>1, <1>4, <1>5
<1> QED BY <1>1, <1>5, <1>6, <1>7, <1>8 DEF Recoleccion

LEMMA RecoleccionPaso ==
  ASSUME IInv, Recoleccion, [Next]_vars PROVE Recoleccion'
<1>1. CASE MinCostFlow
  BY <1>1 DEF MinCostFlow, Recoleccion
<1>2. CASE CerrarJornada
  <2>1. /\ visJornada' = <<>> /\ i' = 1 /\ insIn' = insIn
        /\ Len(insIn) \in Nat
    BY <1>2, LenProperties DEF CerrarJornada, IInv, TypeOK
  <2>2. Elementos(visJornada') = {} /\ 1 .. i' - 1 = {}
    BY <2>1 DEF Elementos
  <2>3. Reunidas' = {}
    BY <2>2 DEF Reunidas
  <2>4. Ordenada(insIn')
    BY <2>1 DEF Recoleccion
  <2> QED BY <2>1, <2>2, <2>3, <2>4 DEF Recoleccion
<1>3. CASE Recolectar
  BY <1>3, PasoRecolectar
<1>4. CASE /\ pc' # "recolecta" /\ insIn' = insIn
  BY <1>4 DEF Recoleccion
<1>5. CASE ExtenderJornada
  BY <1>5 DEF ExtenderJornada, Recoleccion
<1>6. CASE SiguienteBloque
  BY <1>6 DEF SiguienteBloque, Evaluando, Recoleccion
<1>7. CASE UNCHANGED vars
  BY <1>7 DEF vars, solucion, jornada, Recoleccion, Reunidas
<1>8. CASE SinFlujo \/ IniciarJornada \/ FinRecolectar \/ TomarVisita \/ FinJornada
             \/ LecturaFuera \/ DejarVisita \/ Checker \/ \E ve \in Vehiculos(ii) : Asignar(ve)
  BY <1>4, <1>8 DEF SinFlujo, IniciarJornada, FinRecolectar, TomarVisita, FinJornada,
       LecturaFuera, DejarVisita, Checker, Asignar
<1> QED BY <1>1, <1>2, <1>3, <1>5, <1>6, <1>7, <1>8 DEF Next

(* What the collection ends with *)
LEMMA LoReunido ==
  ASSUME IInv, Recoleccion, FinRecolectar
  PROVE  Elementos(visJornada) =
           {t \in Elementos(insIn) :
              t.tInicioVisita < t_jorn_fin /\ t.posVisita \notin visitasAsignadas}
<1>1. pc = "recolecta" /\ ~ PorRecolectar
  BY DEF FinRecolectar
<1>2. /\ i \in Nat \ {0} /\ insIn \in Seq(Pedidas) /\ EsInstancia(ii) /\ t_jorn_fin \in Nat
  BY DEF IInv, TypeOK, CandidatasAcotadas
<1>3. Len(insIn) \in Nat /\ DOMAIN insIn = 1 .. Len(insIn)
  BY <1>2, LenProperties
<1>4. /\ i <= Len(insIn) + 1 /\ Ordenada(insIn)
      /\ \A k \in 1 .. i - 1 : insIn[k].tInicioVisita < t_jorn_fin
      /\ Elementos(visJornada) = {insIn[k] : k \in Reunidas}
  BY <1>1 DEF Recoleccion
<1>5. ASSUME NEW k \in DOMAIN insIn, insIn[k].tInicioVisita < t_jorn_fin
      PROVE  k \in 1 .. i - 1
  <2> SUFFICES ASSUME k >= i PROVE FALSE
    BY <1>2, <1>3
  <2>1. i \in DOMAIN insIn /\ i <= Len(insIn)
    BY <1>2, <1>3
  <2>2. /\ insIn[i].tInicioVisita \in Int /\ insIn[k].tInicioVisita \in Int
        /\ insIn[i].tInicioVisita <= insIn[k].tInicioVisita
    BY <1>2, <1>4, <2>1, TiemposOrdenados
  <2>3. ~ (insIn[i].tInicioVisita < t_jorn_fin)
    BY <1>1, <2>1 DEF PorRecolectar
  <2> QED BY <1>2, <1>5, <2>2, <2>3
<1>6. 1 .. i - 1 \subseteq DOMAIN insIn
  BY <1>2, <1>3, <1>4
<1> QED BY <1>4, <1>5, <1>6 DEF Reunidas, Elementos

LEMMA CompletasPaso ==
  ASSUME IInv, Recoleccion, [Next]_vars, CandidatasCompletas PROVE CandidatasCompletas'
<1>1. CASE FinRecolectar
  BY <1>1, LoReunido DEF FinRecolectar, solucion, jornada, CandidatasCompletas, Elementos
<1>2. CASE \E ve \in Vehiculos(ii) : Asignar(ve)
  <2>1. pc = "bloque" /\ i' = i + cantPersonas
    BY <1>2 DEF Asignar, Evaluando, Siguiente
  <2>2. i \in Nat \ {0} /\ visJornada \in Seq(Pedidas) /\ i <= Len(visJornada)
    BY <2>1 DEF IInv, TypeOK, CandidatasAcotadas
  <2>3. visJornada[i] \in Pedidas
    BY <2>2, ElementOfSeq
  <2>4. cantPersonas \in Nat \ {0}
    <3>1. /\ visJornada[i] \in Tripletas(ii)
          /\ ii.visita_cant_personas[visJornada[i].posVisita] > 0
      BY <2>3 DEF Pedidas
    <3>2. visJornada[i].posVisita \in Visitas(ii)
      BY <3>1 DEF Tripletas, Tripleta
    <3>3. ii.visita_cant_personas[visJornada[i].posVisita] \in Nat
      BY <3>2 DEF IInv, TypeOK, EsInstancia
    <3> QED BY <3>1, <3>3 DEF cantPersonas, pvisitalocal
  <2>5. i' # 1
    BY <2>1, <2>2, <2>4
  <2> QED BY <2>5 DEF CandidatasCompletas
<1>3. CASE DejarVisita
  <2>1. i' # 1
    BY <1>3 DEF DejarVisita, IInv, TypeOK
  <2> QED BY <2>1 DEF CandidatasCompletas
<1>4. CASE UNCHANGED vars
  BY <1>4 DEF vars, solucion, jornada, CandidatasCompletas
<1>5. CASE MinCostFlow \/ SinFlujo \/ IniciarJornada \/ ExtenderJornada \/ CerrarJornada
             \/ Recolectar \/ TomarVisita \/ FinJornada \/ SiguienteBloque \/ LecturaFuera
             \/ Checker
  <2>1. pc' # "visita"
    BY <1>5 DEF MinCostFlow, SinFlujo, IniciarJornada, ExtenderJornada, CerrarJornada,
         Recolectar, TomarVisita, FinJornada, SiguienteBloque, LecturaFuera, Checker, Evaluando
  <2> QED BY <2>1 DEF CandidatasCompletas
<1> QED BY <1>1, <1>2, <1>3, <1>4, <1>5 DEF Next

(* The collection of a day, which stops at the first visit that opens too  *)
(* late, misses no pair that is still unassigned and opens in time, for    *)
(* every instance and every assignment (SRPlanner.cpp:101-115): with       *)
(* several days and any number of pairs it rests on the sort at line 67.   *)
THEOREM CandidatasSiempreCompletas == Spec => []CandidatasCompletas
<1>1. Init => Recoleccion /\ CandidatasCompletas
  BY DEF Init, Recoleccion, CandidatasCompletas, Ordenada
<1>2. IInv /\ (Recoleccion /\ CandidatasCompletas) /\ [Next]_vars
        => (Recoleccion /\ CandidatasCompletas)'
  BY RecoleccionPaso, CompletasPaso
<1> QED BY <1>1, <1>2, Invariante, PTL DEF Spec

-----------------------------------------------------------------------------
(* The people of a visit stand together among the candidates, as many as   *)
(* it asks for: the assignment has that many pairs of each visit, all of   *)
(* them open at the same time, and both are sorted.                        *)

DeVisita(s, v) == {t \in Elementos(s) : t.posVisita = v}

TieneSuGente(s, v) == Cardinality(DeVisita(s, v)) = ii.visita_cant_personas[v]

GenteCompleta ==
  /\ pc \notin {"inicio", "abortado"} => \A v \in Visitas(ii) : TieneSuGente(insIn, v)
  /\ EnJornada => Ordenada(visJornada)
  /\ pc \in {"visita", "bloque"} =>
       \A k \in DOMAIN visJornada : TieneSuGente(visJornada, visJornada[k].posVisita)

(* Pairs of an assignment *)
LEMMA PareCampos ==
  ASSUME EsInstancia(ii), NEW t \in Tripletas(ii)
  PROVE  /\ t.posVisita \in Visitas(ii) /\ t.posPersona \in Personas(ii)
         /\ t.posVisita \in Int /\ t.posPersona \in Int
         /\ t.tInicioVisita \in Int
         /\ t.tInicioVisita = getInicioVentanaVisita(ii, t.posVisita)
<1>1. \A v \in Visitas(ii) : getInicioVentanaVisita(ii, v) \in Int
  BY DEF EsInstancia, getInicioVentanaVisita
<1>2. t.posVisita \in Visitas(ii) /\ t.posPersona \in Personas(ii)
      /\ t.tInicioVisita = getInicioVentanaVisita(ii, t.posVisita)
  BY DEF Tripletas, Tripleta
<1>3. ii.n \in Nat /\ ii.l \in Nat
  BY DEF EsInstancia
<1>4. t.posVisita \in Int /\ t.posPersona \in Int
  BY <1>2, <1>3 DEF Visitas, Personas
<1> QED BY <1>1, <1>2, <1>4

(* No pair comes before itself. *)
LEMMA OrdenEstricto ==
  ASSUME EsInstancia(ii), NEW s \in Seq(Tripletas(ii)), Ordenada(s),
         NEW a \in DOMAIN s, NEW b \in DOMAIN s, s[a] = s[b]
  PROVE  a = b
<1>1. a \in Int /\ b \in Int /\ s[a] \in Tripletas(ii)
  BY LenProperties, ElementOfSeq
<1>2. ~ sortTripletaPorTiempoInicio(s[a], s[b])
  <2>1. s[a].posVisita \in Int /\ s[a].posPersona \in Int /\ s[a].tInicioVisita \in Int
    BY <1>1, PareCampos
  <2> QED BY <2>1 DEF sortTripletaPorTiempoInicio
<1>3. ~ sortTripletaPorTiempoInicio(s[b], s[a])
  BY <1>2
<1> QED BY <1>1, <1>2, <1>3 DEF Ordenada

(* Before the first entry of a visit there is none of it. *)
LEMMA NadieAntes ==
  ASSUME EsInstancia(ii), NEW s \in Seq(Tripletas(ii)), Ordenada(s),
         NEW k \in DOMAIN s, NEW a \in DOMAIN s, a < k,
         s[a].posVisita = s[k].posVisita
  PROVE  k > 1 /\ s[k - 1].posVisita = s[k].posVisita
<1>1. a \in Nat \ {0} /\ k \in Nat \ {0} /\ k <= Len(s) /\ DOMAIN s = 1 .. Len(s)
      /\ Len(s) \in Nat
  BY LenProperties
<1>2. k > 1 /\ k - 1 \in DOMAIN s /\ k - 1 < k /\ (a = k - 1 \/ a < k - 1)
  BY <1>1
<1>3. CASE a = k - 1
  BY <1>2, <1>3
<1>4. CASE a < k - 1
  <2> DEFINE b == k - 1
  <2>1. /\ s[a] \in Tripletas(ii) /\ s[b] \in Tripletas(ii) /\ s[k] \in Tripletas(ii)
    BY <1>2, ElementOfSeq, LenProperties
  <2>2. s[a].tInicioVisita = s[k].tInicioVisita
    BY <2>1, PareCampos
  <2>3. sortTripletaPorTiempoInicio(s[a], s[b]) /\ sortTripletaPorTiempoInicio(s[b], s[k])
    BY <1>2, <1>4 DEF Ordenada
  <2>4. /\ s[a].posVisita \in Int /\ s[b].posVisita \in Int
        /\ s[a].tInicioVisita \in Int /\ s[b].tInicioVisita \in Int
    BY <2>1, PareCampos
  <2> HIDE DEF b
  <2>5. s[b].posVisita = s[k].posVisita
    BY <2>2, <2>3, <2>4 DEF sortTripletaPorTiempoInicio
  <2> QED BY <1>2, <2>5 DEF b
<1> QED BY <1>2, <1>3, <1>4

(* From the first entry of a visit on there are as many as it has people. *)
LEMMA TodasDesdeLaPrimera ==
  ASSUME EsInstancia(ii), NEW s \in Seq(Tripletas(ii)), Ordenada(s),
         NEW k \in DOMAIN s, TieneSuGente(s, s[k].posVisita),
         ~ (k > 1 /\ s[k - 1].posVisita = s[k].posVisita)
  PROVE  k .. k + ii.visita_cant_personas[s[k].posVisita] - 1 \subseteq DOMAIN s
<1> DEFINE v == s[k].posVisita
           c == ii.visita_cant_personas[v]
           S == {a \in DOMAIN s : s[a].posVisita = v}
           f == [a \in S |-> s[a]]
<1>1. /\ Len(s) \in Nat /\ DOMAIN s = 1 .. Len(s) /\ k \in 1 .. Len(s)
  BY LenProperties
<1>2. v \in Visitas(ii) /\ c \in Nat
  <2>1. v \in Visitas(ii)
    BY ElementOfSeq, LenProperties, PareCampos
  <2> QED BY <2>1 DEF EsInstancia
<1>3. S \subseteq k .. Len(s)
  <2> SUFFICES ASSUME NEW a \in S PROVE a >= k
    BY <1>1
  <2>1. a \in DOMAIN s /\ s[a].posVisita = s[k].posVisita
    OBVIOUS
  <2>2. ~ (a < k)
    BY <2>1, NadieAntes
  <2> QED BY <1>1, <2>1, <2>2
<1>4. IsFiniteSet(S) /\ Cardinality(S) <= Len(s) - k + 1
  <2>1. IsFiniteSet(k .. Len(s)) /\ Cardinality(k .. Len(s)) = Len(s) - k + 1
    BY <1>1, FS_Interval
  <2> HIDE DEF S
  <2> QED BY <1>3, <2>1, FS_Subset
<1>5. Cardinality(S) = c
  <2>1. DeVisita(s, v) = {s[a] : a \in S}
    BY DEF DeVisita, Elementos
  <2>2. f \in [S -> DeVisita(s, v)]
    BY <2>1
  <2>3. ASSUME NEW a \in S, NEW b \in S, f[a] = f[b] PROVE a = b
    <3>1. a \in DOMAIN s /\ b \in DOMAIN s /\ s[a] = s[b]
      BY <2>3
    <3> QED BY <3>1, OrdenEstricto
  <2>4. \A t \in DeVisita(s, v) : \E a \in S : f[a] = t
    BY <2>1
  <2> HIDE DEF f, S
  <2>5. ExistsBijection(S, DeVisita(s, v))
    BY <2>2, <2>3, <2>4 DEF ExistsBijection, Bijection, Injection, Surjection, IsInjective
  <2>6. Cardinality(DeVisita(s, v)) = Cardinality(S)
    BY <1>4, <2>5, FS_Bijection
  <2> QED BY <2>6 DEF TieneSuGente
<1> HIDE DEF v, c, S, f
<1>6. c <= Len(s) - k + 1
  BY <1>4, <1>5
<1>7. k .. k + c - 1 \subseteq DOMAIN s
  BY <1>1, <1>2, <1>6
<1> QED BY <1>7 DEF c, v

(* The pairs of a sorted assignment, and how many each visit has *)
LEMMA GenteDelFlujo ==
  ASSUME EsInstancia(ii), NEW F \in Flujos(ii), NEW s \in [1 .. Cardinality(F) -> F],
         Ordenada(s)
  PROVE  \A v \in Visitas(ii) : TieneSuGente(s, v)
<1>1. IsFiniteSet(F) /\ F \subseteq Tripletas(ii)
  <2>1. F \subseteq Tripletas(ii)
    BY DEF Flujos, Arcos
  <2> QED BY <2>1, TripletasFinito, FS_Subset
<1> DEFINE n == Cardinality(F)
<1>2. n \in Nat
  BY <1>1, FS_CardinalityType
<1>3. s \in Seq(Tripletas(ii)) /\ DOMAIN s = 1 .. n
  BY <1>1, <1>2
<1>4. \A a, b \in 1 .. n : s[a] = s[b] => a = b
  BY <1>3, OrdenEstricto
<1>5. IsFiniteSet(1 .. n) /\ Cardinality(1 .. n) = n
  BY <1>2, FS_Interval
<1>6. s \in Injection(1 .. n, F)
  BY <1>4 DEF Injection, IsInjective
<1>7. s \in Surjection(1 .. n, F)
  BY <1>1, <1>5, <1>6, FS_Injection
<1>8. Elementos(s) = F
  BY <1>3, <1>7 DEF Elementos, Surjection
<1> QED BY <1>8 DEF TieneSuGente, DeVisita, Flujos

LEMMA GenteRecolectar ==
  ASSUME IInv, Recoleccion, GenteCompleta, Recolectar PROVE Ordenada(visJornada')
<1>1. /\ pc = "recolecta" /\ i <= Len(insIn)
      /\ visJornada' = IF insIn[i].posVisita \in visitasAsignadas
                       THEN visJornada ELSE Append(visJornada, insIn[i])
  BY DEF Recolectar, PorRecolectar
<1>2. /\ Ordenada(insIn) /\ Ordenada(visJornada)
      /\ Elementos(visJornada) = {insIn[k] : k \in Reunidas}
  BY <1>1 DEF Recoleccion, GenteCompleta, EnJornada
<1>3. /\ i \in Nat \ {0} /\ insIn \in Seq(Pedidas) /\ visJornada \in Seq(Pedidas)
  BY DEF IInv, TypeOK, CandidatasAcotadas
<1>4. /\ Len(insIn) \in Nat /\ DOMAIN insIn = 1 .. Len(insIn)
      /\ Len(visJornada) \in Nat /\ DOMAIN visJornada = 1 .. Len(visJornada)
  BY <1>3, LenProperties
<1>5. CASE insIn[i].posVisita \in visitasAsignadas
  BY <1>1, <1>2, <1>5
<1>6. CASE insIn[i].posVisita \notin visitasAsignadas
  <2> DEFINE r == visJornada'
  <2>1. insIn[i] \in Pedidas /\ i \in DOMAIN insIn
    BY <1>1, <1>3, <1>4, ElementOfSeq
  <2>2. r = Append(visJornada, insIn[i])
    BY <1>1, <1>6
  <2>3. /\ DOMAIN r = 1 .. Len(visJornada) + 1
        /\ \A k \in 1 .. Len(visJornada) : r[k] = visJornada[k]
        /\ r[Len(visJornada) + 1] = insIn[i]
    BY <1>3, <1>4, <2>1, <2>2, AppendProperties
  <2>4. ASSUME NEW k \in DOMAIN visJornada
        PROVE  sortTripletaPorTiempoInicio(visJornada[k], insIn[i])
    <3>1. visJornada[k] \in {insIn[m] : m \in Reunidas}
      BY <1>2 DEF Elementos
    <3>2. PICK m \in Reunidas : visJornada[k] = insIn[m]
      BY <3>1
    <3>3. m \in DOMAIN insIn /\ m < i
      BY <1>1, <1>3, <1>4 DEF Reunidas
    <3> QED BY <1>2, <2>1, <3>2, <3>3 DEF Ordenada
  <2> HIDE DEF r
  <2>5. ASSUME NEW a \in DOMAIN r, NEW b \in DOMAIN r, a < b
        PROVE  sortTripletaPorTiempoInicio(r[a], r[b])
    <3>1. a \in 1 .. Len(visJornada) /\ b \in 1 .. Len(visJornada) + 1
      BY <1>4, <2>3, <2>5
    <3>2. CASE b \in 1 .. Len(visJornada)
      <4>1. r[a] = visJornada[a] /\ r[b] = visJornada[b]
        BY <2>3, <3>1, <3>2
      <4> QED BY <1>2, <1>4, <2>5, <3>1, <3>2, <4>1 DEF Ordenada
    <3>3. CASE b = Len(visJornada) + 1
      BY <1>4, <2>3, <2>4, <3>1, <3>3
    <3> QED BY <1>4, <3>1, <3>2, <3>3
  <2> QED BY <2>5 DEF Ordenada, r
<1> QED BY <1>5, <1>6

LEMMA GentePaso ==
  ASSUME IInv, Recoleccion, GenteCompleta, [Next]_vars PROVE GenteCompleta'
<1>1. CASE MinCostFlow
  <2>1. PICK F \in Flujos(ii) : \E s \in [1 .. Cardinality(F) -> F] :
           Ordenada(s) /\ insIn' = s
    BY <1>1 DEF MinCostFlow
  <2>2. EsInstancia(ii) /\ ii' = ii /\ pc' = "jornada"
    BY <1>1 DEF MinCostFlow, IInv, TypeOK
  <2>3. \A v \in Visitas(ii) : TieneSuGente(insIn', v)
    BY <2>1, <2>2, GenteDelFlujo
  <2>4. ~ EnJornada'
    BY <2>2 DEF EnJornada
  <2> QED BY <2>2, <2>3, <2>4 DEF GenteCompleta, TieneSuGente, DeVisita, EnJornada, Elementos
<1>2. CASE Recolectar
  <2>1. pc = "recolecta" /\ pc' = "recolecta" /\ UNCHANGED <<ii, insIn>>
    BY <1>2 DEF Recolectar
  <2>2. Ordenada(visJornada')
    BY <1>2, GenteRecolectar
  <2> QED BY <2>1, <2>2 DEF GenteCompleta, TieneSuGente, DeVisita
<1>3. CASE FinRecolectar
  <2>1. pc = "recolecta" /\ pc' = "visita" /\ UNCHANGED <<ii, insIn, visJornada>>
    BY <1>3 DEF FinRecolectar
  <2>2. Elementos(visJornada) =
          {t \in Elementos(insIn) :
             t.tInicioVisita < t_jorn_fin /\ t.posVisita \notin visitasAsignadas}
    BY <1>3, LoReunido
  <2>3. EsInstancia(ii) /\ insIn \in Seq(Tripletas(ii)) /\ visJornada \in Seq(Tripletas(ii))
    BY DEF IInv, TypeOK
  <2>4. ASSUME NEW k \in DOMAIN visJornada
        PROVE  TieneSuGente(visJornada, visJornada[k].posVisita)
    <3> DEFINE v == visJornada[k].posVisita
    <3>1. visJornada[k] \in Tripletas(ii) /\ visJornada[k] \in Elementos(visJornada)
      BY <2>3, ElementOfSeq, LenProperties DEF Elementos
    <3>2. /\ getInicioVentanaVisita(ii, v) < t_jorn_fin
          /\ v \notin visitasAsignadas /\ v \in Visitas(ii)
      BY <2>2, <2>3, <3>1, PareCampos
    <3>3. Elementos(insIn) \subseteq Tripletas(ii)
      BY <2>3, ElementOfSeq, LenProperties DEF Elementos
    <3> HIDE DEF v
    <3>4. \A t \in Elementos(insIn) :
            t.posVisita = v => t.tInicioVisita < t_jorn_fin /\ t.posVisita \notin visitasAsignadas
      BY <2>3, <3>2, <3>3, PareCampos
    <3>5. DeVisita(visJornada, v) = DeVisita(insIn, v)
      BY <2>2, <3>4 DEF DeVisita
    <3>6. TieneSuGente(insIn, v)
      BY <2>1, <3>2 DEF GenteCompleta
    <3> QED BY <3>5, <3>6 DEF TieneSuGente, v
  <2>5. Ordenada(visJornada')
    BY <2>1 DEF GenteCompleta, EnJornada
  <2> QED BY <2>1, <2>4, <2>5 DEF GenteCompleta, TieneSuGente, DeVisita, Elementos, EnJornada
<1>4. CASE CerrarJornada
  <2>1. visJornada' = <<>> /\ pc = "extiende" /\ pc' = "recolecta" /\ UNCHANGED <<ii, insIn>>
    BY <1>4 DEF CerrarJornada
  <2>2. Ordenada(visJornada')
    BY <2>1 DEF Ordenada
  <2> QED BY <2>1, <2>2 DEF GenteCompleta, TieneSuGente, DeVisita
<1>5. CASE /\ UNCHANGED <<ii, insIn, visJornada>>
           /\ pc' \notin {"inicio", "abortado"} => pc \notin {"inicio", "abortado"}
           /\ EnJornada' => EnJornada
           /\ pc' \in {"visita", "bloque"} => pc \in {"visita", "bloque"}
  BY <1>5 DEF GenteCompleta, TieneSuGente, DeVisita, Elementos, Ordenada
<1>6. CASE SinFlujo \/ IniciarJornada \/ ExtenderJornada \/ TomarVisita \/ FinJornada
             \/ SiguienteBloque \/ LecturaFuera \/ DejarVisita \/ Checker
             \/ \E ve \in Vehiculos(ii) : Asignar(ve)
  BY <1>5, <1>6 DEF SinFlujo, IniciarJornada, ExtenderJornada, TomarVisita, FinJornada,
       SiguienteBloque, LecturaFuera, DejarVisita, Checker, Asignar, Evaluando, EnJornada
<1>7. CASE UNCHANGED vars
  BY <1>5, <1>7 DEF vars, EnJornada
<1> QED BY <1>1, <1>2, <1>3, <1>4, <1>6, <1>7 DEF Next

(* The candidates are read past their end only for a visit that has failed *)
(* already, from its second entry on: the first entry of each visit always *)
(* finds the people of the whole visit behind it, wherever the loop        *)
(* variable jumps (SRPlanner.cpp:145-146,186).                             *)
THEOREM LecturaFueraSoloSiFallo == Spec => []LecturaFueraSoloTrasFallo
<1>1. Init => Recoleccion /\ GenteCompleta
  BY DEF Init, Recoleccion, GenteCompleta, EnJornada, Ordenada
<1>2. IInv /\ (Recoleccion /\ GenteCompleta) /\ [Next]_vars => (Recoleccion /\ GenteCompleta)'
  BY RecoleccionPaso, GentePaso
<1>3. IInv /\ GenteCompleta => LecturaFueraSoloTrasFallo
  <2> SUFFICES ASSUME IInv, GenteCompleta, Evaluando, ~ Leidas \subseteq DOMAIN visJornada
               PROVE  i > 1 /\ visJornada[i - 1].posVisita = pvisitalocal
    BY DEF LecturaFueraSoloTrasFallo
  <2>1. pc = "bloque" /\ EsInstancia(ii) /\ visJornada \in Seq(Tripletas(ii)) /\ i \in Nat \ {0}
        /\ i <= Len(visJornada)
    BY DEF Evaluando, IInv, TypeOK, CandidatasAcotadas
  <2>2. i \in DOMAIN visJornada
    BY <2>1, LenProperties
  <2>3. Ordenada(visJornada) /\ TieneSuGente(visJornada, visJornada[i].posVisita)
    BY <2>1, <2>2 DEF GenteCompleta, EnJornada
  <2>4. Leidas = i .. i + ii.visita_cant_personas[visJornada[i].posVisita] - 1
    BY DEF Leidas, cantPersonas, pvisitalocal
  <2> QED BY <2>1, <2>2, <2>3, <2>4, TodasDesdeLaPrimera DEF pvisitalocal
<1> QED BY <1>1, <1>2, <1>3, Invariante, PTL DEF Spec

-----------------------------------------------------------------------------
(* The first day.  Nothing is assigned when its candidates are gathered,   *)
(* so they are the first entries of the assignment, one for one; every     *)
(* other day begins after a gap of the calendar, out of the first day.     *)

Corte(b) == b = 0 \/ ~ bloqueContiguoConSiguiente(ii, b - 1)

PrincipioDeDia ==
  /\ pc = "inicio" => jor_pos_fin = 0 /\ visitasAsignadas = {} /\ DOMAIN instance = {}
  /\ pc = "jornada" => Corte(jor_pos_fin) /\ (jor_pos_fin = 0 => visitasAsignadas = {})
  /\ pc \in {"extiende", "recolecta", "visita", "bloque"} => Corte(jor_pos_inicio)
  /\ pc \in {"extiende", "recolecta"} /\ jor_pos_inicio = 0 => visitasAsignadas = {}

MismasEntradas ==
  /\ pc = "recolecta" /\ jor_pos_inicio = 0 =>
       /\ Len(visJornada) = i - 1 /\ i <= Len(insIn) + 1
       /\ \A k \in DOMAIN visJornada : visJornada[k] = insIn[k]
  /\ pc \in {"visita", "bloque"} /\ jor_pos_inicio = 0 =>
       /\ Len(visJornada) <= Len(insIn)
       /\ \A k \in DOMAIN visJornada : visJornada[k] = insIn[k]

LEMMA PrincipioPaso ==
  ASSUME IInv, PrincipioDeDia, [Next]_vars PROVE PrincipioDeDia'
<1>0. CASE UNCHANGED vars
  BY <1>0 DEF vars, solucion, jornada, PrincipioDeDia, Corte, bloqueContiguoConSiguiente
<1>1. ASSUME Next PROVE ii' = ii /\ \A b : bloqueContiguoConSiguiente(ii, b)' =
                                         bloqueContiguoConSiguiente(ii, b)
  BY <1>1, InstanciaFija DEF bloqueContiguoConSiguiente
<1>2. CASE MinCostFlow
  BY <1>2 DEF MinCostFlow, solucion, jornada, PrincipioDeDia, Corte
<1>3. CASE IniciarJornada
  <2>1. /\ pc = "jornada" /\ pc' = "extiende" /\ jor_pos_inicio' = jor_pos_fin
        /\ visitasAsignadas' = visitasAsignadas /\ ii' = ii
    BY <1>3 DEF IniciarJornada, solucion
  <2> QED BY <2>1 DEF PrincipioDeDia, Corte
<1>4. CASE FinJornada
  <2>1. /\ pc = "visita" /\ pc' = (IF jor_pos_fin < ii.h THEN "jornada" ELSE "checker")
        /\ jor_pos_fin' = jor_pos_fin /\ ii' = ii
    BY <1>4 DEF FinJornada, jornada
  <2>2. /\ jor_pos_inicio <= jor_pos_fin - 1
        /\ jor_pos_fin = ii.h \/ ~ bloqueContiguoConSiguiente(ii, jor_pos_fin - 1)
    BY <2>1 DEF IInv, DiaIdentificado, EnJornada, Dia
  <2>3. jor_pos_fin \in Int /\ jor_pos_inicio \in Nat /\ ii.h \in Nat
    BY DEF IInv, TypeOK, EsInstancia, Bloques
  <2>4. jor_pos_fin # 0 /\ (pc' = "jornada" => ~ bloqueContiguoConSiguiente(ii, jor_pos_fin - 1))
    BY <2>1, <2>2, <2>3
  <2> QED BY <2>1, <2>4 DEF PrincipioDeDia, Corte
<1>5. CASE ExtenderJornada \/ CerrarJornada
  <2>1. /\ pc = "extiende" /\ pc' \in {"extiende", "recolecta"}
        /\ UNCHANGED <<ii, jor_pos_inicio, visitasAsignadas>>
    BY <1>5 DEF ExtenderJornada, CerrarJornada, solucion
  <2> QED BY <2>1 DEF PrincipioDeDia, Corte
<1>6. CASE Recolectar \/ FinRecolectar \/ TomarVisita \/ SiguienteBloque \/ DejarVisita
  <2>1. /\ pc \in {"recolecta", "visita", "bloque"} /\ pc' \in {"recolecta", "visita", "bloque"}
        /\ pc' = "recolecta" => pc = "recolecta"
        /\ UNCHANGED <<ii, jor_pos_inicio, visitasAsignadas>>
    BY <1>6 DEF Recolectar, FinRecolectar, TomarVisita, SiguienteBloque, DejarVisita,
         Evaluando, solucion, jornada
  <2> QED BY <2>1 DEF PrincipioDeDia, Corte
<1>7. CASE \E ve \in Vehiculos(ii) : Asignar(ve)
  <2>1. /\ pc = "bloque" /\ pc' = "visita"
        /\ UNCHANGED <<ii, jor_pos_inicio>>
    BY <1>7 DEF Asignar, Evaluando, jornada
  <2> QED BY <2>1 DEF PrincipioDeDia, Corte
<1>8. CASE SinFlujo \/ LecturaFuera \/ Checker
  <2>1. pc' \in {"abortado", "fin"}
    BY <1>8 DEF SinFlujo, LecturaFuera, Checker
  <2> QED BY <2>1 DEF PrincipioDeDia
<1> QED BY <1>0, <1>2, <1>3, <1>4, <1>5, <1>6, <1>7, <1>8 DEF Next

LEMMA EntradasPaso ==
  ASSUME IInv, PrincipioDeDia, MismasEntradas, [Next]_vars PROVE MismasEntradas'
<1>1. /\ i \in Nat \ {0} /\ insIn \in Seq(Pedidas) /\ visJornada \in Seq(Pedidas)
      /\ Len(insIn) \in Nat /\ DOMAIN insIn = 1 .. Len(insIn)
      /\ Len(visJornada) \in Nat /\ DOMAIN visJornada = 1 .. Len(visJornada)
  BY LenProperties DEF IInv, TypeOK, CandidatasAcotadas
<1>2. CASE CerrarJornada
  <2>1. visJornada' = <<>> /\ i' = 1 /\ pc' = "recolecta" /\ insIn' = insIn
    BY <1>2 DEF CerrarJornada
  <2>2. Len(visJornada') = 0 /\ DOMAIN visJornada' = {}
    BY <2>1, EmptySeq
  <2> QED BY <1>1, <2>1, <2>2 DEF MismasEntradas
<1>3. CASE Recolectar
  <2>1. /\ pc = "recolecta" /\ pc' = "recolecta" /\ i' = i + 1 /\ i <= Len(insIn)
        /\ UNCHANGED <<insIn, jor_pos_inicio>>
        /\ insIn[i].posVisita \notin visitasAsignadas =>
             visJornada' = Append(visJornada, insIn[i])
    BY <1>3 DEF Recolectar, PorRecolectar, jornada
  <2> SUFFICES ASSUME jor_pos_inicio = 0 PROVE MismasEntradas'
    BY <2>1 DEF MismasEntradas
  <2>2. /\ Len(visJornada) = i - 1
        /\ \A k \in DOMAIN visJornada : visJornada[k] = insIn[k]
    BY <2>1 DEF MismasEntradas
  <2>3. visJornada' = Append(visJornada, insIn[i])
    BY <2>1 DEF PrincipioDeDia
  <2>4. insIn[i] \in Pedidas
    BY <1>1, <2>1, ElementOfSeq
  <2> DEFINE r == visJornada'
  <2>5. /\ Len(r) = Len(visJornada) + 1
        /\ DOMAIN r = 1 .. Len(visJornada) + 1
        /\ \A k \in 1 .. Len(visJornada) : r[k] = visJornada[k]
        /\ r[Len(visJornada) + 1] = insIn[i]
    BY <1>1, <2>3, <2>4, AppendProperties
  <2> HIDE DEF r
  <2>6. \A k \in DOMAIN r : r[k] = insIn[k]
    BY <1>1, <2>2, <2>5
  <2>7. Len(r) = i' - 1 /\ i' <= Len(insIn) + 1
    BY <1>1, <2>1, <2>2, <2>5
  <2> QED BY <2>1, <2>6, <2>7 DEF MismasEntradas, r
<1>4. CASE FinRecolectar
  <2>1. pc = "recolecta" /\ pc' = "visita" /\ UNCHANGED <<insIn, jor_pos_inicio, visJornada>>
    BY <1>4 DEF FinRecolectar, jornada
  <2> QED BY <1>1, <2>1 DEF MismasEntradas
<1>5. CASE /\ pc' \in {"visita", "bloque"} => pc \in {"visita", "bloque"}
           /\ pc' # "recolecta"
           /\ UNCHANGED <<insIn, jor_pos_inicio, visJornada>>
  BY <1>5 DEF MismasEntradas
<1>6. CASE TomarVisita \/ SiguienteBloque \/ DejarVisita \/ \E ve \in Vehiculos(ii) : Asignar(ve)
  BY <1>5, <1>6 DEF TomarVisita, SiguienteBloque, DejarVisita, Asignar, Evaluando, jornada
<1>7. CASE MinCostFlow \/ SinFlujo \/ IniciarJornada \/ ExtenderJornada \/ FinJornada
             \/ LecturaFuera \/ Checker
  <2>1. pc' \notin {"recolecta", "visita", "bloque"}
    BY <1>7 DEF MinCostFlow, SinFlujo, IniciarJornada, ExtenderJornada, FinJornada,
         LecturaFuera, Checker
  <2> QED BY <2>1 DEF MismasEntradas
<1>8. CASE UNCHANGED vars
  BY <1>8 DEF vars, jornada, MismasEntradas
<1> QED BY <1>2, <1>3, <1>4, <1>6, <1>7, <1>8 DEF Next

LEMMA PersonaPaso ==
  ASSUME IInv, PrincipioDeDia, MismasEntradas, PersonaAsignadaEnPrimeraJornada, [Next]_vars
  PROVE  PersonaAsignadaEnPrimeraJornada'
<1>1. ii' = ii /\ PrimeraJornada' = PrimeraJornada
  <2>1. ii' = ii
    BY InstanciaFija DEF vars
  <2> QED BY <2>1 DEF PrimeraJornada, bloqueContiguoConSiguiente
<1>2. CASE MinCostFlow
  <2>1. DOMAIN instance = {} /\ instance' = instance
    BY <1>2 DEF MinCostFlow, PrincipioDeDia, solucion
  <2> QED BY <2>1 DEF PersonaAsignadaEnPrimeraJornada
<1>3. CASE UNCHANGED <<instance, insIn>>
  BY <1>1, <1>3 DEF PersonaAsignadaEnPrimeraJornada
<1>4. CASE \E ve \in Vehiculos(ii) : Asignar(ve)
  <2>1. PICK ve \in Vehiculos(ii) : Asignar(ve)
    BY <1>4
  <2> DEFINE p == insIn[i].posPersona
  <2>2. /\ Evaluando /\ insIn' = insIn
        /\ instance' = instance (+) [q \in Anotadas(ve, p) |-> cantPersonas]
    BY <2>1 DEF Asignar
  <2>3. TypeOK /\ DiaIdentificado /\ CandidatasAcotadas /\ IsABag(instance)
    BY DEF IInv, TypeOK
  <2>4. cantPersonas \in Nat \ {0} /\ i \in 1 .. Len(insIn)
    BY <2>2, <2>3, CabeEnElDia, Asignado
  <2>5. DOMAIN instance' = DOMAIN instance \cup Anotadas(ve, p)
    BY <2>2, <2>3, <2>4, SumaDeBolsas
  <2>6. ASSUME NEW q \in Anotadas(ve, p), q.posvi # -1, q.posbh \in PrimeraJornada
        PROVE  \E k \in DOMAIN insIn : insIn[k].posPersona = q.posp
                                       /\ insIn[k].posVisita = q.posvi
    <3>1. /\ q.posp = p /\ q.posvi = pvisitalocal
          /\ \E ij \in 0 .. total - 1 : q.posbh = jor_pos_inicio + ij
      BY <2>6 DEF Anotadas
    <3>2. jor_pos_inicio \in Nat /\ total \in Nat
      <4>1. jor_pos_inicio \in Nat
        BY <2>3 DEF TypeOK, EsInstancia, Bloques
      <4>2. total \in Nat
        BY <2>2, <2>3, CabeEnElDia
      <4> QED BY <4>1, <4>2
    <3>3. jor_pos_inicio = 0
      <4> SUFFICES ASSUME jor_pos_inicio # 0 PROVE FALSE
        OBVIOUS
      <4>1. ~ bloqueContiguoConSiguiente(ii, jor_pos_inicio - 1)
        BY <2>2 DEF PrincipioDeDia, Evaluando, Corte
      <4>2. jor_pos_inicio - 1 \in 0 .. q.posbh - 1
        BY <3>1, <3>2
      <4> QED BY <2>6, <4>1, <4>2 DEF PrimeraJornada
    <3>4. i \in DOMAIN visJornada /\ i \in DOMAIN insIn
      BY <2>2, <2>3, <2>4, LenProperties DEF Evaluando, CandidatasAcotadas
    <3>5. visJornada[i] = insIn[i]
      BY <2>2, <3>3, <3>4 DEF MismasEntradas, Evaluando
    <3> QED BY <3>1, <3>4, <3>5 DEF pvisitalocal
  <2> HIDE DEF p
  <2> QED BY <1>1, <2>2, <2>5, <2>6 DEF PersonaAsignadaEnPrimeraJornada
<1>5. CASE SinFlujo \/ IniciarJornada \/ ExtenderJornada \/ CerrarJornada \/ Recolectar
             \/ FinRecolectar \/ TomarVisita \/ FinJornada \/ SiguienteBloque \/ LecturaFuera
             \/ DejarVisita \/ Checker
  BY <1>3, <1>5 DEF SinFlujo, IniciarJornada, ExtenderJornada, CerrarJornada, Recolectar,
       FinRecolectar, TomarVisita, FinJornada, SiguienteBloque, LecturaFuera, DejarVisita,
       Checker, solucion
<1>6. CASE UNCHANGED vars
  BY <1>3, <1>6 DEF vars, solucion
<1> QED BY <1>2, <1>4, <1>5, <1>6 DEF Next

(* In the first day the index into the candidates is right on the whole    *)
(* assignment too: whoever is booked for a visit is one of the people the  *)
(* assignment sends to it (SRPlanner.cpp:163), in every instance.          *)
THEOREM PersonaBienEnPrimeraJornada == Spec => []PersonaAsignadaEnPrimeraJornada
<1>1. Init => PrincipioDeDia /\ MismasEntradas /\ PersonaAsignadaEnPrimeraJornada
  <2> SUFFICES ASSUME Init
               PROVE  PrincipioDeDia /\ MismasEntradas /\ PersonaAsignadaEnPrimeraJornada
    OBVIOUS
  <2>1. DOMAIN instance = {}
    BY DEF Init, EmptyBag, SetToBag
  <2> QED BY <2>1 DEF Init, PrincipioDeDia, MismasEntradas, PersonaAsignadaEnPrimeraJornada
<1>2. IInv /\ (PrincipioDeDia /\ MismasEntradas /\ PersonaAsignadaEnPrimeraJornada) /\ [Next]_vars
        => (PrincipioDeDia /\ MismasEntradas /\ PersonaAsignadaEnPrimeraJornada)'
  BY PrincipioPaso, EntradasPaso, PersonaPaso
<1> QED BY <1>1, <1>2, Invariante, PTL DEF Spec

=============================================================================
