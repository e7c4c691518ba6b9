---------------------------- MODULE Planificador ----------------------------
(***************************************************************************)
(* The planner: the constructor of InstanceSolution (SRPlanner.cpp:56-214) *)
(* that turns an instance into trips.  It asks for an assignment of people *)
(* to visits, sorts it by time, and goes once through the working days of  *)
(* the calendar: for each day it gathers the visits not yet assigned whose *)
(* window has opened, and for each of them it tries one start after        *)
(* another until people and a vehicle are free.                            *)
(*                                                                         *)
(* One action per loop iteration.  Vectors are sequences, so an index is   *)
(* one more than in the code; the three bitmaps are sets of positions.     *)
(***************************************************************************)
EXTENDS Instancia, Sequences, Bags

CONSTANT Instancias       \* the instances given to the program

ASSUME InstanciasAssumption == \A x \in Instancias : EsInstancia(x)

VARIABLES
  ii,                \* the instance; never changed
  pc,                \* where the constructor is
  insIn,             \* the assignment of people to visits, sorted
  visitasAsignadas,  \* the visits marked as assigned
  horasUsoVeh,       \* blocks in which each vehicle is in use
  horasDispPer,      \* blocks each person still has free
  instance,          \* the solution: a bag of Cuartetas
  costo,
  isValid,           \* what the checker said
  jor_pos_inicio,    \* first block of the day
  jor_pos_fin,       \* last block of the day, then the one after it
  t_jorn_fin,        \* time at which the day ends
  visJornada,        \* the candidates of the day
  i,                 \* index into insIn, then into visJornada
  deltaBloques,      \* blocks skipped from the start of the day
  viajes             \* history: the trips made

jornada  == <<jor_pos_inicio, jor_pos_fin, t_jorn_fin>>
solucion == <<visitasAsignadas, horasUsoVeh, horasDispPer, instance, costo, viajes>>
vars     == <<ii, pc, insIn, solucion, isValid, jornada, visJornada, i, deltaBloques>>

-----------------------------------------------------------------------------

Init ==
  /\ ii \in Instancias
  /\ pc = "inicio"
  /\ insIn = <<>>
  /\ visitasAsignadas = {}
  /\ horasUsoVeh = [ve \in Vehiculos(ii) |-> {}]
  /\ horasDispPer = ii.pers_horasdisp
  /\ instance = EmptyBag
  /\ costo = 0
  /\ isValid = FALSE
  /\ jor_pos_inicio = 0 /\ jor_pos_fin = 0 /\ t_jorn_fin = 0
  /\ visJornada = <<>>
  /\ i = 1
  /\ deltaBloques = 0
  /\ viajes = {}

Ordenada(s) ==
  \A a, b \in DOMAIN s : a < b => sortTripletaPorTiempoInicio(s[a], s[b])

(* The solver answers any of its optimal flows, which is then sorted.      *)
MinCostFlow ==
  /\ pc = "inicio"
  /\ \E F \in Flujos(ii) : \E s \in [1 .. Cardinality(F) -> F] :
       /\ Ordenada(s)
       /\ insIn' = s
  /\ pc' = "jornada"
  /\ UNCHANGED <<ii, solucion, isValid, jornada, visJornada, i, deltaBloques>>

(* LOG(FATAL): there is no flow, and the program ends. *)
SinFlujo ==
  /\ pc = "inicio"
  /\ Flujos(ii) = {}
  /\ pc' = "abortado"
  /\ UNCHANGED <<ii, insIn, solucion, isValid, jornada, visJornada, i, deltaBloques>>

-----------------------------------------------------------------------------
(* Working days                                                            *)

IniciarJornada ==
  /\ pc = "jornada"
  /\ jor_pos_fin < ii.h
  /\ pc' = "extiende"
  /\ jor_pos_inicio' = jor_pos_fin
  /\ t_jorn_fin' = sumaMinutos(ii.bloque_timestamp[jor_pos_fin], ii.z)
  /\ UNCHANGED <<ii, insIn, solucion, isValid, jor_pos_fin, visJornada, i, deltaBloques>>

Extensible == jor_pos_fin < ii.h - 1 /\ bloqueContiguoConSiguiente(ii, jor_pos_fin)

ExtenderJornada ==
  /\ pc = "extiende"
  /\ Extensible
  /\ t_jorn_fin' = sumaMinutos(t_jorn_fin, ii.z)
  /\ jor_pos_fin' = jor_pos_fin + 1
  /\ UNCHANGED <<ii, pc, insIn, solucion, isValid, jor_pos_inicio, visJornada, i,
                 deltaBloques>>

CerrarJornada_desdeUno ==
  /\ pc = "extiende"
  /\ ~ Extensible
  /\ pc' = "recolecta"
  /\ jor_pos_fin' = jor_pos_fin + 1
  /\ visJornada' = <<>>
  /\ i' = 2
  /\ UNCHANGED <<ii, insIn, solucion, isValid, jor_pos_inicio, t_jorn_fin, deltaBloques>>

CerrarJornada ==
  /\ pc = "extiende"
  /\ ~ Extensible
  /\ pc' = "recolecta"
  /\ jor_pos_fin' = jor_pos_fin + 1
  /\ visJornada' = <<>>
  /\ i' = 1
  /\ UNCHANGED <<ii, insIn, solucion, isValid, jor_pos_inicio, t_jorn_fin, deltaBloques>>

-----------------------------------------------------------------------------
(* Candidates of the day: the assignment is read up to the first visit     *)
(* that opens too late.                                                    *)

PorRecolectar == i <= Len(insIn) /\ insIn[i].tInicioVisita < t_jorn_fin

Recolectar ==
  /\ pc = "recolecta"
  /\ PorRecolectar
  /\ visJornada' = IF insIn[i].posVisita \in visitasAsignadas
                   THEN visJornada ELSE Append(visJornada, insIn[i])
  /\ i' = i + 1
  /\ UNCHANGED <<ii, pc, insIn, solucion, isValid, jornada, deltaBloques>>

FinRecolectar ==
  /\ pc = "recolecta"
  /\ ~ PorRecolectar
  /\ pc' = "visita"
  /\ i' = 1
  /\ UNCHANGED <<ii, insIn, solucion, isValid, jornada, visJornada, deltaBloques>>

TomarVisita ==
  /\ pc = "visita"
  /\ i <= Len(visJornada)
  /\ pc' = "bloque"
  /\ deltaBloques' = 0
  /\ UNCHANGED <<ii, insIn, solucion, isValid, jornada, visJornada, i>>

FinJornada ==
  /\ pc = "visita"
  /\ i > Len(visJornada)
  /\ pc' = IF jor_pos_fin < ii.h THEN "jornada" ELSE "checker"
  /\ UNCHANGED <<ii, insIn, solucion, isValid, jornada, visJornada, i, deltaBloques>>

-----------------------------------------------------------------------------
(* One candidate                                                           *)

pvisitalocal == visJornada[i].posVisita
cantPersonas == ii.visita_cant_personas[pvisitalocal]
total        == bloquesTotal(ii, pvisitalocal)

countBloqueInicio == jor_pos_inicio + deltaBloques
countBloqueFin    == countBloqueInicio + total - 1

Cabe_unoMas ==
  sumaMinutos(ii.bloque_timestamp[jor_pos_inicio], (total + deltaBloques - 1) * ii.z)
    <= t_jorn_fin

Cabe ==
  sumaMinutos(ii.bloque_timestamp[jor_pos_inicio], (total + deltaBloques) * ii.z)
    <= t_jorn_fin

Evaluando == pc = "bloque" /\ pvisitalocal \notin visitasAsignadas /\ Cabe

(* The entries visJornada[i + ij] whose people are asked for; the last of  *)
(* them may lie past the end of the vector, and there the read finds       *)
(* anything.                                                               *)
Leidas == i .. i + cantPersonas - 1

Disponible(k) ==
  IF k \in DOMAIN visJornada
  THEN {Cuenta(horasDispPer[visJornada[k].posPersona], countBloqueInicio, countBloqueFin)
          = total}
  ELSE BOOLEAN

PuedenTodas      == \A k \in Leidas : TRUE \in Disponible(k)
PuedeFaltarUna   == \E k \in Leidas : FALSE \in Disponible(k)

Libre(ve) == Cuenta(horasUsoVeh[ve], countBloqueInicio, countBloqueFin) = 0

(* The search stops at the first vehicle that is not allowed. *)
Buscados_todos(v) == Vehiculos(ii)

Buscados(v) == {ve \in Vehiculos(ii) : 0 .. ve \subseteq ii.visita_vehiculos[v]}

(* The Cuartetas of the trip: journey out, visit, journey back *)
EnVisita_unoMas(ij) ==
  /\ bloquesTraslado(ii, pvisitalocal) <= ij
  /\ ij <= ii.visita_testimado_bloques[pvisitalocal] + bloquesTraslado(ii, pvisitalocal)

EnVisita(ij) ==
  /\ bloquesTraslado(ii, pvisitalocal) <= ij
  /\ ij < ii.visita_testimado_bloques[pvisitalocal] + bloquesTraslado(ii, pvisitalocal)

Anotadas(ve, p) ==
  {[posbh |-> jor_pos_inicio + ij,
    posp  |-> p,
    posve |-> IF EnVisita(ij) THEN -1 ELSE ve,
    posvi |-> IF EnVisita(ij) THEN pvisitalocal ELSE -1] : ij \in 0 .. total - 1}

Marcados_delDia == jor_pos_inicio .. jor_pos_inicio + total - 1

Marcados_sinVuelta ==
  countBloqueInicio .. countBloqueFin - bloquesTraslado(ii, pvisitalocal)

Marcados_unoMas == countBloqueInicio .. countBloqueFin + 1

Marcados == countBloqueInicio .. countBloqueFin

Ocupados_soloVisita == {jor_pos_inicio + ij : ij \in {ij \in 0 .. total - 1 : EnVisita(ij)}}

Ocupados == {jor_pos_inicio + ij : ij \in 0 .. total - 1}

CostoViaje_ida(ve) == ii.distancia[pvisitalocal] * ii.vehi_cost[ve]

CostoViaje(ve) == ii.distancia[pvisitalocal] * ii.vehi_cost[ve] * 2

MarcaVisita_sinMarcar == visitasAsignadas

MarcaVisita == visitasAsignadas \cup {pvisitalocal}

(* i += cantPerDisponibles - 1, then the i++ of the loop *)
Siguiente == i + cantPersonas

Asignar(ve) ==
  /\ Evaluando
  /\ PuedenTodas
  /\ ve \in Buscados(pvisitalocal)
  /\ Libre(ve)
  /\ \A u \in 0 .. ve - 1 : ~ Libre(u)
  /\ pc' = "visita"
  /\ costo' = costo + CostoViaje(ve)
  /\ horasUsoVeh' = [horasUsoVeh EXCEPT ![ve] = @ \cup Marcados]
  /\ LET p == insIn[i].posPersona
     IN  /\ instance' = instance (+) [q \in Anotadas(ve, p) |-> cantPersonas]
         /\ horasDispPer' = [horasDispPer EXCEPT ![p] = @ \ Ocupados]
  /\ visitasAsignadas' = MarcaVisita
  /\ i' = Siguiente
  /\ viajes' = viajes \cup {[visita |-> pvisitalocal, vehiculo |-> ve,
                             ini |-> countBloqueInicio, fin |-> countBloqueFin]}
  /\ UNCHANGED <<ii, insIn, isValid, jornada, visJornada, deltaBloques>>

SiguienteBloque_sinAvance ==
  /\ Evaluando
  /\ PuedeFaltarUna \/ \A ve \in Buscados(pvisitalocal) : ~ Libre(ve)
  /\ UNCHANGED vars

SiguienteBloque ==
  /\ Evaluando
  /\ PuedeFaltarUna \/ \A ve \in Buscados(pvisitalocal) : ~ Libre(ve)
  /\ deltaBloques' = deltaBloques + 1
  /\ UNCHANGED <<ii, pc, insIn, solucion, isValid, jornada, visJornada, i>>

LecturaFuera ==
  /\ Evaluando
  /\ ~ Leidas \subseteq DOMAIN visJornada
  /\ pc' = "abortado"
  /\ UNCHANGED <<ii, insIn, solucion, isValid, jornada, visJornada, i, deltaBloques>>

DejarVisita ==
  /\ pc = "bloque"
  /\ pvisitalocal \in visitasAsignadas \/ ~ Cabe
  /\ pc' = "visita"
  /\ i' = i + 1
  /\ UNCHANGED <<ii, insIn, solucion, isValid, jornada, visJornada, deltaBloques>>

-----------------------------------------------------------------------------

(* The checker sorts the solution, a bag here, and answers false. *)
Checker ==
  /\ pc = "checker"
  /\ pc' = "fin"
  /\ isValid' = FALSE
  /\ UNCHANGED <<ii, insIn, solucion, jornada, visJornada, i, deltaBloques>>

Next ==
  \/ MinCostFlow \/ SinFlujo
  \/ IniciarJornada \/ ExtenderJornada \/ CerrarJornada
  \/ Recolectar \/ FinRecolectar
  \/ TomarVisita \/ FinJornada
  \/ \E ve \in Vehiculos(ii) : Asignar(ve)
  \/ SiguienteBloque \/ LecturaFuera \/ DejarVisita
  \/ Checker

Spec == Init /\ [][Next]_vars

(* One thread runs the constructor to its end. *)
FairSpec == Spec /\ WF_vars(Next)

-----------------------------------------------------------------------------
(* Properties                                                              *)

Cuartetas ==
  [posbh : Bloques(ii), posp : Personas(ii),
   posve : Vehiculos(ii) \cup {-1}, posvi : Visitas(ii) \cup {-1}]

Viajes == [visita : Visitas(ii), vehiculo : Vehiculos(ii), ini : Bloques(ii), fin : Bloques(ii)]

TypeOK ==
  /\ EsInstancia(ii)
  /\ pc \in {"inicio", "jornada", "extiende", "recolecta", "visita", "bloque",
             "checker", "fin", "abortado"}
  /\ insIn \in Seq(Tripletas(ii))
  /\ visitasAsignadas \subseteq Visitas(ii)
  /\ horasUsoVeh \in [Vehiculos(ii) -> SUBSET Bloques(ii)]
  /\ horasDispPer \in [Personas(ii) -> SUBSET Bloques(ii)]
  /\ IsABag(instance) /\ DOMAIN instance \subseteq Cuartetas
  /\ costo \in Nat
  /\ isValid \in BOOLEAN
  /\ jor_pos_inicio \in Bloques(ii) /\ jor_pos_fin \in 0 .. ii.h
  /\ t_jorn_fin \in Nat
  /\ visJornada \in Seq(Tripletas(ii))
  /\ i \in Nat \ {0} /\ deltaBloques \in Nat
  /\ viajes \subseteq Viajes

(* No vehicle makes two trips in the same block (SRPlanner.cpp:154-160):   *)
(* the marks of earlier trips, of this day and of others, stop it.         *)
VehiculoExclusivo ==
  \A r, s \in viajes :
    r # s /\ r.vehiculo = s.vehiculo => r.fin < s.ini \/ s.fin < r.ini

(* The marks of a vehicle are the blocks of its trips, no more and no less *)
(* (SRPlanner.cpp:160).                                                    *)
UsoMarcado ==
  \A ve \in Vehiculos(ii) :
    horasUsoVeh[ve] = {b \in Bloques(ii) :
                         \E r \in viajes : r.vehiculo = ve /\ r.ini <= b /\ b <= r.fin}

(* The visits marked are those with a trip, and each has one               *)
(* (SRPlanner.cpp:138,154,184).                                            *)
VisitaUnaVez ==
  /\ visitasAsignadas = {r.visita : r \in viajes}
  /\ \A r, s \in viajes : r.visita = s.visita => r = s

(* The trips stay inside one working day, for the time they need: from     *)
(* each block to the next there is no gap (SRPlanner.cpp:91-99,138).       *)
ViajeEnJornada ==
  \A r \in viajes :
    /\ r.fin - r.ini + 1 = bloquesTotal(ii, r.visita)
    /\ \A b \in r.ini .. r.fin - 1 : bloqueContiguoConSiguiente(ii, b)

Repeticiones(S) == Suma(instance, S)

(* The day identified is a run of blocks with no gap, it ends when its     *)
(* last block does, and no block of it is left behind (SRPlanner.cpp:91-99)*)
Dia(ini, fin) ==
  /\ ini <= fin /\ fin < ii.h
  /\ t_jorn_fin = ii.bloque_timestamp[ini] + (fin - ini + 1) * ii.z
  /\ \A b \in ini .. fin - 1 : bloqueContiguoConSiguiente(ii, b)

EnJornada == pc \in {"recolecta", "visita", "bloque"}

DiaIdentificado ==
  /\ pc = "extiende" => Dia(jor_pos_inicio, jor_pos_fin)
  /\ EnJornada => /\ Dia(jor_pos_inicio, jor_pos_fin - 1)
                  /\ jor_pos_fin = ii.h \/ ~ bloqueContiguoConSiguiente(ii, jor_pos_fin - 1)

(* The candidates of the day are pairs of the assignment, no more than it  *)
(* has, and the index into them stays among them (SRPlanner.cpp:105-117):  *)
(* it is used on the assignment too (SRPlanner.cpp:163).                   *)
Pedidas == {t \in Tripletas(ii) : ii.visita_cant_personas[t.posVisita] > 0}

CandidatasAcotadas ==
  /\ insIn \in Seq(Pedidas) /\ visJornada \in Seq(Pedidas)
  /\ Len(visJornada) <= Len(insIn)
  /\ pc = "inicio" => visJornada = <<>>
  /\ pc = "recolecta" => Len(visJornada) < i
  /\ pc = "bloque" => i <= Len(visJornada)

(* Each trip leaves in the solution one Cuarteta per block and person the  *)
(* visit asks for, the visit's own in the middle and the journeys' around  *)
(* it, and the solution holds nothing else (SRPlanner.cpp:159-182).        *)
CuartetasCompletas ==
  /\ \A v \in Visitas(ii) :
       Repeticiones({q \in DOMAIN instance : q.posvi = v}) =
         IF v \in visitasAsignadas
         THEN ii.visita_testimado_bloques[v] * ii.visita_cant_personas[v] ELSE 0
  /\ \A ve \in Vehiculos(ii) :
       Repeticiones({q \in DOMAIN instance : q.posve = ve}) =
         Suma([r \in viajes |-> 2 * bloquesTraslado(ii, r.visita)
                                  * ii.visita_cant_personas[r.visita]],
              {r \in viajes : r.vehiculo = ve})

(* A person's free blocks are those of the instance but for the ones the   *)
(* solution books her in (SRPlanner.cpp:76-85,180).                        *)
DisponibilidadCoherente ==
  \A p \in Personas(ii) :
    horasDispPer[p] =
      ii.pers_horasdisp[p] \ {q.posbh : q \in {q \in DOMAIN instance : q.posp = p}}

(* The cost is that of going to each assigned visit and back, each with    *)
(* the vehicle that was reserved for it (SRPlanner.cpp:158).               *)
CostoExacto ==
  costo = Suma([r \in viajes |-> 2 * ii.distancia[r.visita] * ii.vehi_cost[r.vehiculo]],
               viajes)

(* Although the collection stops at the first visit that opens too late,   *)
(* every pair still unassigned whose visit opens before the day ends is a  *)
(* candidate of the day (SRPlanner.cpp:101-115): it rests on the order of  *)
(* the assignment.                                                         *)
CandidatasCompletas ==
  pc = "visita" /\ i = 1 =>
    {visJornada[k] : k \in DOMAIN visJornada} =
      {t \in {insIn[k] : k \in DOMAIN insIn} :
         t.tInicioVisita < t_jorn_fin /\ t.posVisita \notin visitasAsignadas}

(* The people of a visit are read past the end of the candidates only for  *)
(* a visit that has already failed, from the second of its entries on      *)
(* (SRPlanner.cpp:145-146,186): the first entry of each visit finds all of *)
(* its people, and after a success the loop goes on at the next visit.     *)
LecturaFueraSoloTrasFallo ==
  Evaluando /\ ~ Leidas \subseteq DOMAIN visJornada =>
    i > 1 /\ visJornada[i - 1].posVisita = pvisitalocal

(* The first day, in which nothing was assigned before, books a visit only *)
(* for a person the assignment sends to it (SRPlanner.cpp:163, where an    *)
(* index into the day's candidates is used on the whole assignment).       *)
PrimeraJornada ==
  {b \in Bloques(ii) : \A c \in 0 .. b - 1 : bloqueContiguoConSiguiente(ii, c)}

PersonaAsignadaEnPrimeraJornada ==
  \A q \in DOMAIN instance :
    q.posvi # -1 /\ q.posbh \in PrimeraJornada =>
      \E k \in DOMAIN insIn : insIn[k].posPersona = q.posp /\ insIn[k].posVisita = q.posvi

(* The inductive invariant behind the properties of the trips: their       *)
(* blocks are within the calendar because the day is what DiaIdentificado  *)
(* says and the candidate in hand exists.                                  *)
IInv ==
  /\ TypeOK
  /\ DiaIdentificado /\ CandidatasAcotadas
  /\ UsoMarcado /\ VisitaUnaVez /\ ViajeEnJornada /\ VehiculoExclusivo
  /\ DisponibilidadCoherente

(* The constructor ends: at its end, or where the program aborts           *)
(* (SRPlanner.cpp:91-199,418).                                             *)
Terminacion == <>(pc \in {"fin", "abortado"})

(* The search implements the agenda of vehicles (AgendaVehiculos).         *)
Agenda == INSTANCE AgendaVehiculos WITH reservas <- viajes

AgendaSpec == Agenda!SpecAgenda

=============================================================================
