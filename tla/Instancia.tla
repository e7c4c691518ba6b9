----------------------------- MODULE Instancia -----------------------------
(***************************************************************************)
(* A planning instance (class InstanceInput, SRP_InstanceInput.cpp) and    *)
(* what the planner computes from it.                                      *)
(*                                                                         *)
(* An instance is a record whose fields have the names of the class.       *)
(* Positions start at 0 as in the code; a bitmap is the set of its ones    *)
(* (MiniBitmap implements ConjuntoBits); a block identifier is the         *)
(* position its map leads to; time is counted in minutes, of which         *)
(* sumaMinutos adds as many as it is told.  Of the matrix ubica_dist_mins  *)
(* only the row of the SERVIU is used, so minutos and distancia hold, for  *)
(* each visit, what that row says of the location of the visit.            *)
(***************************************************************************)
EXTENDS Integers, FiniteSetsExt

Personas(x)  == 0 .. x.n - 1
Vehiculos(x) == 0 .. x.m - 1
Bloques(x)   == 0 .. x.h - 1
Visitas(x)   == 0 .. x.l - 1

(* The instances the constructor leaves (SRP_InstanceInput.cpp:13-172): a  *)
(* value for each of the things the first line of the file counts, bitmaps *)
(* of as many positions as it counts.  Of them the planner works on those  *)
(* with something to plan, blocks that last some minutes, visits that take *)
(* some blocks, in a window of existing blocks.  Nothing is asked of the   *)
(* timestamps, nor of the order of a window.                               *)
EsInstancia(x) ==
  /\ x.n \in Nat \ {0} /\ x.m \in Nat \ {0} /\ x.h \in Nat \ {0} /\ x.l \in Nat \ {0}
  /\ x.z \in Nat \ {0}
  /\ x.pers_maxvisitas \in [Personas(x) -> Nat]
  /\ x.pers_horasdisp \in [Personas(x) -> SUBSET Bloques(x)]
  /\ x.vehi_cost \in [Vehiculos(x) -> Nat]
  /\ x.bloque_timestamp \in [Bloques(x) -> Nat]
  /\ x.visita_bloque_inicio \in [Visitas(x) -> Bloques(x)]
  /\ x.visita_bloque_fin \in [Visitas(x) -> Bloques(x)]
  /\ x.visita_personas \in [Visitas(x) -> SUBSET Personas(x)]
  /\ x.visita_vehiculos \in [Visitas(x) -> SUBSET Vehiculos(x)]
  /\ x.visita_testimado_bloques \in [Visitas(x) -> Nat \ {0}]
  /\ x.visita_cant_personas \in [Visitas(x) -> Nat]
  /\ x.minutos \in [Visitas(x) -> Nat]
  /\ x.distancia \in [Visitas(x) -> Nat]

-----------------------------------------------------------------------------

(* MiniBitmap's count of the ones from a to b, in range *)
Cuenta(S, a, b) ==
  Cardinality({c \in S : \/ a <= c /\ c <= b
                         \/ b <= c /\ c <= a})

(* What f adds up to over the elements of S *)
Suma(f, S) == MapThenSumSet(LAMBDA x : f[x], S)

sumaMinutos(t, minutos) == t + minutos

getInicioVentanaVisita(x, v) == x.bloque_timestamp[x.visita_bloque_inicio[v]]

bloqueContiguoConSiguiente(x, b) ==
  /\ b >= 0 /\ b < x.h - 1
  /\ sumaMinutos(x.bloque_timestamp[b], x.z) = x.bloque_timestamp[b + 1]

personaPuedeVisitar(x, p, v) ==
  Cuenta(x.pers_horasdisp[p], x.visita_bloque_inicio[v], x.visita_bloque_fin[v])
    >= x.visita_testimado_bloques[v]

-----------------------------------------------------------------------------
(* What the planner derives for one visit                                  *)

bloquesTraslado(x, v) ==
  LET q == x.minutos[v] \div x.z
  IN  IF q * x.z < x.minutos[v] THEN q + 1 ELSE q

bloquesTotal(x, v) == x.visita_testimado_bloques[v] + 2 * bloquesTraslado(x, v)

-----------------------------------------------------------------------------
(* The assignment of people to visits                                      *)

(* A person and a visit, with the time the window of the visit opens *)
Tripleta(x, p, v) ==
  [posPersona |-> p, posVisita |-> v, tInicioVisita |-> getInicioVentanaVisita(x, v)]

Tripletas(x) == {Tripleta(x, p, v) : p \in Personas(x), v \in Visitas(x)}

(* The pairs for which an arc is added to the graph *)
Arcos(x) ==
  {t \in Tripletas(x) : /\ t.posPersona \in x.visita_personas[t.posVisita]
                        /\ personaPuedeVisitar(x, t.posPersona, t.posVisita)}

(* What Solve() may answer: a flow that sends to each visit the people it  *)
(* asks for, none of whom exceeds her maximum.  Every unit of flow crosses *)
(* three arcs of cost 1, so each of these flows is optimal.                *)
Flujos(x) ==
  {F \in SUBSET Arcos(x) :
     /\ \A v \in Visitas(x) :
          Cardinality({t \in F : t.posVisita = v}) = x.visita_cant_personas[v]
     /\ \A p \in Personas(x) :
          Cardinality({t \in F : t.posPersona = p}) <= x.pers_maxvisitas[p]}

sortTripletaPorTiempoInicio_porPersona(a, b) ==
  \/ a.posPersona < b.posPersona
  \/ a.posPersona = b.posPersona /\ a.posVisita < b.posVisita

sortTripletaPorTiempoInicio(a, b) ==
  \/ a.tInicioVisita < b.tInicioVisita
  \/ a.tInicioVisita = b.tInicioVisita /\ a.posVisita < b.posVisita
  \/ a.tInicioVisita = b.tInicioVisita /\ a.posVisita = b.posVisita
       /\ a.posPersona < b.posPersona

=============================================================================
