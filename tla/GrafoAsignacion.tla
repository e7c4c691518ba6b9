-------------------------- MODULE GrafoAsignacion --------------------------
(***************************************************************************)
(* MinCostFlow (SRPlanner.cpp:333-436): the assignment of people to visits *)
(* as a flow from a source through people and visits to a sink.            *)
(*                                                                         *)
(* The function counts the arcs it will need, builds the graph arc by arc, *)
(* sets the supplies, asks the solver, and reads the flow of as many arcs  *)
(* as it counted.  Arcs are numbered from 1 here, from 0 in the code.      *)
(*                                                                         *)
(* The solver is external.  It keeps the arcs it is given as long as they  *)
(* are no more than it was built for; Solve answers any flow that respects *)
(* capacities and supplies, if there is one: every unit crosses three arcs *)
(* of cost 1, so all of them are optimal.  An arc that was never added has *)
(* no flow, and any ends.                                                  *)
(***************************************************************************)
EXTENDS Instancia, Sequences, SequencesExt

CONSTANT Instancias

ASSUME InstanciasAssumption == \A x \in Instancias : EsInstancia(x)

VARIABLES
  ii,         \* the instance; never changed
  pc,         \* where the function is
  caristas,   \* arcs counted, the capacity of the graph
  graph,      \* the arcs added: tail, head and capacity
  supply,     \* units sent from source to sink
  suministro, \* the supply of each node
  flujo,      \* the flow of each arc, once solved
  i, j,       \* loop variables
  relPV       \* the pairs read from the flow

vars == <<ii, pc, caristas, graph, supply, suministro, flujo, i, j, relPV>>

-----------------------------------------------------------------------------

Nodos == 0 .. ii.n + ii.l + 1

NodoPersona(p) == p + 1
NodoVisita(v)  == ii.n + 1 + v
Sumidero       == 1 + ii.n + ii.l

(* The people that may be sent to a visit, whether or not they are free *)
Elegibles == [v \in Visitas(ii) |-> Cardinality(ii.visita_personas[v])]

Init ==
  /\ ii \in Instancias
  /\ pc = "cuenta"
  /\ caristas = 0
  /\ graph = <<>>
  /\ supply = 0
  /\ suministro = [x \in Nodos |-> 0]
  /\ flujo = <<>>
  /\ i = 0 /\ j = 0
  /\ relPV = <<>>

(* The people able to go and the arcs of source and sink *)
ContarAristas_sinVisitas ==
  /\ pc = "cuenta"
  /\ pc' = "personas"
  /\ caristas' = ii.n + Suma(Elegibles, Visitas(ii))
  /\ UNCHANGED <<ii, graph, supply, suministro, flujo, i, j, relPV>>

ContarAristas ==
  /\ pc = "cuenta"
  /\ pc' = "personas"
  /\ caristas' = ii.n + ii.l + Suma(Elegibles, Visitas(ii))
  /\ UNCHANGED <<ii, graph, supply, suministro, flujo, i, j, relPV>>

(* AddArc ignores an arc beyond those the graph was built for, and one of  *)
(* a node beyond them, which none is (TypeOK).                             *)
AddArc(origen, destino, capacidad) ==
  graph' = IF Len(graph) < caristas
           THEN Append(graph, [tail |-> origen, head |-> destino, cap |-> capacidad])
           ELSE graph

(* 1- From the source to each person *)
ArcoPersona_unaVisita ==
  /\ pc = "personas"
  /\ i < ii.n
  /\ AddArc(0, NodoPersona(i), 1)
  /\ i' = i + 1
  /\ UNCHANGED <<ii, pc, caristas, supply, suministro, flujo, j, relPV>>

ArcoPersona ==
  /\ pc = "personas"
  /\ i < ii.n
  /\ AddArc(0, NodoPersona(i), ii.pers_maxvisitas[i])
  /\ i' = i + 1
  /\ UNCHANGED <<ii, pc, caristas, supply, suministro, flujo, j, relPV>>

FinPersonas ==
  /\ pc = "personas"
  /\ i >= ii.n
  /\ pc' = "visitas" /\ i' = 0 /\ j' = 0
  /\ UNCHANGED <<ii, caristas, graph, supply, suministro, flujo, relPV>>

(* 2- From people to visits *)
PuedeIr(p, v) == p \in ii.visita_personas[v] /\ personaPuedeVisitar(ii, p, v)

ArcoVisita_hastaN ==
  /\ pc = "visitas"
  /\ i < ii.l /\ j <= ii.n
  /\ IF PuedeIr(j, i) THEN AddArc(NodoPersona(j), NodoVisita(i), 1) ELSE UNCHANGED graph
  /\ j' = j + 1
  /\ UNCHANGED <<ii, pc, caristas, supply, suministro, flujo, i, relPV>>

ArcoVisita_soloAvanzaSiPuede ==
  /\ pc = "visitas"
  /\ i < ii.l /\ j < ii.n
  /\ PuedeIr(j, i) /\ AddArc(NodoPersona(j), NodoVisita(i), 1)
  /\ j' = j + 1
  /\ UNCHANGED <<ii, pc, caristas, supply, suministro, flujo, i, relPV>>

ArcoVisita ==
  /\ pc = "visitas"
  /\ i < ii.l /\ j < ii.n
  /\ IF PuedeIr(j, i) THEN AddArc(NodoPersona(j), NodoVisita(i), 1) ELSE UNCHANGED graph
  /\ j' = j + 1
  /\ UNCHANGED <<ii, pc, caristas, supply, suministro, flujo, i, relPV>>

SiguienteVisita ==
  /\ pc = "visitas"
  /\ i < ii.l /\ j >= ii.n
  /\ i' = i + 1 /\ j' = 0
  /\ UNCHANGED <<ii, pc, caristas, graph, supply, suministro, flujo, relPV>>

FinVisitas ==
  /\ pc = "visitas"
  /\ i >= ii.l
  /\ pc' = "sumidero" /\ i' = 0
  /\ UNCHANGED <<ii, caristas, graph, supply, suministro, flujo, j, relPV>>

(* 3- From visits to the sink *)
ArcoSumidero ==
  /\ pc = "sumidero"
  /\ i < ii.l
  /\ AddArc(NodoVisita(i), Sumidero, ii.visita_cant_personas[i])
  /\ supply' = supply + ii.visita_cant_personas[i]
  /\ i' = i + 1
  /\ UNCHANGED <<ii, pc, caristas, suministro, flujo, j, relPV>>

SetNodeSupply ==
  /\ pc = "sumidero"
  /\ i >= ii.l
  /\ pc' = "resuelve" /\ i' = 0
  /\ suministro' = [x \in Nodos |-> IF x = 0 THEN supply ELSE IF x = Sumidero THEN -supply ELSE 0]
  /\ UNCHANGED <<ii, caristas, graph, supply, flujo, j, relPV>>

-----------------------------------------------------------------------------
(* The solver                                                              *)

(* Flow that leaves node x less flow that enters it *)
Saldo(f, x) ==
  Suma(f, {a \in DOMAIN f : graph[a].tail = x})
    - Suma(f, {a \in DOMAIN f : graph[a].head = x})

Capacidades == {graph[a].cap : a \in DOMAIN graph}

Factibles ==
  {f \in [DOMAIN graph -> 0 .. Max(Capacidades)] :
     /\ \A a \in DOMAIN graph : f[a] <= graph[a].cap
     /\ \A x \in Nodos : Saldo(f, x) = suministro[x]}

Solve ==
  /\ pc = "resuelve"
  /\ \E f \in Factibles : flujo' = f
  /\ pc' = "extrae" /\ i' = 1
  /\ UNCHANGED <<ii, caristas, graph, supply, suministro, j, relPV>>

(* LOG(FATAL) *)
NoOptimo ==
  /\ pc = "resuelve"
  /\ Factibles = {}
  /\ pc' = "abortado"
  /\ UNCHANGED <<ii, caristas, graph, supply, suministro, flujo, i, j, relPV>>

-----------------------------------------------------------------------------

Flow(a) == IF a \in DOMAIN flujo THEN flujo[a] ELSE 0

(* Only people to visits *)
EsArcoDeVisita_menosLaUltima(a) == 0 < graph[a].tail /\ graph[a].tail < ii.n

EsArcoDeVisita(a) == 0 < graph[a].tail /\ graph[a].tail <= ii.n

Extraer ==
  /\ pc = "extrae"
  /\ i <= caristas
  /\ relPV' =
       IF Flow(i) > 0 /\ EsArcoDeVisita(i)
       THEN Append(relPV, Tripleta(ii, graph[i].tail - 1, graph[i].head - (ii.n + 1)))
       ELSE relPV
  /\ i' = i + 1
  /\ UNCHANGED <<ii, pc, caristas, graph, supply, suministro, flujo, j>>

FinExtraer ==
  /\ pc = "extrae"
  /\ i > caristas
  /\ pc' = "fin"
  /\ UNCHANGED <<ii, caristas, graph, supply, suministro, flujo, i, j, relPV>>

Next ==
  \/ ContarAristas
  \/ ArcoPersona \/ FinPersonas
  \/ ArcoVisita \/ SiguienteVisita \/ FinVisitas
  \/ ArcoSumidero \/ SetNodeSupply
  \/ Solve \/ NoOptimo
  \/ Extraer \/ FinExtraer

Spec == Init /\ [][Next]_vars

(* One thread runs the function to its return. *)
FairSpec == Spec /\ WF_vars(Next)

-----------------------------------------------------------------------------
(* Properties                                                              *)

Arco == [tail : Nodos, head : Nodos, cap : Nat]

TypeOK ==
  /\ EsInstancia(ii)
  /\ pc \in {"cuenta", "personas", "visitas", "sumidero", "resuelve", "extrae", "fin",
             "abortado"}
  /\ caristas \in Nat
  /\ graph \in Seq(Arco)
  /\ supply \in Nat
  /\ suministro \in [Nodos -> Int]
  /\ flujo \in Seq(Nat)
  /\ i \in Nat /\ j \in 0 .. ii.n
  /\ relPV \in Seq(Tripletas(ii))

(* Every arc that is asked for fits in the graph, whose capacity was       *)
(* counted by another rule (SRPlanner.cpp:339-348,369): AddArc never       *)
(* drops one, and when the graph is complete each visit is reached by as   *)
(* many arcs as people can go to it.                                       *)
ArcosCaben ==
  /\ Len(graph) <= caristas
  /\ pc \in {"resuelve", "extrae", "fin", "abortado"} =>
       /\ Len(graph) = ii.n + ii.l + Cardinality(Arcos(ii))
       /\ \A v \in Visitas(ii) :
            Cardinality({a \in DOMAIN graph : graph[a].head = NodoVisita(v)})
              = Cardinality({t \in Arcos(ii) : t.posVisita = v})

(* The arcs that the extraction takes for a person's are those of people   *)
(* to visits, and lead back to the pair they were added for                *)
(* (SRPlanner.cpp:370-371,425-428).                                        *)
ParesRecuperados ==
  pc = "extrae" =>
    \A a \in 1 .. i - 1 :
      a \in DOMAIN flujo /\ graph[a].tail # 0 /\ graph[a].head # Sumidero =>
        (flujo[a] > 0 <=>
           \E k \in DOMAIN relPV : /\ NodoPersona(relPV[k].posPersona) = graph[a].tail
                                   /\ NodoVisita(relPV[k].posVisita) = graph[a].head)

(* The function ends: it returns, or aborts the program                    *)
(* (SRPlanner.cpp:342-435).                                                *)
Termina == <>(pc \in {"fin", "abortado"})

(* The graph answers an assignment, or aborts only when there is none      *)
(* (SRPlanner.cpp:333-436).                                                *)
Estado ==
  CASE pc = "fin" -> "responde" [] pc = "abortado" -> "abortado" [] OTHER -> "pide"

Pedido == INSTANCE Asignacion
            WITH respuesta <- IF pc = "fin" THEN relPV ELSE <<>>, estado <- Estado

AsignacionSpec == Pedido!SpecAsignacion

=============================================================================
