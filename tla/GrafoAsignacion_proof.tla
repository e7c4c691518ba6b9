----------------------- MODULE GrafoAsignacion_proof -----------------------
(***************************************************************************)
(* Proofs about the graph of the assignment, for every set of instances.   *)
(* What is read back from the flow are the pairs whose arcs carry it:      *)
(* people, visits, source and sink share one numbering, but the arcs can   *)
(* be told apart, and no pair has two.                                     *)
(*                                                                         *)
(* For that nothing is needed of the number of arcs counted: the graph     *)
(* keeps an arc or drops it.  The rest needs the graph exactly: its arcs   *)
(* are those of a set, each once, the count made beforehand is at least    *)
(* the size of that set, and so the flows of the graph are, through the    *)
(* arcs of pairs, the assignments the visits ask for.                      *)
(***************************************************************************)
EXTENDS GrafoAsignacion, Instancia_proof, SequenceTheorems

(* An arc of a person to a visit *)
DelPar(x, e, p, v) == e.tail = p + 1 /\ e.head = x.n + 1 + v

Pares(x) == Personas(x) \X Visitas(x)

(* From the source, to the sink, or of a pair *)
ArcosConForma ==
  \A a \in DOMAIN graph :
    \/ graph[a].tail = 0
    \/ graph[a].head = Sumidero /\ graph[a].tail > ii.n
    \/ \E x \in Pares(ii) : DelPar(ii, graph[a], x[1], x[2])

ParUnico ==
  \A x \in Pares(ii) : \A a, b \in DOMAIN graph :
    DelPar(ii, graph[a], x[1], x[2]) /\ DelPar(ii, graph[b], x[1], x[2]) => a = b

(* The pairs the loops have already passed *)
YaPasado(p, v) == v < i \/ (v = i /\ p < j)

SoloPasados ==
  /\ pc \in {"cuenta", "personas"} =>
       \A a \in DOMAIN graph : \A x \in Pares(ii) : ~ DelPar(ii, graph[a], x[1], x[2])
  /\ pc = "visitas" =>
       \A a \in DOMAIN graph : \A x \in Pares(ii) :
         DelPar(ii, graph[a], x[1], x[2]) => YaPasado(x[1], x[2])

(* What has been read comes from an arc already read that carries flow. *)
DeDondeVienen ==
  /\ pc = "extrae" =>
       /\ DOMAIN flujo = DOMAIN graph
       /\ \A k \in DOMAIN relPV : \E a \in 1 .. i - 1 :
            /\ a \in DOMAIN flujo /\ flujo[a] > 0
            /\ DelPar(ii, graph[a], relPV[k].posPersona, relPV[k].posVisita)
            /\ <<relPV[k].posPersona, relPV[k].posVisita>> \in Pares(ii)
  /\ pc \notin {"extrae", "fin"} => relPV = <<>>

Tipos ==
  /\ EsInstancia(ii)
  /\ graph \in Seq(Arco) /\ relPV \in Seq(Tripletas(ii))
  /\ i \in Nat /\ j \in Nat
  /\ pc = "visitas" => j \in 0 .. ii.n

IInv ==
  /\ Tipos /\ ArcosConForma /\ ParUnico /\ SoloPasados
  /\ DeDondeVienen /\ ParesRecuperados

-----------------------------------------------------------------------------
(* The numbering                                                           *)

LEMMA Numeros ==
  ASSUME EsInstancia(ii)
  PROVE  /\ ii.n \in Nat \ {0} /\ ii.l \in Nat \ {0}
         /\ Nodos = 0 .. ii.n + ii.l + 1 /\ Sumidero = 1 + ii.n + ii.l
         /\ Personas(ii) = 0 .. ii.n - 1 /\ Visitas(ii) = 0 .. ii.l - 1
BY DEF EsInstancia, Nodos, Sumidero, Personas, Visitas

(* The nodes of a pair are those of no other, and neither source nor sink. *)
LEMMA NodosDelPar ==
  ASSUME EsInstancia(ii), NEW p \in Personas(ii), NEW v \in Visitas(ii)
  PROVE  /\ NodoPersona(p) \in 1 .. ii.n
         /\ NodoVisita(v) \in ii.n + 1 .. ii.n + ii.l
         /\ NodoPersona(p) \in Nodos /\ NodoVisita(v) \in Nodos /\ NodoVisita(v) # Sumidero
         /\ \A q \in Personas(ii) : NodoPersona(p) = NodoPersona(q) => p = q
         /\ \A w \in Visitas(ii) : NodoVisita(v) = NodoVisita(w) => v = w
<1>1. /\ ii.n \in Nat /\ ii.l \in Nat /\ p \in 0 .. ii.n - 1 /\ v \in 0 .. ii.l - 1
      /\ Nodos = 0 .. ii.n + ii.l + 1 /\ Sumidero = 1 + ii.n + ii.l
      /\ \A q \in Personas(ii) : q \in Int
      /\ \A w \in Visitas(ii) : w \in Int
  BY Numeros
<1>2. NodoPersona(p) \in 1 .. ii.n /\ NodoPersona(p) \in Nodos
  BY <1>1 DEF NodoPersona
<1>3. /\ NodoVisita(v) \in ii.n + 1 .. ii.n + ii.l
      /\ NodoVisita(v) \in Nodos /\ NodoVisita(v) # Sumidero
  BY <1>1 DEF NodoVisita
<1>4. \A q \in Personas(ii) : NodoPersona(p) = NodoPersona(q) => p = q
  BY <1>1 DEF NodoPersona
<1>5. \A w \in Visitas(ii) : NodoVisita(v) = NodoVisita(w) => v = w
  BY <1>1 DEF NodoVisita
<1> QED BY <1>2, <1>3, <1>4, <1>5

LEMMA ConArco ==
  ASSUME graph \in Seq(Arco), NEW t \in Nodos, NEW d \in Nodos, NEW c \in Nat,
         AddArc(t, d, c), ii' = ii
  PROVE  \/ graph' = graph
         \/ /\ graph' \in Seq(Arco) /\ DOMAIN graph' = DOMAIN graph \cup {Len(graph) + 1}
            /\ Len(graph) + 1 \notin DOMAIN graph
            /\ \A a \in DOMAIN graph : graph'[a] = graph[a]
            /\ graph'[Len(graph) + 1].tail = t /\ graph'[Len(graph) + 1].head = d
<1> DEFINE e == [tail |-> t, head |-> d, cap |-> c]
<1>1. e \in Arco
  BY DEF Arco
<1>2. graph' = graph \/ graph' = Append(graph, e)
  BY DEF AddArc
<1>3. e.tail = t /\ e.head = d
  OBVIOUS
<1> HIDE DEF e
<1>4. CASE graph' = Append(graph, e)
  <2>1. /\ Append(graph, e) \in Seq(Arco)
        /\ Len(Append(graph, e)) = Len(graph) + 1
        /\ \A k \in 1 .. Len(graph) : Append(graph, e)[k] = graph[k]
        /\ Append(graph, e)[Len(graph) + 1] = e
    BY <1>1, AppendProperties
  <2>2. Len(graph) \in Nat /\ DOMAIN graph = 1 .. Len(graph)
        /\ DOMAIN Append(graph, e) = 1 .. Len(graph) + 1
    BY <2>1, LenProperties
  <2>3. 1 .. Len(graph) + 1 = (1 .. Len(graph)) \cup {Len(graph) + 1}
        /\ Len(graph) + 1 \notin 1 .. Len(graph)
    BY <2>2
  <2> QED BY <1>3, <1>4, <2>1, <2>2, <2>3
<1> QED BY <1>2, <1>4

-----------------------------------------------------------------------------
(* Building the graph                                                      *)

(* An arc of the source or of the sink is not one of a pair. *)
LEMMA ArcoSinPar ==
  ASSUME IInv, ii' = ii, relPV' = relPV, flujo' = flujo,
         pc \in {"personas", "sumidero"}, pc' = pc, i' = i + 1, j' = j,
         NEW t \in Nodos, NEW d \in Nodos, NEW c \in Nat, AddArc(t, d, c),
         (t = 0) \/ (d = Sumidero /\ t > ii.n)
  PROVE  IInv'
<1>1. /\ EsInstancia(ii) /\ i' \in Nat /\ j' \in Nat /\ graph \in Seq(Arco)
  BY DEF IInv, Tipos
<1>2. Pares(ii)' = Pares(ii) /\ Sumidero' = Sumidero /\ Arco' = Arco
  BY DEF Pares, Sumidero, Arco, Nodos
<1>3. CASE graph' = graph
  <2>1. Tipos' /\ ArcosConForma' /\ ParUnico' /\ SoloPasados'
    BY <1>1, <1>2, <1>3 DEF IInv, Tipos, ArcosConForma, ParUnico, SoloPasados, DelPar,
         NodoVisita, NodoPersona
  <2>2. DeDondeVienen' /\ ParesRecuperados'
    BY DEF IInv, DeDondeVienen, ParesRecuperados
  <2> QED BY <2>1, <2>2 DEF IInv
<1>4. CASE graph' # graph
  <2> DEFINE e == Len(graph) + 1
  <2>1. /\ graph' \in Seq(Arco) /\ DOMAIN graph' = DOMAIN graph \cup {e}
        /\ \A a \in DOMAIN graph : graph'[a] = graph[a]
        /\ graph'[e].tail = t /\ graph'[e].head = d
    BY <1>1, <1>4, ConArco
  <2>2. \A x \in Pares(ii) : ~ (t = NodoPersona(x[1]) /\ d = NodoVisita(x[2]))
    <3> SUFFICES ASSUME NEW p \in Personas(ii), NEW v \in Visitas(ii)
                 PROVE  ~ (t = NodoPersona(p) /\ d = NodoVisita(v))
      BY DEF Pares
    <3> QED BY <1>1, Numeros, NodosDelPar
  <2> HIDE DEF e
  <2>3. \A x \in Pares(ii) : ~ DelPar(ii, graph'[e], x[1], x[2])
    BY <2>1, <2>2 DEF DelPar, NodoPersona, NodoVisita
  <2>4. \A a \in DOMAIN graph : \A x \in Pares(ii) :
          DelPar(ii, graph'[a], x[1], x[2]) = DelPar(ii, graph[a], x[1], x[2])
    BY <2>1
  <2>5. Tipos'
    BY <1>1, <1>2, <2>1 DEF IInv, Tipos
  <2>6. ArcosConForma'
    <3> SUFFICES ASSUME NEW a \in DOMAIN graph'
                 PROVE  \/ graph'[a].tail = 0
                        \/ graph'[a].head = Sumidero /\ graph'[a].tail > ii.n
                        \/ \E x \in Pares(ii) : DelPar(ii, graph'[a], x[1], x[2])
      BY <1>2 DEF ArcosConForma
    <3>1. CASE a = e
      BY <2>1, <3>1
    <3>2. CASE a \in DOMAIN graph
      BY <2>1, <2>4, <3>2 DEF IInv, ArcosConForma
    <3> QED BY <2>1, <3>1, <3>2
  <2>7. ParUnico'
    <3> SUFFICES ASSUME NEW x \in Pares(ii), NEW a \in DOMAIN graph', NEW b \in DOMAIN graph',
                        DelPar(ii, graph'[a], x[1], x[2]),
                        DelPar(ii, graph'[b], x[1], x[2])
                 PROVE  a = b
      BY <1>2 DEF ParUnico
    <3>1. a # e /\ b # e
      BY <2>3
    <3>2. a \in DOMAIN graph /\ b \in DOMAIN graph
      BY <2>1, <3>1
    <3> QED BY <2>4, <3>2 DEF IInv, ParUnico
  <2>8. SoloPasados'
    <3>1. pc # "visitas" /\ (pc = "personas" => \A a \in DOMAIN graph : \A x \in Pares(ii) :
                                                  ~ DelPar(ii, graph[a], x[1], x[2]))
      BY DEF IInv, SoloPasados
    <3> QED BY <1>2, <2>1, <2>3, <2>4, <3>1 DEF SoloPasados
  <2>9. DeDondeVienen' /\ ParesRecuperados'
    BY DEF IInv, DeDondeVienen, ParesRecuperados
  <2> QED BY <2>5, <2>6, <2>7, <2>8, <2>9 DEF IInv
<1> QED BY <1>3, <1>4

LEMMA PasoArcoVisita == ASSUME IInv, ArcoVisita PROVE IInv'
<1>1. /\ pc = "visitas" /\ pc' = pc /\ j' = j + 1 /\ i < ii.l /\ j < ii.n
      /\ UNCHANGED <<ii, i, relPV, flujo>>
      /\ graph' = graph \/ AddArc(NodoPersona(j), NodoVisita(i), 1)
  BY DEF ArcoVisita
<1>2. /\ EsInstancia(ii) /\ i \in Nat /\ j \in Nat /\ graph \in Seq(Arco)
      /\ ii.n \in Nat /\ ii.l \in Nat
  BY DEF IInv, Tipos, EsInstancia
<1>3. Pares(ii)' = Pares(ii) /\ Sumidero' = Sumidero /\ Arco' = Arco
  BY <1>1 DEF Pares, Sumidero, Arco, Nodos
<1>4. j \in Personas(ii) /\ i \in Visitas(ii) /\ <<j, i>> \in Pares(ii)
  BY <1>1, <1>2 DEF Personas, Visitas, Pares
<1>5. Tipos' \/ graph' \notin Seq(Arco)
  BY <1>1, <1>2, <1>3 DEF IInv, Tipos
<1>6. \A p, v : YaPasado(p, v) /\ v \in Visitas(ii) /\ p \in Personas(ii) => YaPasado(p, v)'
  BY <1>1, <1>2 DEF YaPasado, Personas, Visitas
<1>7. DeDondeVienen' /\ ParesRecuperados'
  BY <1>1 DEF IInv, DeDondeVienen, ParesRecuperados
<1>8. CASE graph' = graph
  <2>1. ArcosConForma' /\ ParUnico'
    BY <1>1, <1>3, <1>8 DEF IInv, ArcosConForma, ParUnico, DelPar, NodoVisita, NodoPersona
  <2>2. \A a \in DOMAIN graph : \A x \in Pares(ii) :
          DelPar(ii, graph'[a], x[1], x[2]) => YaPasado(x[1], x[2])
    BY <1>1, <1>8 DEF IInv, SoloPasados, DelPar, NodoVisita, NodoPersona
  <2>3. SoloPasados'
    <3>1. \A x \in Pares(ii) : x[1] \in Personas(ii) /\ x[2] \in Visitas(ii)
      BY DEF Pares
    <3> QED BY <1>1, <1>3, <1>6, <1>8, <2>2, <3>1 DEF SoloPasados
  <2> QED BY <1>2, <1>5, <1>7, <1>8, <2>1, <2>3 DEF IInv
<1>9. CASE graph' # graph
  <2> DEFINE e == Len(graph) + 1
  <2>1. /\ graph' \in Seq(Arco) /\ DOMAIN graph' = DOMAIN graph \cup {e}
        /\ e \notin DOMAIN graph
        /\ \A a \in DOMAIN graph : graph'[a] = graph[a]
        /\ graph'[e].tail = NodoPersona(j) /\ graph'[e].head = NodoVisita(i)
    <3>1. NodoPersona(j) \in Nodos /\ NodoVisita(i) \in Nodos
      BY <1>2, <1>4, NodosDelPar
    <3> QED BY <1>1, <1>2, <1>9, <3>1, ConArco
  <2> HIDE DEF e
  <2>2. ASSUME NEW x \in Pares(ii), DelPar(ii, graph'[e], x[1], x[2])
        PROVE  x[1] = j /\ x[2] = i
    <3>1. /\ x[1] \in Personas(ii) /\ x[2] \in Visitas(ii)
      BY DEF Pares
    <3>2. NodoPersona(j) = NodoPersona(x[1]) /\ NodoVisita(i) = NodoVisita(x[2])
      BY <1>1, <2>1, <2>2 DEF DelPar, NodoPersona, NodoVisita
    <3> QED BY <1>2, <1>4, <3>1, <3>2, NodosDelPar
  <2>3. DelPar(ii, graph'[e], j, i)
    BY <1>1, <2>1 DEF DelPar, NodoPersona, NodoVisita
  <2>4. \A a \in DOMAIN graph : \A x \in Pares(ii) :
          DelPar(ii, graph'[a], x[1], x[2]) = DelPar(ii, graph[a], x[1], x[2])
    BY <2>1
  <2>5. \A a \in DOMAIN graph : ~ DelPar(ii, graph[a], j, i)
    <3>1. ~ YaPasado(j, i)
      BY <1>2 DEF YaPasado
    <3>2. \A a \in DOMAIN graph : DelPar(ii, graph[a], j, i)
                                    => YaPasado(<<j, i>>[1], <<j, i>>[2])
      BY <1>1, <1>4 DEF IInv, SoloPasados
    <3> QED BY <3>1, <3>2
  <2>6. ArcosConForma'
    <3> SUFFICES ASSUME NEW a \in DOMAIN graph'
                 PROVE  \/ graph'[a].tail = 0
                        \/ graph'[a].head = Sumidero /\ graph'[a].tail > ii.n
                        \/ \E x \in Pares(ii) : DelPar(ii, graph'[a], x[1], x[2])
      BY <1>1, <1>3 DEF ArcosConForma
    <3>1. CASE a = e
      <4>1. DelPar(ii, graph'[e], <<j, i>>[1], <<j, i>>[2])
        BY <1>1, <2>1 DEF DelPar, NodoPersona, NodoVisita
      <4> QED BY <1>4, <3>1, <4>1
    <3>2. CASE a \in DOMAIN graph
      BY <2>1, <2>4, <3>2 DEF IInv, ArcosConForma
    <3> QED BY <2>1, <3>1, <3>2
  <2>7. ParUnico'
    <3> SUFFICES ASSUME NEW x \in Pares(ii), NEW a \in DOMAIN graph', NEW b \in DOMAIN graph',
                        DelPar(ii, graph'[a], x[1], x[2]),
                        DelPar(ii, graph'[b], x[1], x[2])
                 PROVE  a = b
      BY <1>1, <1>3 DEF ParUnico
    <3>1. ASSUME NEW u \in DOMAIN graph,
                 DelPar(ii, graph'[u], x[1], x[2]), DelPar(ii, graph'[e], x[1], x[2])
          PROVE  FALSE
      <4>1. DelPar(ii, graph[u], x[1], x[2])
        BY <2>4, <3>1
      <4>2. x[1] = j /\ x[2] = i
        BY <2>2, <3>1
      <4> QED BY <2>5, <4>1, <4>2
    <3>2. CASE a \in DOMAIN graph /\ b \in DOMAIN graph
      BY <2>4, <3>2 DEF IInv, ParUnico
    <3> QED BY <2>1, <3>1, <3>2
  <2>8. SoloPasados'
    <3> SUFFICES ASSUME NEW a \in DOMAIN graph', NEW x \in Pares(ii),
                        DelPar(ii, graph'[a], x[1], x[2])
                 PROVE  YaPasado(x[1], x[2])'
      BY <1>1, <1>3 DEF SoloPasados
    <3>1. CASE a = e
      <4>1. x[1] = j /\ x[2] = i
        BY <2>2, <3>1
      <4> QED BY <1>1, <1>2, <4>1 DEF YaPasado
    <3>2. CASE a \in DOMAIN graph
      <4>1. YaPasado(x[1], x[2])
        BY <1>1, <2>4, <3>2 DEF IInv, SoloPasados
      <4>2. x[1] \in Personas(ii) /\ x[2] \in Visitas(ii)
        BY DEF Pares
      <4> QED BY <1>6, <4>1, <4>2
    <3> QED BY <2>1, <3>1, <3>2
  <2> QED BY <1>5, <1>7, <2>1, <2>6, <2>7, <2>8 DEF IInv
<1> QED BY <1>8, <1>9

LEMMA PasoSiguienteVisita == ASSUME IInv, SiguienteVisita PROVE IInv'
<1>1. /\ pc = "visitas" /\ pc' = pc /\ j >= ii.n /\ i' = i + 1 /\ j' = 0
      /\ UNCHANGED <<ii, graph, relPV, flujo>>
  BY DEF SiguienteVisita
<1>2. i \in Nat /\ j \in Nat /\ ii.n \in Nat
  BY DEF IInv, Tipos, EsInstancia
<1>3. Tipos' /\ ArcosConForma' /\ ParUnico'
  <2>1. Tipos'
    BY <1>1, <1>2 DEF IInv, Tipos, Arco, Nodos
  <2>2. ArcosConForma'
    BY <1>1 DEF IInv, ArcosConForma, DelPar, NodoVisita, NodoPersona, Sumidero, Pares
  <2>3. ParUnico'
    BY <1>1 DEF IInv, ParUnico, DelPar, NodoVisita, NodoPersona, Pares
  <2> QED BY <2>1, <2>2, <2>3
<1>4. \A x \in Pares(ii) : YaPasado(x[1], x[2]) => YaPasado(x[1], x[2])'
  <2> SUFFICES ASSUME NEW p \in Personas(ii), NEW v \in Visitas(ii), YaPasado(p, v)
               PROVE  YaPasado(p, v)'
    BY DEF Pares
  <2>1. v \in Int
    BY DEF IInv, Tipos, EsInstancia, Visitas
  <2> QED BY <1>1, <1>2, <2>1 DEF YaPasado
<1>5. SoloPasados'
  BY <1>1, <1>4 DEF IInv, SoloPasados, DelPar, NodoVisita, NodoPersona, Pares
<1>6. DeDondeVienen' /\ ParesRecuperados'
  BY <1>1 DEF IInv, DeDondeVienen, ParesRecuperados
<1> QED BY <1>3, <1>5, <1>6 DEF IInv

(* A step between two loops, before the flow is read *)
LEMMA PasoEntreBucles ==
  ASSUME IInv, UNCHANGED <<ii, graph, relPV>>,
         <<pc, pc'>> \in {<<"cuenta", "personas">>, <<"personas", "visitas">>,
                         <<"visitas", "sumidero">>, <<"sumidero", "resuelve">>,
                         <<"resuelve", "abortado">>},
         i' \in Nat, j' \in Nat, pc' = "visitas" => j' = 0
  PROVE  IInv'
<1>1. Tipos'
  BY DEF IInv, Tipos, EsInstancia, Arco, Nodos
<1>2. ArcosConForma' /\ ParUnico'
  <2>1. ArcosConForma'
    BY DEF IInv, ArcosConForma, DelPar, NodoVisita, NodoPersona, Sumidero, Pares
  <2>2. ParUnico'
    BY DEF IInv, ParUnico, DelPar, NodoVisita, NodoPersona, Pares
  <2> QED BY <2>1, <2>2
<1>3. SoloPasados'
  BY DEF IInv, SoloPasados, DelPar, NodoVisita, NodoPersona, Pares
<1>4. DeDondeVienen' /\ ParesRecuperados'
  BY DEF IInv, DeDondeVienen, ParesRecuperados
<1> QED BY <1>1, <1>2, <1>3, <1>4 DEF IInv

-----------------------------------------------------------------------------
(* Reading the flow                                                        *)

LEMMA PasoSolve == ASSUME IInv, Solve PROVE IInv'
<1>1. /\ pc = "resuelve" /\ pc' = "extrae" /\ i' = 1 /\ DOMAIN flujo' = DOMAIN graph
      /\ UNCHANGED <<ii, graph, j, relPV>>
  BY DEF Solve, Factibles
<1>2. Tipos' /\ ArcosConForma' /\ ParUnico' /\ SoloPasados'
  <2>1. Tipos'
    BY <1>1 DEF IInv, Tipos, EsInstancia, Arco, Nodos
  <2>2. ArcosConForma'
    BY <1>1 DEF IInv, ArcosConForma, DelPar, NodoVisita, NodoPersona, Sumidero, Pares
  <2>3. ParUnico'
    BY <1>1 DEF IInv, ParUnico, DelPar, NodoVisita, NodoPersona, Pares
  <2>4. SoloPasados'
    BY <1>1 DEF SoloPasados
  <2> QED BY <2>1, <2>2, <2>3, <2>4
<1>3. relPV' = <<>> /\ DOMAIN relPV' = {}
  BY <1>1 DEF IInv, DeDondeVienen
<1>4. DeDondeVienen' /\ ParesRecuperados'
  BY <1>1, <1>3 DEF DeDondeVienen, ParesRecuperados
<1> QED BY <1>2, <1>4 DEF IInv

(* The pair an arc of a person to a visit is read as *)
ParDe(a) == Tripleta(ii, graph[a].tail - 1, graph[a].head - (ii.n + 1))

LEMMA ParLeido ==
  ASSUME IInv, NEW a \in DOMAIN graph, graph[a].tail # 0, graph[a].head # Sumidero
  PROVE  /\ EsArcoDeVisita(a)
         /\ ParDe(a) \in Tripletas(ii)
         /\ <<ParDe(a).posPersona, ParDe(a).posVisita>> \in Pares(ii)
         /\ DelPar(ii, graph[a], ParDe(a).posPersona, ParDe(a).posVisita)
<1>1. EsInstancia(ii)
  BY DEF IInv, Tipos
<1>2. PICK x \in Pares(ii) : DelPar(ii, graph[a], x[1], x[2])
  BY DEF IInv, ArcosConForma
<1>3. x[1] \in Personas(ii) /\ x[2] \in Visitas(ii)
  BY DEF Pares
<1>4. ii.n \in Nat /\ x[1] \in 0 .. ii.n - 1 /\ x[2] \in Int
  BY <1>1, <1>3, Numeros
<1>5. /\ graph[a].tail = x[1] + 1 /\ graph[a].head = ii.n + 1 + x[2]
  BY <1>2 DEF DelPar, NodoPersona, NodoVisita
<1>6. graph[a].tail - 1 = x[1] /\ graph[a].head - (ii.n + 1) = x[2]
  BY <1>4, <1>5
<1>7. ParDe(a) = Tripleta(ii, x[1], x[2])
  BY <1>6 DEF ParDe
<1>8. ParDe(a).posPersona = x[1] /\ ParDe(a).posVisita = x[2]
  BY <1>7 DEF Tripleta
<1>9. EsArcoDeVisita(a)
  BY <1>4, <1>5 DEF EsArcoDeVisita
<1> QED BY <1>2, <1>3, <1>7, <1>8, <1>9 DEF Tripletas, Pares

LEMMA PasoExtraer == ASSUME IInv, Extraer PROVE IInv'
<1>1. /\ pc = "extrae" /\ pc' = pc /\ i' = i + 1
      /\ UNCHANGED <<ii, graph, flujo, j>>
      /\ relPV' = IF Flow(i) > 0 /\ EsArcoDeVisita(i) THEN Append(relPV, ParDe(i)) ELSE relPV
  BY DEF Extraer, ParDe
<1>2. /\ EsInstancia(ii) /\ i \in Nat /\ j \in Nat /\ graph \in Seq(Arco)
      /\ relPV \in Seq(Tripletas(ii)) /\ DOMAIN flujo = DOMAIN graph
  BY <1>1 DEF IInv, Tipos, DeDondeVienen
<1>3. DOMAIN relPV = 1 .. Len(relPV) /\ Len(relPV) \in Nat
  BY <1>2, LenProperties
<1>4. ArcosConForma' /\ ParUnico' /\ SoloPasados'
  BY <1>1 DEF IInv, ArcosConForma, ParUnico, SoloPasados, DelPar, NodoVisita, NodoPersona,
       Sumidero, Pares
<1> DEFINE Lee == Flow(i) > 0 /\ EsArcoDeVisita(i)
           Viene(t, n) == \E a \in 1 .. n : /\ a \in DOMAIN flujo /\ flujo[a] > 0
                                            /\ DelPar(ii, graph[a], t.posPersona, t.posVisita)
                                            /\ <<t.posPersona, t.posVisita>> \in Pares(ii)
<1>5. ASSUME Lee
      PROVE  /\ i \in DOMAIN graph /\ flujo[i] > 0
             /\ graph[i].tail # 0 /\ graph[i].head # Sumidero
  <2>1. i \in DOMAIN graph /\ flujo[i] > 0
    BY <1>2, <1>5 DEF Flow
  <2>2. graph[i].tail \in Int /\ ii.n \in Int
    <3>1. graph[i] \in Arco
      BY <1>2, <2>1, ElementOfSeq, LenProperties
    <3> QED BY <1>2, <3>1, Numeros DEF Arco
  <2>3. 0 < graph[i].tail /\ graph[i].tail <= ii.n
    BY <1>5 DEF EsArcoDeVisita
  <2>4. graph[i].tail # 0 /\ ~ (graph[i].tail > ii.n)
    BY <2>2, <2>3
  <2>5. graph[i].head # Sumidero
    <3>1. PICK x \in Pares(ii) : DelPar(ii, graph[i], x[1], x[2])
      BY <2>1, <2>4 DEF IInv, ArcosConForma
    <3>2. x[2] \in 0 .. ii.l - 1 /\ Sumidero = 1 + ii.n + ii.l /\ ii.n \in Nat /\ ii.l \in Nat
      BY <1>2, Numeros DEF Pares
    <3>3. graph[i].head = ii.n + 1 + x[2]
      BY <3>1 DEF DelPar
    <3> QED BY <3>2, <3>3
  <2> QED BY <2>1, <2>4, <2>5
<1>6. /\ relPV' \in Seq(Tripletas(ii))
      /\ \A k \in DOMAIN relPV : k \in DOMAIN relPV' /\ relPV'[k] = relPV[k]
      /\ \A k \in DOMAIN relPV' : k \in DOMAIN relPV \/ (Lee /\ relPV'[k] = ParDe(i))
      /\ Lee => \E k \in DOMAIN relPV' : relPV'[k] = ParDe(i)
  <2>1. CASE ~ Lee
    BY <1>1, <1>2, <2>1
  <2>2. CASE Lee
    <3>1. ParDe(i) \in Tripletas(ii)
      BY <1>5, <2>2, ParLeido
    <3>2. relPV' = Append(relPV, ParDe(i))
      BY <1>1, <2>2
    <3> HIDE DEF Lee
    <3>3. /\ relPV' \in Seq(Tripletas(ii)) /\ Len(relPV') = Len(relPV) + 1
          /\ \A k \in 1 .. Len(relPV) : relPV'[k] = relPV[k]
          /\ relPV'[Len(relPV) + 1] = ParDe(i)
      BY <1>2, <3>1, <3>2, AppendProperties
    <3>4. DOMAIN relPV' = 1 .. Len(relPV) + 1
      BY <3>3, LenProperties
    <3> QED BY <1>3, <2>2, <3>3, <3>4
  <2> HIDE DEF Lee
  <2> QED BY <2>1, <2>2
<1>7. Tipos'
  BY <1>1, <1>2, <1>6 DEF Tipos, Arco, Nodos
<1>8. \A k \in DOMAIN relPV : Viene(relPV[k], i - 1)
  BY <1>1 DEF IInv, DeDondeVienen
<1>9. \A k \in DOMAIN relPV' : Viene(relPV'[k], i)
  <2> SUFFICES ASSUME NEW k \in DOMAIN relPV' PROVE Viene(relPV'[k], i)
    OBVIOUS
  <2>1. CASE k \in DOMAIN relPV
    <3>1. Viene(relPV[k], i - 1) /\ relPV'[k] = relPV[k]
      BY <1>6, <1>8, <2>1
    <3>2. 1 .. i - 1 \subseteq 1 .. i
      BY <1>2
    <3> QED BY <3>1, <3>2
  <2>2. CASE Lee /\ relPV'[k] = ParDe(i)
    <3>1. /\ i \in DOMAIN graph /\ flujo[i] > 0
          /\ graph[i].tail # 0 /\ graph[i].head # Sumidero
      BY <1>5, <2>2
    <3>2. /\ <<ParDe(i).posPersona, ParDe(i).posVisita>> \in Pares(ii)
          /\ DelPar(ii, graph[i], ParDe(i).posPersona, ParDe(i).posVisita)
      BY <3>1, ParLeido
    <3>3. i \in 1 .. i
      BY <1>2, <3>1, LenProperties
    <3> QED BY <1>2, <2>2, <3>1, <3>2, <3>3
  <2> HIDE DEF Lee, Viene
  <2> QED BY <1>6, <2>1, <2>2
<1>10. DeDondeVienen'
  <2>1. i' - 1 = i
    BY <1>1, <1>2
  <2> QED BY <1>1, <1>2, <1>9, <2>1
       DEF DeDondeVienen, DelPar, NodoPersona, NodoVisita, Pares
<1>11. ParesRecuperados'
  <2> DEFINE Leido(s, a) == \E k \in DOMAIN s :
                              DelPar(ii, graph[a], s[k].posPersona, s[k].posVisita)
  <2> SUFFICES ASSUME NEW a \in 1 .. i, a \in DOMAIN flujo,
                      graph[a].tail # 0, graph[a].head # Sumidero
               PROVE  flujo[a] > 0 <=> Leido(relPV', a)
    <3>1. i' - 1 = i
      BY <1>1, <1>2
    <3> QED BY <1>1, <3>1 DEF ParesRecuperados, DelPar, NodoPersona, NodoVisita, Sumidero
  <2>1. ASSUME NEW k \in DOMAIN relPV',
               DelPar(ii, graph[a], relPV'[k].posPersona, relPV'[k].posVisita)
        PROVE  flujo[a] > 0
    <3>1. Viene(relPV'[k], i)
      BY <1>9
    <3>2. PICK b \in 1 .. i : /\ b \in DOMAIN flujo /\ flujo[b] > 0
                              /\ DelPar(ii, graph[b], relPV'[k].posPersona, relPV'[k].posVisita)
                              /\ <<relPV'[k].posPersona, relPV'[k].posVisita>> \in Pares(ii)
      BY <3>1
    <3>3. \A x \in Pares(ii) :
            DelPar(ii, graph[a], x[1], x[2]) /\ DelPar(ii, graph[b], x[1], x[2]) => a = b
      BY <1>2, <3>2 DEF IInv, ParUnico
    <3>4. a = b
      BY <2>1, <3>2, <3>3
    <3> QED BY <3>2, <3>4
  <2>2. ASSUME flujo[a] > 0 PROVE Leido(relPV', a)
    <3>1. CASE a \in 1 .. i - 1
      <4>1. Leido(relPV, a)
        BY <1>1, <2>2, <3>1 DEF IInv, ParesRecuperados, DelPar, NodoPersona, NodoVisita
      <4> QED BY <1>6, <4>1
    <3>2. CASE a = i
      <4>1. EsArcoDeVisita(i) /\ DelPar(ii, graph[i], ParDe(i).posPersona, ParDe(i).posVisita)
        BY <1>2, <3>2, ParLeido
      <4>2. Lee
        BY <2>2, <3>2, <4>1 DEF Flow
      <4> HIDE DEF Lee
      <4> QED BY <1>6, <3>2, <4>1, <4>2
    <3> QED BY <1>2, <3>1, <3>2
  <2> QED BY <2>1, <2>2
<1> QED BY <1>4, <1>7, <1>10, <1>11 DEF IInv

-----------------------------------------------------------------------------

LEMMA Paso == ASSUME IInv, [Next]_vars PROVE IInv'
<1>1. /\ EsInstancia(ii) /\ i \in Nat /\ j \in Nat /\ i + 1 \in Nat /\ 0 \in Nat
  BY DEF IInv, Tipos
<1>2. CASE ContarAristas
  BY <1>1, <1>2, PasoEntreBucles DEF ContarAristas
<1>3. CASE ArcoPersona
  <2>1. /\ pc = "personas" /\ i \in Personas(ii)
        /\ AddArc(0, NodoPersona(i), ii.pers_maxvisitas[i])
        /\ pc' = pc /\ i' = i + 1 /\ UNCHANGED <<ii, j, relPV, flujo>>
    BY <1>1, <1>3, Numeros DEF ArcoPersona
  <2>2. ii.pers_maxvisitas[i] \in Nat
    BY <1>1, <2>1 DEF EsInstancia
  <2>3. NodoPersona(i) \in Nodos /\ 0 \in Nodos
    BY <1>1, <2>1, Numeros DEF NodoPersona
  <2> QED BY <2>1, <2>2, <2>3, ArcoSinPar
<1>4. CASE ArcoSumidero
  <2>1. /\ pc = "sumidero" /\ i \in Visitas(ii)
        /\ AddArc(NodoVisita(i), Sumidero, ii.visita_cant_personas[i])
        /\ pc' = pc /\ i' = i + 1 /\ UNCHANGED <<ii, j, relPV, flujo>>
    BY <1>1, <1>4, Numeros DEF ArcoSumidero
  <2>2. ii.visita_cant_personas[i] \in Nat
    BY <1>1, <2>1 DEF EsInstancia
  <2>3. NodoVisita(i) \in Nodos /\ NodoVisita(i) > ii.n /\ Sumidero \in Nodos
    BY <1>1, <2>1, Numeros DEF NodoVisita
  <2> QED BY <2>1, <2>2, <2>3, ArcoSinPar
<1>5. CASE FinPersonas
  BY <1>1, <1>5, PasoEntreBucles DEF FinPersonas
<1>6. CASE FinVisitas
  BY <1>1, <1>6, PasoEntreBucles DEF FinVisitas
<1>7. CASE SetNodeSupply
  BY <1>1, <1>7, PasoEntreBucles DEF SetNodeSupply
<1>8. CASE NoOptimo
  BY <1>1, <1>8, PasoEntreBucles DEF NoOptimo
<1>9. CASE FinExtraer
  <2>1. pc = "extrae" /\ pc' = "fin" /\ UNCHANGED <<ii, graph, relPV, flujo, i, j>>
    BY <1>9 DEF FinExtraer
  <2> QED BY <2>1 DEF IInv, Tipos, ArcosConForma, ParUnico, SoloPasados, DeDondeVienen,
           ParesRecuperados, DelPar, NodoVisita, NodoPersona, Sumidero, Pares, Arco, Nodos
<1>10. CASE UNCHANGED vars
  BY <1>10 DEF vars, IInv, Tipos, ArcosConForma, ParUnico, SoloPasados, DeDondeVienen,
       ParesRecuperados, DelPar, NodoVisita, NodoPersona, Sumidero, Pares, Arco, Nodos, YaPasado
<1> QED BY <1>2, <1>3, <1>4, <1>5, <1>6, <1>7, <1>8, <1>9, <1>10, PasoArcoVisita,
           PasoSiguienteVisita, PasoSolve, PasoExtraer DEF Next

LEMMA Inicio == ASSUME Init PROVE IInv
<1>1. EsInstancia(ii) /\ graph = <<>> /\ relPV = <<>> /\ pc = "cuenta" /\ i = 0 /\ j = 0
  BY InstanciasAssumption DEF Init
<1>2. DOMAIN graph = {} /\ graph \in Seq(Arco) /\ relPV \in Seq(Tripletas(ii))
  BY <1>1
<1> QED BY <1>1, <1>2 DEF IInv, Tipos, ArcosConForma, ParUnico, SoloPasados, DeDondeVienen,
         ParesRecuperados

(* Whatever flow the solver answers, and however many arcs were counted,   *)
(* the arcs read as pairs are those of people to visits, and a pair is in  *)
(* the answer exactly when its arc carries flow                            *)
(* (SRPlanner.cpp:370-371,424-432).                                        *)
THEOREM ParesSiempreRecuperados == Spec => []ParesRecuperados
<1>1. Init => IInv
  BY Inicio
<1>2. IInv /\ [Next]_vars => IInv'
  BY Paso
<1>3. IInv => ParesRecuperados
  BY DEF IInv
<1> QED BY <1>1, <1>2, <1>3, PTL DEF Spec

-----------------------------------------------------------------------------
(* The graph, arc by arc                                                   *)

DePersona(x, p) == [tail |-> 0, head |-> p + 1, cap |-> x.pers_maxvisitas[p]]
DePar(x, t)     == [tail |-> t.posPersona + 1, head |-> x.n + 1 + t.posVisita, cap |-> 1]
DeVisita(x, v)  == [tail |-> x.n + 1 + v, head |-> 1 + x.n + x.l,
                    cap |-> x.visita_cant_personas[v]]

(* The arcs of some people, some pairs and some visits *)
Puestos(x, P, T, V) ==
  {DePersona(x, p) : p \in P} \cup {DePar(x, t) : t \in T} \cup {DeVisita(x, v) : v \in V}

Todos(x) == Puestos(x, Personas(x), Arcos(x), Visitas(x))

(* The people, the pairs and the visits whose arc the loops have added *)
Listas ==
  IF pc = "cuenta" THEN {}
  ELSE IF pc = "personas" THEN {p \in Personas(ii) : p < i} ELSE Personas(ii)

Cruzados ==
  IF pc \in {"cuenta", "personas"} THEN {}
  ELSE IF pc = "visitas" THEN {t \in Arcos(ii) : YaPasado(t.posPersona, t.posVisita)}
  ELSE Arcos(ii)

Cerradas ==
  IF pc \in {"cuenta", "personas", "visitas"} THEN {}
  ELSE IF pc = "sumidero" THEN {v \in Visitas(ii) : v < i} ELSE Visitas(ii)

Puesto == {graph[a] : a \in DOMAIN graph}

SinHuecos ==
  /\ Puesto = Puestos(ii, Listas, Cruzados, Cerradas)
  /\ \A a, b \in DOMAIN graph : graph[a] = graph[b] => a = b

Contado ==
  /\ pc = "cuenta" => i = 0
  /\ pc # "cuenta" => caristas = ii.n + ii.l + Suma(Elegibles, Visitas(ii))

Ofrecido == supply = Suma(ii.visita_cant_personas, Cerradas)

Suministrado ==
  pc \in {"resuelve", "extrae"} =>
    suministro = [x \in Nodos |-> IF x = 0 THEN supply ELSE IF x = Sumidero THEN -supply ELSE 0]

SinRepetir == \A k, m \in DOMAIN relPV : relPV[k] = relPV[m] => k = m

GInv ==
  /\ TypeOK /\ SinHuecos /\ Contado /\ Ofrecido /\ Suministrado /\ SinRepetir
  /\ pc = "extrae" => flujo \in Factibles

LEMMA CamposTripleta ==
  ASSUME NEW x, EsInstancia(x), NEW t \in Tripletas(x)
  PROVE  /\ t.posPersona \in Personas(x) /\ t.posVisita \in Visitas(x)
         /\ t = Tripleta(x, t.posPersona, t.posVisita)
BY DEF Tripletas, Tripleta

(* No two arcs are the same. *)
LEMMA ArcosDistintos ==
  ASSUME NEW x, EsInstancia(x)
  PROVE  /\ \A p, q \in Personas(x) : DePersona(x, p) = DePersona(x, q) => p = q
         /\ \A t, u \in Tripletas(x) : DePar(x, t) = DePar(x, u) => t = u
         /\ \A v, w \in Visitas(x) : DeVisita(x, v) = DeVisita(x, w) => v = w
         /\ \A p \in Personas(x), t \in Tripletas(x) : DePersona(x, p) # DePar(x, t)
         /\ \A p \in Personas(x), v \in Visitas(x) : DePersona(x, p) # DeVisita(x, v)
         /\ \A t \in Tripletas(x), v \in Visitas(x) : DePar(x, t) # DeVisita(x, v)
<1>1. /\ x.n \in Nat \ {0} /\ x.l \in Nat \ {0}
      /\ Personas(x) = 0 .. x.n - 1 /\ Visitas(x) = 0 .. x.l - 1
  BY DEF EsInstancia, Personas, Visitas
<1>2. \A p, q \in Personas(x) : DePersona(x, p) = DePersona(x, q) => p = q
  <2> SUFFICES ASSUME NEW p \in Personas(x), NEW q \in Personas(x),
                      DePersona(x, p) = DePersona(x, q)
               PROVE  p = q
    OBVIOUS
  <2>1. p + 1 = q + 1
    BY DEF DePersona
  <2> QED BY <1>1, <2>1
<1>3. \A t, u \in Tripletas(x) : DePar(x, t) = DePar(x, u) => t = u
  <2> SUFFICES ASSUME NEW t \in Tripletas(x), NEW u \in Tripletas(x), DePar(x, t) = DePar(x, u)
               PROVE  t = u
    OBVIOUS
  <2>1. t.posPersona + 1 = u.posPersona + 1 /\ x.n + 1 + t.posVisita = x.n + 1 + u.posVisita
    BY DEF DePar
  <2>2. /\ t.posPersona \in Personas(x) /\ u.posPersona \in Personas(x)
        /\ t.posVisita \in Visitas(x) /\ u.posVisita \in Visitas(x)
        /\ t = Tripleta(x, t.posPersona, t.posVisita)
        /\ u = Tripleta(x, u.posPersona, u.posVisita)
    BY CamposTripleta
  <2>3. t.posPersona = u.posPersona /\ t.posVisita = u.posVisita
    BY <1>1, <2>1, <2>2
  <2> QED BY <2>2, <2>3
<1>4. \A v, w \in Visitas(x) : DeVisita(x, v) = DeVisita(x, w) => v = w
  <2> SUFFICES ASSUME NEW v \in Visitas(x), NEW w \in Visitas(x), DeVisita(x, v) = DeVisita(x, w)
               PROVE  v = w
    OBVIOUS
  <2>1. x.n + 1 + v = x.n + 1 + w
    BY DEF DeVisita
  <2> QED BY <1>1, <2>1
<1>5. \A p \in Personas(x), t \in Tripletas(x) : DePersona(x, p) # DePar(x, t)
  <2> SUFFICES ASSUME NEW p \in Personas(x), NEW t \in Tripletas(x),
                      DePersona(x, p) = DePar(x, t)
               PROVE  FALSE
    OBVIOUS
  <2>1. 0 = t.posPersona + 1
    BY DEF DePersona, DePar
  <2> QED BY <1>1, <2>1, CamposTripleta
<1>6. \A p \in Personas(x), v \in Visitas(x) : DePersona(x, p) # DeVisita(x, v)
  <2> SUFFICES ASSUME NEW p \in Personas(x), NEW v \in Visitas(x),
                      DePersona(x, p) = DeVisita(x, v)
               PROVE  FALSE
    OBVIOUS
  <2>1. 0 = x.n + 1 + v
    BY DEF DePersona, DeVisita
  <2> QED BY <1>1, <2>1
<1>7. \A t \in Tripletas(x), v \in Visitas(x) : DePar(x, t) # DeVisita(x, v)
  <2> SUFFICES ASSUME NEW t \in Tripletas(x), NEW v \in Visitas(x), DePar(x, t) = DeVisita(x, v)
               PROVE  FALSE
    OBVIOUS
  <2>1. t.posPersona + 1 = x.n + 1 + v
    BY DEF DePar, DeVisita
  <2> QED BY <1>1, <2>1, CamposTripleta
<1> QED BY <1>2, <1>3, <1>4, <1>5, <1>6, <1>7

LEMMA ConjuntosFinitos ==
  ASSUME NEW x, EsInstancia(x)
  PROVE  /\ IsFiniteSet(Personas(x)) /\ Cardinality(Personas(x)) = x.n
         /\ IsFiniteSet(Visitas(x)) /\ Cardinality(Visitas(x)) = x.l
         /\ IsFiniteSet(Arcos(x)) /\ Arcos(x) \in SUBSET Tripletas(x)
<1>1. x.n \in Nat /\ x.l \in Nat
  BY DEF EsInstancia
<1>2. IsFiniteSet(Personas(x)) /\ Cardinality(Personas(x)) = x.n - 0
  BY <1>1, CuentaRango DEF Personas
<1>3. IsFiniteSet(Visitas(x)) /\ Cardinality(Visitas(x)) = x.l - 0
  BY <1>1, CuentaRango DEF Visitas
<1>4. Arcos(x) \in SUBSET Tripletas(x)
  BY DEF Arcos
<1>5. IsFiniteSet(Arcos(x))
  BY <1>4, TripletasFinito, FS_Subset
<1> QED BY <1>1, <1>2, <1>3, <1>4, <1>5

(* How many arcs a complete graph has *)
LEMMA CuentaTodos ==
  ASSUME NEW x, EsInstancia(x)
  PROVE  /\ IsFiniteSet(Todos(x))
         /\ Cardinality(Todos(x)) = x.n + x.l + Cardinality(Arcos(x))
<1> DEFINE bp == [p \in Personas(x) |-> DePersona(x, p)]
           bt == [t \in Arcos(x) |-> DePar(x, t)]
           bv == [v \in Visitas(x) |-> DeVisita(x, v)]
           A == {bp[p] : p \in Personas(x)}
           B == {bt[t] : t \in Arcos(x)}
           C == {bv[v] : v \in Visitas(x)}
<1>1. /\ IsFiniteSet(Personas(x)) /\ Cardinality(Personas(x)) = x.n
      /\ IsFiniteSet(Visitas(x)) /\ Cardinality(Visitas(x)) = x.l
      /\ IsFiniteSet(Arcos(x)) /\ Arcos(x) \in SUBSET Tripletas(x)
  BY ConjuntosFinitos
<1>2. \A p, q \in Personas(x) : bp[p] = bp[q] => p = q
  BY ArcosDistintos
<1>3. \A t, u \in Arcos(x) : bt[t] = bt[u] => t = u
  BY <1>1, ArcosDistintos
<1>4. \A v, w \in Visitas(x) : bv[v] = bv[w] => v = w
  BY ArcosDistintos
<1>5. A \cap B = {} /\ (A \cup B) \cap C = {}
  BY <1>1, ArcosDistintos
<1>6. Todos(x) = (A \cup B) \cup C
  BY DEF Todos, Puestos
<1> HIDE DEF bp, bt, bv
<1>7. /\ IsFiniteSet(A) /\ Cardinality(A) = x.n
      /\ IsFiniteSet(B) /\ Cardinality(B) = Cardinality(Arcos(x))
      /\ IsFiniteSet(C) /\ Cardinality(C) = x.l
  <2>1. IsFiniteSet(A) /\ Cardinality(A) = x.n
    BY <1>1, <1>2, CuentaImagen
  <2>2. IsFiniteSet(B) /\ Cardinality(B) = Cardinality(Arcos(x))
    BY <1>1, <1>3, CuentaImagen
  <2>3. IsFiniteSet(C) /\ Cardinality(C) = x.l
    BY <1>1, <1>4, CuentaImagen
  <2> QED BY <2>1, <2>2, <2>3
<1> HIDE DEF A, B, C
<1>8. IsFiniteSet(A \cup B) /\ Cardinality(A \cup B) = x.n + Cardinality(Arcos(x)) - 0
  <2>1. Cardinality(A \cap B) = 0
    BY <1>5, FS_EmptySet
  <2> QED BY <1>7, <2>1, FS_Union
<1>9. IsFiniteSet(Todos(x)) /\ Cardinality(Todos(x)) = Cardinality(A \cup B) + x.l - 0
  <2>1. Cardinality((A \cup B) \cap C) = 0
    BY <1>5, FS_EmptySet
  <2> QED BY <1>6, <1>7, <1>8, <2>1, FS_Union
<1>10. Cardinality(Arcos(x)) \in Nat /\ x.n \in Nat /\ x.l \in Nat
  BY <1>1, FS_CardinalityType DEF EsInstancia
<1> QED BY <1>8, <1>9, <1>10

(* The arcs counted are enough: each arc of a pair is of a person that may *)
(* be sent to the visit.                                                   *)
LEMMA ArcosContados ==
  ASSUME EsInstancia(ii)
  PROVE  /\ Cardinality(Arcos(ii)) <= Suma(Elegibles, Visitas(ii))
         /\ Cardinality(Arcos(ii)) \in Nat /\ Suma(Elegibles, Visitas(ii)) \in Nat
<1> DEFINE A == Arcos(ii)
           V == Visitas(ii)
           h == [t \in A |-> t.posVisita]
           g == [v \in V |-> Cardinality({t \in A : h[t] = v})]
<1>1. IsFiniteSet(A) /\ IsFiniteSet(V) /\ A \in SUBSET Tripletas(ii)
  BY ConjuntosFinitos
<1>2. \A t \in A : h[t] \in V
  BY <1>1, CamposTripleta
<1>3. ASSUME NEW v \in V
      PROVE  /\ g[v] <= Cardinality(ii.visita_personas[v])
             /\ g[v] \in Nat /\ Cardinality(ii.visita_personas[v]) \in Nat
  <2> DEFINE S == {t \in A : h[t] = v}
             b == [t \in S |-> t.posPersona]
             I == {b[t] : t \in S}
  <2>1. IsFiniteSet(S)
    <3>1. S \in SUBSET A
      OBVIOUS
    <3> HIDE DEF S, A
    <3> QED BY <1>1, <3>1, FS_Subset
  <2>2. \A t, u \in S : b[t] = b[u] => t = u
    <3> SUFFICES ASSUME NEW t \in S, NEW u \in S, t.posPersona = u.posPersona PROVE t = u
      OBVIOUS
    <3>1. /\ t.posVisita = u.posVisita
          /\ t = Tripleta(ii, t.posPersona, t.posVisita)
          /\ u = Tripleta(ii, u.posPersona, u.posVisita)
      BY <1>1, CamposTripleta
    <3> QED BY <3>1
  <2>3. \A t \in S : b[t] \in ii.visita_personas[v]
    BY DEF Arcos
  <2>4. IsFiniteSet(ii.visita_personas[v])
    <3>1. ii.visita_personas[v] \in SUBSET Personas(ii)
      BY DEF EsInstancia
    <3> QED BY <3>1, ConjuntosFinitos, FS_Subset
  <2>5. g[v] = Cardinality(S)
    OBVIOUS
  <2> HIDE DEF S, b, g
  <2>6. IsFiniteSet(I) /\ Cardinality(I) = Cardinality(S)
    BY <2>1, <2>2, CuentaImagen
  <2>7. I \in SUBSET ii.visita_personas[v]
    BY <2>3
  <2> HIDE DEF I
  <2>8. Cardinality(I) <= Cardinality(ii.visita_personas[v])
    BY <2>4, <2>7, FS_Subset
  <2> QED BY <2>1, <2>4, <2>5, <2>6, <2>8, FS_CardinalityType
<1>4. \A v \in V : Elegibles[v] = Cardinality(ii.visita_personas[v])
  BY DEF Elegibles
<1>5. Cardinality(A) = Suma(g, V)
  <2> HIDE DEF h, A, V
  <2> QED BY <1>1, <1>2, CuentaPorValor
<1> HIDE DEF g, V
<1>6. Suma(g, V) <= Suma(Elegibles, V) /\ Suma(Elegibles, V) \in Nat
  <2>1. \A v \in V : /\ g[v] \in Int /\ Elegibles[v] \in Int /\ g[v] <= Elegibles[v]
                     /\ Elegibles[v] \in Nat
    BY <1>3, <1>4
  <2>2. Suma(g, V) <= Suma(Elegibles, V)
    BY <1>1, <2>1, SumaMonotona
  <2>3. Suma(Elegibles, V) \in Nat
    BY <1>1, <2>1, SumaNat
  <2> QED BY <2>2, <2>3
<1> QED BY <1>1, <1>5, <1>6, FS_CardinalityType DEF V

(* There are as many arcs as different arcs. *)
LEMMA LargoDelGrafo ==
  ASSUME GInv PROVE IsFiniteSet(Puesto) /\ Cardinality(Puesto) = Len(graph)
<1> DEFINE D == DOMAIN graph
<1>1. /\ graph \in Seq(Arco) /\ \A a, b \in D : graph[a] = graph[b] => a = b
  BY DEF GInv, TypeOK, SinHuecos
<1>2. Len(graph) \in Nat /\ D = 1 .. Len(graph)
  BY <1>1, LenProperties
<1>3. IsFiniteSet(D) /\ Cardinality(D) = Len(graph)
  <2>1. \A k \in Nat : IsFiniteSet(1 .. k) /\ Cardinality(1 .. k) = k
    BY FS_Interval
  <2> QED BY <1>2, <2>1
<1>4. Puesto = {graph[a] : a \in D}
  BY DEF Puesto
<1> HIDE DEF D
<1> QED BY <1>1, <1>3, <1>4, CuentaImagen

(* Every arc asked for is of the complete graph, so that it fits. *)
LEMMA Crece ==
  ASSUME GInv, ii' = ii, pc # "cuenta",
         NEW t \in Nodos, NEW d \in Nodos, NEW c \in Nat, AddArc(t, d, c),
         [tail |-> t, head |-> d, cap |-> c] \in Todos(ii) \ Puesto
  PROVE  /\ graph' \in Seq(Arco)
         /\ Puesto' = Puesto \cup {[tail |-> t, head |-> d, cap |-> c]}
         /\ \A a, b \in DOMAIN graph' : graph'[a] = graph'[b] => a = b
<1> DEFINE e == [tail |-> t, head |-> d, cap |-> c]
<1>1. /\ EsInstancia(ii) /\ graph \in Seq(Arco) /\ caristas \in Nat
      /\ \A a, b \in DOMAIN graph : graph[a] = graph[b] => a = b
      /\ caristas = ii.n + ii.l + Suma(Elegibles, Visitas(ii))
  BY DEF GInv, TypeOK, SinHuecos, Contado
<1>2. Len(graph) \in Nat /\ DOMAIN graph = 1 .. Len(graph)
  BY <1>1, LenProperties
<1>3. Puesto \in SUBSET Todos(ii)
  BY DEF GInv, SinHuecos, Todos, Puestos, Listas, Cruzados, Cerradas
<1>4. IsFiniteSet(Puesto) /\ Cardinality(Puesto) = Len(graph)
  BY LargoDelGrafo
<1>5. Cardinality(Puesto \cup {e}) <= Cardinality(Todos(ii))
  <2>1. IsFiniteSet(Todos(ii)) /\ Puesto \cup {e} \in SUBSET Todos(ii)
    BY <1>1, <1>3, CuentaTodos
  <2> HIDE DEF e
  <2> QED BY <2>1, FS_Subset
<1>6. Cardinality(Puesto \cup {e}) = Len(graph) + 1
  BY <1>4, FS_AddElement
<1>7. Len(graph) < caristas
  <2>1. Cardinality(Todos(ii)) = ii.n + ii.l + Cardinality(Arcos(ii))
    BY <1>1, CuentaTodos
  <2>2. /\ Cardinality(Arcos(ii)) <= Suma(Elegibles, Visitas(ii))
        /\ Cardinality(Arcos(ii)) \in Nat /\ Suma(Elegibles, Visitas(ii)) \in Nat
    BY <1>1, ArcosContados
  <2>3. ii.n \in Nat /\ ii.l \in Nat
    BY <1>1 DEF EsInstancia
  <2> QED BY <1>1, <1>2, <1>5, <1>6, <2>1, <2>2, <2>3
<1>8. graph' = Append(graph, e) /\ e \in Arco
  BY <1>7 DEF AddArc, Arco
<1> HIDE DEF e
<1>9. /\ graph' \in Seq(Arco) /\ Len(graph') = Len(graph) + 1
      /\ \A k \in 1 .. Len(graph) : graph'[k] = graph[k]
      /\ graph'[Len(graph) + 1] = e
  BY <1>1, <1>8, AppendProperties
<1>10. /\ DOMAIN graph' = DOMAIN graph \cup {Len(graph) + 1}
       /\ Len(graph) + 1 \notin DOMAIN graph
  <2>1. DOMAIN graph' = 1 .. Len(graph) + 1
    BY <1>9, LenProperties
  <2> QED BY <1>2, <2>1
<1>11. Puesto' = Puesto \cup {e}
  BY <1>2, <1>9, <1>10 DEF Puesto
<1>12. \A a \in DOMAIN graph : graph[a] # e
  BY DEF Puesto, e
<1>13. \A a, b \in DOMAIN graph' : graph'[a] = graph'[b] => a = b
  BY <1>1, <1>2, <1>9, <1>10, <1>12
<1> QED BY <1>9, <1>11, <1>13 DEF e

(* A step of a loop that adds an arc *)
LEMMA PasoConArco ==
  ASSUME GInv, UNCHANGED <<ii, pc, caristas, suministro, flujo, relPV>>,
         pc \in {"personas", "visitas", "sumidero"},
         i' \in Nat, j' \in 0 .. ii.n,
         NEW t \in Nodos, NEW d \in Nodos, NEW c \in Nat, AddArc(t, d, c),
         [tail |-> t, head |-> d, cap |-> c] \in Todos(ii) \ Puesto,
         Puestos(ii, Listas', Cruzados', Cerradas')
           = Puesto \cup {[tail |-> t, head |-> d, cap |-> c]},
         supply' \in Nat, Ofrecido'
  PROVE  GInv'
<1>1. /\ graph' \in Seq(Arco)
      /\ Puesto' = Puesto \cup {[tail |-> t, head |-> d, cap |-> c]}
      /\ \A a, b \in DOMAIN graph' : graph'[a] = graph'[b] => a = b
  BY Crece
<1>2. TypeOK'
  BY <1>1 DEF GInv, TypeOK, Arco, Nodos
<1>3. SinHuecos'
  BY <1>1 DEF SinHuecos
<1>4. Contado' /\ Suministrado' /\ SinRepetir'
  BY DEF GInv, Contado, Suministrado, SinRepetir, Elegibles
<1> QED BY <1>2, <1>3, <1>4 DEF GInv

(* A step that adds none, before the flow is read *)
LEMMA PasoSinArco ==
  ASSUME GInv, UNCHANGED <<ii, graph, supply, relPV, flujo>>, pc' # "cuenta", pc' # "extrae",
         pc' \in {"personas", "visitas", "sumidero", "resuelve", "abortado", "fin"},
         i' \in Nat, j' \in 0 .. ii.n, caristas' \in Nat,
         caristas' = ii.n + ii.l + Suma(Elegibles, Visitas(ii)),
         Listas' = Listas, Cruzados' = Cruzados, Cerradas' = Cerradas,
         suministro' \in [Nodos -> Int], Suministrado'
  PROVE  GInv'
<1>1. TypeOK'
  BY DEF GInv, TypeOK, Arco, Nodos
<1>2. SinHuecos' /\ Ofrecido' /\ SinRepetir'
  BY DEF GInv, SinHuecos, Puesto, Ofrecido, SinRepetir
<1>3. Contado'
  BY DEF Contado, Elegibles
<1> QED BY <1>1, <1>2, <1>3 DEF GInv

LEMMA GrafoInicial == ASSUME Init PROVE GInv
<1>1. /\ EsInstancia(ii) /\ graph = <<>> /\ relPV = <<>> /\ flujo = <<>>
      /\ pc = "cuenta" /\ i = 0 /\ j = 0 /\ supply = 0 /\ caristas = 0
      /\ suministro = [x \in Nodos |-> 0]
  BY InstanciasAssumption DEF Init
<1>2. /\ graph \in Seq(Arco) /\ relPV \in Seq(Tripletas(ii)) /\ flujo \in Seq(Nat)
      /\ DOMAIN graph = {} /\ DOMAIN relPV = {}
  BY <1>1
<1>3. TypeOK
  <2>1. 0 \in 0 .. ii.n
    BY <1>1 DEF EsInstancia
  <2> QED BY <1>1, <1>2, <2>1 DEF TypeOK
<1>4. SinHuecos
  BY <1>1, <1>2 DEF SinHuecos, Puesto, Puestos, Listas, Cruzados, Cerradas
<1>5. Ofrecido
  BY <1>1, SumaVacia DEF Ofrecido, Cerradas
<1>6. Contado /\ Suministrado /\ SinRepetir
  BY <1>1, <1>2 DEF Contado, Suministrado, SinRepetir
<1> QED BY <1>1, <1>3, <1>4, <1>5, <1>6 DEF GInv

LEMMA GrafoPersona == ASSUME GInv, ArcoPersona PROVE GInv'
<1>1. /\ pc = "personas" /\ i < ii.n /\ i' = i + 1
      /\ AddArc(0, NodoPersona(i), ii.pers_maxvisitas[i])
      /\ UNCHANGED <<ii, pc, caristas, supply, suministro, flujo, j, relPV>>
  BY DEF ArcoPersona
<1>2. /\ EsInstancia(ii) /\ i \in Nat /\ j \in 0 .. ii.n /\ supply \in Nat
      /\ ii.n \in Nat /\ ii.l \in Nat
  BY DEF GInv, TypeOK, EsInstancia
<1>3. i \in Personas(ii) /\ NodoPersona(i) \in Nodos /\ 0 \in Nodos
      /\ ii.pers_maxvisitas[i] \in Nat
  <2>1. i \in Personas(ii)
    BY <1>1, <1>2 DEF Personas
  <2> QED BY <1>1, <1>2, <2>1 DEF EsInstancia, NodoPersona, Nodos
<1>4. [tail |-> 0, head |-> NodoPersona(i), cap |-> ii.pers_maxvisitas[i]] = DePersona(ii, i)
  BY DEF DePersona, NodoPersona
<1>5. Listas' = Listas \cup {i} /\ i \notin Listas /\ Listas \subseteq Personas(ii)
  BY <1>1, <1>2, <1>3 DEF Listas, Personas
<1>6. Cruzados = {} /\ Cerradas = {} /\ Cruzados' = {} /\ Cerradas' = {}
  BY <1>1 DEF Cruzados, Cerradas
<1>7. Puesto = Puestos(ii, Listas, {}, {})
  BY <1>6 DEF GInv, SinHuecos
<1>8. DePersona(ii, i) \notin Puesto
  BY <1>2, <1>3, <1>5, <1>7, ArcosDistintos DEF Puestos
<1>9. DePersona(ii, i) \in Todos(ii)
  BY <1>3 DEF Todos, Puestos
<1>10. Puestos(ii, Listas', Cruzados', Cerradas') = Puesto \cup {DePersona(ii, i)}
  BY <1>5, <1>6, <1>7 DEF Puestos
<1>11. Ofrecido'
  BY <1>1, <1>6 DEF GInv, Ofrecido
<1>12. i' \in Nat /\ j' \in 0 .. ii.n /\ supply' \in Nat
  BY <1>1, <1>2
<1> QED BY <1>1, <1>3, <1>4, <1>8, <1>9, <1>10, <1>11, <1>12, PasoConArco

LEMMA GrafoVisita == ASSUME GInv, ArcoVisita PROVE GInv'
<1>1. /\ pc = "visitas" /\ i < ii.l /\ j < ii.n /\ j' = j + 1
      /\ UNCHANGED <<ii, pc, caristas, supply, suministro, flujo, i, relPV>>
      /\ IF PuedeIr(j, i) THEN AddArc(NodoPersona(j), NodoVisita(i), 1) ELSE UNCHANGED graph
  BY DEF ArcoVisita
<1>2. /\ EsInstancia(ii) /\ i \in Nat /\ j \in Nat /\ supply \in Nat /\ caristas \in Nat
      /\ ii.n \in Nat /\ ii.l \in Nat /\ suministro \in [Nodos -> Int]
      /\ caristas = ii.n + ii.l + Suma(Elegibles, Visitas(ii))
  <2>1. /\ EsInstancia(ii) /\ i \in Nat /\ j \in 0 .. ii.n /\ supply \in Nat
        /\ caristas \in Nat /\ suministro \in [Nodos -> Int]
    BY DEF GInv, TypeOK
  <2>2. caristas = ii.n + ii.l + Suma(Elegibles, Visitas(ii))
    BY <1>1 DEF GInv, Contado
  <2>3. ii.n \in Nat /\ ii.l \in Nat
    BY <2>1 DEF EsInstancia
  <2> QED BY <2>1, <2>2, <2>3
<1>3. j \in Personas(ii) /\ i \in Visitas(ii)
  BY <1>1, <1>2 DEF Personas, Visitas
<1> DEFINE t == Tripleta(ii, j, i)
<1>4. t \in Tripletas(ii) /\ t.posPersona = j /\ t.posVisita = i
  BY <1>3 DEF Tripletas, Tripleta
<1>5. PuedeIr(j, i) <=> t \in Arcos(ii)
  BY <1>4 DEF PuedeIr, Arcos
<1>6. /\ Listas = Personas(ii) /\ Listas' = Personas(ii) /\ Cerradas = {} /\ Cerradas' = {}
      /\ Cruzados = {u \in Arcos(ii) : u.posVisita < i \/ (u.posVisita = i /\ u.posPersona < j)}
      /\ Cruzados' = {u \in Arcos(ii) : u.posVisita < i \/ (u.posVisita = i /\ u.posPersona < j + 1)}
  BY <1>1 DEF Listas, Cerradas, Cruzados, YaPasado
<1>7. \A u \in Tripletas(ii) : /\ u.posPersona \in Int /\ u.posVisita \in Int
                               /\ u.posVisita = i /\ u.posPersona = j => u = t
  <2> TAKE u \in Tripletas(ii)
  <2>1. /\ u.posPersona \in Personas(ii) /\ u.posVisita \in Visitas(ii)
        /\ u = Tripleta(ii, u.posPersona, u.posVisita)
    BY <1>2, CamposTripleta
  <2> QED BY <1>2, <2>1 DEF Personas, Visitas
<1>8. Arcos(ii) \in SUBSET Tripletas(ii)
  BY DEF Arcos
<1> HIDE DEF t
<1>9. t \notin Cruzados /\ Cruzados \subseteq Arcos(ii)
  BY <1>2, <1>4, <1>6
<1>10. Cruzados' = Cruzados \cup ({t} \cap Arcos(ii))
  <2>1. \A u \in Arcos(ii) : u \in Cruzados' <=> u \in Cruzados \/ u = t
    <3> TAKE u \in Arcos(ii)
    <3>1. u \in Tripletas(ii)
      BY <1>8
    <3>2. u.posPersona \in Int /\ u.posVisita \in Int
          /\ (u.posVisita = i /\ u.posPersona = j <=> u = t)
      BY <1>4, <1>7, <3>1
    <3>3. u \in Cruzados <=> u.posVisita < i \/ (u.posVisita = i /\ u.posPersona < j)
      BY <1>6
    <3>4. u \in Cruzados' <=> u.posVisita < i \/ (u.posVisita = i /\ u.posPersona < j + 1)
      BY <1>6
    <3>5. u.posPersona < j + 1 <=> u.posPersona < j \/ u.posPersona = j
      BY <1>2, <3>2
    <3> QED BY <3>2, <3>3, <3>4, <3>5
  <2>2. Cruzados' \subseteq Arcos(ii)
    BY <1>6
  <2> QED BY <1>9, <2>1, <2>2
<1>11. Puesto = Puestos(ii, Personas(ii), Cruzados, {})
  BY <1>6 DEF GInv, SinHuecos
<1>12. i' \in Nat /\ j' \in 0 .. ii.n /\ supply' \in Nat
  BY <1>1, <1>2
<1>13. CASE PuedeIr(j, i)
  <2>1. [tail |-> NodoPersona(j), head |-> NodoVisita(i), cap |-> 1] = DePar(ii, t)
    BY <1>4 DEF DePar, NodoPersona, NodoVisita
  <2>2. NodoPersona(j) \in Nodos /\ NodoVisita(i) \in Nodos
    BY <1>2, <1>3, NodosDelPar
  <2>3. t \in Arcos(ii)
    BY <1>5, <1>13
  <2>4. DePar(ii, t) \notin Puesto
    BY <1>2, <1>4, <1>8, <1>9, <1>11, ArcosDistintos DEF Puestos
  <2>5. DePar(ii, t) \in Todos(ii)
    BY <2>3 DEF Todos, Puestos
  <2>6. Puestos(ii, Listas', Cruzados', Cerradas') = Puesto \cup {DePar(ii, t)}
    <3>1. Cruzados' = Cruzados \cup {t}
      BY <1>10, <2>3
    <3> QED BY <1>6, <1>11, <3>1 DEF Puestos
  <2>7. Ofrecido'
    BY <1>1, <1>6 DEF GInv, Ofrecido
  <2>8. AddArc(NodoPersona(j), NodoVisita(i), 1) /\ 1 \in Nat
    BY <1>1, <1>13
  <2> QED BY <1>1, <1>12, <2>1, <2>2, <2>4, <2>5, <2>6, <2>7, <2>8, PasoConArco
<1>14. CASE ~ PuedeIr(j, i)
  <2>1. Cruzados' = Cruzados
    BY <1>5, <1>10, <1>14
  <2>2. Suministrado'
    BY <1>1 DEF Suministrado
  <2>3. UNCHANGED <<ii, graph, supply, relPV, flujo>> /\ pc' = "visitas"
    BY <1>1, <1>14
  <2> QED BY <1>1, <1>2, <1>6, <1>12, <2>1, <2>2, <2>3, PasoSinArco
<1> QED BY <1>13, <1>14

LEMMA GrafoSumidero == ASSUME GInv, ArcoSumidero PROVE GInv'
<1>1. /\ pc = "sumidero" /\ i < ii.l /\ i' = i + 1
      /\ AddArc(NodoVisita(i), Sumidero, ii.visita_cant_personas[i])
      /\ supply' = supply + ii.visita_cant_personas[i]
      /\ UNCHANGED <<ii, pc, caristas, suministro, flujo, j, relPV>>
  BY DEF ArcoSumidero
<1>2. /\ EsInstancia(ii) /\ i \in Nat /\ j \in 0 .. ii.n /\ supply \in Nat
      /\ ii.n \in Nat /\ ii.l \in Nat
  BY DEF GInv, TypeOK, EsInstancia
<1>3. i \in Visitas(ii) /\ ii.visita_cant_personas[i] \in Nat
  <2>1. i \in Visitas(ii)
    BY <1>1, <1>2 DEF Visitas
  <2> QED BY <1>2, <2>1 DEF EsInstancia
<1>4. NodoVisita(i) \in Nodos /\ Sumidero \in Nodos
  <2>1. NodoVisita(i) \in Nodos
    <3>1. 0 \in Personas(ii)
      BY <1>2, Numeros
    <3> QED BY <1>2, <1>3, <3>1, NodosDelPar
  <2>2. Sumidero \in Nodos
    BY <1>2, Numeros
  <2> QED BY <2>1, <2>2
<1>5. [tail |-> NodoVisita(i), head |-> Sumidero, cap |-> ii.visita_cant_personas[i]]
        = DeVisita(ii, i)
  BY DEF DeVisita, NodoVisita, Sumidero
<1>6. Cerradas' = Cerradas \cup {i} /\ i \notin Cerradas /\ Cerradas \subseteq Visitas(ii)
  BY <1>1, <1>2, <1>3 DEF Cerradas, Visitas
<1>7. /\ Listas = Personas(ii) /\ Listas' = Personas(ii)
      /\ Cruzados = Arcos(ii) /\ Cruzados' = Arcos(ii)
  BY <1>1 DEF Listas, Cruzados
<1>8. Puesto = Puestos(ii, Personas(ii), Arcos(ii), Cerradas)
  BY <1>7 DEF GInv, SinHuecos
<1>9. DeVisita(ii, i) \notin Puesto
  <2>1. Arcos(ii) \in SUBSET Tripletas(ii)
    BY DEF Arcos
  <2> QED BY <1>2, <1>3, <1>6, <1>8, <2>1, ArcosDistintos DEF Puestos
<1>10. DeVisita(ii, i) \in Todos(ii)
  BY <1>3 DEF Todos, Puestos
<1>11. Puestos(ii, Listas', Cruzados', Cerradas') = Puesto \cup {DeVisita(ii, i)}
  BY <1>6, <1>7, <1>8 DEF Puestos
<1>12. Ofrecido'
  <2>1. supply = Suma(ii.visita_cant_personas, Cerradas)
    BY DEF GInv, Ofrecido
  <2>2. IsFiniteSet(Cerradas)
    <3>1. IsFiniteSet(Visitas(ii)) /\ Cerradas \in SUBSET Visitas(ii)
      BY <1>2, <1>6, ConjuntosFinitos
    <3> QED BY <3>1, FS_Subset
  <2>3. ii.visita_cant_personas[i] \in Int
        /\ \A v \in Cerradas : ii.visita_cant_personas[v] \in Int
    BY <1>2, <1>3, <1>6 DEF EsInstancia
  <2>4. Suma(ii.visita_cant_personas, Cerradas \cup {i})
          = Suma(ii.visita_cant_personas, Cerradas) + ii.visita_cant_personas[i]
    BY <1>6, <2>2, <2>3, SumaMas
  <2> QED BY <1>1, <1>6, <2>1, <2>4 DEF Ofrecido
<1>13. i' \in Nat /\ j' \in 0 .. ii.n /\ supply' \in Nat
  BY <1>1, <1>2, <1>3
<1> QED BY <1>1, <1>3, <1>4, <1>5, <1>9, <1>10, <1>11, <1>12, <1>13, PasoConArco

(* The steps between two arcs *)
LEMMA GrafoEntreArcos ==
  ASSUME GInv, \/ ContarAristas \/ FinPersonas \/ SiguienteVisita \/ FinVisitas
               \/ SetNodeSupply \/ NoOptimo \/ FinExtraer
  PROVE  GInv'
<1>1. /\ EsInstancia(ii) /\ i \in Nat /\ j \in 0 .. ii.n /\ j \in Nat /\ supply \in Nat
      /\ caristas \in Nat /\ ii.n \in Nat /\ ii.l \in Nat /\ suministro \in [Nodos -> Int]
  <2>1. /\ EsInstancia(ii) /\ i \in Nat /\ j \in 0 .. ii.n /\ supply \in Nat
        /\ caristas \in Nat /\ suministro \in [Nodos -> Int]
    BY DEF GInv, TypeOK
  <2>2. ii.n \in Nat /\ ii.l \in Nat
    BY <2>1 DEF EsInstancia
  <2> QED BY <2>1, <2>2
<1>2. /\ Personas(ii) \subseteq 0 .. ii.n - 1 /\ Visitas(ii) \subseteq 0 .. ii.l - 1
      /\ \A t \in Arcos(ii) : t.posPersona \in Personas(ii) /\ t.posVisita \in Visitas(ii)
  BY <1>1, CamposTripleta DEF Personas, Visitas, Arcos
<1>3. pc # "cuenta" => caristas = ii.n + ii.l + Suma(Elegibles, Visitas(ii))
  BY DEF GInv, Contado
<1>4. CASE ContarAristas
  <2>1. /\ pc = "cuenta" /\ pc' = "personas" /\ UNCHANGED <<ii, graph, supply, suministro, flujo,
           i, j, relPV>>
        /\ caristas' = ii.n + ii.l + Suma(Elegibles, Visitas(ii))
    BY <1>4 DEF ContarAristas
  <2>2. caristas' \in Nat
    BY <1>1, <2>1, ArcosContados
  <2>3. i = 0
    BY <2>1 DEF GInv, Contado
  <2>4. Listas = {} /\ Listas' = {}
    <3>1. Listas' = {p \in Personas(ii) : p < 0}
      BY <2>1, <2>3 DEF Listas
    <3> QED BY <1>1, <1>2, <2>1, <3>1 DEF Listas
  <2>5. Cruzados' = Cruzados /\ Cerradas' = Cerradas /\ Suministrado'
    BY <2>1 DEF Cruzados, Cerradas, Suministrado
  <2> QED BY <1>1, <2>1, <2>2, <2>4, <2>5, PasoSinArco
<1>5. CASE FinPersonas
  <2>1. /\ pc = "personas" /\ pc' = "visitas" /\ i >= ii.n /\ i' = 0 /\ j' = 0
        /\ UNCHANGED <<ii, caristas, graph, supply, suministro, flujo, relPV>>
    BY <1>5 DEF FinPersonas
  <2>2. Listas = Personas(ii) /\ Listas' = Personas(ii)
    <3>1. Listas = {p \in Personas(ii) : p < i} /\ Listas' = Personas(ii)
      BY <2>1 DEF Listas
    <3> QED BY <1>1, <1>2, <2>1, <3>1
  <2>3. Cruzados = {} /\ Cruzados' = {}
    <3>1. Cruzados' = {t \in Arcos(ii) : t.posVisita < 0 \/ (t.posVisita = 0 /\ t.posPersona < 0)}
      BY <2>1 DEF Cruzados, YaPasado
    <3>2. Cruzados = {}
      BY <2>1 DEF Cruzados
    <3> QED BY <1>1, <1>2, <3>1, <3>2
  <2>4. Cerradas' = Cerradas /\ Suministrado'
    BY <2>1 DEF Cerradas, Suministrado
  <2>5. 0 \in 0 .. ii.n
    BY <1>1
  <2> QED BY <1>1, <1>3, <2>1, <2>2, <2>3, <2>4, <2>5, PasoSinArco
<1>6. CASE SiguienteVisita
  <2>1. /\ pc = "visitas" /\ pc' = "visitas" /\ i < ii.l /\ j >= ii.n /\ i' = i + 1 /\ j' = 0
        /\ UNCHANGED <<ii, caristas, graph, supply, suministro, flujo, relPV>>
    BY <1>6 DEF SiguienteVisita
  <2>2. Cruzados' = Cruzados
    <3>1. /\ Cruzados = {t \in Arcos(ii) : t.posVisita < i \/ (t.posVisita = i /\ t.posPersona < j)}
          /\ Cruzados' = {t \in Arcos(ii) : t.posVisita < i + 1
                                              \/ (t.posVisita = i + 1 /\ t.posPersona < 0)}
      BY <2>1 DEF Cruzados, YaPasado
    <3>2. ASSUME NEW t \in Arcos(ii)
          PROVE  t \in Cruzados <=> t \in Cruzados'
      <4>1. t.posPersona \in 0 .. ii.n - 1 /\ t.posVisita \in 0 .. ii.l - 1
        BY <1>2
      <4>2. t \in Cruzados <=> t.posVisita < i \/ t.posVisita = i
        BY <1>1, <2>1, <3>1, <4>1
      <4>3. t \in Cruzados' <=> t.posVisita < i + 1
        BY <1>1, <2>1, <3>1, <4>1
      <4> QED BY <1>1, <4>1, <4>2, <4>3
    <3> QED BY <3>1, <3>2
  <2>3. Listas' = Listas /\ Cerradas' = Cerradas /\ Suministrado'
    BY <2>1 DEF Listas, Cerradas, Suministrado
  <2>4. i' \in Nat /\ j' \in 0 .. ii.n
    BY <1>1, <2>1
  <2> QED BY <1>1, <1>3, <2>1, <2>2, <2>3, <2>4, PasoSinArco
<1>7. CASE FinVisitas
  <2>1. /\ pc = "visitas" /\ pc' = "sumidero" /\ i >= ii.l /\ i' = 0
        /\ UNCHANGED <<ii, caristas, graph, supply, suministro, flujo, j, relPV>>
    BY <1>7 DEF FinVisitas
  <2>2. Cruzados = Arcos(ii) /\ Cruzados' = Arcos(ii)
    <3>1. /\ Cruzados = {t \in Arcos(ii) : t.posVisita < i \/ (t.posVisita = i /\ t.posPersona < j)}
          /\ Cruzados' = Arcos(ii)
      BY <2>1 DEF Cruzados, YaPasado
    <3>2. \A t \in Arcos(ii) : t.posVisita < i
      BY <1>1, <1>2, <2>1
    <3> QED BY <3>1, <3>2
  <2>3. Cerradas = {} /\ Cerradas' = {}
    <3>1. Cerradas' = {v \in Visitas(ii) : v < 0} /\ Cerradas = {}
      BY <2>1 DEF Cerradas
    <3> QED BY <1>1, <1>2, <3>1
  <2>4. Listas' = Listas /\ Suministrado'
    BY <2>1 DEF Listas, Suministrado
  <2> QED BY <1>1, <1>3, <2>1, <2>2, <2>3, <2>4, PasoSinArco
<1>8. CASE SetNodeSupply
  <2>1. /\ pc = "sumidero" /\ pc' = "resuelve" /\ i >= ii.l /\ i' = 0
        /\ suministro' = [x \in Nodos |-> IF x = 0 THEN supply
                                          ELSE IF x = Sumidero THEN -supply ELSE 0]
        /\ UNCHANGED <<ii, caristas, graph, supply, flujo, j, relPV>>
    BY <1>8 DEF SetNodeSupply
  <2>2. Cerradas = Visitas(ii) /\ Cerradas' = Visitas(ii)
    <3>1. Cerradas = {v \in Visitas(ii) : v < i} /\ Cerradas' = Visitas(ii)
      BY <2>1 DEF Cerradas
    <3> QED BY <1>1, <1>2, <2>1, <3>1
  <2>3. Listas' = Listas /\ Cruzados' = Cruzados
    BY <2>1 DEF Listas, Cruzados
  <2>4. Suministrado'
    BY <2>1 DEF Suministrado, Nodos, Sumidero
  <2>5. suministro' \in [Nodos -> Int]
    BY <1>1, <2>1
  <2> QED BY <1>1, <1>3, <2>1, <2>2, <2>3, <2>4, <2>5, PasoSinArco
<1>9. CASE NoOptimo \/ FinExtraer
  <2>1. /\ pc \in {"resuelve", "extrae"} /\ pc' \in {"abortado", "fin"}
        /\ UNCHANGED <<ii, caristas, graph, supply, suministro, flujo, i, j, relPV>>
    BY <1>9 DEF NoOptimo, FinExtraer
  <2>2. Listas' = Listas /\ Cruzados' = Cruzados /\ Cerradas' = Cerradas /\ Suministrado'
    BY <2>1 DEF Listas, Cruzados, Cerradas, Suministrado
  <2> QED BY <1>1, <1>3, <2>1, <2>2, PasoSinArco
<1> QED BY <1>4, <1>5, <1>6, <1>7, <1>8, <1>9

(* The graph the solver is given *)
LEMMA Completo ==
  ASSUME GInv, pc \notin {"cuenta", "personas", "visitas", "sumidero"}
  PROVE  /\ EsInstancia(ii) /\ Puesto = Todos(ii)
         /\ DOMAIN graph = 1 .. Len(graph) /\ Len(graph) \in Nat /\ IsFiniteSet(DOMAIN graph)
         /\ \A a \in DOMAIN graph : graph[a] \in Arco
         /\ \A a, b \in DOMAIN graph : graph[a] = graph[b] => a = b
         /\ \A a \in DOMAIN graph : graph[a].cap \in 0 .. Max(Capacidades)
         /\ Max(Capacidades) \in Nat
<1>1. /\ EsInstancia(ii) /\ graph \in Seq(Arco)
      /\ \A a, b \in DOMAIN graph : graph[a] = graph[b] => a = b
  BY DEF GInv, TypeOK, SinHuecos
<1>2. Puesto = Todos(ii)
  BY DEF GInv, SinHuecos, Listas, Cruzados, Cerradas, Todos
<1>3. /\ DOMAIN graph = 1 .. Len(graph) /\ Len(graph) \in Nat
      /\ \A a \in DOMAIN graph : graph[a] \in Arco
  BY <1>1, LenProperties, ElementOfSeq
<1>4. IsFiniteSet(DOMAIN graph)
  <2>1. \A k \in Nat : IsFiniteSet(1 .. k)
    BY FS_Interval
  <2> QED BY <1>3, <2>1
<1>5. Capacidades \subseteq Nat
  BY <1>3 DEF Capacidades, Arco
<1>6. IsFiniteSet(Capacidades)
  <2>1. Capacidades = {graph[a].cap : a \in DOMAIN graph}
    BY DEF Capacidades
  <2> DEFINE g == [a \in DOMAIN graph |-> graph[a].cap]
             D == DOMAIN graph
  <2>2. g \in Surjection(D, Capacidades)
    BY <2>1 DEF Surjection
  <2> HIDE DEF g
  <2> QED BY <1>4, <2>2, FS_Surjection
<1>7. Capacidades # {}
  <2>1. 0 \in Personas(ii)
    BY <1>1, Numeros
  <2>2. DePersona(ii, 0) \in Puesto
    BY <1>2, <2>1 DEF Todos, Puestos
  <2> QED BY <2>2 DEF Puesto, Capacidades
<1>8. Max(Capacidades) \in Nat /\ \A c \in Capacidades : c <= Max(Capacidades)
  <2>1. Capacidades \subseteq Int
    BY <1>5
  <2>2. Max(Capacidades) \in Capacidades /\ \A c \in Capacidades : c <= Max(Capacidades)
    BY <1>6, <1>7, <2>1, Maximo
  <2> QED BY <1>5, <2>2
<1>9. \A a \in DOMAIN graph : graph[a].cap \in 0 .. Max(Capacidades)
  <2>1. \A c \in Capacidades : c \in 0 .. Max(Capacidades)
    BY <1>5, <1>8
  <2> QED BY <2>1 DEF Capacidades
<1> QED BY <1>1, <1>2, <1>3, <1>4, <1>8, <1>9

LEMMA MismosFactibles ==
  ASSUME UNCHANGED <<ii, graph, suministro>> PROVE Factibles' = Factibles
<1>1. Capacidades' = Capacidades /\ Nodos' = Nodos
  BY DEF Capacidades, Nodos
<1>2. \A f, x : Saldo(f, x)' = Saldo(f, x)
  BY DEF Saldo
<1> QED BY <1>1, <1>2 DEF Factibles

LEMMA GrafoSolve == ASSUME GInv, Solve PROVE GInv'
<1>1. /\ pc = "resuelve" /\ pc' = "extrae" /\ i' = 1 /\ flujo' \in Factibles
      /\ UNCHANGED <<ii, caristas, graph, supply, suministro, j, relPV>>
  BY DEF Solve
<1>2. flujo' \in Seq(Nat)
  <2>1. flujo' \in [DOMAIN graph -> 0 .. Max(Capacidades)]
    BY <1>1 DEF Factibles
  <2>2. DOMAIN graph = 1 .. Len(graph) /\ Len(graph) \in Nat /\ Max(Capacidades) \in Nat
    BY <1>1, Completo
  <2>3. flujo' \in [1 .. Len(graph) -> Nat]
    BY <2>1, <2>2
  <2> QED BY <2>2, <2>3, SeqDef
<1>3. TypeOK'
  BY <1>1, <1>2 DEF GInv, TypeOK, Arco, Nodos
<1>4. /\ Listas' = Listas /\ Cruzados' = Cruzados /\ Cerradas' = Cerradas
  BY <1>1 DEF Listas, Cruzados, Cerradas
<1>5. SinHuecos' /\ Contado' /\ Ofrecido' /\ Suministrado' /\ SinRepetir'
  BY <1>1, <1>4 DEF GInv, SinHuecos, Puesto, Contado, Ofrecido, Suministrado, SinRepetir,
       Nodos, Sumidero, Elegibles
<1>6. (flujo \in Factibles)'
  BY <1>1, MismosFactibles
<1> QED BY <1>1, <1>3, <1>5, <1>6 DEF GInv

(* A pair read from an arc had not been read from an earlier one. *)
LEMMA GrafoExtraer == ASSUME IInv, IInv', GInv, Extraer PROVE GInv'
<1>1. /\ pc = "extrae" /\ pc' = pc /\ i' = i + 1
      /\ UNCHANGED <<ii, caristas, graph, supply, suministro, flujo, j>>
      /\ relPV' = IF Flow(i) > 0 /\ EsArcoDeVisita(i) THEN Append(relPV, ParDe(i)) ELSE relPV
  BY DEF Extraer, ParDe
<1>2. /\ i \in Nat /\ DOMAIN flujo = DOMAIN graph /\ DOMAIN relPV = 1 .. Len(relPV)
      /\ relPV \in Seq(Tripletas(ii)) /\ Len(relPV) \in Nat /\ graph \in Seq(Arco)
      /\ EsInstancia(ii) /\ ii.n \in Nat
  BY <1>1, LenProperties DEF IInv, Tipos, DeDondeVienen, EsInstancia
<1>3. TypeOK'
  <2>1. relPV' \in Seq(Tripletas(ii))
    BY <1>1 DEF IInv, Tipos
  <2> QED BY <1>1, <1>2, <2>1 DEF GInv, TypeOK, Arco, Nodos
<1>4. /\ Listas' = Listas /\ Cruzados' = Cruzados /\ Cerradas' = Cerradas
  BY <1>1 DEF Listas, Cruzados, Cerradas
<1>5. SinHuecos' /\ Contado' /\ Ofrecido' /\ Suministrado'
  BY <1>1, <1>4 DEF GInv, SinHuecos, Puesto, Contado, Ofrecido, Suministrado,
       Nodos, Sumidero, Elegibles
<1>6. (flujo \in Factibles)'
  BY <1>1, MismosFactibles DEF GInv
<1>7. SinRepetir'
  <2>1. CASE relPV' = relPV
    BY <2>1 DEF GInv, SinRepetir
  <2>2. CASE relPV' # relPV
    <3>1. Flow(i) > 0 /\ EsArcoDeVisita(i) /\ relPV' = Append(relPV, ParDe(i))
      BY <1>1, <2>2
    <3>2. i \in DOMAIN graph
      BY <1>2, <3>1 DEF Flow
    <3>3. graph[i].tail # 0 /\ graph[i].head # Sumidero
      <4>1. 0 < graph[i].tail /\ graph[i].tail <= ii.n
        BY <3>1 DEF EsArcoDeVisita
      <4>2. graph[i].tail \in Int
        <5>1. graph[i] \in Arco
          BY <1>2, <3>2, ElementOfSeq, LenProperties
        <5> QED BY <1>2, <5>1, Numeros DEF Arco
      <4>3. graph[i].tail # 0 /\ ~ (graph[i].tail > ii.n)
        BY <1>2, <4>1, <4>2
      <4>4. PICK x \in Pares(ii) : DelPar(ii, graph[i], x[1], x[2])
        BY <3>2, <4>3 DEF IInv, ArcosConForma
      <4>5. x[2] \in 0 .. ii.l - 1 /\ Sumidero = 1 + ii.n + ii.l /\ ii.l \in Nat
        BY <1>2, Numeros DEF Pares
      <4>6. graph[i].head = ii.n + 1 + x[2]
        BY <4>4 DEF DelPar
      <4> QED BY <1>2, <4>3, <4>5, <4>6
    <3>4. /\ ParDe(i) \in Tripletas(ii)
          /\ <<ParDe(i).posPersona, ParDe(i).posVisita>> \in Pares(ii)
          /\ DelPar(ii, graph[i], ParDe(i).posPersona, ParDe(i).posVisita)
      BY <3>2, <3>3, ParLeido
    <3>5. \A k \in DOMAIN relPV : relPV[k] # ParDe(i)
      <4> SUFFICES ASSUME NEW k \in DOMAIN relPV, relPV[k] = ParDe(i) PROVE FALSE
        OBVIOUS
      <4>1. PICK a \in 1 .. i - 1 :
              /\ a \in DOMAIN flujo
              /\ DelPar(ii, graph[a], relPV[k].posPersona, relPV[k].posVisita)
        BY <1>1 DEF IInv, DeDondeVienen
      <4>2. \A x \in Pares(ii) : DelPar(ii, graph[a], x[1], x[2])
                                 /\ DelPar(ii, graph[i], x[1], x[2]) => a = i
        BY <1>2, <3>2, <4>1 DEF IInv, ParUnico
      <4>3. a = i
        BY <3>4, <4>1, <4>2
      <4> QED BY <1>2, <4>1, <4>3
    <3>6. /\ Len(relPV') = Len(relPV) + 1 /\ relPV' \in Seq(Tripletas(ii))
          /\ \A k \in 1 .. Len(relPV) : relPV'[k] = relPV[k]
          /\ relPV'[Len(relPV) + 1] = ParDe(i)
      BY <1>2, <3>1, <3>4, AppendProperties
    <3>7. DOMAIN relPV' = DOMAIN relPV \cup {Len(relPV) + 1}
      <4>1. DOMAIN relPV' = 1 .. Len(relPV) + 1
        BY <3>6, LenProperties
      <4> QED BY <1>2, <4>1
    <3>8. \A k, m \in DOMAIN relPV : relPV[k] = relPV[m] => k = m
      BY DEF GInv, SinRepetir
    <3> QED BY <1>2, <3>5, <3>6, <3>7, <3>8 DEF SinRepetir
  <2> QED BY <2>1, <2>2
<1> QED BY <1>3, <1>5, <1>6, <1>7 DEF GInv

LEMMA GrafoPaso == ASSUME IInv, IInv', GInv, [Next]_vars PROVE GInv'
<1>1. CASE UNCHANGED vars
  <2>1. UNCHANGED <<ii, pc, caristas, graph, supply, suministro, flujo, i, j, relPV>>
    BY <1>1 DEF vars
  <2>2. TypeOK'
    BY <2>1 DEF GInv, TypeOK, Arco, Nodos
  <2>3. /\ Listas' = Listas /\ Cruzados' = Cruzados /\ Cerradas' = Cerradas
    BY <2>1 DEF Listas, Cruzados, Cerradas, YaPasado
  <2>4. SinHuecos' /\ Contado' /\ Ofrecido' /\ Suministrado' /\ SinRepetir'
    BY <2>1, <2>3 DEF GInv, SinHuecos, Puesto, Contado, Ofrecido, Suministrado, SinRepetir,
         Nodos, Sumidero, Elegibles
  <2>5. (pc = "extrae" => flujo \in Factibles)'
    BY <2>1, MismosFactibles DEF GInv
  <2> QED BY <2>2, <2>4, <2>5 DEF GInv
<1> QED BY <1>1, GrafoPersona, GrafoVisita, GrafoSumidero, GrafoEntreArcos, GrafoSolve,
           GrafoExtraer DEF Next

LEMMA LlegadasDeLaVisita ==
  ASSUME GInv, pc \notin {"cuenta", "personas", "visitas", "sumidero"}, NEW v \in Visitas(ii)
  PROVE  Cardinality({a \in DOMAIN graph : graph[a].head = NodoVisita(v)})
           = Cardinality({t \in Arcos(ii) : t.posVisita = v})
<1> DEFINE S == {a \in DOMAIN graph : graph[a].head = NodoVisita(v)}
           T == {t \in Arcos(ii) : t.posVisita = v}
           b == [t \in T |-> DePar(ii, t)]
<1>1. /\ EsInstancia(ii) /\ Puesto = Todos(ii) /\ IsFiniteSet(DOMAIN graph)
      /\ \A a, c \in DOMAIN graph : graph[a] = graph[c] => a = c
  BY Completo
<1>2. IsFiniteSet(S) /\ IsFiniteSet(T)
  <2>1. IsFiniteSet(Arcos(ii)) /\ T \in SUBSET Arcos(ii) /\ S \in SUBSET DOMAIN graph
    BY <1>1, ConjuntosFinitos
  <2> HIDE DEF S, T
  <2> QED BY <1>1, <2>1, FS_Subset
<1>3. Arcos(ii) \in SUBSET Tripletas(ii)
  BY DEF Arcos
<1>4. \A t, u \in T : b[t] = b[u] => t = u
  BY <1>1, <1>3, ArcosDistintos
<1>5. \A a, c \in S : graph[a] = graph[c] => a = c
  BY <1>1
<1>6. {graph[a] : a \in S} = {b[t] : t \in T}
  <2>1. ASSUME NEW e \in Todos(ii), e.head = NodoVisita(v)
        PROVE  \E t \in T : e = b[t]
    <3>1. /\ ii.n \in Nat /\ ii.l \in Nat /\ v \in 0 .. ii.l - 1
          /\ \A p \in Personas(ii) : p \in 0 .. ii.n - 1
      BY <1>1, Numeros
    <3>2. ASSUME NEW p \in Personas(ii), e = DePersona(ii, p) PROVE FALSE
      <4>1. p + 1 = ii.n + 1 + v
        BY <2>1, <3>2 DEF DePersona, NodoVisita
      <4> QED BY <3>1, <4>1
    <3>3. ASSUME NEW w \in Visitas(ii), e = DeVisita(ii, w) PROVE FALSE
      <4>1. 1 + ii.n + ii.l = ii.n + 1 + v
        BY <2>1, <3>3 DEF DeVisita, NodoVisita
      <4> QED BY <3>1, <4>1
    <3>4. PICK t \in Arcos(ii) : e = DePar(ii, t)
      BY <3>2, <3>3 DEF Todos, Puestos
    <3>5. ii.n + 1 + t.posVisita = ii.n + 1 + v
      BY <2>1, <3>4 DEF DePar, NodoVisita
    <3>6. t.posVisita \in 0 .. ii.l - 1
      BY <1>1, <1>3, CamposTripleta, Numeros
    <3>7. t.posVisita = v
      BY <3>1, <3>5, <3>6
    <3> QED BY <3>4, <3>7
  <2>2. \A t \in T : b[t] \in Todos(ii) /\ b[t].head = NodoVisita(v)
    BY DEF Todos, Puestos, DePar, NodoVisita
  <2>3. \A e : e \in Todos(ii) <=> \E a \in DOMAIN graph : e = graph[a]
    BY <1>1 DEF Puesto
  <2> HIDE DEF b, T
  <2>4. {graph[a] : a \in S} \subseteq {b[t] : t \in T}
    BY <2>1, <2>3
  <2>5. {b[t] : t \in T} \subseteq {graph[a] : a \in S}
    BY <2>2, <2>3
  <2> QED BY <2>4, <2>5
<1> HIDE DEF S, T, b
<1>7. Cardinality({graph[a] : a \in S}) = Cardinality(S)
  BY <1>2, <1>5, CuentaImagen
<1>8. Cardinality({b[t] : t \in T}) = Cardinality(T)
  BY <1>2, <1>4, CuentaImagen
<1>9. Cardinality(S) = Cardinality(T)
  BY <1>6, <1>7, <1>8
<1> QED BY <1>9 DEF S, T

LEMMA CabenLosArcos == ASSUME GInv PROVE ArcosCaben
<1>1. EsInstancia(ii) /\ Len(graph) \in Nat /\ caristas \in Nat
  BY LenProperties DEF GInv, TypeOK
<1>2. IsFiniteSet(Puesto) /\ Cardinality(Puesto) = Len(graph)
  BY LargoDelGrafo
<1>3. Cardinality(Todos(ii)) = ii.n + ii.l + Cardinality(Arcos(ii)) /\ IsFiniteSet(Todos(ii))
  BY <1>1, CuentaTodos
<1>4. /\ Cardinality(Arcos(ii)) <= Suma(Elegibles, Visitas(ii))
      /\ Cardinality(Arcos(ii)) \in Nat /\ Suma(Elegibles, Visitas(ii)) \in Nat
      /\ ii.n \in Nat /\ ii.l \in Nat
  BY <1>1, ArcosContados DEF EsInstancia
<1>5. Len(graph) <= caristas
  <2>1. CASE pc = "cuenta"
    <3>1. Puesto = {}
      BY <2>1 DEF GInv, SinHuecos, Puestos, Listas, Cruzados, Cerradas
    <3> QED BY <1>1, <1>2, <3>1, FS_EmptySet
  <2>2. CASE pc # "cuenta"
    <3>1. Puesto \in SUBSET Todos(ii)
      BY DEF GInv, SinHuecos, Todos, Puestos, Listas, Cruzados, Cerradas
    <3>2. Cardinality(Puesto) <= Cardinality(Todos(ii))
      BY <1>3, <3>1, FS_Subset
    <3>3. caristas = ii.n + ii.l + Suma(Elegibles, Visitas(ii))
      BY <2>2 DEF GInv, Contado
    <3> QED BY <1>1, <1>2, <1>3, <1>4, <3>2, <3>3
  <2> QED BY <2>1, <2>2
<1>6. ASSUME pc \in {"resuelve", "extrae", "fin", "abortado"}
      PROVE  Len(graph) = ii.n + ii.l + Cardinality(Arcos(ii))
  BY <1>2, <1>3, <1>6, Completo
<1>7. ASSUME pc \in {"resuelve", "extrae", "fin", "abortado"}
      PROVE  \A v \in Visitas(ii) :
               Cardinality({a \in DOMAIN graph : graph[a].head = NodoVisita(v)})
                 = Cardinality({t \in Arcos(ii) : t.posVisita = v})
  BY <1>7, LlegadasDeLaVisita
<1> QED BY <1>5, <1>6, <1>7 DEF ArcosCaben

-----------------------------------------------------------------------------
(* The flow                                                                *)

(* The arc of each person, pair and visit *)
DelaPersona == [p \in Personas(ii) |-> CHOOSE a \in DOMAIN graph : graph[a] = DePersona(ii, p)]
DelArco     == [t \in Arcos(ii)    |-> CHOOSE a \in DOMAIN graph : graph[a] = DePar(ii, t)]
DelaVisita  == [v \in Visitas(ii)  |-> CHOOSE a \in DOMAIN graph : graph[a] = DeVisita(ii, v)]

ConPersona(p) == {t \in Arcos(ii) : t.posPersona = p}
ConVisita(v)  == {t \in Arcos(ii) : t.posVisita = v}

(* The solver is called, or has answered. *)
Resuelto == GInv /\ pc \in {"resuelve", "extrae"}

LEMMA UnArcoDeCada ==
  ASSUME Resuelto
  PROVE  /\ \A p \in Personas(ii) : /\ DelaPersona[p] \in DOMAIN graph
                                    /\ graph[DelaPersona[p]] = DePersona(ii, p)
         /\ \A t \in Arcos(ii) : DelArco[t] \in DOMAIN graph /\ graph[DelArco[t]] = DePar(ii, t)
         /\ \A v \in Visitas(ii) : /\ DelaVisita[v] \in DOMAIN graph
                                   /\ graph[DelaVisita[v]] = DeVisita(ii, v)
         /\ \A a \in DOMAIN graph : \/ \E p \in Personas(ii) : a = DelaPersona[p]
                                    \/ \E t \in Arcos(ii) : a = DelArco[t]
                                    \/ \E v \in Visitas(ii) : a = DelaVisita[v]
<1>1. /\ Puesto = Todos(ii)
      /\ \A a, b \in DOMAIN graph : graph[a] = graph[b] => a = b
  BY Completo DEF Resuelto
<1>2. \A e \in Todos(ii) : \E a \in DOMAIN graph : graph[a] = e
  BY <1>1 DEF Puesto
<1>3. \A p \in Personas(ii) : /\ DelaPersona[p] \in DOMAIN graph
                              /\ graph[DelaPersona[p]] = DePersona(ii, p)
  <2> TAKE p \in Personas(ii)
  <2>1. DePersona(ii, p) \in Todos(ii)
    BY DEF Todos, Puestos
  <2>2. \E a \in DOMAIN graph : graph[a] = DePersona(ii, p)
    BY <1>2, <2>1
  <2> QED BY <2>2 DEF DelaPersona
<1>4. \A t \in Arcos(ii) : DelArco[t] \in DOMAIN graph /\ graph[DelArco[t]] = DePar(ii, t)
  <2> TAKE t \in Arcos(ii)
  <2>1. DePar(ii, t) \in Todos(ii)
    BY DEF Todos, Puestos
  <2>2. \E a \in DOMAIN graph : graph[a] = DePar(ii, t)
    BY <1>2, <2>1
  <2> QED BY <2>2 DEF DelArco
<1>5. \A v \in Visitas(ii) : /\ DelaVisita[v] \in DOMAIN graph
                             /\ graph[DelaVisita[v]] = DeVisita(ii, v)
  <2> TAKE v \in Visitas(ii)
  <2>1. DeVisita(ii, v) \in Todos(ii)
    BY DEF Todos, Puestos
  <2>2. \E a \in DOMAIN graph : graph[a] = DeVisita(ii, v)
    BY <1>2, <2>1
  <2> QED BY <2>2 DEF DelaVisita
<1>6. \A a \in DOMAIN graph : \/ \E p \in Personas(ii) : a = DelaPersona[p]
                              \/ \E t \in Arcos(ii) : a = DelArco[t]
                              \/ \E v \in Visitas(ii) : a = DelaVisita[v]
  <2> TAKE a \in DOMAIN graph
  <2>1. graph[a] \in Todos(ii)
    BY <1>1 DEF Puesto
  <2>2. \/ \E p \in Personas(ii) : graph[a] = DePersona(ii, p)
        \/ \E t \in Arcos(ii) : graph[a] = DePar(ii, t)
        \/ \E v \in Visitas(ii) : graph[a] = DeVisita(ii, v)
    BY <2>1 DEF Todos, Puestos
  <2> QED BY <1>1, <1>3, <1>4, <1>5, <2>2
<1> QED BY <1>3, <1>4, <1>5, <1>6

(* Where each arc leaves from and leads to *)
LEMMA Extremos ==
  ASSUME Resuelto
  PROVE  /\ \A p \in Personas(ii) : /\ graph[DelaPersona[p]].tail = 0
                                    /\ graph[DelaPersona[p]].head = NodoPersona(p)
                                    /\ graph[DelaPersona[p]].cap = ii.pers_maxvisitas[p]
                                    /\ NodoPersona(p) \in 1 .. ii.n
         /\ \A t \in Arcos(ii) : /\ graph[DelArco[t]].tail = NodoPersona(t.posPersona)
                                 /\ graph[DelArco[t]].head = NodoVisita(t.posVisita)
                                 /\ graph[DelArco[t]].cap = 1
                                 /\ t.posPersona \in Personas(ii) /\ t.posVisita \in Visitas(ii)
         /\ \A v \in Visitas(ii) : /\ graph[DelaVisita[v]].tail = NodoVisita(v)
                                   /\ graph[DelaVisita[v]].head = Sumidero
                                   /\ graph[DelaVisita[v]].cap = ii.visita_cant_personas[v]
                                   /\ NodoVisita(v) \in ii.n + 1 .. ii.n + ii.l
         /\ EsInstancia(ii) /\ ii.n \in Nat /\ ii.l \in Nat /\ Sumidero = 1 + ii.n + ii.l
         /\ \A p, q \in Personas(ii) : NodoPersona(p) = NodoPersona(q) => p = q
         /\ \A v, w \in Visitas(ii) : NodoVisita(v) = NodoVisita(w) => v = w
<1>1. EsInstancia(ii)
  BY DEF Resuelto, GInv, TypeOK
<1>2. /\ ii.n \in Nat /\ ii.l \in Nat /\ Sumidero = 1 + ii.n + ii.l
      /\ 0 \in Personas(ii) /\ 0 \in Visitas(ii)
  BY <1>1, Numeros
<1>3. /\ \A p \in Personas(ii) : NodoPersona(p) \in 1 .. ii.n
      /\ \A p, q \in Personas(ii) : NodoPersona(p) = NodoPersona(q) => p = q
      /\ \A v \in Visitas(ii) : NodoVisita(v) \in ii.n + 1 .. ii.n + ii.l
      /\ \A v, w \in Visitas(ii) : NodoVisita(v) = NodoVisita(w) => v = w
  <2>1. ASSUME NEW p \in Personas(ii)
        PROVE  /\ NodoPersona(p) \in 1 .. ii.n
               /\ \A q \in Personas(ii) : NodoPersona(p) = NodoPersona(q) => p = q
    BY <1>1, <1>2, NodosDelPar
  <2>2. ASSUME NEW v \in Visitas(ii)
        PROVE  /\ NodoVisita(v) \in ii.n + 1 .. ii.n + ii.l
               /\ \A w \in Visitas(ii) : NodoVisita(v) = NodoVisita(w) => v = w
    BY <1>1, <1>2, NodosDelPar
  <2> QED BY <2>1, <2>2
<1>4. \A p \in Personas(ii) : /\ graph[DelaPersona[p]].tail = 0
                              /\ graph[DelaPersona[p]].head = NodoPersona(p)
                              /\ graph[DelaPersona[p]].cap = ii.pers_maxvisitas[p]
  <2>1. \A p \in Personas(ii) : graph[DelaPersona[p]] = DePersona(ii, p)
    BY UnArcoDeCada
  <2>2. \A p : /\ DePersona(ii, p).tail = 0 /\ DePersona(ii, p).head = NodoPersona(p)
               /\ DePersona(ii, p).cap = ii.pers_maxvisitas[p]
    BY DEF DePersona, NodoPersona
  <2> QED BY <2>1, <2>2
<1>5. \A t \in Arcos(ii) : /\ graph[DelArco[t]].tail = NodoPersona(t.posPersona)
                           /\ graph[DelArco[t]].head = NodoVisita(t.posVisita)
                           /\ graph[DelArco[t]].cap = 1
  <2>1. \A t \in Arcos(ii) : graph[DelArco[t]] = DePar(ii, t)
    BY UnArcoDeCada
  <2>2. \A t : /\ DePar(ii, t).tail = NodoPersona(t.posPersona)
               /\ DePar(ii, t).head = NodoVisita(t.posVisita) /\ DePar(ii, t).cap = 1
    BY DEF DePar, NodoPersona, NodoVisita
  <2> QED BY <2>1, <2>2
<1>6. \A v \in Visitas(ii) : /\ graph[DelaVisita[v]].tail = NodoVisita(v)
                             /\ graph[DelaVisita[v]].head = Sumidero
                             /\ graph[DelaVisita[v]].cap = ii.visita_cant_personas[v]
  <2>1. \A v \in Visitas(ii) : graph[DelaVisita[v]] = DeVisita(ii, v)
    BY UnArcoDeCada
  <2>2. \A v : /\ DeVisita(ii, v).tail = NodoVisita(v) /\ DeVisita(ii, v).head = Sumidero
               /\ DeVisita(ii, v).cap = ii.visita_cant_personas[v]
    BY DEF DeVisita, NodoVisita, Sumidero
  <2> QED BY <2>1, <2>2
<1>7. \A t \in Arcos(ii) : t.posPersona \in Personas(ii) /\ t.posVisita \in Visitas(ii)
  BY <1>1, CamposTripleta DEF Arcos
<1> QED BY <1>1, <1>2, <1>3, <1>4, <1>5, <1>6, <1>7

(* The arcs that leave and enter each node *)
LEMMA ArcosDeCadaNodo ==
  ASSUME Resuelto
  PROVE  /\ {a \in DOMAIN graph : graph[a].tail = 0} = {DelaPersona[p] : p \in Personas(ii)}
         /\ {a \in DOMAIN graph : graph[a].head = 0} = {}
         /\ {a \in DOMAIN graph : graph[a].tail = Sumidero} = {}
         /\ {a \in DOMAIN graph : graph[a].head = Sumidero} = {DelaVisita[v] : v \in Visitas(ii)}
         /\ \A p \in Personas(ii) :
              /\ {a \in DOMAIN graph : graph[a].tail = NodoPersona(p)}
                   = {DelArco[t] : t \in ConPersona(p)}
              /\ {a \in DOMAIN graph : graph[a].head = NodoPersona(p)} = {DelaPersona[p]}
         /\ \A v \in Visitas(ii) :
              /\ {a \in DOMAIN graph : graph[a].tail = NodoVisita(v)} = {DelaVisita[v]}
              /\ {a \in DOMAIN graph : graph[a].head = NodoVisita(v)}
                   = {DelArco[t] : t \in ConVisita(v)}
<1> DEFINE D == DOMAIN graph
           P == Personas(ii)
           V == Visitas(ii)
           A == Arcos(ii)
<1>1. /\ \A p \in P : DelaPersona[p] \in D
      /\ \A t \in A : DelArco[t] \in D
      /\ \A v \in V : DelaVisita[v] \in D
      /\ \A a \in D : \/ \E p \in P : a = DelaPersona[p]
                      \/ \E t \in A : a = DelArco[t]
                      \/ \E v \in V : a = DelaVisita[v]
  BY UnArcoDeCada
<1>2. /\ \A p \in P : /\ graph[DelaPersona[p]].tail = 0
                      /\ graph[DelaPersona[p]].head = NodoPersona(p)
                      /\ NodoPersona(p) \in 1 .. ii.n
      /\ \A t \in A : /\ graph[DelArco[t]].tail = NodoPersona(t.posPersona)
                      /\ graph[DelArco[t]].head = NodoVisita(t.posVisita)
                      /\ t.posPersona \in P /\ t.posVisita \in V
      /\ \A v \in V : /\ graph[DelaVisita[v]].tail = NodoVisita(v)
                      /\ graph[DelaVisita[v]].head = Sumidero
                      /\ NodoVisita(v) \in ii.n + 1 .. ii.n + ii.l
      /\ ii.n \in Nat /\ ii.l \in Nat /\ Sumidero = 1 + ii.n + ii.l
      /\ \A p, q \in P : NodoPersona(p) = NodoPersona(q) => p = q
      /\ \A v, w \in V : NodoVisita(v) = NodoVisita(w) => v = w
  BY Extremos
<1>3. /\ \A p \in P : NodoPersona(p) # 0 /\ NodoPersona(p) # Sumidero
      /\ \A v \in V : NodoVisita(v) # 0 /\ NodoVisita(v) # Sumidero
      /\ \A p \in P : \A v \in V : NodoPersona(p) # NodoVisita(v)
      /\ Sumidero # 0
  <2>1. \A n, l \in Nat : \A x \in 1 .. n : \A y \in n + 1 .. n + l :
          /\ x # 0 /\ x # 1 + n + l /\ y # 0 /\ y # 1 + n + l /\ x # y /\ 1 + n + l # 0
    OBVIOUS
  <2>2. \A n, l \in Nat : 1 + n + l # 0
    OBVIOUS
  <2>3. \A n, l \in Nat : \A x \in 1 .. n : x # 0 /\ x # 1 + n + l
    OBVIOUS
  <2>4. \A n, l \in Nat : \A y \in n + 1 .. n + l : y # 0 /\ y # 1 + n + l
    OBVIOUS
  <2> HIDE DEF P, V
  <2>5. \A p \in P : NodoPersona(p) # 0 /\ NodoPersona(p) # Sumidero
    BY <1>2, <2>3
  <2>6. \A v \in V : NodoVisita(v) # 0 /\ NodoVisita(v) # Sumidero
    BY <1>2, <2>4
  <2>7. \A p \in P : \A v \in V : NodoPersona(p) # NodoVisita(v)
    BY <1>2, <2>1
  <2>8. Sumidero # 0
    BY <1>2, <2>2
  <2> QED BY <2>5, <2>6, <2>7, <2>8
<1> HIDE DEF D, P, V, A
<1>4. /\ {a \in D : graph[a].tail = 0} = {DelaPersona[p] : p \in P}
      /\ {a \in D : graph[a].head = 0} = {}
  BY <1>1, <1>2, <1>3
<1>5. /\ {a \in D : graph[a].tail = Sumidero} = {}
      /\ {a \in D : graph[a].head = Sumidero} = {DelaVisita[v] : v \in V}
  BY <1>1, <1>2, <1>3
<1>6. ASSUME NEW p \in P
      PROVE  /\ {a \in D : graph[a].tail = NodoPersona(p)} = {DelArco[t] : t \in ConPersona(p)}
             /\ {a \in D : graph[a].head = NodoPersona(p)} = {DelaPersona[p]}
  <2>1. ConPersona(p) = {t \in A : t.posPersona = p}
    BY DEF ConPersona, A
  <2>2. {a \in D : graph[a].tail = NodoPersona(p)} = {DelArco[t] : t \in ConPersona(p)}
    BY <1>1, <1>2, <1>3, <2>1
  <2>3. {a \in D : graph[a].head = NodoPersona(p)} = {DelaPersona[p]}
    BY <1>1, <1>2, <1>3
  <2> QED BY <2>2, <2>3
<1>7. ASSUME NEW v \in V
      PROVE  /\ {a \in D : graph[a].tail = NodoVisita(v)} = {DelaVisita[v]}
             /\ {a \in D : graph[a].head = NodoVisita(v)} = {DelArco[t] : t \in ConVisita(v)}
  <2>1. ConVisita(v) = {t \in A : t.posVisita = v}
    BY DEF ConVisita, A
  <2>2. {a \in D : graph[a].head = NodoVisita(v)} = {DelArco[t] : t \in ConVisita(v)}
    BY <1>1, <1>2, <1>3, <2>1
  <2>3. {a \in D : graph[a].tail = NodoVisita(v)} = {DelaVisita[v]}
    BY <1>1, <1>2, <1>3
  <2> QED BY <2>2, <2>3
<1> QED BY <1>4, <1>5, <1>6, <1>7 DEF D, P, V

LEMMA NodosTodos ==
  ASSUME Resuelto
  PROVE  /\ 0 \in Nodos /\ Sumidero \in Nodos /\ Sumidero # 0
         /\ \A p \in Personas(ii) : /\ NodoPersona(p) \in Nodos /\ NodoPersona(p) # 0
                                    /\ NodoPersona(p) # Sumidero
         /\ \A v \in Visitas(ii) : /\ NodoVisita(v) \in Nodos /\ NodoVisita(v) # 0
                                   /\ NodoVisita(v) # Sumidero
         /\ \A x \in Nodos : \/ x = 0 \/ x = Sumidero
                             \/ \E p \in Personas(ii) : x = NodoPersona(p)
                             \/ \E v \in Visitas(ii) : x = NodoVisita(v)
<1>1. EsInstancia(ii)
  BY DEF Resuelto, GInv, TypeOK
<1>2. /\ ii.n \in Nat /\ ii.l \in Nat /\ Sumidero = 1 + ii.n + ii.l
      /\ Nodos = 0 .. ii.n + ii.l + 1
      /\ Personas(ii) = 0 .. ii.n - 1 /\ Visitas(ii) = 0 .. ii.l - 1
  BY <1>1, Numeros
<1>3. /\ \A p : NodoPersona(p) = p + 1
      /\ \A v : NodoVisita(v) = ii.n + 1 + v
  BY DEF NodoPersona, NodoVisita
<1>4. /\ 0 \in Nodos /\ Sumidero \in Nodos /\ Sumidero # 0
  BY <1>2
<1>5. \A p \in Personas(ii) : /\ NodoPersona(p) \in Nodos /\ NodoPersona(p) # 0
                              /\ NodoPersona(p) # Sumidero
  BY <1>2, <1>3
<1>6. \A v \in Visitas(ii) : /\ NodoVisita(v) \in Nodos /\ NodoVisita(v) # 0
                             /\ NodoVisita(v) # Sumidero
  BY <1>2, <1>3
<1>7. ASSUME NEW x \in Nodos
      PROVE  \/ x = 0 \/ x = Sumidero
             \/ \E p \in Personas(ii) : x = NodoPersona(p)
             \/ \E v \in Visitas(ii) : x = NodoVisita(v)
  <2>1. CASE 1 <= x /\ x <= ii.n
    <3>1. x - 1 \in Personas(ii) /\ x = NodoPersona(x - 1)
      BY <1>2, <1>3, <2>1
    <3> QED BY <3>1
  <2>2. CASE ii.n + 1 <= x /\ x <= ii.n + ii.l
    <3>1. x - (ii.n + 1) \in Visitas(ii) /\ x = NodoVisita(x - (ii.n + 1))
      BY <1>2, <1>3, <2>2
    <3> QED BY <3>1
  <2> QED BY <1>2, <2>1, <2>2
<1> QED BY <1>4, <1>5, <1>6, <1>7

(* A flow read by people, pairs and visits *)
PorPersona(f) == [p \in Personas(ii) |-> f[DelaPersona[p]]]
PorPar(f)     == [t \in Arcos(ii)    |-> f[DelArco[t]]]
PorVisita(f)  == [v \in Visitas(ii)  |-> f[DelaVisita[v]]]

(* What each node keeps of a flow *)
LEMMA Saldos ==
  ASSUME Resuelto, NEW f, DOMAIN f = DOMAIN graph, \A a \in DOMAIN graph : f[a] \in Int
  PROVE  /\ Saldo(f, 0) = Suma(PorPersona(f), Personas(ii))
         /\ \A p \in Personas(ii) :
              Saldo(f, NodoPersona(p)) = Suma(PorPar(f), ConPersona(p)) - f[DelaPersona[p]]
         /\ \A v \in Visitas(ii) :
              Saldo(f, NodoVisita(v)) = f[DelaVisita[v]] - Suma(PorPar(f), ConVisita(v))
         /\ Saldo(f, Sumidero) = 0 - Suma(PorVisita(f), Visitas(ii))
<1> DEFINE Salen(x) == {a \in DOMAIN graph : graph[a].tail = x}
           Entran(x) == {a \in DOMAIN graph : graph[a].head = x}
<1>1. \A x : Saldo(f, x) = Suma(f, Salen(x)) - Suma(f, Entran(x))
  BY DEF Saldo
<1>2. /\ Salen(0) = {DelaPersona[p] : p \in Personas(ii)} /\ Entran(0) = {}
      /\ Salen(Sumidero) = {} /\ Entran(Sumidero) = {DelaVisita[v] : v \in Visitas(ii)}
  BY ArcosDeCadaNodo
<1>3. \A p \in Personas(ii) : /\ Salen(NodoPersona(p)) = {DelArco[t] : t \in ConPersona(p)}
                              /\ Entran(NodoPersona(p)) = {DelaPersona[p]}
  BY ArcosDeCadaNodo
<1>4. \A v \in Visitas(ii) : /\ Salen(NodoVisita(v)) = {DelaVisita[v]}
                             /\ Entran(NodoVisita(v)) = {DelArco[t] : t \in ConVisita(v)}
  BY ArcosDeCadaNodo
<1> HIDE DEF Salen, Entran
<1>5. /\ \A p \in Personas(ii) : f[DelaPersona[p]] \in Int
      /\ \A t \in Arcos(ii) : f[DelArco[t]] \in Int
      /\ \A v \in Visitas(ii) : f[DelaVisita[v]] \in Int
  BY UnArcoDeCada
<1>6. EsInstancia(ii)
  BY DEF Resuelto, GInv, TypeOK
<1>7. /\ IsFiniteSet(Personas(ii)) /\ IsFiniteSet(Visitas(ii)) /\ IsFiniteSet(Arcos(ii))
      /\ Arcos(ii) \in SUBSET Tripletas(ii)
  BY <1>6, ConjuntosFinitos
<1>8. /\ \A p, q \in Personas(ii) : DelaPersona[p] = DelaPersona[q] => p = q
      /\ \A t, u \in Arcos(ii) : DelArco[t] = DelArco[u] => t = u
      /\ \A v, w \in Visitas(ii) : DelaVisita[v] = DelaVisita[w] => v = w
  <2>1. \A p, q \in Personas(ii) : DelaPersona[p] = DelaPersona[q] => p = q
    BY <1>6, ArcosDistintos, UnArcoDeCada
  <2>2. \A t, u \in Arcos(ii) : DelArco[t] = DelArco[u] => t = u
    BY <1>6, <1>7, ArcosDistintos, UnArcoDeCada
  <2>3. \A v, w \in Visitas(ii) : DelaVisita[v] = DelaVisita[w] => v = w
    BY <1>6, ArcosDistintos, UnArcoDeCada
  <2> QED BY <2>1, <2>2, <2>3
<1>9. ASSUME NEW S \in SUBSET Arcos(ii)
      PROVE  /\ Suma(f, {DelArco[t] : t \in S}) = Suma(PorPar(f), S)
             /\ Suma(PorPar(f), S) \in Int
  <2>1. IsFiniteSet(S)
    BY <1>7, FS_Subset
  <2>2. /\ \A t, u \in S : DelArco[t] = DelArco[u] => t = u
        /\ \A t \in S : f[DelArco[t]] \in Int /\ PorPar(f)[t] = f[DelArco[t]]
    BY <1>5, <1>8 DEF PorPar
  <2>3. Suma(f, {DelArco[t] : t \in S}) = Suma(PorPar(f), S)
    BY <2>1, <2>2, SumaImagen
  <2>4. \A t \in S : PorPar(f)[t] \in Int
    BY <2>2
  <2>5. Suma(PorPar(f), S) \in Int
    BY <2>1, <2>4, SumaTipo
  <2> QED BY <2>3, <2>5
<1>10. Saldo(f, 0) = Suma(PorPersona(f), Personas(ii))
  <2>1. \A p \in Personas(ii) : /\ f[DelaPersona[p]] \in Int
                                /\ PorPersona(f)[p] = f[DelaPersona[p]]
    BY <1>5 DEF PorPersona
  <2>2. Suma(f, Salen(0)) = Suma(PorPersona(f), Personas(ii))
    <3>1. Suma(f, {DelaPersona[p] : p \in Personas(ii)}) = Suma(PorPersona(f), Personas(ii))
      BY <1>7, <1>8, <2>1, SumaImagen
    <3> QED BY <1>2, <3>1
  <2>3. Suma(PorPersona(f), Personas(ii)) \in Int
    BY <1>7, <2>1, SumaTipo
  <2>4. Suma(f, Entran(0)) = 0
    BY <1>2, SumaVacia
  <2> QED BY <1>1, <2>2, <2>3, <2>4
<1>11. Saldo(f, Sumidero) = 0 - Suma(PorVisita(f), Visitas(ii))
  <2>1. \A v \in Visitas(ii) : f[DelaVisita[v]] \in Int /\ PorVisita(f)[v] = f[DelaVisita[v]]
    BY <1>5 DEF PorVisita
  <2>2. Suma(f, Entran(Sumidero)) = Suma(PorVisita(f), Visitas(ii))
    <3>1. Suma(f, {DelaVisita[v] : v \in Visitas(ii)}) = Suma(PorVisita(f), Visitas(ii))
      BY <1>7, <1>8, <2>1, SumaImagen
    <3> QED BY <1>2, <3>1
  <2>3. Suma(f, Salen(Sumidero)) = 0
    BY <1>2, SumaVacia
  <2> QED BY <1>1, <2>2, <2>3
<1>12. ASSUME NEW p \in Personas(ii)
       PROVE  Saldo(f, NodoPersona(p)) = Suma(PorPar(f), ConPersona(p)) - f[DelaPersona[p]]
  <2>1. ConPersona(p) \in SUBSET Arcos(ii)
    BY DEF ConPersona
  <2>2. Suma(f, Salen(NodoPersona(p))) = Suma(PorPar(f), ConPersona(p))
    <3>1. Suma(f, {DelArco[t] : t \in ConPersona(p)}) = Suma(PorPar(f), ConPersona(p))
      BY <1>9, <2>1
    <3> QED BY <1>3, <3>1
  <2>3. Suma(f, Entran(NodoPersona(p))) = f[DelaPersona[p]]
    <3>1. Suma(f, {DelaPersona[p]}) = f[DelaPersona[p]]
      BY <1>5, SumaDeUno
    <3> QED BY <1>3, <3>1
  <2> QED BY <1>1, <2>2, <2>3
<1>13. ASSUME NEW v \in Visitas(ii)
       PROVE  Saldo(f, NodoVisita(v)) = f[DelaVisita[v]] - Suma(PorPar(f), ConVisita(v))
  <2>1. ConVisita(v) \in SUBSET Arcos(ii)
    BY DEF ConVisita
  <2>2. Suma(f, Entran(NodoVisita(v))) = Suma(PorPar(f), ConVisita(v))
    <3>1. Suma(f, {DelArco[t] : t \in ConVisita(v)}) = Suma(PorPar(f), ConVisita(v))
      BY <1>9, <2>1
    <3> QED BY <1>4, <3>1
  <2>3. Suma(f, Salen(NodoVisita(v))) = f[DelaVisita[v]]
    <3>1. Suma(f, {DelaVisita[v]}) = f[DelaVisita[v]]
      BY <1>5, SumaDeUno
    <3> QED BY <1>4, <3>1
  <2> QED BY <1>1, <2>2, <2>3
<1> QED BY <1>10, <1>11, <1>12, <1>13

(* The pairs that carry flow *)
ConFlujo(f) == {t \in Arcos(ii) : f[DelArco[t]] > 0}

(* Any flow the solver may answer is an assignment: the sink asks for what *)
(* every visit may send at most, so that each of them sends it all.        *)
LEMMA ElFlujoAsigna ==
  ASSUME Resuelto, NEW f \in Factibles
  PROVE  ConFlujo(f) \in Flujos(ii)
<1>1. /\ EsInstancia(ii) /\ Max(Capacidades) \in Nat
  BY Completo DEF Resuelto
<1>2. /\ DOMAIN f = DOMAIN graph
      /\ \A a \in DOMAIN graph : f[a] \in Nat /\ f[a] <= graph[a].cap
      /\ \A x \in Nodos : Saldo(f, x) = suministro[x]
  <2>1. f \in [DOMAIN graph -> 0 .. Max(Capacidades)]
    BY DEF Factibles
  <2>2. /\ \A a \in DOMAIN graph : f[a] <= graph[a].cap
        /\ \A x \in Nodos : Saldo(f, x) = suministro[x]
    BY DEF Factibles
  <2>3. \A a \in DOMAIN graph : f[a] \in Nat
    BY <1>1, <2>1
  <2> QED BY <2>1, <2>2, <2>3
<1>3. /\ supply = Suma(ii.visita_cant_personas, Visitas(ii))
      /\ suministro = [x \in Nodos |-> IF x = 0 THEN supply
                                       ELSE IF x = Sumidero THEN -supply ELSE 0]
  BY DEF Resuelto, GInv, Ofrecido, Suministrado, Cerradas
<1>4. /\ \A p \in Personas(ii) :
           Saldo(f, NodoPersona(p)) = Suma(PorPar(f), ConPersona(p)) - f[DelaPersona[p]]
      /\ \A v \in Visitas(ii) :
           Saldo(f, NodoVisita(v)) = f[DelaVisita[v]] - Suma(PorPar(f), ConVisita(v))
      /\ Saldo(f, Sumidero) = 0 - Suma(PorVisita(f), Visitas(ii))
  <2>1. \A a \in DOMAIN graph : f[a] \in Int
    BY <1>2
  <2> QED BY <1>2, <2>1, Saldos
<1>5. /\ Sumidero \in Nodos /\ Sumidero # 0
      /\ \A p \in Personas(ii) : /\ NodoPersona(p) \in Nodos /\ NodoPersona(p) # 0
                                 /\ NodoPersona(p) # Sumidero
      /\ \A v \in Visitas(ii) : /\ NodoVisita(v) \in Nodos /\ NodoVisita(v) # 0
                                /\ NodoVisita(v) # Sumidero
  BY NodosTodos
<1>6. /\ \A p \in Personas(ii) : suministro[NodoPersona(p)] = 0
      /\ \A v \in Visitas(ii) : suministro[NodoVisita(v)] = 0
      /\ suministro[Sumidero] = -supply
  BY <1>3, <1>5
<1>7. /\ IsFiniteSet(Personas(ii)) /\ IsFiniteSet(Visitas(ii)) /\ IsFiniteSet(Arcos(ii))
  BY <1>1, ConjuntosFinitos
<1>8. /\ \A p \in Personas(ii) : /\ f[DelaPersona[p]] \in Nat
                                 /\ f[DelaPersona[p]] <= ii.pers_maxvisitas[p]
      /\ \A t \in Arcos(ii) : f[DelArco[t]] \in Nat /\ f[DelArco[t]] <= 1
      /\ \A v \in Visitas(ii) : /\ f[DelaVisita[v]] \in Nat
                                /\ f[DelaVisita[v]] <= ii.visita_cant_personas[v]
  BY <1>2, UnArcoDeCada, Extremos
<1>9. \A v \in Visitas(ii) : f[DelaVisita[v]] = ii.visita_cant_personas[v]
  <2> DEFINE g == PorVisita(f)
  <2>1. \A v \in Visitas(ii) : /\ g[v] = f[DelaVisita[v]]
                               /\ g[v] \in Int /\ ii.visita_cant_personas[v] \in Int
                               /\ g[v] <= ii.visita_cant_personas[v]
    BY <1>1, <1>8 DEF PorVisita, EsInstancia
  <2> HIDE DEF g
  <2>2. Suma(g, Visitas(ii)) = Suma(ii.visita_cant_personas, Visitas(ii))
    <3>1. 0 - Suma(g, Visitas(ii)) = -Suma(ii.visita_cant_personas, Visitas(ii))
      BY <1>2, <1>3, <1>4, <1>5, <1>6 DEF g
    <3>2. /\ Suma(g, Visitas(ii)) \in Int
          /\ Suma(ii.visita_cant_personas, Visitas(ii)) \in Int
      BY <1>7, <2>1, SumaTipo
    <3> QED BY <3>1, <3>2
  <2>3. \A v \in Visitas(ii) : g[v] = ii.visita_cant_personas[v]
    BY <1>7, <2>1, <2>2, SumaSaturada
  <2> QED BY <2>1, <2>3
<1>10. ASSUME NEW S \in SUBSET Arcos(ii)
       PROVE  /\ Suma(PorPar(f), S) = Cardinality({t \in ConFlujo(f) : t \in S})
              /\ Suma(PorPar(f), S) \in Int
  <2>1. IsFiniteSet(S)
    BY <1>7, FS_Subset
  <2>2. \A t \in S : PorPar(f)[t] = f[DelArco[t]] /\ f[DelArco[t]] \in {0, 1}
    <3>1. \A k \in Nat : k <= 1 => k \in {0, 1}
      OBVIOUS
    <3> QED BY <1>8, <3>1 DEF PorPar
  <2>3. \A t \in S : PorPar(f)[t] \in {0, 1} /\ PorPar(f)[t] \in Int
    BY <2>2
  <2>4. Suma(PorPar(f), S) = Cardinality({t \in S : PorPar(f)[t] = 1})
    BY <2>1, <2>3, SumaDeUnos
  <2>5. {t \in S : PorPar(f)[t] = 1} = {t \in ConFlujo(f) : t \in S}
    BY <2>2 DEF ConFlujo
  <2>6. Suma(PorPar(f), S) \in Int
    BY <2>1, <2>3, SumaTipo
  <2> QED BY <2>4, <2>5, <2>6
<1>11. ASSUME NEW v \in Visitas(ii)
       PROVE  Cardinality({t \in ConFlujo(f) : t.posVisita = v}) = ii.visita_cant_personas[v]
  <2>1. ConVisita(v) \in SUBSET Arcos(ii)
    BY DEF ConVisita
  <2>2. {t \in ConFlujo(f) : t \in ConVisita(v)} = {t \in ConFlujo(f) : t.posVisita = v}
    BY DEF ConVisita, ConFlujo
  <2>3. f[DelaVisita[v]] - Suma(PorPar(f), ConVisita(v)) = 0
    BY <1>2, <1>4, <1>5, <1>6
  <2>4. /\ Suma(PorPar(f), ConVisita(v)) = Cardinality({t \in ConFlujo(f) : t \in ConVisita(v)})
        /\ Suma(PorPar(f), ConVisita(v)) \in Int
    BY <1>10, <2>1
  <2>5. f[DelaVisita[v]] = Suma(PorPar(f), ConVisita(v))
    BY <1>8, <2>3, <2>4
  <2> QED BY <1>9, <2>2, <2>4, <2>5
<1>12. ASSUME NEW p \in Personas(ii)
       PROVE  Cardinality({t \in ConFlujo(f) : t.posPersona = p}) <= ii.pers_maxvisitas[p]
  <2>1. ConPersona(p) \in SUBSET Arcos(ii)
    BY DEF ConPersona
  <2>2. {t \in ConFlujo(f) : t \in ConPersona(p)} = {t \in ConFlujo(f) : t.posPersona = p}
    BY DEF ConPersona, ConFlujo
  <2>3. Suma(PorPar(f), ConPersona(p)) - f[DelaPersona[p]] = 0
    BY <1>2, <1>4, <1>5, <1>6
  <2>4. /\ Suma(PorPar(f), ConPersona(p)) = Cardinality({t \in ConFlujo(f) : t \in ConPersona(p)})
        /\ Suma(PorPar(f), ConPersona(p)) \in Int
    BY <1>10, <2>1
  <2>5. f[DelaPersona[p]] = Suma(PorPar(f), ConPersona(p))
    BY <1>8, <2>3, <2>4
  <2>6. f[DelaPersona[p]] <= ii.pers_maxvisitas[p]
    BY <1>8
  <2> QED BY <2>2, <2>4, <2>5, <2>6
<1>13. ConFlujo(f) \in SUBSET Arcos(ii)
  BY DEF ConFlujo
<1> QED BY <1>11, <1>12, <1>13 DEF Flujos

(* How many pairs there are, by people and by visits *)
LEMMA CuentaDeAsignacion ==
  ASSUME EsInstancia(ii), NEW F \in Flujos(ii)
  PROVE  /\ F \in SUBSET Arcos(ii) /\ IsFiniteSet(F)
         /\ Suma([p \in Personas(ii) |-> Cardinality({t \in F : t.posPersona = p})], Personas(ii))
              = Suma(ii.visita_cant_personas, Visitas(ii))
<1> DEFINE P == Personas(ii)
           V == Visitas(ii)
           hp == [t \in F |-> t.posPersona]
           hv == [t \in F |-> t.posVisita]
           gp == [p \in P |-> Cardinality({t \in F : hp[t] = p})]
           gv == [v \in V |-> Cardinality({t \in F : hv[t] = v})]
           kp == [p \in P |-> Cardinality({t \in F : t.posPersona = p})]
<1>1. /\ F \in SUBSET Arcos(ii)
      /\ \A v \in V : Cardinality({t \in F : t.posVisita = v}) = ii.visita_cant_personas[v]
  BY DEF Flujos
<1>2. /\ IsFiniteSet(P) /\ IsFiniteSet(V) /\ IsFiniteSet(Arcos(ii))
      /\ Arcos(ii) \in SUBSET Tripletas(ii)
  BY ConjuntosFinitos
<1>3. IsFiniteSet(F)
  BY <1>1, <1>2, FS_Subset
<1>4. \A t \in F : hp[t] \in P /\ hv[t] \in V
  BY <1>1, <1>2, CamposTripleta
<1>5. \A p \in P : kp[p] = gp[p]
  <2> TAKE p \in P
  <2>1. {t \in F : t.posPersona = p} = {t \in F : hp[t] = p}
    OBVIOUS
  <2> QED BY <2>1
<1>6. \A v \in V : gv[v] = ii.visita_cant_personas[v]
  <2> TAKE v \in V
  <2>1. {t \in F : t.posVisita = v} = {t \in F : hv[t] = v}
    OBVIOUS
  <2> QED BY <1>1, <2>1
<1> HIDE DEF hp, hv, P, V
<1>7. Cardinality(F) = Suma(gp, P)
  BY <1>2, <1>3, <1>4, CuentaPorValor
<1>8. Cardinality(F) = Suma(gv, V)
  BY <1>2, <1>3, <1>4, CuentaPorValor
<1> HIDE DEF gp, gv, kp
<1>9. Suma(kp, P) = Suma(gp, P)
  BY <1>2, <1>5, SumaCongruente
<1>10. Suma(gv, V) = Suma(ii.visita_cant_personas, V)
  BY <1>2, <1>6, SumaCongruente
<1>11. Suma(kp, P) = Suma(ii.visita_cant_personas, V)
  BY <1>7, <1>8, <1>9, <1>10
<1> QED BY <1>1, <1>3, <1>11 DEF kp, P, V

(* An assignment is a flow the solver may answer. *)
LEMMA LaAsignacionFluye ==
  ASSUME Resuelto, NEW F \in Flujos(ii)
  PROVE  Factibles # {}
<1> DEFINE Suyas(p) == {t \in F : t.posPersona = p}
           De(a) == {t \in F : NodoPersona(t.posPersona) = graph[a].head}
           f == [a \in DOMAIN graph |->
                   IF graph[a].tail = 0 THEN Cardinality(De(a))
                   ELSE IF graph[a].head = Sumidero THEN graph[a].cap
                   ELSE IF \E t \in F : a = DelArco[t] THEN 1 ELSE 0]
<1>1. /\ EsInstancia(ii) /\ Max(Capacidades) \in Nat
      /\ \A a \in DOMAIN graph : graph[a].cap \in 0 .. Max(Capacidades)
  BY Completo DEF Resuelto
<1>2. /\ F \in SUBSET Arcos(ii) /\ IsFiniteSet(F)
      /\ \A v \in Visitas(ii) :
           Cardinality({t \in F : t.posVisita = v}) = ii.visita_cant_personas[v]
      /\ \A p \in Personas(ii) : Cardinality(Suyas(p)) <= ii.pers_maxvisitas[p]
      /\ \A p \in Personas(ii) : Cardinality(Suyas(p)) \in Nat
  <2>1. F \in SUBSET Arcos(ii) /\ IsFiniteSet(F)
    BY <1>1, CuentaDeAsignacion
  <2>2. \A p \in Personas(ii) : Cardinality(Suyas(p)) \in Nat
    <3> TAKE p \in Personas(ii)
    <3>1. Suyas(p) \in SUBSET F
      OBVIOUS
    <3> HIDE DEF Suyas
    <3>2. IsFiniteSet(Suyas(p))
      BY <2>1, <3>1, FS_Subset
    <3> QED BY <3>2, FS_CardinalityType
  <2> QED BY <2>1, <2>2 DEF Flujos
<1>3. /\ \A p \in Personas(ii) : /\ f[DelaPersona[p]] = Cardinality(Suyas(p))
                                 /\ DelaPersona[p] \in DOMAIN graph
      /\ \A t \in Arcos(ii) : /\ f[DelArco[t]] = IF t \in F THEN 1 ELSE 0
                              /\ DelArco[t] \in DOMAIN graph
      /\ \A v \in Visitas(ii) : /\ f[DelaVisita[v]] = ii.visita_cant_personas[v]
                                /\ DelaVisita[v] \in DOMAIN graph
  <2>1. ASSUME NEW p \in Personas(ii)
        PROVE  /\ f[DelaPersona[p]] = Cardinality(Suyas(p)) /\ DelaPersona[p] \in DOMAIN graph
    <3>1. /\ DelaPersona[p] \in DOMAIN graph /\ graph[DelaPersona[p]].tail = 0
          /\ graph[DelaPersona[p]].head = NodoPersona(p)
      BY UnArcoDeCada, Extremos
    <3>2. \A t \in F : NodoPersona(t.posPersona) = NodoPersona(p) <=> t.posPersona = p
      BY <1>2, Extremos
    <3>3. De(DelaPersona[p]) = Suyas(p)
      BY <3>1, <3>2
    <3>4. f[DelaPersona[p]] = Cardinality(De(DelaPersona[p]))
      BY <3>1
    <3> QED BY <3>1, <3>3, <3>4
  <2>2. ASSUME NEW t \in Arcos(ii)
        PROVE  /\ f[DelArco[t]] = IF t \in F THEN 1 ELSE 0
               /\ DelArco[t] \in DOMAIN graph
    <3>1. /\ DelArco[t] \in DOMAIN graph /\ graph[DelArco[t]].tail # 0
          /\ graph[DelArco[t]].head # Sumidero
      BY UnArcoDeCada, Extremos, NodosTodos
    <3>2. \A u \in F : DelArco[t] = DelArco[u] => t = u
      <4>1. Arcos(ii) \in SUBSET Tripletas(ii)
        BY DEF Arcos
      <4>2. \A u \in Arcos(ii) : graph[DelArco[u]] = DePar(ii, u)
        BY UnArcoDeCada
      <4> QED BY <1>1, <1>2, <4>1, <4>2, ArcosDistintos
    <3>3. f[DelArco[t]] = IF \E u \in F : DelArco[t] = DelArco[u] THEN 1 ELSE 0
      BY <3>1
    <3> QED BY <3>1, <3>2, <3>3
  <2>3. ASSUME NEW v \in Visitas(ii)
        PROVE  /\ f[DelaVisita[v]] = ii.visita_cant_personas[v]
               /\ DelaVisita[v] \in DOMAIN graph
    <3>1. /\ DelaVisita[v] \in DOMAIN graph /\ graph[DelaVisita[v]].tail # 0
          /\ graph[DelaVisita[v]].head = Sumidero
          /\ graph[DelaVisita[v]].cap = ii.visita_cant_personas[v]
      BY UnArcoDeCada, Extremos, NodosTodos
    <3> QED BY <3>1
  <2> QED BY <2>1, <2>2, <2>3
<1>4. DOMAIN f = DOMAIN graph
  OBVIOUS
<1> HIDE DEF f
<1>5. \A a \in DOMAIN graph : f[a] \in Nat /\ f[a] <= graph[a].cap
  <2>1. \A p \in Personas(ii) : /\ f[DelaPersona[p]] \in Nat
                                /\ f[DelaPersona[p]] <= graph[DelaPersona[p]].cap
    <3> HIDE DEF Suyas
    <3> TAKE p \in Personas(ii)
    <3>1. /\ Cardinality(Suyas(p)) <= ii.pers_maxvisitas[p] /\ Cardinality(Suyas(p)) \in Nat
          /\ f[DelaPersona[p]] = Cardinality(Suyas(p))
      BY <1>2, <1>3
    <3>2. graph[DelaPersona[p]].cap = ii.pers_maxvisitas[p]
      BY Extremos
    <3> QED BY <3>1, <3>2
  <2>2. \A t \in Arcos(ii) : f[DelArco[t]] \in Nat /\ f[DelArco[t]] <= graph[DelArco[t]].cap
    BY <1>3, Extremos
  <2>3. \A v \in Visitas(ii) : /\ f[DelaVisita[v]] \in Nat
                               /\ f[DelaVisita[v]] <= graph[DelaVisita[v]].cap
    <3>1. \A v \in Visitas(ii) : ii.visita_cant_personas[v] \in Nat
      BY <1>1 DEF EsInstancia
    <3> QED BY <1>3, <3>1, Extremos
  <2> QED BY <2>1, <2>2, <2>3, UnArcoDeCada
<1>6. f \in [DOMAIN graph -> 0 .. Max(Capacidades)]
  <2>1. \A a \in DOMAIN graph : f[a] \in 0 .. Max(Capacidades)
    <3> TAKE a \in DOMAIN graph
    <3>1. graph[a].cap \in 0 .. Max(Capacidades) /\ f[a] \in Nat /\ f[a] <= graph[a].cap
      BY <1>1, <1>5
    <3> QED BY <1>1, <3>1
  <2>2. f = [a \in DOMAIN graph |-> f[a]]
    BY DEF f
  <2> QED BY <2>1, <2>2
<1>7. ASSUME NEW S \in SUBSET Arcos(ii)
      PROVE  Suma(PorPar(f), S) = Cardinality({t \in F : t \in S})
  <2>1. IsFiniteSet(S)
    BY <1>1, ConjuntosFinitos, FS_Subset
  <2>2. \A t \in S : PorPar(f)[t] = IF t \in F THEN 1 ELSE 0
    BY <1>3 DEF PorPar
  <2>3. \A t \in S : PorPar(f)[t] \in {0, 1}
    BY <2>2
  <2>4. Suma(PorPar(f), S) = Cardinality({t \in S : PorPar(f)[t] = 1})
    BY <2>1, <2>3, SumaDeUnos
  <2>5. {t \in S : PorPar(f)[t] = 1} = {t \in F : t \in S}
    BY <2>2
  <2> QED BY <2>4, <2>5
<1>8. /\ Saldo(f, 0) = Suma(PorPersona(f), Personas(ii))
      /\ \A p \in Personas(ii) :
           Saldo(f, NodoPersona(p)) = Suma(PorPar(f), ConPersona(p)) - f[DelaPersona[p]]
      /\ \A v \in Visitas(ii) :
           Saldo(f, NodoVisita(v)) = f[DelaVisita[v]] - Suma(PorPar(f), ConVisita(v))
      /\ Saldo(f, Sumidero) = 0 - Suma(PorVisita(f), Visitas(ii))
  <2>1. \A a \in DOMAIN graph : f[a] \in Int
    BY <1>5
  <2> QED BY <1>4, <2>1, Saldos
<1>9. /\ supply = Suma(ii.visita_cant_personas, Visitas(ii))
      /\ suministro = [x \in Nodos |-> IF x = 0 THEN supply
                                       ELSE IF x = Sumidero THEN -supply ELSE 0]
      /\ supply \in Nat
  BY DEF Resuelto, GInv, TypeOK, Ofrecido, Suministrado, Cerradas
<1>10. /\ IsFiniteSet(Personas(ii)) /\ IsFiniteSet(Visitas(ii))
  BY <1>1, ConjuntosFinitos
<1>11. Saldo(f, 0) = suministro[0]
  <2> DEFINE k == [p \in Personas(ii) |-> Cardinality({t \in F : t.posPersona = p})]
  <2>1. Suma(k, Personas(ii)) = supply
    BY <1>1, <1>9, CuentaDeAsignacion
  <2>2. \A p \in Personas(ii) : PorPersona(f)[p] = k[p]
    BY <1>3 DEF PorPersona
  <2> HIDE DEF k
  <2>3. Suma(PorPersona(f), Personas(ii)) = Suma(k, Personas(ii))
    BY <1>10, <2>2, SumaCongruente
  <2>4. suministro[0] = supply
    BY <1>9, NodosTodos
  <2> QED BY <1>8, <2>1, <2>3, <2>4
<1>12. Saldo(f, Sumidero) = suministro[Sumidero]
  <2>1. \A v \in Visitas(ii) : PorVisita(f)[v] = ii.visita_cant_personas[v]
    BY <1>3 DEF PorVisita
  <2>2. Suma(PorVisita(f), Visitas(ii)) = supply
    BY <1>9, <1>10, <2>1, SumaCongruente
  <2>3. suministro[Sumidero] = -supply
    BY <1>9, NodosTodos
  <2> QED BY <1>8, <1>9, <2>2, <2>3
<1>13. ASSUME NEW p \in Personas(ii)
       PROVE  Saldo(f, NodoPersona(p)) = suministro[NodoPersona(p)]
  <2>1. ConPersona(p) \in SUBSET Arcos(ii)
    BY DEF ConPersona
  <2>2. {t \in F : t \in ConPersona(p)} = Suyas(p)
    BY <1>2 DEF ConPersona
  <2> HIDE DEF Suyas
  <2>3. Suma(PorPar(f), ConPersona(p)) = Cardinality(Suyas(p))
    BY <1>7, <2>1, <2>2
  <2>4. suministro[NodoPersona(p)] = 0
    BY <1>9, NodosTodos
  <2>5. \A k \in Nat : k - k = 0
    OBVIOUS
  <2> QED BY <1>2, <1>3, <1>8, <2>3, <2>4, <2>5
<1>14. ASSUME NEW v \in Visitas(ii)
       PROVE  Saldo(f, NodoVisita(v)) = suministro[NodoVisita(v)]
  <2>1. ConVisita(v) \in SUBSET Arcos(ii)
    BY DEF ConVisita
  <2>2. {t \in F : t \in ConVisita(v)} = {t \in F : t.posVisita = v}
    BY <1>2 DEF ConVisita
  <2>3. Suma(PorPar(f), ConVisita(v)) = ii.visita_cant_personas[v]
    BY <1>2, <1>7, <2>1, <2>2
  <2>4. suministro[NodoVisita(v)] = 0
    BY <1>9, NodosTodos
  <2>5. ii.visita_cant_personas[v] \in Nat
    BY <1>1 DEF EsInstancia
  <2>6. \A k \in Nat : k - k = 0
    OBVIOUS
  <2> QED BY <1>3, <1>8, <2>3, <2>4, <2>5, <2>6
<1>15. \A x \in Nodos : Saldo(f, x) = suministro[x]
  BY <1>11, <1>12, <1>13, <1>14, NodosTodos
<1>16. f \in Factibles
  BY <1>5, <1>6, <1>15 DEF Factibles
<1> QED BY <1>16

-----------------------------------------------------------------------------
(* The graph implements the assignment.                                    *)

(* The assignment counts and reads the instance as the graph does. *)
LEMMA MismaCuenta == ASSUME NEW S PROVE Pedido!Cardinality(S) = Cardinality(S)
BY Zenon DEF Pedido!Cardinality, Cardinality

LEMMA MismosFlujos == ASSUME NEW x PROVE Pedido!Flujos(x) = Flujos(x)
<1>1. Pedido!Personas(x) = Personas(x) /\ Pedido!Visitas(x) = Visitas(x)
  BY DEF Pedido!Personas, Personas, Pedido!Visitas, Visitas
<1>2. \A p, v : Pedido!personaPuedeVisitar(x, p, v) = personaPuedeVisitar(x, p, v)
  <2>1. \A S, a, b : Pedido!Cuenta(S, a, b) = Cuenta(S, a, b)
    BY MismaCuenta DEF Pedido!Cuenta, Cuenta
  <2> QED BY <2>1 DEF Pedido!personaPuedeVisitar, personaPuedeVisitar
<1>3. \A p, v : Pedido!Tripleta(x, p, v) = Tripleta(x, p, v)
  BY DEF Pedido!Tripleta, Tripleta, Pedido!getInicioVentanaVisita, getInicioVentanaVisita
<1>4. Pedido!Tripletas(x) = Tripletas(x)
  BY <1>1, <1>3 DEF Pedido!Tripletas, Tripletas
<1>5. Pedido!Arcos(x) = Arcos(x)
  BY <1>2, <1>4 DEF Pedido!Arcos, Arcos
<1> QED BY <1>1, <1>5, MismaCuenta DEF Pedido!Flujos, Flujos

(* Once every arc has been read, what has been read is the assignment that *)
(* the flow carries.                                                       *)
LEMMA LoLeido ==
  ASSUME IInv, GInv, pc = "extrae", i > caristas
  PROVE  /\ ConFlujo(flujo) \in Flujos(ii)
         /\ relPV \in [1 .. Cardinality(ConFlujo(flujo)) -> ConFlujo(flujo)]
         /\ \A t \in ConFlujo(flujo) : \E k \in DOMAIN relPV : relPV[k] = t
<1> DEFINE F == ConFlujo(flujo)
<1>1. Resuelto /\ flujo \in Factibles
  BY DEF Resuelto, GInv
<1>2. F \in Flujos(ii)
  BY <1>1, ElFlujoAsigna
<1>3. /\ EsInstancia(ii) /\ i \in Nat /\ caristas \in Nat /\ relPV \in Seq(Tripletas(ii))
      /\ DOMAIN flujo = DOMAIN graph /\ DOMAIN graph = 1 .. Len(graph) /\ Len(graph) \in Nat
      /\ Len(graph) <= caristas
  <2>1. EsInstancia(ii) /\ i \in Nat /\ caristas \in Nat /\ relPV \in Seq(Tripletas(ii))
    BY DEF GInv, TypeOK
  <2>2. DOMAIN flujo = DOMAIN graph
    BY DEF IInv, DeDondeVienen
  <2>3. DOMAIN graph = 1 .. Len(graph) /\ Len(graph) \in Nat
    BY Completo
  <2>4. Len(graph) <= caristas
    BY CabenLosArcos DEF ArcosCaben
  <2> QED BY <2>1, <2>2, <2>3, <2>4
<1>4. /\ DOMAIN relPV = 1 .. Len(relPV) /\ Len(relPV) \in Nat
      /\ \A k \in DOMAIN relPV : relPV[k] \in Tripletas(ii)
  BY <1>3, LenProperties, ElementOfSeq
<1>5. ASSUME NEW t \in Tripletas(ii), NEW u \in Tripletas(ii),
             NodoPersona(t.posPersona) = NodoPersona(u.posPersona),
             NodoVisita(t.posVisita) = NodoVisita(u.posVisita)
      PROVE  t = u
  <2>1. /\ t.posPersona \in Personas(ii) /\ t.posVisita \in Visitas(ii)
        /\ u.posPersona \in Personas(ii) /\ u.posVisita \in Visitas(ii)
        /\ t = Tripleta(ii, t.posPersona, t.posVisita)
        /\ u = Tripleta(ii, u.posPersona, u.posVisita)
    BY <1>3, CamposTripleta
  <2>2. t.posPersona = u.posPersona /\ t.posVisita = u.posVisita
    BY <1>1, <1>5, <2>1, Extremos
  <2> QED BY <2>1, <2>2
<1>6. Arcos(ii) \in SUBSET Tripletas(ii)
  BY DEF Arcos
<1>7. \A k \in DOMAIN relPV : relPV[k] \in F
  <2> TAKE k \in DOMAIN relPV
  <2>1. PICK a \in DOMAIN graph :
          /\ flujo[a] > 0
          /\ DelPar(ii, graph[a], relPV[k].posPersona, relPV[k].posVisita)
    BY <1>3 DEF IInv, DeDondeVienen
  <2>2. /\ graph[a].tail = NodoPersona(relPV[k].posPersona)
        /\ graph[a].head = NodoVisita(relPV[k].posVisita)
    BY <2>1 DEF DelPar, NodoPersona, NodoVisita
  <2>3. relPV[k].posPersona \in Personas(ii) /\ relPV[k].posVisita \in Visitas(ii)
    BY <1>3, <1>4, CamposTripleta
  <2>4. graph[a].tail # 0 /\ graph[a].head # Sumidero
    BY <1>1, <2>2, <2>3, NodosTodos
  <2>5. PICK t \in Arcos(ii) : a = DelArco[t]
    BY <1>1, <2>4, UnArcoDeCada, Extremos
  <2>6. relPV[k] = t
    BY <1>1, <1>4, <1>5, <1>6, <2>2, <2>5, Extremos
  <2> QED BY <2>1, <2>5, <2>6 DEF ConFlujo
<1>8. \A t \in F : \E k \in DOMAIN relPV : relPV[k] = t
  <2> TAKE t \in F
  <2>1. t \in Arcos(ii) /\ flujo[DelArco[t]] > 0
    BY DEF ConFlujo
  <2>2. /\ DelArco[t] \in DOMAIN graph
        /\ graph[DelArco[t]].tail = NodoPersona(t.posPersona)
        /\ graph[DelArco[t]].head = NodoVisita(t.posVisita)
        /\ graph[DelArco[t]].tail # 0 /\ graph[DelArco[t]].head # Sumidero
    BY <1>1, <2>1, UnArcoDeCada, Extremos, NodosTodos
  <2>3. DelArco[t] \in 1 .. i - 1
    BY <1>3, <2>2
  <2>4. \E k \in DOMAIN relPV : /\ NodoPersona(relPV[k].posPersona) = graph[DelArco[t]].tail
                                /\ NodoVisita(relPV[k].posVisita) = graph[DelArco[t]].head
    BY <1>3, <2>1, <2>2, <2>3 DEF IInv, ParesRecuperados
  <2> QED BY <1>4, <1>5, <1>6, <2>1, <2>2, <2>4
<1>9. Cardinality(F) = Len(relPV)
  <2> DEFINE D == DOMAIN relPV
  <2>1. IsFiniteSet(D) /\ Cardinality(D) = Len(relPV)
    <3>1. \A k \in Nat : IsFiniteSet(1 .. k) /\ Cardinality(1 .. k) = k
      BY FS_Interval
    <3> QED BY <1>4, <3>1
  <2>2. \A k, m \in D : relPV[k] = relPV[m] => k = m
    BY DEF GInv, SinRepetir
  <2>3. {relPV[k] : k \in D} = F
    BY <1>7, <1>8
  <2> HIDE DEF D, F
  <2>4. Cardinality({relPV[k] : k \in D}) = Cardinality(D)
    BY <2>1, <2>2, CuentaImagen
  <2> QED BY <2>1, <2>3, <2>4
<1>10. relPV \in [1 .. Cardinality(F) -> F]
  <2>1. relPV \in [1 .. Len(relPV) -> Tripletas(ii)]
    BY <1>3, LenProperties
  <2> HIDE DEF F
  <2> QED BY <1>4, <1>7, <1>9, <2>1
<1> QED BY <1>2, <1>8, <1>10

LEMMA PedidoPaso ==
  ASSUME IInv, GInv, [Next]_vars
  PROVE  [Pedido!Responder \/ Pedido!Abortar]_(Pedido!varsAsignacion)
<1> USE DEF Pedido!varsAsignacion
<1>1. CASE UNCHANGED vars
  BY <1>1 DEF vars, Estado
<1>2. CASE FinExtraer
  <2> DEFINE F == ConFlujo(flujo)
  <2>1. pc = "extrae" /\ i > caristas /\ pc' = "fin" /\ ii' = ii /\ relPV' = relPV
    BY <1>2 DEF FinExtraer
  <2>2. Estado = "pide" /\ Estado' = "responde"
    BY <2>1 DEF Estado
  <2>3. F \in Pedido!Flujos(ii)
    BY <2>1, LoLeido, MismosFlujos
  <2>4. relPV \in {s \in [1 .. Cardinality(F) -> F] :
                     \A t \in F : \E k \in DOMAIN s : s[k] = t}
    BY <2>1, LoLeido
  <2>5. (IF pc = "fin" THEN relPV ELSE <<>>)' = relPV
    BY <2>1
  <2> HIDE DEF F
  <2>6. Pedido!Cardinality(F) = Cardinality(F)
    BY MismaCuenta
  <2> QED BY <2>1, <2>2, <2>3, <2>4, <2>5, <2>6 DEF Pedido!Responder
<1>3. CASE NoOptimo
  <2>1. /\ pc = "resuelve" /\ pc' = "abortado" /\ ii' = ii /\ Factibles = {}
    BY <1>3 DEF NoOptimo
  <2>2. Estado = "pide" /\ Estado' = "abortado"
    BY <2>1 DEF Estado
  <2>3. Flujos(ii) = {}
    BY <2>1, LaAsignacionFluye DEF Resuelto
  <2>4. Pedido!Flujos(ii) = {}
    BY <2>3, MismosFlujos
  <2> QED BY <2>1, <2>2, <2>4 DEF Pedido!Abortar
<1>4. CASE Next /\ ~ FinExtraer /\ ~ NoOptimo
  <2>1. /\ ii' = ii
        /\ pc \in {"cuenta", "personas", "visitas", "sumidero", "resuelve", "extrae"}
        /\ pc' \in {"cuenta", "personas", "visitas", "sumidero", "resuelve", "extrae"}
    BY <1>4 DEF Next, ContarAristas, ArcoPersona, FinPersonas, ArcoVisita, SiguienteVisita,
         FinVisitas, ArcoSumidero, SetNodeSupply, Solve, Extraer
  <2>2. Estado' = Estado
    BY <2>1 DEF Estado
  <2>3. (IF pc = "fin" THEN relPV ELSE <<>>)' = (IF pc = "fin" THEN relPV ELSE <<>>)
    BY <2>1
  <2> QED BY <2>1, <2>2, <2>3
<1> QED BY <1>1, <1>2, <1>3, <1>4

-----------------------------------------------------------------------------
(* Theorems                                                                *)

(* Everything known of the graph at every point of the function            *)
(* (SRPlanner.cpp:333-436).                                                *)
THEOREM GrafoInvariante == Spec => [](IInv /\ GInv)
<1>1. Init => IInv /\ GInv
  BY Inicio, GrafoInicial
<1>2. IInv /\ GInv /\ [Next]_vars => IInv' /\ GInv'
  BY Paso, GrafoPaso
<1> QED BY <1>1, <1>2, PTL DEF Spec

(* Every variable keeps its type: each arc joins two nodes of the graph,   *)
(* and what is read back is a person and a visit of the instance           *)
(* (SRPlanner.cpp:350-432).                                                *)
THEOREM GrafoBienTipado == Spec => []TypeOK
<1>1. IInv /\ GInv => TypeOK
  BY DEF GInv
<1> QED BY <1>1, GrafoInvariante, PTL

(* The arcs counted before the graph is built are enough for those that    *)
(* are added to it, by a different rule: none is dropped, and the complete *)
(* graph has exactly one for each person, each visit and each person able  *)
(* to go to a visit (SRPlanner.cpp:339-348,369).                           *)
THEOREM NingunArcoSePierde == Spec => []ArcosCaben
<1>1. IInv /\ GInv => ArcosCaben
  BY CabenLosArcos
<1> QED BY <1>1, GrafoInvariante, PTL

(* MinCostFlow keeps its promise: what it returns is an assignment with    *)
(* the people each visit asks for, none with more visits than she may do   *)
(* and each pair once, and it aborts only when there is none               *)
(* (SRPlanner.cpp:333-436).                                                *)
THEOREM ImplementaAsignacion == Spec => AsignacionSpec
<1>1. Init => Pedido!InitAsignacion
  BY DEF Init, Pedido!InitAsignacion, Estado
<1>2. IInv /\ GInv /\ [Next]_vars => [Pedido!Responder \/ Pedido!Abortar]_(Pedido!varsAsignacion)
  BY PedidoPaso
<1> QED BY <1>1, <1>2, GrafoInvariante, PTL DEF Spec, AsignacionSpec, Pedido!SpecAsignacion

-----------------------------------------------------------------------------
(* The loops advance                                                       *)

(* What is left to do, the most significant first: loops, turns of the one *)
(* that runs, people for the visit in turn                                 *)
Bucles ==
  [cuenta |-> 6, personas |-> 5, visitas |-> 4, sumidero |-> 3, resuelve |-> 2, extrae |-> 1,
   fin |-> 0, abortado |-> 0]

(* One past the last turn *)
Tope == IF pc = "personas" THEN ii.n ELSE IF pc = "extrae" THEN caristas + 1 ELSE ii.l

Vueltas == IF i < Tope THEN Tope - i ELSE 0

MedidaNatural == Bucles[pc] \in Nat /\ Vueltas \in Nat /\ ii.n - j \in Nat

Avanza ==
  \/ Bucles[pc'] < Bucles[pc]
  \/ Bucles[pc'] = Bucles[pc] /\ Vueltas' < Vueltas
  \/ Bucles[pc'] = Bucles[pc] /\ Vueltas' = Vueltas /\ ii'.n - j' < ii.n - j

LEMMA MedidaEsNatural ==
  ASSUME TypeOK PROVE MedidaNatural
<1>1. /\ ii.n \in Nat /\ ii.l \in Nat /\ caristas \in Nat /\ i \in Nat /\ j \in 0 .. ii.n
  BY DEF TypeOK, EsInstancia
<1>2. Bucles[pc] \in Nat
  <2>1. pc \in {"cuenta", "personas", "visitas", "sumidero", "resuelve", "extrae", "fin",
               "abortado"}
    BY DEF TypeOK
  <2> QED BY <2>1 DEF Bucles
<1>3. Tope \in Nat
  BY <1>1 DEF Tope
<1>4. Vueltas \in Nat
  BY <1>1, <1>3 DEF Vueltas
<1> QED BY <1>1, <1>2, <1>4 DEF MedidaNatural

LEMMA CadaPaso ==
  ASSUME TypeOK, Next PROVE Avanza
<1>1. ii.n \in Nat /\ ii.l \in Nat /\ caristas \in Nat /\ i \in Nat /\ j \in 0 .. ii.n
  BY DEF TypeOK, EsInstancia
<1>2. ASSUME pc' = pc, ii' = ii, caristas' = caristas, i' = i + 1, i < Tope
      PROVE  Avanza
  <2>1. Tope' = Tope /\ Tope \in Nat
    BY <1>1, <1>2 DEF Tope
  <2> HIDE DEF Tope
  <2>2. Vueltas' < Vueltas
    BY <1>1, <1>2, <2>1 DEF Vueltas
  <2> QED BY <1>2, <2>2 DEF Avanza
<1>3. CASE ContarAristas
  BY <1>3 DEF ContarAristas, Avanza, Bucles
<1>4. CASE ArcoPersona
  BY <1>2, <1>4 DEF ArcoPersona, Tope
<1>5. CASE FinPersonas
  BY <1>5 DEF FinPersonas, Avanza, Bucles
<1>6. CASE ArcoVisita
  <2>1. pc' = pc /\ ii' = ii /\ caristas' = caristas /\ i' = i /\ j' = j + 1
    BY <1>6 DEF ArcoVisita
  <2>2. Vueltas' = Vueltas
    BY <2>1 DEF Vueltas, Tope
  <2>3. ii'.n - j' < ii.n - j
    BY <1>1, <2>1
  <2> QED BY <2>1, <2>2, <2>3 DEF Avanza
<1>7. CASE SiguienteVisita
  BY <1>2, <1>7 DEF SiguienteVisita, Tope
<1>8. CASE FinVisitas
  BY <1>8 DEF FinVisitas, Avanza, Bucles
<1>9. CASE ArcoSumidero
  BY <1>2, <1>9 DEF ArcoSumidero, Tope
<1>10. CASE SetNodeSupply
  BY <1>10 DEF SetNodeSupply, Avanza, Bucles
<1>11. CASE Solve
  BY <1>11 DEF Solve, Avanza, Bucles
<1>12. CASE NoOptimo
  BY <1>12 DEF NoOptimo, Avanza, Bucles
<1>13. CASE Extraer
  BY <1>1, <1>2, <1>13 DEF Extraer, Tope
<1>14. CASE FinExtraer
  BY <1>14 DEF FinExtraer, Avanza, Bucles
<1> QED
  BY <1>3, <1>4, <1>5, <1>6, <1>7, <1>8, <1>9, <1>10, <1>11, <1>12, <1>13, <1>14 DEF Next

(* Building the graph and reading the flow back take finitely many steps:  *)
(* each lowers, in lexicographic order, the natural numbers above          *)
(* (SRPlanner.cpp:345-432).                                                *)
THEOREM SiempreAvanza == Spec => []MedidaNatural /\ [][Avanza]_vars
<1>1. TypeOK => MedidaNatural
  BY MedidaEsNatural
<1>2. TypeOK /\ [Next]_vars => [Avanza]_vars
  BY CadaPaso
<1> QED BY <1>1, <1>2, GrafoBienTipado, PTL DEF Spec

=============================================================================
