-------------------------- MODULE CicloDeVida_proof --------------------------
(***************************************************************************)
(* Proofs about the blocks each program owns, for every number of people,  *)
(* vehicles, blocks of time, visits, trips and neighbours.                 *)
(***************************************************************************)
EXTENDS CicloDeVida, TLAPS

LEMMA ObjetosDistintos == Nulo \notin Objetos /\ Residuos \subseteq Objetos \cup {Nulo}
  BY DEF Nulo, Objetos, Residuos

LEMMA CuentasTipo ==
  TypeOK => x.n \in Nat /\ x.m \in Nat /\ x.h \in Nat /\ x.l \in Nat /\ x.t \in Nat
  BY CuentasAssumption DEF TypeOK

LEMMA TypeOKInit == Init => TypeOK
<1> SUFFICES ASSUME Init PROVE TypeOK
  OBVIOUS
<1>1. x \in [n : Nat, m : Nat, h : Nat, l : Nat, t : Nat]
  BY CuentasAssumption DEF Init
<1>2. x.t \in Nat
  BY <1>1
<1>3. punteroII \in [{"sol", "vecino"} -> Residuos]
  BY DEF Init, Residuos
<1>4. tiene = [o \in Objetos |-> tiene[o]]
  BY DEF Init
<1>5. i \in Nat /\ i <= maxIteraciones /\ i <= x.t
  BY <1>2, IteracionesAssumption DEF Init
<1>6. /\ x \in Cuentas /\ programa \in {"solucionar", "verificar"} /\ pc = "inicio"
      /\ doble = FALSE /\ basura = FALSE
  BY DEF Init
<1> QED
  BY <1>3, <1>4, <1>5, <1>6 DEF TypeOK, Fases

LEMMA TypeOKPaso == TypeOK /\ [Next]_vars => TypeOK'
<1> SUFFICES ASSUME TypeOK, [Next]_vars PROVE TypeOK'
  OBVIOUS
<1> USE CuentasTipo, IteracionesAssumption DEF TypeOK, Fases
<1>1. CASE CargarInstancia
  BY <1>1 DEF CargarInstancia, Reservar
<1>2. CASE CrearSolucion
  BY <1>2 DEF CrearSolucion, Reservar, Residuos
<1>3. CASE CopiaSolucion
  <2>1. PICK p \in Residuos : punteroII' = [punteroII EXCEPT !["vecino"] = p]
    BY <1>3 DEF CopiaSolucion
  <2>2. punteroII' \in [{"sol", "vecino"} -> Residuos]
    BY <2>1
  <2>3. i' \in Nat /\ i' <= maxIteraciones
    BY <1>3 DEF CopiaSolucion
  <2> QED
    BY <1>3, <2>2, <2>3 DEF CopiaSolucion, Reservar
<1>4. CASE DescartaVecino
  BY <1>4 DEF DescartaVecino
<1>5. CASE EscribirSalida
  BY <1>5 DEF EscribirSalida
<1>6. CASE LeerViaje
  <2>1. i' \in Nat /\ i' <= x.t
    BY <1>6 DEF LeerViaje
  <2> QED
    BY <1>6, <2>1 DEF LeerViaje, Reservar
<1>7. CASE BorrarSalida
  BY <1>7 DEF BorrarSalida, Liberar
<1>8. CASE BorrarInstancia
  BY <1>8 DEF BorrarInstancia, Liberar
<1>9. CASE BorrarSolucion
  BY <1>9 DEF BorrarSolucion, Liberar
<1>10. CASE UNCHANGED vars
  BY <1>10 DEF vars
<1> QED
  BY <1>1, <1>2, <1>3, <1>4, <1>5, <1>6, <1>7, <1>8, <1>9, <1>10 DEF Next

(* Every state is well typed (SRPlanner.cpp:21-330). *)
THEOREM TiposDelCiclo == Spec => []TypeOK
<1>1. Init => TypeOK
  BY TypeOKInit
<1>2. TypeOK /\ [Next]_vars => TypeOK'
  BY TypeOKPaso
<1> QED
  BY <1>1, <1>2, PTL DEF Spec

-----------------------------------------------------------------------------
(* Who points to what                                                      *)

(* The blocks an object points to were reserved for it, and no block is in *)
(* use to which no object points, but for arrays of no positions.          *)
Duenos ==
  /\ \A o \in Objetos : \A d \in tiene[o] : d[1] = o
  /\ \A d \in mem : d[1] \in Objetos /\ d \in tiene[d[1]]
  /\ \A d \in arreglos : Capacidad(d) # 0 => d[1] \in Objetos /\ d \in tiene[d[1]]

(* The objects that do not exist yet, or no longer *)
Vacios ==
  [inicio   |-> Objetos,
   cargada  |-> IF programa = "solucionar" THEN Objetos \ {"ii"} ELSE {"copia", "sol", "vecino"},
   busqueda |-> {"vecino", "io"},
   vecino   |-> {"io"},
   escrita  |-> IF programa = "solucionar" THEN {"vecino", "io"} ELSE Objetos \ {"ii"},
   sin_ii   |-> {"ii", "vecino", "io"},
   fin      |-> Objetos]

Etapas ==
  /\ \A o \in Vacios[pc] : tiene[o] = {}
  /\ pc \in {"busqueda", "vecino", "sin_ii"} => punteroII["sol"] = "copia"
  /\ pc = "escrita" /\ programa = "solucionar" => punteroII["sol"] = "copia"

EnUso(d) == d \in mem /\ (EsBitmap(d) => d \in arreglos)

(* While there is no reason for it, nothing was freed twice *)
Sano ==
  Contado /\ ~basura =>
    ~doble /\ \A o \in Objetos : \A d \in tiene[o] : EnUso(d)

IInv == TypeOK /\ Duenos /\ Etapas /\ vecinos = {} /\ Sano

LEMMA IInvInit == Init => IInv
<1> SUFFICES ASSUME Init PROVE IInv
  OBVIOUS
<1>1. \A o \in Objetos : tiene[o] = {}
  BY DEF Init
<1>2. mem = {} /\ arreglos = {} /\ pc = "inicio" /\ vecinos = {} /\ ~doble
  BY DEF Init
<1>3. Vacios[pc] = Objetos
  BY <1>2 DEF Vacios
<1> QED
  BY <1>1, <1>2, <1>3, TypeOKInit DEF IInv, Duenos, Etapas, Sano

(* The names of the blocks each constructor reserves, and their capacity.  *)
LEMMA NombresDeBloques ==
  /\ \A o, v, w, z, d : d \in Posiciones(o, v, w) => d[1] = o
  /\ \A o : \A d \in Celda(o) : d[1] = o
  /\ \A o : \A d \in BitmapsDeEntrada(o) : d[1] = o
  /\ \A o : \A d \in BitmapsDeSolucion(o) : d[1] = o
  /\ \A d \in CopiaDeEntrada : d[1] = "copia"
<1>1. \A o, v, w, d : d \in Posiciones(o, v, w) => d[1] = o
  BY DEF Posiciones
<1>2. \A o : \A d \in Celda(o) : d[1] = o
  BY DEF Celda
<1>3. \A o : \A d \in BitmapsDeEntrada(o) : d[1] = o
  BY <1>1 DEF BitmapsDeEntrada
<1>4. \A o : \A d \in BitmapsDeSolucion(o) : d[1] = o
  BY <1>1 DEF BitmapsDeSolucion
<1>5. \A d \in CopiaDeEntrada : d[1] = "copia"
  BY <1>2, <1>3 DEF CopiaDeEntrada
<1> QED
  BY <1>1, <1>2, <1>3, <1>4, <1>5

LEMMA ConCapacidad ==
  ASSUME Contado, TypeOK, NEW dirs PROVE SinPosiciones(dirs) = {}
<1>1. \A d : Capacidad(d) > 0
  BY CuentasTipo DEF Contado, Capacidad
<1> QED
  BY <1>1 DEF SinPosiciones

(* A step that reserves blocks, each for the object that points to it *)
LEMMA Reserva ==
  ASSUME TypeOK, Duenos, Sano, UNCHANGED <<x, doble>>,
         NEW dirs, Reservar(dirs),
         \A d \in dirs : d[1] \in Objetos /\ d \in tiene'[d[1]],
         \A o \in Objetos :
           /\ tiene[o] \subseteq tiene'[o]
           /\ \A d \in tiene'[o] : d[1] = o /\ (d \in tiene[o] \/ d \in dirs)
  PROVE  Duenos' /\ Sano'
<1>1. PICK enSuLugar \in SUBSET SinPosiciones(dirs) :
        /\ mem' = mem \cup (dirs \ SinPosiciones(dirs)) \cup enSuLugar
        /\ arreglos' = arreglos \cup ({d \in dirs : EsBitmap(d)} \ enSuLugar)
        /\ basura' \in {basura, basura \/ SinPosiciones(dirs) # {}}
  BY DEF Reservar
<1>2. Duenos'
  <2>1. enSuLugar \subseteq dirs
    BY DEF SinPosiciones
  <2>2. mem' \subseteq mem \cup dirs /\ arreglos' \subseteq arreglos \cup dirs
    BY <1>1, <2>1
  <2>3. \A d : Capacidad(d)' = Capacidad(d)
    BY DEF Capacidad
  <2>4. \A d \in mem' : d[1] \in Objetos /\ d \in tiene'[d[1]]
    BY <2>2 DEF Duenos
  <2>5. \A d \in arreglos' :
          Capacidad(d)' # 0 => d[1] \in Objetos /\ d \in tiene'[d[1]]
    BY <2>2, <2>3 DEF Duenos
  <2> QED
    BY <2>4, <2>5 DEF Duenos
<1>3. Sano'
  <2>1. SUFFICES ASSUME Contado, ~basura'
                 PROVE  ~doble' /\ \A o \in Objetos : \A d \in tiene'[o] : EnUso(d)'
    BY DEF Sano, Contado
  <2>2. SinPosiciones(dirs) = {}
    BY <2>1, ConCapacidad
  <2>3. /\ mem' = mem \cup dirs
        /\ arreglos' = arreglos \cup {d \in dirs : EsBitmap(d)}
    BY <1>1, <2>2
  <2>4. ~basura
    BY <1>1, <2>1, <2>2
  <2> QED
    BY <2>1, <2>3, <2>4 DEF Sano, EnUso, EsBitmap
<1> QED
  BY <1>2, <1>3

(* A step that frees what the objects of a set point to, and perhaps more *)
LEMMA Libera ==
  ASSUME Duenos, UNCHANGED x, NEW borrados \in SUBSET Objetos, NEW dirs,
         \A o \in borrados : tiene[o] \subseteq dirs,
         Devolver(dirs),
         \A o \in Objetos : tiene'[o] = IF o \in borrados THEN {} ELSE tiene[o]
  PROVE  /\ Duenos'
         /\ /\ Sano /\ UNCHANGED basura
            /\ \A d \in dirs : \E o \in borrados : d \in tiene[o]
            /\ doble' = (doble \/ ~(dirs \subseteq mem))
            => Sano'
<1>0. mem' = mem \ dirs /\ arreglos' = arreglos \ (dirs \ SinPosiciones(dirs))
  BY DEF Devolver
<1>1. Duenos'
  <2>1. \A d : Capacidad(d)' = Capacidad(d)
    BY DEF Capacidad
  <2>2. \A d \in mem' : d[1] \in Objetos /\ d \in tiene'[d[1]]
    BY <1>0 DEF Duenos
  <2>3. ASSUME NEW d \in arreglos', Capacidad(d) # 0
        PROVE  d[1] \in Objetos /\ d \in tiene'[d[1]]
    <3>1. d \in arreglos /\ d \notin dirs
      BY <1>0, <2>3 DEF SinPosiciones
    <3> QED
      BY <2>3, <3>1 DEF Duenos
  <2> QED
    BY <2>1, <2>2, <2>3 DEF Duenos
<1>2. ASSUME Sano, UNCHANGED basura, \A d \in dirs : \E o \in borrados : d \in tiene[o],
             doble' = (doble \/ ~(dirs \subseteq mem))
      PROVE  Sano'
  <2>1. SUFFICES ASSUME Contado, ~basura
                 PROVE  ~doble' /\ \A o \in Objetos : \A d \in tiene'[o] : EnUso(d)'
    BY <1>2 DEF Sano, Contado
  <2>2. ~doble /\ \A o \in Objetos : \A d \in tiene[o] : EnUso(d)
    BY <1>2, <2>1 DEF Sano
  <2>3. dirs \subseteq mem
    BY <1>2, <2>2 DEF EnUso
  <2>4. ASSUME NEW o \in Objetos, o \notin borrados, NEW d \in tiene[o] PROVE d \notin dirs
    BY <1>2, <2>4 DEF Duenos
  <2>5. \A o \in Objetos : \A d \in tiene'[o] : EnUso(d)'
    BY <1>0, <2>2, <2>4 DEF EnUso, EsBitmap
  <2> QED
    BY <1>2, <2>2, <2>3, <2>5
<1> QED
  BY <1>1, <1>2

LEMMA IInvPaso == IInv /\ [Next]_vars => IInv'
<1> SUFFICES ASSUME IInv, [Next]_vars PROVE IInv'
  OBVIOUS
<1>0. TypeOK /\ Duenos /\ Etapas /\ Sano /\ vecinos = {} /\ TypeOK'
  BY TypeOKPaso DEF IInv
<1>a. DOMAIN tiene = Objetos
  BY <1>0 DEF TypeOK
<1>1. CASE CargarInstancia
  <2> DEFINE dirs == BitmapsDeEntrada("ii")
                       \cup (IF programa = "solucionar" THEN Celda("ii") ELSE {})
  <2>1. \A d \in dirs : d[1] = "ii"
    BY NombresDeBloques
  <2>2. tiene' = [tiene EXCEPT !["ii"] = dirs] /\ Reservar(dirs)
    BY <1>1 DEF CargarInstancia
  <2>3. \A o \in Objetos : tiene[o] = {}
    BY <1>0, <1>1 DEF CargarInstancia, Etapas, Vacios
  <2>4. UNCHANGED <<x, doble, programa, vecinos, punteroII>> /\ pc' = "cargada"
    BY <1>1 DEF CargarInstancia
  <2> HIDE DEF dirs
  <2>5. \A o \in Objetos : tiene'[o] = IF o = "ii" THEN dirs ELSE {}
    BY <1>a, <2>2, <2>3
  <2>6. \A d \in dirs : d[1] \in Objetos /\ d \in tiene'[d[1]]
    BY <2>1, <2>5 DEF Objetos
  <2>7. \A o \in Objetos : /\ tiene[o] \subseteq tiene'[o]
                           /\ \A d \in tiene'[o] : d[1] = o /\ (d \in tiene[o] \/ d \in dirs)
    BY <2>1, <2>3, <2>5
  <2>8. Duenos' /\ Sano'
    BY <1>0, <2>2, <2>4, <2>6, <2>7, Reserva
  <2>9. Etapas'
    BY <2>4, <2>5 DEF Etapas, Vacios, Objetos
  <2> QED
    BY <1>0, <2>4, <2>8, <2>9 DEF IInv
<1>2. CASE CrearSolucion
  <2> DEFINE propios == BitmapsDeSolucion("sol") \cup Celda("sol")
             dirs == CopiaDeEntrada \cup propios
  <2>1. (\A d \in propios : d[1] = "sol") /\ (\A d \in CopiaDeEntrada : d[1] = "copia")
    BY NombresDeBloques
  <2>2. /\ tiene' = [tiene EXCEPT !["copia"] = CopiaDeEntrada, !["sol"] = propios]
        /\ Reservar(dirs)
    BY <1>2 DEF CrearSolucion
  <2>3. programa = "solucionar" /\ pc = "cargada"
    BY <1>2 DEF CrearSolucion
  <2>4. \A o \in Objetos \ {"ii"} : tiene[o] = {}
    BY <1>0, <2>3 DEF Etapas, Vacios
  <2>5. /\ UNCHANGED <<x, doble, programa, vecinos>> /\ pc' = "busqueda"
        /\ punteroII' = [punteroII EXCEPT !["sol"] = "copia"]
    BY <1>2 DEF CrearSolucion
  <2> HIDE DEF propios
  <2>6. /\ tiene'["copia"] = CopiaDeEntrada /\ tiene'["sol"] = propios
        /\ \A o \in Objetos \ {"copia", "sol"} : tiene'[o] = tiene[o]
    BY <1>a, <2>2 DEF Objetos
  <2>7. \A d \in dirs : d[1] \in Objetos /\ d \in tiene'[d[1]]
    BY <2>1, <2>6 DEF Objetos
  <2>8. \A o \in Objetos : /\ tiene[o] \subseteq tiene'[o]
                           /\ \A d \in tiene'[o] : d[1] = o /\ (d \in tiene[o] \/ d \in dirs)
    <3> TAKE o \in Objetos
    <3>1. CASE o = "copia"
      BY <2>1, <2>4, <2>6, <3>1
    <3>2. CASE o = "sol"
      BY <2>1, <2>4, <2>6, <3>2
    <3>3. CASE o \notin {"copia", "sol"}
      BY <1>0, <2>6, <3>3 DEF Duenos
    <3> QED
      BY <3>1, <3>2, <3>3
  <2>9. Duenos' /\ Sano'
    BY <1>0, <2>2, <2>5, <2>7, <2>8, Reserva
  <2>10. tiene'["vecino"] = {} /\ tiene'["io"] = {}
    BY <2>4, <2>6 DEF Objetos
  <2>11. punteroII'["sol"] = "copia"
    BY <1>0, <2>5 DEF TypeOK
  <2>12. Etapas'
    BY <2>5, <2>10, <2>11 DEF Etapas, Vacios
  <2> QED
    BY <1>0, <2>5, <2>9, <2>12 DEF IInv
<1>3. CASE CopiaSolucion
  <2> DEFINE dirs == BitmapsDeSolucion("vecino")
  <2>1. \A d \in dirs : d[1] = "vecino"
    BY NombresDeBloques
  <2>2. tiene' = [tiene EXCEPT !["vecino"] = dirs] /\ Reservar(dirs)
    BY <1>3 DEF CopiaSolucion
  <2>3. pc = "busqueda" /\ tiene["vecino"] = {} /\ tiene["io"] = {} /\ punteroII["sol"] = "copia"
    BY <1>0, <1>3 DEF CopiaSolucion, Etapas, Vacios
  <2>4. UNCHANGED <<x, doble, programa, vecinos>> /\ pc' = "vecino"
    BY <1>3 DEF CopiaSolucion
  <2>5. punteroII'["sol"] = "copia"
    BY <1>0, <1>3, <2>3 DEF CopiaSolucion, TypeOK
  <2> HIDE DEF dirs
  <2>6. /\ tiene'["vecino"] = dirs
        /\ \A o \in Objetos \ {"vecino"} : tiene'[o] = tiene[o]
    BY <1>a, <2>2 DEF Objetos
  <2>7. \A d \in dirs : d[1] \in Objetos /\ d \in tiene'[d[1]]
    BY <2>1, <2>6 DEF Objetos
  <2>8. \A o \in Objetos : /\ tiene[o] \subseteq tiene'[o]
                           /\ \A d \in tiene'[o] : d[1] = o /\ (d \in tiene[o] \/ d \in dirs)
    <3> TAKE o \in Objetos
    <3>1. CASE o = "vecino"
      BY <2>1, <2>3, <2>6, <3>1
    <3>2. CASE o # "vecino"
      BY <1>0, <2>6, <3>2 DEF Duenos
    <3> QED
      BY <3>1, <3>2
  <2>9. Duenos' /\ Sano'
    BY <1>0, <2>2, <2>4, <2>7, <2>8, Reserva
  <2>10. tiene'["io"] = {}
    BY <2>3, <2>6 DEF Objetos
  <2>11. Etapas'
    BY <2>4, <2>5, <2>10 DEF Etapas, Vacios
  <2> QED
    BY <1>0, <2>4, <2>9, <2>11 DEF IInv
<1>4. CASE DescartaVecino
  <2> DEFINE p == punteroII["vecino"]
             ajeno == IF p = Nulo THEN {} ELSE tiene[p]
             dirs == ajeno \cup tiene["vecino"]
  <2>1. /\ Devolver(dirs)
        /\ doble' = (doble \/ ~(dirs \subseteq mem) \/ (p # Nulo /\ ajeno = {}))
        /\ basura' = (basura \/ p # Nulo)
        /\ tiene' = [tiene EXCEPT !["vecino"] = {}]
        /\ pc' = "busqueda" /\ UNCHANGED <<x, programa, punteroII>>
    BY <1>4 DEF DescartaVecino
  <2>2. vecinos' = {}
    BY <1>0, <1>4 DEF DescartaVecino, checker
  <2>3. pc = "vecino" /\ tiene["io"] = {} /\ punteroII["sol"] = "copia"
    BY <1>0, <1>4 DEF DescartaVecino, Etapas, Vacios
  <2>4. {"vecino"} \in SUBSET Objetos
    BY DEF Objetos
  <2>5. \A o \in Objetos : tiene'[o] = IF o \in {"vecino"} THEN {} ELSE tiene[o]
    BY <1>a, <2>1
  <2>6. \A o \in {"vecino"} : tiene[o] \subseteq dirs
    OBVIOUS
  <2>7. Duenos'
    <3>1. Devolver(dirs) /\ UNCHANGED x
      BY <2>1
    <3> HIDE DEF dirs
    <3> QED
      BY <1>0, <2>4, <2>5, <2>6, <3>1, Libera
  <2>8. Sano'
    <3>1. CASE p = Nulo
      <4>1. /\ Devolver(tiene["vecino"]) /\ UNCHANGED x /\ UNCHANGED basura
            /\ doble' = (doble \/ ~(tiene["vecino"] \subseteq mem))
        <5>1. dirs = tiene["vecino"]
          BY <3>1
        <5>2. UNCHANGED x /\ basura' = (basura \/ p # Nulo)
          BY <2>1
        <5>3. basura' = basura
          BY <1>0, <3>1, <5>2 DEF TypeOK
        <5>4. doble' = (doble \/ ~(dirs \subseteq mem))
          BY <2>1, <3>1
        <5>5. Devolver(dirs)
          BY <2>1
        <5> HIDE DEF dirs
        <5> QED
          BY <5>1, <5>2, <5>3, <5>4, <5>5
      <4>2. /\ \A o \in {"vecino"} : tiene[o] \subseteq tiene["vecino"]
            /\ \A d \in tiene["vecino"] : \E o \in {"vecino"} : d \in tiene[o]
        OBVIOUS
      <4> QED
        BY <1>0, <2>4, <2>5, <4>1, <4>2, Libera
    <3>2. CASE p # Nulo
      BY <2>1, <3>2 DEF Sano
    <3> QED
      BY <3>1, <3>2
  <2>9. tiene'["vecino"] = {} /\ tiene'["io"] = {}
    BY <2>3, <2>5 DEF Objetos
  <2>10. Etapas'
    BY <2>1, <2>3, <2>9 DEF Etapas, Vacios
  <2> QED
    BY <1>0, <2>2, <2>7, <2>8, <2>10 DEF IInv
<1>5. CASE EscribirSalida
  <2>1. /\ pc = "busqueda" /\ pc' = "escrita"
        /\ UNCHANGED <<x, programa, mem, arreglos, tiene, punteroII, vecinos, doble, basura>>
    BY <1>5 DEF EscribirSalida
  <2>2. programa = "solucionar"
    BY <1>0, <2>1 DEF TypeOK
  <2>3. Duenos' /\ Sano'
    BY <1>0, <2>1 DEF Duenos, Sano, Contado, EnUso, Capacidad
  <2>4. Etapas'
    BY <1>0, <2>1, <2>2 DEF Etapas, Vacios
  <2> QED
    BY <1>0, <2>1, <2>3, <2>4 DEF IInv
<1>6. CASE LeerViaje
  <2> DEFINE dirs == {<<"io", "bm_personas", i>>, <<"io", "tr", i>>}
  <2>1. \A d \in dirs : d[1] = "io"
    OBVIOUS
  <2>2. /\ tiene' = [tiene EXCEPT !["io"] = @ \cup dirs] /\ Reservar(dirs)
        /\ UNCHANGED <<x, programa, pc, punteroII, vecinos, doble>>
        /\ programa = "verificar" /\ pc = "cargada"
    BY <1>6 DEF LeerViaje
  <2> HIDE DEF dirs
  <2>3. /\ tiene'["io"] = tiene["io"] \cup dirs
        /\ \A o \in Objetos \ {"io"} : tiene'[o] = tiene[o]
    BY <1>a, <2>2 DEF Objetos
  <2>4. \A d \in dirs : d[1] \in Objetos /\ d \in tiene'[d[1]]
    BY <2>1, <2>3 DEF Objetos
  <2>5. \A o \in Objetos : /\ tiene[o] \subseteq tiene'[o]
                           /\ \A d \in tiene'[o] : d[1] = o /\ (d \in tiene[o] \/ d \in dirs)
    <3> TAKE o \in Objetos
    <3>1. CASE o = "io"
      BY <1>0, <2>1, <2>3, <3>1 DEF Duenos
    <3>2. CASE o # "io"
      BY <1>0, <2>3, <3>2 DEF Duenos
    <3> QED
      BY <3>1, <3>2
  <2>6. Duenos' /\ Sano'
    BY <1>0, <2>2, <2>4, <2>5, Reserva
  <2>7. Etapas'
    BY <1>0, <2>2, <2>3 DEF Etapas, Vacios, Objetos
  <2> QED
    BY <1>0, <2>2, <2>6, <2>7 DEF IInv
<1>7. CASE BorrarSalida
  <2>1. /\ Devolver(tiene["io"]) /\ doble' = (doble \/ ~(tiene["io"] \subseteq mem))
        /\ tiene' = [tiene EXCEPT !["io"] = {}] /\ programa = "verificar"
        /\ pc = "cargada" /\ pc' = "escrita"
        /\ UNCHANGED <<x, programa, punteroII, vecinos, basura>>
    BY <1>7 DEF BorrarSalida, Liberar
  <2>2. \A o \in Objetos : tiene'[o] = IF o \in {"io"} THEN {} ELSE tiene[o]
    BY <1>a, <2>1
  <2>3. {"io"} \in SUBSET Objetos
    BY DEF Objetos
  <2>4. /\ \A o \in {"io"} : tiene[o] \subseteq tiene["io"]
        /\ \A d \in tiene["io"] : \E o \in {"io"} : d \in tiene[o]
    OBVIOUS
  <2>5. Duenos' /\ Sano'
    BY <1>0, <2>1, <2>2, <2>3, <2>4, Libera
  <2>6. Etapas'
    BY <1>0, <2>1, <2>2 DEF Etapas, Vacios, Objetos
  <2> QED
    BY <1>0, <2>1, <2>5, <2>6 DEF IInv
<1>8. CASE BorrarInstancia
  <2>1. /\ Devolver(tiene["ii"]) /\ doble' = (doble \/ ~(tiene["ii"] \subseteq mem))
        /\ tiene' = [tiene EXCEPT !["ii"] = {}]
        /\ pc = "escrita" /\ pc' = IF programa = "solucionar" THEN "sin_ii" ELSE "fin"
        /\ UNCHANGED <<x, programa, punteroII, vecinos, basura>>
    BY <1>8 DEF BorrarInstancia, Liberar
  <2>2. \A o \in Objetos : tiene'[o] = IF o \in {"ii"} THEN {} ELSE tiene[o]
    BY <1>a, <2>1
  <2>3. {"ii"} \in SUBSET Objetos
    BY DEF Objetos
  <2>4. /\ \A o \in {"ii"} : tiene[o] \subseteq tiene["ii"]
        /\ \A d \in tiene["ii"] : \E o \in {"ii"} : d \in tiene[o]
    OBVIOUS
  <2>5. Duenos' /\ Sano'
    BY <1>0, <2>1, <2>2, <2>3, <2>4, Libera
  <2>6. Etapas'
    <3>1. CASE programa = "solucionar"
      BY <1>0, <2>1, <2>2, <3>1 DEF Etapas, Vacios, Objetos
    <3>2. CASE programa # "solucionar"
      BY <1>0, <2>1, <2>2, <3>2 DEF Etapas, Vacios, Objetos
    <3> QED
      BY <3>1, <3>2
  <2> QED
    BY <1>0, <2>1, <2>5, <2>6 DEF IInv
<1>9. CASE BorrarSolucion
  <2> DEFINE dirs == tiene["copia"] \cup tiene["sol"]
  <2>1. pc = "sin_ii" /\ punteroII["sol"] = "copia"
    BY <1>0, <1>9 DEF BorrarSolucion, Etapas
  <2>2. /\ Devolver(dirs) /\ doble' = (doble \/ ~(dirs \subseteq mem))
        /\ tiene' = [tiene EXCEPT !["sol"] = {}, !["copia"] = {}]
        /\ pc' = "fin"
        /\ UNCHANGED <<x, programa, punteroII, vecinos, basura>>
    BY <1>9, <2>1 DEF BorrarSolucion, Liberar
  <2>3. \A o \in Objetos : tiene'[o] = IF o \in {"copia", "sol"} THEN {} ELSE tiene[o]
    BY <1>a, <2>2
  <2>4. {"copia", "sol"} \in SUBSET Objetos
    BY DEF Objetos
  <2>5. /\ \A o \in {"copia", "sol"} : tiene[o] \subseteq dirs
        /\ \A d \in dirs : \E o \in {"copia", "sol"} : d \in tiene[o]
    OBVIOUS
  <2>6. Duenos' /\ Sano'
    <3> HIDE DEF dirs
    <3> QED
      BY <1>0, <2>2, <2>3, <2>4, <2>5, Libera
  <2>7. Etapas'
    BY <1>0, <2>1, <2>2, <2>3 DEF Etapas, Vacios, Objetos
  <2> QED
    BY <1>0, <2>2, <2>6, <2>7 DEF IInv
<1>10. CASE UNCHANGED vars
  <2>1. Duenos' /\ Sano' /\ Etapas' /\ vecinos' = {}
    BY <1>0, <1>10 DEF vars, Duenos, Sano, Contado, EnUso, Capacidad, Etapas, Vacios
  <2> QED
    BY <1>0, <2>1 DEF IInv
<1> QED
  BY <1>1, <1>2, <1>3, <1>4, <1>5, <1>6, <1>7, <1>8, <1>9, <1>10 DEF Next

LEMMA IInvSiempre == Spec => []IInv
BY IInvInit, IInvPaso, PTL DEF Spec

(* Nothing is freed twice but for a count of 0 or the unset punteroII of a *)
(* copied solution (SRPlanner.cpp:235-330, MiniBitmap.cpp:5-7).            *)
THEOREM FalloSiempreConCausa == Spec => []FalloConCausa
<1>1. IInv => FalloConCausa
  BY DEF IInv, Sano, FalloConCausa, TypeOK
<1> QED
  BY <1>1, IInvSiempre, PTL

(* Whatever the counts, no object that is alive points to a block that was *)
(* given back (SRPlanner.cpp:31-39, :298-300).                             *)
THEOREM PunterosSiempreVivos == Spec => []PunterosVivos
<1>1. IInv => PunterosVivos
  BY DEF IInv, Sano, PunterosVivos, EnUso
<1> QED
  BY <1>1, IInvSiempre, PTL

(* Some object points to each block in use and none is left at the end,    *)
(* whatever the counts, but for the arrays of bitmaps without positions    *)
(* (MiniBitmap.cpp:13, :19, SRPlanner.cpp:31-39,                           *)
(* SRP_InstanceInput.cpp:181-205, SRP_InstanceOutput.cpp:65-70).           *)
THEOREM SoloSeFuganArreglosVacios == Spec => []SinFugas
<1>1. ASSUME IInv, NEW d \in mem \cup arreglos
      PROVE  (\E o \in Objetos : d \in tiene[o]) \/ (d \notin mem /\ Capacidad(d) = 0)
  BY <1>1 DEF IInv, Duenos
<1>2. ASSUME IInv, pc = "fin" PROVE \A o \in Objetos : tiene[o] = {}
  <2>1. Vacios[pc] = Objetos
    BY <1>2 DEF Vacios
  <2> QED
    BY <1>2, <2>1 DEF IInv, Etapas
<1>3. ASSUME IInv, pc = "fin" PROVE mem = {} /\ \A d \in arreglos : Capacidad(d) = 0
  BY <1>1, <1>2, <1>3
<1>4. IInv => SinFugas
  BY <1>1, <1>3 DEF SinFugas
<1> QED
  BY <1>4, IInvSiempre, PTL

=============================================================================
