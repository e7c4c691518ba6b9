-------------------------- MODULE SalidaViajes_proof --------------------------
(***************************************************************************)
(* Proofs about the checkers of output files, for every file, every number *)
(* of trips and every outcome of the unset tm_isdst.                       *)
(***************************************************************************)
EXTENDS SalidaViajes, TLAPS

Textos == [traslado_ts : Horas \cup {SinTexto}, idvehi : Vehiculos \cup {SinTexto},
           minutos : Minutos]
Trips  == [horainicio : Tiempos, idvehi : Vehiculos \cup {SinTexto}, minutos : Minutos]

LEMMA TiemposEnteros ==
  /\ Tiempos \subseteq Int
  /\ \A ts \in Horas \cup {SinTexto} : obtenerTime(ts) \subseteq Tiempos
<1>1. Horas \subseteq Int
  BY HorasAssumption
<1>2. ASSUME NEW x \in Tiempos PROVE x \in Int
  BY <1>1 DEF Tiempos
<1>3. ASSUME NEW ts \in Horas PROVE {ts, ts - 60} \subseteq Tiempos
  BY DEF Tiempos
<1>4. ASSUME NEW ts \in Horas \cup {SinTexto} PROVE obtenerTime(ts) \subseteq Tiempos
  BY <1>3 DEF obtenerTime
<1> QED
  BY <1>2, <1>4

LEMMA InitTipos == Init => TypeOK
<1> SUFFICES ASSUME Init PROVE TypeOK
  OBVIOUS
<1>1. t \in Nat /\ i \in 1 .. t + 1 /\ archivo \in Seq(Lineas) /\ Len(archivo) <= t
  BY MaxViajesAssumption, ArchivosAssumption DEF Init
<1>2. viaje \in Textos
  BY MinutosAssumption DEF Init, Textos
<1>3. tr = <<>> /\ orden = <<>>
  BY DEF Init
<1>4. tr \in Seq(Trips) /\ orden \in Seq(1 .. t) /\ Len(tr) = 0 /\ Len(orden) = 0
  BY <1>3
<1> QED
  BY <1>1, <1>2, <1>4 DEF Init, TypeOK, Textos, Trips

LEMMA TextoTipo ==
  ASSUME TypeOK, archivo # <<>>, NEW k \in Nat \ {0}
  PROVE  /\ Texto(k) \in Lineas
         /\ Texto(k).traslado_ts \in Horas /\ Texto(k).traslado_ts \in Int
         /\ Texto(k).minutos \in Minutos /\ Texto(k).minutos \in Nat
<1>1. Len(archivo) \in Nat \ {0} /\ archivo \in Seq(Lineas)
  BY DEF TypeOK
<1> DEFINE j == IF k <= Len(archivo) THEN k ELSE Len(archivo)
<1>2. j \in 1 .. Len(archivo)
  BY <1>1
<1>3. Texto(k) = archivo[j]
  BY DEF Texto
<1>4. Texto(k) \in Lineas
  <2> HIDE DEF j
  <2> QED
    BY <1>1, <1>2, <1>3
<1>5. Texto(k).traslado_ts \in Horas /\ Texto(k).minutos \in Minutos
  BY <1>4 DEF Lineas
<1>6. Horas \subseteq Int /\ Minutos \subseteq Nat
  BY HorasAssumption, MinutosAssumption
<1> QED
  BY <1>4, <1>5, <1>6

(* The step of one trip more, whatever was read *)
LEMMA AnotarTipos ==
  ASSUME TypeOK, pc = "lee", i <= t, NEW v \in Textos, Anotar(v)
  PROVE  /\ TypeOK'
         /\ tr' = Append(tr, tr'[i]) /\ orden' = Append(orden, i) /\ tr'[i] \in Trips
         /\ tr'[i].horainicio \in obtenerTime(v.traslado_ts)
         /\ tr'[i].idvehi = v.idvehi /\ tr'[i].minutos = v.minutos
<1>1. PICK hora \in obtenerTime(v.traslado_ts) :
        tr' = Append(tr, [horainicio |-> hora, idvehi |-> v.idvehi, minutos |-> v.minutos])
  BY DEF Anotar
<1> DEFINE x == [horainicio |-> hora, idvehi |-> v.idvehi, minutos |-> v.minutos]
<1>2. x \in Trips
  BY TiemposEnteros DEF Textos, Trips
<1>3. tr \in Seq(Trips) /\ orden \in Seq(1 .. t) /\ Len(tr) = i - 1 /\ Len(orden) = i - 1
      /\ i \in 1 .. t /\ t \in Nat
  BY DEF TypeOK, Trips
<1>4. x.horainicio = hora /\ x.idvehi = v.idvehi /\ x.minutos = v.minutos /\ tr' = Append(tr, x)
  BY <1>1
<1> HIDE DEF x
<1>5. tr' \in Seq(Trips) /\ Len(tr') = i /\ tr'[i] = x
  BY <1>2, <1>3, <1>4
<1>6. orden' = Append(orden, i)
  BY DEF Anotar
<1>7. orden' \in Seq(1 .. t) /\ Len(orden') = i
  BY <1>3, <1>6
<1>8. i' \in 1 .. t + 1 /\ i' = i + 1
  BY <1>3 DEF Anotar
<1>9. viaje' = v /\ UNCHANGED <<programa, t, archivo, salto, pc, solapes>>
  BY DEF Anotar
<1>10. TypeOK'
  BY <1>3, <1>5, <1>7, <1>8, <1>9 DEF TypeOK, Trips, Textos
<1> QED
  BY <1>1, <1>2, <1>4, <1>5, <1>6, <1>10

LEMMA PasoTipos == TypeOK /\ [Next]_vars => TypeOK'
<1> SUFFICES ASSUME TypeOK, [Next]_vars PROVE TypeOK'
  OBVIOUS
<1>1. CASE LeerLinea
  <2>1. archivo[i] \in Textos
    <3>1. archivo \in Seq(Lineas) /\ i \in 1 .. Len(archivo)
      BY <1>1 DEF LeerLinea, TypeOK
    <3>2. archivo[i] \in Lineas
      BY <3>1
    <3> QED
      BY <3>2 DEF Lineas, Textos
  <2> QED
    BY <1>1, <2>1, AnotarTipos DEF LeerLinea
<1>2. CASE LineaQueFalta
  <2> DEFINE v == IF programa = "antiguo" /\ salto
                  THEN [viaje EXCEPT !.idvehi = SinTexto, !.minutos = MinutosServiu]
                  ELSE viaje
  <2>1. v \in Textos
    BY MinutosAssumption DEF TypeOK, Textos
  <2>2. pc = "lee" /\ i <= t /\ Anotar(v)
    BY <1>2 DEF LineaQueFalta
  <2> HIDE DEF v
  <2> QED
    BY <2>1, <2>2, AnotarTipos
<1>3. CASE FinLectura
  <2>1. i = t + 1 /\ i' = 1 /\ t \in Nat
    BY <1>3 DEF FinLectura, TypeOK
  <2>2. Len(tr) = t
    BY <1>3, <2>1 DEF FinLectura, TypeOK
  <2> QED
    BY <1>3, <2>1, <2>2 DEF FinLectura, TrasLeer, TypeOK
<1>4. CASE Ordenar
  <2>1. PICK p \in [1 .. t -> 1 .. t] :
          /\ tr' = [k \in 1 .. t |-> tr[p[k]]]
          /\ orden' = [k \in 1 .. t |-> orden[p[k]]]
    BY <1>4 DEF Ordenar
  <2>2. tr \in Seq(Trips) /\ orden \in Seq(1 .. t) /\ Len(tr) = t /\ Len(orden) = t /\ t \in Nat
    BY <1>4 DEF Ordenar, TypeOK, Trips
  <2>3. ASSUME NEW k \in 1 .. t PROVE tr[p[k]] \in Trips /\ orden[p[k]] \in 1 .. t
    <3>1. p[k] \in 1 .. t
      OBVIOUS
    <3>2. tr[p[k]] \in Trips
      BY <2>2, <3>1
    <3>3. orden[p[k]] \in 1 .. t
      <4>1. ASSUME NEW S, NEW s \in Seq(S), NEW j \in 1 .. Len(s) PROVE s[j] \in S
        OBVIOUS
      <4> QED
        BY <2>2, <3>1, <4>1
    <3> QED
      BY <3>2, <3>3
  <2>4. tr' \in Seq(Trips) /\ orden' \in Seq(1 .. t) /\ Len(tr') = t /\ Len(orden') = t
    <3>1. tr' \in [1 .. t -> Trips]
      BY <2>1, <2>3
    <3>2. orden' \in [1 .. t -> 1 .. t]
      BY <2>1, <2>3
    <3>3. tr' \in Seq(Trips) /\ Len(tr') = t
      BY <2>2, <3>1
    <3>4. orden' \in Seq(1 .. t) /\ Len(orden') = t
      BY <2>2, <3>2
    <3> QED
      BY <3>3, <3>4
  <2> QED
    BY <1>4, <2>4 DEF Ordenar, TypeOK, Trips
<1>5. CASE Validar
  <2>1. i' \in 1 .. t + 1
    BY <1>5 DEF Validar, TypeOK
  <2>2. solapes' \in Nat
    BY <1>5 DEF Validar, TypeOK
  <2> QED
    BY <1>5, <2>1, <2>2 DEF Validar, TypeOK
<1>6. CASE FinValidacion
  BY <1>6 DEF FinValidacion, TypeOK
<1>7. CASE UNCHANGED vars
  BY <1>7 DEF vars, TypeOK
<1> QED
  BY <1>1, <1>2, <1>3, <1>4, <1>5, <1>6, <1>7 DEF Next

(* Every state is well typed: as many trips as were announced, also when   *)
(* the file is shorter (SRP_InstanceOutput.cpp:29-56).                     *)
THEOREM TiposDeLaSalida == Spec => []TypeOK
<1>1. Init => TypeOK
  BY InitTipos
<1>2. TypeOK /\ [Next]_vars => TypeOK'
  BY PasoTipos
<1> QED
  BY <1>1, <1>2, PTL DEF Spec

-----------------------------------------------------------------------------
(* What was read, sorted and compared so far                               *)

VehiculoDe(k) ==
  IF programa = "antiguo" /\ salto /\ k > Len(archivo) THEN SinTexto ELSE Texto(k).idvehi
MinutosDe(k) ==
  IF programa = "antiguo" /\ salto /\ k > Len(archivo) THEN MinutosServiu ELSE Texto(k).minutos

(* The reader's variables hold what the line before left in them. *)
ViajeFiel ==
  pc = "lee" /\ archivo # <<>> /\ i > 1 =>
    /\ viaje.traslado_ts = Texto(i - 1).traslado_ts
    /\ viaje.idvehi = VehiculoDe(i - 1) /\ viaje.minutos = MinutosDe(i - 1)

TripFiel(k) ==
  /\ tr[k].horainicio \in {Texto(orden[k]).traslado_ts, Texto(orden[k]).traslado_ts - 60}
  /\ tr[k].idvehi = VehiculoDe(orden[k]) /\ tr[k].minutos = MinutosDe(orden[k])

TrFiel == archivo # <<>> => \A k \in 1 .. Len(tr) : TripFiel(k)

EnOrdenDeLectura == \A k \in 1 .. Len(tr) : orden[k] = k

OrdenFiel ==
  /\ pc \in {"lee", "ordena"} \/ programa = "verificador" => EnOrdenDeLectura
  /\ pc # "lee" => \A a \in 1 .. t : \E k \in 1 .. t : orden[k] = a

Ordenados ==
  programa = "antiguo" /\ pc \in {"valida", "fin"} =>
    \A a, b \in 1 .. t : a < b => ~Antes(tr[b], tr[a])

Comparados ==
  pc \in {"valida", "fin"} /\ solapes = 0 =>
    \A a, b \in 2 .. i - 1 :
      a < b /\ (\A k \in a .. b : tr[k].idvehi = tr[a].idvehi)
        => Limite(tr[a]) <= tr[b].horainicio

Motivo == solapes > 0 => pc \in {"valida", "fin"} /\ \E k \in 3 .. t : Solapa(k)

Final == (pc = "fin" => i = t + 1) /\ (pc = "ordena" => programa = "antiguo" /\ i = 1)

IInv ==
  /\ TypeOK /\ ViajeFiel /\ TrFiel /\ OrdenFiel
  /\ Ordenados /\ Comparados /\ Motivo /\ Final

LEMMA InitIInv == Init => IInv
<1> SUFFICES ASSUME Init PROVE IInv
  OBVIOUS
<1>1. TypeOK /\ Len(tr) = 0 /\ i = 1 /\ pc = "lee" /\ solapes = 0
  BY InitTipos DEF Init
<1> QED
  BY <1>1 DEF IInv, ViajeFiel, TrFiel, OrdenFiel, EnOrdenDeLectura, Ordenados, Comparados,
              Motivo, Final

(* One trip more, of which the variables hold what its line says *)
LEMMA AnotarIInv ==
  ASSUME IInv, pc = "lee", i <= t, NEW v \in Textos, Anotar(v),
         archivo # <<>> => /\ v.traslado_ts = Texto(i).traslado_ts
                           /\ v.idvehi = VehiculoDe(i) /\ v.minutos = MinutosDe(i)
  PROVE  IInv'
<1>1. /\ TypeOK' /\ tr' = Append(tr, tr'[i]) /\ orden' = Append(orden, i) /\ tr'[i] \in Trips
      /\ tr'[i].horainicio \in obtenerTime(v.traslado_ts)
      /\ tr'[i].idvehi = v.idvehi /\ tr'[i].minutos = v.minutos
  BY AnotarTipos DEF IInv
<1>2. /\ tr \in Seq(Trips) /\ orden \in Seq(1 .. t) /\ Len(tr) = i - 1 /\ Len(orden) = i - 1
      /\ i \in 1 .. t /\ t \in Nat /\ archivo \in Seq(Lineas) /\ TypeOK
  BY DEF IInv, TypeOK, Trips
<1>3. UNCHANGED <<programa, t, archivo, salto, pc, solapes>> /\ i' = i + 1 /\ viaje' = v
  BY DEF Anotar
<1>a. ASSUME NEW S, NEW s \in Seq(S), NEW e \in S
      PROVE  /\ Len(Append(s, e)) = Len(s) + 1 /\ Append(s, e)[Len(s) + 1] = e
             /\ \A k \in 1 .. Len(s) : Append(s, e)[k] = s[k]
  OBVIOUS
<1>4. Len(tr') = i /\ \A k \in 1 .. i - 1 : tr'[k] = tr[k]
  <2> DEFINE e == tr'[i]
  <2>1. tr \in Seq(Trips) /\ e \in Trips /\ tr' = Append(tr, e)
    BY <1>1, <1>2
  <2>2. Len(tr) = i - 1 /\ Len(tr) + 1 = i
    BY <1>2
  <2> HIDE DEF e
  <2>3. Len(tr') = Len(tr) + 1 /\ \A k \in 1 .. Len(tr) : tr'[k] = tr[k]
    BY <2>1, <1>a, ZenonT(60)
  <2> QED
    BY <2>2, <2>3, Zenon
<1>5. orden'[i] = i /\ \A k \in 1 .. i - 1 : orden'[k] = orden[k]
  <2>1. orden \in Seq(1 .. t) /\ i \in 1 .. t
    BY <1>2
  <2>2. /\ Append(orden, i)[Len(orden) + 1] = i
        /\ \A k \in 1 .. Len(orden) : Append(orden, i)[k] = orden[k]
    BY <2>1, <1>a, ZenonT(60)
  <2>3. Len(orden) = i - 1 /\ Len(orden) + 1 = i
    BY <1>2
  <2> QED
    BY <1>1, <2>2, <2>3, Zenon
<1>6. \A k : /\ Texto(k)' = Texto(k) /\ VehiculoDe(k)' = VehiculoDe(k)
             /\ MinutosDe(k)' = MinutosDe(k)
  BY <1>3 DEF Texto, VehiculoDe, MinutosDe
<1>7. ASSUME archivo # <<>>, NEW k \in 1 .. i PROVE TripFiel(k)'
  <2>1. CASE k = i
    <3>1. Texto(i).traslado_ts \in Horas
      BY <1>2, <1>7, TextoTipo
    <3>2. obtenerTime(v.traslado_ts) = {Texto(i).traslado_ts, Texto(i).traslado_ts - 60}
      BY <1>7, <3>1, SinTextoAssumption DEF obtenerTime
    <3> QED
      BY <1>1, <1>5, <1>6, <1>7, <2>1, <3>2 DEF TripFiel
  <2>2. CASE k # i
    <3>1. k \in 1 .. i - 1 /\ TripFiel(k)
      BY <1>2, <1>7, <2>2 DEF IInv, TrFiel
    <3> QED
      BY <1>4, <1>5, <1>6, <3>1 DEF TripFiel
  <2> QED
    BY <2>1, <2>2
<1>8. TrFiel'
  BY <1>3, <1>4, <1>7 DEF TrFiel
<1>9. ViajeFiel'
  <2>1. i' - 1 = i
    BY <1>2, <1>3
  <2> QED
    BY <1>3, <1>6, <2>1 DEF ViajeFiel
<1>10. OrdenFiel'
  <2>1. EnOrdenDeLectura
    BY DEF IInv, OrdenFiel
  <2>2. EnOrdenDeLectura'
    <3>1. SUFFICES ASSUME NEW k \in 1 .. i PROVE orden'[k] = k
      BY <1>4 DEF EnOrdenDeLectura
    <3>2. CASE k = i
      BY <1>5, <3>2
    <3>3. CASE k # i
      <4>1. k \in 1 .. i - 1
        BY <1>2, <3>3
      <4> QED BY <1>2, <1>5, <2>1, <4>1 DEF EnOrdenDeLectura
    <3> QED BY <3>2, <3>3
  <2> QED
    BY <1>3, <2>2 DEF OrdenFiel
<1>11. solapes = 0 /\ solapes' = 0 /\ pc' = "lee"
  BY <1>2, <1>3 DEF IInv, Motivo, TypeOK
<1> QED
  BY <1>1, <1>8, <1>9, <1>10, <1>11 DEF IInv, Ordenados, Comparados, Motivo, Final

LEMMA LeerLineaIInv == ASSUME IInv, LeerLinea PROVE IInv'
<1>1. /\ i \in 1 .. Len(archivo) /\ archivo \in Seq(Lineas) /\ pc = "lee" /\ i <= t
      /\ Anotar(archivo[i])
  BY DEF IInv, TypeOK, LeerLinea
<1>2. archivo[i] \in Textos
  <2>1. archivo[i] \in Lineas
    BY <1>1
  <2> QED
    BY <2>1 DEF Lineas, Textos
<1>3. /\ Texto(i) = archivo[i] /\ VehiculoDe(i) = archivo[i].idvehi
      /\ MinutosDe(i) = archivo[i].minutos
  BY <1>1 DEF Texto, VehiculoDe, MinutosDe
<1> QED
  BY <1>1, <1>2, <1>3, AnotarIInv

LEMMA LineaQueFaltaIInv == ASSUME IInv, LineaQueFalta PROVE IInv'
<1> DEFINE v == IF programa = "antiguo" /\ salto
                THEN [viaje EXCEPT !.idvehi = SinTexto, !.minutos = MinutosServiu]
                ELSE viaje
<1>1. pc = "lee" /\ i <= t /\ i > Len(archivo) /\ Anotar(v)
  BY DEF LineaQueFalta
<1>2. v \in Textos
  BY MinutosAssumption DEF IInv, TypeOK, Textos
<1>3. i \in Nat /\ Len(archivo) \in Nat /\ archivo \in Seq(Lineas) /\ viaje \in Textos
  BY DEF IInv, TypeOK, Textos
<1>4. ASSUME archivo # <<>>
      PROVE  /\ v.traslado_ts = Texto(i).traslado_ts
             /\ v.idvehi = VehiculoDe(i) /\ v.minutos = MinutosDe(i)
  <2>1. i > 1 /\ Len(archivo) # 0
    BY <1>1, <1>3, <1>4
  <2>2. Texto(i) = Texto(i - 1)
    <3>1. CASE i - 1 = Len(archivo)
      BY <1>1, <1>3, <3>1 DEF Texto
    <3>2. CASE i - 1 > Len(archivo)
      BY <1>1, <1>3, <3>2 DEF Texto
    <3> QED
      BY <1>1, <1>3, <3>1, <3>2
  <2>3. /\ viaje.traslado_ts = Texto(i - 1).traslado_ts
        /\ viaje.idvehi = VehiculoDe(i - 1) /\ viaje.minutos = MinutosDe(i - 1)
    BY <1>1, <1>4, <2>1 DEF IInv, ViajeFiel
  <2>4. CASE programa = "antiguo" /\ salto
    BY <1>1, <1>3, <2>2, <2>3, <2>4 DEF Textos, VehiculoDe, MinutosDe
  <2>5. CASE ~(programa = "antiguo" /\ salto)
    BY <2>2, <2>3, <2>5 DEF VehiculoDe, MinutosDe
  <2> QED
    BY <2>4, <2>5
<1> HIDE DEF v
<1> QED
  BY <1>1, <1>2, <1>4, AnotarIInv

LEMMA FinLecturaIInv == ASSUME IInv, FinLectura PROVE IInv'
<1>1. TypeOK'
  BY PasoTipos DEF IInv, Next
<1>2. /\ pc = "lee" /\ i = t + 1 /\ i' = 1 /\ t \in Nat /\ Len(tr) = t
      /\ pc' = IF programa = "antiguo" THEN "ordena" ELSE "valida"
      /\ UNCHANGED <<programa, t, archivo, salto, viaje, tr, orden, solapes>>
  <2>1. i = t + 1 /\ t \in Nat
    BY DEF IInv, TypeOK, FinLectura
  <2> QED
    BY <2>1 DEF IInv, TypeOK, FinLectura, TrasLeer
<1>3. EnOrdenDeLectura
  BY <1>2 DEF IInv, OrdenFiel
<1>4. OrdenFiel'
  <2>1. EnOrdenDeLectura'
    BY <1>2, <1>3 DEF EnOrdenDeLectura
  <2>2. \A a \in 1 .. t : orden'[a] = a
    BY <1>2, <1>3 DEF EnOrdenDeLectura
  <2> QED
    BY <1>2, <2>1, <2>2 DEF OrdenFiel
<1>5. TrFiel'
  BY <1>2 DEF IInv, TrFiel, TripFiel, Texto, VehiculoDe, MinutosDe
<1>6. solapes = 0 /\ solapes' = 0
  BY <1>2 DEF IInv, Motivo, TypeOK
<1>7. ViajeFiel' /\ Comparados' /\ Motivo' /\ Final' /\ Ordenados'
  BY <1>2, <1>6 DEF ViajeFiel, Comparados, Motivo, Final, Ordenados
<1> QED
  BY <1>1, <1>4, <1>5, <1>7 DEF IInv

LEMMA OrdenarIInv == ASSUME IInv, Ordenar PROVE IInv'
<1>1. TypeOK'
  BY PasoTipos DEF IInv, Next
<1>2. PICK p \in [1 .. t -> 1 .. t] :
        /\ \A a \in 1 .. t : \E b \in 1 .. t : p[b] = a
        /\ \A a, b \in 1 .. t : a < b => ~Antes(tr[p[b]], tr[p[a]])
        /\ tr' = [k \in 1 .. t |-> tr[p[k]]]
        /\ orden' = [k \in 1 .. t |-> orden[p[k]]]
  BY DEF Ordenar
<1>3. /\ pc = "ordena" /\ pc' = "valida" /\ programa = "antiguo" /\ Len(tr) = t /\ t \in Nat
      /\ UNCHANGED <<programa, t, archivo, salto, i, viaje, solapes>>
  BY DEF Ordenar, IInv, TypeOK, Final
<1>4. Len(tr') = t
  BY <1>1, <1>3 DEF TypeOK
<1>5. \A k \in 1 .. t : p[k] \in 1 .. t /\ tr'[k] = tr[p[k]] /\ orden'[k] = orden[p[k]]
  BY <1>2
<1>6. \A k : /\ Texto(k)' = Texto(k) /\ VehiculoDe(k)' = VehiculoDe(k)
             /\ MinutosDe(k)' = MinutosDe(k)
  BY <1>3 DEF Texto, VehiculoDe, MinutosDe
<1>7. TrFiel'
  <2>1. ASSUME archivo # <<>>, NEW k \in 1 .. t PROVE TripFiel(k)'
    <3>1. TripFiel(p[k])
      BY <1>3, <1>5, <2>1 DEF IInv, TrFiel
    <3> QED
      BY <1>5, <1>6, <3>1 DEF TripFiel
  <2> QED
    BY <1>3, <1>4, <2>1 DEF TrFiel
<1>8. OrdenFiel'
  <2>1. ASSUME NEW a \in 1 .. t PROVE \E k \in 1 .. t : orden'[k] = a
    <3>1. PICK j \in 1 .. t : orden[j] = a
      BY <1>3 DEF IInv, OrdenFiel
    <3>2. PICK k \in 1 .. t : p[k] = j
      BY <1>2
    <3> QED
      BY <1>5, <3>1, <3>2
  <2> QED
    BY <1>3, <2>1 DEF OrdenFiel
<1>9. Ordenados'
  BY <1>2, <1>3, <1>5 DEF Ordenados, Antes
<1>10. solapes = 0 /\ i = 1
  <2>1. solapes = 0
    BY <1>3 DEF IInv, Motivo, TypeOK
  <2> QED
    BY <1>3, <2>1 DEF IInv, Final
<1>11. ViajeFiel' /\ Comparados' /\ Motivo' /\ Final'
  BY <1>3, <1>10 DEF ViajeFiel, Comparados, Motivo, Final
<1> QED
  BY <1>1, <1>7, <1>8, <1>9, <1>11 DEF IInv

(* The time a trip is compared with is not before its start. *)
LEMMA LimiteTipo ==
  ASSUME TypeOK, NEW k \in 1 .. Len(tr)
  PROVE  /\ tr[k].horainicio \in Int /\ tr[k].minutos \in Nat /\ Limite(tr[k]) \in Int
         /\ tr[k].horainicio <= Limite(tr[k])
<1>1. tr[k] \in Trips
  <2>1. tr \in Seq(Trips)
    BY DEF TypeOK, Trips
  <2> QED
    BY <2>1
<1>2. tr[k].horainicio \in Int /\ tr[k].minutos \in Nat
  BY <1>1, TiemposEnteros, MinutosAssumption DEF Trips
<1> QED
  BY <1>2 DEF Limite

LEMMA ValidarIInv == ASSUME IInv, Validar PROVE IInv'
<1>1. TypeOK'
  BY PasoTipos DEF IInv, Next
<1>2. /\ TypeOK /\ pc = "valida" /\ i \in 1 .. t /\ i' = i + 1 /\ t \in Nat /\ Len(tr) = t
      /\ solapes \in Nat /\ solapes' = IF Solapa(i) THEN solapes + 1 ELSE solapes
      /\ UNCHANGED <<programa, t, archivo, salto, pc, viaje, tr, orden>>
  BY DEF IInv, TypeOK, Validar
<1>3. \A x : Limite(x)' = Limite(x)
  BY <1>2 DEF Limite
<1>4. Comparados'
  <2> SUFFICES ASSUME solapes' = 0, NEW a \in 2 .. i, NEW b \in 2 .. i, a < b,
                      \A k \in a .. b : tr[k].idvehi = tr[a].idvehi
               PROVE  Limite(tr[a]) <= tr[b].horainicio
    BY <1>2, <1>3 DEF Comparados
  <2>1. solapes = 0 /\ ~Solapa(i)
    BY <1>2
  <2>2. CASE b < i
    BY <1>2, <2>1, <2>2 DEF IInv, Comparados
  <2>3. CASE b = i
    <3>1. /\ i - 1 \in 1 .. Len(tr) /\ i \in 1 .. Len(tr) /\ a \in 1 .. Len(tr)
          /\ i > 2 /\ i - 1 \in a .. b
      BY <1>2, <2>3
    <3>2. tr[i].idvehi = tr[i - 1].idvehi
      BY <1>2, <2>3, <3>1
    <3>3. ~(tr[i].horainicio < Limite(tr[i - 1]))
      BY <2>1, <3>1, <3>2 DEF Solapa
    <3>4. Limite(tr[i - 1]) <= tr[i].horainicio
      BY <1>2, <3>1, <3>3, LimiteTipo
    <3>5. CASE a = i - 1
      BY <2>3, <3>4, <3>5
    <3>6. CASE a < i - 1
      <4>1. Limite(tr[a]) <= tr[i - 1].horainicio
        <5>1. \A k \in a .. i - 1 : tr[k].idvehi = tr[a].idvehi
          BY <1>2, <2>3
        <5>2. a \in 2 .. i - 1 /\ i - 1 \in 2 .. i - 1
          BY <1>2, <3>1, <3>6
        <5> QED
          BY <1>2, <2>1, <3>6, <5>1, <5>2 DEF IInv, Comparados
      <4>2. tr[i - 1].horainicio <= Limite(tr[i - 1])
        BY <1>2, <3>1, LimiteTipo
      <4>3. /\ Limite(tr[a]) \in Int /\ tr[i - 1].horainicio \in Int
            /\ Limite(tr[i - 1]) \in Int /\ tr[i].horainicio \in Int
        BY <1>2, <3>1, LimiteTipo
      <4> QED
        BY <2>3, <3>4, <4>1, <4>2, <4>3
    <3> QED
      BY <1>2, <2>3, <3>5, <3>6
  <2> QED
    BY <1>2, <2>2, <2>3
<1>5. Motivo'
  <2>1. CASE Solapa(i)
    <3>1. i \in 3 .. t
      BY <1>2, <2>1 DEF Solapa
    <3>2. PICK k \in 3 .. t : Solapa(k)
      BY <2>1, <3>1
    <3>3. Solapa(k)'
      BY <1>2, <1>3, <3>2 DEF Solapa
    <3> QED
      BY <1>2, <3>2, <3>3 DEF Motivo
  <2>2. CASE ~Solapa(i)
    BY <1>2, <1>3, <2>2 DEF IInv, Motivo, Solapa
  <2> QED
    BY <2>1, <2>2
<1>6. TrFiel' /\ OrdenFiel' /\ Ordenados' /\ ViajeFiel' /\ Final'
  <2>1. TrFiel'
    BY <1>2 DEF IInv, TrFiel, TripFiel, Texto, VehiculoDe, MinutosDe
  <2>2. OrdenFiel'
    BY <1>2 DEF IInv, OrdenFiel, EnOrdenDeLectura
  <2>3. Ordenados'
    BY <1>2 DEF IInv, Ordenados, Antes
  <2> QED
    BY <1>2, <2>1, <2>2, <2>3 DEF ViajeFiel, Final
<1> QED
  BY <1>1, <1>4, <1>5, <1>6 DEF IInv

LEMMA FinValidacionIInv == ASSUME IInv, FinValidacion PROVE IInv'
<1>1. TypeOK'
  BY PasoTipos DEF IInv, Next
<1>2. /\ pc = "valida" /\ pc' = "fin" /\ i = t + 1
      /\ UNCHANGED <<programa, t, archivo, salto, i, viaje, tr, orden, solapes>>
  BY DEF IInv, TypeOK, FinValidacion
<1>3. TrFiel'
  BY <1>2 DEF IInv, TrFiel, TripFiel, Texto, VehiculoDe, MinutosDe
<1>4. OrdenFiel'
  BY <1>2 DEF IInv, OrdenFiel, EnOrdenDeLectura
<1>5. Ordenados' /\ Comparados' /\ Motivo'
  BY <1>2 DEF IInv, Ordenados, Antes, Comparados, Limite, Motivo, Solapa
<1> QED
  BY <1>1, <1>2, <1>3, <1>4, <1>5 DEF IInv, ViajeFiel, Final

LEMMA PasoIInv == IInv /\ [Next]_vars => IInv'
<1> SUFFICES ASSUME IInv, [Next]_vars PROVE IInv'
  OBVIOUS
<1>1. CASE UNCHANGED vars
  BY <1>1 DEF vars, IInv, TypeOK, ViajeFiel, TrFiel, TripFiel, OrdenFiel, EnOrdenDeLectura,
              Ordenados, Antes, Comparados, Motivo, Final, Texto, VehiculoDe, MinutosDe,
              Solapa, Limite
<1> QED
  BY <1>1, LeerLineaIInv, LineaQueFaltaIInv, FinLecturaIInv, OrdenarIInv, ValidarIInv,
     FinValidacionIInv DEF Next

(* What was read, sorted and compared is so in every state                 *)
(* (SRP_InstanceOutput.cpp:29-105, old/checker_output.cpp:231-284).        *)
THEOREM Invariante == Spec => []IInv
<1>1. Init => IInv
  BY InitIInv
<1>2. IInv /\ [Next]_vars => IInv'
  BY PasoIInv
<1> QED
  BY <1>1, <1>2, PTL DEF Spec

-----------------------------------------------------------------------------
(* What an answer of the checkers says of the file                         *)

(* A trip read from a whole line *)
LEMMA TripDeLinea ==
  ASSUME IInv, NEW k \in 1 .. Len(tr), orden[k] \in DOMAIN archivo
  PROVE  /\ tr[k].horainicio <= archivo[orden[k]].traslado_ts
         /\ archivo[orden[k]].traslado_ts - 60 <= tr[k].horainicio
         /\ tr[k].idvehi = archivo[orden[k]].idvehi
         /\ tr[k].minutos = archivo[orden[k]].minutos
         /\ archivo[orden[k]].traslado_ts \in Int /\ archivo[orden[k]].minutos \in Nat
<1>1. archivo \in Seq(Lineas) /\ TypeOK
  BY DEF IInv, TypeOK
<1>2. archivo # <<>> /\ orden[k] \in Nat \ {0} /\ orden[k] <= Len(archivo)
  BY <1>1
<1>3. Texto(orden[k]) = archivo[orden[k]]
  BY <1>2 DEF Texto
<1>4. TripFiel(k)
  BY <1>2 DEF IInv, TrFiel
<1>5. Texto(orden[k]).traslado_ts \in Int /\ Texto(orden[k]).minutos \in Nat
  BY <1>1, <1>2, TextoTipo
<1>6. ~(orden[k] > Len(archivo))
  BY <1>1, <1>2
<1> QED
  BY <1>3, <1>4, <1>5, <1>6 DEF TripFiel, VehiculoDe, MinutosDe

(* An OK of the checker means that no vehicle goes back in time along      *)
(* consecutive lines (SRPlanner_checker.cpp:20-21).                        *)
THEOREM OKEsSinRetrocesos == Spec => []OKSinRetrocesos
<1>1. ASSUME IInv, programa = "verificador", pc = "fin", solapes = 0,
             NEW a \in 2 .. Len(archivo), NEW b \in 2 .. Len(archivo), a < b,
             \A k \in a .. b : archivo[k].idvehi = archivo[a].idvehi
      PROVE  archivo[a].traslado_ts - 60 <= archivo[b].traslado_ts
  <2>1. /\ i = t + 1 /\ Len(tr) = t /\ Len(archivo) <= t /\ t \in Nat /\ Len(archivo) \in Nat
        /\ DOMAIN archivo = 1 .. Len(archivo) /\ TypeOK
    BY <1>1 DEF IInv, TypeOK, Final
  <2>2. ASSUME NEW k \in a .. b
        PROVE  k \in 1 .. Len(tr) /\ orden[k] = k /\ orden[k] \in DOMAIN archivo
    <3>1. k \in 1 .. Len(tr) /\ k \in DOMAIN archivo
      BY <2>1
    <3> QED
      BY <1>1, <3>1 DEF IInv, OrdenFiel, EnOrdenDeLectura
  <2>3. ASSUME NEW k \in a .. b PROVE tr[k].idvehi = tr[a].idvehi
    <3>1. a \in a .. b
      BY <1>1
    <3>2. tr[k].idvehi = archivo[k].idvehi /\ tr[a].idvehi = archivo[a].idvehi
      BY <1>1, <2>2, <3>1, TripDeLinea
    <3> QED
      BY <1>1, <3>2
  <2>4. Limite(tr[a]) <= tr[b].horainicio
    <3>1. a \in 2 .. i - 1 /\ b \in 2 .. i - 1
      BY <2>1
    <3> QED
      BY <1>1, <2>3, <3>1 DEF IInv, Comparados
  <2>5. a \in a .. b /\ b \in a .. b
    BY <1>1
  <2>6. archivo[a].traslado_ts - 60 <= tr[a].horainicio /\ archivo[a].traslado_ts \in Int
    BY <1>1, <2>2, <2>5, TripDeLinea
  <2>7. tr[b].horainicio <= archivo[b].traslado_ts /\ archivo[b].traslado_ts \in Int
    BY <1>1, <2>2, <2>5, TripDeLinea
  <2>8. tr[a].horainicio <= Limite(tr[a]) /\ tr[a].horainicio \in Int /\ Limite(tr[a]) \in Int
    BY <2>1, <2>2, <2>5, LimiteTipo
  <2>9. tr[b].horainicio \in Int
    BY <2>1, <2>2, <2>5, LimiteTipo
  <2> QED
    BY <2>4, <2>6, <2>7, <2>8, <2>9
<1>2. IInv => OKSinRetrocesos
  BY <1>1 DEF OKSinRetrocesos
<1> QED
  BY <1>2, Invariante, PTL

(* Sorted trips of one vehicle have only trips of that vehicle in between. *)
LEMMA VehiculoContiguo ==
  ASSUME IInv, programa = "antiguo", pc = "fin",
         NEW j \in 1 .. t, NEW k \in 1 .. t, j < k, tr[j].idvehi = tr[k].idvehi,
         NEW q \in j .. k
  PROVE  tr[q].idvehi = tr[j].idvehi
<1>1. t \in Nat /\ Len(tr) = t /\ tr \in Seq(Trips)
  BY DEF IInv, TypeOK, Trips
<1>2. q \in 1 .. t /\ j <= q /\ q <= k
  BY <1>1
<1>3. ASSUME NEW x \in 1 .. t PROVE tr[x].idvehi \in Vehiculos \cup {SinTexto}
  <2>1. tr[x] \in Trips
    BY <1>1
  <2> QED
    BY <2>1 DEF Trips
<1>4. ASSUME NEW x \in 1 .. t, NEW y \in 1 .. t, x <= y
      PROVE  /\ Alfabeto[tr[x].idvehi] <= Alfabeto[tr[y].idvehi]
             /\ Alfabeto[tr[x].idvehi] \in Nat /\ Alfabeto[tr[y].idvehi] \in Nat
  <2>1. Alfabeto[tr[x].idvehi] \in Nat /\ Alfabeto[tr[y].idvehi] \in Nat
    BY <1>3, AlfabetoAssumption
  <2>2. CASE x = y
    BY <2>1, <2>2
  <2>3. CASE x < y
    <3>1. ~Antes(tr[y], tr[x])
      BY <2>3 DEF IInv, Ordenados
    <3> QED
      BY <2>1, <3>1 DEF Antes
  <2> QED
    BY <1>4, <2>2, <2>3
<1>5. /\ Alfabeto[tr[j].idvehi] <= Alfabeto[tr[q].idvehi]
      /\ Alfabeto[tr[q].idvehi] <= Alfabeto[tr[k].idvehi]
      /\ Alfabeto[tr[q].idvehi] \in Nat /\ Alfabeto[tr[j].idvehi] \in Nat
  BY <1>2, <1>4
<1>6. Alfabeto[tr[q].idvehi] = Alfabeto[tr[j].idvehi]
  BY <1>5
<1> QED
  BY <1>2, <1>3, <1>6, AlfabetoAssumption

LEMMA NoSolapan ==
  ASSUME IInv, programa = "antiguo", pc = "fin", solapes = 0,
         NEW j \in 2 .. t, NEW k \in 2 .. t, j < k, tr[j].idvehi = tr[k].idvehi
  PROVE  tr[j].horainicio + tr[j].minutos <= tr[k].horainicio
<1>1. i = t + 1 /\ t \in Nat
  BY DEF IInv, TypeOK, Final
<1>2. j \in 1 .. t /\ k \in 1 .. t /\ j \in 2 .. i - 1 /\ k \in 2 .. i - 1
  BY <1>1
<1>3. \A q \in j .. k : tr[q].idvehi = tr[j].idvehi
  BY <1>2, VehiculoContiguo
<1>4. Limite(tr[j]) <= tr[k].horainicio
  BY <1>2, <1>3 DEF IInv, Comparados
<1> QED
  BY <1>4 DEF Limite

(* If the older checker counts no overlap, no two trips of one vehicle     *)
(* share more than an hour, but for the one that sorts first               *)
(* (old/checker_output.cpp:272-284).                                       *)
THEOREM OKEsSinSolapes == Spec => []OKSinSolapes
<1>1. ASSUME IInv, programa = "antiguo", pc = "fin", solapes = 0,
             NEW a \in DOMAIN archivo, NEW b \in DOMAIN archivo,
             a # b, orden[1] \notin {a, b}, archivo[a].idvehi = archivo[b].idvehi
      PROVE  \/ archivo[a].traslado_ts + archivo[a].minutos - 60 <= archivo[b].traslado_ts
             \/ archivo[b].traslado_ts + archivo[b].minutos - 60 <= archivo[a].traslado_ts
  <2>1. /\ t \in Nat /\ Len(tr) = t /\ TypeOK
        /\ a \in 1 .. t /\ b \in 1 .. t
    BY <1>1 DEF IInv, TypeOK
  <2>2. PICK j \in 1 .. t : orden[j] = a
    BY <1>1, <2>1 DEF IInv, OrdenFiel
  <2>3. PICK k \in 1 .. t : orden[k] = b
    BY <1>1, <2>1 DEF IInv, OrdenFiel
  <2>4. j \in 2 .. t /\ k \in 2 .. t /\ j # k
    BY <1>1, <2>1, <2>2, <2>3
  <2>5. /\ tr[j].horainicio <= archivo[a].traslado_ts
        /\ archivo[a].traslado_ts - 60 <= tr[j].horainicio
        /\ tr[j].idvehi = archivo[a].idvehi /\ tr[j].minutos = archivo[a].minutos
        /\ archivo[a].traslado_ts \in Int /\ archivo[a].minutos \in Nat
    BY <1>1, <2>1, <2>2, TripDeLinea
  <2>6. /\ tr[k].horainicio <= archivo[b].traslado_ts
        /\ archivo[b].traslado_ts - 60 <= tr[k].horainicio
        /\ tr[k].idvehi = archivo[b].idvehi /\ tr[k].minutos = archivo[b].minutos
        /\ archivo[b].traslado_ts \in Int /\ archivo[b].minutos \in Nat
    BY <1>1, <2>1, <2>3, TripDeLinea
  <2>7. tr[j].horainicio \in Int /\ tr[k].horainicio \in Int
    BY <2>1, LimiteTipo
  <2>8. CASE j < k
    <3>1. tr[j].horainicio + tr[j].minutos <= tr[k].horainicio
      BY <1>1, <2>4, <2>5, <2>6, <2>8, NoSolapan
    <3> QED
      BY <2>5, <2>6, <2>7, <3>1
  <2>9. CASE k < j
    <3>1. tr[k].horainicio + tr[k].minutos <= tr[j].horainicio
      BY <1>1, <2>4, <2>5, <2>6, <2>9, NoSolapan
    <3> QED
      BY <2>5, <2>6, <2>7, <3>1
  <2> QED
    BY <2>4, <2>8, <2>9
<1>2. IInv => OKSinSolapes
  BY <1>1 DEF OKSinSolapes
<1> QED
  BY <1>2, Invariante, PTL

(* The checkers report nothing without a reason in the file                *)
(* (SRP_InstanceOutput.cpp:97-98, old/checker_output.cpp:279-280).         *)
THEOREM ErrorSiempreConMotivo == Spec => []ErrorConMotivo
<1>1. ASSUME IInv, solapes > 0, archivo # <<>>
      PROVE  \E k \in 3 .. t : LET x == Texto(orden[k]) y == Texto(orden[k - 1]) IN
               /\ x.idvehi = y.idvehi \/ orden[k] > Len(archivo) \/ orden[k - 1] > Len(archivo)
               /\ x.traslado_ts - 60 <
                    y.traslado_ts + (IF programa = "verificador" THEN 0
                                     ELSE IF orden[k - 1] > Len(archivo) /\ salto
                                          THEN MinutosServiu
                                     ELSE y.minutos)
  <2>1. PICK k \in 3 .. t : Solapa(k)
    BY <1>1 DEF IInv, Motivo
  <2>2. t \in Nat /\ Len(tr) = t /\ Len(orden) = t /\ orden \in Seq(1 .. t) /\ TypeOK
    BY <1>1 DEF IInv, TypeOK, Motivo
  <2>3. k \in 1 .. Len(tr) /\ k - 1 \in 1 .. Len(tr)
    BY <2>2
  <2>4. TripFiel(k) /\ TripFiel(k - 1)
    BY <1>1, <2>3 DEF IInv, TrFiel
  <2>5. orden[k] \in Nat \ {0} /\ orden[k - 1] \in Nat \ {0}
    <3>1. ASSUME NEW S, NEW s \in Seq(S), NEW j \in 1 .. Len(s) PROVE s[j] \in S
      OBVIOUS
    <3>2. orden[k] \in 1 .. t /\ orden[k - 1] \in 1 .. t
      BY <2>2, <2>3, <3>1
    <3> QED
      BY <2>2, <3>2
  <2> DEFINE x == Texto(orden[k])
             y == Texto(orden[k - 1])
  <2>6. /\ x.traslado_ts \in Int /\ y.traslado_ts \in Int
        /\ y.minutos \in Nat /\ MinutosServiu \in Nat
    BY <1>1, <2>2, <2>5, TextoTipo, MinutosAssumption
  <2>7. /\ tr[k].horainicio \in {x.traslado_ts, x.traslado_ts - 60}
        /\ tr[k - 1].horainicio \in {y.traslado_ts, y.traslado_ts - 60}
        /\ tr[k].idvehi = VehiculoDe(orden[k]) /\ tr[k - 1].idvehi = VehiculoDe(orden[k - 1])
        /\ tr[k - 1].minutos = MinutosDe(orden[k - 1])
    BY <2>4 DEF TripFiel
  <2>8. tr[k].idvehi = tr[k - 1].idvehi /\ tr[k].horainicio < Limite(tr[k - 1])
    BY <2>1 DEF Solapa
  <2>9. x.idvehi = y.idvehi \/ orden[k] > Len(archivo) \/ orden[k - 1] > Len(archivo)
    BY <2>7, <2>8 DEF VehiculoDe
  <2>10. CASE programa = "verificador"
    <3>1. Limite(tr[k - 1]) = tr[k - 1].horainicio
      BY <2>10 DEF Limite
    <3>2. x.traslado_ts - 60 < y.traslado_ts + 0
      <4> HIDE DEF x, y
      <4> QED
        BY <2>6, <2>7, <2>8, <3>1
    <3> QED
      BY <2>9, <2>10, <3>2
  <2>11. CASE programa = "antiguo"
    <3>1. Limite(tr[k - 1]) = tr[k - 1].horainicio + MinutosDe(orden[k - 1])
      BY <2>7, <2>11 DEF Limite
    <3>2. /\ MinutosDe(orden[k - 1]) =
               IF orden[k - 1] > Len(archivo) /\ salto THEN MinutosServiu ELSE y.minutos
          /\ MinutosDe(orden[k - 1]) \in Nat
      BY <2>6, <2>11 DEF MinutosDe
    <3>3. x.traslado_ts - 60 < y.traslado_ts + MinutosDe(orden[k - 1])
      <4> DEFINE w == MinutosDe(orden[k - 1])
      <4>1. w \in Nat /\ tr[k].horainicio < tr[k - 1].horainicio + w
        BY <2>8, <3>1, <3>2
      <4>2. x.traslado_ts - 60 <= tr[k].horainicio /\ tr[k].horainicio \in Int
        BY <2>6, <2>7
      <4>3. tr[k - 1].horainicio <= y.traslado_ts /\ tr[k - 1].horainicio \in Int
        BY <2>6, <2>7
      <4> HIDE DEF x, y, w
      <4>4. x.traslado_ts - 60 < y.traslado_ts + w
        BY <2>6, <4>1, <4>2, <4>3
      <4> QED
        BY <4>4 DEF w
    <3>4. programa # "verificador"
      BY <2>11
    <3> QED
      BY <2>9, <3>2, <3>3, <3>4
  <2> QED
    BY <1>1, <2>10, <2>11 DEF IInv, TypeOK
<1>2. IInv => ErrorConMotivo
  BY <1>1 DEF ErrorConMotivo
<1> QED
  BY <1>2, Invariante, PTL

=============================================================================
