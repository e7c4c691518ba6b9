---------------------------- MODULE Lector_proof ----------------------------
(***************************************************************************)
(* Proofs about the reader of instances, for every file and every place at *)
(* which it may be cut.                                                    *)
(***************************************************************************)
EXTENDS Lector, FiniteSetTheorems, TLAPS

(* What a read of the line leaves in a variable is a field of the file. *)
LEMMA CampoTipo ==
  ASSUME NEW x \in Seq(Fichas), NEW c \in Nat \ {0}, NEW antes \in Fichas
  PROVE  Campo(x, c, antes) \in Fichas
  BY DEF Campo

LEMMA LeidoTipo ==
  ASSUME NEW x \in Seq(Fichas), NEW primero \in Nat \ {0}, NEW c \in Nat \ {0},
         NEW paso \in {1, 2}, NEW basura \in Fichas
  PROVE  Leido(x, primero, c, paso, basura) \in Fichas
<1>1. CASE c <= Len(x)
  BY <1>1 DEF Leido
<1>2. CASE ~(c <= Len(x)) /\ Len(x) < primero
  BY <1>2 DEF Leido
<1>3. CASE ~(c <= Len(x)) /\ ~(Len(x) < primero)
  <2> DEFINE r == (Len(x) - primero) % paso
  <2>1. r \in 0 .. 1 /\ r <= Len(x) - primero
    BY <1>3
  <2>2. Len(x) - r \in 1 .. Len(x)
    BY <2>1, <1>3
  <2> HIDE DEF r
  <2>3. x[Len(x) - r] \in Fichas
    BY <2>2
  <2> QED
    BY <1>3, <2>3 DEF Leido, r
<1> QED
  BY <1>1, <1>2, <1>3

LEMMA BitsTipo ==
  ASSUME NEW x, NEW primero, NEW c, NEW w, NEW basura
  PROVE  Bits(x, primero, c, w, basura) \in SUBSET (0 .. w - 1)
  BY DEF Bits

LEMMA FichasBasicas == 0 \in Fichas /\ SinTexto \in Fichas /\ Basura \subseteq Fichas
  BY TextosAssumption DEF Fichas

(* A line of the file gives a row of the type of its section. *)
LEMMA FilaVehiculoTipo ==
  ASSUME NEW x \in Seq(Fichas)
  PROVE  FilaVehiculo(x) \in FilasVehiculo
  BY CampoTipo, FichasBasicas DEF FilaVehiculo, FilasVehiculo

LEMMA FilasTipo ==
  ASSUME NEW x \in Seq(Fichas), NEW aux \in Basura, NEW otra \in Basura
  PROVE  /\ FilaPersona(x, aux) \in FilasPersona
         /\ FilaUbicacion(x, aux, otra) \in FilasUbicacion
         /\ FilaVisita(x, aux) \in FilasVisita
<1>1. FilaPersona(x, aux) \in FilasPersona
  BY CampoTipo, BitsTipo, FichasBasicas DEF FilaPersona, FilasPersona
<1>3. FilaUbicacion(x, aux, otra) \in FilasUbicacion
  <2>1. \A j \in 0 .. k - 1 :
          /\ Leido(x, 2, 2 + 2 * j, 2, aux) \in Fichas
          /\ Leido(x, 3, 3 + 2 * j, 2, otra) \in Fichas
    <3> TAKE j \in 0 .. k - 1
    <3>1. 2 + 2 * j \in Nat \ {0} /\ 3 + 2 * j \in Nat \ {0}
      BY CuentasAssumption
    <3> QED
      BY <3>1, LeidoTipo, FichasBasicas
  <2>2. Campo(x, 1, SinTexto) \in Fichas
    BY CampoTipo, FichasBasicas
  <2> QED
    BY <2>1, <2>2 DEF FilaUbicacion, FilasUbicacion
<1>4. FilaVisita(x, aux) \in FilasVisita
  <2>1. 5 + n + m \in Nat \ {0} /\ 6 + n + m \in Nat \ {0} /\ 7 + n + m \in Nat \ {0}
    BY CuentasAssumption
  <2>2. /\ Campo(x, 5 + n + m, 0) \in Fichas
        /\ Campo(x, 6 + n + m, 0) \in Fichas
        /\ Campo(x, 7 + n + m, 0) \in Fichas
    BY <2>1, CampoTipo, FichasBasicas
  <2>3. /\ Campo(x, 1, SinTexto) \in Fichas /\ Campo(x, 2, SinTexto) \in Fichas
        /\ Campo(x, 3, SinTexto) \in Fichas /\ Campo(x, 4, SinTexto) \in Fichas
    BY CampoTipo, FichasBasicas
  <2> QED
    BY <2>2, <2>3, BitsTipo DEF FilaVisita, FilasVisita
<1> QED
  BY <1>1, <1>3, <1>4

LEMMA TiempoTipo ==
  ASSUME NEW texto, NEW t \in obtenerTime(texto) PROVE t \in Int
<1>1. CASE texto \in DOMAIN Hora
  <2>1. Hora[texto] \in Int
    BY <1>1, TextosAssumption
  <2>2. t = Hora[texto] \/ t = Hora[texto] - 60
    BY <1>1 DEF obtenerTime
  <2> QED
    BY <2>1, <2>2
<1>2. CASE texto \notin DOMAIN Hora
  BY <1>2, TextosAssumption DEF obtenerTime
<1> QED
  BY <1>1, <1>2

LEMMA ConTipo ==
  ASSUME NEW mapa, EsMapa(mapa), NEW id, NEW i \in Nat
  PROVE  EsMapa(Con(mapa, id, i))
  BY DEF EsMapa, Con

LEMMA InsertarTipo ==
  ASSUME NEW mapa, EsMapa(mapa), NEW id
  PROVE  EsMapa(Insertar(mapa, id))
  BY ConTipo DEF Insertar

(* The line the constructor reads is made of fields of the file. *)
LEMMA LineaTipo ==
  ASSUME TypeOK, LeerLinea
  PROVE  linea' \in Seq(Fichas)
<1>1. leidas \in Nat
  BY DEF TypeOK, leidas
<1>2. leidas < Len(archivo) => archivo[leidas + 1] \in Seq(Fichas)
  BY <1>1 DEF TypeOK
<1> QED
  BY <1>2 DEF LeerLinea, TypeOK

-----------------------------------------------------------------------------
(* Types                                                                   *)

LEMMA ClavesDeMapas ==
  ASSUME TypeOK, NEW t \in DOMAIN mapas, NEW id, NEW i \in Nat,
         NEW nuevo, nuevo = Con(mapas[t], id, i) \/ nuevo = Insertar(mapas[t], id),
         mapas' = [mapas EXCEPT ![t] = nuevo]
  PROVE  /\ DOMAIN mapas' = DOMAIN mapas
         /\ \A u \in DOMAIN mapas' : EsMapa(mapas'[u])
<1>1. EsMapa(mapas[t])
  BY DEF TypeOK
<1>2. EsMapa(nuevo)
  BY <1>1, ConTipo, InsertarTipo
<1>3. \A u \in DOMAIN mapas : mapas'[u] = IF u = t THEN nuevo ELSE mapas[u]
  OBVIOUS
<1>4. DOMAIN mapas' = DOMAIN mapas
  OBVIOUS
<1> QED
  BY <1>2, <1>3, <1>4 DEF TypeOK

LEMMA TypeOKInit == Init => TypeOK
<1> SUFFICES ASSUME Init PROVE TypeOK
  OBVIOUS
<1>1. EsArchivo(entero)
  BY ArchivosAssumption DEF Init
<1>2. archivo \in Seq(Seq(Fichas)) /\ Len(archivo) <= LineasDelArchivo
  <2>0. LineasDelArchivo \in Nat
    BY CuentasAssumption DEF LineasDelArchivo
  <2>1. CASE archivo = <<>>
    BY <2>0, <2>1
  <2>2. CASE archivo # <<>>
    <3>1. PICK r \in 1 .. LineasDelArchivo : \E q \in 1 .. r : \E c \in 1 .. Len(entero[q]) :
             archivo = Escrito(entero, r, q, c)
      BY <2>2 DEF Init
    <3>2. PICK q \in 1 .. r : \E c \in 1 .. Len(entero[q]) : archivo = Escrito(entero, r, q, c)
      BY <3>1
    <3>3. PICK c \in 1 .. Len(entero[q]) : archivo = Escrito(entero, r, q, c)
      BY <3>2
    <3>4. \A x \in 1 .. r : entero[x] \in Seq(Fichas)
      BY <1>1, <2>0 DEF EsArchivo
    <3>5. SubSeq(entero[q], 1, c) \in Seq(Fichas)
      BY <3>4
    <3>6. archivo \in [1 .. r -> Seq(Fichas)]
      BY <3>3, <3>4, <3>5 DEF Escrito
    <3>7. archivo \in Seq(Seq(Fichas)) /\ Len(archivo) = r
      BY <3>6, <2>0
    <3> QED
      BY <3>7, <2>0
  <2> QED
    BY <2>1, <2>2
<1>3. linea \in Seq(Fichas)
  BY CuentasAssumption DEF Init, Fichas
<1>4. \A t \in DOMAIN mapas : mapas[t] = MapaVacio
  BY DEF Init
<1>5. EsMapa(MapaVacio)
  BY DEF EsMapa, MapaVacio
<1>6. DOMAIN mapas = {"personas", "vehiculos", "ubicaciones", "bloquesh", "visitas"}
  BY DEF Init
<1>7. auxstring \in Fichas
  BY FichasBasicas DEF Init
<1>8. /\ personas \in Seq(FilasPersona) /\ Len(personas) <= n
      /\ vehiculos \in Seq(FilasVehiculo) /\ Len(vehiculos) <= m
      /\ ubicaciones \in Seq(FilasUbicacion) /\ Len(ubicaciones) <= k
      /\ bloques \in Seq(FilasBloque) /\ Len(bloques) <= h
      /\ visitas \in Seq(FilasVisita) /\ Len(visitas) <= l
  BY CuentasAssumption DEF Init
<1> QED
  BY <1>2, <1>3, <1>4, <1>5, <1>6, <1>7, <1>8 DEF TypeOK, Init

LEMMA TypeOKPaso == TypeOK /\ [Next]_vars => TypeOK'
<1> SUFFICES ASSUME TypeOK, [Next]_vars PROVE TypeOK'
  OBVIOUS
<1>1. CASE LeerPersona
  <2>1. linea' \in Seq(Fichas)
    BY <1>1, LineaTipo DEF LeerPersona
  <2>2. PICK aux \in Basura : personas' = Append(personas, FilaPersona(linea', aux))
    BY <1>1 DEF LeerPersona
  <2>3. FilaPersona(linea', aux) \in FilasPersona
    BY <2>1, FilasTipo
  <2>4. personas' \in Seq(FilasPersona) /\ Len(personas') <= n
    BY <1>1, <2>2, <2>3, CuentasAssumption DEF LeerPersona, TypeOK
  <2>5. "personas" \in DOMAIN mapas /\ Len(personas) \in Nat
    BY DEF TypeOK
  <2>6. /\ DOMAIN mapas' = DOMAIN mapas
        /\ \A u \in DOMAIN mapas' : EsMapa(mapas'[u])
    BY <1>1, <2>5, ClavesDeMapas DEF LeerPersona
  <2> QED
    BY <1>1, <2>1, <2>4, <2>6 DEF LeerPersona, LeerLinea, TypeOK
<1>2. CASE LeerVehiculo
  <2>1. linea' \in Seq(Fichas)
    BY <1>2, LineaTipo DEF LeerVehiculo
  <2>2. vehiculos' = Append(vehiculos, FilaVehiculo(linea'))
    BY <1>2 DEF LeerVehiculo
  <2>3. FilaVehiculo(linea') \in FilasVehiculo
    BY <2>1, FilaVehiculoTipo
  <2>4. vehiculos' \in Seq(FilasVehiculo) /\ Len(vehiculos') <= m
    BY <1>2, <2>2, <2>3, CuentasAssumption DEF LeerVehiculo, TypeOK
  <2>5. "vehiculos" \in DOMAIN mapas /\ Len(vehiculos) \in Nat
    BY DEF TypeOK
  <2>6. /\ DOMAIN mapas' = DOMAIN mapas
        /\ \A u \in DOMAIN mapas' : EsMapa(mapas'[u])
    BY <1>2, <2>5, ClavesDeMapas DEF LeerVehiculo
  <2> QED
    BY <1>2, <2>1, <2>4, <2>6 DEF LeerVehiculo, LeerLinea, TypeOK
<1>3. CASE LeerUbicacion
  <2>1. linea' \in Seq(Fichas)
    BY <1>3, LineaTipo DEF LeerUbicacion
  <2>2. PICK auxdist, auxtime \in Basura :
          ubicaciones' = Append(ubicaciones, FilaUbicacion(linea', auxdist, auxtime))
    BY <1>3 DEF LeerUbicacion
  <2>3. FilaUbicacion(linea', auxdist, auxtime) \in FilasUbicacion
    BY <2>1, FilasTipo
  <2>4. ubicaciones' \in Seq(FilasUbicacion) /\ Len(ubicaciones') <= k
    BY <1>3, <2>2, <2>3, CuentasAssumption DEF LeerUbicacion, TypeOK
  <2>5. "ubicaciones" \in DOMAIN mapas /\ Len(ubicaciones) \in Nat
    BY DEF TypeOK
  <2>6. /\ DOMAIN mapas' = DOMAIN mapas
        /\ \A u \in DOMAIN mapas' : EsMapa(mapas'[u])
    BY <1>3, <2>5, ClavesDeMapas DEF LeerUbicacion
  <2> QED
    BY <1>3, <2>1, <2>4, <2>6 DEF LeerUbicacion, LeerLinea, TypeOK
<1>4. CASE LeerBloque
  <2>1. linea' \in Seq(Fichas)
    BY <1>4, LineaTipo DEF LeerBloque
  <2>2. PICK t \in obtenerTime(auxstring') :
          bloques' = Append(bloques, [id |-> Campo(linea', 1, SinTexto), timestamp |-> t])
    BY <1>4 DEF LeerBloque
  <2>3. [id |-> Campo(linea', 1, SinTexto), timestamp |-> t] \in FilasBloque
    BY <2>1, CampoTipo, TiempoTipo, FichasBasicas DEF FilasBloque
  <2>7. auxstring' \in Fichas
    <3>1. auxstring \in Fichas
      BY DEF TypeOK
    <3>2. auxstring' = Campo(linea', 2, auxstring)
      BY <1>4 DEF LeerBloque
    <3> QED
      BY <2>1, <3>1, <3>2, CampoTipo
  <2>4. bloques' \in Seq(FilasBloque) /\ Len(bloques') <= h
    BY <1>4, <2>2, <2>3, CuentasAssumption DEF LeerBloque, TypeOK
  <2>5. "bloquesh" \in DOMAIN mapas /\ Len(bloques) \in Nat
    BY DEF TypeOK
  <2>6. /\ DOMAIN mapas' = DOMAIN mapas
        /\ \A u \in DOMAIN mapas' : EsMapa(mapas'[u])
    BY <1>4, <2>5, ClavesDeMapas DEF LeerBloque
  <2> QED
    BY <1>4, <2>1, <2>4, <2>6, <2>7 DEF LeerBloque, LeerLinea, TypeOK
<1>5. CASE LeerVisita
  <2>1. linea' \in Seq(Fichas)
    BY <1>5, LineaTipo DEF LeerVisita
  <2>2. PICK aux \in Basura : visitas' = Append(visitas, FilaVisita(linea', aux))
    BY <1>5 DEF LeerVisita
  <2>3. FilaVisita(linea', aux) \in FilasVisita
    BY <2>1, FilasTipo
  <2>4. visitas' \in Seq(FilasVisita) /\ Len(visitas') <= l
    BY <1>5, <2>2, <2>3, CuentasAssumption DEF LeerVisita, TypeOK
  <2>5. "visitas" \in DOMAIN mapas /\ Len(visitas) \in Nat
    BY DEF TypeOK
  <2>6. /\ DOMAIN mapas' = DOMAIN mapas
        /\ \A u \in DOMAIN mapas' : EsMapa(mapas'[u])
    BY <1>5, <2>5, ClavesDeMapas DEF LeerVisita
  <2> QED
    BY <1>5, <2>1, <2>4, <2>6 DEF LeerVisita, LeerLinea, TypeOK
<1>6. ASSUME NEW p \in 0 .. l - 1, InicioVentana(p) PROVE TypeOK'
  <2>1. "bloquesh" \in DOMAIN mapas
    BY DEF TypeOK
  <2>2. /\ DOMAIN mapas' = DOMAIN mapas
        /\ \A u \in DOMAIN mapas' : EsMapa(mapas'[u])
    <3>1. 0 \in Nat
      OBVIOUS
    <3> QED
      BY <1>6, <2>1, <3>1, ClavesDeMapas DEF InicioVentana
  <2> QED
    BY <1>6, <2>2 DEF InicioVentana, tablas, TypeOK
<1>7. ASSUME NEW p \in 0 .. l - 1, Destino(p) PROVE TypeOK'
  <2>1. "ubicaciones" \in DOMAIN mapas
    BY DEF TypeOK
  <2>2. /\ DOMAIN mapas' = DOMAIN mapas
        /\ \A u \in DOMAIN mapas' : EsMapa(mapas'[u])
    <3>1. 0 \in Nat
      OBVIOUS
    <3> QED
      BY <1>7, <2>1, <3>1, ClavesDeMapas DEF Destino
  <2> QED
    BY <1>7, <2>2 DEF Destino, tablas, TypeOK
<1>8. CASE UNCHANGED vars
  BY <1>8 DEF vars, tablas, TypeOK
<1> QED
  BY <1>1, <1>2, <1>3, <1>4, <1>5, <1>6, <1>7, <1>8 DEF Next

(* The reader keeps its types (SRP_InstanceInput.cpp:7-173, :353-356),     *)
(* wherever the file is cut: no bitmap gets a position out of its range,   *)
(* no vector more rows than the first line counts.                         *)
THEOREM TiposDelLector == Spec => []TypeOK
<1>1. Init => TypeOK
  BY TypeOKInit
<1>2. TypeOK /\ [Next]_vars => TypeOK'
  BY TypeOKPaso
<1> QED
  BY <1>1, <1>2, PTL DEF Spec

-----------------------------------------------------------------------------
(* The maps                                                                *)

LEMMA UltimaAlAnexar ==
  ASSUME NEW S, NEW tabla \in Seq(S), NEW fila \in S, NEW mapa, EsMapa(mapa),
         UltimaFila(tabla, mapa)
  PROVE  UltimaFila(Append(tabla, fila), Con(mapa, fila.id, Len(tabla)))
<1> DEFINE t == Append(tabla, fila)
           c == Con(mapa, fila.id, Len(tabla))
<1>1. /\ Len(tabla) \in Nat /\ DOMAIN tabla = 1 .. Len(tabla)
      /\ t \in Seq(S) /\ DOMAIN t = 1 .. Len(tabla) + 1 /\ Len(t) = Len(tabla) + 1
      /\ t[Len(tabla) + 1] = fila
      /\ \A i \in 1 .. Len(tabla) : t[i] = tabla[i]
  OBVIOUS
<1>2. /\ DOMAIN c = DOMAIN mapa \cup {fila.id}
      /\ c[fila.id] = Len(tabla)
      /\ \A x \in DOMAIN mapa : x # fila.id => c[x] = mapa[x]
  BY DEF Con
<1> HIDE DEF t, c
<1>3. ASSUME NEW i \in DOMAIN t
      PROVE  t[i].id \in DOMAIN c /\ c[t[i].id] + 1 \in i .. Len(t)
               /\ t[c[t[i].id] + 1].id = t[i].id
  <2>1. CASE t[i].id = fila.id
    BY <1>1, <1>2, <1>3, <2>1
  <2>2. CASE t[i].id # fila.id
    <3>1. i \in 1 .. Len(tabla) /\ t[i] = tabla[i]
      BY <1>1, <1>3, <2>2
    <3>2. /\ tabla[i].id \in DOMAIN mapa
          /\ mapa[tabla[i].id] + 1 \in i .. Len(tabla)
          /\ tabla[mapa[tabla[i].id] + 1].id = tabla[i].id
      BY <1>1, <3>1 DEF UltimaFila
    <3>3. mapa[tabla[i].id] + 1 \in 1 .. Len(tabla)
      BY <1>1, <3>1, <3>2
    <3>4. c[t[i].id] = mapa[tabla[i].id] /\ t[i].id \in DOMAIN c
      BY <1>2, <2>2, <3>1, <3>2
    <3>5. t[c[t[i].id] + 1] = tabla[mapa[tabla[i].id] + 1]
      BY <1>1, <3>3, <3>4
    <3>6. c[t[i].id] + 1 \in i .. Len(t)
      BY <1>1, <3>1, <3>2, <3>4
    <3> QED
      BY <3>1, <3>2, <3>4, <3>5, <3>6
  <2> QED
    BY <2>1, <2>2
<1>4. ASSUME NEW id \in DOMAIN c, \A i \in DOMAIN t : t[i].id # id
      PROVE  c[id] = 0
  <2>1. id # fila.id /\ (\A i \in DOMAIN tabla : tabla[i].id # id)
    BY <1>1, <1>4
  <2>2. id \in DOMAIN mapa /\ c[id] = mapa[id]
    BY <1>2, <1>4, <2>1
  <2> QED
    BY <2>1, <2>2 DEF UltimaFila
<1>5. UltimaFila(t, c)
  BY <1>3, <1>4 DEF UltimaFila
<1> QED
  BY <1>5 DEF t, c

LEMMA UltimaAlInsertar ==
  ASSUME NEW tabla, NEW mapa, UltimaFila(tabla, mapa), NEW id
  PROVE  UltimaFila(tabla, Insertar(mapa, id))
<1>1. CASE id \in DOMAIN mapa
  BY <1>1 DEF Insertar
<1>2. CASE id \notin DOMAIN mapa
  <2> DEFINE c == Con(mapa, id, 0)
  <2>1. /\ DOMAIN c = DOMAIN mapa \cup {id}
        /\ c[id] = 0
        /\ \A x \in DOMAIN mapa : c[x] = mapa[x]
    BY <1>2 DEF Con
  <2>2. Insertar(mapa, id) = c
    BY <1>2 DEF Insertar
  <2> HIDE DEF c
  <2> QED
    BY <2>1, <2>2 DEF UltimaFila
<1> QED
  BY <1>1, <1>2

LEMMA MapasAlDiaInit == Init => MapasAlDia
  BY DEF Init, MapasAlDia, UltimaFila, MapaVacio

LEMMA MapasAlDiaPaso == TypeOK /\ MapasAlDia /\ [Next]_vars => MapasAlDia'
<1> SUFFICES ASSUME TypeOK, MapasAlDia, [Next]_vars PROVE MapasAlDia'
  OBVIOUS
<1>0. /\ DOMAIN mapas = {"personas", "vehiculos", "ubicaciones", "bloquesh", "visitas"}
      /\ EsMapa(mapas.personas) /\ EsMapa(mapas.vehiculos) /\ EsMapa(mapas.ubicaciones)
      /\ EsMapa(mapas.bloquesh) /\ EsMapa(mapas.visitas)
  BY DEF TypeOK
<1>1. CASE LeerPersona
  <2>1. linea' \in Seq(Fichas)
    BY <1>1, LineaTipo DEF LeerPersona
  <2>0. PICK aux \in Basura : personas' = Append(personas, FilaPersona(linea', aux))
    BY <1>1 DEF LeerPersona
  <2> DEFINE fila == FilaPersona(linea', aux)
  <2>2. personas' = Append(personas, fila) /\ fila.id = Campo(linea', 1, SinTexto)
    BY <2>0 DEF FilaPersona
  <2>3. fila \in FilasPersona
    BY <2>1, FilasTipo
  <2>4. UltimaFila(Append(personas, fila), Con(mapas.personas, fila.id, Len(personas)))
    BY <1>0, <2>3, UltimaAlAnexar DEF TypeOK, MapasAlDia
  <2>5. mapas' = [mapas EXCEPT !.personas = Con(mapas.personas, fila.id, Len(personas))]
    BY <1>1, <2>2 DEF LeerPersona
  <2> HIDE DEF fila
  <2>6. UltimaFila(personas', mapas'.personas)
    BY <1>0, <2>2, <2>4, <2>5
  <2> QED
    BY <1>0, <1>1, <2>5, <2>6 DEF LeerPersona, MapasAlDia
<1>2. CASE LeerVehiculo
  <2>1. linea' \in Seq(Fichas)
    BY <1>2, LineaTipo DEF LeerVehiculo
  <2> DEFINE fila == FilaVehiculo(linea')
  <2>2. vehiculos' = Append(vehiculos, fila) /\ fila.id = Campo(linea', 1, SinTexto)
    BY <1>2 DEF LeerVehiculo, FilaVehiculo
  <2>3. fila \in FilasVehiculo
    BY <2>1, FilaVehiculoTipo
  <2>4. UltimaFila(Append(vehiculos, fila), Con(mapas.vehiculos, fila.id, Len(vehiculos)))
    BY <1>0, <2>3, UltimaAlAnexar DEF TypeOK, MapasAlDia
  <2>5. mapas' = [mapas EXCEPT !.vehiculos = Con(mapas.vehiculos, fila.id, Len(vehiculos))]
    BY <1>2, <2>2 DEF LeerVehiculo
  <2> HIDE DEF fila
  <2>6. UltimaFila(vehiculos', mapas'.vehiculos)
    BY <1>0, <2>2, <2>4, <2>5
  <2> QED
    BY <1>0, <1>2, <2>5, <2>6 DEF LeerVehiculo, MapasAlDia
<1>3. CASE LeerUbicacion
  <2>1. linea' \in Seq(Fichas)
    BY <1>3, LineaTipo DEF LeerUbicacion
  <2>0. PICK auxdist, auxtime \in Basura :
          ubicaciones' = Append(ubicaciones, FilaUbicacion(linea', auxdist, auxtime))
    BY <1>3 DEF LeerUbicacion
  <2> DEFINE fila == FilaUbicacion(linea', auxdist, auxtime)
  <2>2. ubicaciones' = Append(ubicaciones, fila) /\ fila.id = Campo(linea', 1, SinTexto)
    BY <2>0 DEF FilaUbicacion
  <2>3. fila \in FilasUbicacion
    BY <2>1, FilasTipo
  <2>4. UltimaFila(Append(ubicaciones, fila), Con(mapas.ubicaciones, fila.id, Len(ubicaciones)))
    BY <1>0, <2>3, UltimaAlAnexar DEF TypeOK, MapasAlDia
  <2>5. mapas' = [mapas EXCEPT !.ubicaciones = Con(mapas.ubicaciones, fila.id, Len(ubicaciones))]
    BY <1>3, <2>2 DEF LeerUbicacion
  <2> HIDE DEF fila
  <2>6. UltimaFila(ubicaciones', mapas'.ubicaciones)
    BY <1>0, <2>2, <2>4, <2>5
  <2> QED
    BY <1>0, <1>3, <2>5, <2>6 DEF LeerUbicacion, MapasAlDia
<1>4. CASE LeerBloque
  <2>1. linea' \in Seq(Fichas)
    BY <1>4, LineaTipo DEF LeerBloque
  <2>0. PICK t \in obtenerTime(auxstring') :
          bloques' = Append(bloques, [id |-> Campo(linea', 1, SinTexto), timestamp |-> t])
    BY <1>4 DEF LeerBloque
  <2> DEFINE fila == [id |-> Campo(linea', 1, SinTexto), timestamp |-> t]
  <2>2. bloques' = Append(bloques, fila) /\ fila.id = Campo(linea', 1, SinTexto)
    BY <2>0
  <2>3. fila \in FilasBloque
    BY <2>1, CampoTipo, TiempoTipo, FichasBasicas DEF FilasBloque
  <2>4. UltimaFila(Append(bloques, fila), Con(mapas.bloquesh, fila.id, Len(bloques)))
    BY <1>0, <2>3, UltimaAlAnexar DEF TypeOK, MapasAlDia
  <2>5. mapas' = [mapas EXCEPT !.bloquesh = Con(mapas.bloquesh, fila.id, Len(bloques))]
    BY <1>4, <2>2 DEF LeerBloque
  <2> HIDE DEF fila
  <2>6. UltimaFila(bloques', mapas'.bloquesh)
    BY <1>0, <2>2, <2>4, <2>5
  <2> QED
    BY <1>0, <1>4, <2>5, <2>6 DEF LeerBloque, MapasAlDia
<1>5. CASE LeerVisita
  <2>1. linea' \in Seq(Fichas)
    BY <1>5, LineaTipo DEF LeerVisita
  <2>0. PICK aux \in Basura : visitas' = Append(visitas, FilaVisita(linea', aux))
    BY <1>5 DEF LeerVisita
  <2> DEFINE fila == FilaVisita(linea', aux)
  <2>2. visitas' = Append(visitas, fila) /\ fila.id = Campo(linea', 1, SinTexto)
    BY <2>0 DEF FilaVisita
  <2>3. fila \in FilasVisita
    BY <2>1, FilasTipo
  <2>4. UltimaFila(Append(visitas, fila), Con(mapas.visitas, fila.id, Len(visitas)))
    BY <1>0, <2>3, UltimaAlAnexar DEF TypeOK, MapasAlDia
  <2>5. mapas' = [mapas EXCEPT !.visitas = Con(mapas.visitas, fila.id, Len(visitas))]
    BY <1>5, <2>2 DEF LeerVisita
  <2> HIDE DEF fila
  <2>6. UltimaFila(visitas', mapas'.visitas)
    BY <1>0, <2>2, <2>4, <2>5
  <2> QED
    BY <1>0, <1>5, <2>5, <2>6 DEF LeerVisita, MapasAlDia
<1>6. ASSUME NEW p \in 0 .. l - 1, InicioVentana(p) PROVE MapasAlDia'
  <2>1. UltimaFila(bloques, Insertar(mapas.bloquesh, visitas[p + 1].bloque_inicio))
    BY UltimaAlInsertar DEF MapasAlDia
  <2> QED
    BY <1>0, <1>6, <2>1 DEF InicioVentana, tablas, MapasAlDia
<1>7. ASSUME NEW p \in 0 .. l - 1, Destino(p) PROVE MapasAlDia'
  <2>1. UltimaFila(ubicaciones, Insertar(mapas.ubicaciones, visitas[p + 1].ubicacion))
    BY UltimaAlInsertar DEF MapasAlDia
  <2> QED
    BY <1>0, <1>7, <2>1 DEF Destino, tablas, MapasAlDia
<1>8. CASE UNCHANGED vars
  BY <1>8 DEF vars, tablas, MapasAlDia
<1> QED
  BY <1>1, <1>2, <1>3, <1>4, <1>5, <1>6, <1>7, <1>8 DEF Next

(* Each map leads every identifier to the last row that bears it           *)
(* (SRP_InstanceInput.cpp:71, :87, :111, :126, :171), also after any       *)
(* number of the queries that insert (:354, SRPlanner.cpp:123).            *)
THEOREM MapasSiempreAlDia == Spec => []MapasAlDia
<1>1. Init => TypeOK /\ MapasAlDia
  BY TypeOKInit, MapasAlDiaInit
<1>2. (TypeOK /\ MapasAlDia) /\ [Next]_vars => (TypeOK /\ MapasAlDia)'
  BY TypeOKPaso, MapasAlDiaPaso
<1> QED
  BY <1>1, <1>2, PTL DEF Spec

-----------------------------------------------------------------------------
(* The order of the sections                                               *)

(* A section starts once the one before it is whole. *)
Orden ==
  /\ Len(vehiculos) > 0 => Len(personas) = n
  /\ Len(ubicaciones) > 0 => Len(vehiculos) = m
  /\ Len(bloques) > 0 => Len(ubicaciones) = k
  /\ Len(visitas) > 0 => Len(bloques) = h

LEMMA LargosTipo ==
  TypeOK => /\ Len(personas) \in 0 .. n /\ Len(vehiculos) \in 0 .. m
            /\ Len(ubicaciones) \in 0 .. k /\ Len(bloques) \in 0 .. h
            /\ Len(visitas) \in 0 .. l
  BY CuentasAssumption DEF TypeOK

LEMMA OrdenInit == Init => Orden
  BY DEF Init, Orden

LEMMA OrdenPaso == TypeOK /\ Orden /\ [Next]_vars => Orden'
<1> SUFFICES ASSUME TypeOK, Orden, [Next]_vars PROVE Orden'
  OBVIOUS
<1> USE CuentasAssumption, LargosTipo
<1>1. CASE LeerPersona
  BY <1>1 DEF LeerPersona, Orden
<1>2. CASE LeerVehiculo
  BY <1>2 DEF LeerVehiculo, Orden
<1>3. CASE LeerUbicacion
  BY <1>3 DEF LeerUbicacion, Orden
<1>4. CASE LeerBloque
  BY <1>4 DEF LeerBloque, Orden
<1>5. CASE LeerVisita
  BY <1>5 DEF LeerVisita, Orden
<1>6. ASSUME NEW p \in 0 .. l - 1, InicioVentana(p) \/ Destino(p) PROVE Orden'
  BY <1>6 DEF InicioVentana, Destino, tablas, Orden
<1>7. CASE UNCHANGED vars
  BY <1>7 DEF vars, tablas, Orden
<1> QED
  BY <1>1, <1>2, <1>3, <1>4, <1>5, <1>6, <1>7 DEF Next

(* The line an action reads is the one of the row it adds. *)
LEMMA LineaEscrita ==
  ASSUME TypeOK, LeerLinea, NEW r \in Nat, r = leidas + 1, Escrita(r)
  PROVE  linea' = entero[r]
<1>1. leidas \in Nat
  BY DEF TypeOK, leidas
<1>2. leidas < Len(archivo)
  BY <1>1 DEF TypeOK, Escrita
<1> QED
  BY <1>2 DEF LeerLinea, Escrita

(* Of a whole line, no bit depends on what the variable held before. *)
LEMMA BitsEnteros ==
  ASSUME NEW x \in Seq(Fichas), NEW primero \in Nat, NEW c \in Nat, NEW w \in Nat,
         c + w - 1 <= Len(x), NEW b1, NEW b2
  PROVE  Bits(x, primero, c, w, b1) = Bits(x, primero, c, w, b2)
<1>1. ASSUME NEW j \in 0 .. w - 1
      PROVE  Leido(x, primero, c + j, 1, b1) = Leido(x, primero, c + j, 1, b2)
  <2>1. c + j <= Len(x)
    OBVIOUS
  <2> QED
    BY <2>1 DEF Leido
<1> QED
  BY <1>1 DEF Bits

LEMMA PersonaEntera ==
  ASSUME NEW i \in 1 .. n, NEW b1, NEW b2, entero \in Archivos
  PROVE  FilaPersona(entero[i], b1) = FilaPersona(entero[i], b2)
<1>1. i \in 1 .. LineasDelArchivo
  BY CuentasAssumption DEF LineasDelArchivo
<1>2. entero[i] \in Seq(Fichas) /\ Len(entero[i]) = 2 + h + n + l
  BY <1>1, ArchivosAssumption DEF EsArchivo
<1> DEFINE x == entero[i]
<1> HIDE DEF x
<1>3. x \in Seq(Fichas) /\ Len(x) = 2 + h + n + l
  BY <1>2 DEF x
<1>4. /\ Bits(x, 3, 3, h, b1) = Bits(x, 3, 3, h, b2)
      /\ Bits(x, 3, 3 + h, n, b1) = Bits(x, 3, 3 + h, n, b2)
      /\ Bits(x, 3, 3 + h + n, l, b1) = Bits(x, 3, 3 + h + n, l, b2)
  <2>1. 3 \in Nat /\ 3 + h \in Nat /\ 3 + h + n \in Nat
    BY CuentasAssumption
  <2>2. /\ 3 + h - 1 <= Len(x)
        /\ (3 + h) + n - 1 <= Len(x)
        /\ (3 + h + n) + l - 1 <= Len(x)
    BY <1>3, CuentasAssumption
  <2> QED
    <3>1. Bits(x, 3, 3, h, b1) = Bits(x, 3, 3, h, b2)
      BY <1>3, <2>1, <2>2, BitsEnteros, CuentasAssumption
    <3>2. Bits(x, 3, 3 + h, n, b1) = Bits(x, 3, 3 + h, n, b2)
      BY <1>3, <2>1, <2>2, BitsEnteros, CuentasAssumption
    <3>3. Bits(x, 3, 3 + h + n, l, b1) = Bits(x, 3, 3 + h + n, l, b2)
      BY <1>3, <2>1, <2>2, BitsEnteros, CuentasAssumption
    <3> QED
      BY <3>1, <3>2, <3>3
<1>5. FilaPersona(x, b1) = FilaPersona(x, b2)
  BY <1>4 DEF FilaPersona
<1> QED
  BY <1>5 DEF x

LEMMA UbicacionEntera ==
  ASSUME NEW i \in 1 .. k, NEW a1, NEW a2, NEW b1, NEW b2, entero \in Archivos
  PROVE  FilaUbicacion(entero[n + m + i], a1, a2) = FilaUbicacion(entero[n + m + i], b1, b2)
<1>1. /\ n + m + i \in n + m + 1 .. n + m + k
      /\ n + m + i \in 1 .. LineasDelArchivo
  BY CuentasAssumption DEF LineasDelArchivo
<1>2. Len(entero[n + m + i]) = 1 + 2 * k
  BY <1>1, ArchivosAssumption DEF EsArchivo
<1> DEFINE x == entero[n + m + i]
<1> HIDE DEF x
<1>3. Len(x) = 1 + 2 * k
  BY <1>2 DEF x
<1>4. ASSUME NEW j \in 0 .. k - 1
      PROVE  /\ Leido(x, 2, 2 + 2 * j, 2, a1) = Leido(x, 2, 2 + 2 * j, 2, b1)
             /\ Leido(x, 3, 3 + 2 * j, 2, a2) = Leido(x, 3, 3 + 2 * j, 2, b2)
  <2>1. 2 + 2 * j <= Len(x) /\ 3 + 2 * j <= Len(x)
    BY <1>3, CuentasAssumption
  <2> QED
    BY <2>1 DEF Leido
<1>5. FilaUbicacion(x, a1, a2) = FilaUbicacion(x, b1, b2)
  BY <1>4 DEF FilaUbicacion
<1> QED
  BY <1>5 DEF x

LEMMA VisitaEntera ==
  ASSUME NEW i \in 1 .. l, NEW b1, NEW b2, entero \in Archivos
  PROVE  FilaVisita(entero[n + m + k + h + i], b1) = FilaVisita(entero[n + m + k + h + i], b2)
<1>1. /\ n + m + k + h + i \in n + m + k + h + 1 .. LineasDelArchivo
      /\ n + m + k + h + i \in 1 .. LineasDelArchivo
  BY CuentasAssumption DEF LineasDelArchivo
<1>2. entero[n + m + k + h + i] \in Seq(Fichas) /\ Len(entero[n + m + k + h + i]) = 7 + n + m
  BY <1>1, ArchivosAssumption DEF EsArchivo
<1> DEFINE x == entero[n + m + k + h + i]
<1> HIDE DEF x
<1>3. x \in Seq(Fichas) /\ Len(x) = 7 + n + m
  BY <1>2 DEF x
<1>4. /\ Bits(x, 5, 5, n, b1) = Bits(x, 5, 5, n, b2)
      /\ Bits(x, 5, 5 + n, m, b1) = Bits(x, 5, 5 + n, m, b2)
  <2>1. 5 \in Nat /\ 5 + n \in Nat
    BY CuentasAssumption
  <2>2. 5 + n - 1 <= Len(x) /\ (5 + n) + m - 1 <= Len(x)
    BY <1>3, CuentasAssumption
  <2> QED
    <3>1. Bits(x, 5, 5, n, b1) = Bits(x, 5, 5, n, b2)
      BY <1>3, <2>1, <2>2, BitsEnteros, CuentasAssumption
    <3>2. Bits(x, 5, 5 + n, m, b1) = Bits(x, 5, 5 + n, m, b2)
      BY <1>3, <2>1, <2>2, BitsEnteros, CuentasAssumption
    <3> QED
      BY <3>1, <3>2
<1>5. FilaVisita(x, b1) = FilaVisita(x, b2)
  BY <1>4 DEF FilaVisita
<1> QED
  BY <1>5 DEF x

-----------------------------------------------------------------------------
(* Damage to a line stays in its row                                       *)

LEMMA AlAnexar ==
  ASSUME NEW S, NEW s \in Seq(S), NEW e \in S, NEW t, t = Append(s, e)
  PROVE  \A i \in DOMAIN t : \/ i \in DOMAIN s /\ t[i] = s[i]
                             \/ i = Len(s) + 1 /\ t[i] = e
  OBVIOUS

LEMMA DanoInit == Init => DanoContenido
  BY DEF Init, DanoContenido

LEMMA DanoPaso == TypeOK /\ Orden /\ DanoContenido /\ [Next]_vars => DanoContenido'
<1> SUFFICES ASSUME TypeOK, Orden, DanoContenido, [Next]_vars,
                    NEW basura \in Basura, NEW otra \in Basura
             PROVE  /\ \A i \in DOMAIN personas' :
                         Escrita(i)' => personas'[i] = FilaPersona(entero'[i], basura)
                    /\ \A i \in DOMAIN vehiculos' :
                         Escrita(n + i)' => vehiculos'[i] = FilaVehiculo(entero'[n + i])
                    /\ \A i \in DOMAIN ubicaciones' :
                         Escrita(n + m + i)' =>
                           ubicaciones'[i] = FilaUbicacion(entero'[n + m + i], basura, otra)
                    /\ \A i \in DOMAIN bloques' :
                         Escrita(n + m + k + i)' =>
                           /\ bloques'[i].id = entero'[n + m + k + i][1]
                           /\ bloques'[i].timestamp \in obtenerTime(entero'[n + m + k + i][2])
                    /\ \A i \in DOMAIN visitas' :
                         Escrita(n + m + k + h + i)' =>
                           visitas'[i] = FilaVisita(entero'[n + m + k + h + i], basura)
  BY DEF DanoContenido
<1>0. /\ \A i \in DOMAIN personas :
           Escrita(i) => personas[i] = FilaPersona(entero[i], basura)
      /\ \A i \in DOMAIN vehiculos :
           Escrita(n + i) => vehiculos[i] = FilaVehiculo(entero[n + i])
      /\ \A i \in DOMAIN ubicaciones :
           Escrita(n + m + i) =>
             ubicaciones[i] = FilaUbicacion(entero[n + m + i], basura, otra)
      /\ \A i \in DOMAIN bloques :
           Escrita(n + m + k + i) =>
             /\ bloques[i].id = entero[n + m + k + i][1]
             /\ bloques[i].timestamp \in obtenerTime(entero[n + m + k + i][2])
      /\ \A i \in DOMAIN visitas :
           Escrita(n + m + k + h + i) =>
             visitas[i] = FilaVisita(entero[n + m + k + h + i], basura)
  BY DEF DanoContenido
<1>9. /\ Len(personas) \in 0 .. n /\ Len(vehiculos) \in 0 .. m
      /\ Len(ubicaciones) \in 0 .. k /\ Len(bloques) \in 0 .. h
      /\ Len(visitas) \in 0 .. l /\ entero \in Archivos
  BY LargosTipo DEF TypeOK
<1>1. CASE LeerPersona
  <2>0. Len(personas) < n
    BY <1>1 DEF LeerPersona
  <2>1. leidas = Len(personas)
    BY <1>9, <2>0, CuentasAssumption DEF Orden, leidas
  <2>10. personas \in Seq(FilasPersona)
    BY DEF TypeOK
  <2>2. LeerLinea /\ linea' \in Seq(Fichas) /\ entero' = entero /\ archivo' = archivo
    BY <1>1, LineaTipo DEF LeerPersona, LeerLinea
  <2>3. PICK aux \in Basura : personas' = Append(personas, FilaPersona(linea', aux))
    BY <1>1 DEF LeerPersona
  <2> DEFINE fila == FilaPersona(linea', aux)
  <2>4. fila \in FilasPersona
    BY <2>2, FilasTipo
  <2>5. \A i \in DOMAIN personas' :
          \/ i \in DOMAIN personas /\ personas'[i] = personas[i]
          \/ i = Len(personas) + 1 /\ personas'[i] = fila
    BY <2>3, <2>4, <2>10, AlAnexar
  <2>6. ASSUME Escrita((Len(personas) + 1))
        PROVE fila = FilaPersona(entero[Len(personas) + 1], basura)
    <3>1. (Len(personas) + 1) \in Nat /\ (Len(personas) + 1) = leidas + 1
      BY <1>9, <2>1, CuentasAssumption
    <3>2. linea' = entero[(Len(personas) + 1)]
      BY <2>2, <2>6, <3>1, LineaEscrita
    <3>3. Len(personas) + 1 \in 1 .. n
      BY <1>9, <2>0, CuentasAssumption
    <3> QED
      BY <1>9, <3>2, <3>3, PersonaEntera
  <2> HIDE DEF fila
  <2>7. \A r : Escrita(r)' = Escrita(r)
    BY <2>2 DEF Escrita
  <2> QED
    BY <1>0, <1>1, <2>2, <2>5, <2>6, <2>7 DEF LeerPersona, TypeOK
<1>2. CASE LeerVehiculo
  <2>0. Len(personas) = n /\ Len(vehiculos) < m
    BY <1>2 DEF LeerVehiculo
  <2>1. leidas = n + Len(vehiculos)
    BY <1>9, <2>0, CuentasAssumption DEF Orden, leidas
  <2>10. vehiculos \in Seq(FilasVehiculo)
    BY DEF TypeOK
  <2>2. LeerLinea /\ linea' \in Seq(Fichas) /\ entero' = entero /\ archivo' = archivo
    BY <1>2, LineaTipo DEF LeerVehiculo, LeerLinea
  <2> DEFINE fila == FilaVehiculo(linea')
  <2>3. vehiculos' = Append(vehiculos, fila)
    BY <1>2 DEF LeerVehiculo
  <2>4. fila \in FilasVehiculo
    BY <2>2, FilaVehiculoTipo
  <2>5. \A i \in DOMAIN vehiculos' :
          \/ i \in DOMAIN vehiculos /\ vehiculos'[i] = vehiculos[i]
          \/ i = Len(vehiculos) + 1 /\ vehiculos'[i] = fila
    BY <2>3, <2>4, <2>10, AlAnexar
  <2>6. ASSUME Escrita(n + (Len(vehiculos) + 1))
        PROVE fila = FilaVehiculo(entero[n + (Len(vehiculos) + 1)])
    <3>1. n + (Len(vehiculos) + 1) \in Nat /\ n + (Len(vehiculos) + 1) = leidas + 1
      BY <1>9, <2>1, CuentasAssumption
    <3>2. linea' = entero[n + (Len(vehiculos) + 1)]
      BY <2>2, <2>6, <3>1, LineaEscrita
    <3> QED
      BY <3>2
  <2> HIDE DEF fila
  <2>7. \A r : Escrita(r)' = Escrita(r)
    BY <2>2 DEF Escrita
  <2> QED
    BY <1>0, <1>2, <2>2, <2>5, <2>6, <2>7 DEF LeerVehiculo, TypeOK
<1>3. CASE LeerUbicacion
  <2>0. Len(vehiculos) = m /\ Len(ubicaciones) < k
    BY <1>3 DEF LeerUbicacion
  <2>1. leidas = n + m + Len(ubicaciones)
    BY <1>9, <2>0, CuentasAssumption DEF Orden, leidas
  <2>10. ubicaciones \in Seq(FilasUbicacion)
    BY DEF TypeOK
  <2>2. LeerLinea /\ linea' \in Seq(Fichas) /\ entero' = entero /\ archivo' = archivo
    BY <1>3, LineaTipo DEF LeerUbicacion, LeerLinea
  <2>3. PICK auxdist, auxtime \in Basura :
          ubicaciones' = Append(ubicaciones, FilaUbicacion(linea', auxdist, auxtime))
    BY <1>3 DEF LeerUbicacion
  <2> DEFINE fila == FilaUbicacion(linea', auxdist, auxtime)
  <2>4. fila \in FilasUbicacion
    BY <2>2, FilasTipo
  <2>5. \A i \in DOMAIN ubicaciones' :
          \/ i \in DOMAIN ubicaciones /\ ubicaciones'[i] = ubicaciones[i]
          \/ i = Len(ubicaciones) + 1 /\ ubicaciones'[i] = fila
    BY <2>3, <2>4, <2>10, AlAnexar
  <2>6. ASSUME Escrita(n + m + (Len(ubicaciones) + 1))
        PROVE fila = FilaUbicacion(entero[n + m + (Len(ubicaciones) + 1)], basura, otra)
    <3>1. n + m + (Len(ubicaciones) + 1) \in Nat /\ n + m + (Len(ubicaciones) + 1) = leidas + 1
      BY <1>9, <2>1, CuentasAssumption
    <3>2. linea' = entero[n + m + (Len(ubicaciones) + 1)]
      BY <2>2, <2>6, <3>1, LineaEscrita
    <3>3. Len(ubicaciones) + 1 \in 1 .. k
      BY <1>9, <2>0, CuentasAssumption
    <3> QED
      BY <1>9, <3>2, <3>3, UbicacionEntera
  <2> HIDE DEF fila
  <2>7. \A r : Escrita(r)' = Escrita(r)
    BY <2>2 DEF Escrita
  <2> QED
    BY <1>0, <1>3, <2>2, <2>5, <2>6, <2>7 DEF LeerUbicacion, TypeOK
<1>4. CASE LeerBloque
  <2>0. Len(ubicaciones) = k /\ Len(bloques) < h
    BY <1>4 DEF LeerBloque
  <2>1. leidas = n + m + k + Len(bloques)
    BY <1>9, <2>0, CuentasAssumption DEF Orden, leidas
  <2>10. bloques \in Seq(FilasBloque)
    BY DEF TypeOK
  <2>2. LeerLinea /\ linea' \in Seq(Fichas) /\ entero' = entero /\ archivo' = archivo
    BY <1>4, LineaTipo DEF LeerBloque, LeerLinea
  <2>3. PICK t \in obtenerTime(auxstring') :
          bloques' = Append(bloques, [id |-> Campo(linea', 1, SinTexto), timestamp |-> t])
    BY <1>4 DEF LeerBloque
  <2> DEFINE fila == [id |-> Campo(linea', 1, SinTexto), timestamp |-> t]
  <2>4. fila \in FilasBloque
    BY <2>2, CampoTipo, TiempoTipo, FichasBasicas DEF FilasBloque
  <2>5. \A i \in DOMAIN bloques' :
          \/ i \in DOMAIN bloques /\ bloques'[i] = bloques[i]
          \/ i = Len(bloques) + 1 /\ bloques'[i] = fila
    BY <2>3, <2>4, <2>10, AlAnexar
  <2>6. ASSUME Escrita(n + m + k + (Len(bloques) + 1)) PROVE 
            /\ fila.id = entero[n + m + k + (Len(bloques) + 1)][1]
            /\ fila.timestamp \in obtenerTime(entero[n + m + k + (Len(bloques) + 1)][2])
    <3>1. n + m + k + (Len(bloques) + 1) \in Nat /\ n + m + k + (Len(bloques) + 1) = leidas + 1
      BY <1>9, <2>1, CuentasAssumption
    <3>2. linea' = entero[n + m + k + (Len(bloques) + 1)]
      BY <2>2, <2>6, <3>1, LineaEscrita
    <3>3. /\ n + m + k + (Len(bloques) + 1) \in n + m + k + 1 .. n + m + k + h
          /\ n + m + k + (Len(bloques) + 1) \in 1 .. LineasDelArchivo
      BY <1>9, <2>0, CuentasAssumption DEF LineasDelArchivo
    <3>4. Len(linea') = 2
      BY <1>9, <3>2, <3>3, ArchivosAssumption DEF EsArchivo
    <3>5. auxstring' = linea'[2] /\ Campo(linea', 1, SinTexto) = linea'[1]
      BY <1>4, <3>4 DEF LeerBloque, Campo
    <3> QED
      BY <2>3, <3>2, <3>5
  <2> HIDE DEF fila
  <2>7. \A r : Escrita(r)' = Escrita(r)
    BY <2>2 DEF Escrita
  <2> QED
    BY <1>0, <1>4, <2>2, <2>5, <2>6, <2>7 DEF LeerBloque, TypeOK
<1>5. CASE LeerVisita
  <2>0. Len(bloques) = h /\ Len(visitas) < l
    BY <1>5 DEF LeerVisita
  <2>1. leidas = n + m + k + h + Len(visitas)
    BY <1>9, <2>0, CuentasAssumption DEF Orden, leidas
  <2>10. visitas \in Seq(FilasVisita)
    BY DEF TypeOK
  <2>2. LeerLinea /\ linea' \in Seq(Fichas) /\ entero' = entero /\ archivo' = archivo
    BY <1>5, LineaTipo DEF LeerVisita, LeerLinea
  <2>3. PICK aux \in Basura : visitas' = Append(visitas, FilaVisita(linea', aux))
    BY <1>5 DEF LeerVisita
  <2> DEFINE fila == FilaVisita(linea', aux)
  <2>4. fila \in FilasVisita
    BY <2>2, FilasTipo
  <2>5. \A i \in DOMAIN visitas' :
          \/ i \in DOMAIN visitas /\ visitas'[i] = visitas[i]
          \/ i = Len(visitas) + 1 /\ visitas'[i] = fila
    BY <2>3, <2>4, <2>10, AlAnexar
  <2>6. ASSUME Escrita(n + m + k + h + (Len(visitas) + 1))
        PROVE fila = FilaVisita(entero[n + m + k + h + (Len(visitas) + 1)], basura)
    <3>1. /\ n + m + k + h + (Len(visitas) + 1) \in Nat
          /\ n + m + k + h + (Len(visitas) + 1) = leidas + 1
      BY <1>9, <2>1, CuentasAssumption
    <3>2. linea' = entero[n + m + k + h + (Len(visitas) + 1)]
      BY <2>2, <2>6, <3>1, LineaEscrita
    <3>3. Len(visitas) + 1 \in 1 .. l
      BY <1>9, <2>0, CuentasAssumption
    <3> QED
      BY <1>9, <3>2, <3>3, VisitaEntera
  <2> HIDE DEF fila
  <2>7. \A r : Escrita(r)' = Escrita(r)
    BY <2>2 DEF Escrita
  <2> QED
    BY <1>0, <1>5, <2>2, <2>5, <2>6, <2>7 DEF LeerVisita, TypeOK
<1>6. ASSUME NEW p \in 0 .. l - 1, InicioVentana(p) \/ Destino(p)
      PROVE  UNCHANGED <<entero, archivo, tablas>>
  BY <1>6 DEF InicioVentana, Destino
<1>7. CASE UNCHANGED <<entero, archivo, tablas>>
  BY <1>0, <1>7 DEF tablas, Escrita
<1>8. CASE UNCHANGED vars
  BY <1>7, <1>8 DEF vars
<1> QED
  BY <1>1, <1>2, <1>3, <1>4, <1>5, <1>6, <1>7, <1>8 DEF Next

(* A row whose line was written whole is the row of that line, whatever    *)
(* the other lines lack (SRP_InstanceInput.cpp:38-41, :84-85, :97-98,      *)
(* :121-122, :144-145).                                                    *)
THEOREM DanoSiempreContenido == Spec => []DanoContenido
<1>1. Init => TypeOK /\ Orden /\ DanoContenido
  BY TypeOKInit, OrdenInit, DanoInit
<1>2. (TypeOK /\ Orden /\ DanoContenido) /\ [Next]_vars => (TypeOK /\ Orden /\ DanoContenido)'
  BY TypeOKPaso, OrdenPaso, DanoPaso
<1> QED
  BY <1>1, <1>2, PTL DEF Spec

-----------------------------------------------------------------------------
(* The queries                                                             *)

(* What the query by identifier answers, in terms of the block it looks up *)
BloqueDe(id) == visitas[mapas.visitas[id] + 1].bloque_inicio

LEMMA ConsultaSinEfecto ==
  TypeOK /\ Orden /\ MapasAlDia /\ [Next]_vars =>
    \A id \in DOMAIN mapas.visitas :
      Leida /\ getInicioVentanaVisita(id)' # getInicioVentanaVisita(id) =>
        \A i \in DOMAIN bloques : bloques[i].id # visitas[mapas.visitas[id] + 1].bloque_inicio
<1> SUFFICES ASSUME TypeOK, Orden, MapasAlDia, [Next]_vars, NEW id \in DOMAIN mapas.visitas,
                    Leida, BloqueDe(id) \in DOMAIN mapas.bloquesh
             PROVE  getInicioVentanaVisita(id)' = getInicioVentanaVisita(id)
  BY DEF MapasAlDia, UltimaFila, BloqueDe
<1>1. ~LeerPersona /\ ~LeerVehiculo /\ ~LeerUbicacion /\ ~LeerBloque /\ ~LeerVisita
  BY LargosTipo, CuentasAssumption
     DEF Leida, Orden, LeerPersona, LeerVehiculo, LeerUbicacion, LeerBloque, LeerVisita
<1>2. ASSUME UNCHANGED <<visitas, bloques>>, mapas'.visitas = mapas.visitas,
             \A b \in DOMAIN mapas.bloquesh :
               b \in DOMAIN mapas'.bloquesh /\ mapas'.bloquesh[b] = mapas.bloquesh[b]
      PROVE  getInicioVentanaVisita(id)' = getInicioVentanaVisita(id)
  BY <1>2 DEF getInicioVentanaVisita, Consulta, BloqueDe
<1>3. DOMAIN mapas = {"personas", "vehiculos", "ubicaciones", "bloquesh", "visitas"}
  BY DEF TypeOK
<1>4. ASSUME NEW p \in 0 .. l - 1, InicioVentana(p)
      PROVE  getInicioVentanaVisita(id)' = getInicioVentanaVisita(id)
  <2> DEFINE m1 == Insertar(mapas.bloquesh, visitas[p + 1].bloque_inicio)
  <2>1. mapas'.visitas = mapas.visitas /\ mapas'.bloquesh = m1
    BY <1>3, <1>4 DEF InicioVentana
  <2>2. \A b \in DOMAIN mapas.bloquesh : b \in DOMAIN m1 /\ m1[b] = mapas.bloquesh[b]
    BY DEF Insertar, Con
  <2> HIDE DEF m1
  <2>3. UNCHANGED <<visitas, bloques>>
    BY <1>4 DEF InicioVentana, tablas
  <2> QED
    BY <1>2, <2>1, <2>2, <2>3
<1>5. ASSUME NEW p \in 0 .. l - 1, Destino(p)
      PROVE  getInicioVentanaVisita(id)' = getInicioVentanaVisita(id)
  BY <1>2, <1>3, <1>5 DEF Destino, tablas
<1>6. CASE UNCHANGED vars
  BY <1>2, <1>6 DEF vars, tablas
<1> QED
  BY <1>1, <1>4, <1>5, <1>6 DEF Next

(* No sequence of queries changes the window another query answers, but    *)
(* for a visit whose block no line of the file describes                   *)
(* (SRP_InstanceInput.cpp:337-356).                                        *)
THEOREM ConsultasSiempreEstables == Spec => ConsultasEstables
<1>1. Init => TypeOK /\ Orden /\ MapasAlDia
  BY TypeOKInit, OrdenInit, MapasAlDiaInit
<1>2. (TypeOK /\ Orden /\ MapasAlDia) /\ [Next]_vars => (TypeOK /\ Orden /\ MapasAlDia)'
  BY TypeOKPaso, OrdenPaso, MapasAlDiaPaso
<1>3. TypeOK /\ Orden /\ MapasAlDia /\ [Next]_vars =>
        [\A id \in DOMAIN mapas.visitas :
           Leida /\ getInicioVentanaVisita(id)' # getInicioVentanaVisita(id) =>
             \A i \in DOMAIN bloques :
               bloques[i].id # visitas[mapas.visitas[id] + 1].bloque_inicio]_vars
  BY ConsultaSinEfecto
<1> QED
  BY <1>1, <1>2, <1>3, PTL DEF Spec, ConsultasEstables

-----------------------------------------------------------------------------
(* Visits whose line lacks its end                                         *)

(* The line last read is the last one written, once that one is passed; a  *)
(* line that is not whole is shorter; and the last visit is the line last  *)
(* read.                                                                   *)
Rastro ==
  /\ \A r \in 1 .. Len(archivo) : archivo[r] = entero[r] \/ Len(archivo[r]) < Len(entero[r])
  /\ leidas > 0 /\ leidas <= Len(archivo) => linea = archivo[leidas]
  /\ leidas > Len(archivo) /\ Len(archivo) > 0 /\ ~salto => linea = archivo[Len(archivo)]
  /\ Len(visitas) > 0 => \E aux \in Basura : visitas[Len(visitas)] = FilaVisita(linea, aux)

LEMMA RastroInit == Init => Rastro
<1> SUFFICES ASSUME Init PROVE Rastro
  OBVIOUS
<1>1. leidas = 0 /\ Len(visitas) = 0 /\ Len(archivo) \in Nat
  BY TypeOKInit DEF Init, leidas, TypeOK
<1>2. ASSUME NEW r \in 1 .. Len(archivo)
      PROVE  archivo[r] = entero[r] \/ Len(archivo[r]) < Len(entero[r])
  <2>1. archivo # <<>>
    BY <1>2
  <2>2. PICK f \in 1 .. LineasDelArchivo : \E q \in 1 .. f : \E c \in 1 .. Len(entero[q]) :
           archivo = Escrito(entero, f, q, c)
    BY <2>1 DEF Init
  <2>3. PICK q \in 1 .. f : \E c \in 1 .. Len(entero[q]) : archivo = Escrito(entero, f, q, c)
    BY <2>2
  <2>4. PICK c \in 1 .. Len(entero[q]) : archivo = Escrito(entero, f, q, c)
    BY <2>3
  <2>5. LineasDelArchivo \in Nat /\ EsArchivo(entero)
    BY CuentasAssumption, ArchivosAssumption DEF Init, LineasDelArchivo
  <2>6. r \in 1 .. f
    <3>1. archivo \in Seq(Seq(Fichas))
      BY TypeOKInit DEF TypeOK
    <3>2. DOMAIN archivo = 1 .. f
      BY <2>4 DEF Escrito
    <3> QED
      BY <3>1, <3>2, <1>2
  <2>7. entero[r] \in Seq(Fichas) /\ entero[q] \in Seq(Fichas)
    BY <2>3, <2>5, <2>6 DEF EsArchivo
  <2>8. archivo[r] = IF r = q THEN SubSeq(entero[r], 1, c) ELSE entero[r]
    BY <2>4, <2>6 DEF Escrito
  <2>9. CASE r = q /\ c < Len(entero[r])
    <3>1. Len(SubSeq(entero[r], 1, c)) = c
      BY <2>4, <2>7, <2>9
    <3> QED
      BY <2>8, <2>9, <3>1
  <2>10. CASE r = q /\ ~(c < Len(entero[r]))
    <3>1. SubSeq(entero[r], 1, c) = entero[r]
      BY <2>4, <2>7, <2>10
    <3> QED
      BY <2>8, <2>10, <3>1
  <2>11. CASE r # q
    BY <2>8, <2>11
  <2> QED
    BY <2>9, <2>10, <2>11
<1> QED
  BY <1>1, <1>2 DEF Rastro, Init

(* Every reading action advances by a line and leaves the visits alone,    *)
(* but for the one that reads a visit.                                     *)
LEMMA AvanzaUna ==
  ASSUME TypeOK, Orden, LeerPersona \/ LeerVehiculo \/ LeerUbicacion \/ LeerBloque \/ LeerVisita
  PROVE  LeerLinea /\ leidas \in Nat /\ leidas' = leidas + 1
<1> USE LargosTipo
<1>0. leidas \in Nat
  BY DEF leidas
<1>1. CASE LeerPersona
  <2>1. Len(personas') = Len(personas) + 1
    BY <1>1 DEF LeerPersona, TypeOK
  <2> QED
    BY <1>0, <1>1, <2>1 DEF LeerPersona, leidas
<1>2. CASE LeerVehiculo
  <2>1. Len(vehiculos') = Len(vehiculos) + 1
    BY <1>2 DEF LeerVehiculo, TypeOK
  <2> QED
    BY <1>0, <1>2, <2>1 DEF LeerVehiculo, leidas
<1>3. CASE LeerUbicacion
  <2>1. Len(ubicaciones') = Len(ubicaciones) + 1
    BY <1>3 DEF LeerUbicacion, TypeOK
  <2> QED
    BY <1>0, <1>3, <2>1 DEF LeerUbicacion, leidas
<1>4. CASE LeerBloque
  <2>1. Len(bloques') = Len(bloques) + 1
    BY <1>4 DEF LeerBloque, TypeOK
  <2>2. LeerLinea /\ UNCHANGED <<personas, vehiculos, ubicaciones, visitas>>
    BY <1>4 DEF LeerBloque
  <2> QED
    BY <1>0, <2>1, <2>2 DEF leidas
<1>5. CASE LeerVisita
  <2>1. Len(visitas') = Len(visitas) + 1
    BY <1>5 DEF LeerVisita, TypeOK
  <2>2. LeerLinea /\ UNCHANGED <<personas, vehiculos, ubicaciones, bloques>>
    BY <1>5 DEF LeerVisita
  <2> QED
    BY <1>0, <2>1, <2>2 DEF leidas
<1> QED
  BY <1>1, <1>2, <1>3, <1>4, <1>5

LEMMA RastroPaso == TypeOK /\ Orden /\ Rastro /\ [Next]_vars => Rastro'
<1> SUFFICES ASSUME TypeOK, Orden, Rastro, [Next]_vars PROVE Rastro'
  OBVIOUS
<1>1. ASSUME LeerPersona \/ LeerVehiculo \/ LeerUbicacion \/ LeerBloque \/ LeerVisita
      PROVE  Rastro'
  <2>1. LeerLinea /\ leidas \in Nat /\ leidas' = leidas + 1
    BY <1>1, AvanzaUna
  <2>2. entero' = entero /\ archivo' = archivo /\ salto' = salto
    BY <2>1 DEF LeerLinea
  <2>3. Len(archivo) \in Nat
    BY DEF TypeOK
  <2>4. leidas' > 0 /\ leidas' <= Len(archivo) => linea' = archivo[leidas']
    BY <2>1, <2>3 DEF LeerLinea
  <2>5. leidas' > Len(archivo) /\ Len(archivo) > 0 /\ ~salto => linea' = archivo[Len(archivo)]
    <3>1. SUFFICES ASSUME leidas' > Len(archivo), Len(archivo) > 0, ~salto
                   PROVE  linea' = archivo[Len(archivo)]
      OBVIOUS
    <3>2. linea' = linea
      BY <2>1, <2>3, <3>1 DEF LeerLinea
    <3>3. linea = archivo[Len(archivo)]
      <4>1. CASE leidas = Len(archivo)
        BY <2>3, <3>1, <4>1 DEF Rastro
      <4>2. CASE leidas > Len(archivo)
        BY <3>1, <4>2 DEF Rastro
      <4> QED
        BY <2>1, <2>3, <3>1, <4>1, <4>2
    <3> QED
      BY <3>2, <3>3
  <2>6. Len(visitas') > 0 => \E aux \in Basura : visitas'[Len(visitas')] = FilaVisita(linea', aux)
    <3>1. CASE LeerVisita
      <4>1. PICK aux \in Basura : visitas' = Append(visitas, FilaVisita(linea', aux))
        BY <3>1 DEF LeerVisita
      <4>2. FilaVisita(linea', aux) \in FilasVisita
        BY <2>1, LineaTipo, FilasTipo
      <4>3. visitas \in Seq(FilasVisita)
        BY DEF TypeOK
      <4>4. visitas'[Len(visitas')] = FilaVisita(linea', aux)
        BY <4>1, <4>2, <4>3
      <4> QED
        BY <4>4
    <3>2. CASE ~LeerVisita
      <4>1. visitas' = visitas /\ Len(visitas) = 0
        BY <1>1, <3>2, LargosTipo, CuentasAssumption
           DEF LeerPersona, LeerVehiculo, LeerUbicacion, LeerBloque, Orden
      <4> QED
        BY <4>1
    <3> QED
      BY <3>1, <3>2
  <2> QED
    BY <2>2, <2>4, <2>5, <2>6 DEF Rastro
<1>2. ASSUME UNCHANGED <<entero, archivo, salto, linea, tablas>> PROVE Rastro'
  BY <1>2 DEF tablas, leidas, Rastro
<1>3. ASSUME NEW p \in 0 .. l - 1, InicioVentana(p) \/ Destino(p) PROVE Rastro'
  BY <1>2, <1>3 DEF InicioVentana, Destino
<1>4. CASE UNCHANGED vars
  BY <1>2, <1>4 DEF vars
<1> QED
  BY <1>1, <1>3, <1>4 DEF Next

LEMMA CortadaInit == Init => CortadaNoPide
  BY DEF Init, CortadaNoPide

LEMMA CortadaPaso ==
  TypeOK /\ Orden /\ Rastro /\ CortadaNoPide /\ [Next]_vars => CortadaNoPide'
<1> SUFFICES ASSUME TypeOK, Orden, Rastro, CortadaNoPide, [Next]_vars PROVE CortadaNoPide'
  OBVIOUS
<1>1. CASE LeerVisita
  <2> DEFINE r == n + m + k + h + (Len(visitas) + 1)
             base == n + m + k + h
  <2>1. LeerLinea /\ leidas \in Nat /\ linea' \in Seq(Fichas) /\ linea \in Seq(Fichas)
    BY <1>1, AvanzaUna, LineaTipo DEF TypeOK
  <2>2. Len(bloques) = h /\ Len(visitas) < l /\ Len(visitas) \in Nat
    BY <1>1, LargosTipo DEF LeerVisita
  <2>3. leidas + 1 = r /\ r \in base + 1 .. LineasDelArchivo /\ r \in 1 .. LineasDelArchivo
    BY <2>2, LargosTipo, CuentasAssumption DEF Orden, leidas, LineasDelArchivo
  <2>4. PICK aux \in Basura : visitas' = Append(visitas, FilaVisita(linea', aux))
    BY <1>1 DEF LeerVisita
  <2> DEFINE fila == FilaVisita(linea', aux)
  <2>5. visitas \in Seq(FilasVisita) /\ fila \in FilasVisita
    BY <2>1, FilasTipo DEF TypeOK
  <2>12. visitas' = Append(visitas, fila)
    BY <2>4
  <2>6. fila.cant_personas = Campo(linea', 7 + n + m, 0)
    BY DEF FilaVisita
  <2>7. ASSUME base <= Len(archivo), ~Escrita(r)
        PROVE  \/ fila.cant_personas = 0
               \/ ~salto /\ Len(visitas) > 0 /\ fila = visitas[Len(visitas)]
    <3>0. Len(archivo) \in Nat /\ entero \in Archivos
      BY DEF TypeOK
    <3>1. Len(entero[r]) = 7 + n + m
      BY <2>3, <3>0, ArchivosAssumption DEF EsArchivo
    <3>2. CASE r <= Len(archivo)
      <4>1. linea' = archivo[r] /\ r \in 1 .. Len(archivo)
        BY <2>1, <2>3, <3>0, <3>2 DEF LeerLinea
      <4>2. Len(linea') < 7 + n + m
        BY <2>7, <3>1, <3>2, <4>1 DEF Rastro, Escrita
      <4> QED
        BY <2>1, <2>6, <4>2, CuentasAssumption DEF Campo
    <3>3. CASE r > Len(archivo) /\ salto
      <4>1. linea' = <<>>
        BY <2>1, <2>3, <3>0, <3>3 DEF LeerLinea
      <4> QED
        BY <2>6, <4>1, CuentasAssumption DEF Campo
    <3>4. CASE r > Len(archivo) /\ ~salto
      <4>1. linea' = linea /\ leidas >= Len(archivo) /\ Len(archivo) > 0
        BY <2>1, <2>3, <2>7, <3>0, <3>4, CuentasAssumption DEF LeerLinea
      <4>2. linea = archivo[Len(archivo)]
        <5>1. CASE leidas = Len(archivo)
          BY <4>1, <5>1 DEF Rastro
        <5>2. CASE leidas > Len(archivo)
          BY <3>4, <4>1, <5>2 DEF Rastro
        <5> QED
          BY <2>1, <3>0, <4>1, <5>1, <5>2
      <4>3. CASE Len(linea) < 7 + n + m
        BY <2>1, <2>6, <4>1, <4>3, CuentasAssumption DEF Campo
      <4>4. CASE ~(Len(linea) < 7 + n + m)
        <5>1. Len(visitas) > 0
          <6>1. SUFFICES ASSUME Len(visitas) = 0 PROVE FALSE
            BY <2>2
          <6>2. Len(archivo) = base /\ leidas = base
            <7>1. r = base + 1 /\ base \in Nat
              BY <6>1, CuentasAssumption
            <7>2. leidas + 1 = r /\ leidas \in Nat /\ base <= Len(archivo)
              BY <2>1, <2>3, <2>7
            <7> HIDE DEF r, base
            <7> QED
              BY <3>0, <3>4, <7>1, <7>2
          <6>3. base \in n + m + k + 1 .. base /\ base \in 1 .. LineasDelArchivo
            BY CuentasAssumption DEF LineasDelArchivo
          <6>4. Len(entero[base]) = 2
            BY <3>0, <6>3, ArchivosAssumption DEF EsArchivo
          <6>5. archivo[base] = entero[base] \/ Len(archivo[base]) < Len(entero[base])
            BY <6>2, <6>3 DEF Rastro
          <6>6. Len(archivo[base]) <= 2
            <7>1. archivo[base] = linea
              BY <4>2, <6>2
            <7>2. Len(archivo[base]) \in Nat
              BY <2>1, <7>1
            <7>3. CASE archivo[base] = entero[base]
              <8>1. Len(archivo[base]) = 2
                BY <6>4, <7>3, Zenon
              <8> QED
                BY <8>1
            <7>4. CASE Len(archivo[base]) < Len(entero[base])
              <8>1. Len(archivo[base]) < 2
                BY <6>4, <7>4
              <8> QED
                BY <7>2, <8>1
            <7> QED
              BY <6>5, <7>3, <7>4
          <6>7. Len(linea) <= 2 /\ Len(linea) \in Nat
            BY <2>1, <4>2, <6>2, <6>6
          <6> QED
            BY <4>4, <6>7, CuentasAssumption
        <5>2. PICK b \in Basura : visitas[Len(visitas)] = FilaVisita(linea, b)
          <6>1. Len(visitas) > 0 => \E x \in Basura : visitas[Len(visitas)] = FilaVisita(linea, x)
            BY DEF Rastro
          <6> QED
            BY <5>1, <6>1
        <5>3. FilaVisita(linea, b) = FilaVisita(linea, aux)
          <6>1. Bits(linea, 5, 5, n, b) = Bits(linea, 5, 5, n, aux)
            <7>1. 5 \in Nat /\ 5 + n - 1 <= Len(linea)
              BY <2>1, <4>4, CuentasAssumption
            <7> QED
              BY <2>1, <7>1, BitsEnteros, CuentasAssumption
          <6>2. Bits(linea, 5, 5 + n, m, b) = Bits(linea, 5, 5 + n, m, aux)
            <7>1. 5 \in Nat /\ 5 + n \in Nat /\ (5 + n) + m - 1 <= Len(linea)
              BY <2>1, <4>4, CuentasAssumption
            <7> QED
              BY <2>1, <7>1, BitsEnteros, CuentasAssumption
          <6> QED
            BY <6>1, <6>2 DEF FilaVisita
        <5> QED
          BY <3>4, <4>1, <5>1, <5>2, <5>3
      <4> QED
        BY <4>3, <4>4
    <3> QED
      BY <2>3, <3>0, <3>2, <3>3, <3>4
  <2>8. \A i \in DOMAIN visitas' :
          \/ i \in DOMAIN visitas /\ visitas'[i] = visitas[i]
          \/ i = Len(visitas) + 1 /\ visitas'[i] = fila
    <3>1. visitas \in Seq(FilasVisita)
      BY <2>5
    <3>2. fila \in FilasVisita
      BY <2>5
    <3> QED
      BY <2>4, <3>1, <3>2, AlAnexar
  <2> HIDE DEF fila
  <2>9. \A q : Escrita(q)' = Escrita(q)
    BY <2>1 DEF LeerLinea, Escrita
  <2>10. archivo' = archivo /\ salto' = salto
    BY <2>1 DEF LeerLinea
  <2>11. ASSUME NEW i \in DOMAIN visitas', base <= Len(archivo), ~Escrita(base + i)
         PROVE  \/ visitas'[i].cant_personas = 0
                \/ ~salto /\ i > 1 /\ visitas'[i] = visitas'[i - 1]
    <3>1. CASE i \in DOMAIN visitas /\ visitas'[i] = visitas[i]
      <4>1. i \in 1 .. Len(visitas)
        BY <2>5, <3>1
      <4>2. i > 1 => visitas'[i - 1] = visitas[i - 1]
        BY <2>12, <2>5, <4>1
      <4> QED
        BY <2>11, <3>1, <4>2 DEF CortadaNoPide
    <3>2. CASE i = Len(visitas) + 1 /\ visitas'[i] = fila
      <4>1. Len(visitas) > 0 => visitas'[Len(visitas)] = visitas[Len(visitas)]
        BY <2>12, <2>5, <2>2
      <4>2. i - 1 = Len(visitas) /\ (Len(visitas) > 0 => i > 1)
        BY <2>2, <3>2
      <4> QED
        BY <2>7, <2>11, <3>2, <4>1, <4>2
    <3> QED
      BY <2>8, <3>1, <3>2
  <2> QED
    BY <2>9, <2>10, <2>11 DEF CortadaNoPide
<1>2. CASE UNCHANGED <<entero, archivo, salto, visitas>>
  BY <1>2 DEF CortadaNoPide, Escrita
<1>3. CASE LeerPersona \/ LeerVehiculo \/ LeerUbicacion \/ LeerBloque
  BY <1>2, <1>3 DEF LeerPersona, LeerVehiculo, LeerUbicacion, LeerBloque, LeerLinea
<1>4. ASSUME NEW p \in 0 .. l - 1, InicioVentana(p) \/ Destino(p) PROVE CortadaNoPide'
  BY <1>2, <1>4 DEF InicioVentana, Destino, tablas
<1>5. CASE UNCHANGED vars
  BY <1>2, <1>5 DEF vars, tablas
<1> QED
  BY <1>1, <1>3, <1>4, <1>5 DEF Next

(* A visit whose line lacks its end asks for nobody, or repeats the one    *)
(* before when the file ends without a break                               *)
(* (SRP_InstanceInput.cpp:144-171).                                        *)
THEOREM CortadaNuncaPide == Spec => []CortadaNoPide
<1>1. Init => TypeOK /\ Orden /\ Rastro /\ CortadaNoPide
  BY TypeOKInit, OrdenInit, RastroInit, CortadaInit
<1>2. (TypeOK /\ Orden /\ Rastro /\ CortadaNoPide) /\ [Next]_vars
        => (TypeOK /\ Orden /\ Rastro /\ CortadaNoPide)'
  BY TypeOKPaso, OrdenPaso, RastroPaso, CortadaPaso
<1> QED
  BY <1>1, <1>2, PTL DEF Spec

-----------------------------------------------------------------------------
(* Lines that were not written                                             *)

(* The last row of the section being read bears the identifier of the line *)
(* last read.                                                              *)
Marcada(t) == t[Len(t)].id = Campo(linea, 1, SinTexto)

Marcas ==
  /\ Len(personas) > 0 /\ Len(vehiculos) = 0 => Marcada(personas)
  /\ Len(vehiculos) > 0 /\ Len(ubicaciones) = 0 => Marcada(vehiculos)
  /\ Len(ubicaciones) > 0 /\ Len(bloques) = 0 => Marcada(ubicaciones)
  /\ Len(bloques) > 0 /\ Len(visitas) = 0 => Marcada(bloques)
  /\ Len(visitas) > 0 => Marcada(visitas)

(* A row of a line that was not written has no identifier when the file    *)
(* ends with a break, and the one of the row before when it does not.      *)
HuecosDe(t, base) ==
  \A i \in DOMAIN t : base + i > Len(archivo) =>
    IF salto THEN t[i].id = SinTexto ELSE i > 1 => t[i].id = t[i - 1].id

Huecos ==
  /\ HuecosDe(personas, 0)
  /\ HuecosDe(vehiculos, n)
  /\ HuecosDe(ubicaciones, n + m)
  /\ HuecosDe(bloques, n + m + k)
  /\ HuecosDe(visitas, n + m + k + h)

LEMMA HuecosInit == Init => Marcas /\ Huecos
  BY DEF Init, Marcas, Huecos, HuecosDe

(* What a row of the line that follows does to its section *)
LEMMA HuecosAlAnexar ==
  ASSUME TypeOK, LeerLinea, NEW S, NEW t \in Seq(S), NEW f \in S, NEW t2, t2 = Append(t, f),
         NEW base \in Nat, leidas = base + Len(t), HuecosDe(t, base),
         f.id = Campo(linea', 1, SinTexto), Len(t) > 0 => Marcada(t)
  PROVE  HuecosDe(t2, base) /\ t2[Len(t2)].id = Campo(linea', 1, SinTexto)
<1>1. Len(t2) = Len(t) + 1 /\ t2[Len(t2)] = f /\ Len(t) \in Nat
  OBVIOUS
<1>2. Len(archivo) \in Nat
  BY DEF TypeOK
<1>3. ASSUME NEW i \in DOMAIN t2, base + i > Len(archivo)
      PROVE  IF salto THEN t2[i].id = SinTexto ELSE i > 1 => t2[i].id = t2[i - 1].id
  <2>1. CASE i \in DOMAIN t
    <3>1. t2[i] = t[i] /\ (i > 1 => t2[i - 1] = t[i - 1])
      BY <2>1
    <3>2. IF salto THEN t[i].id = SinTexto ELSE i > 1 => t[i].id = t[i - 1].id
      BY <1>3, <2>1 DEF HuecosDe
    <3> QED
      BY <3>1, <3>2
  <2>2. CASE i \notin DOMAIN t
    <3>1. i = Len(t) + 1 /\ t2[i] = f
      BY <1>1, <2>2
    <3>2. ~(leidas < Len(archivo))
      BY <1>1, <1>2, <1>3, <3>1
    <3>3. CASE salto
      <4>1. linea' = <<>>
        BY <3>2, <3>3 DEF LeerLinea
      <4>2. Campo(linea', 1, SinTexto) = SinTexto
        BY <4>1 DEF Campo
      <4> QED
        BY <3>1, <3>3, <4>2
    <3>4. CASE ~salto /\ i > 1
      <4>1. linea' = linea
        BY <3>2, <3>4 DEF LeerLinea
      <4>2. i - 1 = Len(t) /\ Len(t) > 0 /\ t2[i - 1] = t[Len(t)]
        BY <1>1, <3>1, <3>4
      <4>3. t[Len(t)].id = f.id
        BY <4>1, <4>2 DEF Marcada
      <4>4. t2[i].id = f.id
        BY <3>1
      <4>5. t2[i - 1].id = f.id
        BY <4>2, <4>3
      <4> QED
        BY <3>4, <4>4, <4>5
    <3>5. CASE ~salto /\ ~(i > 1)
      BY <3>5
    <3> QED
      BY <3>3, <3>4, <3>5
  <2> QED
    BY <2>1, <2>2
<1> QED
  BY <1>1, <1>3 DEF HuecosDe

LEMMA HuecosPaso == TypeOK /\ Orden /\ Marcas /\ Huecos /\ [Next]_vars => (Marcas /\ Huecos)'
<1> SUFFICES ASSUME TypeOK, Orden, Marcas, Huecos, [Next]_vars PROVE (Marcas /\ Huecos)'
  OBVIOUS
<1>0. ASSUME archivo' = archivo, salto' = salto, HuecosDe(personas', 0), HuecosDe(vehiculos', n),
             HuecosDe(ubicaciones', n + m), HuecosDe(bloques', n + m + k),
             HuecosDe(visitas', n + m + k + h)
      PROVE  Huecos'
  BY <1>0 DEF Huecos, HuecosDe
<1>l. /\ Len(personas) \in 0 .. n /\ Len(vehiculos) \in 0 .. m /\ Len(ubicaciones) \in 0 .. k
      /\ Len(bloques) \in 0 .. h /\ Len(visitas) \in 0 .. l
      /\ n \in Nat \ {0} /\ m \in Nat \ {0} /\ k \in Nat \ {0} /\ h \in Nat \ {0}
  BY LargosTipo, CuentasAssumption
<1>s. /\ personas \in Seq(FilasPersona) /\ vehiculos \in Seq(FilasVehiculo)
      /\ ubicaciones \in Seq(FilasUbicacion) /\ bloques \in Seq(FilasBloque)
      /\ visitas \in Seq(FilasVisita)
  BY DEF TypeOK
<1>1. CASE LeerPersona
  <2>1. PICK aux \in Basura : personas' = Append(personas, FilaPersona(linea', aux))
    BY <1>1 DEF LeerPersona
  <2>2. LeerLinea /\ UNCHANGED <<vehiculos, ubicaciones, bloques, visitas, archivo, salto>>
    BY <1>1 DEF LeerPersona, LeerLinea
  <2>3. FilaPersona(linea', aux) \in FilasPersona
    BY <2>2, LineaTipo, FilasTipo
  <2>4. FilaPersona(linea', aux).id = Campo(linea', 1, SinTexto)
    BY DEF FilaPersona
  <2>5. /\ Len(personas) < n
        /\ Len(vehiculos) = 0 /\ Len(ubicaciones) = 0 /\ Len(bloques) = 0 /\ Len(visitas) = 0
    BY <1>1, <1>l DEF LeerPersona, Orden
  <2>6. leidas = 0 + Len(personas) /\ (Len(personas) > 0 => Marcada(personas))
        /\ HuecosDe(personas, 0)
    BY <1>l, <2>5 DEF leidas, Marcas, Huecos
  <2>7. HuecosDe(personas', 0) /\ personas'[Len(personas')].id = Campo(linea', 1, SinTexto)
    BY <1>s, <2>1, <2>2, <2>3, <2>4, <2>6, HuecosAlAnexar
  <2>8. Marcas'
    BY <2>2, <2>5, <2>7 DEF Marcas, Marcada
  <2> QED
    BY <1>0, <2>2, <2>7, <2>8 DEF Huecos
<1>2. CASE LeerVehiculo
  <2>1. vehiculos' = Append(vehiculos, FilaVehiculo(linea'))
    BY <1>2 DEF LeerVehiculo
  <2>2. LeerLinea /\ UNCHANGED <<personas, ubicaciones, bloques, visitas, archivo, salto>>
    BY <1>2 DEF LeerVehiculo, LeerLinea
  <2>3. FilaVehiculo(linea') \in FilasVehiculo
    BY <2>2, LineaTipo, FilaVehiculoTipo
  <2>4. FilaVehiculo(linea').id = Campo(linea', 1, SinTexto)
    BY DEF FilaVehiculo
  <2>5. /\ Len(personas) = n /\ Len(vehiculos) < m
        /\ Len(ubicaciones) = 0 /\ Len(bloques) = 0 /\ Len(visitas) = 0
    BY <1>2, <1>l DEF LeerVehiculo, Orden
  <2>6. leidas = n + Len(vehiculos) /\ (Len(vehiculos) > 0 => Marcada(vehiculos))
        /\ HuecosDe(vehiculos, n) /\ n \in Nat
    BY <1>l, <2>5 DEF leidas, Marcas, Huecos
  <2>7. HuecosDe(vehiculos', n) /\ vehiculos'[Len(vehiculos')].id = Campo(linea', 1, SinTexto)
    BY <1>s, <2>1, <2>2, <2>3, <2>4, <2>6, HuecosAlAnexar
  <2>9. Len(vehiculos') # 0
    BY <1>s, <2>1, <2>3
  <2>8. Marcas'
    BY <2>2, <2>5, <2>7, <2>9 DEF Marcas, Marcada
  <2> QED
    BY <1>0, <2>2, <2>7, <2>8 DEF Huecos
<1>3. CASE LeerUbicacion
  <2>1. PICK a, b \in Basura : ubicaciones' = Append(ubicaciones, FilaUbicacion(linea', a, b))
    BY <1>3 DEF LeerUbicacion
  <2>2. LeerLinea /\ UNCHANGED <<personas, vehiculos, bloques, visitas, archivo, salto>>
    BY <1>3 DEF LeerUbicacion, LeerLinea
  <2>3. FilaUbicacion(linea', a, b) \in FilasUbicacion
    BY <2>2, LineaTipo, FilasTipo
  <2>4. FilaUbicacion(linea', a, b).id = Campo(linea', 1, SinTexto)
    BY DEF FilaUbicacion
  <2>5. /\ Len(personas) = n /\ Len(vehiculos) = m /\ Len(bloques) = 0 /\ Len(visitas) = 0
    BY <1>3, <1>l DEF LeerUbicacion, Orden
  <2>6. leidas = n + m + Len(ubicaciones) /\ (Len(ubicaciones) > 0 => Marcada(ubicaciones))
        /\ HuecosDe(ubicaciones, n + m) /\ n + m \in Nat
    BY <1>3, <1>l, <2>5 DEF leidas, Marcas, Huecos, LeerUbicacion
  <2>7. /\ HuecosDe(ubicaciones', n + m)
        /\ ubicaciones'[Len(ubicaciones')].id = Campo(linea', 1, SinTexto)
    BY <1>s, <2>1, <2>2, <2>3, <2>4, <2>6, HuecosAlAnexar
  <2>9. Len(ubicaciones') # 0 /\ Len(vehiculos) # 0
    BY <1>s, <1>l, <2>1, <2>3, <2>5
  <2>8. Marcas'
    BY <2>2, <2>5, <2>7, <2>9 DEF Marcas, Marcada
  <2> QED
    BY <1>0, <2>2, <2>7, <2>8 DEF Huecos
<1>4. CASE LeerBloque
  <2>1. PICK t \in obtenerTime(auxstring') :
          bloques' = Append(bloques, [id |-> Campo(linea', 1, SinTexto), timestamp |-> t])
    BY <1>4 DEF LeerBloque
  <2> DEFINE fila == [id |-> Campo(linea', 1, SinTexto), timestamp |-> t]
  <2>2. LeerLinea /\ UNCHANGED <<personas, vehiculos, ubicaciones, visitas, archivo, salto>>
    BY <1>4 DEF LeerBloque, LeerLinea
  <2>3. fila \in FilasBloque
    BY <2>2, LineaTipo, CampoTipo, FichasBasicas, TiempoTipo DEF FilasBloque
  <2>4. fila.id = Campo(linea', 1, SinTexto) /\ bloques' = Append(bloques, fila)
    BY <2>1
  <2> HIDE DEF fila
  <2>5. /\ Len(personas) = n /\ Len(vehiculos) = m /\ Len(ubicaciones) = k
        /\ Len(visitas) = 0 /\ Len(bloques) < h
    BY <1>4, <1>l DEF LeerBloque, Orden
  <2>6. leidas = n + m + k + Len(bloques) /\ (Len(bloques) > 0 => Marcada(bloques))
        /\ HuecosDe(bloques, n + m + k) /\ n + m + k \in Nat
    BY <1>l, <2>5 DEF leidas, Marcas, Huecos
  <2>7. HuecosDe(bloques', n + m + k) /\ bloques'[Len(bloques')].id = Campo(linea', 1, SinTexto)
    BY <1>s, <2>2, <2>3, <2>4, <2>6, HuecosAlAnexar
  <2>9. Len(bloques') # 0 /\ Len(vehiculos) # 0 /\ Len(ubicaciones) # 0
    BY <1>s, <1>l, <2>3, <2>4, <2>5
  <2>8. Marcas'
    BY <2>2, <2>5, <2>7, <2>9 DEF Marcas, Marcada
  <2> QED
    BY <1>0, <2>2, <2>7, <2>8 DEF Huecos
<1>5. CASE LeerVisita
  <2>1. PICK aux \in Basura : visitas' = Append(visitas, FilaVisita(linea', aux))
    BY <1>5 DEF LeerVisita
  <2>2. LeerLinea /\ UNCHANGED <<personas, vehiculos, ubicaciones, bloques, archivo, salto>>
    BY <1>5 DEF LeerVisita, LeerLinea
  <2>3. FilaVisita(linea', aux) \in FilasVisita
    BY <2>2, LineaTipo, FilasTipo
  <2>4. FilaVisita(linea', aux).id = Campo(linea', 1, SinTexto)
    BY DEF FilaVisita
  <2>5. Len(personas) = n /\ Len(vehiculos) = m /\ Len(ubicaciones) = k /\ Len(bloques) = h
    BY <1>5, <1>l DEF LeerVisita, Orden
  <2>6. leidas = n + m + k + h + Len(visitas) /\ (Len(visitas) > 0 => Marcada(visitas))
        /\ HuecosDe(visitas, n + m + k + h) /\ n + m + k + h \in Nat
    BY <1>l, <2>5 DEF leidas, Marcas, Huecos
  <2>7. /\ HuecosDe(visitas', n + m + k + h)
        /\ visitas'[Len(visitas')].id = Campo(linea', 1, SinTexto)
    BY <1>s, <2>1, <2>2, <2>3, <2>4, <2>6, HuecosAlAnexar
  <2>9. Len(vehiculos) # 0 /\ Len(ubicaciones) # 0 /\ Len(bloques) # 0 /\ Len(visitas') # 0
    BY <1>s, <1>l, <2>1, <2>3, <2>5
  <2>8. Marcas'
    BY <2>2, <2>5, <2>7, <2>9 DEF Marcas, Marcada
  <2> QED
    BY <1>0, <2>2, <2>7, <2>8 DEF Huecos
<1>6. CASE UNCHANGED <<archivo, salto, linea, tablas>>
  BY <1>6 DEF tablas, Marcas, Marcada, Huecos, HuecosDe
<1>7. ASSUME NEW p \in 0 .. l - 1, InicioVentana(p) \/ Destino(p)
      PROVE  UNCHANGED <<archivo, salto, linea, tablas>>
  BY <1>7 DEF InicioVentana, Destino
<1>8. CASE UNCHANGED vars
  BY <1>6, <1>8 DEF vars
<1> QED
  BY <1>1, <1>2, <1>3, <1>4, <1>5, <1>6, <1>7, <1>8 DEF Next

(* With no error the map leads each row to itself, so that no two rows of  *)
(* a section bear the same identifier.                                     *)
LEMMA SinErroresDistintas ==
  ASSUME NEW t, IsFiniteSet(DOMAIN t), NEW mapa, errores(t, mapa) = 0,
         DOMAIN t \subseteq Int, NEW i \in DOMAIN t, NEW j \in DOMAIN t, t[i].id = t[j].id
  PROVE  i = j
<1> DEFINE E == {x \in DOMAIN t : x - 1 # mapa[t[x].id]}
<1>1. IsFiniteSet(E)
  BY FS_Subset
<1>2. E = {}
  BY <1>1, FS_EmptySet DEF errores
<1> QED
  BY <1>2

(* So no section lacks two lines, nor one after another of the section     *)
(* when the file ends without a break.                                     *)
LEMMA FaltaUna ==
  ASSUME TypeOK, NEW S, NEW t \in Seq(S), NEW base \in Nat, NEW mapa,
         errores(t, mapa) = 0, HuecosDe(t, base)
  PROVE  /\ Cardinality(Faltan(base, Len(t))) <= 1
         /\ Faltan(base, Len(t)) # {} /\ ~salto => Len(archivo) <= base
<1>1. Len(archivo) \in Nat /\ Len(t) \in Nat /\ DOMAIN t = 1 .. Len(t) /\ IsFiniteSet(DOMAIN t)
  <2>1. Len(archivo) \in Nat /\ Len(t) \in Nat /\ DOMAIN t = 1 .. Len(t)
    BY DEF TypeOK
  <2>2. IsFiniteSet(1 .. Len(t))
    BY <2>1, FS_Interval
  <2> QED
    BY <2>1, <2>2
<1>d. \A a, b \in DOMAIN t : t[a].id = t[b].id => a = b
  BY <1>1, SinErroresDistintas
<1>2. ASSUME NEW q \in Faltan(base, Len(t))
      PROVE  /\ q - base \in DOMAIN t /\ q \in Int /\ base + (q - base) > Len(archivo)
             /\ salto => t[q - base].id = SinTexto
             /\ ~salto => q = base + 1
  <2>1. q - base \in DOMAIN t /\ q \in Int /\ base + (q - base) > Len(archivo)
    BY <1>1, <1>2 DEF Faltan
  <2>2. salto => t[q - base].id = SinTexto
    BY <2>1 DEF HuecosDe
  <2>3. ASSUME ~salto, q # base + 1 PROVE FALSE
    <3>1. q - base > 1 /\ q - base - 1 \in DOMAIN t
      BY <1>1, <2>1, <2>3
    <3>2. t[q - base].id = t[q - base - 1].id
      BY <2>1, <2>3, <3>1 DEF HuecosDe
    <3>3. q - base = q - base - 1
      BY <1>d, <2>1, <3>1, <3>2
    <3> QED
      BY <2>1, <3>3
  <2> QED
    BY <2>1, <2>2, <2>3
<1>3. ASSUME NEW q \in Faltan(base, Len(t)), NEW r \in Faltan(base, Len(t)) PROVE q = r
  <2>1. CASE salto
    <3>1. /\ q - base \in DOMAIN t /\ t[q - base].id = SinTexto /\ q \in Int
          /\ r - base \in DOMAIN t /\ t[r - base].id = SinTexto /\ r \in Int
      BY <1>2, <1>3, <2>1
    <3>2. q - base = r - base
      BY <1>d, <3>1, Zenon
    <3> QED
      BY <3>1, <3>2
  <2>2. CASE ~salto
    BY <1>2, <1>3, <2>2
  <2> QED
    BY <2>1, <2>2
<1>4. Cardinality(Faltan(base, Len(t))) <= 1
  <2>1. CASE Faltan(base, Len(t)) = {}
    BY <2>1, FS_EmptySet
  <2>2. ASSUME NEW q \in Faltan(base, Len(t)) PROVE Cardinality(Faltan(base, Len(t))) <= 1
    <3>1. Faltan(base, Len(t)) = {q}
      BY <1>3, <2>2
    <3>2. Cardinality({q}) = 1
      BY FS_Singleton
    <3> QED
      BY <3>1, <3>2
  <2> QED
    BY <2>1, <2>2
<1>5. ASSUME NEW q \in Faltan(base, Len(t)), ~salto PROVE Len(archivo) <= base
  BY <1>1, <1>2, <1>5
<1> QED
  BY <1>4, <1>5

LEMMA DetectaSiLeida == TypeOK /\ Orden /\ Huecos => PruebaDetecta
<1> SUFFICES ASSUME TypeOK, Orden, Huecos, Leida,
                    errores(personas, mapas.personas) = 0,
                    errores(vehiculos, mapas.vehiculos) = 0,
                    errores(ubicaciones, mapas.ubicaciones) = 0,
                    errores(bloques, mapas.bloquesh) = 0,
                    errores(visitas, mapas.visitas) = 0
             PROVE  \A s \in {<<0, n>>, <<n, m>>, <<n + m, k>>, <<n + m + k, h>>,
                              <<n + m + k + h, l>>} :
                      /\ Cardinality(Faltan(s[1], s[2])) <= 1
                      /\ Faltan(s[1], s[2]) # {} /\ ~salto => Len(archivo) <= s[1]
  BY Zenon DEF PruebaDetecta
<1> DEFINE Una(base, w) == /\ Cardinality(Faltan(base, w)) <= 1
                           /\ Faltan(base, w) # {} /\ ~salto => Len(archivo) <= base
<1>1. /\ Len(personas) = n /\ Len(vehiculos) = m /\ Len(ubicaciones) = k
      /\ Len(bloques) = h /\ Len(visitas) = l
  BY LargosTipo, CuentasAssumption DEF Orden, Leida
<1>2. /\ personas \in Seq(FilasPersona) /\ vehiculos \in Seq(FilasVehiculo)
      /\ ubicaciones \in Seq(FilasUbicacion) /\ bloques \in Seq(FilasBloque)
      /\ visitas \in Seq(FilasVisita)
  BY DEF TypeOK
<1>3. n \in Nat /\ n + m \in Nat /\ n + m + k \in Nat /\ n + m + k + h \in Nat
  BY CuentasAssumption
<1>4. Una(0, n)
  BY <1>1, <1>2, FaltaUna DEF Huecos
<1>5. Una(n, m)
  BY <1>1, <1>2, <1>3, FaltaUna DEF Huecos
<1>6. Una(n + m, k)
  BY <1>1, <1>2, <1>3, FaltaUna DEF Huecos
<1>7. Una(n + m + k, h)
  BY <1>1, <1>2, <1>3, FaltaUna DEF Huecos
<1>8. Una(n + m + k + h, l)
  BY <1>1, <1>2, <1>3, FaltaUna DEF Huecos
<1> QED
  <2> HIDE DEF Una
  <2>1. \A s \in {<<0, n>>, <<n, m>>, <<n + m, k>>, <<n + m + k, h>>, <<n + m + k + h, l>>} :
          Una(s[1], s[2])
    BY <1>4, <1>5, <1>6, <1>7, <1>8
  <2> QED
    BY <2>1 DEF Una

(* The driver finds no error only in a file of which no section lacks two  *)
(* lines, nor one after another of the same section that ends without a    *)
(* break (SRPlanner_test.cpp:21-61).                                       *)
THEOREM LaPruebaDetecta == Spec => []PruebaDetecta
<1>1. Init => TypeOK /\ Orden /\ Marcas /\ Huecos
  BY TypeOKInit, OrdenInit, HuecosInit
<1>2. (TypeOK /\ Orden /\ Marcas /\ Huecos) /\ [Next]_vars
        => (TypeOK /\ Orden /\ Marcas /\ Huecos)'
  BY TypeOKPaso, OrdenPaso, HuecosPaso
<1>3. TypeOK /\ Orden /\ Huecos => PruebaDetecta
  BY DetectaSiLeida
<1> QED
  BY <1>1, <1>2, <1>3, PTL DEF Spec

-----------------------------------------------------------------------------
(* The instance a whole file gives                                         *)

(* An identifier leads to a row of its section, whether or not a line      *)
(* describes it.                                                           *)
LEMMA PosEnTabla ==
  ASSUME NEW S, NEW t \in Seq(S), Len(t) > 0, NEW mapa, EsMapa(mapa), UltimaFila(t, mapa), NEW id
  PROVE  /\ Pos(mapa, id) \in 0 .. Len(t) - 1
         /\ (\E i \in DOMAIN t : t[i].id = id) => id \in DOMAIN mapa
<1>1. ASSUME NEW i \in DOMAIN t, t[i].id = id
      PROVE  id \in DOMAIN mapa /\ mapa[id] \in 0 .. Len(t) - 1
  <2>1. id \in DOMAIN mapa /\ mapa[id] + 1 \in i .. Len(t)
    BY <1>1 DEF UltimaFila
  <2>2. mapa[id] \in Nat
    BY <2>1 DEF EsMapa
  <2> QED
    BY <2>1, <2>2
<1>2. ASSUME \A i \in DOMAIN t : t[i].id # id
      PROVE  Pos(mapa, id) = 0
  BY <1>2 DEF UltimaFila, Pos
<1>3. Len(t) \in Nat
  OBVIOUS
<1> QED
  BY <1>1, <1>2, <1>3 DEF Pos

(* What is true of the tables once a whole file was read *)
Entera ==
  /\ Leida /\ archivo = entero
  /\ TypeOK /\ Orden /\ MapasAlDia /\ DanoContenido

LEMMA LargosFinales ==
  Entera => /\ Len(personas) = n /\ Len(vehiculos) = m /\ Len(ubicaciones) = k
            /\ Len(bloques) = h /\ Len(visitas) = l
  BY LargosTipo, CuentasAssumption DEF Entera, Orden, Leida

LEMMA LineasFinales ==
  ASSUME Entera, NEW r \in 1 .. LineasDelArchivo
  PROVE  Escrita(r) /\ entero[r] \in Seq(Fichas)
<1>1. EsArchivo(entero) /\ archivo = entero
  BY ArchivosAssumption DEF Entera, TypeOK
<1> QED
  BY <1>1 DEF EsArchivo, Escrita

LEMMA PersonasFinales ==
  ASSUME Entera, NEW p \in 0 .. n - 1
  PROVE  /\ personas[p + 1].maxvisitas \in Nat
         /\ personas[p + 1].horasdisp \in SUBSET (0 .. h - 1)
<1>1. p + 1 \in 1 .. n /\ p + 1 \in 1 .. LineasDelArchivo
  BY CuentasAssumption DEF LineasDelArchivo
<1>2. personas \in Seq(FilasPersona) /\ p + 1 \in DOMAIN personas
  BY <1>1, LargosFinales DEF Entera, TypeOK
<1>3. PICK basura \in Basura : TRUE
  BY TextosAssumption
<1>4. personas[p + 1] = FilaPersona(entero[p + 1], basura)
  BY <1>1, <1>2, LineasFinales DEF Entera, DanoContenido
<1>5. Len(entero[p + 1]) = 2 + h + n + l /\ entero[p + 1][2] \in Nat
  BY <1>1, ArchivosAssumption, ContenidoAssumption DEF Entera, TypeOK, EsArchivo, ConNumeros
<1>6. personas[p + 1].maxvisitas = Campo(entero[p + 1], 2, 0)
  BY <1>4 DEF FilaPersona
<1>7. personas[p + 1].maxvisitas \in Nat
  BY <1>5, <1>6, CuentasAssumption DEF Campo
<1>8. personas[p + 1] \in FilasPersona
  BY <1>2
<1> QED
  BY <1>7, <1>8 DEF FilasPersona

LEMMA VehiculosFinales ==
  ASSUME Entera, NEW ve \in 0 .. m - 1
  PROVE  vehiculos[ve + 1].cost \in Nat
<1> DEFINE r == n + (ve + 1)
<1>1. ve + 1 \in 1 .. m /\ r \in n + 1 .. n + m /\ r \in 1 .. LineasDelArchivo
  BY CuentasAssumption DEF LineasDelArchivo
<1>2. ve + 1 \in DOMAIN vehiculos
  BY <1>1, LargosFinales DEF Entera, TypeOK
<1>3. PICK basura \in Basura : TRUE
  BY TextosAssumption
<1>4. vehiculos[ve + 1] = FilaVehiculo(entero[r])
  BY <1>1, <1>2, <1>3, LineasFinales DEF Entera, DanoContenido
<1>5. Len(entero[r]) = 3 /\ entero[r][3] \in Nat
  BY <1>1, ArchivosAssumption, ContenidoAssumption DEF Entera, TypeOK, EsArchivo, ConNumeros
<1> QED
  BY <1>4, <1>5 DEF FilaVehiculo, Campo

LEMMA UbicacionesFinales ==
  ASSUME Entera, NEW j \in 0 .. k - 1
  PROVE  /\ ubicaciones[1].dist_mins[j].first \in Nat
         /\ ubicaciones[1].dist_mins[j].second \in Nat
<1> DEFINE r == n + m + 1
<1>1. /\ 1 \in 1 .. k /\ r \in n + m + 1 .. n + m + k /\ r \in 1 .. LineasDelArchivo
      /\ 2 + 2 * j \in 2 .. 1 + 2 * k /\ 3 + 2 * j \in 2 .. 1 + 2 * k
  BY CuentasAssumption DEF LineasDelArchivo
<1>2. 1 \in DOMAIN ubicaciones
  BY <1>1, LargosFinales DEF Entera, TypeOK
<1>3. PICK basura \in Basura : TRUE
  BY TextosAssumption
<1>4. ubicaciones[1] = FilaUbicacion(entero[r], basura, basura)
  BY <1>1, <1>2, LineasFinales DEF Entera, DanoContenido
<1>5. /\ Len(entero[r]) = 1 + 2 * k
      /\ entero[r][2 + 2 * j] \in Nat /\ entero[r][3 + 2 * j] \in Nat
  BY <1>1, ArchivosAssumption, ContenidoAssumption DEF Entera, TypeOK, EsArchivo, ConNumeros
<1>6. /\ ubicaciones[1].dist_mins[j].first = Leido(entero[r], 2, 2 + 2 * j, 2, basura)
      /\ ubicaciones[1].dist_mins[j].second = Leido(entero[r], 3, 3 + 2 * j, 2, basura)
  BY <1>4 DEF FilaUbicacion
<1>7. 2 + 2 * j <= Len(entero[r]) /\ 3 + 2 * j <= Len(entero[r])
  BY <1>1, <1>5
<1> QED
  BY <1>5, <1>6, <1>7 DEF Leido

LEMMA BloquesFinales ==
  ASSUME Entera, NEW b \in 0 .. h - 1
  PROVE  bloques[b + 1].timestamp \in Nat
<1> DEFINE r == n + m + k + (b + 1)
<1>1. /\ b + 1 \in 1 .. h /\ r \in n + m + k + 1 .. n + m + k + h
      /\ r \in 1 .. LineasDelArchivo
  BY CuentasAssumption DEF LineasDelArchivo
<1>2. b + 1 \in DOMAIN bloques
  BY <1>1, LargosFinales DEF Entera, TypeOK
<1>3. PICK basura \in Basura : TRUE
  BY TextosAssumption
<1>4. bloques[b + 1].timestamp \in obtenerTime(entero[r][2])
  BY <1>1, <1>2, <1>3, LineasFinales DEF Entera, DanoContenido
<1>5. entero[r][2] \in DOMAIN Hora
  BY <1>1, ContenidoAssumption DEF Entera, TypeOK, ConNumeros
<1>6. Hora[entero[r][2]] \in Int /\ Hora[entero[r][2]] >= 60
  BY <1>5, TextosAssumption, ContenidoAssumption
<1>7. bloques[b + 1].timestamp \in {Hora[entero[r][2]], Hora[entero[r][2]] - 60}
  BY <1>4, <1>5 DEF obtenerTime
<1> QED
  BY <1>6, <1>7

LEMMA VisitasFinales ==
  ASSUME Entera, NEW p \in 0 .. l - 1
  PROVE  /\ p + 1 \in DOMAIN visitas
         /\ visitas[p + 1].personas \in SUBSET (0 .. n - 1)
         /\ visitas[p + 1].vehiculos \in SUBSET (0 .. m - 1)
         /\ visitas[p + 1].testimado_bloques \in Nat \ {0}
         /\ visitas[p + 1].cant_personas \in Nat
<1> DEFINE r == n + m + k + h + (p + 1)
<1>1. /\ p + 1 \in 1 .. l /\ r \in n + m + k + h + 1 .. LineasDelArchivo
      /\ r \in 1 .. LineasDelArchivo
  BY CuentasAssumption DEF LineasDelArchivo
<1>2. p + 1 \in DOMAIN visitas /\ visitas \in Seq(FilasVisita)
  BY <1>1, LargosFinales DEF Entera, TypeOK
<1>3. PICK basura \in Basura : TRUE
  BY TextosAssumption
<1>4. visitas[p + 1] = FilaVisita(entero[r], basura)
  BY <1>1, <1>2, LineasFinales DEF Entera, DanoContenido
<1>5. /\ Len(entero[r]) = 7 + n + m
      /\ entero[r][5 + n + m] \in Nat \ {0} /\ entero[r][7 + n + m] \in Nat
  BY <1>1, ArchivosAssumption, ContenidoAssumption DEF Entera, TypeOK, EsArchivo, ConNumeros
<1>6. /\ visitas[p + 1].testimado_bloques = Campo(entero[r], 5 + n + m, 0)
      /\ visitas[p + 1].cant_personas = Campo(entero[r], 7 + n + m, 0)
  BY <1>4 DEF FilaVisita
<1>7. 5 + n + m <= Len(entero[r]) /\ 7 + n + m <= Len(entero[r])
  <2>1. 5 + n + m <= 7 + n + m /\ 7 + n + m <= 7 + n + m
    BY CuentasAssumption
  <2> QED
    BY <1>5, <2>1
<1>8. visitas[p + 1] \in FilasVisita
  BY <1>2
<1> QED
  BY <1>2, <1>5, <1>6, <1>7, <1>8 DEF Campo, FilasVisita

LEMMA PosicionesFinales ==
  ASSUME Entera, NEW id
  PROVE  /\ Pos(mapas.ubicaciones, id) \in 0 .. k - 1
         /\ Pos(mapas.bloquesh, id) \in 0 .. h - 1
         /\ id \in {bloques[i].id : i \in DOMAIN bloques} => id \in DOMAIN mapas.bloquesh
<1>1. /\ ubicaciones \in Seq(FilasUbicacion) /\ bloques \in Seq(FilasBloque)
      /\ EsMapa(mapas.ubicaciones) /\ EsMapa(mapas.bloquesh)
      /\ UltimaFila(ubicaciones, mapas.ubicaciones) /\ UltimaFila(bloques, mapas.bloquesh)
  BY DEF Entera, TypeOK, MapasAlDia
<1>2. Len(ubicaciones) = k /\ Len(bloques) = h /\ k > 0 /\ h > 0
  BY LargosFinales, CuentasAssumption
<1>3. Pos(mapas.ubicaciones, id) \in 0 .. Len(ubicaciones) - 1
  BY <1>1, <1>2, PosEnTabla
<1>4. /\ Pos(mapas.bloquesh, id) \in 0 .. Len(bloques) - 1
      /\ (\E i \in DOMAIN bloques : bloques[i].id = id) => id \in DOMAIN mapas.bloquesh
  BY <1>1, <1>2, PosEnTabla
<1> QED
  BY <1>2, <1>3, <1>4

LEMMA DaInstancia == Entera => I!EsInstancia(AInstancia)
<1> SUFFICES ASSUME Entera PROVE I!EsInstancia(AInstancia)
  OBVIOUS
<1>0. /\ AInstancia.n = n /\ AInstancia.m = m /\ AInstancia.h = h /\ AInstancia.l = l
      /\ AInstancia.z = z
  BY DEF AInstancia
<1>1. /\ I!Personas(AInstancia) = 0 .. n - 1 /\ I!Vehiculos(AInstancia) = 0 .. m - 1
      /\ I!Bloques(AInstancia) = 0 .. h - 1 /\ I!Visitas(AInstancia) = 0 .. l - 1
  BY <1>0 DEF I!Personas, I!Vehiculos, I!Bloques, I!Visitas
<1>2. /\ AInstancia.pers_maxvisitas \in [0 .. n - 1 -> Nat]
      /\ AInstancia.pers_horasdisp \in [0 .. n - 1 -> SUBSET (0 .. h - 1)]
  BY PersonasFinales DEF AInstancia
<1>3. AInstancia.vehi_cost \in [0 .. m - 1 -> Nat]
  BY VehiculosFinales DEF AInstancia
<1>4. AInstancia.bloque_timestamp \in [0 .. h - 1 -> Nat]
  BY BloquesFinales DEF AInstancia
<1>5. /\ AInstancia.visita_bloque_inicio \in [0 .. l - 1 -> 0 .. h - 1]
      /\ AInstancia.visita_bloque_fin \in [0 .. l - 1 -> 0 .. h - 1]
  BY PosicionesFinales DEF AInstancia
<1>6. /\ AInstancia.visita_personas \in [0 .. l - 1 -> SUBSET (0 .. n - 1)]
      /\ AInstancia.visita_vehiculos \in [0 .. l - 1 -> SUBSET (0 .. m - 1)]
      /\ AInstancia.visita_testimado_bloques \in [0 .. l - 1 -> Nat \ {0}]
      /\ AInstancia.visita_cant_personas \in [0 .. l - 1 -> Nat]
  BY VisitasFinales DEF AInstancia
<1>7. /\ AInstancia.minutos \in [0 .. l - 1 -> Nat]
      /\ AInstancia.distancia \in [0 .. l - 1 -> Nat]
  BY PosicionesFinales, UbicacionesFinales DEF AInstancia, DelServiu
<1>8. n \in Nat \ {0} /\ m \in Nat \ {0} /\ h \in Nat \ {0} /\ l \in Nat \ {0} /\ z \in Nat \ {0}
  BY CuentasAssumption, ContenidoAssumption
<1> QED
  BY <1>0, <1>1, <1>2, <1>3, <1>4, <1>5, <1>6, <1>7, <1>8 DEF I!EsInstancia

LEMMA MismaVentana ==
  ASSUME Entera, NEW p \in 0 .. l - 1, Conocidos(p), mapas.visitas[visitas[p + 1].id] = p
  PROVE  /\ I!getInicioVentanaVisita(AInstancia, p) = getInicioVentanaVisita(visitas[p + 1].id)
         /\ AInstancia.bloque_timestamp[AInstancia.visita_bloque_fin[p]] + z
              = getFinVetanaVisita(visitas[p + 1].id)
<1> DEFINE v == visitas[p + 1]
<1>1. v.id \in DOMAIN mapas.visitas /\ mapas.visitas[v.id] = p
  BY VisitasFinales DEF Entera, MapasAlDia, UltimaFila
<1>2. v.bloque_inicio \in DOMAIN mapas.bloquesh /\ v.bloque_fin \in DOMAIN mapas.bloquesh
  BY PosicionesFinales DEF Conocidos
<1>3. ASSUME NEW b \in {v.bloque_inicio, v.bloque_fin}
      PROVE  /\ mapas.bloquesh[b] \in 0 .. h - 1 /\ Pos(mapas.bloquesh, b) = mapas.bloquesh[b]
             /\ AInstancia.bloque_timestamp[mapas.bloquesh[b]]
                  = bloques[mapas.bloquesh[b] + 1].timestamp
  <2>1. b \in DOMAIN mapas.bloquesh /\ Pos(mapas.bloquesh, b) \in 0 .. h - 1
    BY <1>2, PosicionesFinales
  <2>2. Pos(mapas.bloquesh, b) = mapas.bloquesh[b]
    BY <2>1 DEF Pos
  <2> QED
    BY <2>1, <2>2 DEF AInstancia
<1>4. /\ AInstancia.visita_bloque_inicio[p] = mapas.bloquesh[v.bloque_inicio]
      /\ AInstancia.visita_bloque_fin[p] = mapas.bloquesh[v.bloque_fin]
  BY <1>3 DEF AInstancia
<1> HIDE DEF v
<1>5. Consulta(visitas, mapas.visitas, v.id, "bloque_inicio", SinTexto) = v.bloque_inicio
      /\ Consulta(visitas, mapas.visitas, v.id, "bloque_fin", SinTexto) = v.bloque_fin
  BY <1>1 DEF Consulta, v
<1>6. getInicioVentanaVisita(v.id) = bloques[mapas.bloquesh[v.bloque_inicio] + 1].timestamp
  BY <1>1, <1>2, <1>5 DEF getInicioVentanaVisita, Consulta
<1>7. getFinVetanaVisita(v.id) = bloques[mapas.bloquesh[v.bloque_fin] + 1].timestamp + z
  BY <1>1, <1>2, <1>5 DEF getFinVetanaVisita, Consulta
<1>8. I!getInicioVentanaVisita(AInstancia, p)
        = AInstancia.bloque_timestamp[AInstancia.visita_bloque_inicio[p]]
  BY DEF I!getInicioVentanaVisita
<1> QED
  BY <1>3, <1>4, <1>6, <1>7, <1>8 DEF v

(* A whole file gives the planner an instance, whose windows are those the *)
(* queries answer (SRP_InstanceInput.cpp:337-375).                         *)
THEOREM SiempreEntregaInstancia == Spec => []EntregaInstancia
<1>1. Init => TypeOK /\ Orden /\ MapasAlDia /\ DanoContenido
  BY TypeOKInit, OrdenInit, MapasAlDiaInit, DanoInit
<1>2. (TypeOK /\ Orden /\ MapasAlDia /\ DanoContenido) /\ [Next]_vars
        => (TypeOK /\ Orden /\ MapasAlDia /\ DanoContenido)'
  BY TypeOKPaso, OrdenPaso, MapasAlDiaPaso, DanoPaso
<1>3. TypeOK /\ Orden /\ MapasAlDia /\ DanoContenido => EntregaInstancia
  BY DaInstancia, MismaVentana DEF EntregaInstancia, Entera
<1> QED
  BY <1>1, <1>2, <1>3, PTL DEF Spec

=============================================================================
