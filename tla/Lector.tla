------------------------------- MODULE Lector -------------------------------
(***************************************************************************)
(* The constructor of InstanceInput (SRP_InstanceInput.cpp:7-173), which   *)
(* reads the file of an instance a line at a time, and the queries that    *)
(* find what it read by identifier.                                        *)
(*                                                                         *)
(* A line is the sequence of its fields.  Identifiers and texts of times   *)
(* are members of a set, numbers are integers.  The file may have been     *)
(* written only in part: it ends after any field, with or without a line   *)
(* break, and one line may lack its last fields.  Its first line, which    *)
(* counts the rest, is whole.  Nothing in the code looks at the state of   *)
(* the streams, so what happens then is what the failed reads leave.       *)
(***************************************************************************)
EXTENDS Integers, Sequences, FiniteSets

CONSTANTS
  n, m, k, h, l,  \* people, vehicles, places, blocks and visits of the file
  z, viatico,     \* minutes of a block; the last number of the first line
  Textos,         \* identifiers and texts of times
  Archivos,       \* whole files, after the first line
  Hora,           \* the time, in minutes, each text of a time stands for
  Tiempos,        \* times that a text that is not a time may give
  Basura,         \* values of a variable nothing was read into
  SinTexto        \* the empty text

Fichas == Textos \cup Int

LineasDelArchivo == n + m + k + h + l

EsArchivo(a) ==
  /\ a \in Seq(Seq(Fichas))
  /\ Len(a) = LineasDelArchivo
  /\ \A r \in 1 .. n : Len(a[r]) = 2 + h + n + l
  /\ \A r \in n + 1 .. n + m : Len(a[r]) = 3
  /\ \A r \in n + m + 1 .. n + m + k : Len(a[r]) = 1 + 2 * k
  /\ \A r \in n + m + k + 1 .. n + m + k + h : Len(a[r]) = 2
  /\ \A r \in n + m + k + h + 1 .. LineasDelArchivo : Len(a[r]) = 7 + n + m

(* What the generator writes where a line has numbers and times            *)
(* (generate_input.cpp:54-275): amounts, at least a block for each visit,  *)
(* and times that can be read                                              *)
ConNumeros(a) ==
  /\ \A r \in 1 .. n : a[r][2] \in Nat
  /\ \A r \in n + 1 .. n + m : a[r][3] \in Nat
  /\ \A r \in n + m + 1 .. n + m + k : \A c \in 2 .. 1 + 2 * k : a[r][c] \in Nat
  /\ \A r \in n + m + k + 1 .. n + m + k + h : a[r][2] \in DOMAIN Hora
  /\ \A r \in n + m + k + h + 1 .. LineasDelArchivo :
       a[r][5 + n + m] \in Nat \ {0} /\ a[r][7 + n + m] \in Nat

ASSUME CuentasAssumption ==
  n \in Nat \ {0} /\ m \in Nat \ {0} /\ k \in Nat \ {0} /\ h \in Nat \ {0} /\ l \in Nat \ {0}
  /\ z \in Int /\ viatico \in Int
ASSUME TextosAssumption ==
  /\ SinTexto \in Textos /\ DOMAIN Hora \subseteq Textos
  /\ \A t \in DOMAIN Hora : Hora[t] \in Int
  /\ Tiempos \subseteq Int /\ Basura \subseteq Int /\ Basura # {}
ASSUME ArchivosAssumption == \A a \in Archivos : EsArchivo(a)
(* Only EntregaInstancia needs this one. *)
ASSUME ContenidoAssumption ==
  /\ z \in Nat \ {0}
  /\ \A a \in Archivos : ConNumeros(a)
  /\ \A t \in DOMAIN Hora : Hora[t] >= 60

VARIABLES
  entero,    \* history: the whole file
  archivo,   \* its lines that were written
  salto,     \* whether the last of them ends in a line break
  linea,     \* the line last read
  personas, vehiculos, ubicaciones, bloques, visitas,  \* the vectors, a row each
  auxstring, \* the text of a time last read
  mapas      \* the maps from identifiers to positions

tablas == <<personas, vehiculos, ubicaciones, bloques, visitas>>
vars   == <<entero, archivo, salto, linea, tablas, auxstring, mapas>>

-----------------------------------------------------------------------------
(* What was written of file a: its first r lines, of them line q only as   *)
(* far as its field c                                                      *)
Escrito(a, r, q, c) ==
  [x \in 1 .. r |-> IF x = q THEN SubSeq(a[x], 1, c) ELSE a[x]]

MapaVacio == [x \in {} |-> 0]

Init ==
  /\ entero \in Archivos
  /\ \/ archivo = <<>>
     \/ \E r \in 1 .. LineasDelArchivo : \E q \in 1 .. r : \E c \in 1 .. Len(entero[q]) :
          archivo = Escrito(entero, r, q, c)
  /\ salto \in BOOLEAN
  /\ linea = <<n, m, k, h, z, l, viatico>>
  /\ personas = <<>> /\ vehiculos = <<>> /\ ubicaciones = <<>>
  /\ bloques = <<>> /\ visitas = <<>>
  /\ auxstring = SinTexto
  /\ mapas = [personas |-> MapaVacio, vehiculos |-> MapaVacio, ubicaciones |-> MapaVacio,
              bloquesh |-> MapaVacio, visitas |-> MapaVacio]

-----------------------------------------------------------------------------
(* Reading a line and its fields                                           *)

leidas == Len(personas) + Len(vehiculos) + Len(ubicaciones) + Len(bloques) + Len(visitas)

LeerLinea_sinOtroStream ==
  /\ linea' = IF leidas > 0 /\ Len(linea) < Len(entero[leidas]) THEN <<>>
              ELSE IF leidas < Len(archivo) THEN archivo[leidas + 1]
              ELSE IF salto THEN <<>> ELSE linea
  /\ UNCHANGED <<entero, archivo, salto>>

(* getline leaves the text alone once a line without a break was read: all *)
(* the lines that follow are that one.  After a break it finds no text.    *)
LeerLinea ==
  /\ linea' = IF leidas < Len(archivo) THEN archivo[leidas + 1]
              ELSE IF salto THEN <<>> ELSE linea
  /\ UNCHANGED <<entero, archivo, salto>>

(* A read past the end of the line leaves the variable as it was. *)
Campo(x, c, antes) == IF c <= Len(x) THEN x[c] ELSE antes

(* The same, for a variable that already read every paso-th field of the   *)
(* line from the first on: it keeps the last of them, or, if there was     *)
(* none, it never had a value.                                             *)
Leido(x, primero, c, paso, basura) ==
  IF c <= Len(x) THEN x[c]
  ELSE IF Len(x) < primero THEN basura
  ELSE x[Len(x) - ((Len(x) - primero) % paso)]

(* w bits from field c on, all of them read into aux *)
Bits(x, primero, c, w, basura) ==
  {j \in 0 .. w - 1 : Leido(x, primero, c + j, 1, basura) = 1}

(* strptime leaves tm_isdst without a value: see SalidaViajes. *)
obtenerTime(texto) ==
  IF texto \in DOMAIN Hora THEN {Hora[texto], Hora[texto] - 60} ELSE Tiempos

Con_laPrimera(mapa, id, i) ==
  [x \in DOMAIN mapa \cup {id} |-> IF x \in DOMAIN mapa THEN mapa[x] ELSE i]

(* mapa[id] = i *)
Con(mapa, id, i) ==
  [x \in DOMAIN mapa \cup {id} |-> IF x = id THEN i ELSE mapa[x]]

-----------------------------------------------------------------------------
(* The five loops, a line of the file at a time                            *)

FilaPersona(x, aux) ==
  [id |-> Campo(x, 1, SinTexto), maxvisitas |-> Campo(x, 2, 0),
   horasdisp |-> Bits(x, 3, 3, h, aux), afin |-> Bits(x, 3, 3 + h, n, aux),
   prefvisita |-> Bits(x, 3, 3 + h + n, l, aux)]

LeerPersona ==
  /\ Len(personas) < n
  /\ LeerLinea
  /\ \E aux \in Basura : personas' = Append(personas, FilaPersona(linea', aux))
  /\ mapas' = [mapas EXCEPT !.personas = Con(@, Campo(linea', 1, SinTexto), Len(personas))]
  /\ UNCHANGED <<vehiculos, ubicaciones, bloques, visitas, auxstring>>

FilaVehiculo(x) ==
  [id |-> Campo(x, 1, SinTexto), cap |-> Campo(x, 2, 0), cost |-> Campo(x, 3, 0)]

LeerVehiculo ==
  /\ Len(personas) = n /\ Len(vehiculos) < m
  /\ LeerLinea
  /\ vehiculos' = Append(vehiculos, FilaVehiculo(linea'))
  /\ mapas' = [mapas EXCEPT !.vehiculos = Con(@, Campo(linea', 1, SinTexto), Len(vehiculos))]
  /\ UNCHANGED <<personas, ubicaciones, bloques, visitas, auxstring>>

FilaUbicacion(x, auxdist, auxtime) ==
  [id |-> Campo(x, 1, SinTexto),
   dist_mins |-> [j \in 0 .. k - 1 |-> [first  |-> Leido(x, 2, 2 + 2 * j, 2, auxdist),
                                       second |-> Leido(x, 3, 3 + 2 * j, 2, auxtime)]]]

LeerUbicacion ==
  /\ Len(vehiculos) = m /\ Len(ubicaciones) < k
  /\ LeerLinea
  /\ \E auxdist, auxtime \in Basura :
       ubicaciones' = Append(ubicaciones, FilaUbicacion(linea', auxdist, auxtime))
  /\ mapas' = [mapas EXCEPT !.ubicaciones = Con(@, Campo(linea', 1, SinTexto), Len(ubicaciones))]
  /\ UNCHANGED <<personas, vehiculos, bloques, visitas, auxstring>>

LeerBloque ==
  /\ Len(ubicaciones) = k /\ Len(bloques) < h
  /\ LeerLinea
  /\ auxstring' = Campo(linea', 2, auxstring)
  /\ \E t \in obtenerTime(auxstring') :
       bloques' = Append(bloques, [id |-> Campo(linea', 1, SinTexto), timestamp |-> t])
  /\ mapas' = [mapas EXCEPT !.bloquesh = Con(@, Campo(linea', 1, SinTexto), Len(bloques))]
  /\ UNCHANGED <<personas, vehiculos, ubicaciones, visitas>>

FilaVisita_pideUna(x, aux) ==
  [id |-> Campo(x, 1, SinTexto), ubicacion |-> Campo(x, 2, SinTexto),
   bloque_inicio |-> Campo(x, 3, SinTexto), bloque_fin |-> Campo(x, 4, SinTexto),
   personas |-> Bits(x, 5, 5, n, aux), vehiculos |-> Bits(x, 5, 5 + n, m, aux),
   testimado_bloques |-> Campo(x, 5 + n + m, 0), prioridad |-> Campo(x, 6 + n + m, 0),
   cant_personas |-> Campo(x, 7 + n + m, 1)]

FilaVisita_cambiadas(x, aux) ==
  [id |-> Campo(x, 1, SinTexto), ubicacion |-> Campo(x, 2, SinTexto),
   bloque_inicio |-> Campo(x, 3, SinTexto), bloque_fin |-> Campo(x, 4, SinTexto),
   personas |-> Bits(x, 5, 5, m, aux), vehiculos |-> Bits(x, 5, 5 + m, n, aux),
   testimado_bloques |-> Campo(x, 5 + n + m, 0), prioridad |-> Campo(x, 6 + n + m, 0),
   cant_personas |-> Campo(x, 7 + n + m, 0)]

FilaVisita(x, aux) ==
  [id |-> Campo(x, 1, SinTexto), ubicacion |-> Campo(x, 2, SinTexto),
   bloque_inicio |-> Campo(x, 3, SinTexto), bloque_fin |-> Campo(x, 4, SinTexto),
   personas |-> Bits(x, 5, 5, n, aux), vehiculos |-> Bits(x, 5, 5 + n, m, aux),
   testimado_bloques |-> Campo(x, 5 + n + m, 0), prioridad |-> Campo(x, 6 + n + m, 0),
   cant_personas |-> Campo(x, 7 + n + m, 0)]

LeerVisita ==
  /\ Len(bloques) = h /\ Len(visitas) < l
  /\ LeerLinea
  /\ \E aux \in Basura : visitas' = Append(visitas, FilaVisita(linea', aux))
  /\ mapas' = [mapas EXCEPT !.visitas = Con(@, Campo(linea', 1, SinTexto), Len(visitas))]
  /\ UNCHANGED <<personas, vehiculos, ubicaciones, bloques, auxstring>>

-----------------------------------------------------------------------------
(* The queries, once the file is read                                      *)

Leida == Len(visitas) = l

(* The queries that take one identifier search the maps and change nothing.*)
(* (An iterator of one map compared with the end of another tells, in the  *)
(* library of the build, whether the search found something.)              *)
Consulta(tabla, mapa, id, campo, nada) ==
  IF id \in DOMAIN mapa THEN tabla[mapa[id] + 1][campo] ELSE nada

getInicioVentanaVisita(id) ==
  IF id \notin DOMAIN mapas.visitas THEN 0
  ELSE Consulta(bloques, mapas.bloquesh,
                Consulta(visitas, mapas.visitas, id, "bloque_inicio", SinTexto), "timestamp", 0)

getFinVetanaVisita(id) ==
  IF id \notin DOMAIN mapas.visitas THEN 0
  ELSE LET bFin == Consulta(visitas, mapas.visitas, id, "bloque_fin", SinTexto)
       IN  IF bFin \notin DOMAIN mapas.bloquesh THEN 0
           ELSE Consulta(bloques, mapas.bloquesh, bFin, "timestamp", 0) + z

Insertar_siempre(mapa, id) == Con(mapa, id, 0)

(* operator[]: an identifier that is not in the map goes into it, at       *)
(* position 0.                                                             *)
Insertar(mapa, id) == IF id \in DOMAIN mapa THEN mapa ELSE Con(mapa, id, 0)

(* getInicioVentanaVisita of a position, a query that nothing calls yet *)
InicioVentana(p) ==
  /\ Leida
  /\ mapas' = [mapas EXCEPT !.bloquesh = Insertar(@, visitas[p + 1].bloque_inicio)]
  /\ UNCHANGED <<entero, archivo, salto, linea, tablas, auxstring>>

(* The position of the place of a visit, which the planner asks for *)
Destino(p) ==
  /\ Leida
  /\ mapas' = [mapas EXCEPT !.ubicaciones = Insertar(@, visitas[p + 1].ubicacion)]
  /\ UNCHANGED <<entero, archivo, salto, linea, tablas, auxstring>>

Next ==
  \/ LeerPersona \/ LeerVehiculo \/ LeerUbicacion \/ LeerBloque \/ LeerVisita
  \/ \E p \in 0 .. l - 1 : InicioVentana(p) \/ Destino(p)

Spec == Init /\ [][Next]_vars

errores_haciaAtras(tabla, mapa) == Cardinality({i \in DOMAIN tabla : i - 1 > mapa[tabla[i].id]})

(* The driver (SRPlanner_test.cpp) counts, in each vector, the identifiers *)
(* that the map leads elsewhere.                                           *)
errores(tabla, mapa) == Cardinality({i \in DOMAIN tabla : i - 1 # mapa[tabla[i].id]})

-----------------------------------------------------------------------------
(* Properties                                                              *)

FilasPersona ==
  [id : Fichas, maxvisitas : Fichas, horasdisp : SUBSET (0 .. h - 1),
   afin : SUBSET (0 .. n - 1), prefvisita : SUBSET (0 .. l - 1)]
FilasVehiculo == [id : Fichas, cap : Fichas, cost : Fichas]
FilasUbicacion ==
  [id : Fichas, dist_mins : [0 .. k - 1 -> [first : Fichas, second : Fichas]]]
FilasBloque == [id : Fichas, timestamp : Int]
FilasVisita ==
  [id : Fichas, ubicacion : Fichas, bloque_inicio : Fichas, bloque_fin : Fichas,
   personas : SUBSET (0 .. n - 1), vehiculos : SUBSET (0 .. m - 1),
   testimado_bloques : Fichas, prioridad : Fichas, cant_personas : Fichas]

EsMapa(mapa) ==
  /\ mapa = [x \in DOMAIN mapa |-> mapa[x]]
  /\ \A id \in DOMAIN mapa : mapa[id] \in Nat

TypeOK ==
  /\ entero \in Archivos
  /\ archivo \in Seq(Seq(Fichas)) /\ Len(archivo) <= LineasDelArchivo
  /\ salto \in BOOLEAN
  /\ linea \in Seq(Fichas)
  /\ personas \in Seq(FilasPersona) /\ Len(personas) <= n
  /\ vehiculos \in Seq(FilasVehiculo) /\ Len(vehiculos) <= m
  /\ ubicaciones \in Seq(FilasUbicacion) /\ Len(ubicaciones) <= k
  /\ bloques \in Seq(FilasBloque) /\ Len(bloques) <= h
  /\ visitas \in Seq(FilasVisita) /\ Len(visitas) <= l
  /\ auxstring \in Fichas
  /\ DOMAIN mapas = {"personas", "vehiculos", "ubicaciones", "bloquesh", "visitas"}
  /\ \A t \in DOMAIN mapas : EsMapa(mapas[t])

(* Each map leads every identifier of its vector to the last row that      *)
(* bears it (mapa_personas[pers_id[i]] = i, :71, and :87, :111, :126,      *)
(* :171), also after the queries that insert (:354, SRPlanner.cpp:123),    *)
(* and to no other place an identifier of no row but the first.            *)
UltimaFila(tabla, mapa) ==
  /\ \A i \in DOMAIN tabla :
       /\ tabla[i].id \in DOMAIN mapa
       /\ mapa[tabla[i].id] + 1 \in i .. Len(tabla)
       /\ tabla[mapa[tabla[i].id] + 1].id = tabla[i].id
  /\ \A id \in DOMAIN mapa : (\A i \in DOMAIN tabla : tabla[i].id # id) => mapa[id] = 0

MapasAlDia ==
  /\ UltimaFila(personas, mapas.personas)
  /\ UltimaFila(vehiculos, mapas.vehiculos)
  /\ UltimaFila(ubicaciones, mapas.ubicaciones)
  /\ UltimaFila(bloques, mapas.bloquesh)
  /\ UltimaFila(visitas, mapas.visitas)

Escrita(r) == r <= Len(archivo) /\ archivo[r] = entero[r]

(* A row whose line was written whole is the row of that line, whatever    *)
(* the lines before it lack and whatever the variables of the loops held   *)
(* (SRP_InstanceInput.cpp:38-41, :84-85, :97-98, :121-122, :144-145, where *)
(* each row starts from a line and a stream of its own).                   *)
DanoContenido ==
  \A basura, otra \in Basura :
    /\ \A i \in DOMAIN personas : Escrita(i) => personas[i] = FilaPersona(entero[i], basura)
    /\ \A i \in DOMAIN vehiculos :
         Escrita(n + i) => vehiculos[i] = FilaVehiculo(entero[n + i])
    /\ \A i \in DOMAIN ubicaciones :
         Escrita(n + m + i) => ubicaciones[i] = FilaUbicacion(entero[n + m + i], basura, otra)
    /\ \A i \in DOMAIN bloques : LET e == entero[n + m + k + i] IN
         Escrita(n + m + k + i) =>
           bloques[i].id = e[1] /\ bloques[i].timestamp \in obtenerTime(e[2])
    /\ \A i \in DOMAIN visitas :
         Escrita(n + m + k + h + i) =>
           visitas[i] = FilaVisita(entero[n + m + k + h + i], basura)

(* A visit whose line lacks its end asks for nobody, so that no plan       *)
(* includes it; only when the file ends with a whole line and no break     *)
(* does the last visit stand for those that are missing                    *)
(* (SRP_InstanceInput.cpp:144-171).                                        *)
CortadaNoPide ==
  \A i \in DOMAIN visitas :
    n + m + k + h <= Len(archivo) /\ ~Escrita(n + m + k + h + i) =>
      \/ visitas[i].cant_personas = 0
      \/ ~salto /\ i > 1 /\ visitas[i] = visitas[i - 1]

(* A query changes the answer of another only for a visit whose block no   *)
(* line of the file describes (SRP_InstanceInput.cpp:337-356).             *)
ConsultasEstables ==
  [][\A id \in DOMAIN mapas.visitas :
       Leida /\ getInicioVentanaVisita(id)' # getInicioVentanaVisita(id) =>
         \A i \in DOMAIN bloques :
           bloques[i].id # visitas[mapas.visitas[id] + 1].bloque_inicio]_vars

I == INSTANCE Instancia

(* The instance the planner works on, as module Instancia sees it: a block *)
(* is the position its map leads to, and of the matrix of places there is  *)
(* the row of the SERVIU, the first place (SRPlanner.cpp:122-125).         *)
Pos(mapa, id) == IF id \in DOMAIN mapa THEN mapa[id] ELSE 0

DelServiu(p) == ubicaciones[1].dist_mins[Pos(mapas.ubicaciones, visitas[p + 1].ubicacion)]

AInstancia ==
  [n |-> n, m |-> m, h |-> h, l |-> l, z |-> z,
   pers_maxvisitas |-> [p \in 0 .. n - 1 |-> personas[p + 1].maxvisitas],
   pers_horasdisp |-> [p \in 0 .. n - 1 |-> personas[p + 1].horasdisp],
   vehi_cost |-> [ve \in 0 .. m - 1 |-> vehiculos[ve + 1].cost],
   bloque_timestamp |-> [b \in 0 .. h - 1 |-> bloques[b + 1].timestamp],
   visita_bloque_inicio |->
     [p \in 0 .. l - 1 |-> Pos(mapas.bloquesh, visitas[p + 1].bloque_inicio)],
   visita_bloque_fin |-> [p \in 0 .. l - 1 |-> Pos(mapas.bloquesh, visitas[p + 1].bloque_fin)],
   visita_personas |-> [p \in 0 .. l - 1 |-> visitas[p + 1].personas],
   visita_vehiculos |-> [p \in 0 .. l - 1 |-> visitas[p + 1].vehiculos],
   visita_testimado_bloques |-> [p \in 0 .. l - 1 |-> visitas[p + 1].testimado_bloques],
   visita_cant_personas |-> [p \in 0 .. l - 1 |-> visitas[p + 1].cant_personas],
   minutos |-> [p \in 0 .. l - 1 |-> DelServiu(p).second],
   distancia |-> [p \in 0 .. l - 1 |-> DelServiu(p).first]]

Conocidos(p) == {visitas[p + 1].bloque_inicio, visitas[p + 1].bloque_fin} \subseteq
                  {bloques[i].id : i \in DOMAIN bloques}

(* A whole file gives the planner an instance of module Instancia, and the *)
(* window the planner sees of a visit, by position, is the one the queries *)
(* by identifier answer (SRP_InstanceInput.cpp:337-375) if every block is  *)
(* in the file and no other visit bears its identifier.                    *)
EntregaInstancia ==
  Leida /\ archivo = entero =>
    /\ I!EsInstancia(AInstancia)
    /\ \A p \in 0 .. l - 1 :
         Conocidos(p) /\ mapas.visitas[visitas[p + 1].id] = p =>
           /\ I!getInicioVentanaVisita(AInstancia, p) = getInicioVentanaVisita(visitas[p + 1].id)
           /\ AInstancia.bloque_timestamp[AInstancia.visita_bloque_fin[p]] + z
                = getFinVetanaVisita(visitas[p + 1].id)

(* The lines of a section of w lines after line r that were not written *)
Faltan(r, w) == {q \in r + 1 .. r + w : q > Len(archivo)}

(* The driver finds no error (SRPlanner_test.cpp:21-61) only in a file of  *)
(* which no section lacks two lines, nor one after another of the same     *)
(* section that ends without a break.                                      *)
PruebaDetecta ==
  Leida
    /\ errores(personas, mapas.personas) = 0 /\ errores(vehiculos, mapas.vehiculos) = 0
    /\ errores(ubicaciones, mapas.ubicaciones) = 0 /\ errores(bloques, mapas.bloquesh) = 0
    /\ errores(visitas, mapas.visitas) = 0
  => \A s \in {<<0, n>>, <<n, m>>, <<n + m, k>>, <<n + m + k, h>>, <<n + m + k + h, l>>} :
       /\ Cardinality(Faltan(s[1], s[2])) <= 1
       /\ Faltan(s[1], s[2]) # {} /\ ~salto => Len(archivo) <= s[1]

=============================================================================
