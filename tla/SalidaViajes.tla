---------------------------- MODULE SalidaViajes ----------------------------
(***************************************************************************)
(* The two checkers of output files.  The one in use                       *)
(* (SRPlanner_checker.cpp) reads the trips of a file, as many as its first *)
(* line announces, and compares the start of each with the start of the    *)
(* one before (SRP_InstanceOutput.cpp).  The older one                     *)
(* (old/checker_output.cpp) adds to each trip the minutes of its journey,  *)
(* sorts the trips by vehicle and start, and compares each start with the  *)
(* end of the trip before.                                                 *)
(*                                                                         *)
(* A line of the file is a trip: the text of its time, here the minutes it *)
(* stands for, its vehicle, and the minutes from its origin to its         *)
(* destination, a look-up in the instance.  The file may have fewer lines  *)
(* than it announces.  What is only printed (people, visit) is left out.   *)
(***************************************************************************)
EXTENDS Integers, Sequences

CONSTANTS
  Horas,          \* times written in the file
  Vehiculos,      \* identifiers of vehicles
  SinTexto,       \* the empty text
  Alfabeto,       \* the place of each identifier in the order of strings
  Minutos,        \* minutes of a journey
  MinutosServiu,  \* those from position 0, the SERVIU, to itself
  MaxViajes,      \* bound: trips announced
  Archivos        \* files, after the first line

ASSUME HorasAssumption == Horas \subseteq Nat
ASSUME SinTextoAssumption == SinTexto \notin Horas /\ SinTexto \notin Vehiculos
ASSUME AlfabetoAssumption ==
  /\ Alfabeto \in [Vehiculos \cup {SinTexto} -> Nat]
  /\ \A v, w \in Vehiculos \cup {SinTexto} : Alfabeto[v] = Alfabeto[w] => v = w
ASSUME MinutosAssumption == Minutos \subseteq Nat /\ MinutosServiu \in Minutos
ASSUME MaxViajesAssumption == MaxViajes \in Nat

Lineas == [traslado_ts : Horas, idvehi : Vehiculos, minutos : Minutos]

ASSUME ArchivosAssumption == Archivos \subseteq Seq(Lineas)

VARIABLES
  programa,   \* "verificador" or "antiguo"
  t,          \* trips announced
  archivo,    \* the lines of the file after the first
  salto,      \* whether the last of them ends in a line break
  pc,         \* "lee", "ordena", "valida" or "fin"
  i,          \* loop variable; positions are one more than in the code
  viaje,      \* the texts last read
  tr,         \* the trips
  orden,      \* history: tr[k] is the trip read in the place orden[k]
  solapes     \* solapes_trayectos_vehiculos

vars == <<programa, t, archivo, salto, pc, i, viaje, tr, orden, solapes>>

(* strptime leaves tm_isdst as it finds it, without a value, and mktime    *)
(* takes an hour off when it happens to be positive.  (In summer time it   *)
(* adds an hour when it happens to be zero: the same, counted from an hour *)
(* later.)  Of a text that is not a time little or nothing is set.         *)
Tiempos == Horas \cup {x - 60 : x \in Horas}

obtenerTime(ts) == IF ts = SinTexto THEN Tiempos ELSE {ts, ts - 60}

Init ==
  /\ programa \in {"verificador", "antiguo"}
  /\ t \in 0 .. MaxViajes
  /\ archivo \in Archivos /\ Len(archivo) <= t
  /\ salto \in BOOLEAN
  /\ pc = "lee"
  /\ i = 1
  /\ viaje = [traslado_ts |-> SinTexto, idvehi |-> SinTexto, minutos |-> MinutosServiu]
  /\ tr = <<>>
  /\ orden = <<>>
  /\ solapes = 0

-----------------------------------------------------------------------------
(* The trips of the file                                                   *)

Anotar(v) ==
  /\ viaje' = v
  /\ \E hora \in obtenerTime(v.traslado_ts) :
       tr' = Append(tr, [horainicio |-> hora, idvehi |-> v.idvehi, minutos |-> v.minutos])
  /\ orden' = Append(orden, i)
  /\ i' = i + 1
  /\ UNCHANGED <<programa, t, archivo, salto, pc, solapes>>

LeerLinea ==
  /\ pc = "lee"
  /\ i <= t /\ i <= Len(archivo)
  /\ Anotar(archivo[i])

(* Without a break, getline leaves the last line in place and it is read   *)
(* again.  After a break nothing is read: the checker in use keeps all its *)
(* variables, the older one only the text of the time, since the rest goes *)
(* to an array; an identifier that is not in its map is in position 0.     *)
LineaQueFalta ==
  /\ pc = "lee"
  /\ i <= t /\ i > Len(archivo)
  /\ Anotar(IF programa = "antiguo" /\ salto
            THEN [viaje EXCEPT !.idvehi = SinTexto, !.minutos = MinutosServiu]
            ELSE viaje)

TrasLeer == pc' = IF programa = "antiguo" THEN "ordena" ELSE "valida"

FinLectura ==
  /\ pc = "lee"
  /\ i > t
  /\ TrasLeer /\ i' = 1
  /\ UNCHANGED <<programa, t, archivo, salto, viaje, tr, orden, solapes>>

-----------------------------------------------------------------------------
(* The order of the older checker, which sortByIdVehiculoFecha has too     *)

Antes_porHora(x, y) == x.horainicio < y.horainicio

Antes(x, y) ==
  \/ Alfabeto[x.idvehi] < Alfabeto[y.idvehi]
  \/ x.idvehi = y.idvehi /\ x.horainicio < y.horainicio

(* sort leaves no trip before one that is to precede it; trips that are    *)
(* equal for it may end in any order.                                      *)
Ordenar ==
  /\ pc = "ordena"
  /\ \E p \in [1 .. t -> 1 .. t] :
       /\ \A a \in 1 .. t : \E b \in 1 .. t : p[b] = a
       /\ \A a, b \in 1 .. t : a < b => ~Antes(tr[p[b]], tr[p[a]])
       /\ tr' = [k \in 1 .. t |-> tr[p[k]]]
       /\ orden' = [k \in 1 .. t |-> orden[p[k]]]
  /\ pc' = "valida"
  /\ UNCHANGED <<programa, t, archivo, salto, i, viaje, solapes>>

-----------------------------------------------------------------------------
(* The comparisons                                                         *)

(* What the start of a trip is compared with: the start of the trip before *)
(* or, in the older checker, its end                                       *)
Limite(x) == IF programa = "antiguo" THEN x.horainicio + x.minutos ELSE x.horainicio

(* From the third trip on (i > 1 in the code) *)
Solapa_desdeElCuarto(k) ==
  /\ k > 3
  /\ tr[k].idvehi = tr[k - 1].idvehi
  /\ tr[k].horainicio < Limite(tr[k - 1])

Solapa_otroVehiculo(k) == k > 2 /\ tr[k].horainicio < Limite(tr[k - 1])

Solapa(k) ==
  /\ k > 2
  /\ tr[k].idvehi = tr[k - 1].idvehi
  /\ tr[k].horainicio < Limite(tr[k - 1])

Validar ==
  /\ pc = "valida"
  /\ i <= t
  /\ solapes' = IF Solapa(i) THEN solapes + 1 ELSE solapes
  /\ i' = i + 1
  /\ UNCHANGED <<programa, t, archivo, salto, pc, viaje, tr, orden>>

FinValidacion ==
  /\ pc = "valida"
  /\ i > t
  /\ pc' = "fin"
  /\ UNCHANGED <<programa, t, archivo, salto, i, viaje, tr, orden, solapes>>

Next ==
  \/ LeerLinea \/ LineaQueFalta \/ FinLectura
  \/ Ordenar \/ Validar \/ FinValidacion

Spec == Init /\ [][Next]_vars

-----------------------------------------------------------------------------
(* Properties                                                              *)

TypeOK ==
  /\ programa \in {"verificador", "antiguo"}
  /\ t \in Nat
  /\ archivo \in Seq(Lineas) /\ Len(archivo) <= t
  /\ salto \in BOOLEAN
  /\ pc \in {"lee", "ordena", "valida", "fin"}
  /\ i \in 1 .. t + 1
  /\ viaje \in [traslado_ts : Horas \cup {SinTexto}, idvehi : Vehiculos \cup {SinTexto},
                minutos : Minutos]
  /\ tr \in Seq([horainicio : Tiempos, idvehi : Vehiculos \cup {SinTexto}, minutos : Minutos])
  /\ orden \in Seq(1 .. t) /\ Len(orden) = Len(tr)
  /\ pc = "lee" => Len(tr) = i - 1
  /\ pc # "lee" => Len(tr) = t
  /\ solapes \in Nat

(* An OK of the checker (SRPlanner_checker.cpp:20-21) means that, but for  *)
(* the first line of the file, no vehicle goes back in time by more than   *)
(* the hour that the reader may take off: among any number of consecutive  *)
(* lines of one vehicle, not only two (SRP_InstanceOutput.cpp:97-98).      *)
OKSinRetrocesos ==
  programa = "verificador" /\ pc = "fin" /\ solapes = 0 =>
    \A a, b \in 2 .. Len(archivo) :
      a < b /\ (\A k \in a .. b : archivo[k].idvehi = archivo[a].idvehi)
        => archivo[a].traslado_ts - 60 <= archivo[b].traslado_ts

(* No overlap found by the older checker means that no two trips of one    *)
(* vehicle in the file, wherever in it they are, share more than the hour  *)
(* that the reader may take off, except with the trip that sorts first     *)
(* (old/checker_output.cpp:272-284).                                       *)
OKSinSolapes ==
  programa = "antiguo" /\ pc = "fin" /\ solapes = 0 =>
    \A a, b \in DOMAIN archivo :
      a # b /\ orden[1] \notin {a, b} /\ archivo[a].idvehi = archivo[b].idvehi =>
        \/ archivo[a].traslado_ts + archivo[a].minutos - 60 <= archivo[b].traslado_ts
        \/ archivo[b].traslado_ts + archivo[b].minutos - 60 <= archivo[a].traslado_ts

(* The text from which trip k was read *)
Texto(k) == archivo[IF k <= Len(archivo) THEN k ELSE Len(archivo)]

(* An error is reported only if two trips the checker has next to each     *)
(* other, of one vehicle, start less than an hour one after the other, or  *)
(* go back (SRP_InstanceOutput.cpp:97-98); in the older checker, if the    *)
(* second starts less than an hour after the end of the first              *)
(* (old/checker_output.cpp:279-280).  A line that is missing counts as the *)
(* last one repeated, in the older checker perhaps only its time.          *)
ErrorConMotivo ==
  solapes > 0 /\ archivo # <<>> =>
    \E k \in 3 .. t : LET x == Texto(orden[k]) y == Texto(orden[k - 1]) IN
      /\ x.idvehi = y.idvehi \/ orden[k] > Len(archivo) \/ orden[k - 1] > Len(archivo)
      /\ x.traslado_ts - 60 <
           y.traslado_ts + (IF programa = "verificador" THEN 0
                            ELSE IF orden[k - 1] > Len(archivo) /\ salto THEN MinutosServiu
                            ELSE y.minutos)

=============================================================================
