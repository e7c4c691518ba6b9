----------------------------- MODULE Generador -----------------------------
(***************************************************************************)
(* The generator of instances (generate_input.cpp).  It writes, one after  *)
(* another, the people with their free blocks, the blocks with the time at *)
(* which they start, and the visits with their window, their people, their *)
(* vehicles and the number of people they ask for.                         *)
(*                                                                         *)
(* Draws of rand() are choices within their range; of the people and the   *)
(* vehicles drawn for a visit only how many they are matters.  What is     *)
(* drawn and only written (costs, distances, affinities, durations,        *)
(* priorities) is left out.  Of the people and the visits the last one     *)
(* written is kept.                                                        *)
(***************************************************************************)
EXTENDS Integers, FiniteSets, Sequences

CONSTANTS n, m, h, z, l     \* people, vehicles, blocks, minutes of a block, visits

(* With other arguments a remainder by zero ends the program, or one by a  *)
(* negative number draws outside of what it is meant to.                   *)
ASSUME ArgumentosAssumption ==
  /\ n \in Nat /\ n >= 2
  /\ m \in Nat /\ m >= 8
  /\ h \in Nat /\ h >= 2
  /\ z \in 1 .. 180
  /\ l \in Nat /\ l >= 3

VARIABLES
  fase,             \* "persona", "marcando", "bloques", "visitas" or "fin"
  i,                \* loop variable
  mb,               \* free blocks of the person
  cantSi,           \* how many of them are wanted
  dia, hora, min,   \* the clock
  bloques,          \* start of the blocks written
  visita            \* the last visit written

reloj == <<dia, hora, min>>
vars  == <<fase, i, mb, cantSi, reloj, bloques, visita>>

Posiciones == 0 .. h - 1

Mitad == h \div 2

Menor(a, b) == IF a < b THEN a ELSE b

Ninguna == [inicio |-> 0, fin |-> 0, personas |-> 0, cantPer |-> 0]

Init ==
  /\ fase = "persona" /\ i = 0
  /\ mb = {} /\ cantSi = 0
  /\ dia = 1 /\ hora = 9 /\ min = 0
  /\ bloques = <<>>
  /\ visita = Ninguna

-----------------------------------------------------------------------------
(* People                                                                  *)

cantbloques2horas_enHoras == 2 \div z

cantbloques2horas == 120 \div z

EmpezarPersona ==
  /\ fase = "persona"
  /\ i < n
  /\ fase' = "marcando"
  /\ cantSi' \in Mitad .. 2 * Mitad - 1
  /\ mb' = {}
  /\ UNCHANGED <<i, reloj, bloques, visita>>

(* setBit ignores the positions beyond the last block. *)
Marcados(b) == {x \in Posiciones : b <= x /\ x < b + cantbloques2horas}

MarcarBloques(b) ==
  /\ fase = "marcando"
  /\ Cardinality(mb) < cantSi
  /\ mb' = mb \cup Marcados(b)
  /\ UNCHANGED <<fase, i, cantSi, reloj, bloques, visita>>

TerminarPersona_antes ==
  /\ fase = "marcando"
  /\ Cardinality(mb) + cantbloques2horas >= cantSi
  /\ fase' = "persona"
  /\ i' = i + 1
  /\ UNCHANGED <<mb, cantSi, reloj, bloques, visita>>

TerminarPersona ==
  /\ fase = "marcando"
  /\ Cardinality(mb) >= cantSi
  /\ fase' = "persona"
  /\ i' = i + 1
  /\ UNCHANGED <<mb, cantSi, reloj, bloques, visita>>

(* mb and cantSi do not outlive the loop. *)
FinPersonas ==
  /\ fase = "persona"
  /\ i >= n
  /\ fase' = "bloques" /\ i' = 0
  /\ mb' = {} /\ cantSi' = 0
  /\ UNCHANGED <<reloj, bloques, visita>>

-----------------------------------------------------------------------------
(* Blocks.  A time of the clock is <<day, hour, minutes>>.                 *)

(* One hour is carried, however many minutes there are. *)
Acarreo(t) == IF t[3] >= 60 THEN <<t[1], t[2] + 1, t[3] % 60>> ELSE t

Colacion_soloLas13(t) ==
  IF t[2] = 13 THEN Acarreo(<<t[1], t[2] + 1, t[3] + 30>>) ELSE t

Colacion(t) ==
  IF (t[2] = 12 /\ t[3] > 30) \/ t[2] = 13
  THEN Acarreo(<<t[1], t[2] + 1, t[3] + 30>>) ELSE t

Salida_mismoDia(t) == IF t[2] >= 19 THEN <<t[1], 9, 0>> ELSE t

Salida(t) == IF t[2] >= 19 THEN <<t[1] + 1, 9, 0>> ELSE t

Ajustado(t) == Salida(Colacion(Acarreo(t)))

EscribirBloque ==
  /\ fase = "bloques"
  /\ i < h
  /\ LET t == Ajustado(reloj)
     IN  /\ bloques' = Append(bloques, t)
         /\ dia' = t[1] /\ hora' = t[2] /\ min' = t[3] + z
  /\ i' = i + 1
  /\ UNCHANGED <<fase, mb, cantSi, visita>>

FinBloques ==
  /\ fase = "bloques"
  /\ i >= h
  /\ fase' = "visitas" /\ i' = 0
  /\ UNCHANGED <<mb, cantSi, reloj, bloques, visita>>

-----------------------------------------------------------------------------
(* Visits                                                                  *)

maxBloquesvisita == 180 \div z

(* The window, widened when it is shorter than the longest visit *)
Ventana_sinRevisar(ini, fin) ==
  IF fin - ini >= maxBloquesvisita
  THEN <<ini, fin>> ELSE <<ini, (fin + maxBloquesvisita) % h>>

Ventana(ini, fin) ==
  LET otro == (fin + maxBloquesvisita) % h
  IN  IF fin - ini >= maxBloquesvisita THEN <<ini, fin>>
      ELSE IF otro - ini >= maxBloquesvisita THEN <<ini, otro>>
      ELSE <<0, h - 1>>

(* How many different ones come out of at most k draws among d *)
Distintos(d, k) == 1 .. Menor(d, k)

EscribirVisita ==
  /\ fase = "visitas"
  /\ i < l
  /\ \E ini \in 0 .. Mitad - 1, fin \in Mitad .. 2 * Mitad - 1 :
     \E personas \in Distintos(n, n \div 2 + 2), vehiculos \in Distintos(m, m \div 2 - 1) :
     \E cantPer \in 1 .. 3 :
       visita' = [inicio |-> Ventana(ini, fin)[1], fin |-> Ventana(ini, fin)[2],
                  personas |-> personas, cantPer |-> Menor(cantPer, vehiculos)]
  /\ i' = i + 1
  /\ UNCHANGED <<fase, mb, cantSi, reloj, bloques>>

FinVisitas ==
  /\ fase = "visitas"
  /\ i >= l
  /\ fase' = "fin"
  /\ UNCHANGED <<i, mb, cantSi, reloj, bloques, visita>>

Next ==
  \/ EmpezarPersona \/ (\E b \in Posiciones : MarcarBloques(b))
  \/ TerminarPersona \/ FinPersonas
  \/ EscribirBloque \/ FinBloques
  \/ EscribirVisita \/ FinVisitas

Spec == Init /\ [][Next]_vars

(* One thread runs the program, and rand() draws every block sooner or     *)
(* later: whatever block is not yet marked gets its turn.                  *)
FairSpec ==
  /\ Spec
  /\ WF_vars(Next)
  /\ \A b \in Posiciones : WF_vars(MarcarBloques(b))

-----------------------------------------------------------------------------
(* Properties                                                              *)

TypeOK ==
  /\ fase \in {"persona", "marcando", "bloques", "visitas", "fin"}
  /\ i \in Nat
  /\ mb \subseteq Posiciones
  /\ cantSi \in Posiciones
  /\ dia \in Nat /\ hora \in 9 .. 18 /\ min \in 0 .. 59 + z
  /\ bloques \in Seq(Nat \X Nat \X Nat)
  /\ visita.inicio \in Posiciones /\ visita.fin \in Posiciones

(* Each person written has at least half of the blocks free ("min 50%",    *)
(* generate_input.cpp:62) and, but for the last run drawn, no more than    *)
(* the number drawn for her (generate_input.cpp:62-70).                    *)
DisponibilidadPedida ==
  fase = "persona" /\ i > 0 =>
    /\ Mitad <= cantSi /\ cantSi <= Cardinality(mb)
    /\ Cardinality(mb) < cantSi + cantbloques2horas

(* No block starts before 9, in the lunch break, which goes from 12:31 to  *)
(* 13:59, or from 19 on, whatever the minutes of a block                   *)
(* (generate_input.cpp:171-185).                                           *)
HorasDeOficina ==
  \A k \in DOMAIN bloques :
    LET t == bloques[k]
    IN  /\ 9 <= t[2] /\ t[2] < 19 /\ t[2] # 13
        /\ 0 <= t[3] /\ t[3] < 60
        /\ t[2] = 12 => t[3] <= 30

(* Minutes since the first day began *)
Minutos(t) == ((t[1] - 1) * 24 + t[2]) * 60 + t[3]

(* Each block starts when the one before it has ended                      *)
(* (generate_input.cpp:167-192).                                           *)
BloquesSinSolape ==
  \A k \in DOMAIN bloques :
    k + 1 \in DOMAIN bloques => Minutos(bloques[k]) + z <= Minutos(bloques[k + 1])

(* The window of a visit is as long as the longest visit, or the whole     *)
(* calendar, and it ends in the second half of the blocks, also when its   *)
(* end is moved round the calendar (generate_input.cpp:209-219).           *)
VentanaUtil ==
  visita # Ninguna =>
    /\ Mitad <= visita.fin
    /\ \/ visita.fin - visita.inicio >= maxBloquesvisita
       \/ visita.inicio = 0 /\ visita.fin = h - 1

(* The generator ends (generate_input.cpp:50-281). *)
Termina == <>(fase = "fin")

=============================================================================
