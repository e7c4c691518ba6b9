--------------------------- MODULE AgendaVehiculos ---------------------------
(***************************************************************************)
(* What the planner promises of the vehicles, whatever its search does: it *)
(* makes reservations one at a time and never undoes one; a visit is       *)
(* reserved at most once, on a vehicle allowed for it, for as many         *)
(* consecutive blocks as the visit and the two journeys take, within one   *)
(* working day; and a vehicle is never reserved twice for the same block.  *)
(***************************************************************************)
EXTENDS Instancia

CONSTANT Instancias

VARIABLES
  ii,         \* the instance
  reservas    \* the reservations made so far

varsAgenda == <<ii, reservas>>

(* Two blocks with no gap between them *)
MismaJornada(ini, fin) ==
  \A b \in ini .. fin - 1 : bloqueContiguoConSiguiente(ii, b)

Ocupa(r, ve, b) == r.vehiculo = ve /\ r.ini <= b /\ b <= r.fin

Reservar(v, ve, ini) ==
  LET fin == ini + bloquesTotal(ii, v) - 1
  IN  /\ \A r \in reservas : r.visita # v
      /\ ve \in ii.visita_vehiculos[v]
      /\ ini .. fin \subseteq Bloques(ii)
      /\ MismaJornada(ini, fin)
      /\ \A b \in ini .. fin : \A r \in reservas : ~ Ocupa(r, ve, b)
      /\ reservas' = reservas \cup
           {[visita |-> v, vehiculo |-> ve, ini |-> ini, fin |-> fin]}
      /\ UNCHANGED ii

InitAgenda == ii \in Instancias /\ reservas = {}

NextAgenda ==
  \E v \in Visitas(ii), ve \in Vehiculos(ii), ini \in Bloques(ii) : Reservar(v, ve, ini)

SpecAgenda == InitAgenda /\ [][NextAgenda]_varsAgenda

=============================================================================
