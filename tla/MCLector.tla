------------------------------ MODULE MCLector ------------------------------
(***************************************************************************)
(* Small files for TLC: two people, a vehicle, two places, two blocks and  *)
(* two visits.  They differ in whether two people, or the two visits, bear *)
(* the same identifier, and in whether the blocks and the place of the     *)
(* second visit are those of a line of the file.                           *)
(***************************************************************************)
EXTENDS Lector

CONSTANTS p1, p2, v1, u1, u2, b1, b2, b3, vi1, vi2, t1, t2

Archivo(otraPersona, otraVisita, inicio, lugar) ==
  <<<<p1, 2, 1, 1, 1, 0, 1, 0>>,
    <<otraPersona, 1, 0, 1, 0, 1, 0, 1>>,
    <<v1, 4, 7>>,
    <<u1, 0, 0, 5, 30>>,
    <<u2, 5, 30, 0, 0>>,
    <<b1, t1>>,
    <<b2, t2>>,
    <<vi1, u2, b1, b2, 1, 0, 1, 1, 3, 1>>,
    <<otraVisita, lugar, inicio, b2, 0, 1, 1, 2, 5, 2>>>>

ArchivosChicos ==
  {Archivo(q[1], q[2], b, u) :
     q \in {<<p1, vi2>>, <<p2, vi1>>, <<p2, vi2>>}, b \in {b2, b3}, u \in {u2, b3}}

Horas == [t \in {t1, t2} |-> IF t = t1 THEN 480 ELSE 540]

=============================================================================
