--------------------------- MODULE MCSalidaViajes ---------------------------
(***************************************************************************)
(* Files for TLC: up to four trips of two vehicles, at times two hours     *)
(* apart, that take no time or an hour and a half.  The files of three     *)
(* lines are all there are; the first of four is always the same.          *)
(***************************************************************************)
EXTENDS SalidaViajes

CONSTANTS v1, v2

HorasCercanas == {540, 660}

PrimeraDeCuatro == [traslado_ts |-> 660, idvehi |-> v1, minutos |-> 90]

ArchivosCortos ==
  UNION {[1 .. k -> Lineas] : k \in 0 .. 3}
    \cup {<<PrimeraDeCuatro>> \o a : a \in [1 .. 3 -> Lineas]}

OrdenDeTextos ==
  [x \in {v1, v2, SinTexto} |-> IF x = SinTexto THEN 0 ELSE IF x = v1 THEN 1 ELSE 2]

=============================================================================
