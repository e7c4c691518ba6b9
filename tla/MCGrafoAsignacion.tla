------------------------- MODULE MCGrafoAsignacion -------------------------
(***************************************************************************)
(* Small instances for TLC: two or three people and two visits, which      *)
(* differ in who may go to each visit, who is free enough, how many visits *)
(* each person may do and how many people each visit asks for.             *)
(***************************************************************************)
EXTENDS GrafoAsignacion

Chica(n, maxvis, disp, pers0, pers1, cant0, cant1) ==
  [n |-> n, m |-> 1, h |-> 4, z |-> 60, l |-> 2,
   pers_maxvisitas |-> [p \in 0 .. n - 1 |-> IF p = 0 THEN maxvis ELSE 1],
   pers_horasdisp |-> [p \in 0 .. n - 1 |-> IF p = 1 THEN disp ELSE 0 .. 3],
   vehi_cost |-> [ve \in {0} |-> 1],
   bloque_timestamp |-> [b \in 0 .. 3 |-> 480 + 60 * b],
   visita_bloque_inicio |-> [v \in 0 .. 1 |-> v],
   visita_bloque_fin |-> [v \in 0 .. 1 |-> 3],
   visita_personas |-> [v \in 0 .. 1 |-> (IF v = 0 THEN pers0 ELSE pers1) \cap 0 .. n - 1],
   visita_vehiculos |-> [v \in 0 .. 1 |-> {0}],
   visita_testimado_bloques |-> [v \in 0 .. 1 |-> 2],
   visita_cant_personas |-> [v \in 0 .. 1 |-> IF v = 0 THEN cant0 ELSE cant1],
   minutos |-> [v \in 0 .. 1 |-> 0],
   distancia |-> [v \in 0 .. 1 |-> 1]]

InstanciasChicas ==
  {Chica(n, mv, d, p0, p1, k0, k1) :
     n \in {2, 3}, mv \in 0 .. 2, d \in {{}, {0, 1}, {2, 3}},
     p0 \in {{0, 1}, {0, 1, 2}}, p1 \in {{1}, {0, 2}},
     k0 \in 0 .. 2, k1 \in 0 .. 1}

=============================================================================
