--------------------------- MODULE MCPlanificador ---------------------------
(***************************************************************************)
(* Small instances for TLC: two people, two vehicles, five blocks of an    *)
(* hour and two visits.  They differ in the calendar (one working day, or  *)
(* two), in who is free when, in the vehicles each visit admits, in how    *)
(* many people it asks for, in the journey to the first visit and in when  *)
(* the window of the second opens.                                         *)
(***************************************************************************)
EXTENDS Planificador

UnDia   == <<480, 540, 600, 660, 720>>
DosDias == <<480, 540, 600, 1920, 1980>>

Chica(calendario, disp0, disp1, veh0, veh1, cant0, cant1, mins, abre1) ==
  [n |-> 2, m |-> 2, h |-> 5, z |-> 60, l |-> 2,
   pers_maxvisitas |-> [p \in 0 .. 1 |-> 2],
   pers_horasdisp |-> [p \in 0 .. 1 |-> IF p = 0 THEN disp0 ELSE disp1],
   vehi_cost |-> [ve \in 0 .. 1 |-> ve + 2],
   bloque_timestamp |-> [b \in 0 .. 4 |-> calendario[b + 1]],
   visita_bloque_inicio |-> [v \in 0 .. 1 |-> IF v = 0 THEN 0 ELSE abre1],
   visita_bloque_fin |-> [v \in 0 .. 1 |-> 4],
   visita_personas |-> [v \in 0 .. 1 |-> {0, 1}],
   visita_vehiculos |-> [v \in 0 .. 1 |-> IF v = 0 THEN veh0 ELSE veh1],
   visita_testimado_bloques |-> [v \in 0 .. 1 |-> 1],
   visita_cant_personas |-> [v \in 0 .. 1 |-> IF v = 0 THEN cant0 ELSE cant1],
   minutos |-> [v \in 0 .. 1 |-> IF v = 0 THEN mins ELSE 0],
   distancia |-> [v \in 0 .. 1 |-> v + 3]]

InstanciasChicas ==
  {Chica(c, d0, d1, v0, v1, k0, k1, t, a) :
     c \in {UnDia, DosDias}, d0 \in {0 .. 4, 1 .. 4, {3, 4}}, d1 \in {0 .. 4, 0 .. 2},
     v0 \in {{0}, {0, 1}}, v1 \in {{1}, {0, 1}},
     k0 \in {1, 2}, k1 \in {1, 2}, t \in {0, 30}, a \in {0, 3}}

-----------------------------------------------------------------------------
(* What the documentation of the code says of the solution                 *)

(* "Por definicion una persona no puede tener dos actividades en el mismo  *)
(* horario por lo que no podria haber dos cuartetas con igual bloque       *)
(* horario && igual persona" (SRPlanner.cpp:459-460).                      *)
UnaActividadPorBloque ==
  \A p \in Personas(ii), b \in Bloques(ii) :
    Repeticiones({q \in DOMAIN instance : q.posp = p /\ q.posbh = b}) <= 1

(* "Todas las personas tienen horario disponible" (SRPlanner.cpp:151): a   *)
(* person is booked only in blocks she declared free.                      *)
HorarioDeclarado ==
  \A q \in DOMAIN instance : q.posbh \in ii.pers_horasdisp[q.posp]

(* "Revisar si las personas de la visita pueden en el bloque"              *)
(* (SRPlanner.cpp:141): when a visit is assigned, the people the           *)
(* assignment sends to it are free during the whole trip.  (Said only of   *)
(* the steps that read within the vector of candidates.)                   *)
PersonasDeLaVisitaPueden ==
  [][\A r \in viajes' \ viajes : \A k \in DOMAIN insIn :
       Leidas \subseteq DOMAIN visJornada /\ insIn[k].posVisita = r.visita =>
         r.ini .. r.fin \subseteq horasDispPer[insIn[k].posPersona]]_vars

=============================================================================
