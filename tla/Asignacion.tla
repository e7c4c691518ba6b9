----------------------------- MODULE Asignacion -----------------------------
(***************************************************************************)
(* What the planner is promised by MinCostFlow: one of the assignments     *)
(* that send to each visit the people it asks for and to each person no    *)
(* more visits than she may do, each pair of the assignment once, or, when *)
(* there is no such assignment, the end of the program.                    *)
(***************************************************************************)
EXTENDS Instancia, Sequences

CONSTANT Instancias

VARIABLES
  ii,         \* the instance
  respuesta,  \* the assignment answered, a sequence in any order
  estado      \* "pide", "responde" or "abortado"

varsAsignacion == <<ii, respuesta, estado>>

InitAsignacion == ii \in Instancias /\ respuesta = <<>> /\ estado = "pide"

Responder ==
  /\ estado = "pide" /\ estado' = "responde"
  /\ \E F \in Flujos(ii) :
       respuesta' \in {s \in [1 .. Cardinality(F) -> F] :
                         \A t \in F : \E k \in DOMAIN s : s[k] = t}
  /\ UNCHANGED ii

Abortar ==
  /\ estado = "pide" /\ estado' = "abortado"
  /\ Flujos(ii) = {}
  /\ UNCHANGED <<ii, respuesta>>

SpecAsignacion == InitAsignacion /\ [][Responder \/ Abortar]_varsAsignacion

=============================================================================
