---------------------------- MODULE ConjuntoBits ----------------------------
(***************************************************************************)
(* What a MiniBitmap promises its callers: each object is a set of         *)
(* positions below its capacity, and a count answers how many members lie  *)
(* between two positions, both included, in whichever order they are       *)
(* given and wherever they lie.                                            *)
(*                                                                         *)
(* The one answer left open is a count whose last position is the          *)
(* capacity itself: that position does not exist, and the promise allows   *)
(* it to be counted as one more member.                                    *)
(***************************************************************************)
EXTENDS Integers, FiniteSets

CONSTANTS
  Objetos,      \* the bitmaps
  Cap,          \* capacity of each bitmap
  Posiciones    \* the positions callers pass

VARIABLES
  unos,         \* the members of each bitmap
  obj, args,    \* the bitmap and the positions of the last count asked for
  pendiente,    \* it has not been answered yet
  ret           \* the last answer

vars == <<unos, obj, args, pendiente, ret>>

Dominio(o) == 0 .. Cap[o] - 1

Init ==
  /\ unos = [o \in Objetos |-> {}]
  /\ obj \in Objetos /\ args = <<0, 0>>
  /\ pendiente = FALSE
  /\ ret = 0

(* The members change only while no count is pending. *)
Cambiar(o, nuevos) ==
  /\ ~ pendiente
  /\ unos' = [unos EXCEPT ![o] = nuevos]
  /\ UNCHANGED <<obj, args, pendiente, ret>>

Poner(o, x) == x \in Dominio(o) /\ Cambiar(o, unos[o] \cup {x})

Quitar(o, x) == Cambiar(o, unos[o] \ {x})

Copiar(o, p) == Cap[p] = Cap[o] /\ Cambiar(p, unos[o])

(* The members between a and b, and the larger of the two. *)
Entre(o, a, b) == {x \in unos[o] : (a <= x /\ x <= b) \/ (b <= x /\ x <= a)}

Mayor(a, b) == IF a > b THEN a ELSE b

Respuestas(o, a, b) ==
  LET exacta == Cardinality(Entre(o, a, b))
  IN  IF Mayor(a, b) = Cap[o] THEN {exacta, exacta + 1} ELSE {exacta}

(* A count is answered at once, or asked for now and answered later. *)
Contar(o, a, b) ==
  /\ ~ pendiente
  /\ obj' = o /\ args' = <<a, b>>
  /\ ret' \in Respuestas(o, a, b)
  /\ UNCHANGED <<unos, pendiente>>

Pedir(o, a, b) ==
  /\ ~ pendiente
  /\ pendiente' = TRUE
  /\ obj' = o /\ args' = <<a, b>>
  /\ UNCHANGED <<unos, ret>>

Responder ==
  /\ pendiente
  /\ pendiente' = FALSE
  /\ ret' \in Respuestas(obj, args[1], args[2])
  /\ UNCHANGED <<unos, obj, args>>

Next ==
  \/ \E o \in Objetos :
       \/ \E x \in Posiciones : Poner(o, x) \/ Quitar(o, x)
       \/ \E p \in Objetos : Copiar(o, p)
       \/ \E a, b \in Posiciones : Contar(o, a, b) \/ Pedir(o, a, b)
  \/ Responder

Spec == Init /\ [][Next]_vars

=============================================================================
