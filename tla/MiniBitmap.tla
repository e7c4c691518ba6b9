----------------------------- MODULE MiniBitmap -----------------------------
(***************************************************************************)
(* The class MiniBitmap (MiniBitmap.cpp): a set of positions packed in     *)
(* words of BitsInt bits, with a cached number of ones.                    *)
(*                                                                         *)
(* A word is the set of its bits that are 1, so the code's OR with a mask  *)
(* of one bit is a union, AND with its complement is a difference, and     *)
(* the mask itself is the position of its bit.  A count is a loop that     *)
(* walks word and bit together, one step of this specification for each    *)
(* iteration; the other operations are one step each.                      *)
(***************************************************************************)
EXTENDS Integers, FiniteSets

CONSTANTS
  Objetos,      \* the bitmaps of the program
  BitsInt,      \* bits of a word: 32 in the code
  Cap,          \* cap, the positions each bitmap was built for
  Posiciones    \* the positions callers pass, in range or not

ASSUME BitsIntAssumption == BitsInt \in Nat \ {0}

(* The constructor destroys the object when n <= 0 and goes on: no program *)
(* of the repository builds such a bitmap from a valid input (what it      *)
(* would free is in CicloDeVida).                                          *)
ASSUME CapAssumption == Cap \in [Objetos -> Nat \ {0}]

ASSUME PosicionesAssumption == Posiciones \subseteq Int

VARIABLES
  bitmap,       \* bitmap[o][w]: the bits that are 1 in word w of o
  cant,         \* cant[o]: the cached number of ones
  pc,           \* "listo" between calls, "bucle" inside the loop of count
  obj,          \* the object of the running (or last) count
  args,         \* the two positions that count was called with
  pFinal,       \* its last position, once clamped
  pos,          \* loop variable
  posInt,       \* word that holds pos
  posBit,       \* bit of that word
  mascara,      \* position of the only bit of the mask
  count,        \* ones seen so far
  ret           \* the last value count returned

bucle == <<pFinal, pos, posInt, posBit, mascara, count>>

locales == <<obj, args, bucle>>

vars == <<bitmap, cant, pc, locales, ret>>

-----------------------------------------------------------------------------

(* ints, as the constructor computes it *)
Ints(o) ==
  LET q == Cap[o] \div BitsInt
  IN  IF q * BitsInt < Cap[o] THEN q + 1 ELSE q

Dominio(o) == 0 .. Cap[o] - 1

(* A one at position x, wherever x lies in the words. *)
Bit(o, x) == (x % BitsInt) \in bitmap[o][x \div BitsInt]

Access(o, x) == IF x < 0 \/ x >= Cap[o] THEN 0 ELSE IF Bit(o, x) THEN 1 ELSE 0

(* The set an object stands for. *)
Unos(o) == {x \in Dominio(o) : Bit(o, x)}

Init ==
  /\ bitmap = [o \in Objetos |-> [w \in 0 .. Ints(o) - 1 |-> {}]]
  /\ cant = [o \in Objetos |-> 0]
  /\ pc = "listo"
  /\ obj \in Objetos
  /\ args = <<0, 0>>
  /\ pFinal = 0 /\ pos = 0 /\ posInt = 0 /\ posBit = 0 /\ mascara = 0
  /\ count = 0
  /\ ret = 0

-----------------------------------------------------------------------------

(* The early return of setBit and unsetBit leaves everything as it was:    *)
(* such a call is a stuttering step.                                       *)
SetBit_sinAcceso(o, x) ==
  /\ pc = "listo"
  /\ x >= 0 /\ x < Cap[o]
  /\ bitmap' = [bitmap EXCEPT ![o][x \div BitsInt] = @ \cup {x % BitsInt}]
  /\ cant' = [cant EXCEPT ![o] = @ + 1]
  /\ UNCHANGED <<pc, locales, ret>>

SetBit(o, x) ==
  /\ pc = "listo"
  /\ x >= 0 /\ x < Cap[o]
  /\ Access(o, x) = 0
  /\ bitmap' = [bitmap EXCEPT ![o][x \div BitsInt] = @ \cup {x % BitsInt}]
  /\ cant' = [cant EXCEPT ![o] = @ + 1]
  /\ UNCHANGED <<pc, locales, ret>>

UnsetBit(o, x) ==
  /\ pc = "listo"
  /\ x >= 0 /\ x < Cap[o]
  /\ Access(o, x) = 1
  /\ bitmap' = [bitmap EXCEPT ![o][x \div BitsInt] = @ \ {x % BitsInt}]
  /\ cant' = [cant EXCEPT ![o] = @ - 1]
  /\ UNCHANGED <<pc, locales, ret>>

(* copia() builds a new object of the same capacity and copies the words   *)
(* and the counter; p is the name the new object takes.                    *)
Copia(o, p) ==
  /\ pc = "listo"
  /\ p # o /\ Cap[p] = Cap[o]
  /\ bitmap' = [bitmap EXCEPT ![p] = bitmap[o]]
  /\ cant' = [cant EXCEPT ![p] = cant[o]]
  /\ UNCHANGED <<pc, locales, ret>>

-----------------------------------------------------------------------------
(* count(a, b)                                                             *)

(* pInicial and pFinal after the swap and the two clamps *)
Inicial(a, b) ==
  LET menor == IF a > b THEN b ELSE a
  IN  IF menor < 0 THEN 0 ELSE menor

Final_sinRecorte(o, a, b) == IF a > b THEN a ELSE b

Final(o, a, b) ==
  LET mayor == IF a > b THEN a ELSE b
  IN  IF mayor > Cap[o] THEN Cap[o] - 1 ELSE mayor

Todo(o, a, b) == Inicial(a, b) = 0 /\ Final(o, a, b) = Cap[o] - 1

(* The whole range: the cached counter is returned. *)
CountTodo(o, a, b) ==
  /\ pc = "listo"
  /\ Todo(o, a, b)
  /\ obj' = o /\ args' = <<a, b>>
  /\ ret' = cant[o]
  /\ UNCHANGED <<bitmap, cant, pc, bucle>>

CountInicio(o, a, b) ==
  /\ pc = "listo"
  /\ ~ Todo(o, a, b)
  /\ pc' = "bucle"
  /\ obj' = o /\ args' = <<a, b>>
  /\ pFinal' = Final(o, a, b)
  /\ pos' = Inicial(a, b)
  /\ posInt' = Inicial(a, b) \div BitsInt
  /\ posBit' = Inicial(a, b) % BitsInt
  /\ mascara' = Inicial(a, b) % BitsInt
  /\ count' = 0
  /\ UNCHANGED <<bitmap, cant, ret>>

(* What the loop may read: a bit of the bitmap, or, past the last word,    *)
(* whatever lies there.                                                    *)
Lecturas == IF posInt < Ints(obj) THEN {mascara \in bitmap[obj][posInt]} ELSE BOOLEAN

AvanzaBit_sinMascara ==
  IF posBit + 1 = BitsInt
  THEN posBit' = 0 /\ posInt' = posInt + 1 /\ UNCHANGED mascara
  ELSE posBit' = posBit + 1 /\ mascara' = mascara + 1 /\ UNCHANGED posInt

AvanzaBit ==
  IF posBit + 1 = BitsInt
  THEN mascara' = 0 /\ posBit' = 0 /\ posInt' = posInt + 1
  ELSE posBit' = posBit + 1 /\ mascara' = mascara + 1 /\ UNCHANGED posInt

CountPaso_soloEnUnos ==
  /\ pc = "bucle"
  /\ pos <= pFinal
  /\ \E uno \in Lecturas :
       /\ uno
       /\ count' = count + 1
       /\ pos' = pos + 1
       /\ AvanzaBit
  /\ UNCHANGED <<bitmap, cant, pc, obj, args, pFinal, ret>>

CountPaso ==
  /\ pc = "bucle"
  /\ pos <= pFinal
  /\ \E uno \in Lecturas : count' = IF uno THEN count + 1 ELSE count
  /\ pos' = pos + 1
  /\ AvanzaBit
  /\ UNCHANGED <<bitmap, cant, pc, obj, args, pFinal, ret>>

(* The loop's variables do not outlive the call. *)
Olvida ==
  /\ pFinal' = 0 /\ pos' = 0 /\ posInt' = 0
  /\ posBit' = 0 /\ mascara' = 0 /\ count' = 0

CountFin_antes ==
  /\ pc = "bucle"
  /\ pos >= pFinal
  /\ pc' = "listo"
  /\ ret' = count
  /\ Olvida
  /\ UNCHANGED <<bitmap, cant, obj, args>>

CountFin ==
  /\ pc = "bucle"
  /\ pos > pFinal
  /\ pc' = "listo"
  /\ ret' = count
  /\ Olvida
  /\ UNCHANGED <<bitmap, cant, obj, args>>

-----------------------------------------------------------------------------

Next ==
  \/ \E o \in Objetos, x \in Posiciones : SetBit(o, x) \/ UnsetBit(o, x)
  \/ \E o, p \in Objetos : Copia(o, p)
  \/ \E o \in Objetos, a, b \in Posiciones : CountTodo(o, a, b) \/ CountInicio(o, a, b)
  \/ CountPaso
  \/ CountFin

(* A call, once made, runs to its return; callers need not call. *)
Fairness == WF_vars(CountPaso) /\ WF_vars(CountFin)

Spec == Init /\ [][Next]_vars

FairSpec == Spec /\ Fairness

-----------------------------------------------------------------------------
(* Properties                                                              *)

Palabras(o) == [0 .. Ints(o) - 1 -> SUBSET (0 .. BitsInt - 1)]

TypeOK ==
  /\ bitmap = [o \in Objetos |-> bitmap[o]]
  /\ \A o \in Objetos : bitmap[o] \in Palabras(o)
  /\ cant \in [Objetos -> Int]
  /\ pc \in {"listo", "bucle"}
  /\ obj \in Objetos
  /\ args \in Int \X Int
  /\ pFinal \in Int /\ pos \in Nat /\ posInt \in Nat
  /\ posBit \in 0 .. BitsInt - 1 /\ mascara \in 0 .. BitsInt - 1
  /\ count \in Nat /\ ret \in Int

(* The counter that setBit and unsetBit keep, and copia hands on, is the   *)
(* number of positions access reports as 1 (MiniBitmap.cpp:25-62, 145-152):*)
(* the code returns it for whole-range counts and sizes loops with it.     *)
ContadorExacto == \A o \in Objetos : cant[o] = Cardinality(Unos(o))

(* The bits of the last word past cap are never set (MiniBitmap.cpp:26):   *)
(* a count that runs into them reads zeros.                                *)
RellenoLimpio ==
  \A o \in Objetos : \A w \in 0 .. Ints(o) - 1 : \A k \in bitmap[o][w] :
    w * BitsInt + k < Cap[o]

(* The ones the running count has already passed. *)
Pasados == {x \in Unos(obj) : Inicial(args[1], args[2]) <= x /\ x < pos}

(* Inside the loop of count, word, bit and mask are those of pos, and the  *)
(* partial count is the number of ones already passed, or one more once    *)
(* the loop has read the position cap, past the end of a bitmap that fills *)
(* its last word (MiniBitmap.cpp:119-141).                                 *)
BucleAlineado ==
  pc = "bucle" =>
    /\ args \in Posiciones \X Posiciones
    /\ posInt = pos \div BitsInt
    /\ posBit = pos % BitsInt
    /\ mascara = posBit
    /\ pFinal = Final(obj, args[1], args[2])
    /\ Inicial(args[1], args[2]) <= pos
    /\ pos <= pFinal + 1 \/ pos = Inicial(args[1], args[2])
    /\ \/ count = Cardinality(Pasados)
       \/ /\ Cap[obj] % BitsInt = 0
          /\ pFinal = Cap[obj] /\ pos = Cap[obj] + 1
          /\ count = Cardinality(Pasados) + 1

(* The inductive invariant: what a count has seen rests on the loop        *)
(* variables and, at the position cap, on the clean bits past it.          *)
IInv == TypeOK /\ ContadorExacto /\ RellenoLimpio /\ BucleAlineado

(* A count, once started, returns (MiniBitmap.cpp:125-142). *)
CountTermina == pc = "bucle" ~> pc = "listo"

(* The words implement a set of positions (ConjuntoBits): every operation  *)
(* of MiniBitmap.cpp:25-62 and 110-152 does to the set, and answers of it, *)
(* what a set of positions would.                                          *)
Conjunto == INSTANCE ConjuntoBits 
              WITH unos <- [o \in Objetos |-> Unos(o)], pendiente <- pc = "bucle"

ConjuntoSpec == Conjunto!Spec

EntreArgs ==
  {x \in Unos(obj) : \/ /\ args[1] <= x
                        /\ x <= args[2]
                     \/ /\ args[2] <= x
                        /\ x <= args[1]}

Retorna == CountFin \/ \E o \in Objetos, a, b \in Posiciones : CountTodo(o, a, b)

(* "Cuenta la cantidad de 1s (unos) que hay entre dos posiciones           *)
(* (incluyendolas)" (MiniBitmap.cpp:109): what count returns is the number *)
(* of ones between the two positions it was called with.                   *)
CuentaLosUnos == [][Retorna => ret' = Cardinality(EntreArgs)']_vars

=============================================================================
