--------------------------- MODULE MiniBitmap_proof ---------------------------
(***************************************************************************)
(* Proofs about MiniBitmap, for every capacity, word size and set of       *)
(* positions.                                                              *)
(***************************************************************************)
EXTENDS MiniBitmap, FiniteSetTheorems, TLAPS

-----------------------------------------------------------------------------
(* Words and bits                                                          *)

LEMMA Division ==
  ASSUME NEW x \in Nat
  PROVE  /\ x \div BitsInt \in Nat
         /\ x % BitsInt \in 0 .. BitsInt - 1
         /\ x = (x \div BitsInt) * BitsInt + (x % BitsInt)
BY BitsIntAssumption

LEMMA DivisionUnica ==
  ASSUME NEW q \in Nat, NEW r \in 0 .. BitsInt - 1, NEW x \in Nat, x = q * BitsInt + r
  PROVE  x \div BitsInt = q /\ x % BitsInt = r
BY BitsIntAssumption

(* The step of the loop keeps word and bit those of the position. *)
LEMMA SiguientePosicion ==
  ASSUME NEW x \in Nat
  PROVE  /\ (x % BitsInt) + 1 = BitsInt =>
              (x + 1) \div BitsInt = x \div BitsInt + 1 /\ (x + 1) % BitsInt = 0
         /\ (x % BitsInt) + 1 # BitsInt =>
              (x + 1) \div BitsInt = x \div BitsInt /\ (x + 1) % BitsInt = (x % BitsInt) + 1
BY BitsIntAssumption

LEMMA IntsCubre ==
  ASSUME NEW o \in Objetos
  PROVE  Ints(o) \in Nat \ {0} /\ Cap[o] \in Nat \ {0} /\ Cap[o] <= Ints(o) * BitsInt
BY BitsIntAssumption, CapAssumption DEF Ints

(* A position below the capacity has its word. *)
LEMMA PalabraExiste ==
  ASSUME NEW o \in Objetos, NEW x \in Dominio(o)
  PROVE  x \div BitsInt \in 0 .. Ints(o) - 1 /\ x % BitsInt \in 0 .. BitsInt - 1
BY BitsIntAssumption, IntsCubre, Division DEF Dominio

-----------------------------------------------------------------------------
(* Types                                                                   *)

LEMMA LimitesCount ==
  ASSUME NEW o \in Objetos, NEW a \in Int, NEW b \in Int
  PROVE  Inicial(a, b) \in Nat /\ Final(o, a, b) \in Int /\ Final(o, a, b) <= Cap[o]
BY CapAssumption DEF Inicial, Final

LEMMA TiposInicio == ASSUME Init PROVE TypeOK
<1>1. 0 \in 0 .. BitsInt - 1
  BY BitsIntAssumption
<1>2. \A o \in Objetos : bitmap[o] \in Palabras(o)
  BY DEF Init, Palabras
<1> QED BY <1>1, <1>2 DEF Init, TypeOK

LEMMA TiposPaso == ASSUME TypeOK, BucleAlineado, [Next]_vars PROVE TypeOK'
<1>1. ASSUME NEW o \in Objetos, NEW x \in Posiciones, SetBit(o, x) \/ UnsetBit(o, x)
      PROVE  TypeOK'
  <2>1. x \in Int /\ x >= 0 /\ x < Cap[o] /\ Cap[o] \in Nat
    BY <1>1, PosicionesAssumption, CapAssumption DEF SetBit, UnsetBit
  <2>2. x \div BitsInt \in 0 .. Ints(o) - 1 /\ x % BitsInt \in 0 .. BitsInt - 1
    BY <2>1, PalabraExiste DEF Dominio
  <2>3. PICK W \in SUBSET (0 .. BitsInt - 1) :
          bitmap' = [bitmap EXCEPT ![o][x \div BitsInt] = W]
    <3>1. bitmap[o][x \div BitsInt] \in SUBSET (0 .. BitsInt - 1)
      BY <2>2 DEF TypeOK, Palabras
    <3> DEFINE P == bitmap[o][x \div BitsInt] \cup {x % BitsInt}
               M == bitmap[o][x \div BitsInt] \ {x % BitsInt}
    <3>2. P \in SUBSET (0 .. BitsInt - 1) /\ M \in SUBSET (0 .. BitsInt - 1)
      BY <2>2, <3>1
    <3>3. bitmap' = [bitmap EXCEPT ![o][x \div BitsInt] = P]
            \/ bitmap' = [bitmap EXCEPT ![o][x \div BitsInt] = M]
      BY <1>1 DEF SetBit, UnsetBit
    <3> HIDE DEF P, M
    <3> QED BY <3>2, <3>3
  <2>4. bitmap' = [u \in Objetos |-> bitmap'[u]]
    BY <2>3 DEF TypeOK
  <2>5. ASSUME NEW u \in Objetos PROVE bitmap'[u] \in Palabras(u)
    <3>1. bitmap[u] \in Palabras(u)
      BY DEF TypeOK
    <3>2. CASE u = o
      <4>1. bitmap'[o] = [bitmap[o] EXCEPT ![x \div BitsInt] = W]
        BY <2>3 DEF TypeOK
      <4> QED BY <2>2, <3>1, <3>2, <4>1 DEF Palabras
    <3>3. CASE u # o
      BY <2>3, <3>1, <3>3 DEF TypeOK
    <3> QED BY <3>2, <3>3
  <2>6. cant' \in [Objetos -> Int]
    BY <1>1 DEF SetBit, UnsetBit, TypeOK
  <2>7. UNCHANGED <<pc, locales, ret>>
    BY <1>1 DEF SetBit, UnsetBit
  <2> QED BY <2>4, <2>5, <2>6, <2>7 DEF TypeOK, locales, bucle
<1>2. ASSUME NEW o \in Objetos, NEW p \in Objetos, Copia(o, p) PROVE TypeOK'
  <2>1. Palabras(p) = Palabras(o)
    BY <1>2 DEF Copia, Palabras, Ints
  <2>2. bitmap' = [bitmap EXCEPT ![p] = bitmap[o]] /\ cant' = [cant EXCEPT ![p] = cant[o]]
        /\ UNCHANGED <<pc, locales, ret>>
    BY <1>2 DEF Copia
  <2>3. bitmap' = [u \in Objetos |-> bitmap'[u]] /\ cant' \in [Objetos -> Int]
    BY <2>2 DEF TypeOK
  <2>4. \A u \in Objetos : bitmap'[u] \in Palabras(u)
    BY <2>1, <2>2 DEF TypeOK
  <2> QED BY <2>2, <2>3, <2>4 DEF TypeOK, locales, bucle
<1>3. ASSUME NEW o \in Objetos, NEW a \in Posiciones, NEW b \in Posiciones, CountTodo(o, a, b)
      PROVE  TypeOK'
  <2>1. a \in Int /\ b \in Int
    BY PosicionesAssumption
  <2> QED BY <1>3, <2>1 DEF CountTodo, TypeOK, bucle
<1>4. ASSUME NEW o \in Objetos, NEW a \in Posiciones, NEW b \in Posiciones,
             CountInicio(o, a, b)
      PROVE  TypeOK'
  <2>1. a \in Int /\ b \in Int
    BY PosicionesAssumption
  <2>2. Inicial(a, b) \in Nat /\ Final(o, a, b) \in Int
    BY <2>1, LimitesCount
  <2>3. Inicial(a, b) \div BitsInt \in Nat /\ Inicial(a, b) % BitsInt \in 0 .. BitsInt - 1
    BY <2>2, Division
  <2> QED BY <1>4, <2>1, <2>2, <2>3 DEF CountInicio, TypeOK
<1>5. CASE CountPaso
  <2>1. count' \in Nat /\ pos' \in Nat
    BY <1>5 DEF CountPaso, TypeOK
  <2>2. posInt' \in Nat /\ posBit' \in 0 .. BitsInt - 1
    BY <1>5, BitsIntAssumption DEF CountPaso, AvanzaBit, TypeOK
  <2>3. mascara = posBit
    BY <1>5 DEF CountPaso, BucleAlineado
  <2>4. mascara' \in 0 .. BitsInt - 1
    BY <1>5, <2>3, BitsIntAssumption DEF CountPaso, AvanzaBit, TypeOK
  <2>5. UNCHANGED <<bitmap, cant, pc, obj, args, pFinal, ret>>
    BY <1>5 DEF CountPaso
  <2> QED BY <2>1, <2>2, <2>4, <2>5 DEF TypeOK
<1>6. CASE CountFin
  BY <1>6, BitsIntAssumption DEF CountFin, Olvida, TypeOK
<1>7. CASE UNCHANGED vars
  BY <1>7 DEF vars, locales, bucle, TypeOK
<1> QED BY <1>1, <1>2, <1>3, <1>4, <1>5, <1>6, <1>7 DEF Next

-----------------------------------------------------------------------------
(* What the operations do to the set                                       *)

LEMMA UnosFinito ==
  ASSUME NEW o \in Objetos
  PROVE  /\ Unos(o) \subseteq Dominio(o) /\ Dominio(o) \subseteq Nat
         /\ IsFiniteSet(Dominio(o)) /\ IsFiniteSet(Unos(o))
<1>1. Cap[o] \in Nat
  BY CapAssumption
<1>2. IsFiniteSet(Dominio(o)) /\ Dominio(o) \subseteq Nat
  <2>1. \A k \in Nat : IsFiniteSet(0 .. k - 1) /\ 0 .. k - 1 \subseteq Nat
    <3> TAKE k \in Nat
    <3>1. k - 1 \in Int
      OBVIOUS
    <3> QED BY <3>1, FS_Interval
  <2> QED BY <1>1, <2>1 DEF Dominio
<1>3. Unos(o) \in SUBSET Dominio(o)
  BY DEF Unos
<1> QED BY <1>2, <1>3, FS_Subset

(* Two positions with the same word and the same bit are the same. *)
LEMMA MismaPosicion ==
  ASSUME NEW x \in Nat, NEW y \in Nat, x \div BitsInt = y \div BitsInt,
         x % BitsInt = y % BitsInt
  PROVE  x = y
BY Division

LEMMA PonerBit ==
  ASSUME TypeOK, NEW o \in Objetos, NEW x \in Posiciones, SetBit(o, x)
  PROVE  /\ x \in Dominio(o) /\ x \notin Unos(o)
         /\ Unos(o)' = Unos(o) \cup {x}
         /\ \A u \in Objetos \ {o} : Unos(u)' = Unos(u)
<1>1. x \in Dominio(o) /\ Access(o, x) = 0
  BY PosicionesAssumption, CapAssumption DEF SetBit, Dominio
<1>2. x \in Nat
  BY <1>1, UnosFinito
<1>3. x \notin Unos(o)
  BY <1>1, CapAssumption DEF Access, Unos, Dominio
<1>4. bitmap' = [bitmap EXCEPT ![o][x \div BitsInt] = @ \cup {x % BitsInt}]
  BY DEF SetBit
<1>5. \A u \in Objetos \ {o} : Unos(u)' = Unos(u)
  BY <1>4 DEF TypeOK, Unos, Bit
<1>6. ASSUME NEW y \in Dominio(o) PROVE Bit(o, y)' <=> Bit(o, y) \/ y = x
  <2>1. y \in Nat
    BY UnosFinito
  <2>2. y \div BitsInt \in 0 .. Ints(o) - 1
    BY PalabraExiste
  <2>3. bitmap[o] \in Palabras(o)
    BY DEF TypeOK
  <2>4. bitmap'[o] = [bitmap[o] EXCEPT ![x \div BitsInt] = @ \cup {x % BitsInt}]
    BY <1>4 DEF TypeOK
  <2>5. bitmap'[o][y \div BitsInt] =
          IF y \div BitsInt = x \div BitsInt
          THEN bitmap[o][y \div BitsInt] \cup {x % BitsInt}
          ELSE bitmap[o][y \div BitsInt]
    BY <2>2, <2>3, <2>4 DEF Palabras
  <2> QED BY <1>2, <2>1, <2>5, MismaPosicion DEF Bit
<1>7. Unos(o)' = Unos(o) \cup {x}
  BY <1>1, <1>6 DEF Unos
<1> QED BY <1>1, <1>3, <1>5, <1>7

LEMMA QuitarBit ==
  ASSUME TypeOK, NEW o \in Objetos, NEW x \in Posiciones, UnsetBit(o, x)
  PROVE  /\ x \in Unos(o)
         /\ Unos(o)' = Unos(o) \ {x}
         /\ \A u \in Objetos \ {o} : Unos(u)' = Unos(u)
<1>1. x \in Dominio(o) /\ Access(o, x) = 1
  BY PosicionesAssumption, CapAssumption DEF UnsetBit, Dominio
<1>2. x \in Nat
  BY <1>1, UnosFinito
<1>3. x \in Unos(o)
  BY <1>1 DEF Access, Unos
<1>4. bitmap' = [bitmap EXCEPT ![o][x \div BitsInt] = @ \ {x % BitsInt}]
  BY DEF UnsetBit
<1>5. \A u \in Objetos \ {o} : Unos(u)' = Unos(u)
  BY <1>4 DEF TypeOK, Unos, Bit
<1>6. ASSUME NEW y \in Dominio(o) PROVE Bit(o, y)' <=> Bit(o, y) /\ y # x
  <2>1. y \in Nat
    BY UnosFinito
  <2>2. y \div BitsInt \in 0 .. Ints(o) - 1
    BY PalabraExiste
  <2>3. bitmap[o] \in Palabras(o)
    BY DEF TypeOK
  <2>4. bitmap'[o] = [bitmap[o] EXCEPT ![x \div BitsInt] = @ \ {x % BitsInt}]
    BY <1>4 DEF TypeOK
  <2>5. bitmap'[o][y \div BitsInt] =
          IF y \div BitsInt = x \div BitsInt
          THEN bitmap[o][y \div BitsInt] \ {x % BitsInt}
          ELSE bitmap[o][y \div BitsInt]
    BY <2>2, <2>3, <2>4 DEF Palabras
  <2> QED BY <1>2, <2>1, <2>5, MismaPosicion DEF Bit
<1>7. Unos(o)' = Unos(o) \ {x}
  BY <1>1, <1>6 DEF Unos
<1> QED BY <1>3, <1>5, <1>7

LEMMA CopiarBits ==
  ASSUME TypeOK, NEW o \in Objetos, NEW p \in Objetos, Copia(o, p)
  PROVE  /\ Unos(p)' = Unos(o)
         /\ \A u \in Objetos \ {p} : Unos(u)' = Unos(u)
BY DEF Copia, TypeOK, Unos, Bit, Dominio

LEMMA MismosBits ==
  ASSUME UNCHANGED bitmap
  PROVE  \A u \in Objetos : Unos(u)' = Unos(u)
BY DEF Unos, Bit

-----------------------------------------------------------------------------
(* The counter and the clean bits                                          *)

LEMMA ContadorPaso == ASSUME TypeOK, ContadorExacto, [Next]_vars PROVE ContadorExacto'
<1>1. ASSUME NEW o \in Objetos, NEW x \in Posiciones, SetBit(o, x) PROVE ContadorExacto'
  <2>1. x \notin Unos(o) /\ Unos(o)' = Unos(o) \cup {x}
        /\ \A u \in Objetos \ {o} : Unos(u)' = Unos(u)
    BY <1>1, PonerBit
  <2>2. Cardinality(Unos(o)') = Cardinality(Unos(o)) + 1
    BY <2>1, UnosFinito, FS_AddElement
  <2>3. cant' = [cant EXCEPT ![o] = @ + 1]
    BY <1>1 DEF SetBit
  <2> QED BY <2>1, <2>2, <2>3 DEF ContadorExacto, TypeOK
<1>2. ASSUME NEW o \in Objetos, NEW x \in Posiciones, UnsetBit(o, x) PROVE ContadorExacto'
  <2>1. x \in Unos(o) /\ Unos(o)' = Unos(o) \ {x}
        /\ \A u \in Objetos \ {o} : Unos(u)' = Unos(u)
    BY <1>2, QuitarBit
  <2>2. Cardinality(Unos(o)') = Cardinality(Unos(o)) - 1
    BY <2>1, UnosFinito, FS_RemoveElement
  <2>3. cant' = [cant EXCEPT ![o] = @ - 1]
    BY <1>2 DEF UnsetBit
  <2> QED BY <2>1, <2>2, <2>3 DEF ContadorExacto, TypeOK
<1>3. ASSUME NEW o \in Objetos, NEW p \in Objetos, Copia(o, p) PROVE ContadorExacto'
  <2>1. cant' = [cant EXCEPT ![p] = cant[o]]
    BY <1>3 DEF Copia
  <2> QED BY <1>3, <2>1, CopiarBits DEF ContadorExacto, TypeOK
<1>4. CASE UNCHANGED <<bitmap, cant>>
  BY <1>4, MismosBits DEF ContadorExacto
<1> QED BY <1>1, <1>2, <1>3, <1>4
    DEF Next, CountTodo, CountInicio, CountPaso, CountFin, vars

LEMMA RellenoPaso == ASSUME TypeOK, RellenoLimpio, [Next]_vars PROVE RellenoLimpio'
<1>1. ASSUME NEW o \in Objetos, NEW x \in Posiciones, SetBit(o, x) PROVE RellenoLimpio'
  <2>1. x \in Nat /\ x < Cap[o]
    BY <1>1, PosicionesAssumption DEF SetBit
  <2>2. (x \div BitsInt) * BitsInt + (x % BitsInt) = x
    BY <2>1, Division
  <2>3. bitmap' = [bitmap EXCEPT ![o][x \div BitsInt] = @ \cup {x % BitsInt}]
    BY <1>1 DEF SetBit
  <2>4. ASSUME NEW u \in Objetos, NEW w \in 0 .. Ints(u) - 1, NEW k \in bitmap'[u][w]
        PROVE  w * BitsInt + k < Cap[u]
    <3>1. bitmap[u] \in Palabras(u)
      BY DEF TypeOK
    <3>2. k \in bitmap[u][w] \/ (u = o /\ w = x \div BitsInt /\ k = x % BitsInt)
      BY <2>3, <3>1 DEF TypeOK, Palabras
    <3>3. CASE k \in bitmap[u][w]
      BY <3>3 DEF RellenoLimpio
    <3>4. CASE u = o /\ w = x \div BitsInt /\ k = x % BitsInt
      BY <2>1, <2>2, <3>4
    <3> QED BY <3>2, <3>3, <3>4
  <2> QED BY <2>4 DEF RellenoLimpio, Ints
<1>2. ASSUME NEW o \in Objetos, NEW x \in Posiciones, UnsetBit(o, x) PROVE RellenoLimpio'
  <2>1. bitmap' = [bitmap EXCEPT ![o][x \div BitsInt] = @ \ {x % BitsInt}]
    BY <1>2 DEF UnsetBit
  <2>2. ASSUME NEW u \in Objetos, NEW w \in 0 .. Ints(u) - 1, NEW k \in bitmap'[u][w]
        PROVE  w * BitsInt + k < Cap[u]
    <3>1. bitmap[u] \in Palabras(u)
      BY DEF TypeOK
    <3>2. k \in bitmap[u][w]
      BY <2>1, <3>1 DEF TypeOK, Palabras
    <3> QED BY <3>2 DEF RellenoLimpio
  <2> QED BY <2>2 DEF RellenoLimpio, Ints
<1>3. ASSUME NEW o \in Objetos, NEW p \in Objetos, Copia(o, p) PROVE RellenoLimpio'
  <2>1. Cap[p] = Cap[o] /\ bitmap' = [bitmap EXCEPT ![p] = bitmap[o]]
    BY <1>3 DEF Copia
  <2>2. Ints(p) = Ints(o)
    BY <2>1 DEF Ints
  <2>3. \A u \in Objetos : bitmap'[u] = IF u = p THEN bitmap[o] ELSE bitmap[u]
    BY <2>1 DEF TypeOK
  <2> QED BY <2>1, <2>2, <2>3 DEF RellenoLimpio
<1>4. CASE UNCHANGED bitmap
  BY <1>4 DEF RellenoLimpio
<1> QED BY <1>1, <1>2, <1>3, <1>4
    DEF Next, CountTodo, CountInicio, CountPaso, CountFin, vars

-----------------------------------------------------------------------------
(* The loop of count                                                       *)

(* One more position is passed, and counts if it holds a one. *)
LEMMA PasadosAvanza ==
  ASSUME TypeOK, NEW j, j = Inicial(args[1], args[2]), j <= pos, pos' = pos + 1,
         UNCHANGED <<bitmap, obj, args>>
  PROVE  /\ IsFiniteSet(Pasados) /\ Cardinality(Pasados) \in Nat
         /\ Cardinality(Pasados)' =
              IF pos \in Unos(obj) THEN Cardinality(Pasados) + 1 ELSE Cardinality(Pasados)
<1>1. obj \in Objetos /\ pos \in Nat /\ j \in Int
  BY LimitesCount DEF TypeOK
<1>2. Unos(obj) \subseteq Nat
  BY <1>1, UnosFinito
<1>3. IsFiniteSet(Pasados)
  BY <1>1, UnosFinito, FS_Subset, Pasados \in SUBSET Unos(obj) DEF Pasados
<1>4. Pasados' = {x \in Unos(obj) : j <= x /\ x < pos + 1}
  BY DEF Pasados, Unos, Bit
<1>5. Pasados = {x \in Unos(obj) : j <= x /\ x < pos}
  BY DEF Pasados
<1>6. CASE pos \in Unos(obj)
  <2>1. Pasados' = Pasados \cup {pos} /\ pos \notin Pasados
    BY <1>1, <1>2, <1>4, <1>5, <1>6
  <2> QED BY <1>3, <1>6, <2>1, FS_AddElement, FS_CardinalityType
<1>7. CASE pos \notin Unos(obj)
  <2>1. Pasados' = Pasados
    BY <1>1, <1>2, <1>4, <1>5, <1>7
  <2> QED BY <1>3, <1>7, <2>1, FS_CardinalityType
<1> QED BY <1>6, <1>7

LEMMA BuclePaso ==
  ASSUME TypeOK, RellenoLimpio, BucleAlineado, [Next]_vars
  PROVE  BucleAlineado'
<1>1. ASSUME NEW o \in Objetos, NEW a \in Posiciones, NEW b \in Posiciones,
             CountInicio(o, a, b)
      PROVE  BucleAlineado'
  <2>1. a \in Int /\ b \in Int
    BY PosicionesAssumption
  <2>2. /\ obj' = o /\ args' = <<a, b>> /\ pFinal' = Final(o, a, b)
        /\ pos' = Inicial(a, b) /\ posInt' = pos' \div BitsInt /\ posBit' = pos' % BitsInt
        /\ mascara' = posBit' /\ count' = 0
    BY <1>1 DEF CountInicio
  <2>3. Pasados' = {}
    <3>1. Unos(o)' \subseteq Nat
      BY UnosFinito, <1>1 DEF CountInicio, Unos, Bit
    <3>2. Inicial(a, b) \in Nat
      BY <2>1, LimitesCount
    <3>3. Pasados' = {x \in Unos(o)' : Inicial(a, b) <= x /\ x < Inicial(a, b)}
      BY <2>2 DEF Pasados, Unos, Bit, Dominio
    <3> QED BY <3>1, <3>2, <3>3
  <2>4. Cardinality(Pasados)' = 0
    BY <2>3, FS_EmptySet
  <2>5. Inicial(a, b) <= Inicial(a, b)
    BY <2>1, LimitesCount
  <2> QED BY <2>2, <2>4, <2>5 DEF BucleAlineado
<1>2. CASE CountPaso
  <2> DEFINE j == Inicial(args[1], args[2])
  <2>1. /\ pc = "bucle" /\ pos <= pFinal /\ pos' = pos + 1 /\ AvanzaBit
        /\ UNCHANGED <<bitmap, cant, pc, obj, args, pFinal, ret>>
    BY <1>2 DEF CountPaso
  <2>2. PICK uno \in Lecturas : count' = IF uno THEN count + 1 ELSE count
    BY <1>2 DEF CountPaso
  <2>3. /\ posInt = pos \div BitsInt /\ posBit = pos % BitsInt /\ mascara = posBit
        /\ pFinal = Final(obj, args[1], args[2]) /\ j <= pos
    BY <2>1 DEF BucleAlineado
  <2>4. /\ obj \in Objetos /\ pos \in Nat /\ count \in Nat /\ j \in Nat
        /\ pFinal \in Int /\ pFinal <= Cap[obj] /\ Cap[obj] \in Nat
    BY <2>3, LimitesCount, CapAssumption DEF TypeOK
  <2>5. /\ posInt' = pos' \div BitsInt /\ posBit' = pos' % BitsInt /\ mascara' = posBit'
    BY <2>1, <2>3, <2>4, SiguientePosicion DEF AvanzaBit
  <2>6. pos' <= pFinal' + 1 /\ j <= pos' /\ j = Inicial(args'[1], args'[2])
        /\ pFinal' = Final(obj', args'[1], args'[2])
    BY <2>1, <2>3, <2>4
  <2>7. count = Cardinality(Pasados)
    BY <2>1, <2>4 DEF BucleAlineado
  <2>8. /\ Cardinality(Pasados) \in Nat
        /\ Cardinality(Pasados)' =
             IF pos \in Unos(obj) THEN Cardinality(Pasados) + 1 ELSE Cardinality(Pasados)
    BY <2>1, <2>3, PasadosAvanza
  <2>9. CASE pos < Cap[obj]
    <3>1. pos \in Dominio(obj)
      BY <2>4, <2>9 DEF Dominio
    <3>2. uno <=> pos \in Unos(obj)
      <4>1. posInt < Ints(obj)
        BY <2>3, <2>4, <3>1, PalabraExiste, IntsCubre
      <4>2. uno <=> mascara \in bitmap[obj][posInt]
        BY <2>2, <4>1 DEF Lecturas
      <4> QED BY <2>3, <3>1, <4>2 DEF Unos, Bit
    <3>3. count' = Cardinality(Pasados)'
      BY <2>2, <2>7, <2>8, <3>2
    <3> QED BY <2>1, <2>5, <2>6, <3>3 DEF BucleAlineado
  <2>10. CASE pos = Cap[obj]
    <3>1. pos \notin Unos(obj)
      BY <2>4, <2>10 DEF Unos, Dominio
    <3>2. Cap[obj] % BitsInt = 0 \/ ~ uno
      <4> SUFFICES ASSUME Cap[obj] % BitsInt # 0 PROVE ~ uno
        OBVIOUS
      <4>1. posInt < Ints(obj) /\ posInt \in Nat
        <5>1. Cap[obj] # (Cap[obj] \div BitsInt) * BitsInt
          BY <2>4, Division
        <5>2. Cap[obj] >= (Cap[obj] \div BitsInt) * BitsInt
              /\ Cap[obj] \div BitsInt \in Nat /\ (Cap[obj] \div BitsInt) * BitsInt \in Nat
          BY <2>4, Division, BitsIntAssumption
        <5>3. Ints(obj) = (Cap[obj] \div BitsInt) + 1
          BY <2>4, <5>1, <5>2 DEF Ints
        <5> QED BY <2>3, <2>10, <5>2, <5>3
      <4>2. uno <=> mascara \in bitmap[obj][posInt]
        BY <2>2, <4>1 DEF Lecturas
      <4>3. posInt * BitsInt + mascara = Cap[obj]
        BY <2>3, <2>4, <2>10, Division
      <4>4. posInt \in 0 .. Ints(obj) - 1
        BY <2>4, <4>1, IntsCubre
      <4>5. mascara \notin bitmap[obj][posInt]
        BY <2>4, <4>3, <4>4 DEF RellenoLimpio
      <4> QED BY <4>2, <4>5
    <3>3. Cardinality(Pasados)' = Cardinality(Pasados)
      BY <2>8, <3>1
    <3>4. \/ count' = Cardinality(Pasados)'
          \/ /\ Cap[obj'] % BitsInt = 0 /\ pFinal' = Cap[obj'] /\ pos' = Cap[obj'] + 1
             /\ count' = Cardinality(Pasados)' + 1
      <4>1. pFinal = Cap[obj]
        BY <2>1, <2>4, <2>10
      <4> QED BY <2>1, <2>2, <2>7, <2>10, <3>2, <3>3, <4>1
    <3> QED BY <2>1, <2>5, <2>6, <3>4 DEF BucleAlineado
  <2> QED BY <2>1, <2>4, <2>9, <2>10
<1>3. CASE pc' = "listo"
  BY <1>3 DEF BucleAlineado
<1>4. CASE UNCHANGED vars
  BY <1>4 DEF BucleAlineado, vars, locales, bucle, Pasados, Unos, Bit
<1>5. ASSUME NEW o \in Objetos, NEW p \in Objetos, NEW x \in Posiciones,
             SetBit(o, x) \/ UnsetBit(o, x) \/ Copia(o, p)
      PROVE  pc' = "listo"
  BY <1>5 DEF SetBit, UnsetBit, Copia
<1>6. ASSUME NEW o \in Objetos, NEW p \in Objetos, Copia(o, p) PROVE pc' = "listo"
  BY <1>6 DEF Copia
<1>7. ASSUME NEW o \in Objetos, NEW a \in Posiciones, NEW b \in Posiciones, CountTodo(o, a, b)
      PROVE  pc' = "listo"
  BY <1>7 DEF CountTodo
<1>8. CASE CountFin
  BY <1>3, <1>8 DEF CountFin
<1> QED BY <1>1, <1>2, <1>3, <1>4, <1>5, <1>6, <1>7, <1>8 DEF Next

-----------------------------------------------------------------------------
(* Answers                                                                 *)

(* Between the positions of a call lie those the loop goes through. *)
LEMMA EntreRecortado ==
  ASSUME NEW o \in Objetos, NEW a \in Int, NEW b \in Int, NEW x \in Dominio(o)
  PROVE  (a <= x /\ x <= b) \/ (b <= x /\ x <= a)
           <=> Inicial(a, b) <= x /\ x <= Final(o, a, b)
<1>1. Cap[o] \in Nat /\ x \in Nat /\ x <= Cap[o] - 1
  BY CapAssumption DEF Dominio
<1>2. CASE a > b
  BY <1>1, <1>2 DEF Inicial, Final
<1>3. CASE ~ (a > b)
  BY <1>1, <1>3 DEF Inicial, Final
<1> QED BY <1>2, <1>3

(* The whole range holds all the ones. *)
LEMMA TodoEsTodo ==
  ASSUME NEW o \in Objetos, NEW a \in Int, NEW b \in Int, Todo(o, a, b)
  PROVE  {x \in Unos(o) : (a <= x /\ x <= b) \/ (b <= x /\ x <= a)} = Unos(o)
<1>1. \A x \in Dominio(o) : Inicial(a, b) <= x /\ x <= Final(o, a, b)
  BY CapAssumption DEF Todo, Dominio
<1>2. \A x \in Unos(o) : (a <= x /\ x <= b) \/ (b <= x /\ x <= a)
  BY <1>1, EntreRecortado, UnosFinito
<1> QED BY <1>2

(* At the end of the loop all of them have been passed. *)
LEMMA FinDelBucle ==
  ASSUME TypeOK, BucleAlineado, CountFin
  PROVE  /\ EntreArgs = Pasados
         /\ \/ count = Cardinality(EntreArgs)
            \/ /\ Cap[obj] % BitsInt = 0 /\ Final(obj, args[1], args[2]) = Cap[obj]
               /\ count = Cardinality(EntreArgs) + 1
<1> DEFINE a == args[1]
           b == args[2]
<1>1. /\ obj \in Objetos /\ a \in Int /\ b \in Int /\ pos \in Nat
      /\ pos > pFinal /\ pFinal = Final(obj, a, b) /\ pFinal \in Int
      /\ Inicial(a, b) <= pos /\ (pos <= pFinal + 1 \/ pos = Inicial(a, b))
      /\ Inicial(a, b) \in Nat
  <2>1. obj \in Objetos /\ a \in Int /\ b \in Int /\ pos \in Nat /\ pFinal \in Int
    BY DEF TypeOK
  <2> QED BY <2>1, LimitesCount DEF CountFin, BucleAlineado
<1>2. ASSUME NEW x \in Dominio(obj)
      PROVE  Inicial(a, b) <= x /\ x < pos <=> Inicial(a, b) <= x /\ x <= Final(obj, a, b)
  <2>1. x \in Nat
    BY <1>1, UnosFinito
  <2> QED BY <1>1, <2>1
<1>3. \A x \in Unos(obj) :
        Inicial(a, b) <= x /\ x < pos <=> (a <= x /\ x <= b) \/ (b <= x /\ x <= a)
  BY <1>1, <1>2, EntreRecortado, UnosFinito
<1>4. EntreArgs = Pasados
  BY <1>3 DEF EntreArgs, Pasados
<1> QED BY <1>1, <1>4 DEF BucleAlineado, CountFin

-----------------------------------------------------------------------------
(* Theorems                                                                *)

LEMMA IInvInicial == ASSUME Init PROVE IInv
<1>1. \A o \in Objetos : \A x \in Dominio(o) : ~ Bit(o, x)
  BY PalabraExiste DEF Init, Bit
<1>2. \A o \in Objetos : Unos(o) = {}
  BY <1>1 DEF Unos
<1>3. ContadorExacto
  BY <1>2, FS_EmptySet DEF Init, ContadorExacto
<1>4. RellenoLimpio
  BY DEF Init, RellenoLimpio
<1>5. BucleAlineado
  BY DEF Init, BucleAlineado
<1> QED BY <1>3, <1>4, <1>5, TiposInicio DEF IInv

(* What a bitmap keeps and what a running count has seen, at every point   *)
(* of a run (MiniBitmap.cpp:4-152).                                        *)
THEOREM Invariante == Spec => []IInv
<1>1. Init => IInv
  BY IInvInicial
<1>2. IInv /\ [Next]_vars => IInv'
  BY TiposPaso, ContadorPaso, RellenoPaso, BuclePaso DEF IInv
<1> QED BY <1>1, <1>2, PTL DEF Spec

(* Every variable keeps its type: in particular setBit, unsetBit and       *)
(* access stay within the words the constructor made, and the loop of      *)
(* count within one word (MiniBitmap.cpp:4-62,125-141).                    *)
THEOREM TiposDelBitmap == Spec => []TypeOK
<1>1. IInv => TypeOK
  BY DEF IInv
<1> QED BY <1>1, Invariante, PTL

(* In the loop of count the word, the bit and the mask never come apart    *)
(* from the position, and the partial count is that of the ones passed     *)
(* (MiniBitmap.cpp:125-141).                                               *)
THEOREM BucleSiempreAlineado == Spec => []BucleAlineado
<1>1. IInv => BucleAlineado
  BY DEF IInv
<1> QED BY <1>1, Invariante, PTL

(* The cached counter is the number of ones (MiniBitmap.cpp:25-46,145).    *)
THEOREM ContadorFiel == Spec => []ContadorExacto
<1>1. IInv => ContadorExacto
  BY DEF IInv
<1> QED BY <1>1, Invariante, PTL

(* The bits past the capacity are never set (MiniBitmap.cpp:26,38).        *)
THEOREM RellenoSiempreLimpio == Spec => []RellenoLimpio
<1>1. IInv => RellenoLimpio
  BY DEF IInv
<1> QED BY <1>1, Invariante, PTL

(* When no bitmap fills its last word, count always answers what its       *)
(* comment says (MiniBitmap.cpp:109-142): the position cap, which the      *)
(* clamp lets through, is then a clean bit.                                *)
THEOREM CuentaExacta ==
  ASSUME \A o \in Objetos : Cap[o] % BitsInt # 0
  PROVE  Spec => CuentaLosUnos
<1>1. IInv /\ [Next]_vars => [Retorna => ret' = Cardinality(EntreArgs)']_vars
  <2> SUFFICES ASSUME IInv, Retorna PROVE ret' = Cardinality(EntreArgs)'
    OBVIOUS
  <2>1. CASE CountFin
    <3>1. ret' = count /\ UNCHANGED <<bitmap, obj, args>> /\ obj \in Objetos
      BY <2>1 DEF CountFin, IInv, TypeOK
    <3>2. count = Cardinality(EntreArgs)
      BY <2>1, <3>1, FinDelBucle DEF IInv
    <3>3. EntreArgs' = EntreArgs
      BY <3>1 DEF EntreArgs, Unos, Bit
    <3> QED BY <3>1, <3>2, <3>3
  <2>2. ASSUME NEW o \in Objetos, NEW a \in Posiciones, NEW b \in Posiciones, CountTodo(o, a, b)
        PROVE  ret' = Cardinality(EntreArgs)'
    <3>1. a \in Int /\ b \in Int /\ Todo(o, a, b)
          /\ obj' = o /\ args' = <<a, b>> /\ ret' = cant[o] /\ UNCHANGED bitmap
      BY <2>2, PosicionesAssumption DEF CountTodo
    <3>2. cant[o] = Cardinality(Unos(o))
      BY DEF IInv, ContadorExacto
    <3>3. EntreArgs' = {x \in Unos(o) : (a <= x /\ x <= b) \/ (b <= x /\ x <= a)}
      BY <3>1 DEF EntreArgs, Unos, Bit, Dominio
    <3>4. EntreArgs' = Unos(o)
      BY <3>1, <3>3, TodoEsTodo
    <3> QED BY <3>1, <3>2, <3>4
  <2> QED BY <2>1, <2>2 DEF Retorna
<1> QED BY <1>1, Invariante, PTL DEF Spec, CuentaLosUnos

(* The set of ConjuntoBits is counted by the same Cardinality.             *)
LEMMA MismaCardinalidad ==
  ASSUME NEW S PROVE Conjunto!Cardinality(S) = Cardinality(S)
BY DEF Cardinality, Conjunto!Cardinality

(* Every operation of the words is one of the set, and the answers are     *)
(* those of the set but for a count that ends at the capacity.             *)
LEMMA ConjuntoPaso ==
  ASSUME IInv, [Next]_vars PROVE [Conjunto!Next]_(Conjunto!vars)
<1>0. TypeOK
  BY DEF IInv
<1>1. ASSUME NEW o \in Objetos, NEW x \in Posiciones, SetBit(o, x) PROVE Conjunto!Next
  <2>1. /\ x \in Dominio(o) /\ Unos(o)' = Unos(o) \cup {x}
        /\ \A u \in Objetos \ {o} : Unos(u)' = Unos(u)
    BY <1>0, <1>1, PonerBit
  <2>2. pc = "listo" /\ UNCHANGED <<pc, obj, args, ret>>
    BY <1>1 DEF SetBit, locales
  <2>3. Conjunto!Poner(o, x)
    BY <2>1, <2>2 DEF Conjunto!Poner, Conjunto!Cambiar, Conjunto!Dominio, Dominio
  <2> QED BY <2>3 DEF Conjunto!Next
<1>2. ASSUME NEW o \in Objetos, NEW x \in Posiciones, UnsetBit(o, x) PROVE Conjunto!Next
  <2>1. /\ Unos(o)' = Unos(o) \ {x}
        /\ \A u \in Objetos \ {o} : Unos(u)' = Unos(u)
    BY <1>0, <1>2, QuitarBit
  <2>2. pc = "listo" /\ UNCHANGED <<pc, obj, args, ret>>
    BY <1>2 DEF UnsetBit, locales
  <2>3. Conjunto!Quitar(o, x)
    BY <2>1, <2>2 DEF Conjunto!Quitar, Conjunto!Cambiar
  <2> QED BY <2>3 DEF Conjunto!Next
<1>3. ASSUME NEW o \in Objetos, NEW p \in Objetos, Copia(o, p) PROVE Conjunto!Next
  <2>1. Unos(p)' = Unos(o) /\ \A u \in Objetos \ {p} : Unos(u)' = Unos(u)
    BY <1>0, <1>3, CopiarBits
  <2>2. pc = "listo" /\ UNCHANGED <<pc, obj, args, ret>> /\ Cap[p] = Cap[o]
    BY <1>3 DEF Copia, locales
  <2>3. Conjunto!Copiar(o, p)
    BY <2>1, <2>2 DEF Conjunto!Copiar, Conjunto!Cambiar
  <2> QED BY <2>3 DEF Conjunto!Next
<1>4. ASSUME NEW o \in Objetos, NEW a \in Posiciones, NEW b \in Posiciones, CountTodo(o, a, b)
      PROVE  Conjunto!Next
  <2>1. a \in Int /\ b \in Int /\ Todo(o, a, b) /\ ret' = cant[o] /\ UNCHANGED bitmap
    BY <1>4, PosicionesAssumption DEF CountTodo
  <2>2. ret' = Cardinality(Unos(o))
    BY <2>1 DEF IInv, ContadorExacto
  <2>3. Conjunto!Entre(o, a, b) = Unos(o)
    BY <2>1, TodoEsTodo DEF Conjunto!Entre
  <2>4. ret' \in Conjunto!Respuestas(o, a, b)
    BY <2>2, <2>3, MismaCardinalidad DEF Conjunto!Respuestas
  <2>5. UNCHANGED [u \in Objetos |-> Unos(u)]
    BY <2>1, MismosBits
  <2>6. pc = "listo" /\ pc' = pc /\ obj' = o /\ args' = <<a, b>>
    BY <1>4 DEF CountTodo
  <2>7. Conjunto!Contar(o, a, b)
    BY <2>4, <2>5, <2>6 DEF Conjunto!Contar
  <2> QED BY <2>7 DEF Conjunto!Next
<1>5. CASE CountFin
  <2> DEFINE a == args[1]
             b == args[2]
  <2>1. /\ ret' = count /\ UNCHANGED bitmap /\ obj \in Objetos
        /\ a \in Posiciones /\ b \in Posiciones /\ a \in Int /\ b \in Int
    BY <1>5, PosicionesAssumption DEF CountFin, IInv, TypeOK, BucleAlineado
  <2>2. \/ count = Cardinality(EntreArgs)
        \/ Final(obj, a, b) = Cap[obj] /\ count = Cardinality(EntreArgs) + 1
    BY <1>5, FinDelBucle DEF IInv
  <2>3. Conjunto!Entre(obj, a, b) = EntreArgs
    BY <2>1 DEF Conjunto!Entre, EntreArgs
  <2>4. Final(obj, a, b) = Cap[obj] => Conjunto!Mayor(a, b) = Cap[obj]
    BY <2>1, CapAssumption DEF Final, Conjunto!Mayor
  <2> HIDE DEF a, b
  <2>5. ret' \in Conjunto!Respuestas(obj, a, b)
    BY <2>1, <2>2, <2>3, <2>4, MismaCardinalidad DEF Conjunto!Respuestas
  <2>6. UNCHANGED [u \in Objetos |-> Unos(u)]
    BY <2>1, MismosBits
  <2>7. pc = "bucle" /\ pc' = "listo" /\ UNCHANGED <<obj, args>>
    BY <1>5 DEF CountFin
  <2>8. Conjunto!Responder
    BY <2>5, <2>6, <2>7 DEF Conjunto!Responder, a, b
  <2> QED BY <2>8 DEF Conjunto!Next
<1>6. ASSUME NEW o \in Objetos, NEW a \in Posiciones, NEW b \in Posiciones, CountInicio(o, a, b)
      PROVE  Conjunto!Next
  <2>1. /\ pc = "listo" /\ pc' = "bucle" /\ obj' = o /\ args' = <<a, b>>
        /\ UNCHANGED <<bitmap, ret>>
    BY <1>6 DEF CountInicio
  <2>2. UNCHANGED [u \in Objetos |-> Unos(u)]
    BY <2>1, MismosBits
  <2>3. Conjunto!Pedir(o, a, b)
    BY <2>1, <2>2 DEF Conjunto!Pedir
  <2> QED BY <2>3 DEF Conjunto!Next
<1>7. CASE UNCHANGED <<bitmap, pc, obj, args, ret>>
  BY <1>7, MismosBits DEF Conjunto!vars
<1> QED BY <1>1, <1>2, <1>3, <1>4, <1>5, <1>6, <1>7 DEF Next, CountPaso, vars, locales

(* A MiniBitmap is a set of positions (MiniBitmap.cpp:4-152).             *)
THEOREM ImplementaConjunto == Spec => ConjuntoSpec
<1>1. Init => Conjunto!Init
  <2> SUFFICES ASSUME Init PROVE Conjunto!Init
    OBVIOUS
  <2>1. \A o \in Objetos : \A x \in Dominio(o) : ~ Bit(o, x)
    BY PalabraExiste DEF Init, Bit
  <2>2. \A o \in Objetos : Unos(o) = {}
    BY <2>1 DEF Unos
  <2> QED BY <2>2 DEF Init, Conjunto!Init
<1>2. IInv /\ [Next]_vars => [Conjunto!Next]_(Conjunto!vars)
  BY ConjuntoPaso
<1> QED BY <1>1, <1>2, Invariante, PTL DEF Spec, ConjuntoSpec, Conjunto!Spec

=============================================================================
