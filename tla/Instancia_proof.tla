-------------------------- MODULE Instancia_proof --------------------------
(***************************************************************************)
(* Facts about the operators the planner and the graph share: times,       *)
(* counts and sums.                                                        *)
(*                                                                         *)
(* A sum is a fold, that is, a function defined by recursion over the      *)
(* subsets of a finite set.  That there is such a function, that it is     *)
(* only one and that the order it takes the elements in does not matter is *)
(* proved here, by taking a smallest set for which it would not be so.     *)
(***************************************************************************)
EXTENDS Instancia, FiniteSetTheorems, TLAPS

-----------------------------------------------------------------------------
(* Arithmetic and counting                                                 *)

(* A number of blocks that lasts no longer than another is no larger. *)
LEMMA ProductoMonotono ==
  ASSUME NEW a \in Int, NEW b \in Int, NEW z \in Nat \ {0}, a * z <= b * z
  PROVE  a <= b
<1>1. SUFFICES ASSUME b + 1 <= a PROVE FALSE
  OBVIOUS
<1>2. PICK k \in Nat : a = b + 1 + k
  <2>1. a - b - 1 \in Nat /\ a = b + 1 + (a - b - 1)
    BY <1>1
  <2> QED BY <2>1
<1>3. a * z = b * z + z + k * z
  BY <1>2
<1>4. k * z >= 0
  BY <1>2
<1> QED BY <1>3, <1>4

(* A journey takes some number of blocks. *)
LEMMA TrasladoNat ==
  ASSUME NEW x, EsInstancia(x), NEW v \in Visitas(x)
  PROVE  /\ bloquesTraslado(x, v) \in Nat
         /\ bloquesTotal(x, v) \in Nat \ {0}
<1>1. x.minutos[v] \in Nat /\ x.z \in Nat \ {0}
      /\ x.visita_testimado_bloques[v] \in Nat \ {0}
  BY DEF EsInstancia
<1>2. x.minutos[v] \div x.z \in Nat
  BY <1>1
<1>3. bloquesTraslado(x, v) \in Nat
  BY <1>1, <1>2 DEF bloquesTraslado
<1>4. \A e \in Nat \ {0}, t \in Nat : e + 2 * t \in Nat \ {0}
  OBVIOUS
<1> QED BY <1>1, <1>3, <1>4 DEF bloquesTotal

(* A count of zero finds nothing between its two positions. *)
LEMMA CuentaCero ==
  ASSUME NEW S, IsFiniteSet(S), NEW a \in Int, NEW b \in Int, Cuenta(S, a, b) = 0
  PROVE  \A c \in S : ~ (a <= c /\ c <= b)
<1> DEFINE T == {c \in S : \/ a <= c /\ c <= b
                           \/ b <= c /\ c <= a}
<1>1. IsFiniteSet(T)
  BY FS_Subset, T \in SUBSET S
<1>2. T = {}
  BY <1>1, FS_EmptySet DEF Cuenta
<1> QED BY <1>2

(* There are finitely many pairs of a person and a visit. *)
LEMMA TripletasFinito ==
  ASSUME NEW x, EsInstancia(x)
  PROVE  IsFiniteSet(Tripletas(x))
<1> DEFINE PV == Personas(x) \X Visitas(x)
           f  == [pv \in PV |-> Tripleta(x, pv[1], pv[2])]
<1>1. x.n \in Nat /\ x.l \in Nat
  BY DEF EsInstancia
<1>2. IsFiniteSet(Personas(x)) /\ IsFiniteSet(Visitas(x))
  <2>1. \A k \in Nat : IsFiniteSet(0 .. k - 1)
    <3> TAKE k \in Nat
    <3>1. k - 1 \in Int
      OBVIOUS
    <3> QED BY <3>1, FS_Interval
  <2> QED BY <1>1, <2>1 DEF Personas, Visitas
<1>3. IsFiniteSet(PV)
  BY <1>2, FS_Product
<1>4. f \in Surjection(PV, Tripletas(x))
  <2>1. \A t \in Tripletas(x) : \E pv \in PV : f[pv] = t
    <3> TAKE t \in Tripletas(x)
    <3>1. PICK p \in Personas(x), v \in Visitas(x) : t = Tripleta(x, p, v)
      BY DEF Tripletas
    <3>2. <<p, v>> \in PV /\ f[<<p, v>>] = t
      BY <3>1
    <3> QED BY <3>2
  <2>2. f \in [PV -> Tripletas(x)]
    BY DEF Tripletas
  <2> QED BY <2>1, <2>2 DEF Surjection
<1> QED BY <1>3, <1>4, FS_Surjection

-----------------------------------------------------------------------------
(* Sums                                                                    *)

(* The element a sum takes first, and the function it unfolds *)
Uno(S) == CHOOSE x \in S : TRUE

Rec(f, g, S) == g = [s \in SUBSET S |-> IF s = {} THEN 0 ELSE f[Uno(s)] + g[s \ {Uno(s)}]]

LEMMA SumaChoose ==
  ASSUME NEW f, NEW S
  PROVE Suma(f, S) = (CHOOSE g : Rec(f, g, S))[S]
BY Zenon DEF Suma, MapThenSumSet, MapThenFoldSet, Rec, Uno

LEMMA UnoEsta == ASSUME NEW S, S # {} PROVE Uno(S) \in S
BY DEF Uno

(* Among sets of subsets of a finite set there is a smallest one. *)
LEMMA Minimo ==
  ASSUME NEW S, IsFiniteSet(S), NEW M \in SUBSET SUBSET S, M # {}
  PROVE \E T \in M : \A U \in M : U \subseteq T => U = T
<1>1. FiniteSubsetsOf(S) = SUBSET S
  BY FS_FiniteSubsetsOfFinite
<1>2. IsWellFoundedOn(StrictSubsetOrdering(S), SUBSET S)
  BY <1>1, FS_StrictSubsetOrderingWellFounded
<1>3. \E x \in M : \A y \in M : ~ (<<y, x>> \in StrictSubsetOrdering(S))
  BY <1>2, WFMin
<1> QED BY <1>3 DEF StrictSubsetOrdering

(* What holds of the empty set, and of a set with one more element         *)
(* whenever it holds of the set, holds of a finite set.                    *)
LEMMA InduccionFinita ==
  ASSUME NEW S, IsFiniteSet(S), NEW M, {} \in M,
         \A T \in M : \A x \in S \ T : T \cup {x} \in M
  PROVE  S \in M
<1> DEFINE N == (SUBSET S) \ M
<1>1. SUFFICES ASSUME S \notin M PROVE FALSE
  OBVIOUS
<1>2. N \in SUBSET SUBSET S /\ N # {}
  BY <1>1
<1>3. PICK T \in N : \A U \in N : U \subseteq T => U = T
  <2> HIDE DEF N
  <2> QED BY <1>2, Minimo
<1>4. PICK x : x \in T
  <2>1. T \in SUBSET S /\ T \notin M
    BY <1>3
  <2> QED BY <2>1
<1>5. T \ {x} \in SUBSET S /\ T \ {x} # T /\ x \in S \ (T \ {x}) /\ (T \ {x}) \cup {x} = T
  BY <1>3, <1>4
<1>6. T \ {x} \in M
  BY <1>3, <1>5
<1> QED BY <1>3, <1>5, <1>6

(* The recursion has at most one solution, which restricted to a subset is *)
(* that of the subset, and at least one.                                   *)
LEMMA RecUnica ==
  ASSUME NEW f, NEW S, IsFiniteSet(S), NEW g, NEW h, Rec(f, g, S), Rec(f, h, S)
  PROVE  g = h
<1> DEFINE M == {s \in SUBSET S : g[s] # h[s]}
<1>1. \A s \in SUBSET S : s # {} => /\ g[s] = f[Uno(s)] + g[s \ {Uno(s)}]
                                    /\ h[s] = f[Uno(s)] + h[s \ {Uno(s)}]
  BY DEF Rec
<1>2. g[{}] = 0 /\ h[{}] = 0
  BY DEF Rec
<1>3. M = {}
  <2>1. SUFFICES ASSUME M # {} PROVE FALSE
    OBVIOUS
  <2>2. PICK T \in M : \A U \in M : U \subseteq T => U = T
    <3>1. M \in SUBSET SUBSET S
      OBVIOUS
    <3> HIDE DEF M
    <3> QED BY <2>1, <3>1, Minimo
  <2>3. T # {} /\ Uno(T) \in T
    BY <1>2, <2>2, UnoEsta
  <2>4. T \ {Uno(T)} \in SUBSET S /\ T \ {Uno(T)} \notin M
    BY <2>2, <2>3
  <2>5. g[T \ {Uno(T)}] = h[T \ {Uno(T)}]
    BY <2>4
  <2> QED BY <1>1, <2>2, <2>3, <2>5
<1>4. \A s \in SUBSET S : g[s] = h[s]
  BY <1>3
<1>5. g = [s \in SUBSET S |-> g[s]] /\ h = [s \in SUBSET S |-> h[s]]
  BY DEF Rec
<1> QED BY <1>4, <1>5

LEMMA RecRestringida ==
  ASSUME NEW f, NEW S, NEW g, Rec(f, g, S), NEW T \in SUBSET S
  PROVE  Rec(f, [s \in SUBSET T |-> g[s]], T)
<1> DEFINE h == [s \in SUBSET T |-> g[s]]
<1>1. \A s \in SUBSET T : h[s] = IF s = {} THEN 0 ELSE f[Uno(s)] + h[s \ {Uno(s)}]
  <2> TAKE s \in SUBSET T
  <2>1. g[s] = IF s = {} THEN 0 ELSE f[Uno(s)] + g[s \ {Uno(s)}]
    BY DEF Rec
  <2>2. h[s] = g[s] /\ h[s \ {Uno(s)}] = g[s \ {Uno(s)}]
    OBVIOUS
  <2> QED BY <2>1, <2>2
<1>2. h = [s \in SUBSET T |-> h[s]]
  OBVIOUS
<1> HIDE DEF h
<1>3. Rec(f, h, T)
  BY <1>1, <1>2 DEF Rec
<1> QED BY <1>3 DEF h

LEMMA RecValor ==
  ASSUME NEW f, NEW S, IsFiniteSet(S), NEW g, Rec(f, g, S), NEW T \in SUBSET S
  PROVE  g[T] = Suma(f, T)
<1> DEFINE h == [s \in SUBSET T |-> g[s]]
           k == CHOOSE k : Rec(f, k, T)
<1>1. Rec(f, h, T)
  BY RecRestringida
<1>2. Rec(f, k, T)
  BY <1>1
<1>3. IsFiniteSet(T)
  BY FS_Subset
<1> HIDE DEF h, k
<1>4. h = k
  BY <1>1, <1>2, <1>3, RecUnica
<1>5. h[T] = g[T]
  BY DEF h
<1> QED BY <1>4, <1>5, SumaChoose DEF k

LEMMA RecExiste ==
  ASSUME NEW f, NEW S, IsFiniteSet(S)
  PROVE  \E g : Rec(f, g, S)
<1> DEFINE M == {T \in SUBSET S : ~ \E g : Rec(f, g, T)}
<1>1. SUFFICES ASSUME M # {} PROVE FALSE
  OBVIOUS
<1>2. PICK T \in M : \A U \in M : U \subseteq T => U = T
  <2>1. M \in SUBSET SUBSET S
    OBVIOUS
  <2> HIDE DEF M
  <2> QED BY <1>1, <2>1, Minimo
<1> DEFINE G == [s \in SUBSET T |-> IF s = {} THEN 0 ELSE f[Uno(s)] + Suma(f, s \ {Uno(s)})]
<1>3. \A U \in SUBSET T : U # T => G[U] = Suma(f, U)
  <2> SUFFICES ASSUME NEW U \in SUBSET T, U # T PROVE G[U] = Suma(f, U)
    OBVIOUS
  <2>1. U \in SUBSET S /\ U \notin M
    BY <1>2
  <2>2. PICK g : Rec(f, g, U)
    BY <2>1
  <2>3. IsFiniteSet(U)
    BY <2>1, FS_Subset
  <2>4. \A V \in SUBSET U : g[V] = Suma(f, V)
    BY <2>2, <2>3, RecValor
  <2>5. g[U] = IF U = {} THEN 0 ELSE f[Uno(U)] + g[U \ {Uno(U)}]
    BY <2>2 DEF Rec
  <2>6. U \ {Uno(U)} \in SUBSET U /\ U \in SUBSET U
    OBVIOUS
  <2>7. Suma(f, U) = IF U = {} THEN 0 ELSE f[Uno(U)] + Suma(f, U \ {Uno(U)})
    BY <2>4, <2>5, <2>6
  <2> QED BY <2>7
<1>4. \A s \in SUBSET T : G[s] = IF s = {} THEN 0 ELSE f[Uno(s)] + G[s \ {Uno(s)}]
  <2> TAKE s \in SUBSET T
  <2>1. CASE s = {}
    BY <2>1
  <2>2. CASE s # {}
    <3>1. Uno(s) \in s
      BY <2>2, UnoEsta
    <3>2. s \ {Uno(s)} \in SUBSET T /\ s \ {Uno(s)} # T
      BY <3>1
    <3>3. G[s \ {Uno(s)}] = Suma(f, s \ {Uno(s)})
      BY <1>3, <3>2
    <3> QED BY <2>2, <3>3
  <2> QED BY <2>1, <2>2
<1>5. G = [s \in SUBSET T |-> G[s]]
  OBVIOUS
<1> HIDE DEF G
<1>6. Rec(f, G, T)
  BY <1>4, <1>5 DEF Rec
<1> QED BY <1>2, <1>6

(* A sum is what its recursion says. *)
LEMMA SumaPaso ==
  ASSUME NEW f, NEW S, IsFiniteSet(S)
  PROVE  Suma(f, S) = IF S = {} THEN 0 ELSE f[Uno(S)] + Suma(f, S \ {Uno(S)})
<1>1. PICK g : Rec(f, g, S)
  BY RecExiste
<1>2. \A T \in SUBSET S : g[T] = Suma(f, T)
  BY <1>1, RecValor
<1>3. g[S] = IF S = {} THEN 0 ELSE f[Uno(S)] + g[S \ {Uno(S)}]
  BY <1>1 DEF Rec
<1>4. S \ {Uno(S)} \in SUBSET S /\ S \in SUBSET S
  OBVIOUS
<1> QED BY <1>2, <1>3, <1>4

LEMMA SumaVacia ==
  ASSUME NEW f PROVE Suma(f, {}) = 0
BY FS_EmptySet, SumaPaso

LEMMA SumaTipo ==
  ASSUME NEW f, NEW S, IsFiniteSet(S), \A x \in S : f[x] \in Int
  PROVE  Suma(f, S) \in Int
<1> DEFINE M == {T \in SUBSET S : Suma(f, T) \notin Int}
<1>1. SUFFICES ASSUME M # {} PROVE FALSE
  OBVIOUS
<1>2. PICK T \in M : \A U \in M : U \subseteq T => U = T
  <2>1. M \in SUBSET SUBSET S
    OBVIOUS
  <2> HIDE DEF M
  <2> QED BY <1>1, <2>1, Minimo
<1>3. T \in SUBSET S /\ IsFiniteSet(T) /\ Suma(f, T) \notin Int
  BY <1>2, FS_Subset
<1>4. T # {} /\ Suma(f, T) = f[Uno(T)] + Suma(f, T \ {Uno(T)})
  BY <1>3, SumaPaso
<1>5. Uno(T) \in T
  BY <1>4, UnoEsta
<1>6. T \ {Uno(T)} \in SUBSET S /\ T \ {Uno(T)} # T
  BY <1>3, <1>5
<1>7. Suma(f, T \ {Uno(T)}) \in Int
  BY <1>2, <1>6
<1>8. f[Uno(T)] \in Int
  BY <1>3, <1>5
<1> QED BY <1>3, <1>4, <1>7, <1>8

(* One element more, whichever was taken first *)
LEMMA SumaMas ==
  ASSUME NEW f, NEW S, IsFiniteSet(S), NEW x, x \notin S,
         f[x] \in Int, \A y \in S : f[y] \in Int
  PROVE  Suma(f, S \cup {x}) = Suma(f, S) + f[x]
<1> DEFINE R == S \cup {x}
           P(T) == \A y \in R \ T : Suma(f, T \cup {y}) = Suma(f, T) + f[y]
           M == {T \in SUBSET S : ~ P(T)}
<1>1. SUFFICES ASSUME M # {} PROVE FALSE
  OBVIOUS
<1>2. PICK T \in M : \A U \in M : U \subseteq T => U = T
  <2>1. M \in SUBSET SUBSET S
    OBVIOUS
  <2> HIDE DEF M
  <2> QED BY <1>1, <2>1, Minimo
<1>3. T \in SUBSET S /\ IsFiniteSet(T) /\ ~ P(T)
  BY <1>2, FS_Subset
<1>4. PICK y \in R \ T : Suma(f, T \cup {y}) # Suma(f, T) + f[y]
  BY <1>3
<1> DEFINE V == T \cup {y}
           c == Uno(V)
<1>5. IsFiniteSet(V) /\ V # {}
  BY <1>3, FS_AddElement
<1>6. Suma(f, V) = f[c] + Suma(f, V \ {c}) /\ c \in V
  BY <1>5, SumaPaso, UnoEsta
<1>7. \A z \in R : f[z] \in Int
  OBVIOUS
<1>8. \A U \in SUBSET S : Suma(f, U) \in Int
  BY SumaTipo, FS_Subset
<1>9. CASE c = y
  <2>1. V \ {c} = T
    BY <1>9, <1>4
  <2>2. f[y] \in Int /\ Suma(f, T) \in Int
    BY <1>3, <1>7, <1>8
  <2> HIDE DEF V, c
  <2>3. Suma(f, V) = f[y] + Suma(f, T)
    BY <1>6, <1>9, <2>1
  <2>4. Suma(f, V) # Suma(f, T) + f[y]
    BY <1>4 DEF V
  <2> QED BY <2>2, <2>3, <2>4
<1>10. CASE c # y
  <2> DEFINE W == T \ {c}
  <2>1. c \in T /\ V \ {c} = W \cup {y} /\ T = W \cup {c} /\ W \in SUBSET S /\ W # T
    BY <1>3, <1>4, <1>6, <1>10
  <2>2. c \in R \ W /\ y \in R \ W
    BY <1>3, <1>4, <2>1
  <2>3. P(W)
    BY <1>2, <2>1
  <2>4. Suma(f, W \cup {y}) = Suma(f, W) + f[y] /\ Suma(f, W \cup {c}) = Suma(f, W) + f[c]
    BY <2>2, <2>3
  <2>5. f[y] \in Int /\ f[c] \in Int /\ Suma(f, W) \in Int
    BY <1>7, <1>8, <2>1, <2>2
  <2>6. Suma(f, V) # Suma(f, T) + f[y]
    BY <1>4
  <2> HIDE DEF V, c, W
  <2>7. Suma(f, V) = f[c] + (Suma(f, W) + f[y])
    BY <1>6, <2>1, <2>4
  <2>8. Suma(f, T) = Suma(f, W) + f[c]
    BY <2>1, <2>4
  <2> QED BY <2>5, <2>6, <2>7, <2>8
<1> QED BY <1>9, <1>10

(* Only the values over the set count. *)
LEMMA SumaCongruente ==
  ASSUME NEW f, NEW g, NEW S, IsFiniteSet(S), \A x \in S : f[x] = g[x]
  PROVE  Suma(f, S) = Suma(g, S)
<1> DEFINE M == {T \in SUBSET S : Suma(f, T) # Suma(g, T)}
<1>1. SUFFICES ASSUME M # {} PROVE FALSE
  OBVIOUS
<1>2. PICK T \in M : \A U \in M : U \subseteq T => U = T
  <2>1. M \in SUBSET SUBSET S
    OBVIOUS
  <2> HIDE DEF M
  <2> QED BY <1>1, <2>1, Minimo
<1>3. T \in SUBSET S /\ IsFiniteSet(T) /\ Suma(f, T) # Suma(g, T)
  BY <1>2, FS_Subset
<1>4. T # {}
  BY <1>3, SumaVacia
<1>5. /\ Suma(f, T) = f[Uno(T)] + Suma(f, T \ {Uno(T)})
      /\ Suma(g, T) = g[Uno(T)] + Suma(g, T \ {Uno(T)})
  BY <1>3, <1>4, SumaPaso
<1>6. Uno(T) \in T
  BY <1>4, UnoEsta
<1>7. Suma(f, T \ {Uno(T)}) = Suma(g, T \ {Uno(T)})
  BY <1>2, <1>3, <1>6
<1> QED BY <1>3, <1>5, <1>6, <1>7

(* Over two sets with nothing in common *)
LEMMA SumaUnion ==
  ASSUME NEW f, NEW S, IsFiniteSet(S), NEW T, IsFiniteSet(T), S \cap T = {},
         \A x \in S \cup T : f[x] \in Int
  PROVE  Suma(f, S \cup T) = Suma(f, S) + Suma(f, T)
<1> DEFINE M == {U \in SUBSET T : Suma(f, S \cup U) = Suma(f, S) + Suma(f, U)}
<1>1. {} \in M
  <2>1. Suma(f, {}) = 0 /\ Suma(f, S) \in Int /\ S \cup {} = S
    BY SumaVacia, SumaTipo
  <2> QED BY <2>1
<1>2. ASSUME NEW U \in M, NEW x \in T \ U PROVE U \cup {x} \in M
  <2>1. U \in SUBSET T /\ IsFiniteSet(U) /\ Suma(f, S \cup U) = Suma(f, S) + Suma(f, U)
    BY <1>2, FS_Subset
  <2>2. IsFiniteSet(S \cup U) /\ x \notin S \cup U /\ (S \cup U) \cup {x} = S \cup (U \cup {x})
    BY <1>2, <2>1, FS_Union
  <2>3. f[x] \in Int /\ (\A y \in S \cup U : f[y] \in Int) /\ (\A y \in U : f[y] \in Int)
    BY <1>2, <2>1
  <2>4. Suma(f, (S \cup U) \cup {x}) = Suma(f, S \cup U) + f[x]
    BY <2>2, <2>3, SumaMas
  <2>5. Suma(f, U \cup {x}) = Suma(f, U) + f[x]
    BY <1>2, <2>1, <2>3, SumaMas
  <2>6. Suma(f, S) \in Int /\ Suma(f, U) \in Int
    BY <2>1, SumaTipo
  <2>7. Suma(f, S \cup (U \cup {x})) = Suma(f, S \cup U) + f[x]
    BY <2>2, <2>4
  <2>8. Suma(f, S \cup (U \cup {x})) = Suma(f, S) + Suma(f, U \cup {x})
    <3>1. f[x] \in Int
      BY <2>3
    <3> QED BY <2>1, <2>5, <2>6, <2>7, <3>1
  <2>9. U \cup {x} \in SUBSET T
    BY <2>1, <1>2
  <2> QED BY <2>8, <2>9
<1> HIDE DEF M
<1>3. T \in M
  BY <1>1, <1>2, InduccionFinita
<1> QED BY <1>3 DEF M

(* Of one value *)
LEMMA SumaConstante ==
  ASSUME NEW f, NEW S, IsFiniteSet(S), NEW k \in Int, \A x \in S : f[x] = k
  PROVE  Suma(f, S) = Cardinality(S) * k
<1> DEFINE M == {U \in SUBSET S : Suma(f, U) = Cardinality(U) * k}
<1>1. {} \in M
  <2>1. Suma(f, {}) = 0 /\ Cardinality({}) = 0
    BY SumaVacia, FS_EmptySet
  <2> QED BY <2>1
<1>2. ASSUME NEW U \in M, NEW x \in S \ U PROVE U \cup {x} \in M
  <2>1. U \in SUBSET S /\ IsFiniteSet(U) /\ Suma(f, U) = Cardinality(U) * k
    BY <1>2, FS_Subset
  <2>2. f[x] = k /\ (\A y \in U : f[y] \in Int)
    BY <1>2, <2>1
  <2>3. Suma(f, U \cup {x}) = Suma(f, U) + k
    BY <1>2, <2>1, <2>2, SumaMas
  <2>4. Cardinality(U \cup {x}) = Cardinality(U) + 1 /\ Cardinality(U) \in Nat
    BY <1>2, <2>1, FS_AddElement, FS_CardinalityType
  <2>5. (Cardinality(U) + 1) * k = Cardinality(U) * k + k
    BY <2>4
  <2> QED BY <2>1, <2>3, <2>4, <2>5
<1> HIDE DEF M
<1>3. S \in M
  BY <1>1, <1>2, InduccionFinita
<1> QED BY <1>3 DEF M

(* Of no larger values *)
LEMMA SumaMonotona ==
  ASSUME NEW f, NEW g, NEW S, IsFiniteSet(S),
         \A x \in S : f[x] \in Int /\ g[x] \in Int /\ f[x] <= g[x]
  PROVE  Suma(f, S) <= Suma(g, S)
<1> DEFINE M == {U \in SUBSET S : Suma(f, U) <= Suma(g, U)}
<1>1. {} \in M
  <2>1. Suma(f, {}) = 0 /\ Suma(g, {}) = 0
    BY SumaVacia
  <2> QED BY <2>1
<1>2. ASSUME NEW U \in M, NEW x \in S \ U PROVE U \cup {x} \in M
  <2>1. U \in SUBSET S /\ IsFiniteSet(U) /\ Suma(f, U) <= Suma(g, U)
    BY <1>2, FS_Subset
  <2>2. /\ f[x] \in Int /\ g[x] \in Int /\ f[x] <= g[x]
        /\ \A y \in U : f[y] \in Int /\ g[y] \in Int
    BY <1>2, <2>1
  <2>3. Suma(f, U \cup {x}) = Suma(f, U) + f[x] /\ Suma(g, U \cup {x}) = Suma(g, U) + g[x]
    BY <1>2, <2>1, <2>2, SumaMas
  <2>4. Suma(f, U) \in Int /\ Suma(g, U) \in Int
    BY <2>1, <2>2, SumaTipo
  <2>5. Suma(f, U \cup {x}) <= Suma(g, U \cup {x})
    BY <2>1, <2>2, <2>3, <2>4
  <2> QED BY <2>1, <2>5
<1> HIDE DEF M
<1>3. S \in M
  BY <1>1, <1>2, InduccionFinita
<1> QED BY <1>3 DEF M

LEMMA SumaNat ==
  ASSUME NEW f, NEW S, IsFiniteSet(S), \A x \in S : f[x] \in Nat
  PROVE  Suma(f, S) \in Nat
<1> DEFINE cero == [x \in S |-> 0]
<1>1. Suma(f, S) \in Int
  BY SumaTipo
<1>2. \A x \in S : cero[x] \in Int /\ f[x] \in Int /\ cero[x] <= f[x]
  OBVIOUS
<1>3. \A x \in S : cero[x] = 0
  OBVIOUS
<1> HIDE DEF cero
<1>4. Suma(cero, S) <= Suma(f, S)
  BY <1>2, SumaMonotona
<1>5. Suma(cero, S) = Cardinality(S) * 0
  BY <1>3, SumaConstante
<1>6. Cardinality(S) * 0 = 0
  BY FS_CardinalityType
<1> QED BY <1>1, <1>4, <1>5, <1>6

(* One element less *)
LEMMA SumaMenos ==
  ASSUME NEW f, NEW S, IsFiniteSet(S), NEW x \in S, \A y \in S : f[y] \in Int
  PROVE  /\ Suma(f, S) = Suma(f, S \ {x}) + f[x]
         /\ Suma(f, S \ {x}) \in Int
<1>1. IsFiniteSet(S \ {x}) /\ (S \ {x}) \cup {x} = S /\ x \notin S \ {x}
  BY FS_RemoveElement
<1>2. Suma(f, S \ {x}) \in Int
  BY <1>1, SumaTipo
<1>3. Suma(f, (S \ {x}) \cup {x}) = Suma(f, S \ {x}) + f[x]
  BY <1>1, SumaMas
<1> QED BY <1>1, <1>2, <1>3

LEMMA SumaDeUno ==
  ASSUME NEW f, NEW x, f[x] \in Int
  PROVE  Suma(f, {x}) = f[x]
<1>1. IsFiniteSet({}) /\ {} \cup {x} = {x} /\ x \notin {}
  BY FS_EmptySet
<1>2. Suma(f, {} \cup {x}) = Suma(f, {}) + f[x]
  BY <1>1, SumaMas
<1> QED BY <1>1, <1>2, SumaVacia

(* Values that do not exceed others and add up to the same are the same. *)
LEMMA SumaSaturada ==
  ASSUME NEW f, NEW g, NEW S, IsFiniteSet(S),
         \A x \in S : f[x] \in Int /\ g[x] \in Int /\ f[x] <= g[x],
         Suma(f, S) = Suma(g, S)
  PROVE  \A x \in S : f[x] = g[x]
<1> TAKE x \in S
<1>1. /\ Suma(f, S) = Suma(f, S \ {x}) + f[x] /\ Suma(f, S \ {x}) \in Int
      /\ Suma(g, S) = Suma(g, S \ {x}) + g[x] /\ Suma(g, S \ {x}) \in Int
  BY SumaMenos
<1>2. Suma(f, S \ {x}) <= Suma(g, S \ {x})
  <2>1. IsFiniteSet(S \ {x})
    BY FS_RemoveElement
  <2> QED BY <2>1, SumaMonotona
<1>3. f[x] \in Int /\ g[x] \in Int /\ f[x] <= g[x]
  OBVIOUS
<1>4. Suma(f, S \ {x}) + f[x] = Suma(g, S \ {x}) + g[x]
  BY <1>1
<1>5. \A s, t, u, v \in Int : s + u = t + v /\ s <= t /\ u <= v => u = v
  OBVIOUS
<1> QED BY <1>1, <1>2, <1>3, <1>4, <1>5

(* Of zeros and ones, how many ones there are *)
LEMMA SumaDeUnos ==
  ASSUME NEW f, NEW S, IsFiniteSet(S), \A x \in S : f[x] \in {0, 1}
  PROVE  Suma(f, S) = Cardinality({x \in S : f[x] = 1})
<1> DEFINE A == {x \in S : f[x] = 1}
           B == {x \in S : f[x] = 0}
<1>1. IsFiniteSet(A) /\ IsFiniteSet(B) /\ A \cap B = {} /\ A \cup B = S
  <2>1. A \in SUBSET S /\ B \in SUBSET S
    OBVIOUS
  <2> QED BY <2>1, FS_Subset
<1>2. (\A x \in A : f[x] = 1) /\ (\A x \in B : f[x] = 0) /\ \A x \in A \cup B : f[x] \in Int
  OBVIOUS
<1> HIDE DEF A, B
<1>3. Suma(f, A \cup B) = Suma(f, A) + Suma(f, B)
  BY <1>1, <1>2, SumaUnion
<1>4. Suma(f, A) = Cardinality(A) * 1 /\ Suma(f, B) = Cardinality(B) * 0
  <2>1. Suma(f, A) = Cardinality(A) * 1
    BY <1>1, <1>2, SumaConstante
  <2>2. Suma(f, B) = Cardinality(B) * 0
    BY <1>1, <1>2, SumaConstante
  <2> QED BY <2>1, <2>2
<1>5. Cardinality(A) \in Nat /\ Cardinality(B) \in Nat
  BY <1>1, FS_CardinalityType
<1>6. Suma(f, S) = Cardinality(A)
  <2>1. \A m, n \in Nat : m * 1 + n * 0 = m
    OBVIOUS
  <2>2. Suma(f, S) = Cardinality(A) * 1 + Cardinality(B) * 0
    BY <1>1, <1>3, <1>4
  <2> QED BY <1>5, <2>1, <2>2
<1> QED BY <1>6 DEF A

(* Over another set with as many elements *)
LEMMA SumaImagen ==
  ASSUME NEW f, NEW S, IsFiniteSet(S), NEW b, NEW g,
         \A x, y \in S : b[x] = b[y] => x = y,
         \A x \in S : f[b[x]] \in Int /\ g[x] = f[b[x]]
  PROVE  Suma(f, {b[x] : x \in S}) = Suma(g, S)
<1> DEFINE Im(U) == {b[x] : x \in U}
           M == {U \in SUBSET S : IsFiniteSet(Im(U)) /\ Suma(f, Im(U)) = Suma(g, U)}
<1>1. {} \in M
  <2>1. Im({}) = {}
    OBVIOUS
  <2> QED BY <2>1, FS_EmptySet, SumaVacia
<1>2. ASSUME NEW U \in M, NEW x \in S \ U PROVE U \cup {x} \in M
  <2>1. U \in SUBSET S /\ IsFiniteSet(U) /\ IsFiniteSet(Im(U)) /\ Suma(f, Im(U)) = Suma(g, U)
    BY <1>2, FS_Subset
  <2>2. b[x] \notin Im(U) /\ Im(U \cup {x}) = Im(U) \cup {b[x]}
    BY <1>2, <2>1
  <2>3. /\ \A y \in Im(U) : f[y] \in Int
        /\ \A y \in U : g[y] \in Int
        /\ f[b[x]] \in Int /\ g[x] = f[b[x]] /\ g[x] \in Int
    BY <1>2, <2>1
  <2>4. Suma(g, U \cup {x}) = Suma(g, U) + g[x]
    BY <1>2, <2>1, <2>3, SumaMas
  <2>5. IsFiniteSet(Im(U) \cup {b[x]})
    BY <2>1, <2>2, FS_AddElement
  <2>6. Suma(f, Im(U) \cup {b[x]}) = Suma(f, Im(U)) + f[b[x]]
    <3> HIDE DEF Im
    <3> QED BY <2>1, <2>2, <2>3, SumaMas
  <2>7. U \cup {x} \in SUBSET S
    BY <1>2, <2>1
  <2> HIDE DEF Im
  <2> QED BY <2>1, <2>2, <2>3, <2>4, <2>5, <2>6, <2>7
<1> HIDE DEF M
<1>3. S \in M
  BY <1>1, <1>2, InduccionFinita
<1> QED BY <1>3 DEF M

(* A set is counted by what a function makes of its elements. *)
LEMMA CuentaPorValor ==
  ASSUME NEW S, IsFiniteSet(S), NEW K, IsFiniteSet(K), NEW h, \A x \in S : h[x] \in K
  PROVE  Cardinality(S) = Suma([k \in K |-> Cardinality({x \in S : h[x] = k})], K)
<1> DEFINE De(k) == {x \in S : h[x] = k}
           g == [k \in K |-> Cardinality(De(k))]
           Con(U) == {x \in S : h[x] \in U}
           M == {U \in SUBSET K : Cardinality(Con(U)) = Suma(g, U)}
<1>1. \A k : IsFiniteSet(De(k)) /\ Cardinality(De(k)) \in Nat
  <2> TAKE k
  <2>1. De(k) \in SUBSET S
    OBVIOUS
  <2> HIDE DEF De
  <2> QED BY <2>1, FS_Subset, FS_CardinalityType
<1>2. \A U : IsFiniteSet(Con(U))
  <2> TAKE U
  <2>1. Con(U) \in SUBSET S
    OBVIOUS
  <2> HIDE DEF Con
  <2> QED BY <2>1, FS_Subset
<1>3. {} \in M
  <2>1. Con({}) = {}
    OBVIOUS
  <2> HIDE DEF g, Con
  <2> QED BY <2>1, FS_EmptySet, SumaVacia
<1>4. ASSUME NEW U \in M, NEW k \in K \ U PROVE U \cup {k} \in M
  <2>1. U \in SUBSET K /\ IsFiniteSet(U) /\ Cardinality(Con(U)) = Suma(g, U)
    BY <1>4, FS_Subset
  <2>2. Con(U \cup {k}) = Con(U) \cup De(k) /\ Con(U) \cap De(k) = {}
    BY <1>4
  <2>3. g[k] = Cardinality(De(k)) /\ \A y \in K : g[y] \in Int
    <3> HIDE DEF De
    <3>1. \A y \in K : g[y] = Cardinality(De(y))
      OBVIOUS
    <3> HIDE DEF g
    <3> QED BY <1>1, <1>4, <3>1
  <2>4. U \cup {k} \in SUBSET K
    BY <1>4, <2>1
  <2> HIDE DEF g, Con, De
  <2>5. Cardinality(Con(U) \cup De(k)) = Cardinality(Con(U)) + Cardinality(De(k))
    <3>1. Cardinality(Con(U) \cup De(k)) =
            Cardinality(Con(U)) + Cardinality(De(k)) - Cardinality(Con(U) \cap De(k))
      BY <1>1, <1>2, FS_Union
    <3>2. Cardinality(Con(U) \cap De(k)) = 0
      BY <2>2, FS_EmptySet
    <3>3. Cardinality(Con(U)) \in Nat /\ Cardinality(De(k)) \in Nat
      BY <1>1, <1>2, FS_CardinalityType
    <3> QED BY <3>1, <3>2, <3>3
  <2>6. Suma(g, U \cup {k}) = Suma(g, U) + g[k]
    BY <1>4, <2>1, <2>3, SumaMas
  <2> QED BY <2>1, <2>2, <2>3, <2>4, <2>5, <2>6
<1>5. Con(K) = S
  OBVIOUS
<1> HIDE DEF M
<1>6. K \in M
  BY <1>3, <1>4, InduccionFinita
<1> HIDE DEF Con
<1> QED BY <1>5, <1>6 DEF M

(* Value by value *)
LEMMA SumaDeSumas ==
  ASSUME NEW f, NEW g, NEW h, NEW S, IsFiniteSet(S),
         \A x \in S : f[x] \in Int /\ g[x] \in Int /\ h[x] = f[x] + g[x]
  PROVE  Suma(h, S) = Suma(f, S) + Suma(g, S)
<1> DEFINE M == {U \in SUBSET S : Suma(h, U) = Suma(f, U) + Suma(g, U)}
<1>1. {} \in M
  BY SumaVacia
<1>2. ASSUME NEW U \in M, NEW x \in S \ U PROVE U \cup {x} \in M
  <2>1. U \in SUBSET S /\ IsFiniteSet(U) /\ Suma(h, U) = Suma(f, U) + Suma(g, U)
    BY <1>2, FS_Subset
  <2>2. /\ f[x] \in Int /\ g[x] \in Int /\ h[x] = f[x] + g[x] /\ h[x] \in Int
        /\ \A y \in U : f[y] \in Int /\ g[y] \in Int /\ h[y] \in Int
    BY <1>2, <2>1
  <2>3. /\ Suma(f, U \cup {x}) = Suma(f, U) + f[x]
        /\ Suma(g, U \cup {x}) = Suma(g, U) + g[x]
        /\ Suma(h, U \cup {x}) = Suma(h, U) + h[x]
    BY <1>2, <2>1, <2>2, SumaMas
  <2>4. Suma(f, U) \in Int /\ Suma(g, U) \in Int
    BY <2>1, <2>2, SumaTipo
  <2>5. \A a, b, c, d \in Int : (a + b) + (c + d) = (a + c) + (b + d)
    OBVIOUS
  <2>6. Suma(h, U \cup {x}) = Suma(f, U \cup {x}) + Suma(g, U \cup {x})
    BY <2>1, <2>2, <2>3, <2>4, <2>5
  <2>7. U \cup {x} \in SUBSET S
    BY <1>2, <2>1
  <2> QED BY <2>6, <2>7
<1> HIDE DEF M
<1>3. S \in M
  BY <1>1, <1>2, InduccionFinita
<1> QED BY <1>3 DEF M

(* What is zero does not count. *)
LEMMA SumaConCeros ==
  ASSUME NEW f, NEW S, IsFiniteSet(S), NEW T \in SUBSET S,
         \A x \in S : f[x] \in Int, \A x \in S \ T : f[x] = 0
  PROVE  Suma(f, S) = Suma(f, T)
<1> DEFINE R == S \ T
<1>1. IsFiniteSet(T) /\ IsFiniteSet(R) /\ T \cap R = {} /\ T \cup R = S
  BY FS_Subset
<1>2. \A x \in T \cup R : f[x] \in Int
  BY <1>1
<1>3. \A x \in R : f[x] = 0
  OBVIOUS
<1> HIDE DEF R
<1>4. Suma(f, T \cup R) = Suma(f, T) + Suma(f, R)
  BY <1>1, <1>2, SumaUnion
<1>5. Suma(f, R) = Cardinality(R) * 0 /\ Cardinality(R) \in Nat
  BY <1>1, <1>3, SumaConstante, FS_CardinalityType
<1>6. Suma(f, T) \in Int
  BY <1>1, <1>2, SumaTipo
<1>7. \A m \in Nat, k \in Int : k + m * 0 = k
  OBVIOUS
<1> QED BY <1>1, <1>4, <1>5, <1>6, <1>7

-----------------------------------------------------------------------------
(* Counts                                                                  *)

(* As many images as elements *)
LEMMA CuentaImagen ==
  ASSUME NEW S, IsFiniteSet(S), NEW b, \A x, y \in S : b[x] = b[y] => x = y
  PROVE  /\ IsFiniteSet({b[x] : x \in S})
         /\ Cardinality({b[x] : x \in S}) = Cardinality(S)
<1> DEFINE T == {b[x] : x \in S}
           c == [x \in S |-> b[x]]
<1>1. c \in Bijection(S, T)
  <2>1. c \in [S -> T]
    OBVIOUS
  <2>2. \A x, y \in S : c[x] = c[y] => x = y
    OBVIOUS
  <2>3. \A t \in T : \E x \in S : c[x] = t
    OBVIOUS
  <2> HIDE DEF T, c
  <2> QED BY <2>1, <2>2, <2>3 DEF Bijection, Injection, Surjection, IsInjective
<1> HIDE DEF T, c
<1>2. ExistsBijection(S, T)
  BY <1>1 DEF ExistsBijection
<1>3. IsFiniteSet(T) /\ Cardinality(T) = Cardinality(S)
  BY <1>2, FS_Bijection
<1> QED BY <1>3 DEF T

LEMMA CuentaRango ==
  ASSUME NEW a \in Int, NEW b \in Int, a <= b
  PROVE  IsFiniteSet(a .. b - 1) /\ Cardinality(a .. b - 1) = b - a
<1>1. b - 1 \in Int
  OBVIOUS
<1>2. IsFiniteSet(a .. b - 1)
      /\ Cardinality(a .. b - 1) = IF a > b - 1 THEN 0 ELSE (b - 1) - a + 1
  BY <1>1, FS_Interval
<1> QED BY <1>2

(* A finite set of numbers that is not empty has a greatest one. *)
LEMMA Maximo ==
  ASSUME NEW S, IsFiniteSet(S), S # {}, S \subseteq Int
  PROVE  Max(S) \in S /\ \A x \in S : x <= Max(S)
<1> DEFINE M == {T \in SUBSET S : T # {} => \E m \in T : \A x \in T : x <= m}
<1>1. {} \in M
  OBVIOUS
<1>2. ASSUME NEW T \in M, NEW y \in S \ T PROVE T \cup {y} \in M
  <2>1. T \cup {y} \in SUBSET S /\ T \in SUBSET S /\ y \in Int
    OBVIOUS
  <2>2. CASE T = {}
    <3>1. y \in T \cup {y} /\ \A x \in T \cup {y} : x <= y
      BY <2>1, <2>2
    <3> QED BY <2>1, <3>1
  <2>3. CASE T # {}
    <3>1. PICK m \in T : \A x \in T : x <= m
      BY <2>3
    <3>2. m \in Int /\ \A x \in T : x \in Int
      BY <2>1
    <3>3. CASE y <= m
      <4>1. m \in T \cup {y} /\ \A x \in T \cup {y} : x <= m
        BY <3>1, <3>3
      <4> QED BY <2>1, <4>1
    <3>4. CASE ~ (y <= m)
      <4>1. y \in T \cup {y} /\ \A x \in T \cup {y} : x <= y
        BY <2>1, <3>1, <3>2, <3>4
      <4> QED BY <2>1, <4>1
    <3> QED BY <3>3, <3>4
  <2> QED BY <2>2, <2>3
<1>3. S \in M
  <2> HIDE DEF M
  <2> QED BY <1>1, <1>2, InduccionFinita
<1>4. \E m \in S : \A x \in S : m >= x
  <2>1. PICK m \in S : \A x \in S : x <= m
    BY <1>3
  <2>2. \A x \in S : m >= x
    BY <2>1
  <2> QED BY <2>2
<1>5. Max(S) \in S /\ \A x \in S : Max(S) >= x
  BY <1>4 DEF Max
<1>6. \A a, b \in Int : a >= b => b <= a
  OBVIOUS
<1> QED BY <1>5, <1>6

=============================================================================
