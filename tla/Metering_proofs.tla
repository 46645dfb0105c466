-------------------------- MODULE Metering_proofs ---------------------------
(***************************************************************************)
(* Theorems about Metering, for any number of streams, every width of the  *)
(* counters, every limit of the totals and every grain to which they are   *)
(* rounded: what the station has counted is the sum over its streams, its  *)
(* mass is their sum but for what was rounded, and no pulse is lost or     *)
(* counted twice.                                                          *)
(***************************************************************************)
EXTENDS Metering, FiniteSetTheorems, WellFoundedInduction, TLAPS

-----------------------------------------------------------------------------
(* Sums over finite sets.                                                  *)

\* Induction over the subsets of a finite set: what holds of a set when it holds of its
\* proper subsets holds of all.
LEMMA SubsetInduction ==
  ASSUME NEW S, IsFiniteSet(S), NEW G,
         \A T \in SUBSET S : (\A U \in SUBSET T : U # T => U \in G) => T \in G
  PROVE  SUBSET S \subseteq G
<1>. DEFINE B == (SUBSET S) \ G
<1>. SUFFICES ASSUME B # {} PROVE FALSE
  OBVIOUS
<1>1. IsWellFoundedOn(StrictSubsetOrdering(S), FiniteSubsetsOf(S)) /\ B \subseteq FiniteSubsetsOf(S)
  BY FS_StrictSubsetOrderingWellFounded, FS_FiniteSubsetsOfFinite
<1>2. \E T \in B : \A U \in B : ~ (<<U, T>> \in StrictSubsetOrdering(S))
  <2>. DEFINE O == StrictSubsetOrdering(S)
              F == FiniteSubsetsOf(S)
  <2>1. IsWellFoundedOn(O, F) /\ B \subseteq F /\ B # {}
    BY <1>1
  <2>. HIDE DEF B, O, F
  <2>2. \E T \in B : \A U \in B : ~ (<<U, T>> \in O)
    BY <2>1, WFMin
  <2>. QED  BY <2>2 DEF O
<1>3. PICK T \in B : \A U \in B : ~ (<<U, T>> \in StrictSubsetOrdering(S))
  BY <1>2
<1>4. \A U \in SUBSET T : U # T => U \in G
  <2>. SUFFICES ASSUME NEW U \in SUBSET T, U # T, U \in B PROVE FALSE
    OBVIOUS
  <2>1. <<U, T>> \in StrictSubsetOrdering(S)
    BY DEF StrictSubsetOrdering
  <2>. QED  BY <1>3, <2>1
<1>. QED  BY <1>3, <1>4

\* The sum as it is computed: element by element, in the order of CHOOSE.
Pick(T) == CHOOSE x \in T : TRUE
IsIter(f, S, g) == g = [T \in SUBSET S |-> IF T = {} THEN 0 ELSE f[Pick(T)] + g[T \ {Pick(T)}]]

LEMMA SumIsIter ==
  ASSUME NEW f, NEW S
  PROVE  SumFunctionOnSet(f, S) = (CHOOSE g : IsIter(f, S, g))[S]
BY DEF IsIter, Pick, SumFunctionOnSet, FoldFunctionOnSet, MapThenFoldSet

LEMMA PickIn == ASSUME NEW T, T # {} PROVE Pick(T) \in T
BY DEF Pick

LEMMA IterAt ==
  ASSUME NEW f, NEW S, NEW g, IsIter(f, S, g), NEW T \in SUBSET S
  PROVE  g[T] = IF T = {} THEN 0 ELSE f[Pick(T)] + g[T \ {Pick(T)}]
BY DEF IsIter

\* Two such functions agree.
LEMMA IterUnique ==
  ASSUME NEW f, NEW S, IsFiniteSet(S), NEW U, NEW g, NEW h, IsIter(f, S, g), IsIter(f, U, h)
  PROVE  \A T \in SUBSET S : T \subseteq U => g[T] = h[T]
<1>. DEFINE G == {T \in SUBSET S : T \subseteq U => g[T] = h[T]}
<1>1. ASSUME NEW T \in SUBSET S, \A V \in SUBSET T : V # T => V \in G
      PROVE  T \in G
  <2>. SUFFICES ASSUME T \subseteq U PROVE g[T] = h[T]
    OBVIOUS
  <2>1. T # {} => T \ {Pick(T)} \in G
    BY <1>1, PickIn
  <2>. QED  BY <2>1, IterAt
<1>. HIDE DEF G
<1>2. SUBSET S \subseteq G
  BY <1>1, SubsetInduction
<1>. QED  BY <1>2 DEF G

LEMMA IterExists ==
  ASSUME NEW f, NEW S, IsFiniteSet(S)
  PROVE  \E g : IsIter(f, S, g)
<1>. DEFINE G == {T \in SUBSET S : \E g : IsIter(f, T, g)}
            It(T) == CHOOSE g : IsIter(f, T, g)
<1>1. ASSUME NEW T \in SUBSET S, \A U \in SUBSET T : U # T => U \in G
      PROVE  T \in G
  <2>. DEFINE c == Pick(T)
              val(U) == IF U = T THEN (IF T = {} THEN 0 ELSE f[c] + It(T \ {c})[T \ {c}])
                                 ELSE It(U)[U]
              g == [U \in SUBSET T |-> val(U)]
  <2>1. \A U \in SUBSET T : U # T => IsIter(f, U, It(U))
    BY <1>1
  <2>2. ASSUME NEW U \in SUBSET T
        PROVE  g[U] = IF U = {} THEN 0 ELSE f[Pick(U)] + g[U \ {Pick(U)}]
    <3>1. CASE U = {}
      <4>1. U # T => IsIter(f, U, It(U)) /\ It(U)[U] = 0
        BY <2>1, <3>1, IterAt
      <4>. QED  BY <3>1, <4>1
    <3>2. CASE U # {}
      <4>. DEFINE x == Pick(U)
                  R == U \ {x}
      <4>1. R \in SUBSET T /\ R # T /\ R # U /\ x \in U
        BY <3>2, PickIn
      <4>2. g[R] = It(R)[R] /\ IsIter(f, R, It(R))
        BY <4>1, <2>1
      <4>3. CASE U = T
        BY <3>2, <4>2, <4>3
      <4>4. CASE U # T
        <5>1. IsIter(f, U, It(U))
          BY <2>1, <4>4
        <5>2. g[U] = f[x] + It(U)[R]
          <6>1. It(U)[U] = f[x] + It(U)[R]
            <7>. HIDE DEF It, R
            <7>. QED  BY <5>1, <3>2, IterAt DEF R
          <6>. QED  BY <6>1, <4>4
        <5>3. It(U)[R] = It(R)[R]
          <6>1. IsFiniteSet(U)
            BY FS_Subset
          <6>2. R \in SUBSET U /\ R \subseteq R
            OBVIOUS
          <6>. HIDE DEF It, R
          <6>3. \A T2 \in SUBSET U : T2 \subseteq R => It(U)[T2] = It(R)[T2]
            BY <5>1, <4>2, <6>1, IterUnique
          <6>. QED  BY <6>2, <6>3
        <5>. QED  BY <3>2, <4>2, <5>2, <5>3
      <4>. QED  BY <4>3, <4>4
    <3>. QED  BY <3>1, <3>2
  <2>3. IsIter(f, T, g)
    <3>. HIDE DEF val
    <3>1. \A U \in SUBSET T : g[U] = IF U = {} THEN 0 ELSE f[Pick(U)] + g[U \ {Pick(U)}]
      BY <2>2
    <3>2. g = [U \in SUBSET T |-> g[U]]
      OBVIOUS
    <3>. HIDE DEF g
    <3>. QED  BY <3>1, <3>2 DEF IsIter
  <2>. QED  BY <2>3
<1>2. SUBSET S \subseteq G
  <2>. HIDE DEF G
  <2>. QED  BY <1>1, SubsetInduction
<1>. QED  BY <1>2

\* What the library computes, one element at a time.
LEMMA SumStep ==
  ASSUME NEW f, NEW S, IsFiniteSet(S), NEW T \in SUBSET S
  PROVE  SumFunctionOnSet(f, T) =
           IF T = {} THEN 0 ELSE f[Pick(T)] + SumFunctionOnSet(f, T \ {Pick(T)})
<1>. DEFINE It(U) == CHOOSE g : IsIter(f, U, g)
            R == T \ {Pick(T)}
<1>1. \A U \in SUBSET S : IsIter(f, U, It(U)) /\ SumFunctionOnSet(f, U) = It(U)[U]
  <2>. SUFFICES ASSUME NEW U \in SUBSET S
                PROVE  IsIter(f, U, It(U)) /\ SumFunctionOnSet(f, U) = It(U)[U]
    OBVIOUS
  <2>1. IsFiniteSet(U)
    BY FS_Subset
  <2>2. \E g : IsIter(f, U, g)
    BY <2>1, IterExists
  <2>. QED  BY <2>2, SumIsIter
<1>. HIDE DEF It
<1>2. R \in SUBSET S /\ R \in SUBSET T /\ IsFiniteSet(R)
  BY FS_Subset
<1>3. It(T)[T] = IF T = {} THEN 0 ELSE f[Pick(T)] + It(T)[R]
  BY <1>1, IterAt
<1>4. It(T)[R] = It(R)[R]
  <2>1. IsIter(f, T, It(T)) /\ IsIter(f, R, It(R)) /\ IsFiniteSet(T) /\ R \subseteq R
    BY <1>1, <1>2, FS_Subset
  <2>. HIDE DEF R
  <2>. QED  BY <1>2, <2>1, IterUnique
<1>. QED  BY <1>1, <1>2, <1>3, <1>4

LEMMA SumEmpty == ASSUME NEW f PROVE SumFunctionOnSet(f, {}) = 0
BY FS_EmptySet, SumStep

LEMMA SumInt ==
  ASSUME NEW f, NEW S, IsFiniteSet(S), \A x \in S : f[x] \in Int
  PROVE  \A T \in SUBSET S : SumFunctionOnSet(f, T) \in Int
<1>. DEFINE G == {T \in SUBSET S : SumFunctionOnSet(f, T) \in Int}
<1>1. ASSUME NEW T \in SUBSET S, \A U \in SUBSET T : U # T => U \in G
      PROVE  T \in G
  <2>1. T # {} => Pick(T) \in T /\ T \ {Pick(T)} \in G
    BY <1>1, PickIn
  <2>2. IsFiniteSet(T) /\ T \subseteq S
    BY <1>1, FS_Subset
  <2>3. SumFunctionOnSet(f, T) =
          IF T = {} THEN 0 ELSE f[Pick(T)] + SumFunctionOnSet(f, T \ {Pick(T)})
    BY <2>2, SumStep
  <2>4. CASE T = {}
    BY <2>3, <2>4
  <2>5. CASE T # {}
    <3>1. f[Pick(T)] \in Int /\ SumFunctionOnSet(f, T \ {Pick(T)}) \in Int
      BY <2>1, <2>2, <2>5
    <3>. QED  BY <2>3, <2>5, <3>1
  <2>. QED  BY <2>4, <2>5
<1>2. SUBSET S \subseteq G
  <2>. HIDE DEF G
  <2>. QED  BY <1>1, SubsetInduction
<1>. QED  BY <1>2

\* The order does not matter: any element may be taken first.
LEMMA SumTake ==
  ASSUME NEW f, NEW S, IsFiniteSet(S), \A x \in S : f[x] \in Int
  PROVE  \A T \in SUBSET S : \A x \in T :
           SumFunctionOnSet(f, T) = f[x] + SumFunctionOnSet(f, T \ {x})
<1>. DEFINE sum(U) == SumFunctionOnSet(f, U)
            G == {T \in SUBSET S : \A x \in T : sum(T) = f[x] + sum(T \ {x})}
<1>0. \A U \in SUBSET S : sum(U) \in Int
  BY SumInt
<1>1. \A U \in SUBSET S : U # {} => sum(U) = f[Pick(U)] + sum(U \ {Pick(U)})
  BY SumStep
<1>. HIDE DEF sum
<1>2. ASSUME NEW T \in SUBSET S, \A U \in SUBSET T : U # T => U \in G
      PROVE  T \in G
  <2>. SUFFICES ASSUME NEW x \in T PROVE sum(T) = f[x] + sum(T \ {x})
    OBVIOUS
  <2>. DEFINE c == Pick(T)
  <2>1. c \in T /\ sum(T) = f[c] + sum(T \ {c})
    BY <1>1, PickIn
  <2>. HIDE DEF c
  <2>2. CASE c # x
    <3>. DEFINE R == T \ {c, x}
    <3>1. T \ {c} \in G /\ T \ {x} \in G
      BY <1>2, <2>1
    <3>2. (T \ {c}) \ {x} = R /\ (T \ {x}) \ {c} = R /\ x \in T \ {c} /\ c \in T \ {x}
      BY <2>1, <2>2
    <3>3. sum(T \ {c}) = f[x] + sum(R) /\ sum(T \ {x}) = f[c] + sum(R)
      BY <3>1, <3>2
    <3>4. sum(R) \in Int /\ f[c] \in Int /\ f[x] \in Int
      BY <1>0, <2>1
    <3>. QED  BY <2>1, <3>3, <3>4
  <2>. QED  BY <2>1, <2>2
<1>3. SUBSET S \subseteq G
  <2>. HIDE DEF G
  <2>. QED  BY <1>2, SubsetInduction
<1>. QED  BY <1>3 DEF sum

LEMMA SumSame ==
  ASSUME NEW f, NEW g, NEW S, IsFiniteSet(S), \A x \in S : f[x] = g[x]
  PROVE  \A T \in SUBSET S : SumFunctionOnSet(f, T) = SumFunctionOnSet(g, T)
<1>. DEFINE G == {T \in SUBSET S : SumFunctionOnSet(f, T) = SumFunctionOnSet(g, T)}
<1>1. ASSUME NEW T \in SUBSET S, \A U \in SUBSET T : U # T => U \in G
      PROVE  T \in G
  <2>1. T # {} => Pick(T) \in T /\ T \ {Pick(T)} \in G
    BY <1>1, PickIn
  <2>2. SumFunctionOnSet(f, T) = IF T = {} THEN 0 ELSE f[Pick(T)] + SumFunctionOnSet(f, T \ {Pick(T)})
    BY SumStep
  <2>3. SumFunctionOnSet(g, T) = IF T = {} THEN 0 ELSE g[Pick(T)] + SumFunctionOnSet(g, T \ {Pick(T)})
    BY SumStep
  <2>. QED  BY <2>1, <2>2, <2>3
<1>2. SUBSET S \subseteq G
  <2>. HIDE DEF G
  <2>. QED  BY <1>1, SubsetInduction
<1>. QED  BY <1>2

\* One value changes.
LEMMA SumChange ==
  ASSUME NEW f, NEW g, NEW S, IsFiniteSet(S), NEW x \in S,
         \A y \in S : f[y] \in Int /\ g[y] \in Int, \A y \in S \ {x} : g[y] = f[y]
  PROVE  SumFunctionOnSet(g, S) = SumFunctionOnSet(f, S) - f[x] + g[x]
<1>. DEFINE R == S \ {x}
<1>1. SumFunctionOnSet(g, S) = g[x] + SumFunctionOnSet(g, R)
  BY SumTake
<1>2. SumFunctionOnSet(f, S) = f[x] + SumFunctionOnSet(f, R)
  BY SumTake
<1>3. SumFunctionOnSet(g, R) = SumFunctionOnSet(f, R)
  <2>1. IsFiniteSet(R) /\ R \in SUBSET R
    BY FS_Subset
  <2>. QED  BY <2>1, SumSame
<1>4. SumFunctionOnSet(f, R) \in Int
  BY SumInt
<1>. QED  BY <1>1, <1>2, <1>3, <1>4

\* Elements of the value zero may be left out.
LEMMA SumZeros ==
  ASSUME NEW f, NEW S, IsFiniteSet(S), NEW U \in SUBSET S,
         \A x \in S : f[x] \in Int, \A x \in S \ U : f[x] = 0
  PROVE  SumFunctionOnSet(f, S) = SumFunctionOnSet(f, U)
<1>. DEFINE G == {T \in SUBSET S : SumFunctionOnSet(f, T) = SumFunctionOnSet(f, T \cap U)}
<1>1. ASSUME NEW T \in SUBSET S, \A V \in SUBSET T : V # T => V \in G
      PROVE  T \in G
  <2>1. CASE T \subseteq U
    <3>1. T \cap U = T
      BY <2>1
    <3>. QED  BY <3>1
  <2>2. CASE \E x \in T : x \notin U
    <3>1. PICK x \in T : x \notin U
      BY <2>2
    <3>. DEFINE R == T \ {x}
    <3>2. SumFunctionOnSet(f, R) = SumFunctionOnSet(f, T \cap U) /\ f[x] = 0
      <4>1. R \in G /\ R \cap U = T \cap U /\ f[x] = 0
        BY <1>1, <3>1
      <4>. QED  BY <4>1
    <3>3. SumFunctionOnSet(f, T) = f[x] + SumFunctionOnSet(f, R)
      BY SumTake
    <3>4. SumFunctionOnSet(f, R) \in Int
      BY SumInt
    <3>5. SumFunctionOnSet(f, T) = SumFunctionOnSet(f, T \cap U)
      <4>. HIDE DEF R
      <4>. QED  BY <3>2, <3>3, <3>4
    <3>. QED  BY <3>5
  <2>. QED  BY <2>1, <2>2
<1>2. SUBSET S \subseteq G
  <2>. HIDE DEF G
  <2>. QED  BY <1>1, SubsetInduction
<1>3. S \cap U = U /\ S \in G
  BY <1>2
<1>. QED  BY <1>3

\* Bounds, and equal values.
LEMMA SumBound ==
  ASSUME NEW f, NEW S, IsFiniteSet(S), NEW c \in Nat, \A x \in S : f[x] \in 0..c
  PROVE  \A T \in SUBSET S : SumFunctionOnSet(f, T) \in 0..(c * Cardinality(T))
<1>. DEFINE G == {T \in SUBSET S : SumFunctionOnSet(f, T) \in 0..(c * Cardinality(T))}
<1>1. ASSUME NEW T \in SUBSET S, \A U \in SUBSET T : U # T => U \in G
      PROVE  T \in G
  <2>0. IsFiniteSet(T)
    BY FS_Subset
  <2>1. CASE T = {}
    <3>1. Cardinality(T) = 0 /\ SumFunctionOnSet(f, T) = 0
      BY <2>1, FS_EmptySet, SumEmpty
    <3>. QED  BY <3>1
  <2>2. CASE T # {}
    <3>. DEFINE R == T \ {Pick(T)}
    <3>1. Pick(T) \in T /\ R \in G /\ SumFunctionOnSet(f, T) = f[Pick(T)] + SumFunctionOnSet(f, R)
      BY <1>1, <2>2, PickIn, SumStep
    <3>2. Cardinality(R) = Cardinality(T) - 1 /\ Cardinality(T) \in Nat /\ Cardinality(R) \in Nat
      BY <2>0, <3>1, FS_RemoveElement, FS_CardinalityType
    <3>3. SumFunctionOnSet(f, R) \in 0..(c * Cardinality(R)) /\ f[Pick(T)] \in 0..c
      BY <3>1
    <3>4. c * Cardinality(T) = c * Cardinality(R) + c /\ c * Cardinality(R) \in Nat
      BY <3>2
    <3>. HIDE DEF R
    <3>. QED  BY <3>1, <3>3, <3>4
  <2>. QED  BY <2>1, <2>2
<1>2. SUBSET S \subseteq G
  <2>. HIDE DEF G
  <2>. QED  BY <1>1, SubsetInduction
<1>. QED  BY <1>2

LEMMA SumConstant ==
  ASSUME NEW f, NEW S, IsFiniteSet(S), NEW c \in Nat, \A x \in S : f[x] = c
  PROVE  \A T \in SUBSET S : SumFunctionOnSet(f, T) = c * Cardinality(T)
<1>. DEFINE G == {T \in SUBSET S : SumFunctionOnSet(f, T) = c * Cardinality(T)}
<1>1. ASSUME NEW T \in SUBSET S, \A U \in SUBSET T : U # T => U \in G
      PROVE  T \in G
  <2>0. IsFiniteSet(T)
    BY FS_Subset
  <2>1. CASE T = {}
    <3>1. Cardinality(T) = 0 /\ SumFunctionOnSet(f, T) = 0
      BY <2>1, FS_EmptySet, SumEmpty
    <3>. QED  BY <3>1
  <2>2. CASE T # {}
    <3>. DEFINE R == T \ {Pick(T)}
    <3>1. Pick(T) \in T /\ R \in G /\ SumFunctionOnSet(f, T) = f[Pick(T)] + SumFunctionOnSet(f, R)
      BY <1>1, <2>2, PickIn, SumStep
    <3>2. Cardinality(R) = Cardinality(T) - 1 /\ Cardinality(T) \in Nat /\ Cardinality(R) \in Nat
      BY <2>0, <3>1, FS_RemoveElement, FS_CardinalityType
    <3>3. SumFunctionOnSet(f, R) = c * Cardinality(R) /\ f[Pick(T)] = c
      BY <3>1
    <3>4. c * Cardinality(T) = c * Cardinality(R) + c /\ c * Cardinality(R) \in Nat
      BY <3>2
    <3>. HIDE DEF R
    <3>. QED  BY <3>1, <3>3, <3>4
  <2>. QED  BY <2>1, <2>2
<1>2. SUBSET S \subseteq G
  <2>. HIDE DEF G
  <2>. QED  BY <1>1, SubsetInduction
<1>. QED  BY <1>2

-----------------------------------------------------------------------------
(* Remainders.                                                             *)

LEMMA RemainderType ==
  ASSUME NEW n \in Nat \ {0}, NEW x \in Int
  PROVE  x % n \in 0..(n - 1)
OBVIOUS

LEMMA Division ==
  ASSUME NEW n \in Nat \ {0}, NEW x \in Int
  PROVE  x \div n \in Int /\ x % n \in 0..(n - 1) /\ x = n * (x \div n) + (x % n)
<1>1. n * (x \div n) <= x /\ x < n * (x \div n + 1)
  OBVIOUS
<1>2. x \div n \in Int /\ x % n \in 0..(n - 1)
  OBVIOUS
<1>3. x = n * (x \div n) + (x % n)
  OBVIOUS
<1>. QED  BY <1>2, <1>3

LEMMA RemainderUnique ==
  ASSUME NEW n \in Nat \ {0}, NEW k \in Int, NEW r \in 0..(n - 1)
  PROVE  (n * k + r) % n = r
<1>. DEFINE x == n * k + r
            q == x \div n
<1>0. x \in Int
  OBVIOUS
<1>. HIDE DEF x
<1>1. q \in Int /\ x = n * q + (x % n) /\ x % n \in 0..(n - 1)
  BY <1>0, Division
<1>. USE DEF x
<1>2. n * (k - q) = (x % n) - r
  BY <1>1
<1>. HIDE DEF x, q
<1>3. k - q = 0
  <2>1. k - q >= 1 => n * (k - q) >= n
    BY <1>1
  <2>2. k - q <= -1 => n * (k - q) <= -n
    BY <1>1
  <2>. QED  BY <1>1, <1>2, <2>1, <2>2
<1>4. x % n = r
  BY <1>1, <1>2, <1>3
<1>. QED  BY <1>4 DEF x

\* A remainder may be taken before the sum.
LEMMA RemainderPlus ==
  ASSUME NEW n \in Nat \ {0}, NEW a \in Int, NEW b \in Int
  PROVE  ((a % n) + b) % n = (a + b) % n
<1>. DEFINE y == (a % n) + b
            q == y \div n
            p == a \div n
            r == y % n
<1>0. y \in Int
  BY RemainderType
<1>. HIDE DEF y
<1>1. /\ q \in Int /\ p \in Int /\ r \in 0..(n - 1)
      /\ y = n * q + r /\ a = n * p + (a % n) /\ a % n \in Int
  BY <1>0, Division
<1>. USE DEF y
<1>2. a + b = n * (p + q) + r
  <2>1. n * (p + q) = n * p + n * q
    BY <1>1
  <2>2. y = (a % n) + b
    OBVIOUS
  <2>. HIDE DEF p, q, r, y
  <2>. QED  BY <1>0, <1>1, <2>1, <2>2
<1>. HIDE DEF y, q, p, r
<1>3. (n * (p + q) + r) % n = r
  BY <1>1, RemainderUnique
<1>. QED  BY <1>2, <1>3 DEF y, r

LEMMA RemainderShift ==
  ASSUME NEW n \in Nat \ {0}, NEW x \in Int, NEW k \in Int
  PROVE  (x + n * k) % n = x % n
<1>. DEFINE q == x \div n
            r == x % n
<1>1. q \in Int /\ r \in 0..(n - 1) /\ x = n * q + r
  BY Division
<1>. HIDE DEF q, r
<1>2. x + n * k = n * (q + k) + r
  BY <1>1
<1>3. (n * (q + k) + r) % n = r
  BY <1>1, RemainderUnique
<1>. QED  BY <1>2, <1>3 DEF r

LEMMA RemainderSmall ==
  ASSUME NEW n \in Nat \ {0}, NEW a \in 0..(n - 1)
  PROVE  a % n = a
OBVIOUS

-----------------------------------------------------------------------------
(* The inductive invariant.                                                *)

\* Where the data thread is in a cycle: whether it calculates a stream, which may be on
\* behalf of the station, and whether the station is calculated to its end.
Asked == pc \in {"value", "pulling"}
Cycling == pc \notin {"idle", "save"}
InStation == pc = "station" \/ (Asked /\ list[turn] = Station)
StationDone == Station \in isCalc /\ ~InStation

\* The streams that this cycle has calculated.
Done == (Streams \cap isCalc) \ (IF Asked THEN {cur} ELSE {})

\* A cycle goes through the list without leaving out an object, and calculates the
\* station when all streams are calculated.
CycleInv ==
  /\ list \in Lists
  /\ ~Cycling => isCalc = {}
  /\ InStation => Station \in isCalc
  /\ pc = "station" => list[turn] = Station
  /\ Asked => cur \in isCalc /\ list[turn] \in {cur, Station}
  /\ Cycling => \A j \in 1..(turn - 1) : list[j] \in isCalc
  /\ StationDone => Streams \subseteq isCalc /\ pc = "list"

\* A total is reset only after the totals were set apart.
ResetApart == ~apart => reset = {}

\* The mass of the most pulses that a stream can add in a cycle.
Most == (Word - 1) * Weight

\* No stream adds more than its pulses, and none in maintenance adds any.
SmallInc ==
  /\ \A s \in Streams : inc[s].mass \in 0..Most
  /\ \A s \in Done \cap out : inc[s] = Zero

\* What the totals of the streams hold.
Count(f) == [s \in Streams |-> f[s].count]
Mass(f) == [s \in Streams |-> f[s].mass]

\* The sum over the streams is the total of the station and, until that is calculated
\* too, what the streams have added in this cycle.  What the roundings of the station
\* have added to its mass, and those of the streams have not, is taken off.
Balanced(sum, base, due, n) == sum % n = (base + (IF StationDone THEN 0 ELSE due)) % n
Balance ==
  /\ Balanced(SumFunctionOnSet(Count(raw), Streams), raw[Station].count,
              SumFunctionOnSet(Count(inc), Done), Word)
  /\ Balanced(SumFunctionOnSet(Mass(raw), Streams), raw[Station].mass - drift,
              SumFunctionOnSet(Mass(inc), Done), Limit)

\* A rounding adds or takes at most half of the grain.
Drifts == 2 * drift \in -(Grain * rounded)..(Grain * rounded)

\* No cycle was broken off and no total was reset.
Whole == (live = "RUNNING" \/ pc = "save") /\ ~apart

\* The inductive invariant.
IInv == TypeOK /\ CycleInv /\ ResetApart /\ SmallInc /\ Drifts /\ (Whole => Balance)

LEMMA Sizes == /\ Word \in Nat \ {0} /\ Limit \in Nat \ {0} /\ Udint = 0..(Word - 1)
               /\ 0 \in Udint /\ Word - 1 \in Udint /\ IsFiniteSet(Streams) /\ Station \notin Streams
               /\ Grain \in Nat \ {0} /\ Weight \in Nat /\ Most \in Nat
<1>1. /\ Word \in Nat \ {0, 1} /\ Limit \in Nat \ {0} /\ Grain \in Nat \ {0} /\ Weight \in Nat
      /\ IsFiniteSet(Streams) /\ Station \notin Streams
  BY MeteringAssumption
<1>2. Most \in Nat
  <2>. DEFINE w == Word - 1
  <2>1. w \in Nat
    BY <1>1
  <2>. HIDE DEF w
  <2>2. w * Weight \in Nat
    BY <1>1, <2>1
  <2>. QED  BY <2>2 DEF w, Most
<1>. QED  BY <1>1, <1>2 DEF Udint

\* The mass of the pulses of a counter.
LEMMA MassType == ASSUME NEW k \in Udint PROVE k * Weight \in 0..Most
<1>. DEFINE w == Word - 1
<1>1. w \in Nat /\ k \in 0..w /\ Weight \in Nat
  BY Sizes
<1>. HIDE DEF w
<1>2. k * Weight \in Nat /\ (w - k) * Weight \in Nat /\ w * Weight = k * Weight + (w - k) * Weight
  BY <1>1
<1>. DEFINE a == k * Weight
            b == (w - k) * Weight
<1>. HIDE DEF a, b
<1>3. a \in 0..(a + b)
  BY <1>2 DEF a, b
<1>. QED  BY <1>2, <1>3 DEF a, b, Most, w

LEMMA Constants ==
  /\ IsFiniteSet(Streams) /\ Station \notin Streams
  /\ Word \in Nat \ {0, 1} /\ Limit \in Nat \ {0}
  /\ Cardinality(Streams) \in Nat /\ Cardinality(Streams) * Most <= Limit - Grain
  /\ Cardinality(Streams) * Most \in Nat /\ Grain <= Limit
  /\ Streams # {} => Most <= Limit - Grain
  /\ N \in Nat \ {0}
  /\ \A l \in Lists : l \in [1..N -> Objects] /\ \A o \in Objects : \E j \in 1..N : l[j] = o
  /\ Objects = Streams \cup {Station} /\ Udint = 0..(Word - 1) /\ 0 \in Udint /\ Word - 1 \in Udint
  /\ {MaxPulses, MaxRepeats, MaxFaults, MaxSets} \subseteq Nat
<1>1. /\ IsFiniteSet(Streams) /\ Station \notin Streams
      /\ Word \in Nat \ {0, 1} /\ Limit \in Nat \ {0}
      /\ Limit >= Cardinality(Streams) * Most + Grain
      /\ {MaxPulses, MaxRepeats, MaxFaults, MaxSets} \subseteq Nat
  BY MeteringAssumption DEF Most
<1>2. Cardinality(Streams) \in Nat /\ (Streams # {} => Cardinality(Streams) >= 1)
  BY <1>1, FS_CardinalityType, FS_EmptySet
<1>3. /\ Cardinality(Streams) * Most <= Limit - Grain /\ Cardinality(Streams) * Most \in Nat
      /\ Grain <= Limit /\ (Streams # {} => Most <= Limit - Grain)
  <2>. DEFINE c == Cardinality(Streams)
              g == c * Most
  <2>1. g \in Nat /\ (c >= 1 => g >= Most)
    <3>1. c \in Nat /\ Most \in Nat
      BY <1>2, Sizes
    <3>. HIDE DEF c
    <3>2. c >= 1 => g = Most + (c - 1) * Most /\ (c - 1) * Most \in Nat
      BY <3>1
    <3>3. g \in Nat
      BY <3>1
    <3>. DEFINE h == (c - 1) * Most
    <3>. HIDE DEF g, h
    <3>. QED  BY <3>1, <3>2, <3>3 DEF h
  <2>2. Limit >= g + Grain /\ Limit \in Nat /\ Grain \in Nat /\ Most \in Nat
    BY <1>1, Sizes
  <2>. HIDE DEF g
  <2>3. g <= Limit - Grain /\ Grain <= Limit /\ (c >= 1 => Most <= Limit - Grain)
    BY <2>1, <2>2
  <2>. QED  BY <1>2, <2>1, <2>3 DEF g
<1>5. N \in Nat \ {0}
  <2>1. IsFiniteSet(Objects) /\ Objects # {}
    BY <1>1, FS_AddElement, Zenon DEF Objects
  <2>. QED  BY <2>1, FS_CardinalityType, FS_EmptySet DEF N
<1>6. ASSUME NEW l \in Lists
      PROVE  l \in [1..N -> Objects] /\ \A o \in Objects : \E j \in 1..N : l[j] = o
  <2>1. l \in [1..N -> Objects] /\ Range(l) = Objects
    BY MeteringAssumption DEF N, Objects
  <2>2. Range(l) = {l[j] : j \in 1..N}
    BY <2>1 DEF Range
  <2>3. ASSUME NEW o \in Objects PROVE \E j \in 1..N : l[j] = o
    BY <2>1, <2>2
  <2>. QED  BY <2>1, <2>3
<1>7. Objects = Streams \cup {Station} /\ Udint = 0..(Word - 1) /\ 0 \in Udint /\ Word - 1 \in Udint
  BY <1>1 DEF Objects, Udint
<1>. QED  BY <1>1, <1>2, <1>3, <1>5, <1>6, <1>7, Zenon

\* Rounding changes a number by at most half of the grain.
Error(x) == Round(x) - x

LEMMA RoundType ==
  ASSUME NEW x \in Nat
  PROVE  /\ Round(x) \in Nat /\ Round(x) <= x + Grain
         /\ Error(x) \in Int /\ 2 * Error(x) \in -Grain..Grain
<1>. DEFINE y == 2 * x + Grain
            n == 2 * Grain
            q == y \div n
            e == y % n
<1>1. y \in Nat /\ n \in Nat \ {0} /\ Grain \in Nat \ {0}
  BY Sizes
<1>2. q \in Int /\ e \in 0..(n - 1) /\ y = n * q + e
  <2>. HIDE DEF y, n
  <2>. QED  BY <1>1, Division
<1>3. Round(x) = Grain * q
  BY DEF Round
<1>8. q >= 0
  <2>. HIDE DEF y, n, q, e
  <2>1. q <= -1 => n * q <= -n
    BY <1>1, <1>2
  <2>. QED  BY <1>1, <1>2, <2>1
<1>. HIDE DEF q, e
<1>4. Grain * q \in Int /\ n * q = 2 * (Grain * q)
  BY <1>1, <1>2
<1>. DEFINE z == Grain * q
<1>. HIDE DEF z
<1>5. z \in Int /\ 2 * x + Grain = 2 * z + e /\ e \in 0..(2 * Grain - 1)
  BY <1>2, <1>4 DEF z
<1>6. Round(x) = z
  BY <1>3 DEF z
<1>7. z \in Nat /\ z <= x + Grain /\ z - x \in Int /\ 2 * (z - x) \in -Grain..Grain
  <2>1. z >= 0
    BY <1>1, <1>2, <1>8 DEF z
  <2>. QED  BY <1>1, <1>5, <2>1
<1>. QED  BY <1>6, <1>7 DEF Error

\* A total that grows by no more than the limit stays below it.
LEMMA GrownType ==
  ASSUME NEW t \in Total, NEW c \in Udint, NEW m \in 0..(Limit - Grain), NEW i, i.count = c, i.mass = m
  PROVE  /\ Grown(t, i) \in Total
         /\ Grown(t, i).count = (t.count + c) % Word
         /\ Grown(t, i).mass = (t.mass + m + Error(t.mass + m)) % Limit
         /\ t.mass + m \in Nat
<1>1. (t.count + c) % Word \in Udint
  <2>1. t.count + c \in Int
    BY Sizes DEF Total
  <2>. QED  BY <2>1, Sizes, RemainderType
<1>. DEFINE x == Round(t.mass + m)
<1>2. t.mass \in 0..(Limit - 1) /\ t.mass + m \in Nat /\ t.mass + m <= 2 * Limit - 1 - Grain
  BY Sizes DEF Total
<1>3. x \in 0..(2 * Limit - 1) /\ x = t.mass + m + Error(t.mass + m)
  <2>. DEFINE a == t.mass + m
  <2>1. a \in Nat /\ a <= 2 * Limit - 1 - Grain
    BY <1>2
  <2>. HIDE DEF a
  <2>2. Round(a) \in Nat /\ Round(a) <= a + Grain
    BY <2>1, RoundType
  <2>3. Round(a) \in 0..(2 * Limit - 1) /\ Round(a) = a + Error(a)
    BY <2>1, <2>2, Sizes DEF Error
  <2>. QED  BY <2>3 DEF a
<1>. HIDE DEF x
<1>4. checkMax(x) = x % Limit
  <2>1. CASE x < Limit
    <3>1. x \in 0..(Limit - 1)
      BY <1>3, <2>1, Sizes
    <3>2. x % Limit = x
      BY <3>1, Sizes, RemainderSmall
    <3>. QED  BY <3>1, <3>2, Sizes DEF checkMax
  <2>2. CASE x >= Limit
    <3>. DEFINE r == x - Limit
    <3>1. r \in 0..(Limit - 1) /\ x = Limit * 1 + r
      BY <1>3, <2>2, Sizes
    <3>2. x % Limit = r
      <4>. HIDE DEF r
      <4>. QED  BY <3>1, Sizes, RemainderUnique
    <3>. QED  BY <2>2, <3>2 DEF checkMax
  <2>. QED  BY <1>3, <2>1, <2>2, Sizes
<1>5. x % Limit \in 0..(Limit - 1)
  <2>1. x \in Int
    BY <1>3
  <2>. QED  BY <2>1, Sizes, RemainderType
<1>6. Grown(t, i) = [count |-> (t.count + c) % Word, mass |-> checkMax(x)]
  BY DEF Grown, x
<1>. QED  BY <1>1, <1>2, <1>3, <1>4, <1>5, <1>6 DEF Total

-----------------------------------------------------------------------------
(* Initially.                                                              *)

LEMMA InitIInv == Init => IInv
<1>. SUFFICES ASSUME Init PROVE IInv
  OBVIOUS
<1>. DEFINE K == Cardinality(Streams)
<1>1. K \in Nat /\ (Word - 1) * K \in Int /\ (Limit - Grain) * K \in Int
  <2>1. K \in Nat /\ Word - 1 \in Int /\ Limit - Grain \in Int
    BY Constants, Sizes
  <2>. HIDE DEF K
  <2>. QED  BY <2>1
<1>2. /\ \A s \in Streams : raw[s].count = Word - 1 /\ raw[s].mass = Limit - Grain
      /\ raw[Station].count = ((Word - 1) * K) % Word
      /\ raw[Station].mass = ((Limit - Grain) * K) % Limit
      /\ raw \in [Objects -> Total]
  <2>1. raw = [o \in Objects |-> Loaded(o)]
    BY DEF Init
  <2>2. \A s \in Streams : raw[s] = [count |-> Word - 1, mass |-> Limit - Grain]
    BY <2>1 DEF Loaded, Objects
  <2>3. raw[Station] = [count |-> ((Word - 1) * K) % Word, mass |-> ((Limit - Grain) * K) % Limit]
    BY <2>1, Sizes DEF Loaded, Objects
  <2>4. ((Word - 1) * K) % Word \in Udint /\ ((Limit - Grain) * K) % Limit \in 0..(Limit - 1)
    BY <1>1, Sizes, RemainderType
  <2>5. Limit - Grain \in 0..(Limit - 1)
    BY Constants, Sizes
  <2>6. \A o \in Objects : raw[o] \in Total
    BY <2>2, <2>3, <2>4, <2>5, Sizes DEF Total, Objects
  <2>. QED  BY <2>1, <2>2, <2>3, <2>6
<1>3. TypeOK
  <2>1. /\ left \in Nat /\ faults \in Nat /\ sets \in Nat /\ repeats \in Nat
        /\ list \in [1..N -> Objects] /\ turn \in 1..(N + 1)
    BY Constants DEF Init
  <2>2. chan \in [Streams -> Udint] /\ fresh \subseteq Streams /\ count \in Udint
    BY Sizes DEF Init
  <2>3. counter \in [Streams -> [init : BOOLEAN, prev : Udint, impulse : Udint]]
    BY Sizes DEF Init
  <2>4. inc \in [Objects -> Increment]
    BY Sizes DEF Init, Increment, Zero
  <2>5. drift \in Int /\ rounded \in Nat
    BY DEF Init
  <2>. QED  BY <1>2, <2>1, <2>2, <2>3, <2>4, <2>5 DEF Init, TypeOK, Objects
<1>4. isCalc = {} /\ ~Asked /\ Done = {} /\ ~StationDone
  BY DEF Init, Asked, Done, StationDone
<1>5. CycleInv
  BY <1>4 DEF Init, CycleInv, Asked, Cycling, InStation
<1>6. ResetApart /\ SmallInc /\ Drifts
  BY <1>4, Sizes DEF Init, ResetApart, SmallInc, Drifts, Zero, Objects
<1>7. Balance
  <2>1. SumFunctionOnSet(Count(raw), Streams) = (Word - 1) * K
    <3>1. \A x \in Streams : Count(raw)[x] = Word - 1
      BY <1>2 DEF Count
    <3>. QED  BY <3>1, Sizes, SumConstant
  <2>2. SumFunctionOnSet(Mass(raw), Streams) = (Limit - Grain) * K
    <3>1. \A x \in Streams : Mass(raw)[x] = Limit - Grain
      BY <1>2 DEF Mass
    <3>2. Limit - Grain \in Nat /\ IsFiniteSet(Streams) /\ Streams \in SUBSET Streams
      BY Constants, Sizes
    <3>. DEFINE c == Limit - Grain
    <3>. HIDE DEF c
    <3>3. SumFunctionOnSet(Mass(raw), Streams) = c * K
      BY <3>1, <3>2, SumConstant DEF c
    <3>. QED  BY <3>3 DEF c
  <2>0. raw[Station].count \in Udint /\ raw[Station].mass \in 0..(Limit - 1)
    BY <1>2 DEF Objects, Total
  <2>3. raw[Station].count + 0 = raw[Station].count /\ (raw[Station].mass - drift) + 0 = raw[Station].mass
    BY <2>0, Sizes DEF Init
  <2>4. \A f : SumFunctionOnSet(f, Done) = 0
    BY <1>4, SumEmpty
  <2>5. raw[Station].count % Word = raw[Station].count /\ raw[Station].mass % Limit = raw[Station].mass
    BY <2>0, Sizes, RemainderSmall
  <2>. QED  BY <1>2, <1>4, <2>1, <2>2, <2>3, <2>4, <2>5 DEF Balance, Balanced
<1>. QED  BY <1>3, <1>5, <1>6, <1>7 DEF IInv

-----------------------------------------------------------------------------
(* A stream is calculated.                                                 *)

\* The mass of o has grown by its increment and by the error of a rounding, which is
\* added to the drift with the given sign.
Rounded(o, sign) ==
  \E e \in Int :
    /\ raw'[o].mass = (Base(o).mass + inc'[o].mass + e) % Limit
    /\ drift' = IF sign = 1 THEN drift + e ELSE drift - e
    /\ 2 * e \in -Grain..Grain
    /\ rounded' = IF e = 0 THEN rounded ELSE rounded + 1

LEMMA CalculatesType ==
  ASSUME IInv, NEW o \in Objects, NEW i \in Increment, i.count \in Udint, i.mass \in 0..(Limit - Grain),
         Calculates(o, i)
  PROVE  /\ inc' \in [Objects -> Increment] /\ raw' \in [Objects -> Total] /\ reset' = reset \ {o}
         /\ \A p \in Objects \ {o} : inc'[p] = inc[p] /\ raw'[p] = raw[p]
         /\ inc'[o] = i
         /\ raw'[o].count = (Base(o).count + i.count) % Word
         /\ Rounded(o, IF o = Station THEN 1 ELSE -1)
<1>1. inc \in [Objects -> Increment] /\ raw \in [Objects -> Total] /\ drift \in Int /\ rounded \in Nat
  BY DEF IInv, TypeOK
<1>2. Base(o) \in Total
  BY <1>1, Sizes DEF Base, Total, Zero
<1>. DEFINE x == Base(o).mass + i.mass
            g == Grown(Base(o), i)
<1>3. g \in Total /\ g.count = (Base(o).count + i.count) % Word /\ g.mass = (x + Error(x)) % Limit /\ x \in Nat
  BY <1>2, GrownType
<1>4. /\ inc' = [inc EXCEPT ![o] = i] /\ raw' = [raw EXCEPT ![o] = g] /\ reset' = reset \ {o}
      /\ drift' = IF o = Station THEN drift + Error(x) ELSE drift - Error(x)
      /\ rounded' = IF Error(x) = 0 THEN rounded ELSE rounded + 1
  BY DEF Calculates, Error
<1>. HIDE DEF g
<1>5. inc'[o] = i /\ raw'[o] = g
  BY <1>1, <1>4
<1>6. Error(x) \in Int /\ 2 * Error(x) \in -Grain..Grain
  <2>. HIDE DEF x
  <2>. QED  BY <1>3, RoundType
<1>7. Rounded(o, IF o = Station THEN 1 ELSE -1)
  <2>. DEFINE e == Error(x)
  <2>1. /\ e \in Int /\ 2 * e \in -Grain..Grain
        /\ raw'[o].mass = (x + e) % Limit
        /\ drift' = (IF o = Station THEN drift + e ELSE drift - e)
        /\ rounded' = IF e = 0 THEN rounded ELSE rounded + 1
    BY <1>3, <1>4, <1>5, <1>6
  <2>2. x = Base(o).mass + inc'[o].mass
    BY <1>5
  <2>. HIDE DEF e, x
  <2>. QED  BY <2>1, <2>2 DEF Rounded
<1>. QED  BY <1>1, <1>3, <1>4, <1>5, <1>7

LEMMA DriftsOn ==
  ASSUME IInv, NEW o, NEW sign \in {1, -1}, Rounded(o, sign)
  PROVE  Drifts' /\ drift' \in Int /\ rounded' \in Nat
<1>1. drift \in Int /\ rounded \in Nat /\ Drifts /\ Grain \in Nat \ {0}
  BY Sizes DEF IInv, TypeOK
<1>2. PICK e \in Int : /\ drift' = IF sign = 1 THEN drift + e ELSE drift - e
                       /\ 2 * e \in -Grain..Grain
                       /\ rounded' = IF e = 0 THEN rounded ELSE rounded + 1
  BY DEF Rounded
<1>. DEFINE a == Grain * rounded
<1>3. a \in Nat /\ Grain * (rounded + 1) = a + Grain /\ 2 * drift \in -a..a
  BY <1>1 DEF Drifts
<1>4. CASE e = 0
  BY <1>1, <1>2, <1>4 DEF Drifts
<1>5. CASE e # 0
  <2>1. Grain * rounded' = a + Grain
    BY <1>2, <1>3, <1>5
  <2>. HIDE DEF a
  <2>2. 2 * drift' \in -(a + Grain)..(a + Grain)
    BY <1>1, <1>2, <1>3
  <2>. QED  BY <1>1, <1>2, <1>5, <2>1, <2>2 DEF Drifts
<1>. QED  BY <1>4, <1>5

\* What every such step does to the increment and the total of the stream.
LEMMA MeteredStream ==
  ASSUME IInv, NEW c \in [init : BOOLEAN, prev : Udint, impulse : Udint], Asked, Metered(cur, c)
  PROVE  /\ cur \in Streams
         /\ counter' = [counter EXCEPT ![cur] = c] /\ reset' = reset \ {cur}
         /\ counter' \in [Streams -> [init : BOOLEAN, prev : Udint, impulse : Udint]]
         /\ inc' \in [Objects -> Increment] /\ raw' \in [Objects -> Total]
         /\ \A o \in Objects \ {cur} : inc'[o] = inc[o] /\ raw'[o] = raw[o]
         /\ inc'[cur].mass \in 0..Most /\ (cur \in out => inc'[cur] = Zero)
         /\ cur \notin out => inc'[cur].count = c.impulse
         /\ raw'[cur].count = (Base(cur).count + inc'[cur].count) % Word
         /\ Rounded(cur, -1)
         /\ Returns /\ cur' = Station /\ count' = 0
<1>. DEFINE i == IF cur \in out THEN Zero
                 ELSE [count |-> c.impulse, mass |-> IF cur \in noKF THEN 0 ELSE c.impulse * Weight]
<1>1. cur \in Streams /\ cur \in Objects
  BY DEF IInv, TypeOK, Asked, Objects
<1>2. /\ counter' = [counter EXCEPT ![cur] = c] /\ Calculates(cur, i)
      /\ Returns /\ cur' = Station /\ count' = 0
  BY DEF Metered, calcTotal
<1>3. i.count \in Udint /\ i.mass \in 0..Most /\ (cur \in out => i = Zero) /\ (cur \notin out => i.count = c.impulse)
      /\ i \in Increment
  <2>. DEFINE m == c.impulse * Weight
  <2>1. m \in 0..Most /\ c.impulse \in Udint /\ 0 \in Udint /\ 0 \in 0..Most /\ 0..Most \subseteq Nat
    <3>1. c.impulse \in Udint
      OBVIOUS
    <3>2. m \in 0..Most
      BY <3>1, MassType
    <3>. QED  BY <3>1, <3>2, Sizes
  <2>. HIDE DEF m
  <2>2. i = IF cur \in out THEN Zero ELSE [count |-> c.impulse, mass |-> IF cur \in noKF THEN 0 ELSE m]
    BY DEF m
  <2>. HIDE DEF i
  <2>. QED  BY <2>1, <2>2 DEF Zero, Increment
<1>4. Base(cur) \in Total
  BY <1>1, Sizes DEF Base, IInv, TypeOK, Total, Zero
<1>. HIDE DEF i
<1>5. i.mass \in 0..(Limit - Grain)
  <2>1. Most <= Limit - Grain
    BY <1>1, Constants
  <2>2. Most \in Nat /\ Limit \in Nat /\ Grain \in Nat
    BY Sizes
  <2>. QED  BY <1>3, <2>1, <2>2
<1>6. /\ inc' \in [Objects -> Increment] /\ raw' \in [Objects -> Total] /\ reset' = reset \ {cur}
      /\ \A o \in Objects \ {cur} : inc'[o] = inc[o] /\ raw'[o] = raw[o]
      /\ inc'[cur] = i
      /\ raw'[cur].count = (Base(cur).count + i.count) % Word
      /\ Rounded(cur, -1)
  BY <1>1, <1>2, <1>3, <1>4, <1>5, CalculatesType, Sizes
<1>7. counter \in [Streams -> [init : BOOLEAN, prev : Udint, impulse : Udint]]
  BY DEF IInv, TypeOK
<1>. QED  BY <1>1, <1>2, <1>3, <1>6, <1>7

\* Its place in the cycle: it becomes one of the streams that are done.
LEMMA MeteredPlace ==
  ASSUME IInv, NEW c \in [init : BOOLEAN, prev : Udint, impulse : Udint], Asked, Metered(cur, c),
         UNCHANGED <<isCalc, list>>
  PROVE  /\ pc' \in {"list", "station"} /\ turn' \in 1..(N + 1) /\ (pc' = "station" => turn' <= N)
         /\ CycleInv' /\ ~StationDone /\ ~StationDone'
         /\ cur \notin Done /\ Done' = Done \cup {cur}
<1>1. TypeOK /\ CycleInv /\ cur \in Streams /\ Station \notin Streams /\ turn <= N /\ turn \in 1..(N + 1) /\ N \in Nat
  BY Sizes, Constants DEF IInv, TypeOK, Asked
<1>2. Returns /\ isCalc' = isCalc /\ list' = list /\ cur' = Station
  BY MeteredStream
<1>3. Cycling /\ cur \in isCalc /\ list[turn] \in {cur, Station} /\ (list[turn] = Station => Station \in isCalc)
      /\ \A j \in 1..(turn - 1) : list[j] \in isCalc
  BY <1>1 DEF CycleInv, InStation, Cycling, Asked
<1>4. ~StationDone
  BY <1>1 DEF CycleInv, Asked, StationDone
<1>5. /\ pc' \in {"list", "station"} /\ turn' \in 1..(N + 1) /\ (pc' = "station" => turn' <= N)
      /\ (pc' = "station" => list[turn'] = Station) /\ (pc' = "station" => Station \in isCalc)
      /\ \A j \in 1..(turn' - 1) : list[j] \in isCalc
  <2>1. CASE list[turn] = Station
    BY <1>1, <1>2, <1>3, <2>1 DEF Returns
  <2>2. CASE list[turn] # Station
    <3>1. pc' = "list" /\ turn' = turn + 1 /\ list[turn] = cur
      BY <1>2, <1>3, <2>2 DEF Returns
    <3>2. \A j \in 1..(turn' - 1) : j \in 1..(turn - 1) \/ j = turn
      BY <1>1, <3>1
    <3>. QED  BY <1>1, <1>3, <3>1, <3>2
  <2>. QED  BY <2>1, <2>2
<1>6. ~Asked' /\ Cycling'
  BY <1>5 DEF Asked, Cycling
<1>7. ~StationDone'
  <2>1. CASE list[turn] = Station
    BY <1>2, <2>1 DEF Returns, StationDone, InStation
  <2>2. CASE list[turn] # Station
    <3>1. Station \notin isCalc
      BY <1>4, <2>2 DEF StationDone, InStation, Asked
    <3>. QED  BY <1>2, <3>1 DEF StationDone
  <2>. QED  BY <2>1, <2>2
<1>8. CycleInv'
  BY <1>1, <1>2, <1>5, <1>6, <1>7 DEF CycleInv, InStation
<1>9. cur \notin Done /\ Done' = Done \cup {cur}
  BY <1>1, <1>2, <1>3, <1>6 DEF Done
<1>. QED  BY <1>4, <1>5, <1>7, <1>8, <1>9

\* One total of the stream grows with what is due to that of the station, and by e.
Growth(n, D, x, r, r1, i, i1, base, e) ==
  /\ n \in Nat \ {0} /\ D \in SUBSET Streams /\ x \in Streams /\ x \notin D /\ base \in Int /\ e \in Int
  /\ \A s \in Streams : r[s] \in Int /\ r1[s] \in Int /\ i[s] \in Int /\ i1[s] \in Int
  /\ \A s \in Streams \ {x} : r1[s] = r[s] /\ i1[s] = i[s]
  /\ r1[x] = (r[x] + i1[x] + e) % n
  /\ SumFunctionOnSet(r, Streams) % n = (base + SumFunctionOnSet(i, D)) % n

LEMMA BalanceGrows ==
  ASSUME NEW n, NEW D, NEW x, NEW r, NEW r1, NEW i, NEW i1, NEW base, NEW e,
         Growth(n, D, x, r, r1, i, i1, base, e)
  PROVE  SumFunctionOnSet(r1, Streams) % n = ((base + e) + SumFunctionOnSet(i1, D \cup {x})) % n
<1>9. /\ n \in Nat \ {0} /\ D \in SUBSET Streams /\ x \in Streams /\ x \notin D /\ base \in Int /\ e \in Int
      /\ \A s \in Streams : r[s] \in Int /\ r1[s] \in Int /\ i[s] \in Int /\ i1[s] \in Int
      /\ \A s \in Streams \ {x} : r1[s] = r[s] /\ i1[s] = i[s]
      /\ r1[x] = (r[x] + i1[x] + e) % n
      /\ SumFunctionOnSet(r, Streams) % n = (base + SumFunctionOnSet(i, D)) % n
  BY DEF Growth
<1>. DEFINE R == SumFunctionOnSet(r, Streams)
            R1 == SumFunctionOnSet(r1, Streams)
            I == SumFunctionOnSet(i, D)
            I1 == SumFunctionOnSet(i1, D \cup {x})
<1>0. R \in Int /\ I \in Int /\ R1 \in Int /\ I1 \in Int
  BY <1>9, Sizes, SumInt
<1>1. R1 = R - r[x] + r1[x]
  <2>1. /\ \A y \in Streams : r[y] \in Int /\ r1[y] \in Int
        /\ \A y \in Streams \ {x} : r1[y] = r[y]
    BY <1>9
  <2>2. IsFiniteSet(Streams) /\ x \in Streams
    BY <1>9, Sizes
  <2>. HIDE DEF I, I1
  <2>3. SumFunctionOnSet(r1, Streams) = SumFunctionOnSet(r, Streams) - r[x] + r1[x]
    BY <2>1, <2>2, SumChange, SMTT(60)
  <2>. QED  BY <2>3
<1>2. I1 = i1[x] + I
  <2>1. IsFiniteSet(D \cup {x}) /\ (D \cup {x}) \ {x} = D
    BY <1>9, Sizes, FS_Subset
  <2>2. I1 = i1[x] + SumFunctionOnSet(i1, (D \cup {x}) \ {x})
    BY <1>9, <2>1, Sizes, SumTake
  <2>3. SumFunctionOnSet(i1, D) = I
    <3>1. IsFiniteSet(D) /\ D \in SUBSET D
      BY <1>9, Sizes, FS_Subset
    <3>. QED  BY <1>9, <3>1, SumSame
  <2>. QED  BY <2>1, <2>2, <2>3
<1>. HIDE DEF R, R1, I, I1
<1>3. R1 % n = (R + (i1[x] + e)) % n
  <2>. DEFINE a == r[x] + i1[x] + e
              b == R - r[x]
  <2>1. a \in Int /\ b \in Int /\ r1[x] = a % n /\ r1[x] \in Int
    BY <1>0, <1>9
  <2>2. a + b = R + (i1[x] + e) /\ R1 = r1[x] + b
    BY <1>0, <1>1, <1>9, <2>1
  <2>. HIDE DEF a, b
  <2>3. ((a % n) + b) % n = (a + b) % n
    BY <1>9, <2>1, RemainderPlus
  <2>. QED  BY <2>1, <2>2, <2>3
<1>4. (R + (i1[x] + e)) % n = ((base + I) + (i1[x] + e)) % n
  <2>. DEFINE y == base + I
              z == i1[x] + e
  <2>1. y \in Int /\ z \in Int /\ R % n = y % n
    BY <1>0, <1>9 DEF R, I
  <2>. HIDE DEF y, z
  <2>2. (R + z) % n = (y + z) % n
    <3>1. ((R % n) + z) % n = (R + z) % n
      BY <1>0, <1>9, <2>1, RemainderPlus
    <3>2. ((y % n) + z) % n = (y + z) % n
      BY <1>9, <2>1, RemainderPlus
    <3>. QED  BY <2>1, <3>1, <3>2
  <2>. QED  BY <2>2 DEF y, z
<1>5. (base + I) + (i1[x] + e) = (base + e) + I1
  BY <1>0, <1>2, <1>9
<1>. QED  BY <1>3, <1>4, <1>5 DEF R1, I1

\* The values whose sums the balance is about.
LEMMA Values ==
  ASSUME TypeOK
  PROVE  /\ \A s \in Streams : Count(raw)[s] = raw[s].count /\ Mass(raw)[s] = raw[s].mass
         /\ \A s \in Streams : Count(inc)[s] = inc[s].count /\ Mass(inc)[s] = inc[s].mass
         /\ \A o \in Objects : raw[o].count \in Udint /\ raw[o].mass \in 0..(Limit - 1)
                             /\ inc[o].count \in Udint /\ inc[o].mass \in Nat
         /\ \A o \in Objects : raw[o].count \in Int /\ raw[o].mass \in Int
                             /\ inc[o].count \in Int /\ inc[o].mass \in Int
<1>1. \A o \in Objects : raw[o].count \in Udint /\ raw[o].mass \in 0..(Limit - 1)
                       /\ inc[o].count \in Udint /\ inc[o].mass \in Nat
  BY DEF TypeOK, Total, Increment
<1>3. \A o \in Objects : raw[o].count \in Int /\ raw[o].mass \in Int
                      /\ inc[o].count \in Int /\ inc[o].mass \in Int
  BY <1>1, Sizes
<1>4. /\ \A s \in Streams : Count(raw)[s] = raw[s].count /\ Mass(raw)[s] = raw[s].mass
      /\ \A s \in Streams : Count(inc)[s] = inc[s].count /\ Mass(inc)[s] = inc[s].mass
  BY DEF Count, Mass
<1>. QED  BY <1>1, <1>3, <1>4

LEMMA MeteredKeeps ==
  ASSUME IInv, NEW c \in [init : BOOLEAN, prev : Udint, impulse : Udint], Asked, Metered(cur, c),
         UNCHANGED <<module, settings, isCalc, live, list, apart>>,
         fresh' \subseteq Streams, repeats' \in Nat
  PROVE  IInv'
<1>1. TypeOK /\ CycleInv /\ ResetApart /\ SmallInc /\ (Whole => Balance)
  BY DEF IInv
<1>2. /\ cur \in Streams /\ counter' = [counter EXCEPT ![cur] = c] /\ reset' = reset \ {cur}
      /\ counter' \in [Streams -> [init : BOOLEAN, prev : Udint, impulse : Udint]]
      /\ inc' \in [Objects -> Increment] /\ raw' \in [Objects -> Total]
      /\ \A o \in Objects \ {cur} : inc'[o] = inc[o] /\ raw'[o] = raw[o]
      /\ inc'[cur].mass \in 0..Most /\ (cur \in out => inc'[cur] = Zero)
      /\ raw'[cur].count = (Base(cur).count + inc'[cur].count) % Word
      /\ Rounded(cur, -1)
      /\ cur' = Station /\ count' = 0
  BY MeteredStream
<1>3. /\ pc' \in {"list", "station"} /\ turn' \in 1..(N + 1) /\ (pc' = "station" => turn' <= N)
      /\ CycleInv' /\ ~StationDone /\ ~StationDone'
      /\ cur \notin Done /\ Done' = Done \cup {cur}
  BY MeteredPlace
<1>0. Drifts' /\ drift' \in Int /\ rounded' \in Nat
  BY <1>2, DriftsOn
<1>4. TypeOK'
  BY <1>0, <1>1, <1>2, <1>3, Sizes DEF TypeOK, module, settings, Objects
<1>5. ResetApart'
  BY <1>1, <1>2 DEF ResetApart
<1>6. SmallInc'
  <2>1. \A s \in Streams : inc'[s].mass \in 0..Most
    BY <1>1, <1>2 DEF SmallInc, Objects
  <2>2. \A s \in (Done \cup {cur}) \cap out : inc'[s] = Zero
    BY <1>1, <1>2 DEF SmallInc, Objects, Done
  <2>. QED  BY <1>3, <2>1, <2>2 DEF SmallInc, settings
<1>7. ASSUME Whole' PROVE Balance'
  <2>1. Whole /\ reset = {}
    <3>1. live = "RUNNING" /\ ~apart
      BY <1>3, <1>7 DEF Whole
    <3>. QED  BY <1>1, <3>1 DEF Whole, ResetApart
  <2>2. Balance /\ Base(cur) = raw[cur]
    BY <1>1, <2>1 DEF Base
  <2>3. Station # cur /\ Station \in Objects /\ Streams \subseteq Objects /\ Done \in SUBSET Streams
    BY <1>2, Sizes DEF Objects, Done
  <2>4. raw'[Station] = raw[Station]
    BY <1>2, <2>3
  <2>5. /\ \A s \in Streams : Count(raw)[s] = raw[s].count /\ Mass(raw)[s] = raw[s].mass
        /\ \A s \in Streams : Count(inc)[s] = inc[s].count /\ Mass(inc)[s] = inc[s].mass
        /\ \A o \in Objects : raw[o].count \in Int /\ raw[o].mass \in Int
                            /\ inc[o].count \in Int /\ inc[o].mass \in Int
    BY <1>1, Values
  <2>6. /\ \A s \in Streams : Count(raw)'[s] = raw'[s].count /\ Mass(raw)'[s] = raw'[s].mass
        /\ \A s \in Streams : Count(inc)'[s] = inc'[s].count /\ Mass(inc)'[s] = inc'[s].mass
        /\ \A o \in Objects : raw'[o].count \in Int /\ raw'[o].mass \in Int
                            /\ inc'[o].count \in Int /\ inc'[o].mass \in Int
    <3>1. \A o \in Objects : raw'[o] \in Total /\ inc'[o] \in Increment
      BY <1>2
    <3>3. \A o \in Objects : raw'[o].count \in Int /\ raw'[o].mass \in Int
                          /\ inc'[o].count \in Int /\ inc'[o].mass \in Int
      BY <3>1, Sizes DEF Total, Increment
    <3>4. /\ \A s \in Streams : Count(raw)'[s] = raw'[s].count /\ Mass(raw)'[s] = raw'[s].mass
          /\ \A s \in Streams : Count(inc)'[s] = inc'[s].count /\ Mass(inc)'[s] = inc'[s].mass
      BY DEF Count, Mass
    <3>. QED  BY <3>3, <3>4
  <2>7. SumFunctionOnSet(Count(raw)', Streams) % Word
          = (raw[Station].count + SumFunctionOnSet(Count(inc)', Done \cup {cur})) % Word
    <3>1. SumFunctionOnSet(Count(raw), Streams) % Word
            = (raw[Station].count + SumFunctionOnSet(Count(inc), Done)) % Word
      BY <1>3, <2>2 DEF Balance, Balanced
    <3>2. \A s \in Streams : /\ Count(raw)[s] \in Int /\ Count(raw)'[s] \in Int
                            /\ Count(inc)[s] \in Int /\ Count(inc)'[s] \in Int
      BY <2>3, <2>5, <2>6
    <3>3. \A s \in Streams \ {cur} : Count(raw)'[s] = Count(raw)[s] /\ Count(inc)'[s] = Count(inc)[s]
      BY <1>2, <2>3, <2>5, <2>6
    <3>4. Count(raw)'[cur] = (Count(raw)[cur] + Count(inc)'[cur] + 0) % Word
      <4>1. Count(raw)'[cur] = (Count(raw)[cur] + Count(inc)'[cur]) % Word
        BY <1>2, <2>2, <2>5, <2>6
      <4>2. Count(raw)[cur] + Count(inc)'[cur] + 0 = Count(raw)[cur] + Count(inc)'[cur]
        BY <1>2, <3>2
      <4>. QED  BY <4>1, <4>2
    <3>5. raw[Station].count \in Int /\ Word \in Nat \ {0}
      BY <2>3, <2>5, Sizes
    <3>. DEFINE r == Count(raw)
                r1 == Count(raw)'
                i == Count(inc)
                i1 == Count(inc)'
                x == cur
                D == Done
                b == raw[Station].count
    <3>6. cur \in Streams /\ Done \in SUBSET Streams /\ cur \notin Done
      BY <1>2, <1>3, <2>3
    <3>7. Growth(Word, D, x, r, r1, i, i1, b, 0)
      BY <3>1, <3>2, <3>3, <3>4, <3>5, <3>6 DEF Growth
    <3>8. SumFunctionOnSet(r1, Streams) % Word = ((b + 0) + SumFunctionOnSet(i1, D \cup {x})) % Word
      <4>. HIDE DEF r, r1, i, i1, x, D, b
      <4>. QED  BY <3>7, BalanceGrows
    <3>9. b + 0 = b
      BY <3>5
    <3>. QED  BY <3>8, <3>9
  <2>8. SumFunctionOnSet(Mass(raw)', Streams) % Limit
          = ((raw[Station].mass - drift') + SumFunctionOnSet(Mass(inc)', Done \cup {cur})) % Limit
    <3>1. SumFunctionOnSet(Mass(raw), Streams) % Limit
            = ((raw[Station].mass - drift) + SumFunctionOnSet(Mass(inc), Done)) % Limit
      BY <1>3, <2>2 DEF Balance, Balanced
    <3>2. \A s \in Streams : /\ Mass(raw)[s] \in Int /\ Mass(raw)'[s] \in Int
                            /\ Mass(inc)[s] \in Int /\ Mass(inc)'[s] \in Int
      BY <2>3, <2>5, <2>6
    <3>3. \A s \in Streams \ {cur} : Mass(raw)'[s] = Mass(raw)[s] /\ Mass(inc)'[s] = Mass(inc)[s]
      BY <1>2, <2>3, <2>5, <2>6
    <3>4. PICK e \in Int : /\ Mass(raw)'[cur] = (Mass(raw)[cur] + Mass(inc)'[cur] + e) % Limit
                           /\ drift' = drift - e
      BY <1>2, <2>2, <2>5, <2>6 DEF Rounded
    <3>5. raw[Station].mass - drift \in Int /\ Limit \in Nat \ {0}
      BY <1>1, <2>3, <2>5, Sizes DEF TypeOK
    <3>. DEFINE r == Mass(raw)
                r1 == Mass(raw)'
                i == Mass(inc)
                i1 == Mass(inc)'
                x == cur
                D == Done
                b == raw[Station].mass - drift
    <3>6. cur \in Streams /\ Done \in SUBSET Streams /\ cur \notin Done
      BY <1>2, <1>3, <2>3
    <3>7. Growth(Limit, D, x, r, r1, i, i1, b, e)
      BY <3>1, <3>2, <3>3, <3>4, <3>5, <3>6 DEF Growth
    <3>8. SumFunctionOnSet(r1, Streams) % Limit = ((b + e) + SumFunctionOnSet(i1, D \cup {x})) % Limit
      <4>. HIDE DEF r, r1, i, i1, x, D, b
      <4>. QED  BY <3>7, BalanceGrows
    <3>9. b + e = raw[Station].mass - drift'
      BY <1>1, <2>3, <2>5, <3>4 DEF TypeOK
    <3>. QED  BY <3>8, <3>9
  <2>. QED  BY <1>3, <2>4, <2>7, <2>8 DEF Balance, Balanced
<1>. QED  BY <1>0, <1>3, <1>4, <1>5, <1>6, <1>7 DEF IInv

\* The station is calculated: its increment is what the streams have added.
LEMMA StationSum ==
  ASSUME IInv, pc = "station", Streams \subseteq isCalc
  PROVE  /\ Done = Streams
         /\ Sum([s \in Streams |-> inc[s].count]) = SumFunctionOnSet(Count(inc), Done)
         /\ Sum([s \in Streams |-> inc[s].mass]) = SumFunctionOnSet(Mass(inc), Done)
         /\ SumFunctionOnSet(Count(inc), Done) \in Int
         /\ SumFunctionOnSet(Mass(inc), Done) \in 0..(Limit - Grain)
<1>1. TypeOK /\ SmallInc
  BY DEF IInv
<1>2. Done = Streams
  BY DEF Done, Asked
<1>3. \A s \in Streams : Count(inc)[s] \in Int /\ Mass(inc)[s] \in Int /\ Mass(inc)[s] \in 0..Most
  <2>1. \A s \in Streams : inc[s].count \in Int /\ inc[s].mass \in Int
    BY <1>1, Values DEF Objects
  <2>2. \A s \in Streams : inc[s].mass \in 0..Most
    BY <1>1 DEF SmallInc
  <2>. QED  BY <2>1, <2>2 DEF Count, Mass
<1>4. \A s \in Streams \ (Streams \ out) : Count(inc)[s] = 0 /\ Mass(inc)[s] = 0
  BY <1>1, <1>2 DEF SmallInc, Count, Mass, Zero
<1>5. Streams \ out \in SUBSET Streams
  OBVIOUS
<1>6. /\ SumFunctionOnSet(Count(inc), Streams) = SumFunctionOnSet(Count(inc), Streams \ out)
      /\ SumFunctionOnSet(Mass(inc), Streams) = SumFunctionOnSet(Mass(inc), Streams \ out)
  <2>1. SumFunctionOnSet(Count(inc), Streams) = SumFunctionOnSet(Count(inc), Streams \ out)
    BY <1>3, <1>4, <1>5, Sizes, SumZeros
  <2>2. SumFunctionOnSet(Mass(inc), Streams) = SumFunctionOnSet(Mass(inc), Streams \ out)
    BY <1>3, <1>4, <1>5, Sizes, SumZeros
  <2>. QED  BY <2>1, <2>2
<1>7. SumFunctionOnSet(Count(inc), Streams) \in Int
  BY <1>3, Sizes, SumInt
<1>8. SumFunctionOnSet(Mass(inc), Streams) \in 0..(Limit - Grain)
  <2>. DEFINE g == Cardinality(Streams) * Most
              h == Most * Cardinality(Streams)
              m == SumFunctionOnSet(Mass(inc), Streams)
  <2>1. Most \in Nat /\ Streams \in SUBSET Streams
    BY Sizes
  <2>2. m \in 0..h
    BY <1>3, <2>1, Sizes, SumBound
  <2>3. h = g /\ g <= Limit - Grain /\ g \in Nat
    BY Constants, Sizes
  <2>. HIDE DEF g, h, m
  <2>4. m \in 0..(Limit - Grain)
    BY <2>2, <2>3, Sizes
  <2>. QED  BY <2>4 DEF m
<1>. QED  BY <1>2, <1>6, <1>7, <1>8 DEF Sum, Count, Mass

LEMMA SumsStreamsKeeps == ASSUME IInv, SumsStreams PROVE IInv'
<1>. DEFINE C == SumFunctionOnSet(Count(inc), Streams)
            M == SumFunctionOnSet(Mass(inc), Streams)
            i == [count |-> C % Word, mass |-> M]
<1>1. TypeOK /\ CycleInv /\ ResetApart /\ SmallInc /\ (Whole => Balance)
  BY DEF IInv
<1>2. /\ pc = "station" /\ Streams \subseteq isCalc /\ Done = Streams
      /\ Calculates(Station, i)
      /\ pc' = "list" /\ turn' = turn + 1
      /\ UNCHANGED <<module, settings, isCalc, cur, count, counter, fresh, repeats, live, list, apart>>
  BY StationSum DEF SumsStreams
<1>3. C \in Int /\ M \in 0..(Limit - Grain)
  BY <1>2, StationSum
<1>. HIDE DEF C, M
<1>4. i.count = C % Word /\ i.mass = M /\ i.count \in Udint /\ i \in Increment
  <2>1. C % Word \in Udint /\ M \in Nat
    BY <1>3, Sizes, RemainderType
  <2>. QED  BY <2>1 DEF Increment
<1>5. Station \in Objects
  BY DEF Objects
<1>. HIDE DEF i
<1>6. /\ inc' \in [Objects -> Increment] /\ raw' \in [Objects -> Total] /\ reset' = reset \ {Station}
      /\ \A p \in Objects \ {Station} : inc'[p] = inc[p] /\ raw'[p] = raw[p]
      /\ inc'[Station] = i
      /\ raw'[Station].count = (Base(Station).count + i.count) % Word
      /\ Rounded(Station, 1)
  BY <1>2, <1>3, <1>4, <1>5, CalculatesType
<1>7. \A s \in Streams : inc'[s] = inc[s] /\ raw'[s] = raw[s]
  BY <1>6, Sizes DEF Objects
<1>0. Drifts' /\ drift' \in Int /\ rounded' \in Nat
  BY <1>6, DriftsOn
<1>8. turn \in 1..N /\ N \in Nat /\ list[turn] = Station /\ Station \in isCalc
  BY <1>1, <1>2, Constants DEF TypeOK, CycleInv, InStation
<1>9. TypeOK'
  BY <1>0, <1>1, <1>2, <1>6, <1>8 DEF TypeOK, module, settings
<1>10. ~Asked' /\ Cycling' /\ StationDone' /\ Done' = Done
  BY <1>2, <1>8 DEF Asked, Cycling, StationDone, InStation, Done
<1>11. CycleInv'
  <2>1. \A j \in 1..(turn' - 1) : j \in 1..(turn - 1) \/ j = turn
    BY <1>2, <1>8
  <2>2. \A j \in 1..(turn - 1) : list[j] \in isCalc
    BY <1>1, <1>2 DEF CycleInv, Cycling
  <2>3. \A j \in 1..(turn' - 1) : list[j] \in isCalc
    BY <1>8, <2>1, <2>2
  <2>. QED  BY <1>1, <1>2, <1>10, <2>3 DEF CycleInv, InStation
<1>12. ResetApart' /\ SmallInc'
  BY <1>1, <1>2, <1>6, <1>7, <1>10 DEF ResetApart, SmallInc, settings
<1>13. ASSUME Whole' PROVE Balance'
  <2>1. Whole /\ reset = {}
    BY <1>1, <1>2, <1>13 DEF Whole, ResetApart
  <2>2. ~StationDone
    BY <1>2 DEF StationDone, InStation
  <2>3. /\ SumFunctionOnSet(Count(raw), Streams) % Word = (raw[Station].count + C) % Word
        /\ SumFunctionOnSet(Mass(raw), Streams) % Limit = ((raw[Station].mass - drift) + M) % Limit
    BY <1>1, <1>2, <2>1, <2>2 DEF Balance, Balanced, C, M
  <2>4. Base(Station) = raw[Station] /\ raw[Station].count \in Int /\ raw[Station].mass \in Int /\ drift \in Int
    BY <1>1, <1>5, <2>1, Values DEF Base, TypeOK
  <2>5. Count(raw)' = Count(raw) /\ Mass(raw)' = Mass(raw)
    BY <1>7 DEF Count, Mass
  <2>6. raw'[Station].count = (raw[Station].count + C) % Word
    <3>. DEFINE b == raw[Station].count
    <3>1. b \in Int
      BY <2>4
    <3>2. raw'[Station].count = (b + (C % Word)) % Word
      BY <1>4, <1>6, <2>4
    <3>. HIDE DEF b
    <3>3. b + (C % Word) = (C % Word) + b /\ b + C = C + b
      BY <1>3, <3>1, Sizes, RemainderType
    <3>4. ((C % Word) + b) % Word = (C + b) % Word
      BY <1>3, <3>1, Sizes, RemainderPlus
    <3>5. raw'[Station].count = (b + C) % Word
      BY <3>2, <3>3, <3>4
    <3>. QED  BY <3>5 DEF b
  <2>7. ((raw'[Station].mass - drift') + 0) % Limit = ((raw[Station].mass - drift) + M) % Limit
    <3>. DEFINE b == raw[Station].mass
    <3>1. b \in Int /\ M \in Int /\ drift \in Int /\ Limit \in Nat \ {0}
      BY <1>3, <2>4, Sizes
    <3>2. PICK e \in Int : raw'[Station].mass = (b + M + e) % Limit /\ drift' = drift + e
      BY <1>4, <1>6, <2>4 DEF Rounded
    <3>. HIDE DEF b
    <3>. DEFINE x == b + M + e
                y == 0 - drift'
    <3>3. x \in Int /\ y \in Int /\ x + y = (b - drift) + M
      BY <3>1, <3>2
    <3>4. raw'[Station].mass \in Int
      BY <1>5, <1>6, Sizes DEF Total
    <3>5. (raw'[Station].mass - drift') + 0 = raw'[Station].mass + y /\ raw'[Station].mass = x % Limit
      BY <1>0, <3>2, <3>4
    <3>. HIDE DEF x, y
    <3>6. ((x % Limit) + y) % Limit = (x + y) % Limit
      BY <3>1, <3>3, RemainderPlus
    <3>. QED  BY <3>3, <3>5, <3>6 DEF b
  <2>8. raw'[Station].count \in Udint
    BY <1>5, <1>6 DEF Total
  <2>9. raw'[Station].count + 0 = raw'[Station].count /\ raw'[Station].count % Word = raw'[Station].count
    <3>. DEFINE c == raw'[Station].count
    <3>1. c \in 0..(Word - 1)
      BY <2>8, Sizes
    <3>. HIDE DEF c
    <3>2. c + 0 = c /\ c % Word = c
      BY <3>1, Sizes, RemainderSmall
    <3>. QED  BY <3>2 DEF c
  <2>. QED  BY <1>10, <2>3, <2>5, <2>6, <2>7, <2>9 DEF Balance, Balanced
<1>. QED  BY <1>0, <1>9, <1>11, <1>12, <1>13 DEF IInv

-----------------------------------------------------------------------------
(* The other steps.                                                        *)

Counters == [Streams -> [init : BOOLEAN, prev : Udint, impulse : Udint]]

\* A step that leaves the totals alone, and with them what is due to the station,
\* leaves the balance as it was.
LEMMA SameBalance ==
  ASSUME UNCHANGED <<inc, raw, apart, drift>>, Done' = Done, (StationDone' <=> StationDone),
         Whole => Balance, Whole' => Whole
  PROVE  Whole' => Balance'
BY DEF Balance, Balanced, Count, Mass

\* The same for a step outside the cycle.
LEMMA OutsideKeeps ==
  ASSUME IInv, TypeOK', UNCHANGED <<pc, turn, isCalc, cur, list, inc, raw, out, reset, apart, drift, rounded>>, Whole' => Whole
  PROVE  IInv'
<1>1. Done' = Done /\ (StationDone' <=> StationDone) /\ (Asked' <=> Asked) /\ (InStation' <=> InStation)
  BY DEF Done, StationDone, InStation, Asked
<1>2. CycleInv' /\ ResetApart' /\ SmallInc' /\ Drifts'
  BY <1>1 DEF IInv, CycleInv, ResetApart, SmallInc, Drifts, Cycling
<1>3. Whole' => Balance'
  BY <1>1, SameBalance DEF IInv
<1>. QED  BY <1>2, <1>3 DEF IInv

LEMMA PollKeeps == ASSUME IInv, Poll PROVE IInv'
<1>1. PICK n \in [Streams -> 0..left] :
        /\ SumFunction(n) <= left /\ left' = left - SumFunction(n)
        /\ chan' = [s \in Streams |-> (chan[s] + n[s]) % Word]
  BY DEF Poll
<1>2. TypeOK /\ left \in Nat
  BY DEF IInv, TypeOK
<1>3. left' \in Nat
  <2>1. DOMAIN n = Streams /\ \A s \in Streams : n[s] \in Int
    BY <1>2
  <2>2. SumFunction(n) \in Int
    BY <2>1, Sizes, SumInt DEF SumFunction
  <2>. QED  BY <1>1, <1>2, <2>2
<1>4. chan' \in [Streams -> Udint]
  <2>1. \A s \in Streams : (chan[s] + n[s]) % Word \in Udint
    <3>. SUFFICES ASSUME NEW s \in Streams PROVE (chan[s] + n[s]) % Word \in Udint
      OBVIOUS
    <3>1. chan[s] + n[s] \in Int
      BY <1>2, Sizes DEF TypeOK
    <3>. QED  BY <3>1, Sizes, RemainderType
  <2>. QED  BY <1>1, <2>1
<1>5. TypeOK'
  BY <1>2, <1>3, <1>4 DEF Poll, TypeOK, settings, thread
<1>. QED  BY <1>5, OutsideKeeps DEF Poll, settings, thread, Whole

LEMMA PollFailsKeeps == ASSUME IInv, PollFails PROVE IInv'
<1>1. TypeOK'
  BY DEF IInv, PollFails, TypeOK, settings, thread, totals
<1>. QED  BY <1>1, OutsideKeeps DEF PollFails, settings, thread, totals, Whole

LEMMA HaltKeeps == ASSUME IInv, Halt PROVE IInv'
<1>1. TypeOK'
  BY DEF IInv, Halt, TypeOK, module, settings, thread, totals
<1>. QED  BY <1>1, OutsideKeeps DEF Halt, settings, thread, totals, Whole

LEMMA OperatorKeeps == ASSUME IInv, Operator PROVE IInv'
<1>1. /\ pc = "idle" /\ UNCHANGED <<module, thread, live, list, counter, fresh, inc, raw, repeats, drift, rounded>>
      /\ sets > 0 /\ sets' = sets - 1
  BY DEF Operator, SetOff, SetMaintenance, SetFactor, RequestReset, Written
<1>2. /\ off' \subseteq Streams /\ out' \subseteq Streams /\ noKF' \subseteq Streams
      /\ reset' \subseteq Objects /\ apart' \in BOOLEAN
      /\ (~apart' => ~apart /\ reset' = reset)
  BY DEF Operator, SetOff, SetMaintenance, SetFactor, RequestReset, Toggled, IInv, TypeOK
<1>3. TypeOK'
  BY <1>1, <1>2 DEF IInv, TypeOK, module, thread
<1>4. /\ isCalc = {} /\ isCalc' = {} /\ pc' = "idle" /\ Done = {} /\ Done' = {}
      /\ ~StationDone /\ ~StationDone' /\ ~Asked' /\ ~InStation'
  BY <1>1 DEF IInv, CycleInv, Cycling, thread, Done, StationDone, Asked, InStation
<1>5. CycleInv' /\ ResetApart' /\ SmallInc' /\ Drifts'
  BY <1>1, <1>2, <1>4 DEF IInv, CycleInv, ResetApart, SmallInc, Drifts, Cycling
<1>6. ASSUME Whole' PROVE Balance'
  <2>1. Whole /\ apart' = apart
    BY <1>1, <1>2, <1>4, <1>6 DEF Whole, thread, IInv, TypeOK
  <2>. QED  BY <1>1, <1>4, <1>6, <2>1, SameBalance DEF IInv
<1>. QED  BY <1>3, <1>5, <1>6 DEF IInv

LEMMA CycleBeginsKeeps == ASSUME IInv, CycleBegins PROVE IInv'
<1>1. TypeOK'
  BY Constants DEF IInv, CycleBegins, TypeOK, module, settings, totals
<1>2. isCalc = {} /\ isCalc' = {} /\ Done = {} /\ Done' = {} /\ ~StationDone /\ ~StationDone' /\ ~Asked' /\ ~InStation'
  BY DEF IInv, CycleInv, Cycling, CycleBegins, Done, StationDone, Asked, InStation
<1>3. CycleInv' /\ ResetApart' /\ SmallInc' /\ Drifts'
  BY <1>2 DEF IInv, CycleInv, ResetApart, SmallInc, Drifts, Cycling, CycleBegins, settings, totals
<1>4. UNCHANGED <<inc, raw, apart, drift>> /\ (Whole' => Whole)
  BY DEF CycleBegins, Whole, totals
<1>. QED  BY <1>1, <1>2, <1>3, <1>4, SameBalance DEF IInv

LEMMA SaveTotalsKeeps == ASSUME IInv, SaveTotals PROVE IInv'
<1>1. TypeOK'
  BY DEF IInv, SaveTotals, TypeOK, module, settings, totals
<1>2. isCalc = {} /\ isCalc' = {} /\ Done = {} /\ Done' = {} /\ ~StationDone /\ ~StationDone' /\ ~Asked' /\ ~InStation'
  BY DEF IInv, CycleInv, Cycling, SaveTotals, Done, StationDone, Asked, InStation
<1>3. CycleInv' /\ ResetApart' /\ SmallInc' /\ Drifts'
  BY <1>2 DEF IInv, CycleInv, ResetApart, SmallInc, Drifts, Cycling, SaveTotals, settings, totals
<1>4. UNCHANGED <<inc, raw, apart, drift>> /\ (Whole' => Whole)
  BY DEF SaveTotals, Whole, totals
<1>. QED  BY <1>1, <1>2, <1>3, <1>4, SameBalance DEF IInv

\* A cycle that the system has not left goes through the whole list.
LEMMA CycleEndsKeeps == ASSUME IInv, CycleEnds PROVE IInv'
<1>1. TypeOK'
  BY Constants DEF IInv, CycleEnds, TypeOK, module, settings, totals
<1>2. isCalc' = {} /\ Done' = {} /\ ~StationDone' /\ ~Asked' /\ ~InStation' /\ ~Cycling'
  BY DEF CycleEnds, Done, StationDone, Asked, InStation, Cycling
<1>3. CycleInv' /\ ResetApart' /\ SmallInc' /\ Drifts'
  BY <1>2 DEF IInv, CycleInv, ResetApart, SmallInc, Drifts, CycleEnds, settings, totals
<1>4. ASSUME Whole' PROVE Balance'
  <2>1. live = "RUNNING" /\ ~apart /\ turn > N /\ pc = "list"
    BY <1>4 DEF CycleEnds, Whole
  <2>2. turn - 1 >= N /\ N \in Nat /\ turn \in Int
    BY <2>1, Constants DEF IInv, TypeOK
  <2>3. \A j \in 1..N : list[j] \in isCalc
    BY <2>1, <2>2 DEF IInv, CycleInv, Cycling
  <2>4. Station \in isCalc
    BY <2>3, Constants DEF IInv, CycleInv, Objects
  <2>5. StationDone
    BY <2>1, <2>4 DEF StationDone, InStation, Asked
  <2>6. Balance
    BY <2>1 DEF IInv, Whole
  <2>7. UNCHANGED <<inc, raw, drift>>
    BY DEF CycleEnds, totals
  <2>8. \A f : SumFunctionOnSet(f, {}) = 0
    BY SumEmpty
  <2>. QED  BY <1>2, <2>5, <2>6, <2>7, <2>8 DEF Balance, Balanced, Count, Mass
<1>. QED  BY <1>1, <1>3, <1>4 DEF IInv

LEMMA NextObjectKeeps == ASSUME IInv, NextObject PROVE IInv'
<1>. DEFINE o == list[turn]
<1>1. /\ pc = "list" /\ turn <= N /\ turn \in 1..(N + 1) /\ N \in Nat /\ o \in Objects
      /\ UNCHANGED <<module, settings, totals, count, live, list, apart>>
      /\ TypeOK /\ CycleInv
  BY Constants DEF IInv, TypeOK, NextObject
<1>2. ~Asked /\ ~InStation /\ Cycling /\ Cycling' /\ Done = Streams \cap isCalc
  BY <1>1 DEF Asked, InStation, Cycling, Done, NextObject, Asks
<1>3. /\ Station \notin Streams /\ TypeOK'
      /\ CycleInv' /\ Done' = Done /\ (StationDone' <=> StationDone)
  <2>1. CASE o \in isCalc /\ pc' = "list" /\ turn' = turn + 1 /\ UNCHANGED <<isCalc, cur>>
    <3>1. TypeOK'
      BY <1>1, <2>1 DEF TypeOK, module, settings, totals
    <3>2. ~Asked' /\ ~InStation' /\ Done' = Done /\ (StationDone' <=> StationDone)
      BY <1>1, <1>2, <2>1 DEF Asked, InStation, Done, StationDone
    <3>3. \A j \in 1..(turn' - 1) : j \in 1..(turn - 1) \/ j = turn
      BY <1>1, <2>1
    <3>4. CycleInv'
      BY <1>1, <1>2, <2>1, <3>2, <3>3 DEF CycleInv
    <3>. QED  BY <3>1, <3>2, <3>4, Sizes
  <2>2. CASE o \in Streams \ isCalc /\ Asks(o) /\ UNCHANGED turn
    <3>1. pc' = "value" /\ cur' = o /\ isCalc' = isCalc \cup {o} /\ turn' = turn /\ o # Station
      BY <2>2, Sizes DEF Asks
    <3>2. TypeOK'
      BY <1>1, <2>2, <3>1 DEF TypeOK, module, settings, totals
    <3>3. Asked' /\ ~InStation' /\ Done' = Done
      BY <1>1, <1>2, <2>2, <3>1 DEF Asked, InStation, Done
    <3>4. ~StationDone /\ ~StationDone'
      BY <1>1, <1>2, <2>2, <3>1, <3>3 DEF CycleInv, StationDone
    <3>5. CycleInv'
      BY <1>1, <1>2, <3>1, <3>3, <3>4 DEF CycleInv
    <3>. QED  BY <3>2, <3>3, <3>4, <3>5, Sizes
  <2>3. CASE o \in {Station} \ isCalc /\ pc' = "station" /\ isCalc' = isCalc \cup {o} /\ UNCHANGED <<turn, cur>>
    <3>1. TypeOK'
      BY <1>1, <2>3 DEF TypeOK, module, settings, totals
    <3>2. ~Asked' /\ InStation' /\ Done' = Done /\ ~StationDone /\ ~StationDone'
      BY <1>1, <1>2, <2>3, Sizes DEF Asked, InStation, Done, StationDone
    <3>3. CycleInv'
      BY <1>1, <1>2, <2>3, <3>2 DEF CycleInv
    <3>. QED  BY <3>1, <3>2, <3>3, Sizes
  <2>. QED  BY <2>1, <2>2, <2>3 DEF NextObject
<1>4. ResetApart' /\ SmallInc' /\ Drifts'
  BY <1>1, <1>3 DEF IInv, ResetApart, SmallInc, Drifts, settings, totals
<1>5. UNCHANGED <<inc, raw, apart, drift>> /\ (Whole' => Whole)
  BY <1>1, <1>2 DEF Whole, totals, Cycling
<1>6. Whole' => Balance'
  BY <1>3, <1>5, SameBalance DEF IInv
<1>. QED  BY <1>3, <1>4, <1>6 DEF IInv

LEMMA NextStreamKeeps == ASSUME IInv, NextStream PROVE IInv'
<1>1. PICK i \in 1..N : list[i] \in Streams \ isCalc /\ Asks(list[i])
  BY DEF NextStream
<1>. DEFINE o == list[i]
<1>2. /\ pc = "station" /\ pc' = "value" /\ cur' = o /\ isCalc' = isCalc \cup {o} /\ o \in Streams \ isCalc
      /\ UNCHANGED <<module, settings, totals, turn, count, live, list, apart>>
      /\ TypeOK /\ CycleInv /\ o # Station /\ o \in Objects /\ turn <= N
  BY <1>1, Sizes DEF IInv, TypeOK, NextStream, Asks, Objects
<1>. HIDE DEF o
<1>3. list[turn] = Station /\ Station \in isCalc /\ InStation /\ InStation' /\ ~Asked /\ Asked' /\ Done' = Done
      /\ ~StationDone /\ ~StationDone' /\ Cycling /\ Cycling'
  BY <1>2 DEF CycleInv, InStation, Asked, Done, StationDone, Cycling
<1>4. TypeOK'
  BY <1>2 DEF TypeOK, module, settings, totals
<1>5. CycleInv'
  BY <1>2, <1>3 DEF CycleInv
<1>6. ResetApart' /\ SmallInc' /\ Drifts'
  BY <1>2, <1>3 DEF IInv, ResetApart, SmallInc, Drifts, settings, totals
<1>7. UNCHANGED <<inc, raw, apart, drift>> /\ (Whole' => Whole)
  BY <1>2 DEF Whole, totals
<1>8. Whole' => Balance'
  BY <1>3, <1>7, SameBalance DEF IInv
<1>. QED  BY <1>4, <1>5, <1>6, <1>8 DEF IInv

LEMMA getValueKeeps == ASSUME IInv, getValue PROVE IInv'
<1>1. /\ TypeOK /\ CycleInv /\ Asked /\ pc = "value" /\ cur \in Streams /\ counter[cur] \in [init : BOOLEAN, prev : Udint, impulse : Udint]
      /\ UNCHANGED <<module, settings, isCalc, fresh, repeats, live, list, apart>>
      /\ fresh \subseteq Streams /\ repeats \in Nat
  BY DEF getValue, IInv, TypeOK, Asked
<1>2. ASSUME NEW c \in [init : BOOLEAN, prev : Udint, impulse : Udint], Metered(cur, c) PROVE IInv'
  BY <1>1, <1>2, MeteredKeeps
<1>3. [counter[cur] EXCEPT !.impulse = 0, !.init = FALSE] \in [init : BOOLEAN, prev : Udint, impulse : Udint]
      /\ clear(cur) \in [init : BOOLEAN, prev : Udint, impulse : Udint]
  BY <1>1, Sizes DEF clear
<1>4. CASE count' = chan[cur] /\ pc' = "pulling" /\ UNCHANGED <<turn, cur, counter, inc, raw, reset, drift, rounded>>
  <2>1. TypeOK'
    BY <1>1, <1>4 DEF TypeOK, module, settings
  <2>2. Asked' /\ Done' = Done /\ (InStation' <=> InStation) /\ ~StationDone /\ ~StationDone' /\ Cycling /\ Cycling'
    BY <1>1, <1>4 DEF Asked, Done, InStation, StationDone, Cycling, CycleInv
  <2>3. CycleInv'
    BY <1>1, <1>4, <2>2 DEF CycleInv
  <2>4. ResetApart' /\ SmallInc' /\ Drifts'
    BY <1>1, <1>4, <2>2 DEF IInv, ResetApart, SmallInc, Drifts, settings
  <2>5. UNCHANGED <<inc, raw, apart, drift>> /\ (Whole' => Whole)
    BY <1>1, <1>4 DEF Whole
  <2>6. Whole' => Balance'
    BY <2>2, <2>5, SameBalance DEF IInv
  <2>. QED  BY <2>1, <2>3, <2>4, <2>6 DEF IInv
<1>. QED  BY <1>2, <1>3, <1>4 DEF getValue

\* What getPulling leaves of a counter.
LEMMA DifferenceType ==
  ASSUME count \in Udint, NEW s, counter[s] \in [init : BOOLEAN, prev : Udint, impulse : Udint]
  PROVE  Difference(s) \in [init : BOOLEAN, prev : Udint, impulse : Udint]
<1>. DEFINE d == (count - counter[s].prev) % Word
<1>1. count - counter[s].prev \in Int
  BY Sizes
<1>2. d \in Udint
  BY <1>1, Sizes, RemainderType
<1>. HIDE DEF d
<1>. QED  BY <1>2 DEF Difference, d

LEMMA getPullingRecord ==
  ASSUME IInv, getPulling
  PROVE  \E c \in [init : BOOLEAN, prev : Udint, impulse : Udint] : Metered(cur, c)
<1>1. cur \in Streams /\ counter[cur] \in [init : BOOLEAN, prev : Udint, impulse : Udint] /\ count \in Udint
  BY DEF getPulling, IInv, TypeOK
<1>2. [init |-> TRUE, prev |-> count, impulse |-> 0] \in [init : BOOLEAN, prev : Udint, impulse : Udint]
  BY <1>1, Sizes
<1>3. Difference(cur) \in [init : BOOLEAN, prev : Udint, impulse : Udint]
  BY <1>1, DifferenceType
<1>. QED  BY <1>1, <1>2, <1>3 DEF getPulling

LEMMA getPullingKeeps == ASSUME IInv, getPulling PROVE IInv'
<1>1. /\ TypeOK /\ Asked /\ cur \in Streams /\ counter[cur] \in [init : BOOLEAN, prev : Udint, impulse : Udint]
      /\ UNCHANGED <<module, settings, isCalc, live, list, apart>> /\ count \in Udint
      /\ fresh \subseteq Streams /\ repeats \in Nat
  BY DEF getPulling, IInv, TypeOK, Asked
<1>2. fresh' \subseteq Streams /\ repeats' \in Nat
  BY <1>1 DEF getPulling
<1>3. ASSUME NEW c \in [init : BOOLEAN, prev : Udint, impulse : Udint], Metered(cur, c) PROVE IInv'
  BY <1>1, <1>2, <1>3, MeteredKeeps
<1>. QED  BY <1>3, getPullingRecord

LEMMA StepIInv == IInv /\ [Next]_vars => IInv'
<1>. SUFFICES ASSUME IInv, [Next]_vars PROVE IInv'
  OBVIOUS
<1>1. CASE UNCHANGED vars
  <2>1. TypeOK'
    BY <1>1 DEF IInv, TypeOK, vars, module, settings, thread, totals
  <2>. QED  BY <1>1, <2>1, OutsideKeeps DEF vars, settings, thread, totals, Whole
<1>. QED
  BY <1>1, PollKeeps, PollFailsKeeps, HaltKeeps, OperatorKeeps, CycleBeginsKeeps, NextObjectKeeps,
     NextStreamKeeps, getValueKeeps, getPullingKeeps, SumsStreamsKeeps, CycleEndsKeeps, SaveTotalsKeeps
     DEF Next, DataThread

LEMMA Invariant == Spec => []IInv
BY InitIInv, StepIInv, PTL DEF Spec

\* Every variable keeps its type: no count leaves its width and no total its limit, and
\* the data thread does not leave the list of objects (rDataManager::Proccesing).
THEOREM TypeCorrect == Spec => []TypeOK
<1>1. IInv => TypeOK
  BY DEF IInv
<1>. QED  BY <1>1, Invariant, PTL

\* The totals that saveDataTotals writes agree: the pulses of the station are the sum of
\* those of its streams, and its mass is the sum of theirs but for the errors of the
\* roundings, none above half of the fifth decimal, for any number of streams in any
\* order (rStation::calculate, rStream::calculate, rTotal::calculate,
\* rDataManager::Proccesing).
THEOREM TotalsAgree == Spec => []SavedAgree
<1>1. IInv => SavedAgree
  <2>. SUFFICES ASSUME IInv, pc = "save", ~apart
                PROVE  /\ raw[Station].count = SumFunction([s \in Streams |-> raw[s].count]) % Word
                       /\ raw[Station].mass = (SumFunction([s \in Streams |-> raw[s].mass]) + drift) % Limit
    BY DEF SavedAgree, IInv, Drifts
  <2>1. isCalc = {} /\ Done = {} /\ ~StationDone /\ Balance
    BY DEF IInv, CycleInv, Cycling, Done, StationDone, Whole
  <2>2. raw[Station].count \in 0..(Word - 1) /\ raw[Station].mass \in 0..(Limit - 1)
        /\ Word \in Nat \ {0} /\ Limit \in Nat \ {0}
    BY Values, Sizes DEF IInv, Objects
  <2>3. /\ raw[Station].count + 0 = raw[Station].count
        /\ raw[Station].count % Word = raw[Station].count /\ raw[Station].mass % Limit = raw[Station].mass
    BY <2>2, RemainderSmall
  <2>4. \A f : SumFunctionOnSet(f, {}) = 0
    BY SumEmpty
  <2>5. /\ SumFunction([s \in Streams |-> raw[s].count]) = SumFunctionOnSet(Count(raw), Streams)
        /\ SumFunction([s \in Streams |-> raw[s].mass]) = SumFunctionOnSet(Mass(raw), Streams)
    BY DEF SumFunction, Count, Mass
  <2>6. raw[Station].mass = (SumFunctionOnSet(Mass(raw), Streams) + drift) % Limit
    <3>. DEFINE m == raw[Station].mass
                x == m - drift
                y == SumFunctionOnSet(Mass(raw), Streams)
    <3>1. m \in Int /\ drift \in Int /\ y \in Int
      <4>1. \A s \in Streams : Mass(raw)[s] \in Int
        BY Values DEF IInv, Objects
      <4>2. y \in Int
        BY <4>1, Sizes, SumInt
      <4>. QED  BY <2>2, <4>2 DEF IInv, TypeOK
    <3>2. y % Limit = (x + 0) % Limit
      BY <2>1, <2>4 DEF Balance, Balanced
    <3>3. x \in Int /\ x + 0 = x /\ x + drift = m
      BY <3>1
    <3>4. ((y % Limit) + drift) % Limit = (y + drift) % Limit
      <4>. HIDE DEF y
      <4>. QED  BY <2>2, <3>1, RemainderPlus
    <3>5. ((x % Limit) + drift) % Limit = m % Limit
      <4>. HIDE DEF m, x
      <4>1. ((x % Limit) + drift) % Limit = (x + drift) % Limit
        BY <2>2, <3>1, <3>3, RemainderPlus
      <4>. QED  BY <3>3, <4>1
    <3>. HIDE DEF m, x, y
    <3>6. (y + drift) % Limit = m % Limit
      BY <3>2, <3>3, <3>4, <3>5
    <3>. QED  BY <2>3, <3>6 DEF m, y
  <2>. QED  BY <2>1, <2>3, <2>4, <2>5, <2>6 DEF Balance, Balanced
<1>. QED  BY <1>1, Invariant, PTL

-----------------------------------------------------------------------------
(* No pulse is lost between the module and the total.                      *)

LEMMA DifferenceKept ==
  ASSUME NEW n \in Nat \ {0}, NEW c \in Int, NEW p \in Int, NEW t \in Int
  PROVE  (c - ((t + ((c - p) % n)) % n)) % n = (p - t) % n
<1>. DEFINE d == (c - p) % n
            k == (c - p) \div n
            u == (t + d) % n
            j == (t + d) \div n
            m == k + j
            x == p - t
<1>1. d \in Int /\ k \in Int /\ c - p = n * k + d
  <2>1. c - p \in Int
    OBVIOUS
  <2>. QED  BY <2>1, Division
<1>. HIDE DEF d, k
<1>2. u \in Int /\ j \in Int /\ t + d = n * j + u
  <2>. DEFINE y == t + d
  <2>1. y \in Int
    BY <1>1
  <2>. HIDE DEF y
  <2>2. y \div n \in Int /\ y % n \in 0..(n - 1) /\ y = n * (y \div n) + (y % n)
    BY <2>1, Division
  <2>3. y % n \in Int
    BY <2>2
  <2>. QED  BY <2>2, <2>3 DEF y
<1>. HIDE DEF u, j
<1>3. c - u = x + n * m /\ x \in Int /\ m \in Int
  BY <1>1, <1>2
<1>. HIDE DEF x, m
<1>4. (x + n * m) % n = x % n
  BY <1>3, RemainderShift
<1>. QED  BY <1>3, <1>4 DEF d, u, x

\* Only a reset, maintenance, the first reading and a calculation without a new poll
\* part the counter of a stream and its total, over the wrap of both counts
\* (rCounter::calculate, rTotal::calculate).
THEOREM PulsesAreKept == Spec => PulsesKept
<1>1. IInv /\ [Next]_vars =>
        [\A s \in Streams :
       /\ \/ Untotalled(s)' = Untotalled(s)
          \/ s \in reset \cup out \/ ~counter[s].init
          \/ pc = "pulling" /\ cur = s /\ s \notin fresh
       /\ counter[s].init /\ ~counter'[s].init => s \in off]_vars
  <2>. SUFFICES ASSUME IInv, Next, NEW s \in Streams, counter[s].init
                PROVE  /\ s \notin reset \cup out /\ ~(pc = "pulling" /\ cur = s /\ s \notin fresh)
                            => Untotalled(s)' = Untotalled(s)
                       /\ ~counter'[s].init => s \in off
    OBVIOUS
  <2>1. /\ counter[s] \in [init : BOOLEAN, prev : Udint, impulse : Udint] /\ raw[s].count \in Udint
        /\ s \in Objects /\ counter \in Counters /\ raw[s].count \in Int /\ counter[s].prev \in Int
        /\ raw[s].count \in 0..(Word - 1)
    <3>1. TypeOK /\ s \in Objects
      BY DEF IInv, Objects
    <3>2. counter \in Counters /\ raw[s].count \in Udint
      <4>1. raw[s].count \in Udint
        BY <3>1, Values
      <4>2. counter \in Counters
        BY <3>1 DEF TypeOK, Counters
      <4>. QED  BY <4>1, <4>2
    <3>3. counter[s] \in [init : BOOLEAN, prev : Udint, impulse : Udint]
      BY <3>2 DEF Counters
    <3>4. raw[s].count \in Int /\ raw[s].count \in 0..(Word - 1) /\ counter[s].prev \in Int
      BY <3>2, <3>3, Sizes
    <3>. QED  BY <3>1, <3>2, <3>3, <3>4
  <2>2. CASE counter'[s] = counter[s] /\ raw'[s] = raw[s]
    BY <2>2 DEF Untotalled
  <2>3. ASSUME NEW c \in [init : BOOLEAN, prev : Udint, impulse : Udint], Asked, Metered(cur, c), cur # s
        PROVE  counter'[s] = counter[s] /\ raw'[s] = raw[s]
    BY <2>1, <2>3, MeteredStream DEF Counters
  <2>4. ASSUME NEW c \in [init : BOOLEAN, prev : Udint, impulse : Udint], Asked, Metered(cur, c), cur = s,
               s \notin reset \cup out
        PROVE  counter'[s] = c /\ raw'[s].count = (raw[s].count + c.impulse) % Word
    BY <2>1, <2>4, MeteredStream DEF Counters, Base
  <2>5. ASSUME NEW c \in [init : BOOLEAN, prev : Udint, impulse : Udint], Asked, Metered(cur, c), cur = s
        PROVE  counter'[s] = c
    BY <2>1, <2>5, MeteredStream DEF Counters
  <2>6. (raw[s].count + 0) % Word = raw[s].count
    <3>1. raw[s].count + 0 = raw[s].count
      BY <2>1
    <3>. QED  BY <2>1, <3>1, Sizes, RemainderSmall
  <2>7. CASE getValue
    <3>1. Asked /\ cur \in Streams
      BY <2>7 DEF getValue, Asked, IInv, TypeOK
    <3>. DEFINE z == [counter[cur] EXCEPT !.impulse = 0, !.init = FALSE]
    <3>2. cur = s => /\ z \in [init : BOOLEAN, prev : Udint, impulse : Udint] /\ z.impulse = 0 /\ z.prev = counter[s].prev
                     /\ clear(cur) \in [init : BOOLEAN, prev : Udint, impulse : Udint] /\ clear(cur).impulse = 0
                     /\ clear(cur).prev = counter[s].prev /\ clear(cur).init
      BY <2>1, Sizes DEF clear
    <3>. HIDE DEF z
    <3>3. z \in [init : BOOLEAN, prev : Udint, impulse : Udint] /\ clear(cur) \in [init : BOOLEAN, prev : Udint, impulse : Udint]
      BY <2>1, <3>1, Sizes DEF clear, z, Counters
    <3>4. CASE cur \in off /\ Metered(cur, z)
      <4>1. CASE cur # s
        BY <2>2, <2>3, <3>1, <3>3, <3>4, <4>1
      <4>2. CASE cur = s
        <5>1. s \notin reset \cup out => Untotalled(s)' = Untotalled(s)
          BY <2>4, <2>6, <3>1, <3>2, <3>4, <4>2 DEF Untotalled
        <5>. QED  BY <3>4, <4>2, <5>1
      <4>. QED  BY <4>1, <4>2
    <3>5. CASE cur \notin off /\ Metered(cur, clear(cur))
      <4>1. CASE cur # s
        BY <2>2, <2>3, <3>1, <3>3, <3>5, <4>1
      <4>2. CASE cur = s
        <5>1. s \notin reset \cup out => Untotalled(s)' = Untotalled(s)
          BY <2>4, <2>6, <3>1, <3>2, <3>5, <4>2 DEF Untotalled
        <5>2. counter'[s] = clear(cur)
          BY <2>5, <3>1, <3>3, <3>5, <4>2
        <5>. QED  BY <3>2, <4>2, <5>1, <5>2
      <4>. QED  BY <4>1, <4>2
    <3>6. CASE UNCHANGED <<counter, raw>>
      BY <2>2, <3>6
    <3>. QED  BY <2>7, <3>4, <3>5, <3>6 DEF getValue, z
  <2>8. CASE getPulling
    <3>1. Asked /\ cur \in Streams /\ pc = "pulling" /\ count \in Int /\ count \in Udint
      BY <2>8, Sizes DEF getPulling, Asked, IInv, TypeOK
    <3>2. PICK c \in [init : BOOLEAN, prev : Udint, impulse : Udint] : Metered(cur, c)
      BY <2>8, getPullingRecord
    <3>3. CASE cur # s
      BY <2>2, <2>3, <3>1, <3>2, <3>3
    <3>4. CASE cur = s /\ cur \notin fresh
      <4>1. Metered(cur, counter[cur])
        BY <2>8, <3>4 DEF getPulling
      <4>2. counter'[s] = counter[s]
        BY <2>1, <2>5, <3>1, <3>4, <4>1
      <4>. QED  BY <3>1, <3>4, <4>2
    <3>5. CASE cur = s /\ cur \in fresh
      <4>1. Metered(cur, Difference(cur))
        BY <2>8, <3>5 DEF getPulling
      <4>2. /\ Difference(s).impulse = (count - counter[s].prev) % Word /\ Difference(s).prev = count
            /\ Difference(s).init
        BY <2>1 DEF Difference
      <4>3. Difference(s) \in [init : BOOLEAN, prev : Udint, impulse : Udint]
        BY <2>1, <3>1, <4>2, DifferenceType DEF Difference
      <4>4. counter'[s] = Difference(s)
        BY <2>5, <3>1, <3>5, <4>1, <4>3
      <4>5. ASSUME s \notin reset \cup out PROVE Untotalled(s)' = Untotalled(s)
        <5>1. raw'[s].count = (raw[s].count + ((count - counter[s].prev) % Word)) % Word
          BY <2>4, <3>1, <3>5, <4>1, <4>2, <4>3, <4>5
        <5>2. (count - ((raw[s].count + ((count - counter[s].prev) % Word)) % Word)) % Word
                = (counter[s].prev - raw[s].count) % Word
          <6>. DEFINE a == raw[s].count
                      p == counter[s].prev
          <6>1. Word \in Nat \ {0} /\ count \in Int /\ a \in Int /\ p \in Int
            BY <2>1, <3>1, Sizes
          <6>. HIDE DEF a, p
          <6>2. (count - ((a + ((count - p) % Word)) % Word)) % Word = (p - a) % Word
            BY <6>1, DifferenceKept
          <6>. QED  BY <6>2 DEF a, p
        <5>. QED  BY <4>2, <4>4, <5>1, <5>2 DEF Untotalled
      <4>. QED  BY <4>2, <4>4, <4>5
    <3>. QED  BY <3>3, <3>4, <3>5
  <2>9. CASE SumsStreams
    <3>1. Station # s
      BY Sizes
    <3>. QED  BY <2>2, <2>9, <3>1 DEF SumsStreams, Calculates, IInv, TypeOK
  <2>10. CASE Poll \/ PollFails \/ Halt \/ CycleBegins \/ NextObject \/ NextStream \/ CycleEnds \/ SaveTotals
    BY <2>2, <2>10 DEF Poll, PollFails, Halt, CycleBegins, NextObject, NextStream, CycleEnds, SaveTotals, totals
  <2>11. CASE Operator
    BY <2>2, <2>11 DEF Operator, SetOff, SetMaintenance, SetFactor, RequestReset, Written
  <2>. QED  BY <2>7, <2>8, <2>9, <2>10, <2>11 DEF Next, DataThread
<1>. QED  BY Invariant, <1>1, PTL DEF Spec, PulsesKept
=============================================================================
