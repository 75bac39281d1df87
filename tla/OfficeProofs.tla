----------------------------- MODULE OfficeProofs -----------------------------
(***************************************************************************)
(* What holds of the payroll, the attendance, the ledger, the sign-in, the *)
(* inbox, the audit trail, the timers and the bar of the page, each for    *)
(* any values of its constants.  The parts share no variable, and each theorem is about  *)
(* the specification of its own part.                                      *)
(***************************************************************************)
EXTENDS Payroll, Workplace, Ledger, SignIn, Inbox, Audit, Timers, Topbar,
        FiniteSetTheorems, SequenceTheorems, WellFoundedInduction, TLAPS

-----------------------------------------------------------------------------
(* Numbers and finite sets *)

\* A set of naturals that is not empty has a least one, which is its Min.
LEMMA LeastPlace ==
  ASSUME NEW S, S \subseteq Nat, S # {}
  PROVE  Min(S) \in S /\ \A k \in S : Min(S) <= k
  <1>1. PICK x \in S : \A y \in S : ~(<<y, x>> \in OpToRel(<, Nat))
    BY WFMin, NatLessThanWellFounded
  <1>2. \A y \in S : x <= y
    <2> TAKE y \in S
    <2>1. x \in Nat /\ y \in Nat
      OBVIOUS
    <2>2. ~(y < x)
      BY <1>1, <2>1 DEF OpToRel
    <2>3. QED BY <2>1, <2>2
  <1>3. QED BY <1>2 DEF Min

\* What holds of 0 and passes from each number to the next holds of all of them.
LEMMA NumbersAll ==
  ASSUME NEW Q, 0 \in Q, \A n \in Nat : n \in Q => n + 1 \in Q
  PROVE  \A n \in Nat : n \in Q
  <1> SUFFICES ASSUME NEW n \in Nat, n \notin Q PROVE FALSE
    OBVIOUS
  <1> DEFINE Bad == {m \in Nat : m \notin Q}
  <1>1. Min(Bad) \in Bad /\ \A k \in Bad : Min(Bad) <= k
    BY LeastPlace, Bad \subseteq Nat, n \in Bad
  <1>2. PICK m \in Nat : m \notin Q /\ \A k \in Nat : k \notin Q => m <= k
    BY <1>1
  <1>3. m # 0 /\ m - 1 \in Nat
    BY <1>2
  <1>4. m - 1 \in Q
    BY <1>2, <1>3
  <1>5. QED BY <1>2, <1>3, <1>4

\* What holds of the empty set and stays with one element more holds of a
\* finite set.
LEMMA SetsAll ==
  ASSUME NEW S, IsFiniteSet(S), NEW Q, {} \in Q,
         \A T \in SUBSET S : \A x \in S \ T : T \in Q => T \union {x} \in Q
  PROVE  S \in Q
  <1> DEFINE R == {n \in Nat : \A T \in SUBSET S : Cardinality(T) = n => T \in Q}
  <1>1. \A T \in SUBSET S : IsFiniteSet(T) /\ Cardinality(T) \in Nat
    BY FS_Subset, FS_CardinalityType
  <1>2. 0 \in R
    BY <1>1, FS_EmptySet
  <1>3. \A n \in Nat : n \in R => n + 1 \in R
    <2> SUFFICES ASSUME NEW n \in Nat, n \in R, NEW T \in SUBSET S, Cardinality(T) = n + 1 PROVE T \in Q
      OBVIOUS
    <2>1. PICK x : x \in T
      BY <1>1, FS_EmptySet, n + 1 # 0
    <2>2. Cardinality(T \ {x}) = n
      BY <1>1, <2>1, FS_RemoveElement
    <2>3. T \ {x} \in Q
      BY <2>2
    <2>4. (T \ {x}) \union {x} \in Q /\ (T \ {x}) \union {x} = T
      BY <2>1, <2>3
    <2>5. QED BY <2>4
  <1> HIDE DEF R
  <1>4. \A n \in Nat : n \in R
    BY <1>2, <1>3, NumbersAll
  <1>5. Cardinality(S) \in R
    BY <1>1, <1>4
  <1>6. QED BY <1>5 DEF R

\* Of two numbers, Min is the smaller and Max the larger.
LEMMA OfTwo ==
  ASSUME NEW a \in Int, NEW b \in Int
  PROVE  /\ Min({a, b}) = (IF a <= b THEN a ELSE b)
         /\ Max({a, b}) = (IF a >= b THEN a ELSE b)
  <1>1. \E x \in {a, b} : \A y \in {a, b} : x <= y
    OBVIOUS
  <1>2. \E x \in {a, b} : \A y \in {a, b} : x >= y
    OBVIOUS
  <1>3. Min({a, b}) \in {a, b} /\ \A y \in {a, b} : Min({a, b}) <= y
    BY <1>1 DEF Min
  <1>4. Max({a, b}) \in {a, b} /\ \A y \in {a, b} : Max({a, b}) >= y
    BY <1>2 DEF Max
  <1>5. Min({a, b}) = (IF a <= b THEN a ELSE b)
    BY <1>3
  <1>6. Max({a, b}) = (IF a >= b THEN a ELSE b)
    BY <1>4
  <1>7. QED BY <1>5, <1>6

\* What a function makes of a finite set is finite.
LEMMA ImageFinite ==
  ASSUME NEW S, IsFiniteSet(S), NEW f
  PROVE  IsFiniteSet({f[x] : x \in S}) /\ Cardinality({f[x] : x \in S}) <= Cardinality(S)
  <1> DEFINE T == {f[x] : x \in S}
             h == [x \in S |-> f[x]]
  <1>1. h \in Surjection(S, T)
    <2>1. h \in [S -> T] /\ \A y \in T : \E x \in S : h[x] = y
      OBVIOUS
    <2>2. QED BY <2>1 DEF Surjection
  <1>2. QED BY <1>1, FS_Surjection

\* The size of two finite sets that have nothing in common.
LEMMA SizeOfTwo ==
  ASSUME NEW S, IsFiniteSet(S), NEW T, IsFiniteSet(T), S \intersect T = {}
  PROVE  IsFiniteSet(S \union T) /\ Cardinality(S \union T) = Cardinality(S) + Cardinality(T)
  <1>1. IsFiniteSet(S \union T)
        /\ Cardinality(S \union T) = Cardinality(S) + Cardinality(T) - Cardinality(S \intersect T)
    BY FS_Union
  <1>2. Cardinality(S \intersect T) = 0 /\ Cardinality(S) \in Nat /\ Cardinality(T) \in Nat
    BY FS_EmptySet, FS_CardinalityType
  <1>3. QED BY <1>1, <1>2

\* The size of two finite sets at most.
LEMMA SizeOfBoth ==
  ASSUME NEW S, IsFiniteSet(S), NEW T, IsFiniteSet(T)
  PROVE  IsFiniteSet(S \union T) /\ Cardinality(S \union T) <= Cardinality(S) + Cardinality(T)
  <1>1. IsFiniteSet(S \union T)
        /\ Cardinality(S \union T) = Cardinality(S) + Cardinality(T) - Cardinality(S \intersect T)
    BY FS_Union
  <1>2. IsFiniteSet(S \intersect T)
    BY FS_Subset
  <1>3. Cardinality(S \intersect T) \in Nat /\ Cardinality(S) \in Nat /\ Cardinality(T) \in Nat
    BY <1>2, FS_CardinalityType
  <1>4. QED BY <1>1, <1>3

-----------------------------------------------------------------------------
(* Sums over finite sets *)

\* g gives each subset of S the sum of f over it.
Adds(g, f, S) ==
  /\ g \in [SUBSET S -> Int]
  /\ g[{}] = 0
  /\ \A T \in SUBSET S : \A x \in T : g[T] = f[x] + g[T \ {x}]

\* There are such sums of integers, whatever the order they are added in.
LEMMA SumsThere ==
  ASSUME NEW S, IsFiniteSet(S), NEW f, \A x \in S : f[x] \in Int
  PROVE  \E g : Adds(g, f, S)
  <1> DEFINE Q == {T \in SUBSET S : \E g : Adds(g, f, T)}
  <1>1. {} \in Q
    <2>1. Adds([T \in SUBSET {} |-> 0], f, {})
      BY DEF Adds
    <2>2. QED BY <2>1
  <1>2. \A T \in SUBSET S : \A a \in S \ T : T \in Q => T \union {a} \in Q
    <2> SUFFICES ASSUME NEW T \in SUBSET S, NEW a \in S \ T, NEW g, Adds(g, f, T)
                 PROVE  \E h : Adds(h, f, T \union {a})
      OBVIOUS
    <2> DEFINE h == [U \in SUBSET (T \union {a}) |-> IF a \in U THEN f[a] + g[U \ {a}] ELSE g[U]]
    <2>0. \A U \in SUBSET T : g[U] \in Int
      BY DEF Adds
    <2>1. h \in [SUBSET (T \union {a}) -> Int]
      <3>1. \A U \in SUBSET (T \union {a}) : U \ {a} \in SUBSET T /\ (a \notin U => U \in SUBSET T)
        OBVIOUS
      <3>2. f[a] \in Int
        OBVIOUS
      <3>3. QED BY <2>0, <3>1, <3>2
    <2>2. h[{}] = 0
      BY DEF Adds
    <2>3. ASSUME NEW U \in SUBSET (T \union {a}), NEW x \in U PROVE h[U] = f[x] + h[U \ {x}]
      <3>1. CASE x = a
        BY <3>1
      <3>2. CASE x # a /\ a \in U
        <4>1. h[U] = f[a] + g[U \ {a}] /\ h[U \ {x}] = f[a] + g[(U \ {x}) \ {a}]
          BY <3>2
        <4>2. U \ {a} \in SUBSET T /\ x \in U \ {a}
          BY <3>2
        <4>3. g[U \ {a}] = f[x] + g[(U \ {a}) \ {x}]
          BY <4>2 DEF Adds
        <4>4. (U \ {a}) \ {x} = (U \ {x}) \ {a} /\ (U \ {x}) \ {a} \in SUBSET T
          OBVIOUS
        <4>5. f[a] \in Int /\ f[x] \in Int /\ g[(U \ {x}) \ {a}] \in Int
          <5>1. x \in S
            BY <3>2
          <5>2. QED BY <5>1, <4>4, <2>0
        <4> HIDE DEF h
        <4>6. h[U] = f[a] + (f[x] + g[(U \ {x}) \ {a}])
          BY <4>1, <4>3, <4>4
        <4>7. QED BY <4>1, <4>5, <4>6
      <3>3. CASE a \notin U
        <4>1. U \in SUBSET T /\ U \ {x} \in SUBSET T /\ a \notin U \ {x}
          BY <3>3
        <4>2. h[U] = g[U] /\ h[U \ {x}] = g[U \ {x}]
          BY <4>1, <3>3
        <4>3. QED BY <4>1, <4>2 DEF Adds
      <3>4. QED BY <3>1, <3>2, <3>3
    <2> HIDE DEF h
    <2>4. QED BY <2>1, <2>2, <2>3 DEF Adds
  <1> HIDE DEF Q
  <1>3. S \in Q
    BY <1>1, <1>2, SetsAll
  <1>4. QED BY <1>3 DEF Q

\* h folds f over S, an element of each set after the other: MapThenSumSet.
FoldOf(h, f, S) ==
  h = [T \in SUBSET S |-> IF T = {} THEN 0 ELSE LET x == CHOOSE x \in T : TRUE IN f[x] + h[T \ {x}]]

\* What a fold gives is the sum.
LEMMA FoldIsSum ==
  ASSUME NEW S, IsFiniteSet(S), NEW f, NEW g, Adds(g, f, S), NEW h, FoldOf(h, f, S)
  PROVE  h[S] = g[S]
  <1> DEFINE R == {n \in Nat : \A T \in SUBSET S : Cardinality(T) = n => h[T] = g[T]}
  <1>0. \A T \in SUBSET S :
          h[T] = IF T = {} THEN 0 ELSE f[CHOOSE x \in T : TRUE] + h[T \ {CHOOSE x \in T : TRUE}]
    BY DEF FoldOf
  <1>1. \A T \in SUBSET S : IsFiniteSet(T) /\ Cardinality(T) \in Nat
    BY FS_Subset, FS_CardinalityType
  <1>2. 0 \in R
    <2>1. h[{}] = g[{}]
      BY <1>0 DEF Adds
    <2>2. QED BY <1>1, <2>1, FS_EmptySet
  <1>3. \A n \in Nat : n \in R => n + 1 \in R
    <2> SUFFICES ASSUME NEW n \in Nat, n \in R, NEW T \in SUBSET S, Cardinality(T) = n + 1 PROVE h[T] = g[T]
      OBVIOUS
    <2>1. PICK x : x = CHOOSE y \in T : TRUE
      OBVIOUS
    <2>2. T # {} /\ x \in T
      BY <1>1, <2>1, FS_EmptySet, n + 1 # 0
    <2>3. Cardinality(T \ {x}) = n
      <3>1. IsFiniteSet(T) /\ Cardinality(T \ {x}) = Cardinality(T) - 1
        BY <1>1, <2>2, FS_RemoveElement
      <3>2. QED BY <3>1
    <2>4. h[T \ {x}] = g[T \ {x}]
      BY <2>3
    <2>5. h[T] = f[x] + h[T \ {x}]
      BY <1>0, <2>1, <2>2
    <2>6. g[T] = f[x] + g[T \ {x}]
      BY <2>2 DEF Adds
    <2>7. QED BY <2>4, <2>5, <2>6
  <1> HIDE DEF R
  <1>4. \A n \in Nat : n \in R
    BY <1>2, <1>3, NumbersAll
  <1>5. Cardinality(S) \in R
    BY <1>1, <1>4
  <1>6. QED BY <1>5 DEF R

\* Of integers there are sums, each of which is a fold, and every fold gives
\* the same.
LEMMA FoldThere ==
  ASSUME NEW S, IsFiniteSet(S), NEW f, \A x \in S : f[x] \in Int
  PROVE  \E g : Adds(g, f, S) /\ FoldOf(g, f, S) /\ \A h : FoldOf(h, f, S) => h[S] = g[S]
  <1>1. PICK g : Adds(g, f, S)
    BY SumsThere
  <1>2. \A T \in SUBSET S : g[T] = IF T = {} THEN 0 ELSE f[CHOOSE x \in T : TRUE] + g[T \ {CHOOSE x \in T : TRUE}]
    <2> SUFFICES ASSUME NEW T \in SUBSET S, T # {}
                 PROVE  g[T] = f[CHOOSE x \in T : TRUE] + g[T \ {CHOOSE x \in T : TRUE}]
      BY <1>1 DEF Adds
    <2>1. (CHOOSE x \in T : TRUE) \in T
      OBVIOUS
    <2>2. QED BY <1>1, <2>1 DEF Adds
  <1>3. FoldOf(g, f, S)
    BY <1>1, <1>2 DEF FoldOf, Adds
  <1>4. QED BY <1>1, <1>3, FoldIsSum

SumOver(f, S) == MapThenSumSet(LAMBDA x : f[x], S)

\* What MapThenSumSet gives of integers is their sum.
LEMMA SumThere ==
  ASSUME NEW S, IsFiniteSet(S), NEW f, \A x \in S : f[x] \in Int
  PROVE  \E g : Adds(g, f, S) /\ SumOver(f, S) = g[S]
  <1> DEFINE Iter(h) == h = [T \in SUBSET S |-> IF T = {} THEN 0
                              ELSE LET x == CHOOSE x \in T : TRUE IN f[x] + h[T \ {x}]]
  <1>1. \A h : Iter(h) <=> FoldOf(h, f, S)
    BY DEF FoldOf
  <1>2. PICK g : Adds(g, f, S) /\ FoldOf(g, f, S) /\ \A h : FoldOf(h, f, S) => h[S] = g[S]
    BY FoldThere
  <1>3. SumOver(f, S) = (CHOOSE h : Iter(h))[S]
    BY DEF SumOver, MapThenSumSet, MapThenFoldSet
  <1> HIDE DEF Iter
  <1>4. Iter(CHOOSE h : Iter(h))
    BY <1>1, <1>2
  <1>5. QED BY <1>1, <1>2, <1>3, <1>4

\* The sum over a set and one element more.
LEMMA SumOneMore ==
  ASSUME NEW S, NEW f, NEW g, Adds(g, f, S), NEW T \in SUBSET S, NEW x \in S \ T
  PROVE  g[T \union {x}] = f[x] + g[T] /\ g[T] \in Int
  <1>1. T \union {x} \in SUBSET S /\ x \in T \union {x} /\ (T \union {x}) \ {x} = T
    OBVIOUS
  <1>2. QED BY <1>1 DEF Adds

\* The sum of what is not negative is not negative.
LEMMA SumNat ==
  ASSUME NEW S, IsFiniteSet(S), NEW f, \A x \in S : f[x] \in Nat, NEW g, Adds(g, f, S)
  PROVE  \A T \in SUBSET S : g[T] \in Nat
  <1> SUFFICES ASSUME NEW T \in SUBSET S PROVE g[T] \in Nat
    OBVIOUS
  <1> DEFINE Q == {U \in SUBSET T : g[U] \in Nat}
  <1>1. {} \in Q
    BY DEF Adds
  <1>2. \A U \in SUBSET T : \A x \in T \ U : U \in Q => U \union {x} \in Q
    <2> SUFFICES ASSUME NEW U \in SUBSET T, NEW x \in T \ U, U \in Q PROVE U \union {x} \in Q
      OBVIOUS
    <2>1. g[U \union {x}] = f[x] + g[U]
      BY SumOneMore
    <2>2. QED BY <2>1
  <1> HIDE DEF Q
  <1>3. T \in Q
    BY <1>1, <1>2, FS_Subset, SetsAll
  <1>4. QED BY <1>3 DEF Q

\* The sum over two sets that have nothing in common.
LEMMA SumUnion ==
  ASSUME NEW S, IsFiniteSet(S), NEW f, \A x \in S : f[x] \in Int, NEW g, Adds(g, f, S),
         NEW T \in SUBSET S, NEW U \in SUBSET S, T \intersect U = {}
  PROVE  g[T \union U] = g[T] + g[U]
  <1> DEFINE Q == {V \in SUBSET U : g[T \union V] = g[T] + g[V]}
  <1>0. \A V \in SUBSET S : g[V] \in Int
    BY DEF Adds
  <1>1. {} \in Q
    <2>1. T \union {} = T /\ g[{}] = 0
      BY DEF Adds
    <2>2. QED BY <2>1, <1>0
  <1>2. \A V \in SUBSET U : \A x \in U \ V : V \in Q => V \union {x} \in Q
    <2> SUFFICES ASSUME NEW V \in SUBSET U, NEW x \in U \ V, V \in Q PROVE V \union {x} \in Q
      OBVIOUS
    <2>1. g[V \union {x}] = f[x] + g[V] /\ g[V] \in Int
      BY SumOneMore
    <2>2. T \union V \in SUBSET S /\ x \in S \ (T \union V)
      OBVIOUS
    <2>3. g[(T \union V) \union {x}] = f[x] + g[T \union V] /\ g[T \union V] \in Int
      BY <2>2, SumOneMore
    <2>4. (T \union V) \union {x} = T \union (V \union {x})
      OBVIOUS
    <2>5. g[V \union {x}] \in Int /\ g[T] \in Int /\ g[T \union (V \union {x})] \in Int
      BY <1>0
    <2>6. g[T \union (V \union {x})] = f[x] + (g[T] + g[V])
      BY <2>3, <2>4
    <2>7. g[T \union (V \union {x})] = g[T] + (f[x] + g[V])
      <3>1. f[x] \in Int
        OBVIOUS
      <3>2. QED BY <3>1, <2>6, <2>1, <2>5
    <2>8. QED BY <2>7, <2>1
  <1> HIDE DEF Q
  <1>3. U \in Q
    BY <1>1, <1>2, FS_Subset, SetsAll
  <1>4. QED BY <1>3 DEF Q

\* Two functions that add up the same agree.
LEMMA SumsSame ==
  ASSUME NEW S, IsFiniteSet(S), NEW f, NEW g, Adds(g, f, S), NEW h, Adds(h, f, S)
  PROVE  \A T \in SUBSET S : g[T] = h[T]
  <1> SUFFICES ASSUME NEW T \in SUBSET S PROVE g[T] = h[T]
    OBVIOUS
  <1> DEFINE Q == {U \in SUBSET T : g[U] = h[U]}
  <1>1. {} \in Q
    BY DEF Adds
  <1>2. \A U \in SUBSET T : \A x \in T \ U : U \in Q => U \union {x} \in Q
    <2> SUFFICES ASSUME NEW U \in SUBSET T, NEW x \in T \ U, U \in Q PROVE U \union {x} \in Q
      OBVIOUS
    <2>1. g[U \union {x}] = f[x] + g[U] /\ h[U \union {x}] = f[x] + h[U]
      BY SumOneMore
    <2>2. QED BY <2>1
  <1> HIDE DEF Q
  <1>3. T \in Q
    BY <1>1, <1>2, FS_Subset, SetsAll
  <1>4. QED BY <1>3 DEF Q

\* The sum of zeros is 0.
LEMMA SumZero ==
  ASSUME NEW S, IsFiniteSet(S), NEW f, NEW g, Adds(g, f, S),
         NEW T \in SUBSET S, \A x \in T : f[x] = 0
  PROVE  g[T] = 0
  <1> DEFINE Q == {U \in SUBSET T : g[U] = 0}
  <1>1. {} \in Q
    BY DEF Adds
  <1>2. \A U \in SUBSET T : \A x \in T \ U : U \in Q => U \union {x} \in Q
    <2> SUFFICES ASSUME NEW U \in SUBSET T, NEW x \in T \ U, U \in Q PROVE U \union {x} \in Q
      OBVIOUS
    <2>1. g[U \union {x}] = f[x] + g[U]
      BY SumOneMore
    <2>2. QED BY <2>1
  <1> HIDE DEF Q
  <1>3. T \in Q
    BY <1>1, <1>2, FS_Subset, SetsAll
  <1>4. QED BY <1>3 DEF Q

\* The sums of f over the subsets of S.
SumsOf(f, S) == CHOOSE g : Adds(g, f, S)

\* Finite sums of integers add up from part to part.
LEMMA SumsOfAdd ==
  ASSUME NEW S, IsFiniteSet(S), NEW f, \A x \in S : f[x] \in Int
  PROVE  Adds(SumsOf(f, S), f, S)
  BY SumsThere DEF SumsOf

\* The sum over a part is what the sums over the whole have for it.
LEMMA SumPart ==
  ASSUME NEW S, IsFiniteSet(S), NEW f, \A x \in S : f[x] \in Int, NEW g, Adds(g, f, S), NEW T \in SUBSET S
  PROVE  SumOver(f, T) = g[T]
  <1>1. IsFiniteSet(T) /\ \A x \in T : f[x] \in Int
    BY FS_Subset
  <1>2. PICK h : Adds(h, f, T) /\ SumOver(f, T) = h[T]
    BY <1>1, SumThere
  <1> DEFINE k == [U \in SUBSET T |-> g[U]]
  <1>3. Adds(k, f, T)
    BY DEF Adds
  <1> HIDE DEF k
  <1>4. k[T] = h[T]
    BY <1>1, <1>2, <1>3, SumsSame, T \in SUBSET T
  <1>5. QED BY <1>2, <1>4 DEF k

\* A finite sum of integers is one.
LEMMA SumInt ==
  ASSUME NEW S, IsFiniteSet(S), NEW f, \A x \in S : f[x] \in Int
  PROVE  SumOver(f, S) \in Int
  <1>1. PICK g : Adds(g, f, S) /\ SumOver(f, S) = g[S]
    BY SumThere
  <1>2. S \in SUBSET S
    OBVIOUS
  <1>3. QED BY <1>1, <1>2 DEF Adds

\* The sum over two sets that have nothing in common.
LEMMA SumOfBoth ==
  ASSUME NEW S, IsFiniteSet(S), NEW T, IsFiniteSet(T), S \intersect T = {},
         NEW f, \A x \in S \union T : f[x] \in Int
  PROVE  SumOver(f, S \union T) = SumOver(f, S) + SumOver(f, T)
  <1>1. PICK W : W = S \union T
    OBVIOUS
  <1>2. IsFiniteSet(W) /\ S \in SUBSET W /\ T \in SUBSET W /\ \A x \in W : f[x] \in Int
    BY <1>1, FS_Union
  <1>3. PICK g : Adds(g, f, W) /\ SumOver(f, W) = g[W]
    BY <1>2, SumThere
  <1>4. g[S \union T] = g[S] + g[T]
    <2>1. \A x \in W : f[x] \in Int
      BY <1>2
    <2>2. ASSUME NEW A \in SUBSET W, NEW B \in SUBSET W, A \intersect B = {} PROVE g[A \union B] = g[A] + g[B]
      BY <1>2, <1>3, <2>1, <2>2, SumUnion
    <2>3. QED BY <1>2, <2>2
  <1>5. SumOver(f, S) = g[S] /\ SumOver(f, T) = g[T]
    BY <1>2, <1>3, SumPart
  <1>6. QED BY <1>1, <1>3, <1>4, <1>5

\* The sum over the empty set, and over a set and one element more.
LEMMA SumOfNone ==
  ASSUME NEW f
  PROVE  SumOver(f, {}) = 0
  BY FS_EmptySet, SumThere DEF Adds

\* One more element adds what it has.
LEMMA SumWith ==
  ASSUME NEW S, IsFiniteSet(S), NEW f, \A x \in S : f[x] \in Int, NEW T \in SUBSET S, NEW x \in S \ T
  PROVE  SumOver(f, T \union {x}) = f[x] + SumOver(f, T)
  <1>1. PICK g : Adds(g, f, S)
    BY SumsThere
  <1>2. T \union {x} \in SUBSET S
    OBVIOUS
  <1>3. SumOver(f, T) = g[T] /\ SumOver(f, T \union {x}) = g[T \union {x}]
    BY <1>1, <1>2, SumPart
  <1>4. g[T \union {x}] = f[x] + g[T]
    BY <1>1, SumOneMore
  <1>5. QED BY <1>3, <1>4

\* Smaller numbers have a smaller sum.
LEMMA SumAtMost ==
  ASSUME NEW S, IsFiniteSet(S), NEW f, NEW h, \A x \in S : f[x] \in Int /\ h[x] \in Int /\ f[x] <= h[x]
  PROVE  SumOver(f, S) <= SumOver(h, S)
  <1> DEFINE Q == {T \in SUBSET S : SumOver(f, T) <= SumOver(h, T)}
  <1>1. {} \in Q
    BY SumOfNone
  <1>2. \A T \in SUBSET S : \A x \in S \ T : T \in Q => T \union {x} \in Q
    <2> SUFFICES ASSUME NEW T \in SUBSET S, NEW x \in S \ T, T \in Q PROVE T \union {x} \in Q
      OBVIOUS
    <2>1. SumOver(f, T \union {x}) = f[x] + SumOver(f, T) /\ SumOver(h, T \union {x}) = h[x] + SumOver(h, T)
      BY SumWith
    <2>2. IsFiniteSet(T)
      BY FS_Subset
    <2>3. SumOver(f, T) \in Int /\ SumOver(h, T) \in Int
      BY <2>2, SumInt
    <2>4. f[x] \in Int /\ h[x] \in Int /\ f[x] <= h[x] /\ SumOver(f, T) <= SumOver(h, T)
      OBVIOUS
    <2>5. SumOver(f, T \union {x}) <= SumOver(h, T \union {x})
      BY <2>1, <2>3, <2>4
    <2>6. QED BY <2>5
  <1> HIDE DEF Q
  <1>3. S \in Q
    BY <1>1, <1>2, SetsAll
  <1>4. QED BY <1>3 DEF Q

\* Sums of what is alike are alike.
LEMMA SumAlike ==
  ASSUME NEW S, IsFiniteSet(S), NEW f, NEW h, \A x \in S : f[x] \in Int /\ f[x] = h[x]
  PROVE  SumOver(f, S) = SumOver(h, S)
  <1>1. \A x \in S : f[x] \in Int /\ h[x] \in Int /\ f[x] <= h[x] /\ h[x] <= f[x]
    OBVIOUS
  <1>2. SumOver(f, S) <= SumOver(h, S) /\ SumOver(h, S) <= SumOver(f, S)
    BY <1>1, SumAtMost
  <1>3. SumOver(f, S) \in Int /\ SumOver(h, S) \in Int
    BY <1>1, SumInt
  <1>4. QED BY <1>2, <1>3

\* The sum over a part of what is not negative is no larger.
LEMMA SumOfPart ==
  ASSUME NEW S, IsFiniteSet(S), NEW f, \A x \in S : f[x] \in Nat, NEW T \in SUBSET S
  PROVE  SumOver(f, T) <= SumOver(f, S) /\ SumOver(f, T) \in Nat
  <1>1. \A x \in S : f[x] \in Int
    OBVIOUS
  <1>2. PICK g : Adds(g, f, S)
    BY <1>1, SumsThere
  <1>3. T \in SUBSET S /\ S \ T \in SUBSET S /\ S \in SUBSET S /\ T \union (S \ T) = S /\ T \intersect (S \ T) = {}
    OBVIOUS
  <1>4. g[T] \in Nat /\ g[S \ T] \in Nat
    BY <1>2, <1>3, SumNat
  <1>5. g[S] = g[T] + g[S \ T]
    BY <1>1, <1>2, <1>3, SumUnion
  <1>6. SumOver(f, T) = g[T] /\ SumOver(f, S) = g[S]
    BY <1>1, <1>2, <1>3, SumPart
  <1>7. QED BY <1>4, <1>5, <1>6

\* What is 1 at least adds up to the size of the set at least.
LEMMA SumOfOnes ==
  ASSUME NEW S, IsFiniteSet(S), NEW f, \A x \in S : f[x] \in Int /\ f[x] >= 1
  PROVE  Cardinality(S) <= SumOver(f, S)
  <1> DEFINE Q == {T \in SUBSET S : Cardinality(T) <= SumOver(f, T)}
  <1>1. {} \in Q
    BY SumOfNone, FS_EmptySet
  <1>2. \A T \in SUBSET S : \A x \in S \ T : T \in Q => T \union {x} \in Q
    <2> SUFFICES ASSUME NEW T \in SUBSET S, NEW x \in S \ T, T \in Q PROVE T \union {x} \in Q
      OBVIOUS
    <2>1. SumOver(f, T \union {x}) = f[x] + SumOver(f, T)
      BY SumWith
    <2>2. IsFiniteSet(T)
      BY FS_Subset
    <2>3. SumOver(f, T) \in Int /\ Cardinality(T) \in Nat
      BY <2>2, SumInt, FS_CardinalityType
    <2>4. Cardinality(T \union {x}) = Cardinality(T) + 1
      BY <2>2, FS_AddElement
    <2>5. f[x] \in Int /\ f[x] >= 1 /\ Cardinality(T) <= SumOver(f, T)
      OBVIOUS
    <2>6. Cardinality(T \union {x}) <= SumOver(f, T \union {x})
      BY <2>1, <2>3, <2>4, <2>5
    <2>7. QED BY <2>6
  <1> HIDE DEF Q
  <1>3. S \in Q
    BY <1>1, <1>2, SetsAll
  <1>4. QED BY <1>3 DEF Q

\* The sums over the elements of each key come to the sum over those of any of
\* the keys.
LEMMA SumByKey ==
  ASSUME NEW S, IsFiniteSet(S), NEW f, \A e \in S : f[e] \in Int, NEW T, NEW X, IsFiniteSet(X),
         NEW w, \A x \in X : w[x] = SumOver(f, {e \in S : T[e] = x})
  PROVE  /\ SumOver(w, X) = SumOver(f, {e \in S : T[e] \in X})
         /\ \A x \in X : w[x] \in Int
  <1> DEFINE Under(J) == {e \in S : T[e] \in J}
             Q == {J \in SUBSET X : SumOver(w, J) = SumOver(f, Under(J))}
  <1>1. \A J : IsFiniteSet(Under(J)) /\ \A e \in Under(J) : f[e] \in Int
    BY FS_Subset
  <1>2. \A x \in X : w[x] = SumOver(f, Under({x}))
    BY \A x : {e \in S : T[e] = x} = Under({x})
  <1>3. Under({}) = {}
    OBVIOUS
  <1>4. \A J, M : Under(J \union M) = Under(J) \union Under(M)
                  /\ (J \intersect M = {} => Under(J) \intersect Under(M) = {})
    OBVIOUS
  <1> HIDE DEF Under
  <1>5. \A x \in X : w[x] \in Int
    BY <1>1, <1>2, SumInt
  <1>6. {} \in Q
    BY <1>3, SumOfNone
  <1>7. \A J \in SUBSET X : \A x \in X \ J : J \in Q => J \union {x} \in Q
    <2> SUFFICES ASSUME NEW J \in SUBSET X, NEW x \in X \ J, J \in Q PROVE J \union {x} \in Q
      OBVIOUS
    <2>1. SumOver(w, J \union {x}) = w[x] + SumOver(w, J)
      BY <1>5, SumWith
    <2>2. J \intersect {x} = {}
      OBVIOUS
    <2>3. Under(J \union {x}) = Under(J) \union Under({x}) /\ Under(J) \intersect Under({x}) = {}
      BY <1>4, <2>2
    <2>4. SumOver(f, Under(J \union {x})) = SumOver(f, Under(J)) + SumOver(f, Under({x}))
      <3>1. IsFiniteSet(Under(J)) /\ IsFiniteSet(Under({x})) /\ \A e \in Under(J) \union Under({x}) : f[e] \in Int
        BY <1>1
      <3>2. SumOver(f, Under(J) \union Under({x})) = SumOver(f, Under(J)) + SumOver(f, Under({x}))
        BY <2>3, <3>1, SumOfBoth
      <3>3. QED BY <2>3, <3>2
    <2>5. w[x] = SumOver(f, Under({x})) /\ SumOver(w, J) = SumOver(f, Under(J))
      BY <1>2
    <2>6. SumOver(f, Under(J)) \in Int /\ SumOver(f, Under({x})) \in Int
      BY <1>1, SumInt
    <2>7. SumOver(w, J \union {x}) = SumOver(f, Under(J \union {x}))
      BY <2>1, <2>4, <2>5, <2>6
    <2>8. QED BY <2>7
  <1> HIDE DEF Q
  <1>8. X \in Q
    BY <1>6, <1>7, SetsAll
  <1>9. SumOver(w, X) = SumOver(f, Under(X))
    BY <1>8 DEF Q
  <1>10. QED BY <1>5, <1>9 DEF Under

\* The size of a union of finite sets is the sum of their sizes at most.
LEMMA SizeOfUnion ==
  ASSUME NEW X, IsFiniteSet(X), NEW U, \A x \in X : IsFiniteSet(U[x]),
         NEW c, \A x \in X : c[x] = Cardinality(U[x])
  PROVE  /\ IsFiniteSet(UNION {U[x] : x \in X})
         /\ Cardinality(UNION {U[x] : x \in X}) <= SumOver(c, X)
  <1> DEFINE Joined(J) == UNION {U[x] : x \in J}
             Q == {J \in SUBSET X : IsFiniteSet(Joined(J)) /\ Cardinality(Joined(J)) <= SumOver(c, J)}
  <1>1. Joined({}) = {} /\ \A J, x : Joined(J \union {x}) = Joined(J) \union U[x]
    OBVIOUS
  <1>2. \A x \in X : c[x] \in Int
    BY FS_CardinalityType
  <1> HIDE DEF Joined
  <1>3. {} \in Q
    BY <1>1, SumOfNone, FS_EmptySet
  <1>4. \A J \in SUBSET X : \A x \in X \ J : J \in Q => J \union {x} \in Q
    <2> SUFFICES ASSUME NEW J \in SUBSET X, NEW x \in X \ J, J \in Q PROVE J \union {x} \in Q
      OBVIOUS
    <2>1. SumOver(c, J \union {x}) = c[x] + SumOver(c, J)
      BY <1>2, SumWith
    <2>2. /\ IsFiniteSet(Joined(J)) /\ Cardinality(Joined(J)) <= SumOver(c, J)
          /\ IsFiniteSet(U[x]) /\ c[x] = Cardinality(U[x])
      OBVIOUS
    <2>3. IsFiniteSet(J) /\ \A y \in J : c[y] \in Int
      BY <1>2, FS_Subset
    <2>4. SumOver(c, J) \in Int
      BY <2>3, SumInt
    <2>5. /\ IsFiniteSet(Joined(J) \union U[x])
          /\ Cardinality(Joined(J) \union U[x]) <= Cardinality(Joined(J)) + Cardinality(U[x])
          /\ Cardinality(Joined(J) \union U[x]) \in Nat /\ Cardinality(Joined(J)) \in Nat /\ Cardinality(U[x]) \in Nat
      BY <2>2, SizeOfBoth, FS_CardinalityType
    <2>6. Cardinality(Joined(J) \union U[x]) <= SumOver(c, J \union {x})
      BY <2>1, <2>2, <2>4, <2>5
    <2>7. QED BY <1>1, <2>5, <2>6
  <1> HIDE DEF Q
  <1>5. X \in Q
    BY <1>3, <1>4, SetsAll
  <1>6. QED BY <1>5 DEF Q, Joined

\* The sum of sums, and of zeros.
LEMMA SumPlus ==
  ASSUME NEW S, IsFiniteSet(S), NEW f, NEW h, NEW k,
         \A x \in S : f[x] \in Int /\ h[x] \in Int /\ k[x] = f[x] + h[x]
  PROVE  SumOver(k, S) = SumOver(f, S) + SumOver(h, S)
  <1> DEFINE Q == {T \in SUBSET S : SumOver(k, T) = SumOver(f, T) + SumOver(h, T)}
  <1>0. \A x \in S : f[x] \in Int /\ h[x] \in Int /\ k[x] \in Int
    OBVIOUS
  <1>1. {} \in Q
    BY SumOfNone
  <1>2. \A T \in SUBSET S : \A x \in S \ T : T \in Q => T \union {x} \in Q
    <2> SUFFICES ASSUME NEW T \in SUBSET S, NEW x \in S \ T, T \in Q PROVE T \union {x} \in Q
      OBVIOUS
    <2>1. SumOver(f, T \union {x}) = f[x] + SumOver(f, T) /\ SumOver(h, T \union {x}) = h[x] + SumOver(h, T)
          /\ SumOver(k, T \union {x}) = k[x] + SumOver(k, T)
      BY <1>0, SumWith
    <2>2. IsFiniteSet(T)
      BY FS_Subset
    <2>3. SumOver(f, T) \in Int /\ SumOver(h, T) \in Int
      BY <1>0, <2>2, SumInt
    <2>4. f[x] \in Int /\ h[x] \in Int /\ k[x] = f[x] + h[x] /\ SumOver(k, T) = SumOver(f, T) + SumOver(h, T)
      OBVIOUS
    <2>5. SumOver(k, T \union {x}) = SumOver(f, T \union {x}) + SumOver(h, T \union {x})
      BY <2>1, <2>3, <2>4
    <2>6. QED BY <2>5
  <1> HIDE DEF Q
  <1>3. S \in Q
    BY <1>1, <1>2, SetsAll
  <1>4. QED BY <1>3 DEF Q

\* Nothing adds up to nothing.
LEMMA SumOfZeros ==
  ASSUME NEW S, IsFiniteSet(S), NEW f, \A x \in S : f[x] = 0
  PROVE  SumOver(f, S) = 0
  <1>1. \A x \in S : f[x] \in Int
    OBVIOUS
  <1>2. PICK g : Adds(g, f, S) /\ SumOver(f, S) = g[S]
    BY <1>1, SumThere
  <1>3. S \in SUBSET S
    OBVIOUS
  <1>4. QED BY <1>2, <1>3, SumZero

\* A function with 0 where it had no value has the same sum.
LEMMA SumFilled ==
  ASSUME NEW S, IsFiniteSet(S), NEW f, NEW T \in SUBSET S, \A x \in T : f[x] \in Int,
         NEW h, \A x \in S : h[x] = IF x \in T THEN f[x] ELSE 0
  PROVE  SumOver(h, S) = SumOver(f, T)
  <1>1. PICK U : U = S \ T
    OBVIOUS
  <1>2. /\ IsFiniteSet(T) /\ IsFiniteSet(U) /\ T \intersect U = {} /\ T \union U = S
        /\ \A x \in U : h[x] = 0
    BY <1>1, FS_Subset
  <1>3. \A x \in T \union U : h[x] \in Int
    BY <1>2
  <1>4. SumOver(h, T \union U) = SumOver(h, T) + SumOver(h, U)
    BY <1>2, <1>3, SumOfBoth
  <1>5. SumOver(h, U) = 0
    BY <1>2, SumOfZeros
  <1>6. SumOver(h, T) = SumOver(f, T)
    <2>1. \A x \in T : h[x] \in Int /\ h[x] = f[x]
      BY <1>2
    <2>2. QED BY <1>2, <2>1, SumAlike
  <1>7. SumOver(h, T) \in Int
    BY <1>2, <1>3, SumInt
  <1>8. SumOver(h, T \union U) = SumOver(h, S)
    BY <1>2
  <1>9. QED BY <1>4, <1>5, <1>6, <1>7, <1>8

-----------------------------------------------------------------------------
(* Payroll *)

\* A calculation past its list has a period, has written a line for all that it
\* has listed but what is left, and is done with nothing left.
Progress ==
  \A c \in Calculations : calc[c].pc \in {"writing", "done"} =>
    /\ calc[c].period \in Periods
    /\ \A e \in calc[c].listed \ calc[c].left :
         payLine[calc[c].period][e] \in Lines(c, calc[c].base[e])
    /\ calc[c].pc = "done" => calc[c].left = {}

PayrollInv ==
  /\ PayrollTypeOK
  /\ \A c \in Calculations : calc[c].pc # "idle" => calc[c].period \in Periods
  /\ Progress

\* A figure in twentieths is kept to half of a hundredth.
LEMMA Rounding == ASSUME NEW x \in Int, NEW n \in Nearest(x)
                  PROVE  n \in Int /\ x - 10 <= 20 * n /\ 20 * n <= x + 10
  <1>1. x \div 20 \in Int
    OBVIOUS
  <1>2. n \in Int
    BY <1>1 DEF Nearest
  <1>3. 20 * n \in (x - 10)..(x + 10)
    BY DEF Nearest
  <1>4. QED BY <1>2, <1>3

\* The figures of a line add up to the salary, to a hundredth: exactly they do
\* so, and each is off by half of one at most.
LEMMA LineAddsUp ==
  ASSUME NEW c \in Calculations, NEW s \in Salaries, NEW line \in Lines(c, s)
  PROVE  /\ line \in PayLines /\ line # NoLine
         /\ line.by = c /\ line.base = s
         /\ line.tax + line.security + line.net - line.base \in {-1, 0, 1}
  <1>1. s \in Int /\ Cap \in Int
    BY PayrollAssumption
  <1>2. PICK t \in Nearest(Tax(s)), u \in Nearest(Security(s)), n \in Nearest(Net(s)) :
          line = [base |-> s, tax |-> t, security |-> u, net |-> n, by |-> c]
    BY DEF Lines
  <1>3. Tax(s) \in Int /\ Security(s) \in Int /\ Net(s) \in Int
        /\ Tax(s) + Security(s) + Net(s) = 20 * s
    BY <1>1 DEF Tax, Security, Net
  <1>4. t \in Int /\ Tax(s) - 10 <= 20 * t /\ 20 * t <= Tax(s) + 10
    BY <1>2, <1>3, Rounding
  <1>5. u \in Int /\ Security(s) - 10 <= 20 * u /\ 20 * u <= Security(s) + 10
    BY <1>2, <1>3, Rounding
  <1>6. n \in Int /\ Net(s) - 10 <= 20 * n /\ 20 * n <= Net(s) + 10
    BY <1>2, <1>3, Rounding
  <1>7. t + u + n - s \in {-1, 0, 1}
    BY <1>1, <1>3, <1>4, <1>5, <1>6
  <1>8. line \in PayLines
    BY <1>2, <1>4, <1>5, <1>6 DEF PayLines
  <1>9. line.by = c /\ line.base = s /\ line.tax = t /\ line.security = u /\ line.net = n
    BY <1>2
  <1>10. line # NoLine
    BY <1>9, PayrollAssumption DEF NoLine
  <1>11. QED BY <1>7, <1>8, <1>9, <1>10

\* At first there is no line and no calculation.
LEMMA PayrollInitHolds == PayrollInit => PayrollInv
  BY PayrollAssumption DEF PayrollInit, PayrollInv, PayrollTypeOK, Progress, NoEmployee, NoLine, Off, Calls

\* Requests about employees touch nothing of the payroll.
LEMMA EmployeeStep == PayrollInv /\ EmployeeRequests => PayrollInv'
  <1> SUFFICES ASSUME PayrollInv, EmployeeRequests PROVE PayrollInv'
    OBVIOUS
  <1>1. UNCHANGED <<period, payLine, calc>>
    BY DEF EmployeeRequests
  <1>2. staff' \in [Employees -> [status : EmploymentStatuses \union {"none"}, salary : Salaries]]
    <2>1. PICK e \in Employees, s \in Salaries :
            \/ \E status \in EmploymentStatuses :
                 CreateEmployee(e, s, status) \/ UpdateEmployee(e, s, status)
            \/ DeleteEmployee(e)
      BY DEF EmployeeRequests
    <2>2. staff \in [Employees -> [status : EmploymentStatuses \union {"none"}, salary : Salaries]]
      BY DEF PayrollInv, PayrollTypeOK
    <2>3. ASSUME NEW status \in EmploymentStatuses, CreateEmployee(e, s, status)
          PROVE  staff' \in [Employees -> [status : EmploymentStatuses \union {"none"}, salary : Salaries]]
      BY <2>2, <2>3 DEF CreateEmployee
    <2>4. ASSUME NEW status \in EmploymentStatuses, UpdateEmployee(e, s, status)
          PROVE  staff' \in [Employees -> [status : EmploymentStatuses \union {"none"}, salary : Salaries]]
      BY <2>2, <2>4 DEF UpdateEmployee
    <2>5. CASE DeleteEmployee(e)
      <3>1. staff' = [staff EXCEPT ![e] = [staff[e] EXCEPT !.status = "TERMINATED"]]
        BY <2>5 DEF DeleteEmployee
      <3>2. [staff[e] EXCEPT !.status = "TERMINATED"]
              \in [status : EmploymentStatuses \union {"none"}, salary : Salaries]
        BY <2>2 DEF EmploymentStatuses
      <3>3. QED BY <2>2, <3>1, <3>2
    <2>6. QED BY <2>1, <2>3, <2>4, <2>5
  <1>3. QED BY <1>1, <1>2 DEF PayrollInv, PayrollTypeOK, Progress, Calls

\* A step that writes no line, and changes one calculation at most.
LEMMA OneCall ==
  ASSUME PayrollInv, UNCHANGED <<staff, payLine>>,
         period' \in [Periods -> {"none", "DRAFT", "APPROVED"}],
         NEW c \in Calculations, NEW v \in Calls, calc' = [calc EXCEPT ![c] = v],
         v.pc # "idle" => v.period \in Periods,
         v.pc \in {"writing", "done"} =>
           /\ \A e \in v.listed \ v.left : payLine[v.period][e] \in Lines(c, v.base[e])
           /\ v.pc = "done" => v.left = {}
  PROVE  PayrollInv'
  <1>1. calc' \in [Calculations -> Calls] /\ calc'[c] = v
        /\ \A d \in Calculations \ {c} : calc'[d] = calc[d]
    BY DEF PayrollInv, PayrollTypeOK
  <1>2. PayrollTypeOK'
    BY <1>1 DEF PayrollInv, PayrollTypeOK
  <1>3. ASSUME NEW d \in Calculations
        PROVE  /\ calc'[d].pc # "idle" => calc'[d].period \in Periods
               /\ calc'[d].pc \in {"writing", "done"} =>
                    /\ calc'[d].period \in Periods
                    /\ \A e \in calc'[d].listed \ calc'[d].left :
                         payLine'[calc'[d].period][e] \in Lines(d, calc'[d].base[e])
                    /\ calc'[d].pc = "done" => calc'[d].left = {}
    <2>1. CASE d = c
      BY <2>1, <1>1
    <2>2. CASE d # c
      BY <2>2, <1>1 DEF PayrollInv, Progress
    <2>3. QED BY <2>1, <2>2
  <1>4. Progress'
    BY <1>3 DEF Progress
  <1>5. QED BY <1>2, <1>3, <1>4 DEF PayrollInv

\* Creating or approving a period touches no line.
LEMMA PeriodStep ==
  ASSUME PayrollInv, UNCHANGED staff, NEW p \in Periods, CreatePeriod(p) \/ Approve(p)
  PROVE  PayrollInv'
  <1>1. period' \in [Periods -> {"none", "DRAFT", "APPROVED"}] /\ UNCHANGED <<payLine, calc>>
    BY DEF CreatePeriod, Approve, PayrollInv, PayrollTypeOK
  <1>2. QED BY <1>1 DEF PayrollInv, PayrollTypeOK, Progress, Calls

\* A calculation that found its period has listed nobody.
LEMMA FindStep ==
  ASSUME PayrollInv, UNCHANGED staff, NEW c \in Calculations, NEW p \in Periods, FindPeriod(c, p)
  PROVE  PayrollInv'
  <1> DEFINE v == [pc |-> "found", period |-> p, left |-> {}, listed |-> {}, base |-> Off.base]
  <1>1. v \in Calls /\ v.pc = "found" /\ v.period = p
    <2>1. Off.base = [e \in Employees |-> 0]
      BY DEF Off
    <2>2. QED BY <2>1, PayrollAssumption DEF Calls
  <1>2. calc' = [calc EXCEPT ![c] = v] /\ UNCHANGED <<period, payLine>>
    BY DEF FindPeriod
  <1>3. period' \in [Periods -> {"none", "DRAFT", "APPROVED"}]
    BY <1>2 DEF PayrollInv, PayrollTypeOK
  <1> HIDE DEF v
  <1>4. QED BY <1>1, <1>2, <1>3, OneCall

\* A calculation that listed the employees has all of them left.
LEMMA ListStep ==
  ASSUME PayrollInv, UNCHANGED staff, NEW c \in Calculations, ListEmployees(c)
  PROVE  PayrollInv'
  <1> DEFINE active == {e \in Employees : staff[e].status = "ACTIVE"}
             v == [pc |-> IF active = {} THEN "done" ELSE "writing", period |-> calc[c].period,
                   left |-> active, listed |-> active,
                   base |-> [e \in Employees |-> IF e \in active THEN staff[e].salary ELSE 0]]
  <1>1. calc[c].period \in Periods
    BY DEF PayrollInv, ListEmployees
  <1>2. \A e \in Employees : staff[e].salary \in Salaries
    BY DEF PayrollInv, PayrollTypeOK
  <1>3. v \in Calls
    BY <1>1, <1>2, PayrollAssumption DEF Calls
  <1>4. /\ v.period \in Periods
        /\ \A e \in v.listed \ v.left : payLine[v.period][e] \in Lines(c, v.base[e])
        /\ v.pc = "done" => v.left = {}
    BY <1>1
  <1>5. calc' = [calc EXCEPT ![c] = v] /\ UNCHANGED <<period, payLine>>
    BY DEF ListEmployees
  <1>6. period' \in [Periods -> {"none", "DRAFT", "APPROVED"}]
    BY <1>5 DEF PayrollInv, PayrollTypeOK
  <1> HIDE DEF v
  <1>7. QED BY <1>3, <1>4, <1>5, <1>6, OneCall

\* A calculation that breaks off promises nothing.
LEMMA BreakStep ==
  ASSUME PayrollInv, UNCHANGED staff, NEW c \in Calculations, BreakOff(c)
  PROVE  PayrollInv'
  <1>1. Off \in Calls /\ Off.pc = "idle"
    BY PayrollAssumption DEF Off, Calls
  <1>2. calc' = [calc EXCEPT ![c] = Off] /\ UNCHANGED <<period, payLine>>
    BY DEF BreakOff
  <1>3. period' \in [Periods -> {"none", "DRAFT", "APPROVED"}]
    BY <1>2 DEF PayrollInv, PayrollTypeOK
  <1>4. QED BY <1>1, <1>2, <1>3, OneCall

\* A line that is there is kept; the one that is written was nobody's.
LEMMA LineStep ==
  ASSUME PayrollInv, UNCHANGED staff, NEW c \in Calculations, NEW e \in Employees, CreateLine(c, e)
  PROVE  PayrollInv'
  <1> DEFINE p == calc[c].period
  <1>1. /\ calc[c].pc = "writing" /\ e \in calc[c].left /\ p \in Periods /\ UNCHANGED period
        /\ calc[c] \in Calls
    BY DEF CreateLine, PayrollInv, PayrollTypeOK
  <1>2. CASE Taken(p, e)
    <2>1. Off \in Calls /\ Off.pc = "idle"
      BY PayrollAssumption DEF Off, Calls
    <2>2. calc' = [calc EXCEPT ![c] = Off] /\ UNCHANGED payLine
      BY <1>2 DEF CreateLine
    <2>3. period' \in [Periods -> {"none", "DRAFT", "APPROVED"}]
      BY <1>1 DEF PayrollInv, PayrollTypeOK
    <2>4. QED BY <2>1, <2>2, <2>3, OneCall
  <1>3. CASE ~Taken(p, e)
    <2>1. /\ payLine[p][e] = NoLine
          /\ \E line \in Lines(c, calc[c].base[e]) : payLine' = [payLine EXCEPT ![p][e] = line]
          /\ calc' = [calc EXCEPT ![c].left = @ \ {e},
                                  ![c].pc = IF calc[c].left = {e} THEN "done" ELSE "writing"]
      BY <1>3 DEF CreateLine, Taken
    <2>2. PICK line \in Lines(c, calc[c].base[e]) : payLine' = [payLine EXCEPT ![p][e] = line]
      BY <2>1
    <2>3. line \in PayLines
      <3>1. calc[c].base[e] \in Salaries
        BY <1>1 DEF Calls
      <3>2. QED BY <3>1, LineAddsUp
    <2>4. /\ calc'[c].left = calc[c].left \ {e} /\ calc'[c].period = p
          /\ calc'[c].listed = calc[c].listed /\ calc'[c].base = calc[c].base
          /\ calc'[c].pc = IF calc[c].left = {e} THEN "done" ELSE "writing"
          /\ calc'[c] \in Calls
          /\ \A d \in Calculations \ {c} : calc'[d] = calc[d]
          /\ calc' \in [Calculations -> Calls]
      BY <1>1, <2>1 DEF PayrollInv, PayrollTypeOK, Calls
    <2>5. /\ payLine' \in [Periods -> [Employees -> PayLines \union {NoLine}]]
          /\ payLine'[p][e] = line
          /\ \A q \in Periods, f \in Employees : q # p \/ f # e => payLine'[q][f] = payLine[q][f]
      <3> HIDE DEF p
      <3>1. payLine \in [Periods -> [Employees -> PayLines \union {NoLine}]]
        BY DEF PayrollInv, PayrollTypeOK
      <3>2. QED BY <1>1, <2>2, <2>3, <3>1
    <2>6. PayrollTypeOK'
      BY <1>1, <2>4, <2>5 DEF PayrollInv, PayrollTypeOK
    <2>7. ASSUME NEW d \in Calculations, calc'[d].pc \in {"writing", "done"}
          PROVE  /\ calc'[d].period \in Periods
                 /\ \A f \in calc'[d].listed \ calc'[d].left :
                      payLine'[calc'[d].period][f] \in Lines(d, calc'[d].base[f])
                 /\ calc'[d].pc = "done" => calc'[d].left = {}
      <3>1. /\ calc[d].pc \in {"writing", "done"} /\ calc[d].period \in Periods
            /\ calc'[d].period = calc[d].period /\ calc'[d].base = calc[d].base
            /\ calc'[d].listed = calc[d].listed
            /\ calc[d].listed \subseteq Employees /\ calc[d].base \in [Employees -> Salaries]
        BY <1>1, <2>4, <2>7 DEF PayrollInv, PayrollTypeOK, Calls
      <3>2. ASSUME NEW f \in calc[d].listed \ calc[d].left
            PROVE  payLine'[calc[d].period][f] \in Lines(d, calc[d].base[f])
        <4>1. payLine[calc[d].period][f] \in Lines(d, calc[d].base[f])
          BY <3>1, <3>2 DEF PayrollInv, Progress
        <4>2. payLine[calc[d].period][f] # NoLine
          BY <3>1, <4>1, LineAddsUp
        <4>3. calc[d].period # p \/ f # e
          BY <2>1, <4>2
        <4>4. QED BY <2>5, <3>1, <4>1, <4>3
      <3>3. \A f \in calc'[d].listed \ calc'[d].left :
              payLine'[calc'[d].period][f] \in Lines(d, calc'[d].base[f])
        <4>1. CASE d = c
          BY <4>1, <2>2, <2>4, <2>5, <3>1, <3>2
        <4>2. CASE d # c
          BY <4>2, <2>4, <3>1, <3>2
        <4>3. QED BY <4>1, <4>2
      <3>4. calc'[d].pc = "done" => calc'[d].left = {}
        BY <2>4 DEF PayrollInv, Progress
      <3>5. QED BY <3>1, <3>3, <3>4
    <2>8. \A d \in Calculations : calc'[d].pc # "idle" => calc'[d].period \in Periods
      BY <1>1, <2>4 DEF PayrollInv
    <2>9. Progress'
      BY <2>7 DEF Progress
    <2>10. QED BY <2>6, <2>8, <2>9 DEF PayrollInv
  <1>4. QED BY <1>2, <1>3

\* Every step keeps the invariant of the payroll.
LEMMA PayrollStepHolds == PayrollInv /\ [PayrollNext]_payrollVars => PayrollInv'
  <1> SUFFICES ASSUME PayrollInv, [PayrollNext]_payrollVars PROVE PayrollInv'
    OBVIOUS
  <1>1. CASE EmployeeRequests
    BY <1>1, EmployeeStep
  <1>2. CASE PayrollRequests
    BY <1>2, PeriodStep, FindStep, ListStep, BreakStep, LineStep DEF PayrollRequests
  <1>3. CASE UNCHANGED payrollVars
    BY <1>3 DEF payrollVars, PayrollInv, PayrollTypeOK, Progress, Calls
  <1>4. QED BY <1>1, <1>2, <1>3 DEF PayrollNext

\* The invariant of the payroll holds.
LEMMA PayrollInvHolds == PayrollSpec => []PayrollInv
  BY PayrollInitHolds, PayrollStepHolds, PTL DEF PayrollSpec

\* The variables of the payroll keep their shape, whatever requests about employees,
\* periods and calculations interleave (employees.service.ts, payroll.service.ts).
THEOREM PayrollTypeCorrect == PayrollSpec => []PayrollTypeOK
  <1>1. PayrollInv => PayrollTypeOK
    BY DEF PayrollInv
  <1>2. QED BY <1>1, PayrollInvHolds, PTL

\* A calculation that was answered has written each of its lines, of the salary
\* that it read and with figures that make it up to a hundredth, and nothing
\* replaces them afterwards: calculate in payroll.service.ts, for every salary of
\* either sign, however many run at once and wherever they break off.
THEOREM PaidOnceCorrect == PayrollSpec => []PaidOnce
  <1>1. PayrollInv => PaidOnce
    <2> SUFFICES ASSUME PayrollInv, NEW c \in Calculations, calc[c].pc = "done",
                        NEW e \in calc[c].listed
                 PROVE  LET line == payLine[calc[c].period][e] IN
                        /\ line.by = c /\ line.base = calc[c].base[e]
                        /\ line.tax + line.security + line.net - line.base \in {-1, 0, 1}
      BY DEF PaidOnce
    <2>1. e \in Employees /\ calc[c].base[e] \in Salaries
      BY DEF PayrollInv, PayrollTypeOK, Calls
    <2>2. payLine[calc[c].period][e] \in Lines(c, calc[c].base[e])
      BY <2>1 DEF PayrollInv, Progress
    <2>3. QED BY <2>1, <2>2, LineAddsUp
  <1>2. QED BY <1>1, PayrollInvHolds, PTL

\* A line, once written, is never written again: the unique key of the table.
THEOREM LinesKept ==
  PayrollSpec => [][\A p \in Periods, e \in Employees :
                      payLine[p][e] # NoLine => payLine'[p][e] = payLine[p][e]]_payrollVars
  <1> DEFINE Kept == \A p \in Periods, e \in Employees :
                       payLine[p][e] # NoLine => payLine'[p][e] = payLine[p][e]
  <1>1. ASSUME PayrollInv, [PayrollNext]_payrollVars PROVE [Kept]_payrollVars
    <2>1. CASE UNCHANGED payLine
      BY <2>1
    <2>2. ASSUME NEW c \in Calculations, NEW e \in Employees, CreateLine(c, e) PROVE Kept
      <3>1. calc[c].period \in Periods
        BY <1>1, <2>2 DEF PayrollInv, CreateLine
      <3>2. \/ UNCHANGED payLine
            \/ /\ payLine[calc[c].period][e] = NoLine
               /\ \E line \in Lines(c, calc[c].base[e]) :
                    payLine' = [payLine EXCEPT ![calc[c].period][e] = line]
        BY <2>2 DEF CreateLine, Taken
      <3>3. CASE UNCHANGED payLine
        BY <3>3
      <3>4. ASSUME payLine[calc[c].period][e] = NoLine,
                   NEW line, payLine' = [payLine EXCEPT ![calc[c].period][e] = line]
            PROVE  Kept
        BY <1>1, <3>1, <3>4 DEF PayrollInv, PayrollTypeOK
      <3>5. QED BY <3>2, <3>3, <3>4
    <2>3. CASE EmployeeRequests
      BY <2>1, <2>3 DEF EmployeeRequests
    <2>4. CASE PayrollRequests
      BY <2>1, <2>2, <2>4 DEF PayrollRequests, CreatePeriod, Approve, FindPeriod, ListEmployees, BreakOff
    <2>5. CASE UNCHANGED payrollVars
      BY <2>5
    <2>6. QED BY <1>1, <2>3, <2>4, <2>5 DEF PayrollNext
  <1>2. QED BY <1>1, PayrollInvHolds, PTL DEF PayrollSpec

-----------------------------------------------------------------------------
(* Workplace *)

HourRows == [in : Int, out : Int, hours : Int]

\* The dates of records are in the past, as their clock-ins are; a clock-out
\* under way is about a record that is there, and has its clock-in unless
\* somebody clocked in again.
HoursInv ==
  /\ clock \in Nat
  /\ \A e \in Workers : record[e] \in [DOMAIN record[e] -> HourRows]
  /\ DOMAIN record = Workers /\ record = [e \in Workers |-> record[e]]
  /\ \A e \in Workers : \A d \in DOMAIN record[e] : record[e][d].in <= clock
  /\ clockOut # Out =>
       /\ clockOut = [pc |-> "found", of |-> clockOut.of, date |-> clockOut.date, in |-> clockOut.in]
       /\ clockOut.of \in Workers /\ clockOut.date \in DOMAIN record[clockOut.of]
       /\ clockOut.in \in Int /\ clockOut.in <= clock
       /\ <<clockOut.of, clockOut.date>> \notin raced => clockOut.in = record[clockOut.of][clockOut.date].in
  /\ HoursTrue

\* At first nobody has clocked in.
LEMMA HoursInit == WorkplaceInit => HoursInv
  BY DEF WorkplaceInit, HoursInv, HoursTrue, None

\* A clock-in starts a record or, within its millisecond, marks it as raced.
LEMMA ClockInStep == ASSUME HoursInv, NEW e \in Workers, ClockIn(e), UNCHANGED clock PROVE HoursInv'
  <1>1. PICK asked \in Readings, dated \in Readings, in \in Readings :
          /\ \/ /\ asked \in DOMAIN record[e]
                /\ record' = [record EXCEPT ![e][asked].in = in]
             \/ /\ {asked, dated} \intersect DOMAIN record[e] = {}
                /\ record' = [record EXCEPT ![e] = Put(@, dated, [in |-> in, out |-> -1, hours |-> 0])]
          /\ raced' = raced \union ({<<e, asked>>} \intersect {<<e, d>> : d \in DOMAIN record[e]})
          /\ UNCHANGED clockOut
    BY DEF ClockIn, Day
  <1>2. in \in Int /\ in <= clock /\ clock \in Nat
    BY DEF HoursInv, Readings
  <1>3. \A f \in Workers : record[f] \in [DOMAIN record[f] -> HourRows]
    BY DEF HoursInv
  \* The record that changes is among those clocked in again.
  <1>4. CASE asked \in DOMAIN record[e] /\ record' = [record EXCEPT ![e][asked].in = in]
    <2>1. /\ DOMAIN record' = Workers /\ record' = [f \in Workers |-> record'[f]]
          /\ \A f \in Workers \ {e} : record'[f] = record[f]
          /\ record'[e] = [record[e] EXCEPT ![asked].in = in]
      BY <1>4 DEF HoursInv
    <2>2. /\ DOMAIN record'[e] = DOMAIN record[e]
          /\ \A d \in DOMAIN record[e] : d # asked => record'[e][d] = record[e][d]
          /\ record'[e][asked] = [record[e][asked] EXCEPT !.in = in]
      BY <1>3, <1>4, <2>1
    <2>3. record'[e][asked] \in HourRows /\ record'[e][asked].in = in
      BY <1>2, <1>3, <1>4, <2>2 DEF HourRows
    <2>4. record'[e] \in [DOMAIN record'[e] -> HourRows]
      BY <1>3, <1>4, <2>1, <2>2, <2>3
    <2>5. <<e, asked>> \in raced' /\ raced \subseteq raced'
      BY <1>1, <1>4
    <2>6. \A f \in Workers : DOMAIN record'[f] = DOMAIN record[f]
      BY <2>1, <2>2
    <2>7. \A f \in Workers : \A d \in DOMAIN record[f] :
            <<f, d>> # <<e, asked>> => record'[f][d] = record[f][d]
      BY <2>1, <2>2
    <2>8. HoursTrue'
      BY <2>5, <2>6, <2>7 DEF HoursInv, HoursTrue
    <2>9. \A f \in Workers : \A d \in DOMAIN record'[f] : record'[f][d].in <= clock
      BY <1>2, <2>1, <2>2, <2>3 DEF HoursInv
    <2>10. \A f \in Workers : record'[f] \in [DOMAIN record'[f] -> HourRows]
      BY <1>3, <2>1, <2>4
    <2>11. QED BY <1>1, <2>1, <2>5, <2>6, <2>7, <2>8, <2>9, <2>10 DEF HoursInv
  <1>5. CASE /\ {asked, dated} \intersect DOMAIN record[e] = {}
             /\ record' = [record EXCEPT ![e] = Put(@, dated, [in |-> in, out |-> -1, hours |-> 0])]
    <2> DEFINE new == [in |-> in, out |-> -1, hours |-> 0]
    <2>1. /\ DOMAIN record' = Workers /\ record' = [f \in Workers |-> record'[f]]
          /\ \A f \in Workers \ {e} : record'[f] = record[f]
          /\ record'[e] = Put(record[e], dated, new)
      BY <1>5 DEF HoursInv
    <2>2. new \in HourRows /\ new.in = in /\ new.out = -1
      BY <1>2 DEF HourRows
    <2> HIDE DEF new
    <2>3. /\ DOMAIN record'[e] = DOMAIN record[e] \union {dated}
          /\ \A d \in DOMAIN record[e] : record'[e][d] = record[e][d]
          /\ record'[e][dated] = new
      BY <1>5, <2>1 DEF Put
    <2>4. record'[e] \in [DOMAIN record'[e] -> HourRows]
      BY <1>3, <2>1, <2>2, <2>3 DEF Put
    <2>5. UNCHANGED <<raced, clockOut>>
      BY <1>1, <1>5
    <2>6. HoursTrue'
      BY <2>1, <2>2, <2>3, <2>5 DEF HoursInv, HoursTrue
    <2>7. \A f \in Workers : \A d \in DOMAIN record'[f] : record'[f][d].in <= clock
      BY <1>2, <2>1, <2>2, <2>3 DEF HoursInv
    <2>8. \A f \in Workers : record'[f] \in [DOMAIN record'[f] -> HourRows]
      BY <1>3, <2>1, <2>4
    <2>9. clockOut # Out => /\ clockOut.date \in DOMAIN record'[clockOut.of]
                            /\ record'[clockOut.of][clockOut.date] = record[clockOut.of][clockOut.date]
      BY <2>1, <2>3 DEF HoursInv
    <2>10. QED BY <2>1, <2>5, <2>6, <2>7, <2>8, <2>9 DEF HoursInv
  <1>6. QED BY <1>1, <1>4, <1>5

\* The hundredths of an hour that a span is kept as are off by half of one at most.
LEMMA HundredthsClose ==
  ASSUME NEW span \in Int
  PROVE  /\ HundredthsOf(span) \in Int
         /\ 36000 * HundredthsOf(span) \in (span - 18000)..(span + 18000)
  BY DEF HundredthsOf

\* A clock-out closes the record it found, with the clock-in it read.
LEMMA ClockOutStep == ASSUME HoursInv, WriteClockOut, UNCHANGED clock PROVE HoursInv'
  <1> DEFINE e == clockOut.of
             k == clockOut.date
             span == clock - clockOut.in
             hours == HundredthsOf(span)
  <1>1. /\ e \in Workers /\ k \in DOMAIN record[e] /\ clockOut.in \in Int /\ clockOut.in <= clock
        /\ <<e, k>> \notin raced => clockOut.in = record[e][k].in
        /\ clock \in Nat /\ record[e] \in [DOMAIN record[e] -> HourRows]
    BY DEF HoursInv, WriteClockOut
  <1>2. /\ span \in Int /\ hours \in Int /\ span >= 0
        /\ 36000 * hours \in (span - 18000)..(span + 18000)
    <2>1. span \in Int /\ span >= 0
      BY <1>1
    <2> HIDE DEF span
    <2>2. QED BY <2>1, HundredthsClose
  <1>3. /\ record' = [record EXCEPT ![e][k] = [@ EXCEPT !.out = clock, !.hours = hours]]
        /\ clockOut' = Out /\ UNCHANGED raced
    BY DEF WriteClockOut
  <1>4. /\ DOMAIN record' = Workers /\ record' = [f \in Workers |-> record'[f]]
        /\ \A f \in Workers \ {e} : record'[f] = record[f]
        /\ record'[e] = [record[e] EXCEPT ![k] = [@ EXCEPT !.out = clock, !.hours = hours]]
    BY <1>1, <1>3 DEF HoursInv
  <1>5. /\ DOMAIN record'[e] = DOMAIN record[e]
        /\ \A d \in DOMAIN record[e] : d # k => record'[e][d] = record[e][d]
        /\ record'[e][k] = [record[e][k] EXCEPT !.out = clock, !.hours = hours]
    BY <1>1, <1>4
  <1>6. /\ record'[e][k] \in HourRows /\ record'[e][k].out = clock /\ record'[e][k].hours = hours
        /\ record'[e][k].in = record[e][k].in
    <2>1. record[e][k] \in HourRows
      BY <1>1
    <2>2. clock \in Int /\ hours \in Int
      BY <1>1, <1>2
    <2> DEFINE old == record[e][k]
               closed == record'[e][k]
    <2>3. old \in HourRows /\ closed = [old EXCEPT !.out = clock, !.hours = hours]
      BY <1>5, <2>1
    <2> HIDE DEF hours, old, closed
    <2>4. closed \in HourRows /\ closed.out = clock /\ closed.hours = hours /\ closed.in = old.in
      BY <2>2, <2>3 DEF HourRows
    <2>5. QED BY <2>4 DEF old, closed
  <1>7. record'[e] \in [DOMAIN record'[e] -> HourRows]
    BY <1>1, <1>4, <1>5, <1>6
  <1>8. HoursTrue'
    <2> SUFFICES ASSUME NEW f \in Workers, NEW d \in DOMAIN record'[f],
                        record'[f][d].out >= 0, <<f, d>> \notin raced
                 PROVE  LET lapse == record'[f][d].out - record'[f][d].in IN
                        /\ lapse >= 0
                        /\ 36000 * record'[f][d].hours \in (lapse - 18000)..(lapse + 18000)
      BY <1>3 DEF HoursTrue
    <2>1. CASE f = e /\ d = k
      <3>1. record'[f][d].out = clock /\ record'[f][d].in = clockOut.in /\ record'[f][d].hours = hours
        BY <1>1, <1>3, <1>6, <2>1
      <3> HIDE DEF hours
      <3>2. QED BY <1>2, <3>1
    <2>2. CASE ~(f = e /\ d = k)
      <3>1. d \in DOMAIN record[f] /\ record'[f][d] = record[f][d]
        BY <1>4, <1>5, <2>2
      <3>2. QED BY <3>1 DEF HoursInv, HoursTrue
    <2>3. QED BY <2>1, <2>2
  <1>9. \A f \in Workers : \A d \in DOMAIN record'[f] : record'[f][d].in <= clock
    BY <1>1, <1>4, <1>5, <1>6 DEF HoursInv
  <1>10. \A f \in Workers : record'[f] \in [DOMAIN record'[f] -> HourRows]
    BY <1>4, <1>7 DEF HoursInv
  <1>11. QED
    <2>1. /\ clock' \in Nat /\ clockOut' = Out /\ DOMAIN record' = Workers
          /\ record' = [f \in Workers |-> record'[f]] /\ clock' = clock
      BY <1>1, <1>3, <1>4
    <2>2. QED BY <2>1, <1>8, <1>9, <1>10 DEF HoursInv

\* Every step keeps the invariant of the attendance.
LEMMA HoursStep == HoursInv /\ [WorkplaceNext]_workplaceVars => HoursInv'
  <1> SUFFICES ASSUME HoursInv, [WorkplaceNext]_workplaceVars PROVE HoursInv'
    OBVIOUS
  <1>1. CASE UNCHANGED <<clock, record, clockOut, raced>>
    BY <1>1 DEF HoursInv, HoursTrue
  <1>2. CASE Tick
    <2>1. clock \in Nat /\ clock' \in Nat /\ clock < clock' /\ UNCHANGED <<record, clockOut, raced>>
      BY <1>2, WorkplaceAssumption DEF Tick, HoursInv
    <2>2. \A e \in Workers : \A d \in DOMAIN record[e] : record[e][d].in \in Int
      BY DEF HoursInv, HourRows
    <2>3. \A e \in Workers : \A d \in DOMAIN record[e] : record[e][d].in <= clock'
      BY <2>1, <2>2 DEF HoursInv
    <2>4. clockOut # Out => clockOut.in <= clock'
      BY <2>1 DEF HoursInv
    <2>5. QED BY <2>1, <2>3, <2>4 DEF HoursInv, HoursTrue
  <1>3. ASSUME NEW e \in Workers, ClockIn(e), UNCHANGED clock PROVE HoursInv'
    BY <1>3, ClockInStep
  <1>4. ASSUME NEW e \in Workers, FindRecord(e), UNCHANGED clock PROVE HoursInv'
    <2>1. PICK asked \in Readings :
            /\ asked \in DOMAIN record[e]
            /\ clockOut' = [pc |-> "found", of |-> e, date |-> asked, in |-> record[e][asked].in]
            /\ UNCHANGED <<record, raced>>
      BY <1>4 DEF FindRecord, Day
    <2>2. record[e][asked].in \in Int /\ record[e][asked].in <= clock
      BY <2>1 DEF HoursInv, HourRows
    <2>3. QED BY <1>4, <2>1, <2>2 DEF HoursInv, HoursTrue
  <1>5. CASE WriteClockOut /\ UNCHANGED clock
    BY <1>5, ClockOutStep
  <1>6. QED BY <1>1, <1>2, <1>3, <1>4, <1>5
            DEF WorkplaceNext, DepartmentRequests, AttendanceRequests, workplaceVars

\* The hours of a closed record are those between its own clock-in and clock-out,
\* as near as the column keeps them, and no clock-out precedes its clock-in,
\* however clock-ins fall between the look-up of clockOut and its update in
\* attendance.service.ts, but for one within the millisecond.
THEOREM HoursTrueCorrect == WorkplaceSpec => []HoursTrue
  <1>1. HoursInv => HoursTrue
    BY DEF HoursInv
  <1>2. QED BY <1>1, HoursInit, HoursStep, PTL DEF WorkplaceSpec

\* The departments from which the parents of parents lead to a root in n steps.
Ways(n) == [0..n -> DOMAIN parent]
LeadsUp(p, n) == p[n] \in Roots /\ \A i \in 0..(n - 1) : p[i + 1] = parent[p[i]]
Depth == [n \in Nat |-> {d \in DOMAIN parent : \E p \in Ways(n) : p[0] = d /\ LeadsUp(p, n)}]

IsLevel(h) == h = [n \in Nat |-> IF n = 0 THEN Roots ELSE {d \in DOMAIN parent : parent[d] \in h[n - 1]}]

\* The levels of the tree, as getTree puts it together, exist.
LEMMA LevelsThere == \E h : IsLevel(h)
  <1>1. Depth[0] = Roots
    <2>1. ASSUME NEW d \in Roots PROVE d \in Depth[0]
      <3>1. [i \in 0..0 |-> d] \in Ways(0) /\ LeadsUp([i \in 0..0 |-> d], 0)
        BY DEF Ways, LeadsUp, Roots
      <3>2. QED BY <2>1, <3>1 DEF Depth, Roots
    <2>2. ASSUME NEW d \in Depth[0] PROVE d \in Roots
      BY DEF Depth, LeadsUp
    <2>3. QED BY <2>1, <2>2
  <1>2. ASSUME NEW n \in Nat, n # 0
        PROVE  Depth[n] = {d \in DOMAIN parent : parent[d] \in Depth[n - 1]}
    <2>0. n - 1 \in Nat
      BY <1>2
    <2>1. ASSUME NEW d \in Depth[n] PROVE d \in DOMAIN parent /\ parent[d] \in Depth[n - 1]
      <3>1. PICK p \in Ways(n) : p[0] = d /\ LeadsUp(p, n)
        BY DEF Depth
      <3> DEFINE q == [i \in 0..(n - 1) |-> p[i + 1]]
      <3>2. \A i \in 0..(n - 1) : i \in 0..n /\ i + 1 \in 0..n
        BY <2>0
      <3>3. q \in Ways(n - 1)
        BY <3>1, <3>2 DEF Ways
      <3>4. q[n - 1] \in Roots
        <4>1. q[n - 1] = p[(n - 1) + 1] /\ (n - 1) + 1 = n
          BY <2>0
        <4>2. QED BY <3>1, <4>1 DEF LeadsUp
      <3>5. ASSUME NEW i \in 0..(n - 1 - 1) PROVE q[i + 1] = parent[q[i]]
        <4>1. i \in 0..(n - 1) /\ i + 1 \in 0..(n - 1)
          BY <2>0
        <4>2. q[i + 1] = p[(i + 1) + 1] /\ q[i] = p[i + 1]
          BY <4>1
        <4>3. p[(i + 1) + 1] = parent[p[i + 1]]
          BY <3>1, <4>1 DEF LeadsUp
        <4>4. QED BY <4>2, <4>3
      <3>6. q[0] = parent[d] /\ q[0] \in DOMAIN parent
        <4>1. 0 \in 0..(n - 1) /\ 0 + 1 = 1
          BY <2>0
        <4>2. q[0] = p[0 + 1] /\ p[0 + 1] = parent[p[0]]
          BY <3>1, <4>1 DEF LeadsUp
        <4>3. q[0] \in DOMAIN parent
          BY <3>3, <4>1 DEF Ways
        <4>4. QED BY <3>1, <4>2, <4>3
      <3> HIDE DEF q
      <3>7. parent[d] \in Depth[n - 1]
        BY <2>0, <3>3, <3>4, <3>5, <3>6 DEF Depth, LeadsUp
      <3>8. QED BY <3>7 DEF Depth
    <2>2. ASSUME NEW d \in DOMAIN parent, parent[d] \in Depth[n - 1] PROVE d \in Depth[n]
      <3>1. PICK p \in Ways(n - 1) : p[0] = parent[d] /\ LeadsUp(p, n - 1)
        BY <2>0, <2>2 DEF Depth
      <3> DEFINE q == [i \in 0..n |-> IF i = 0 THEN d ELSE p[i - 1]]
      <3>2. \A i \in 0..n : i # 0 => i - 1 \in 0..(n - 1)
        OBVIOUS
      <3>3. q \in Ways(n)
        BY <3>1, <3>2 DEF Ways
      <3>4. q[n] = p[n - 1] /\ q[0] = d
        BY <1>2
      <3>5. ASSUME NEW i \in 0..(n - 1) PROVE q[i + 1] = parent[q[i]]
        <4>1. i + 1 \in 0..n /\ i + 1 # 0 /\ (i + 1) - 1 = i /\ i \in 0..n
          OBVIOUS
        <4>2. q[i + 1] = p[i]
          BY <4>1
        <4>3. CASE i = 0
          BY <3>1, <3>4, <4>2, <4>3
        <4>4. CASE i # 0
          <5>1. i - 1 \in 0..(n - 1 - 1) /\ (i - 1) + 1 = i
            BY <4>4
          <5>2. p[(i - 1) + 1] = parent[p[i - 1]]
            BY <3>1, <5>1 DEF LeadsUp
          <5>3. q[i] = p[i - 1]
            BY <4>1, <4>4
          <5>4. QED BY <4>2, <5>1, <5>2, <5>3
        <4>5. QED BY <4>3, <4>4
      <3> HIDE DEF q
      <3>6. LeadsUp(q, n)
        BY <3>1, <3>4, <3>5 DEF LeadsUp
      <3>7. QED BY <3>3, <3>4, <3>6 DEF Depth
    <2>3. Depth[n] \subseteq DOMAIN parent
      BY DEF Depth
    <2>4. QED BY <2>1, <2>2, <2>3
  <1>3. Depth = [n \in Nat |-> Depth[n]]
    BY DEF Depth
  <1>4. \A n \in Nat : Depth[n] = IF n = 0 THEN Roots ELSE {d \in DOMAIN parent : parent[d] \in Depth[n - 1]}
    BY <1>1, <1>2
  <1>5. IsLevel(Depth)
    BY <1>3, <1>4 DEF IsLevel
  <1>6. QED BY <1>5

\* The level after as many as there are departments is empty: no two levels have a
\* department in common, and a level that is not empty has none before it that is.
LEMMA LastLevel ==
  ASSUME NEW h, IsLevel(h), IsFiniteSet(DOMAIN parent)
  PROVE  LET n == Cardinality(DOMAIN parent) IN n \in Nat /\ h[n] = {}
  <1> DEFINE n == Cardinality(DOMAIN parent)
             D == DOMAIN parent
  <1>0. n \in Nat
    BY FS_CardinalityType
  <1>1. h[0] = Roots /\ \A k \in Nat : h[k + 1] = {d \in D : parent[d] \in h[k]}
    <2>1. h[0] = Roots
      BY DEF IsLevel
    <2>2. ASSUME NEW k \in Nat PROVE h[k + 1] = {d \in D : parent[d] \in h[k]}
      <3>1. k + 1 \in Nat /\ k + 1 # 0 /\ (k + 1) - 1 = k
        OBVIOUS
      <3>2. h[k + 1] = {d \in D : parent[d] \in h[(k + 1) - 1]}
        BY <3>1 DEF IsLevel
      <3>3. QED BY <3>1, <3>2
    <2>3. QED BY <2>1, <2>2
  <1>2. \A k \in Nat : h[k] \subseteq D
    <2>1. \A k \in Nat : k = 0 \/ (k - 1 \in Nat /\ (k - 1) + 1 = k)
      OBVIOUS
    <2>2. h[0] \subseteq D
      BY <1>1 DEF Roots
    <2>3. \A k \in Nat : h[k + 1] \subseteq D
      BY <1>1
    <2>4. QED BY <2>1, <2>2, <2>3
  \* No department is on two levels.
  <1> DEFINE Apart == {k \in Nat : \A l \in Nat : l > k => h[k] \intersect h[l] = {}}
  <1>3. 0 \in Apart
    <2> SUFFICES ASSUME NEW l \in Nat, l > 0 PROVE h[0] \intersect h[l] = {}
      OBVIOUS
    <2>1. l - 1 \in Nat /\ (l - 1) + 1 = l
      OBVIOUS
    <2>2. h[l] = {d \in D : parent[d] \in h[l - 1]}
      BY <1>1, <2>1
    <2>3. h[l - 1] \subseteq D
      BY <1>2, <2>1
    <2>4. QED BY <1>1, <2>2, <2>3 DEF Roots
  <1>4. \A k \in Nat : k \in Apart => k + 1 \in Apart
    <2> SUFFICES ASSUME NEW k \in Nat, k \in Apart, NEW l \in Nat, l > k + 1 PROVE h[k + 1] \intersect h[l] = {}
      OBVIOUS
    <2>1. l - 1 \in Nat /\ (l - 1) + 1 = l /\ l - 1 > k
      OBVIOUS
    <2>2. h[l] = {d \in D : parent[d] \in h[l - 1]}
      BY <1>1, <2>1
    <2>3. h[k] \intersect h[l - 1] = {}
      BY <2>1
    <2>4. QED BY <1>1, <2>2, <2>3
  <1> HIDE DEF Apart
  <1>5. \A k \in Nat : k \in Apart
    BY <1>3, <1>4, NumbersAll
  <1>6. \A k, l \in Nat : k # l => h[k] \intersect h[l] = {}
    <2> SUFFICES ASSUME NEW k \in Nat, NEW l \in Nat, k # l PROVE h[k] \intersect h[l] = {}
      OBVIOUS
    <2>1. k < l \/ l < k
      OBVIOUS
    <2>2. QED BY <1>5, <2>1 DEF Apart
  \* A level with a department has one before it with a department.
  <1> DEFINE Filled == {k \in Nat : h[k] # {} => \A l \in 0..k : h[l] # {}}
  <1>7. 0 \in Filled
    OBVIOUS
  <1>8. \A k \in Nat : k \in Filled => k + 1 \in Filled
    <2> SUFFICES ASSUME NEW k \in Nat, k \in Filled, h[k + 1] # {}, NEW l \in 0..(k + 1) PROVE h[l] # {}
      OBVIOUS
    <2>1. h[k] # {}
      BY <1>1
    <2>2. l \in 0..k \/ l = k + 1
      OBVIOUS
    <2>3. QED BY <2>1, <2>2
  <1> HIDE DEF Filled
  <1>9. \A k \in Nat : k \in Filled
    BY <1>7, <1>8, NumbersAll
  <1>10. SUFFICES ASSUME h[n] # {} PROVE FALSE
    BY <1>0
  <1>11. \A l \in 0..n : h[l] # {} /\ h[l] \subseteq D
    BY <1>0, <1>2, <1>9, <1>10 DEF Filled
  <1> DEFINE f == [l \in 0..n |-> CHOOSE d \in h[l] : TRUE]
  <1>12. f \in [0..n -> D] /\ \A l \in 0..n : f[l] \in h[l]
    BY <1>11
  <1>13. IsFiniteSet(0..n) /\ Cardinality(D) < Cardinality(0..n)
    <2>1. 0 \in Int /\ n \in Int /\ ~(0 > n) /\ n < n - 0 + 1
      BY <1>0
    <2>2. QED BY <2>1, FS_Interval
  <1> HIDE DEF f
  <1>14. PICK k \in 0..n, l \in 0..n : k # l /\ f[k] = f[l]
    BY <1>12, <1>13, FS_PigeonHole
  <1>15. QED BY <1>0, <1>6, <1>12, <1>14

\* A department that the tree leaves out has a parent that it leaves out.
LEMMA TreeHolds == ASSUME IsFiniteSet(DOMAIN parent) PROVE TreeComplete
  <1> DEFINE n == Cardinality(DOMAIN parent)
  <1>1. PICK h : IsLevel(h) /\ Tree = UNION {h[k] : k \in 0..n}
    <2>1. Tree = UNION {(CHOOSE h : IsLevel(h))[k] : k \in 0..n}
      BY DEF Tree, IsLevel
    <2>2. QED BY <2>1, LevelsThere
  <1>2. n \in Nat /\ h[n] = {}
    BY <1>1, LastLevel
  <1> HIDE DEF n
  <1> SUFFICES ASSUME NEW d \in DOMAIN parent, d \notin Tree
               PROVE  parent[d] \in DOMAIN parent /\ parent[d] \notin Tree
    BY DEF TreeComplete
  <1>3. d \notin Roots
    <2>1. 0 \in 0..n /\ h[0] = Roots
      BY <1>1, <1>2 DEF IsLevel
    <2>2. QED BY <1>1, <2>1
  <1>4. ASSUME NEW k \in 0..n, parent[d] \in h[k] PROVE FALSE
    <2>1. k # n
      BY <1>2, <1>4
    <2>2. k + 1 \in 0..n /\ k + 1 \in Nat /\ k + 1 # 0 /\ (k + 1) - 1 = k
      BY <1>2, <2>1
    <2>3. h[k + 1] = {c \in DOMAIN parent : parent[c] \in h[(k + 1) - 1]}
      BY <1>1, <2>2 DEF IsLevel
    <2>4. d \in h[k + 1]
      BY <1>4, <2>2, <2>3
    <2>5. QED BY <1>1, <2>2, <2>4
  <1>5. QED BY <1>1, <1>3, <1>4 DEF Roots

\* The tree of departments leaves one out only when its parents go round in a
\* circle: getTree of departments.service.ts, for any parents that create and
\* update write.
THEOREM TreeCompleteCorrect == WorkplaceSpec => []TreeComplete
  <1> DEFINE Inv == IsFiniteSet(DOMAIN parent)
  <1>1. WorkplaceInit => Inv
    BY FS_EmptySet DEF WorkplaceInit, None
  <1>2. Inv /\ [WorkplaceNext]_workplaceVars => Inv'
    <2> SUFFICES ASSUME Inv, [WorkplaceNext]_workplaceVars PROVE Inv'
      OBVIOUS
    <2>1. CASE UNCHANGED parent
      BY <2>1
    <2>2. CASE DepartmentRequests
      <3>1. PICK d \in Departments, p \in Departments \union {NoOne} : parent' = Put(parent, d, p)
        BY <2>2 DEF DepartmentRequests
      <3>2. DOMAIN parent' = DOMAIN parent \union {d}
        BY <3>1 DEF Put
      <3>3. QED BY <3>2, FS_AddElement
    <2>3. QED BY <2>1, <2>2 DEF WorkplaceNext, AttendanceRequests, Tick, workplaceVars
  <1>3. Inv => TreeComplete
    BY TreeHolds
  <1>4. QED BY <1>1, <1>2, <1>3, PTL DEF WorkplaceSpec

-----------------------------------------------------------------------------
(* Ledger: the seeds *)

RowKinds == {"none", "default", "custom"}

\* A row that a seed found stays as it was; of the default rows, those that the
\* seed has gone past are there, unless an insertion failed.
SeedsInv ==
  /\ row \in [Tables -> [Codes -> RowKinds]]
  /\ hadRow \in [was : [Tables -> [Codes -> RowKinds]], failed : BOOLEAN]
  /\ seed \in [pc : {"idle", "seeding", "done"}, table : Tables, left : SUBSET Defaults]
  /\ \A b \in Tables, x \in Codes : hadRow.was[b][x] # "none" => row[b][x] = hadRow.was[b][x]
  /\ seed.pc # "idle" /\ ~hadRow.failed =>
       \A x \in Defaults \ seed.left : row[seed.table][x] # "none"
  /\ seed.pc = "done" => seed.left = {}

\* At first there are no rows and no seed.
LEMMA SeedsInit == LedgerInit => SeedsInv
  BY DEF LedgerInit, SeedsInv, RowKinds, Tables, Resting

\* Every step keeps the invariant of the seeds.
LEMMA SeedsStep == SeedsInv /\ [LedgerNext]_ledgerVars => SeedsInv'
  <1> SUFFICES ASSUME SeedsInv, [LedgerNext]_ledgerVars PROVE SeedsInv'
    OBVIOUS
  <1>0. Defaults \subseteq Codes
    BY LedgerAssumption
  <1>1. CASE UNCHANGED <<row, seed, hadRow>>
    BY <1>1 DEF SeedsInv
  <1>2. ASSUME NEW b \in Tables, NEW x \in Codes, CreateRow(b, x) PROVE SeedsInv'
    <2>1. /\ row' \in [Tables -> [Codes -> RowKinds]] /\ row[b][x] = "none"
          /\ row'[b][x] = "custom" /\ UNCHANGED <<seed, hadRow>>
          /\ \A a \in Tables, y \in Codes : a # b \/ y # x => row'[a][y] = row[a][y]
      BY <1>2 DEF CreateRow, SeedsInv, RowKinds
    <2>2. \A a \in Tables, y \in Codes : row[a][y] # "none" => row'[a][y] = row[a][y]
      BY <2>1
    <2>3. \A a \in Tables, y \in Codes : hadRow.was[a][y] # "none" => row'[a][y] = hadRow.was[a][y]
      BY <2>2 DEF SeedsInv
    <2>4. seed.table \in Tables
      BY DEF SeedsInv
    <2>5. QED BY <1>0, <2>1, <2>2, <2>3, <2>4 DEF SeedsInv
  <1>3. ASSUME NEW b \in Tables, StartSeed(b) PROVE SeedsInv'
    BY <1>3 DEF StartSeed, SeedsInv
  <1>4. ASSUME NEW x \in Defaults, SeedRow(x) PROVE SeedsInv'
    <2> DEFINE b == seed.table
    <2>1. b \in Tables /\ x \in Codes /\ seed.pc = "seeding" /\ row[b][x] \in RowKinds
      BY <1>0, <1>4 DEF SeedRow, SeedsInv
    <2>2. Upserted(b, x) \in RowKinds /\ Upserted(b, x) # "none" /\ (row[b][x] # "none" => Upserted(b, x) = row[b][x])
      BY <2>1 DEF Upserted, RowKinds
    <2>3. /\ row' \in [Tables -> [Codes -> RowKinds]] /\ row'[b][x] = Upserted(b, x)
          /\ \A a \in Tables, y \in Codes : a # b \/ y # x => row'[a][y] = row[a][y]
      BY <1>4, <2>1, <2>2 DEF SeedRow, SeedsInv
    <2>4. /\ seed'.pc = "seeding" /\ seed'.table = b /\ seed'.left = seed.left \ {x} /\ UNCHANGED hadRow
          /\ seed' \in [pc : {"idle", "seeding", "done"}, table : Tables, left : SUBSET Defaults]
      BY <1>4, <2>1 DEF SeedRow, SeedsInv
    <2>5. \A a \in Tables, y \in Codes : row[a][y] # "none" => row'[a][y] = row[a][y]
      BY <2>2, <2>3
    <2>6. \A a \in Tables, y \in Codes : hadRow.was[a][y] # "none" => row'[a][y] = hadRow.was[a][y]
      BY <2>5 DEF SeedsInv
    <2>7. ~hadRow.failed => \A y \in Defaults \ seed'.left : row'[b][y] # "none"
      BY <1>0, <2>1, <2>2, <2>3, <2>4, <2>5 DEF SeedsInv
    <2>8. QED BY <2>3, <2>4, <2>6, <2>7 DEF SeedsInv
  <1>5. ASSUME NEW x \in Defaults, SeedRowFails(x) PROVE SeedsInv'
    <2>1. /\ hadRow' \in [was : [Tables -> [Codes -> RowKinds]], failed : BOOLEAN]
          /\ hadRow'.was = hadRow.was /\ hadRow'.failed /\ UNCHANGED row
      BY <1>5 DEF SeedRowFails, SeedsInv
    <2>2. /\ seed' \in [pc : {"idle", "seeding", "done"}, table : Tables, left : SUBSET Defaults]
          /\ seed'.pc # "done"
      BY <1>5 DEF SeedRowFails, SeedsInv, Resting, Tables
    <2>3. QED BY <2>1, <2>2 DEF SeedsInv
  <1>6. CASE EndSeed
    BY <1>6 DEF EndSeed, SeedsInv
  <1>7. QED BY <1>1, <1>2, <1>3, <1>4, <1>5, <1>6 DEF LedgerNext, Seeding, Posting, Billing, ledgerVars

\* A seed that was answered leaves every default row there and changes none that
\* it found: seedThaiChart and seedThaiDefaults, whatever rows clients create
\* between their insertions and whichever of these fail.
THEOREM SeedsAddCorrect == LedgerSpec => []SeedsAdd
  <1>1. SeedsInv => SeedsAdd
    BY DEF SeedsInv, SeedsAdd
  <1>2. QED BY <1>1, SeedsInit, SeedsStep, PTL DEF LedgerSpec

-----------------------------------------------------------------------------
(* Ledger: rounding *)

\* Max of two numbers is one of them, and no less than either.
LEMMA MaxOfTwo ==
  ASSUME NEW x \in Int, NEW y \in Int
  PROVE  LET m == Max({x, y}) IN m \in {x, y} /\ m >= x /\ m >= y
  <1>1. \E m \in {x, y} : \A n \in {x, y} : m >= n
    OBVIOUS
  <1>2. QED BY <1>1 DEF Max

\* An amount in tenths of a cent and what its column keeps differ by half a cent.
LEMMA CentsNear ==
  ASSUME NEW n \in Int
  PROVE  Cents(n) \in Int /\ 10 * Cents(n) - n <= 5 /\ n - 10 * Cents(n) <= 5
  BY DEF Cents, Rounded

\* Half a cent goes away from 0: up for what is positive, down for the rest.
LEMMA FigureNear ==
  ASSUME NEW n \in Int
  PROVE  LET r == Rounded(n, 1000)
         IN /\ r \in Int
            /\ n >= 0 => 1000 * r - n <= 500 /\ n - 1000 * r < 500
            /\ n <= 0 => 1000 * r - n < 500 /\ n - 1000 * r <= 500
  BY DEF Rounded

\* Figures of one sign add up but for a cent.
LEMMA StoredNear ==
  ASSUME NEW s \in Int, NEW t \in Int, NEW w \in Int,
         \/ s >= 0 /\ t >= 0 /\ w >= 0 /\ 100 * s + t - w >= 0
         \/ s <= 0 /\ t <= 0 /\ w <= 0 /\ 100 * s + t - w <= 0
  PROVE  LET p == StoredFigures(s, t, w)
         IN /\ p.subtotal \in Int /\ p.tax \in Int /\ p.wht \in Int /\ p.total \in Int
            /\ p.subtotal + p.tax - p.wht - p.total <= 1
            /\ p.total - (p.subtotal + p.tax - p.wht) <= 1
  <1> DEFINE hundred == 100 * s
             total == 100 * s + t - w
             a == Rounded(hundred, 1000)
             b == Rounded(t, 1000)
             c == Rounded(w, 1000)
             d == Rounded(total, 1000)
  <1>1. /\ hundred \in Int /\ total \in Int /\ total = hundred + t - w
        /\ \/ hundred >= 0 /\ t >= 0 /\ w >= 0 /\ total >= 0
           \/ hundred <= 0 /\ t <= 0 /\ w <= 0 /\ total <= 0
    OBVIOUS
  <1>2. StoredFigures(s, t, w) = [subtotal |-> a, tax |-> b, wht |-> c, total |-> d]
    BY DEF StoredFigures
  <1> HIDE DEF hundred, total
  <1>3. /\ a \in Int /\ b \in Int /\ c \in Int /\ d \in Int
        /\ hundred >= 0 => 1000 * a - hundred <= 500 /\ hundred - 1000 * a < 500
        /\ hundred <= 0 => 1000 * a - hundred < 500 /\ hundred - 1000 * a <= 500
        /\ t >= 0 => 1000 * b - t <= 500 /\ t - 1000 * b < 500
        /\ t <= 0 => 1000 * b - t < 500 /\ t - 1000 * b <= 500
        /\ w >= 0 => 1000 * c - w <= 500 /\ w - 1000 * c < 500
        /\ w <= 0 => 1000 * c - w < 500 /\ w - 1000 * c <= 500
        /\ total >= 0 => 1000 * d - total <= 500 /\ total - 1000 * d < 500
        /\ total <= 0 => 1000 * d - total < 500 /\ total - 1000 * d <= 500
    BY <1>1, FigureNear
  <1> HIDE DEF a, b, c, d
  <1>4. a + b - c - d <= 1 /\ d - (a + b - c) <= 1
    BY <1>1, <1>3
  <1>5. QED BY <1>2, <1>3, <1>4

\* A rate of at most 100 percent withholds no more than the amount.
LEMMA WithheldShare ==
  ASSUME NEW s \in Int, NEW k \in 0..100
  PROVE  /\ k * s \in Int
         /\ s >= 0 => 0 <= k * s /\ k * s <= 100 * s
         /\ s <= 0 => k * s <= 0 /\ 100 * s <= k * s
  <1>1. (100 - k) * s = 100 * s - k * s
    OBVIOUS
  <1>2. s >= 0 => k * s >= 0 /\ (100 - k) * s >= 0
    OBVIOUS
  <1>3. s <= 0 => k * s <= 0 /\ (100 - k) * s <= 0
    OBVIOUS
  <1>4. QED BY <1>1, <1>2, <1>3

PaperInv ==
  /\ paper.subtotal \in Int /\ paper.tax \in Int /\ paper.wht \in Int /\ paper.total \in Int
  /\ paper.subtotal + paper.tax - paper.wht - paper.total <= 1
  /\ paper.total - (paper.subtotal + paper.tax - paper.wht) <= 1

\* A bill or an invoice adds up, and nothing else changes its figures.
LEMMA PaperStep == PaperInv /\ [LedgerNext]_ledgerVars => PaperInv'
  <1> SUFFICES ASSUME PaperInv, [LedgerNext]_ledgerVars PROVE PaperInv'
    OBVIOUS
  <1>1. CASE UNCHANGED paper
    BY <1>1 DEF PaperInv
  <1>2. ASSUME NEW s \in Amounts, NEW k \in 0..100, paper' = StoredFigures(s, 7 * s, k * s)
        PROVE  PaperInv'
    <2>1. s \in Int
      BY LedgerAssumption
    <2> DEFINE w == k * s
    <2>2. /\ w \in Int
          /\ s >= 0 => 0 <= w /\ w <= 100 * s
          /\ s <= 0 => w <= 0 /\ 100 * s <= w
      BY <2>1, WithheldShare
    <2> HIDE DEF w
    <2>3. \/ s >= 0 /\ 7 * s >= 0 /\ w >= 0 /\ 100 * s + 7 * s - w >= 0
          \/ s <= 0 /\ 7 * s <= 0 /\ w <= 0 /\ 100 * s + 7 * s - w <= 0
      BY <2>1, <2>2
    <2>4. paper' = StoredFigures(s, 7 * s, w) /\ 7 * s \in Int
      BY <1>2, <2>1 DEF w
    <2>5. QED BY <2>1, <2>2, <2>3, <2>4, StoredNear DEF PaperInv
  <1>3. CASE CreateBill
    <2>1. PICK s \in Amounts, r \in Rates : paper' = StoredFigures(s, 7 * s, Withheld(r) * s)
      BY <1>3 DEF CreateBill
    <2>2. Withheld(r) \in 0..100
      BY LedgerAssumption DEF Withheld
    <2>3. QED BY <1>2, <2>1, <2>2
  <1>4. CASE CreateInvoice
    <2>1. PICK s \in Amounts : paper' = StoredFigures(s, 7 * s, 0)
      BY <1>4 DEF CreateInvoice
    <2>2. 0 * s = 0
      BY LedgerAssumption
    <2>3. QED BY <1>2, <2>1, <2>2
  <1>5. QED BY <1>1, <1>3, <1>4 DEF LedgerNext, Seeding, Posting, Billing, ledgerVars

\* The figures of a bill or an invoice add up but for a cent: createBill and
\* createInvoice with DECIMAL(15,2) columns, whatever amounts and rates are sent.
THEOREM FiguresAddCorrect == LedgerSpec => []FiguresAdd
  <1>1. LedgerInit => PaperInv
    BY DEF LedgerInit, PaperInv, Blank
  <1>2. PaperInv => FiguresAdd
    <2> SUFFICES ASSUME PaperInv PROVE FiguresAdd
      OBVIOUS
    <2> DEFINE x == paper.subtotal + paper.tax - paper.wht - paper.total
               y == paper.total - (paper.subtotal + paper.tax - paper.wht)
    <2>1. x \in Int /\ y \in Int /\ x <= 1 /\ y <= 1
      BY DEF PaperInv
    <2> HIDE DEF x, y
    <2>2. Max({x, y}) <= 1
      BY <2>1, MaxOfTwo
    <2>3. QED BY <2>2 DEF FiguresAdd, x, y
  <1>3. QED BY <1>1, <1>2, PaperStep, PTL DEF LedgerSpec

-----------------------------------------------------------------------------
(* Ledger: the journal *)

Entries == [entries : Nat, lines : Nat]

\* Of each date, debits and credits differ by no more than a cent for each entry
\* and each line.
DaysAdd ==
  \A d \in Dates :
    /\ book[d].debit - book[d].credit <= posted[d].entries + posted[d].lines
    /\ book[d].credit - book[d].debit <= posted[d].entries + posted[d].lines

JournalInv ==
  /\ book \in [Dates -> [debit : Int, credit : Int]]
  /\ posted \in [Dates -> Entries]
  /\ DaysAdd

\* An entry adds to its date what its columns may drift.
LEMMA EntryStep == ASSUME JournalInv, NEW d \in Dates, CreateEntry(d) PROVE JournalInv'
  <1>1. PICK debit \in [1..2 -> Amounts], credit \in [1..2 -> Amounts] :
          /\ TRUE \in Balanced(debit[1] + debit[2], credit[1] + credit[2])
          /\ book' = [book EXCEPT ![d] =
               [debit |-> @.debit + Cents(debit[1]) + Cents(debit[2]),
                credit |-> @.credit + Cents(credit[1]) + Cents(credit[2])]]
          /\ posted' = [posted EXCEPT ![d] = [entries |-> @.entries + 1, lines |-> @.lines + 2]]
    BY DEF CreateEntry
  <1> DEFINE a == debit[1]
             b == debit[2]
             x == credit[1]
             y == credit[2]
  <1>2. a \in Int /\ b \in Int /\ x \in Int /\ y \in Int
    <2>1. 1 \in 1..2 /\ 2 \in 1..2 /\ Amounts \subseteq Int
      BY LedgerAssumption
    <2>2. debit[1] \in Amounts /\ debit[2] \in Amounts /\ credit[1] \in Amounts /\ credit[2] \in Amounts
      BY <2>1
    <2>3. QED BY <2>1, <2>2
  <1>3. (a + b) - (x + y) <= 10 /\ (x + y) - (a + b) <= 10
    <2> DEFINE u == (a + b) - (x + y)
               v == (x + y) - (a + b)
    <2>1. u \in Int /\ v \in Int
      BY <1>2
    <2>2. Max({u, v}) = 10 \/ Max({u, v}) < 10
      BY <1>1 DEF Balanced
    <2> HIDE DEF u, v
    <2>3. u <= 10 /\ v <= 10
      BY <2>1, <2>2, MaxOfTwo
    <2>4. QED BY <2>3 DEF u, v
  <1>4. /\ Cents(a) \in Int /\ Cents(b) \in Int /\ Cents(x) \in Int /\ Cents(y) \in Int
        /\ 10 * Cents(a) - a <= 5 /\ a - 10 * Cents(a) <= 5
        /\ 10 * Cents(b) - b <= 5 /\ b - 10 * Cents(b) <= 5
        /\ 10 * Cents(x) - x <= 5 /\ x - 10 * Cents(x) <= 5
        /\ 10 * Cents(y) - y <= 5 /\ y - 10 * Cents(y) <= 5
    BY <1>2, CentsNear
  <1> DEFINE more == Cents(a) + Cents(b)
             less == Cents(x) + Cents(y)
  <1>5. more \in Int /\ less \in Int /\ more - less <= 3 /\ less - more <= 3
    BY <1>2, <1>3, <1>4
  <1>6. /\ book[d].debit \in Int /\ book[d].credit \in Int
        /\ posted[d].entries \in Nat /\ posted[d].lines \in Nat
    BY DEF JournalInv, Entries
  <1>7. /\ book'[d] = [debit |-> book[d].debit + Cents(a) + Cents(b), credit |-> book[d].credit + Cents(x) + Cents(y)]
        /\ posted'[d] = [entries |-> posted[d].entries + 1, lines |-> posted[d].lines + 2]
        /\ \A e \in Dates \ {d} : book'[e] = book[e] /\ posted'[e] = posted[e]
        /\ DOMAIN book' = Dates /\ DOMAIN posted' = Dates
    BY <1>1 DEF JournalInv
  <1>8. book' \in [Dates -> [debit : Int, credit : Int]] /\ posted' \in [Dates -> Entries]
    BY <1>1, <1>4, <1>6, <1>7 DEF JournalInv, Entries
  <1>9. /\ book'[d].debit = book[d].debit + more /\ book'[d].credit = book[d].credit + less
        /\ posted'[d].entries + posted'[d].lines = posted[d].entries + posted[d].lines + 3
    BY <1>4, <1>6, <1>7
  <1> HIDE DEF more, less
  <1>10. DaysAdd'
    BY <1>5, <1>6, <1>7, <1>9 DEF DaysAdd, JournalInv
  <1>11. QED BY <1>8, <1>10 DEF JournalInv

\* Every step keeps the invariant of the journal.
LEMMA JournalStep == JournalInv /\ [LedgerNext]_ledgerVars => JournalInv'
  <1> SUFFICES ASSUME JournalInv, [LedgerNext]_ledgerVars PROVE JournalInv'
    OBVIOUS
  <1>1. CASE UNCHANGED <<book, posted>>
    BY <1>1 DEF JournalInv, DaysAdd
  <1>2. CASE Posting
    BY <1>2, EntryStep DEF Posting
  <1>3. QED BY <1>1, <1>2 DEF LedgerNext, Seeding, Billing, ledgerVars

\* Of each date, debits and credits differ by no more than a cent for each entry
\* and each line: JournalService.create, whatever amounts are sent.
THEOREM DaysAddCorrect == LedgerSpec => []DaysAdd
  <1>1. LedgerInit => JournalInv
    BY DEF LedgerInit, JournalInv, DaysAdd, Entries
  <1>2. JournalInv /\ [LedgerNext]_ledgerVars => JournalInv'
    BY JournalStep
  <1>3. JournalInv => DaysAdd
    BY DEF JournalInv
  <1>4. QED BY <1>1, <1>2, <1>3, PTL DEF LedgerSpec

\* The sums of a range of dates differ by no more than the dates add up to.
LEMMA RangeAdds ==
  ASSUME JournalInv, NEW from \in Dates, NEW to \in Dates
  PROVE  LET t == TrialBalance(from, to)
         IN  /\ t.debit \in Int /\ t.credit \in Int /\ t.entries \in Int /\ t.lines \in Int
             /\ t.debit - t.credit <= t.entries + t.lines
             /\ t.credit - t.debit <= t.entries + t.lines
  <1> DEFINE S == {d \in Dates : from <= d /\ d <= to}
             debits == [d \in Dates |-> book[d].debit]
             credits == [d \in Dates |-> book[d].credit]
             entries == [d \in Dates |-> posted[d].entries]
             lines == [d \in Dates |-> posted[d].lines]
  <1>1. IsFiniteSet(S)
    <2>1. Dates \subseteq Nat
      BY LedgerAssumption
    <2>2. from \in Int /\ to \in Int
      BY <2>1
    <2>3. \A d \in Dates : from <= d /\ d <= to => d \in from..to
      BY <2>1, <2>2
    <2>4. S \in SUBSET (from..to)
      BY <2>3
    <2>5. QED BY <2>2, <2>4, FS_Interval, FS_Subset
  <1>2. /\ TrialBalance(from, to).debit = SumOver(debits, S)
        /\ TrialBalance(from, to).credit = SumOver(credits, S)
        /\ TrialBalance(from, to).entries = SumOver(entries, S)
        /\ TrialBalance(from, to).lines = SumOver(lines, S)
    BY DEF TrialBalance, SumOver
  <1>3. \A d \in S : /\ debits[d] \in Int /\ credits[d] \in Int
                     /\ entries[d] \in Nat /\ lines[d] \in Nat
                     /\ debits[d] - credits[d] <= entries[d] + lines[d]
                     /\ credits[d] - debits[d] <= entries[d] + lines[d]
    BY DEF JournalInv, DaysAdd, Entries
  <1> HIDE DEF debits, credits, entries, lines, S
  <1>4. PICK gd : Adds(gd, debits, S) /\ SumOver(debits, S) = gd[S]
    BY <1>1, <1>3, SumThere
  <1>5. PICK gc : Adds(gc, credits, S) /\ SumOver(credits, S) = gc[S]
    BY <1>1, <1>3, SumThere
  <1>6. PICK ge : Adds(ge, entries, S) /\ SumOver(entries, S) = ge[S]
    BY <1>1, <1>3, SumThere
  <1>7. PICK gl : Adds(gl, lines, S) /\ SumOver(lines, S) = gl[S]
    BY <1>1, <1>3, SumThere
  <1>8. \A T \in SUBSET S : gd[T] \in Int /\ gc[T] \in Int /\ ge[T] \in Int /\ gl[T] \in Int
    BY <1>4, <1>5, <1>6, <1>7 DEF Adds
  <1> DEFINE over == [d \in S |-> (entries[d] + lines[d]) - (debits[d] - credits[d])]
             under == [d \in S |-> (entries[d] + lines[d]) - (credits[d] - debits[d])]
             g == [T \in SUBSET S |-> (ge[T] + gl[T]) - (gd[T] - gc[T])]
             h == [T \in SUBSET S |-> (ge[T] + gl[T]) - (gc[T] - gd[T])]
  <1>9. \A d \in S : over[d] \in Nat /\ under[d] \in Nat
    BY <1>3
  <1>10. Adds(g, over, S) /\ Adds(h, under, S)
    <2>1. g \in [SUBSET S -> Int] /\ h \in [SUBSET S -> Int]
      BY <1>8
    <2>2. g[{}] = 0 /\ h[{}] = 0
      BY <1>4, <1>5, <1>6, <1>7 DEF Adds
    <2>3. ASSUME NEW T \in SUBSET S, NEW x \in T
          PROVE  g[T] = over[x] + g[T \ {x}] /\ h[T] = under[x] + h[T \ {x}]
      <3>1. /\ gd[T] = debits[x] + gd[T \ {x}] /\ gc[T] = credits[x] + gc[T \ {x}]
            /\ ge[T] = entries[x] + ge[T \ {x}] /\ gl[T] = lines[x] + gl[T \ {x}]
        BY <1>4, <1>5, <1>6, <1>7 DEF Adds
      <3>2. x \in S /\ T \ {x} \in SUBSET S
        OBVIOUS
      <3>3. QED BY <1>3, <1>8, <3>1, <3>2
    <2>4. QED BY <2>1, <2>2, <2>3 DEF Adds
  <1> HIDE DEF over, under
  <1>11. g[S] \in Nat /\ h[S] \in Nat
    BY <1>1, <1>9, <1>10, SumNat
  <1>12. QED BY <1>2, <1>4, <1>5, <1>6, <1>7, <1>8, <1>11

\* The debits and the credits of any range of dates differ by no more than a
\* cent per entry and per line: JournalService.create and trialBalance, for any
\* number of entries of any amounts.
THEOREM TrialBalanceAddsCorrect == LedgerSpec => []TrialBalanceAdds
  <1>1. LedgerInit => JournalInv
    BY DEF LedgerInit, JournalInv, DaysAdd, Entries
  <1>2. JournalInv /\ [LedgerNext]_ledgerVars => JournalInv'
    BY JournalStep
  <1>3. JournalInv => TrialBalanceAdds
    <2> SUFFICES ASSUME JournalInv, NEW from \in Dates, NEW to \in Dates
                 PROVE  LET t == TrialBalance(from, to)
                        IN Max({t.debit - t.credit, t.credit - t.debit}) <= t.entries + t.lines
      BY DEF TrialBalanceAdds
    <2> DEFINE t == TrialBalance(from, to)
               u == t.debit - t.credit
               v == t.credit - t.debit
    <2>1. /\ t.debit \in Int /\ t.credit \in Int /\ t.entries \in Int /\ t.lines \in Int
          /\ u <= t.entries + t.lines /\ v <= t.entries + t.lines
      BY RangeAdds
    <2>2. u \in Int /\ v \in Int
      BY <2>1
    <2> HIDE DEF u, v, t
    <2>3. Max({u, v}) <= t.entries + t.lines
      BY <2>1, <2>2, MaxOfTwo
    <2>4. QED BY <2>3 DEF u, v, t
  <1>4. QED BY <1>1, <1>2, <1>3, PTL DEF LedgerSpec

-----------------------------------------------------------------------------
(* Inbox: the state *)

BoxRows == [letter : Letters, folder : FolderNames]
Step(c) == request[c].pc
Syncs == {"next", "create", "flag"}

\* A request has the fields of its step, and is about rows that are there.
Formed ==
  /\ inbox \in Seq(BoxRows) /\ Len(inbox) <= MaxInbox
  /\ request = [c \in BoxCalls |-> request[c]]
  /\ \A c \in BoxCalls :
       /\ Step(c) = "next" => request[c] = [pc |-> "next", todo |-> request[c].todo]
       /\ Step(c) \in {"create", "flag"} =>
            /\ request[c] = [pc |-> Step(c), todo |-> request[c].todo, letter |-> request[c].letter]
            /\ request[c].letter \in Letters
       /\ Step(c) \in Syncs => request[c].todo \subseteq Letters
       /\ Step(c) = "move" => request[c].row \in 1..Len(inbox) /\ request[c].to \in FolderNames

\* The action c takes leaves every other request as it is.
Others(c) == \A d \in BoxCalls \ {c} : request'[d] = request[d]

\* A request that goes is replaced, and no other.
LEMMA GoesTo ==
  ASSUME Formed, NEW c \in BoxCalls, NEW k, Goes(c, k)
  PROVE  request' = [d \in BoxCalls |-> request'[d]] /\ request'[c] = k /\ Others(c)
  BY DEF Goes, Formed, Others

\* The requests that a formed state has after one of them went, the rows staying.
LEMMA FormedGoes ==
  ASSUME Formed, NEW c \in BoxCalls, NEW k, Goes(c, k), UNCHANGED inbox,
         \/ k.pc = "next" /\ k = [pc |-> "next", todo |-> k.todo] /\ k.todo \subseteq Letters
         \/ /\ k.pc \in {"create", "flag"} /\ k = [pc |-> k.pc, todo |-> k.todo, letter |-> k.letter]
            /\ k.letter \in Letters /\ k.todo \subseteq Letters
         \/ k.pc = "move" /\ k.row \in 1..Len(inbox) /\ k.to \in FolderNames
         \/ k.pc \notin Syncs \union {"move"}
  PROVE  Formed'
  <1>1. request' = [d \in BoxCalls |-> request'[d]] /\ request'[c] = k /\ Others(c)
    BY GoesTo
  <1>2. ASSUME NEW d \in BoxCalls
        PROVE  /\ request'[d].pc = "next" => request'[d] = [pc |-> "next", todo |-> request'[d].todo]
               /\ request'[d].pc \in {"create", "flag"} =>
                    /\ request'[d] = [pc |-> request'[d].pc, todo |-> request'[d].todo, letter |-> request'[d].letter]
                    /\ request'[d].letter \in Letters
               /\ request'[d].pc \in Syncs => request'[d].todo \subseteq Letters
               /\ request'[d].pc = "move" => request'[d].row \in 1..Len(inbox) /\ request'[d].to \in FolderNames
    <2>1. CASE d = c
      BY <1>1, <2>1 DEF Syncs
    <2>2. CASE d # c
      BY <1>1, <2>2 DEF Formed, Others, Step
    <2>3. QED BY <2>1, <2>2
  <1>3. QED BY <1>1, <1>2 DEF Formed, Step

\* At first the inbox is empty and no request is under way.
LEMMA FormedStart == InboxInit => Formed
  BY InboxAssumption DEF InboxInit, Formed, NoRequest, Step, Syncs

\* What is appended, and what is moved.
LEMMA StoredRow ==
  ASSUME Formed, NEW c \in BoxCalls, StoreLetter(c)
  PROVE  /\ inbox' \in Seq(BoxRows) /\ Len(inbox') = Len(inbox) + 1 /\ Len(inbox') <= MaxInbox
         /\ \A i \in 1..Len(inbox) : inbox'[i] = inbox[i]
         /\ inbox'[Len(inbox) + 1] = [letter |-> request[c].letter, folder |-> "INBOX"]
  <1>1. request[c].letter \in Letters /\ inbox \in Seq(BoxRows)
    BY DEF Formed, StoreLetter, Step
  <1>2. [letter |-> request[c].letter, folder |-> "INBOX"] \in BoxRows
    BY <1>1 DEF BoxRows, FolderNames
  <1>3. Len(inbox) \in Nat /\ Len(inbox) < MaxInbox
    BY <1>1 DEF StoreLetter
  <1>4. QED BY <1>1, <1>2, <1>3, InboxAssumption DEF StoreLetter

\* A sync that stores a message goes on to flag it.
LEMMA StoreGoes ==
  ASSUME Formed, NEW c \in BoxCalls, StoreLetter(c)
  PROVE  /\ request' = [d \in BoxCalls |-> request'[d]] /\ Others(c)
         /\ request[c] = [pc |-> "create", todo |-> request[c].todo, letter |-> request[c].letter]
         /\ request'[c] = [pc |-> "flag", todo |-> request[c].todo, letter |-> request[c].letter]
         /\ request[c].letter \in Letters /\ request[c].todo \subseteq Letters
  <1>1. /\ request' = [d \in BoxCalls |-> request'[d]] /\ Others(c)
        /\ request[c] = [pc |-> "create", todo |-> request[c].todo, letter |-> request[c].letter]
        /\ request'[c] = [request[c] EXCEPT !.pc = "flag"]
    BY DEF StoreLetter, Formed, Others, Step
  <1>2. request'[c] = [pc |-> "flag", todo |-> request[c].todo, letter |-> request[c].letter]
    BY <1>1
  <1>3. request[c].letter \in Letters /\ request[c].todo \subseteq Letters
    BY <1>1 DEF Formed, Step, Syncs
  <1>4. QED BY <1>1, <1>2, <1>3

\* A move changes the folder of its row, and no other row.
LEMMA MovedRow ==
  ASSUME Formed, NEW c \in BoxCalls, MoveToFolder(c)
  PROVE  /\ inbox' \in Seq(BoxRows) /\ Len(inbox') = Len(inbox)
         /\ \A i \in 1..Len(inbox) : i # request[c].row => inbox'[i] = inbox[i]
         /\ \A i \in 1..Len(inbox) : inbox'[i].letter = inbox[i].letter
         /\ inbox'[request[c].row].folder = request[c].to
  <1> DEFINE i == request[c].row
             f == request[c].to
  <1>1. i \in 1..Len(inbox) /\ f \in FolderNames /\ inbox \in Seq(BoxRows)
        /\ inbox' = [inbox EXCEPT ![i].folder = f]
    BY DEF Formed, MoveToFolder, Step
  <1> HIDE DEF i, f
  <1>2. inbox[i] \in BoxRows
    BY <1>1
  <1>3. /\ [inbox[i] EXCEPT !.folder = f] \in BoxRows /\ [inbox[i] EXCEPT !.folder = f].folder = f
        /\ [inbox[i] EXCEPT !.folder = f].letter = inbox[i].letter
    BY <1>1, <1>2 DEF BoxRows
  <1>4. inbox' = [inbox EXCEPT ![i] = [inbox[i] EXCEPT !.folder = f]]
    BY <1>1
  <1>5. inbox' \in Seq(BoxRows) /\ Len(inbox') = Len(inbox)
    BY <1>1, <1>3, <1>4, ExceptSeq
  <1>6. \A j \in 1..Len(inbox) : inbox'[j] = IF j = i THEN [inbox[i] EXCEPT !.folder = f] ELSE inbox[j]
    BY <1>1, <1>4
  <1>7. QED BY <1>1, <1>3, <1>5, <1>6 DEF i, f

\* Every step leaves the requests and rows in their form.
LEMMA FormedStep == Formed /\ [InboxNext]_inboxVars => Formed'
  <1> SUFFICES ASSUME Formed, [InboxNext]_inboxVars PROVE Formed'
    OBVIOUS
  <1>1. CASE UNCHANGED inboxVars
    BY <1>1 DEF inboxVars, Formed, Step
  <1>2. ASSUME NEW c \in BoxCalls, SyncInbox(c) PROVE Formed'
    <2>1. PICK got \in SUBSET Unseen : Goes(c, [pc |-> "next", todo |-> got]) /\ UNCHANGED inbox
      BY <1>2 DEF SyncInbox
    <2>2. got \subseteq Letters
      BY <2>1 DEF Unseen
    <2>3. QED BY <2>1, <2>2, FormedGoes
  <1>3. ASSUME NEW c \in BoxCalls, FindLetter(c) PROVE Formed'
    <2>1. CASE request[c].todo = {}
      BY <1>3, <2>1, FormedGoes DEF FindLetter, NoRequest, Syncs
    <2>2. ASSUME NEW m \in request[c].todo, NEW pc \in {"create", "flag"},
                 Goes(c, [pc |-> pc, todo |-> request[c].todo \ {m}, letter |-> m])
          PROVE  Formed'
      BY <1>3, <2>2, FormedGoes DEF FindLetter, Formed, Step, Syncs
    <2>3. QED BY <1>3, <2>1, <2>2 DEF FindLetter
  <1>4. ASSUME NEW c \in BoxCalls, StoreLetter(c) PROVE Formed'
    <2>1. inbox' \in Seq(BoxRows) /\ Len(inbox') = Len(inbox) + 1 /\ Len(inbox') <= MaxInbox
      BY <1>4, StoredRow
    <2>0. Len(inbox) \in Nat
      BY DEF Formed
    <2>2. /\ request' = [d \in BoxCalls |-> request'[d]] /\ Others(c)
          /\ request'[c] = [pc |-> "flag", todo |-> request[c].todo, letter |-> request[c].letter]
          /\ request[c].letter \in Letters /\ request[c].todo \subseteq Letters
      BY <1>4, StoreGoes
    <2>3. QED BY <2>0, <2>1, <2>2 DEF Formed, Others, Step, Syncs
  <1>5. ASSUME NEW c \in BoxCalls, FlagLetter(c) PROVE Formed'
    BY <1>5, FormedGoes DEF FlagLetter, Formed, Step, Syncs
  <1>6. ASSUME NEW c \in BoxCalls, GiveUp(c) \/ AnswerCounts(c) PROVE Formed'
    BY <1>6, FormedGoes DEF GiveUp, AnswerCounts, NoRequest, Syncs
  <1>7. ASSUME NEW c \in BoxCalls, NEW i \in DOMAIN inbox, NEW f \in FolderNames, FindToMove(c, i, f)
        PROVE  Formed'
    <2>1. i \in 1..Len(inbox)
      BY <1>7 DEF Formed
    <2>2. QED BY <1>7, <2>1, FormedGoes DEF FindToMove
  <1>8. ASSUME NEW c \in BoxCalls, MoveToFolder(c) PROVE Formed'
    <2>1. /\ inbox' \in Seq(BoxRows) /\ Len(inbox') = Len(inbox)
      BY <1>8, MovedRow
    <2>2. request' = [d \in BoxCalls |-> request'[d]] /\ request'[c] = NoRequest /\ Others(c)
      BY <1>8, GoesTo DEF MoveToFolder
    <2>3. NoRequest.pc \notin Syncs \union {"move", "create", "flag", "next"}
      BY DEF NoRequest, Syncs
    <2>4. QED BY <2>1, <2>2, <2>3 DEF Formed, Others, Step
  <1>9. ASSUME NEW c \in BoxCalls, StartCounts(c) PROVE Formed'
    BY <1>9, FormedGoes DEF StartCounts, Syncs
  <1>10. ASSUME NEW c \in BoxCalls, CountFolder(c) PROVE Formed'
    <2> DEFINE k == [request[c] EXCEPT !.counts = Append(@, InFolder(CountOrder[Len(@) + 1]))]
    <2>1. Goes(c, k) /\ UNCHANGED inbox
      BY <1>10 DEF CountFolder, Goes
    <2>2. k.pc = "count"
      BY <1>10 DEF CountFolder
    <2> HIDE DEF k
    <2>3. QED BY <2>1, <2>2, FormedGoes DEF Syncs
  <1>11. QED
    BY <1>1, <1>2, <1>3, <1>4, <1>5, <1>6, <1>7, <1>8, <1>9, <1>10 DEF InboxNext

-----------------------------------------------------------------------------
(* Inbox: rows stay where they were put *)

\* A row that two requests did not have at once is where it was put; a request
\* that has it found it in the inbox, where it still is.
MovedInv ==
  /\ put \in [1..MaxInbox -> FolderNames]
  /\ \A i \in 1..MaxInbox : i > Len(inbox) => put[i] = "INBOX"
  /\ \A i \in 1..Len(inbox) : i \in tangled \/ inbox[i].folder = put[i]
  /\ \A c \in BoxCalls : Step(c) = "move" =>
       \/ request[c].row \in tangled
       \/ /\ inbox[request[c].row].folder = "INBOX"
          /\ \A d \in BoxCalls : Step(d) = "move" /\ request[d].row = request[c].row => d = c

\* Every step keeps what is known of requests that found a row.
LEMMA MovedStep == Formed /\ MovedInv /\ [InboxNext]_inboxVars => MovedInv'
  <1> SUFFICES ASSUME Formed, MovedInv, [InboxNext]_inboxVars PROVE MovedInv'
    OBVIOUS
  <1>0. inbox \in Seq(BoxRows) /\ Len(inbox) \in Nat /\ Len(inbox) <= MaxInbox /\ DOMAIN inbox = 1..Len(inbox)
        /\ MaxInbox \in Nat
    BY InboxAssumption DEF Formed
  \* Requests that are about no row come and go.
  <1>1. ASSUME UNCHANGED <<inbox, tangled, put>>,
               \A c \in BoxCalls : Step(c)' = "move" => request'[c] = request[c]
        PROVE  MovedInv'
    BY <1>1 DEF MovedInv, Step
  <1>2. ASSUME NEW c \in BoxCalls, NEW k, Goes(c, k), k.pc # "move", UNCHANGED <<inbox, tangled, put>>
        PROVE  MovedInv'
    BY <1>1, <1>2, GoesTo DEF Step, Others
  <1>3. CASE UNCHANGED inboxVars
    BY <1>1, <1>3 DEF inboxVars, Step
  <1>4. ASSUME NEW c \in BoxCalls, SyncInbox(c) \/ FindLetter(c) \/ FlagLetter(c) \/ GiveUp(c)
                                    \/ StartCounts(c) \/ AnswerCounts(c)
        PROVE  MovedInv'
    BY <1>2, <1>4 DEF SyncInbox, FindLetter, FlagLetter, GiveUp, StartCounts, AnswerCounts, NoRequest
  <1>5. ASSUME NEW c \in BoxCalls, CountFolder(c) PROVE MovedInv'
    BY <1>1, <1>5 DEF CountFolder, Formed, Step
  <1>6. ASSUME NEW c \in BoxCalls, StoreLetter(c) PROVE MovedInv'
    <2>0. inbox'[Len(inbox) + 1] = [letter |-> request[c].letter, folder |-> "INBOX"]
      BY <1>6, StoredRow
    <2>1. /\ Len(inbox') = Len(inbox) + 1
          /\ \A i \in 1..Len(inbox) : inbox'[i] = inbox[i]
          /\ inbox'[Len(inbox) + 1].folder = "INBOX"
      BY <1>6, <2>0, StoredRow
    <2>2. /\ UNCHANGED <<tangled, put>> /\ Others(c) /\ request'[c].pc = "flag"
          /\ Len(inbox) < MaxInbox
      <3>1. UNCHANGED <<tangled, put>> /\ Len(inbox) < MaxInbox
        BY <1>6 DEF StoreLetter
      <3>2. Others(c) /\ request'[c] = [pc |-> "flag", todo |-> request[c].todo, letter |-> request[c].letter]
        BY <1>6, StoreGoes
      <3>3. QED BY <3>1, <3>2
    <2>3. put[Len(inbox) + 1] = "INBOX"
      BY <1>0, <2>2 DEF MovedInv
    <2>4. \A i \in 1..Len(inbox') : i \in tangled' \/ inbox'[i].folder = put'[i]
      BY <1>0, <2>1, <2>2, <2>3 DEF MovedInv
    <2>5. ASSUME NEW d \in BoxCalls, Step(d)' = "move"
          PROVE  d # c /\ request'[d] = request[d] /\ Step(d) = "move" /\ request[d].row \in 1..Len(inbox)
      BY <2>2, <2>5 DEF Others, Step, Formed
    <2>6. \A d \in BoxCalls : Step(d)' = "move" =>
            \/ request'[d].row \in tangled'
            \/ /\ inbox'[request'[d].row].folder = "INBOX"
               /\ \A e \in BoxCalls : Step(e)' = "move" /\ request'[e].row = request'[d].row => e = d
      BY <2>1, <2>2, <2>5 DEF MovedInv
    <2>7. QED BY <1>0, <2>1, <2>2, <2>4, <2>6 DEF MovedInv
  <1>7. ASSUME NEW c \in BoxCalls, NEW i \in DOMAIN inbox, NEW f \in FolderNames, FindToMove(c, i, f)
        PROVE  MovedInv'
    <2>1. /\ request'[c] = [pc |-> "move", row |-> i, to |-> f] /\ Others(c)
          /\ request[c] = NoRequest
      BY <1>7, GoesTo DEF FindToMove
    <2>2. /\ UNCHANGED <<inbox, put>> /\ tangled \subseteq tangled' /\ inbox[i].folder = "INBOX"
          /\ i \in tangled' \/ \A d \in BoxCalls : ~(Step(d) = "move" /\ request[d].row = i)
      BY <1>7 DEF FindToMove, Findable, Step
    <2>3. ASSUME NEW d \in BoxCalls, Step(d)' = "move", request'[d].row \notin tangled'
          PROVE  /\ inbox[request'[d].row].folder = "INBOX"
                 /\ \A e \in BoxCalls : Step(e)' = "move" /\ request'[e].row = request'[d].row => e = d
      <3>1. CASE d = c
        BY <2>1, <2>2, <2>3, <3>1 DEF Others, Step
      <3>2. CASE d # c
        BY <2>1, <2>2, <2>3, <3>2 DEF Others, Step, MovedInv
      <3>3. QED BY <3>1, <3>2
    <2>4. QED BY <2>2, <2>3 DEF MovedInv
  <1>8. ASSUME NEW c \in BoxCalls, MoveToFolder(c) PROVE MovedInv'
    <2> DEFINE i == request[c].row
               f == request[c].to
    <2>1. i \in 1..Len(inbox) /\ f \in FolderNames /\ Step(c) = "move"
      BY <1>8 DEF MoveToFolder, Formed, Step
    <2>2. /\ Len(inbox') = Len(inbox) /\ inbox'[i].folder = f
          /\ \A j \in 1..Len(inbox) : j # i => inbox'[j] = inbox[j]
      BY <1>8, MovedRow
    <2>3. /\ request'[c] = NoRequest /\ Others(c) /\ UNCHANGED tangled
          /\ put' = IF put[i] = "INBOX" THEN [put EXCEPT ![i] = f] ELSE put
      BY <1>8, GoesTo DEF MoveToFolder
    <2>4. i \in 1..MaxInbox
      BY <1>0, <2>1
    <2>5. /\ put' \in [1..MaxInbox -> FolderNames]
          /\ \A j \in 1..MaxInbox : j # i => put'[j] = put[j]
          /\ i \in tangled \/ put'[i] = f
      BY <2>1, <2>3, <2>4 DEF MovedInv
    <2>6. ASSUME NEW d \in BoxCalls, Step(d)' = "move", request'[d].row \notin tangled
          PROVE  /\ inbox'[request'[d].row].folder = "INBOX"
                 /\ \A e \in BoxCalls : Step(e)' = "move" /\ request'[e].row = request'[d].row => e = d
      <3>1. d # c /\ request'[d] = request[d] /\ Step(d) = "move" /\ request[d].row \in 1..Len(inbox)
        BY <2>3, <2>6 DEF Others, Step, NoRequest, Formed
      <3>2. request[d].row # i
        BY <2>1, <2>6, <3>1 DEF MovedInv
      <3>3. QED BY <2>2, <2>3, <2>6, <3>1, <3>2 DEF MovedInv, Others, Step, NoRequest
    <2>7. \A j \in 1..Len(inbox) : j \in tangled \/ inbox'[j].folder = put'[j]
      BY <1>0, <2>2, <2>5 DEF MovedInv
    <2>8. \A j \in 1..MaxInbox : j > Len(inbox) => put'[j] = "INBOX"
      BY <1>0, <2>1, <2>5 DEF MovedInv
    <2>9. QED BY <2>2, <2>3, <2>5, <2>6, <2>7, <2>8 DEF MovedInv
  <1>9. QED
    BY <1>3, <1>4, <1>5, <1>6, <1>7, <1>8 DEF InboxNext

\* A row stays where it was put: moveToFolder and deleteMessage of
\* email-inbox.service.ts, which look it up and then update it by id, however
\* requests and syncs interleave; but for rows that two requests had found.
THEOREM MovedOnceCorrect == InboxSpec => []MovedOnce
  <1>1. InboxInit => MovedInv
    BY InboxAssumption DEF InboxInit, MovedInv, NoRequest, Step, FolderNames
  <1>2. Formed /\ MovedInv => MovedOnce
    BY DEF Formed, MovedInv, MovedOnce
  <1>3. QED BY <1>1, <1>2, FormedStart, FormedStep, MovedStep, PTL DEF InboxSpec

-----------------------------------------------------------------------------
(* Inbox: a message is stored once *)

\* c will store m, if it does not find it; c has stored or found it.
Wants(c, m) == \/ Step(c) \in Syncs /\ m \in request[c].todo
               \/ Step(c) = "create" /\ request[c].letter = m
Flags(c, m) == Step(c) = "flag" /\ request[c].letter = m
HasRow(m) == \E i \in 1..Len(inbox) : inbox[i].letter = m

\* A message that is not loose is in the hands of one sync; whoever wants it
\* will find neither a row nor a flag, and is past it once it flags; and its row
\* is the only one, flagged or about to be.
Once(m) ==
  /\ \A c, d \in BoxCalls : (Wants(c, m) \/ Flags(c, m)) /\ (Wants(d, m) \/ Flags(d, m)) => c = d
  /\ \A c \in BoxCalls : Wants(c, m) => m \notin flagged /\ ~HasRow(m) /\ ~Flags(c, m)
  /\ \A c \in BoxCalls : Step(c) = "create" /\ request[c].letter = m => m \notin request[c].todo
  /\ HasRow(m) => m \in flagged \/ \E c \in BoxCalls : Flags(c, m)
  /\ \A i, j \in 1..Len(inbox) : inbox[i].letter = m /\ inbox[j].letter = m => i = j

OnceInv == \A m \in Letters : m \in loose \/ Once(m)

\* What a sync has at hand is what it wants or is about to flag.
LEMMA HeldAtHand ==
  ASSUME Formed, NEW c \in BoxCalls, NEW m
  PROVE  (c \in Syncing /\ m \in AtHand(c)) <=> (Wants(c, m) \/ Flags(c, m))
  BY DEF Syncing, AtHand, Wants, Flags, Step, Syncs

\* Every step keeps a message with one sync, in one row or nowhere, or marks it.
LEMMA OnceStep == Formed /\ OnceInv /\ [InboxNext]_inboxVars => OnceInv'
  <1> SUFFICES ASSUME Formed, OnceInv, [InboxNext]_inboxVars, NEW m \in Letters, m \notin loose'
               PROVE  Once(m)'
    BY DEF OnceInv
  <1>0. loose \subseteq loose' /\ Once(m)
    <2>1. loose \subseteq loose'
      BY DEF InboxNext, SyncInbox, FindLetter, StoreLetter, FlagLetter, GiveUp, FindToMove, MoveToFolder,
             StartCounts, CountFolder, AnswerCounts, inboxVars
    <2>2. QED BY <2>1 DEF OnceInv
  <1>1. CASE UNCHANGED inboxVars
    BY <1>0, <1>1 DEF inboxVars, Once, Wants, Flags, HasRow, Step
  <1>2. ASSUME NEW c \in BoxCalls, SyncInbox(c) PROVE Once(m)'
    <2>1. PICK got \in SUBSET Unseen :
            /\ Goes(c, [pc |-> "next", todo |-> got])
            /\ loose' = loose \union (got \intersect UNION {AtHand(d) : d \in Syncing \ {c}})
      BY <1>2 DEF SyncInbox
    <2>2. request'[c] = [pc |-> "next", todo |-> got] /\ Others(c) /\ UNCHANGED <<inbox, flagged>>
          /\ request[c] = NoRequest
      BY <1>2, <2>1, GoesTo DEF SyncInbox
    <2>3. /\ ~Wants(c, m) /\ ~Flags(c, m) /\ ~Flags(c, m)' /\ (Wants(c, m)' <=> m \in got)
          /\ Step(c)' # "create"
      BY <2>2 DEF Wants, Flags, Step, Syncs, NoRequest
    <2>4. \A d \in BoxCalls \ {c} : /\ Wants(d, m)' <=> Wants(d, m)
                                    /\ Flags(d, m)' <=> Flags(d, m)
                                    /\ request'[d] = request[d]
      BY <2>2 DEF Wants, Flags, Others, Step
    <2>5. ASSUME m \in got
          PROVE  \A d \in BoxCalls \ {c} : ~Wants(d, m) /\ ~Flags(d, m)
      BY <2>1, <2>5, HeldAtHand DEF Syncing
    <2>6. m \in got => m \notin flagged /\ ~HasRow(m)
      BY <1>0, <2>3, <2>5 DEF Once, Unseen
    <2>7. HasRow(m)' <=> HasRow(m)
      BY <2>2 DEF HasRow
    <2>8. QED BY <1>0, <2>2, <2>3, <2>4, <2>5, <2>6, <2>7 DEF Once, Step
  <1>3. ASSUME NEW c \in BoxCalls, FindLetter(c) PROVE Once(m)'
    <2>0. UNCHANGED <<inbox, flagged>> /\ Step(c) = "next"
      BY <1>3 DEF FindLetter, Step
    <2>1. CASE request[c].todo = {}
      <3>1. request'[c] = NoRequest /\ Others(c)
        BY <1>3, <2>1, GoesTo DEF FindLetter
      <3>2. QED BY <1>0, <2>0, <2>1, <3>1 DEF Once, Wants, Flags, HasRow, Others, Step, Syncs, NoRequest
    <2>2. ASSUME NEW k \in request[c].todo,
                 Goes(c, [pc |-> IF InInbox(k) THEN "flag" ELSE "create", todo |-> request[c].todo \ {k}, letter |-> k])
          PROVE  Once(m)'
      <3>1. /\ request'[c] = [pc |-> IF InInbox(k) THEN "flag" ELSE "create", todo |-> request[c].todo \ {k}, letter |-> k]
            /\ Others(c)
        BY <2>2, GoesTo
      <3>2. InInbox(k) => HasRow(k)
        BY DEF InInbox, HasRow, Formed
      <3>3. k = m => ~InInbox(k)
        BY <1>0, <2>0, <2>2, <3>2 DEF Once, Wants, Syncs
      <3>4. /\ Wants(c, m)' <=> Wants(c, m)
            /\ ~Flags(c, m) /\ ~Flags(c, m)'
            /\ request'[c].letter = m => m \notin request'[c].todo
        BY <2>0, <2>2, <3>1, <3>3 DEF Wants, Flags, Step, Syncs
      <3>5. \A d \in BoxCalls \ {c} : /\ Wants(d, m)' <=> Wants(d, m)
                                      /\ Flags(d, m)' <=> Flags(d, m)
                                      /\ request'[d] = request[d]
        BY <3>1 DEF Wants, Flags, Others, Step
      <3>6. HasRow(m)' <=> HasRow(m)
        BY <2>0 DEF HasRow
      <3>7. QED BY <1>0, <2>0, <3>4, <3>5, <3>6 DEF Once, Step
    <2>3. QED BY <1>3, <2>1, <2>2 DEF FindLetter
  <1>4. ASSUME NEW c \in BoxCalls, StoreLetter(c) PROVE Once(m)'
    <2> DEFINE k == request[c].letter
    <2>1. /\ Len(inbox') = Len(inbox) + 1 /\ Len(inbox) \in Nat
          /\ \A i \in 1..Len(inbox) : inbox'[i] = inbox[i]
          /\ inbox'[Len(inbox) + 1] = [letter |-> k, folder |-> "INBOX"]
      BY <1>4, StoredRow DEF Formed
    <2>2. /\ request[c] = [pc |-> "create", todo |-> request[c].todo, letter |-> k]
          /\ request'[c] = [pc |-> "flag", todo |-> request[c].todo, letter |-> k]
          /\ Others(c)
      BY <1>4, StoreGoes
    <2>3. UNCHANGED flagged
      BY <1>4 DEF StoreLetter
    <2>4. \A d \in BoxCalls \ {c} : /\ Wants(d, m)' <=> Wants(d, m)
                                    /\ Flags(d, m)' <=> Flags(d, m)
                                    /\ request'[d] = request[d]
      BY <2>2 DEF Wants, Flags, Others, Step
    <2>5. CASE k = m
      <3>1. Wants(c, m) /\ Flags(c, m)' /\ m \notin request[c].todo
        BY <1>0, <2>2, <2>5 DEF Wants, Flags, Step, Once
      <3>2. ~Wants(c, m)' /\ Step(c)' # "create"
        BY <2>2, <3>1 DEF Wants, Step
      <3>3. ~HasRow(m) /\ \A d \in BoxCalls \ {c} : ~Wants(d, m) /\ ~Flags(d, m)
        BY <1>0, <3>1 DEF Once
      <3>4. \A i, j \in 1..Len(inbox') : inbox'[i].letter = m /\ inbox'[j].letter = m => i = j
        BY <2>1, <3>3 DEF HasRow
      <3>5. \A d \in BoxCalls : ~(Step(d)' = "create" /\ request'[d].letter = m)
        BY <2>4, <3>2, <3>3 DEF Wants, Step
      <3>6. QED BY <2>4, <3>1, <3>2, <3>3, <3>4, <3>5 DEF Once
    <2>6. CASE k # m
      <3>1. /\ Wants(c, m)' <=> Wants(c, m)
            /\ ~Flags(c, m) /\ ~Flags(c, m)' /\ Step(c)' # "create"
        BY <2>2, <2>6 DEF Wants, Flags, Step, Syncs
      <3>2. inbox'[Len(inbox) + 1].letter # m
        BY <2>1, <2>6
      <3>3. /\ HasRow(m)' <=> HasRow(m)
            /\ \A i, j \in 1..Len(inbox') : inbox'[i].letter = m /\ inbox'[j].letter = m => i = j
        BY <1>0, <2>1, <3>2 DEF HasRow, Once
      <3>4. QED BY <1>0, <2>3, <2>4, <3>1, <3>3 DEF Once, Step
    <2>7. QED BY <2>5, <2>6
  <1>5. ASSUME NEW c \in BoxCalls, FlagLetter(c) PROVE Once(m)'
    <2> DEFINE k == request[c].letter
    <2>1. /\ Step(c) = "flag" /\ flagged' = flagged \union {k} /\ UNCHANGED inbox
          /\ request'[c] = [pc |-> "next", todo |-> request[c].todo] /\ Others(c)
      BY <1>5, GoesTo DEF FlagLetter, Step
    <2>2. \A d \in BoxCalls \ {c} : /\ Wants(d, m)' <=> Wants(d, m)
                                    /\ Flags(d, m)' <=> Flags(d, m)
                                    /\ request'[d] = request[d]
      BY <2>1 DEF Wants, Flags, Others, Step
    <2>3. /\ Wants(c, m)' <=> Wants(c, m)
          /\ ~Flags(c, m)' /\ (Flags(c, m) <=> k = m) /\ Step(c)' # "create"
      BY <2>1 DEF Wants, Flags, Step, Syncs
    <2>4. HasRow(m)' <=> HasRow(m)
      BY <2>1 DEF HasRow
    <2>5. k = m => \A d \in BoxCalls : ~Wants(d, m)
      BY <1>0, <2>3 DEF Once
    <2>6. QED BY <1>0, <2>1, <2>2, <2>3, <2>4, <2>5 DEF Once, Step
  <1>6. ASSUME NEW c \in BoxCalls, GiveUp(c) PROVE Once(m)'
    <2>1. request'[c] = NoRequest /\ Others(c) /\ UNCHANGED <<inbox, flagged>>
          /\ loose' = loose \union (IF request[c].pc = "flag" THEN {request[c].letter} ELSE {})
      BY <1>6, GoesTo DEF GiveUp
    <2>2. ~Flags(c, m)
      BY <2>1 DEF Flags, Step
    <2>3. ~Flags(c, m)' /\ ~Wants(c, m)' /\ Step(c)' # "create"
      BY <2>1 DEF Flags, Wants, Step, NoRequest, Syncs
    <2>4. \A d \in BoxCalls \ {c} : /\ Wants(d, m)' <=> Wants(d, m)
                                    /\ Flags(d, m)' <=> Flags(d, m)
                                    /\ request'[d] = request[d]
      BY <2>1 DEF Wants, Flags, Others, Step
    <2>5. HasRow(m)' <=> HasRow(m)
      BY <2>1 DEF HasRow
    <2>6. QED BY <1>0, <2>1, <2>2, <2>3, <2>4, <2>5 DEF Once, Step
  \* The other requests neither fetch nor flag.
  <1>7. ASSUME NEW c \in BoxCalls, NEW k, Goes(c, k), k.pc \notin Syncs, Step(c) \notin Syncs, UNCHANGED flagged,
               /\ Len(inbox') = Len(inbox)
               /\ \A i \in 1..Len(inbox) : inbox'[i].letter = inbox[i].letter
        PROVE  Once(m)'
    <2>1. request'[c] = k /\ Others(c)
      BY <1>7, GoesTo
    <2>2. \A d \in BoxCalls : /\ Wants(d, m)' <=> Wants(d, m)
                              /\ Flags(d, m)' <=> Flags(d, m)
                              /\ Step(d)' = "create" => request'[d] = request[d]
      BY <1>7, <2>1 DEF Wants, Flags, Others, Step, Syncs
    <2>3. HasRow(m)' <=> HasRow(m)
      BY <1>7 DEF HasRow
    <2>4. QED BY <1>0, <1>7, <2>2, <2>3 DEF Once, Step
  <1>8. ASSUME NEW c \in BoxCalls, NEW i \in DOMAIN inbox, NEW f \in FolderNames, FindToMove(c, i, f)
        PROVE  Once(m)'
    BY <1>7, <1>8 DEF FindToMove, NoRequest, Step, Syncs
  <1>9. ASSUME NEW c \in BoxCalls, MoveToFolder(c) PROVE Once(m)'
    BY <1>7, <1>9, MovedRow DEF MoveToFolder, NoRequest, Step, Syncs
  <1>10. ASSUME NEW c \in BoxCalls, StartCounts(c) \/ AnswerCounts(c) PROVE Once(m)'
    BY <1>7, <1>10 DEF StartCounts, AnswerCounts, NoRequest, Step, Syncs
  <1>11. ASSUME NEW c \in BoxCalls, CountFolder(c) PROVE Once(m)'
    <2> DEFINE k == [request[c] EXCEPT !.counts = Append(@, InFolder(CountOrder[Len(@) + 1]))]
    <2>1. Goes(c, k) /\ UNCHANGED <<inbox, flagged>> /\ Step(c) = "count"
      BY <1>11 DEF CountFolder, Goes, Step
    <2>2. k.pc = "count"
      BY <1>11 DEF CountFolder
    <2> HIDE DEF k
    <2>3. QED BY <1>7, <2>1, <2>2 DEF Syncs
  <1>12. QED
    BY <1>1, <1>2, <1>3, <1>4, <1>5, <1>6, <1>8, <1>9, <1>10, <1>11 DEF InboxNext

\* A message is stored once: handleIncomingMessages in mail.service.ts, also when
\* its row is filed or deleted before it is flagged; but for messages that two
\* syncs had at once or one broke off with.
THEOREM LetterOnceCorrect == InboxSpec => []LetterOnce
  <1>1. InboxInit => OnceInv
    BY DEF InboxInit, OnceInv, Once, Wants, Flags, HasRow, Step, Syncs, NoRequest
  <1>2. Formed /\ OnceInv => LetterOnce
    <2> SUFFICES ASSUME Formed, OnceInv, NEW i \in DOMAIN inbox, NEW j \in DOMAIN inbox,
                        inbox[i].letter = inbox[j].letter
                 PROVE  i = j \/ inbox[i].letter \in loose
      BY DEF LetterOnce
    <2>1. i \in 1..Len(inbox) /\ j \in 1..Len(inbox) /\ inbox[i] \in BoxRows
      BY DEF Formed
    <2>2. inbox[i].letter \in Letters
      BY <2>1 DEF BoxRows
    <2>3. QED BY <2>1, <2>2 DEF OnceInv, Once
  <1>3. QED BY <1>1, <1>2, FormedStart, FormedStep, OnceStep, PTL DEF InboxSpec

-----------------------------------------------------------------------------
(* Inbox: the counts *)

\* What c has counted so far: s[n] are the rows that were in the n-th folder.  A
\* row that is in a folder which was counted is among them, if no two requests
\* had it: it was there already, or came from the inbox, which is counted first.
Tallies(c, s) ==
  /\ \A n \in 1..Len(request[c].counts) : request[c].counts[n] = Cardinality(s[n])
  /\ \A i \in (1..request[c].rows) \ tangled : \A n \in 1..Len(request[c].counts) :
       inbox[i].folder = CountOrder[n] => \E m \in 1..Len(request[c].counts) : i \in s[m]

Tallying(c) == Step(c) = "count" =>
  /\ request[c] = [pc |-> "count", counts |-> request[c].counts, rows |-> request[c].rows]
  /\ request[c].counts \in Seq(Nat) /\ Len(request[c].counts) <= 3
  /\ request[c].rows \in Nat /\ request[c].rows <= Len(inbox)
  /\ c \in quiet => \A n \in 1..Len(request[c].counts) : request[c].counts[n] = InFolder(CountOrder[n])
  /\ \E s \in [1..3 -> SUBSET (1..MaxInbox)] : Tallies(c, s)

CountsInv == \A c \in BoxCalls : Tallying(c)

\* The folders that are counted, and the others.
LEMMA FoldersInOrder ==
  Len(CountOrder) = 3 /\ CountOrder[1] = "INBOX" /\ DOMAIN CountOrder = 1..3
  /\ FolderNames = {CountOrder[1], CountOrder[2], CountOrder[3], "OTHER"}
  BY DEF CountOrder, FolderNames

\* Other requests do not disturb what c has counted, as a row that is not
\* tangled stays or leaves the inbox.
LEMMA TallyKept ==
  ASSUME Formed, NEW c \in BoxCalls, Tallying(c), Step(c) = "count", request'[c] = request[c],
         Len(inbox') \in Nat, Len(inbox) <= Len(inbox'), tangled \subseteq tangled',
         \A i \in (1..Len(inbox)) \ tangled' : inbox'[i].folder = inbox[i].folder \/ inbox[i].folder = "INBOX",
         c \in quiet' => c \in quiet /\ inbox' = inbox
  PROVE  Tallying(c)'
  <1> DEFINE n == Len(request[c].counts)
  <1>1. /\ n \in Nat /\ n <= 3 /\ request[c].rows \in Nat /\ request[c].rows <= Len(inbox) /\ Len(inbox) \in Nat
        /\ request[c].counts \in Seq(Nat)
        /\ request[c] = [pc |-> "count", counts |-> request[c].counts, rows |-> request[c].rows]
    BY DEF Tallying, Formed
  <1>2. PICK s \in [1..3 -> SUBSET (1..MaxInbox)] : Tallies(c, s)
    BY DEF Tallying
  <1>3. ASSUME NEW i \in (1..request[c].rows) \ tangled', NEW k \in 1..n, inbox'[i].folder = CountOrder[k]
        PROVE  \E m \in 1..n : i \in s[m]
    <2>1. i \in (1..Len(inbox)) \ tangled' /\ i \notin tangled
      BY <1>1, <1>3
    <2>2. 1 \in 1..n
      BY <1>1, <1>3
    <2>3. inbox[i].folder = CountOrder[k] \/ inbox[i].folder = CountOrder[1]
      BY <1>3, <2>1, FoldersInOrder
    <2>4. QED BY <1>2, <1>3, <2>1, <2>2, <2>3 DEF Tallies
  <1>4. \A k \in 1..n : request[c].counts[k] = Cardinality(s[k])
    BY <1>2 DEF Tallies
  <1>5. Tallies(c, s)'
    BY <1>3, <1>4 DEF Tallies
  <1>6. c \in quiet' => \A k \in 1..n : request[c].counts[k] = InFolder(CountOrder[k])'
    <2> SUFFICES ASSUME c \in quiet' PROVE \A k \in 1..n : request[c].counts[k] = InFolder(CountOrder[k])'
      OBVIOUS
    <2>1. \A k \in 1..n : request[c].counts[k] = InFolder(CountOrder[k])
      BY DEF Tallying
    <2>2. QED BY <2>1 DEF InFolder
  <1>7. request[c].rows <= Len(inbox')
    BY <1>1
  <1>8. QED BY <1>1, <1>5, <1>6, <1>7 DEF Tallying, Step

\* Every step keeps the rows behind the counts.
LEMMA CountsStep == Formed /\ MovedInv /\ CountsInv /\ [InboxNext]_inboxVars => CountsInv'
  <1> SUFFICES ASSUME Formed, MovedInv, CountsInv, [InboxNext]_inboxVars PROVE CountsInv'
    OBVIOUS
  <1>0. inbox \in Seq(BoxRows) /\ Len(inbox) \in Nat /\ DOMAIN inbox = 1..Len(inbox) /\ Len(inbox) <= MaxInbox
        /\ MaxInbox \in Nat
    BY InboxAssumption DEF Formed
  \* Steps that leave the rows alone and count nothing.
  <1>1. ASSUME UNCHANGED inbox, tangled \subseteq tangled', quiet' \subseteq quiet,
               NEW d \in BoxCalls, Step(d)' = "count" => request'[d] = request[d]
        PROVE  Tallying(d)'
    <2>1. CASE Step(d)' = "count"
      <3>1. Tallying(d) /\ Step(d) = "count" /\ request'[d] = request[d]
        BY <1>1, <2>1 DEF CountsInv, Step
      <3>2. QED BY <1>0, <1>1, <3>1, TallyKept
    <2>2. CASE Step(d)' # "count"
      BY <2>2 DEF Tallying
    <2>3. QED BY <2>1, <2>2
  <1>2. ASSUME NEW c \in BoxCalls, NEW k, Goes(c, k), k.pc # "count",
               UNCHANGED inbox, tangled \subseteq tangled', quiet' \subseteq quiet
        PROVE  CountsInv'
    BY <1>1, <1>2, GoesTo DEF Step, Others, CountsInv
  <1>3. CASE UNCHANGED inboxVars
    BY <1>1, <1>3 DEF inboxVars, Step, CountsInv
  <1>4. ASSUME NEW c \in BoxCalls, SyncInbox(c) \/ FindLetter(c) \/ FlagLetter(c) \/ GiveUp(c) \/ AnswerCounts(c)
        PROVE  CountsInv'
    BY <1>2, <1>4 DEF SyncInbox, FindLetter, FlagLetter, GiveUp, AnswerCounts, NoRequest
  <1>5. ASSUME NEW c \in BoxCalls, NEW i \in DOMAIN inbox, NEW f \in FolderNames, FindToMove(c, i, f)
        PROVE  CountsInv'
    BY <1>2, <1>5 DEF FindToMove
  <1>6. ASSUME NEW c \in BoxCalls, StoreLetter(c) PROVE CountsInv'
    <2>1. Len(inbox') = Len(inbox) + 1 /\ \A i \in 1..Len(inbox) : inbox'[i] = inbox[i]
      BY <1>6, StoredRow
    <2>2. Others(c) /\ request'[c] = [pc |-> "flag", todo |-> request[c].todo, letter |-> request[c].letter]
      BY <1>6, StoreGoes
    <2>3. quiet' = {} /\ tangled' = tangled
      BY <1>6 DEF StoreLetter
    <2>4. ASSUME NEW d \in BoxCalls, Step(d)' = "count" PROVE Tallying(d)'
      <3>1. request'[d] = request[d] /\ Step(d) = "count" /\ Tallying(d)
        <4>1. d # c
          BY <2>2, <2>4 DEF Step
        <4>2. QED BY <2>2, <2>4, <4>1 DEF Others, Step, CountsInv
      <3>2. QED BY <1>0, <2>1, <2>3, <3>1, TallyKept
    <2>5. QED BY <2>4 DEF CountsInv, Tallying
  <1>7. ASSUME NEW c \in BoxCalls, MoveToFolder(c) PROVE CountsInv'
    <2>1. /\ Len(inbox') = Len(inbox)
          /\ \A j \in 1..Len(inbox) : j # request[c].row => inbox'[j] = inbox[j]
      BY <1>7, MovedRow
    <2>2. request'[c] = NoRequest /\ Others(c) /\ tangled' = tangled /\ quiet' = {} /\ Step(c) = "move"
      BY <1>7, GoesTo DEF MoveToFolder, Step
    <2>3. request[c].row \in tangled \/ inbox[request[c].row].folder = "INBOX"
      BY <2>2 DEF MovedInv
    <2>4. ASSUME NEW d \in BoxCalls, Step(d)' = "count" PROVE Tallying(d)'
      <3>1. request'[d] = request[d] /\ Step(d) = "count" /\ Tallying(d)
        BY <2>2, <2>4 DEF Others, Step, CountsInv, NoRequest
      <3>2. QED BY <1>0, <2>1, <2>2, <2>3, <3>1, TallyKept
    <2>5. QED BY <2>4 DEF CountsInv, Tallying
  <1>8. ASSUME NEW c \in BoxCalls, StartCounts(c) PROVE CountsInv'
    <2>1. request'[c] = [pc |-> "count", counts |-> <<>>, rows |-> Len(inbox)] /\ Others(c)
          /\ UNCHANGED <<inbox, tangled>> /\ quiet' = quiet \union {c}
      BY <1>8, GoesTo DEF StartCounts
    <2>2. Tallying(c)'
      <3>1. [n \in 1..3 |-> {}] \in [1..3 -> SUBSET (1..MaxInbox)]
        OBVIOUS
      <3>2. Len(<<>>) = 0 /\ <<>> \in Seq(Nat) /\ 1..0 = {}
        OBVIOUS
      <3>3. request'[c].counts = <<>> /\ request'[c].rows = Len(inbox)
        BY <2>1
      <3>4. Tallies(c, [n \in 1..3 |-> {}])'
        BY <3>2, <3>3 DEF Tallies
      <3>5. QED BY <1>0, <2>1, <3>1, <3>2, <3>3, <3>4 DEF Tallying
    <2>3. ASSUME NEW d \in BoxCalls, d # c, Step(d)' = "count" PROVE Tallying(d)'
      <3>1. request'[d] = request[d] /\ Step(d) = "count" /\ Tallying(d)
        BY <2>1, <2>3 DEF Others, Step, CountsInv
      <3>2. QED BY <1>0, <2>1, <2>3, <3>1, TallyKept
    <2>4. QED BY <2>2, <2>3 DEF CountsInv, Tallying
  <1>9. ASSUME NEW c \in BoxCalls, CountFolder(c) PROVE CountsInv'
    <2> DEFINE counts == request[c].counts
               n == Len(counts)
               here == {i \in DOMAIN inbox : inbox[i].folder = CountOrder[n + 1]}
               more == Append(counts, Cardinality(here))
    <2>1. /\ Step(c) = "count" /\ n # 3 /\ UNCHANGED <<inbox, tangled, quiet>>
          /\ request' = [request EXCEPT ![c].counts = Append(@, InFolder(CountOrder[Len(@) + 1]))]
      BY <1>9, FoldersInOrder DEF CountFolder, Counted, Step
    <2>2. /\ request[c] = [pc |-> "count", counts |-> counts, rows |-> request[c].rows]
          /\ counts \in Seq(Nat) /\ n \in Nat /\ n <= 2
          /\ request[c].rows \in Nat /\ request[c].rows <= Len(inbox)
      BY <2>1 DEF CountsInv, Tallying
    <2>3. /\ request'[c] = [pc |-> "count", counts |-> more, rows |-> request[c].rows]
          /\ Others(c)
      <3>1. PICK k : k = [request[c] EXCEPT !.counts = more]
        OBVIOUS
      <3>2. request' = [request EXCEPT ![c] = k]
        BY <2>1, <3>1 DEF InFolder
      <3>3. request'[c] = k /\ Others(c)
        BY <3>2 DEF Formed, Others
      <3>4. k = [pc |-> "count", counts |-> more, rows |-> request[c].rows]
        <4> HIDE DEF more
        <4>1. QED BY <2>2, <3>1
      <3>5. QED BY <3>3, <3>4
    <2>4. here \subseteq 1..MaxInbox /\ IsFiniteSet(here) /\ Cardinality(here) \in Nat
      <3>1. here \subseteq 1..Len(inbox) /\ IsFiniteSet(1..Len(inbox))
        <4>1. IsFiniteSet(1..Len(inbox))
          BY <1>0, FS_Interval, 1 \in Int, Len(inbox) \in Int
        <4>2. QED BY <1>0, <4>1
      <3>2. QED BY <1>0, <3>1, FS_Subset, FS_CardinalityType
    <2>5. \A i \in 1..Len(inbox) : inbox[i].folder = CountOrder[n + 1] => i \in here
      BY <1>0
    <2>6. Cardinality(here) = InFolder(CountOrder[n + 1])
      BY DEF InFolder
    <2> HIDE DEF here
    <2>7. /\ more \in Seq(Nat) /\ Len(more) = n + 1 /\ \A k \in 1..n : more[k] = counts[k]
          /\ more[n + 1] = Cardinality(here)
      BY <2>2, <2>4
    <2>8. request'[c].counts = more /\ request'[c].rows = request[c].rows
      BY <2>3
    <2> HIDE DEF n, counts, more
    <2>9. PICK s \in [1..3 -> SUBSET (1..MaxInbox)] : Tallies(c, s)
      BY <2>1 DEF CountsInv, Tallying
    <2> DEFINE t == [s EXCEPT ![n + 1] = here]
    <2>10. /\ t \in [1..3 -> SUBSET (1..MaxInbox)] /\ t[n + 1] = here /\ \A k \in 1..n : t[k] = s[k]
      BY <2>2, <2>4
    <2> HIDE DEF t
    <2>11. /\ \A k \in 1..n : counts[k] = Cardinality(s[k])
           /\ \A i \in (1..request[c].rows) \ tangled : \A k \in 1..n :
                inbox[i].folder = CountOrder[k] => \E m \in 1..n : i \in s[m]
      BY <2>9 DEF Tallies, n, counts
    <2>12. \A k \in 1..(n + 1) : more[k] = Cardinality(t[k])
      <3>1. \A k \in 1..(n + 1) : k \in 1..n \/ k = n + 1
        BY <2>2
      <3>2. QED BY <3>1, <2>7, <2>10, <2>11
    <2>13. ASSUME NEW i \in (1..request[c].rows) \ tangled, NEW k \in 1..(n + 1), inbox[i].folder = CountOrder[k]
           PROVE  \E m \in 1..(n + 1) : i \in t[m]
      <3>1. CASE k = n + 1
        <4>1. i \in here /\ n + 1 \in 1..(n + 1)
          BY <2>2, <2>5, <2>13, <3>1, <1>0
        <4>2. QED BY <4>1, <2>10
      <3>2. CASE k \in 1..n
        <4>1. PICK m \in 1..n : i \in s[m]
          BY <2>11, <2>13, <3>2
        <4>2. m \in 1..(n + 1) /\ i \in t[m]
          BY <4>1, <2>2, <2>10
        <4>3. QED BY <4>2
      <3>3. QED BY <3>1, <3>2, <2>2
    <2>14. /\ \A k \in 1..Len(request'[c].counts) : request'[c].counts[k] = Cardinality(t[k])
           /\ \A i \in (1..request'[c].rows) \ tangled' : \A k \in 1..Len(request'[c].counts) :
                inbox'[i].folder = CountOrder[k] => \E m \in 1..Len(request'[c].counts) : i \in t[m]
      BY <2>1, <2>7, <2>8, <2>12, <2>13
    <2>15. ASSUME c \in quiet' PROVE \A k \in 1..(n + 1) : more[k] = InFolder(CountOrder[k])'
      <3>1. \A k \in 1..n : counts[k] = InFolder(CountOrder[k])
        BY <2>1, <2>15 DEF CountsInv, Tallying, n, counts
      <3>2. \A k \in 1..(n + 1) : more[k] = InFolder(CountOrder[k])
        <4>1. \A k \in 1..(n + 1) : k \in 1..n \/ k = n + 1
          BY <2>2
        <4>2. QED BY <4>1, <3>1, <2>6, <2>7
      <3>3. QED BY <2>1, <3>2 DEF InFolder
    <2>16. Tallying(c)'
      <3>1. request'[c] = [pc |-> "count", counts |-> request'[c].counts, rows |-> request'[c].rows]
        BY <2>3, <2>8
      <3>2. request'[c].rows \in Nat /\ request'[c].rows <= Len(inbox')
        BY <2>1, <2>2, <2>8
      <3>3. request'[c].counts \in Seq(Nat) /\ Len(request'[c].counts) <= 3
        BY <2>2, <2>7, <2>8
      <3>4. c \in quiet' => \A k \in 1..Len(request'[c].counts) : request'[c].counts[k] = InFolder(CountOrder[k])'
        BY <2>7, <2>8, <2>15
      <3>5. \E r \in [1..3 -> SUBSET (1..MaxInbox)] : Tallies(c, r)'
        <4> DEFINE Counting(r) ==
              /\ \A k \in 1..Len(request'[c].counts) : request'[c].counts[k] = Cardinality(r[k])
              /\ \A i \in (1..request'[c].rows) \ tangled' : \A k \in 1..Len(request'[c].counts) :
                   inbox'[i].folder = CountOrder[k] => \E m \in 1..Len(request'[c].counts) : i \in r[m]
        <4>1. Counting(t)
          BY <2>14
        <4>2. \A r : Counting(r) <=> Tallies(c, r)'
          BY DEF Tallies
        <4> HIDE DEF Counting
        <4>3. QED BY <2>10, <4>1, <4>2
      <3>6. QED BY <3>1, <3>2, <3>3, <3>4, <3>5 DEF Tallying
    <2>17. ASSUME NEW d \in BoxCalls, d # c, Step(d)' = "count" PROVE Tallying(d)'
      <3>1. request'[d] = request[d]
        BY <2>3, <2>17 DEF Others
      <3>2. QED BY <1>1, <2>1, <3>1
    <2>18. QED BY <2>16, <2>17 DEF CountsInv, Tallying
  <1>10. QED
    BY <1>3, <1>4, <1>5, <1>6, <1>7, <1>8, <1>9 DEF InboxNext

\* The sum of three numbers.
LEMMA SumOfThree ==
  ASSUME NEW f, f[1] \in Int, f[2] \in Int, f[3] \in Int
  PROVE  SumOver(f, 1..3) = f[1] + f[2] + f[3]
  <1>1. PICK I : I = {1, 2, 3}
    OBVIOUS
  <1>2. IsFiniteSet(I) /\ \A x \in I : f[x] \in Int
    <2>1. IsFiniteSet({1}) /\ IsFiniteSet({2}) /\ IsFiniteSet({3})
      BY FS_Singleton
    <2>2. I = ({1} \union {2}) \union {3}
      BY <1>1
    <2>3. IsFiniteSet({1} \union {2})
      BY <2>1, FS_Union
    <2>4. IsFiniteSet(I)
      BY <2>1, <2>2, <2>3, FS_Union
    <2>5. \A x \in I : f[x] \in Int
      BY <1>1
    <2>6. QED BY <2>4, <2>5
  <1>3. ASSUME NEW T \in SUBSET I, NEW x \in I \ T
        PROVE  SumOver(f, T \union {x}) = f[x] + SumOver(f, T)
    BY <1>2, SumWith
  <1>4. /\ {} \in SUBSET I /\ {1} \in SUBSET I /\ {1, 2} \in SUBSET I
        /\ 1 \in I \ {} /\ 2 \in I \ {1} /\ 3 \in I \ {1, 2}
        /\ {} \union {1} = {1} /\ {1} \union {2} = {1, 2} /\ {1, 2} \union {3} = I /\ I = 1..3
    BY <1>1
  <1>5. SumOver(f, {} \union {1}) = f[1] + SumOver(f, {}) /\ SumOver(f, {}) = 0
    BY <1>3, <1>4, SumOfNone
  <1>6. SumOver(f, {1} \union {2}) = f[2] + SumOver(f, {1})
    BY <1>3, <1>4
  <1>7. SumOver(f, {1, 2} \union {3}) = f[3] + SumOver(f, {1, 2})
    BY <1>3, <1>4
  <1>8. SumOver(f, 1..3) = f[3] + (f[2] + (f[1] + 0))
    BY <1>4, <1>5, <1>6, <1>7
  <1>9. QED BY <1>8

\* The rows behind the counts make their sum large enough.
LEMMA CountsAdd == Formed /\ CountsInv => CountsTrue
  <1> SUFFICES ASSUME Formed, CountsInv, NEW c \in BoxCalls, Step(c) = "count", Counted(c)
      PROVE /\ c \in quiet => \A n \in DOMAIN CountOrder : request[c].counts[n] = InFolder(CountOrder[n])
            /\ Cardinality({i \in 1..request[c].rows \ tangled : inbox[i].folder # "OTHER"})
                 <= MapThenSumSet(LAMBDA n : request[c].counts[n], DOMAIN CountOrder)
    BY DEF CountsTrue, Step
  <1> DEFINE f == request[c].counts
             R == {i \in 1..request[c].rows \ tangled : inbox[i].folder # "OTHER"}
  <1>1. /\ Len(f) = 3 /\ f \in Seq(Nat) /\ f[1] \in Nat /\ f[2] \in Nat /\ f[3] \in Nat
        /\ request[c].rows \in Nat /\ request[c].rows <= Len(inbox)
    <2>1. /\ Len(f) = 3 /\ f \in Seq(Nat)
          /\ request[c].rows \in Nat /\ request[c].rows <= Len(inbox)
      BY FoldersInOrder DEF Counted, CountsInv, Tallying
    <2> HIDE DEF f
    <2>2. PICK g \in Seq(Nat) : g = f /\ Len(g) = 3
      BY <2>1
    <2>3. \A n \in 1..3 : g[n] \in Nat
      BY <2>2
    <2>4. f[1] \in Nat /\ f[2] \in Nat /\ f[3] \in Nat
      BY <2>2, <2>3
    <2>5. QED BY <2>1, <2>4
  <1>2. c \in quiet => \A n \in DOMAIN CountOrder : f[n] = InFolder(CountOrder[n])
    BY <1>1, FoldersInOrder DEF CountsInv, Tallying
  <1>3. PICK s \in [1..3 -> SUBSET (1..MaxInbox)] : Tallies(c, s)
    BY DEF CountsInv, Tallying
  <1>4. /\ IsFiniteSet(s[1]) /\ IsFiniteSet(s[2]) /\ IsFiniteSet(s[3])
    <2>1. IsFiniteSet(1..MaxInbox)
      BY FS_Interval, InboxAssumption, 1 \in Int, MaxInbox \in Int
    <2>2. s[1] \subseteq 1..MaxInbox /\ s[2] \subseteq 1..MaxInbox /\ s[3] \subseteq 1..MaxInbox
      OBVIOUS
    <2>3. QED BY <2>1, <2>2, FS_Subset
  <1>5. R \subseteq (s[1] \union s[2]) \union s[3]
    <2> SUFFICES ASSUME NEW i \in R PROVE i \in s[1] \/ i \in s[2] \/ i \in s[3]
      OBVIOUS
    <2>1. i \in (1..request[c].rows) \ tangled /\ inbox[i].folder # "OTHER" /\ i \in 1..Len(inbox)
      BY <1>1
    <2>2. inbox[i].folder \in FolderNames
      <3>1. inbox[i] \in BoxRows
        BY <2>1 DEF Formed
      <3>2. QED BY <3>1 DEF BoxRows
    <2>3. \E n \in 1..3 : inbox[i].folder = CountOrder[n]
      BY <2>1, <2>2, FoldersInOrder
    <2>4. PICK m \in 1..3 : i \in s[m]
      BY <1>1, <1>3, <2>1, <2>3 DEF Tallies
    <2>5. QED BY <2>4
  <1>6. /\ IsFiniteSet(s[1] \union s[2]) /\ Cardinality(s[1] \union s[2]) <= Cardinality(s[1]) + Cardinality(s[2])
    BY <1>4, SizeOfBoth
  <1>7. /\ IsFiniteSet((s[1] \union s[2]) \union s[3])
        /\ Cardinality((s[1] \union s[2]) \union s[3]) <= Cardinality(s[1] \union s[2]) + Cardinality(s[3])
    BY <1>4, <1>6, SizeOfBoth
  <1>8. Cardinality(R) <= Cardinality((s[1] \union s[2]) \union s[3])
    BY <1>5, <1>7, FS_Subset
  <1>9. f[1] = Cardinality(s[1]) /\ f[2] = Cardinality(s[2]) /\ f[3] = Cardinality(s[3])
    BY <1>1, <1>3 DEF Tallies
  <1>10. /\ Cardinality(R) \in Nat /\ Cardinality((s[1] \union s[2]) \union s[3]) \in Nat
         /\ Cardinality(s[1] \union s[2]) \in Nat
    BY <1>5, <1>6, <1>7, FS_Subset, FS_CardinalityType
  <1> HIDE DEF R
  <1>11. Cardinality(R) <= f[1] + f[2] + f[3]
    BY <1>1, <1>6, <1>7, <1>8, <1>9, <1>10
  <1>12. SumOver(f, 1..3) = f[1] + f[2] + f[3]
    BY <1>1, SumOfThree
  <1>13. MapThenSumSet(LAMBDA n : request[c].counts[n], DOMAIN CountOrder) = SumOver(f, 1..3)
    BY FoldersInOrder DEF SumOver
  <1>14. QED BY <1>2, <1>11, <1>12, <1>13 DEF R

\* The counts of the folders that getFolderCounts of email-inbox.service.ts takes
\* one after the other: those of the folders if nothing moved meanwhile, and
\* without a row missed if rows did, but for rows that two requests had found.
THEOREM CountsTrueCorrect == InboxSpec => []CountsTrue
  <1>1. InboxInit => CountsInv
    BY DEF InboxInit, CountsInv, Tallying, NoRequest, Step
  <1>2. InboxInit => MovedInv
    BY InboxAssumption DEF InboxInit, MovedInv, NoRequest, Step, FolderNames
  <1>3. QED BY <1>1, <1>2, FormedStart, FormedStep, MovedStep, CountsStep, CountsAdd, PTL DEF InboxSpec

\* What the inbox of email-inbox.service.ts promises of its rows and counts.
THEOREM InboxTrueCorrect == InboxSpec => []InboxTrue
  BY LetterOnceCorrect, MovedOnceCorrect, CountsTrueCorrect, PTL DEF InboxTrue

-----------------------------------------------------------------------------
(* Audit *)

Clean(paths) == \A path \in paths : \A k \in 1..(Len(path) - 1) : path[k] \notin SENSITIVE_KEYS

\* A body of any depth is clean once it is redacted.
LEMMA RedactedClean ==
  ASSUME NEW body \in Bodies
  PROVE  Clean(Redacted(body))
  <1> DEFINE S(path) == {i \in DOMAIN path : path[i] \in SENSITIVE_KEYS}
             cut(path) == IF S(path) = {} THEN path ELSE SubSeq(path, 1, Min(S(path)))
  <1>1. Redacted(body) = {cut(path) : path \in body}
    BY DEF Redacted
  <1> HIDE DEF cut
  <1>2. ASSUME NEW path \in body, NEW k \in 1..(Len(cut(path)) - 1)
        PROVE  cut(path)[k] \notin SENSITIVE_KEYS
    <2>1. path \in Seq(Keys) /\ DOMAIN path = 1..Len(path) /\ Len(path) \in Nat
      BY AuditAssumption
    <2>2. CASE S(path) = {}
      BY <2>1, <2>2 DEF cut
    <2>3. CASE S(path) # {}
      <3> DEFINE m == Min(S(path))
      <3>1. S(path) \subseteq 1..Len(path)
        BY <2>1
      <3>2. m \in S(path) /\ \A i \in S(path) : m <= i
        <4>1. S(path) \subseteq Nat
          BY <3>1
        <4> HIDE DEF S
        <4>2. QED BY <4>1, <2>3, LeastPlace
      <3>3. m \in 1..Len(path)
        BY <3>1, <3>2
      <3> HIDE DEF m
      <3>4. \A i \in 1..m : path[i] \in Keys
        BY <2>1, <3>3
      <3>5. /\ Len(SubSeq(path, 1, m)) = m
            /\ \A i \in 1..m : SubSeq(path, 1, m)[i] = path[i]
        <4>1. m \in Int /\ 1 \in Int /\ \A i \in 1..m : path[i] \in Keys
          BY <3>3, <3>4
        <4>2. /\ DOMAIN SubSeq(path, 1, m) = 1..(m - 1 + 1)
              /\ SubSeq(path, 1, m) \in Seq(Keys)
              /\ Len(SubSeq(path, 1, m)) = IF 1 <= m THEN m - 1 + 1 ELSE 0
              /\ \A i \in 1..(m - 1 + 1) : SubSeq(path, 1, m)[i] = path[1 + i - 1]
          BY <4>1, SubSeqProperties
        <4>3. QED BY <4>2, <3>3
      <3>6. cut(path) = SubSeq(path, 1, m)
        BY <2>3 DEF m, cut
      <3>7. k \in 1..(m - 1) /\ cut(path)[k] = path[k]
        BY <3>3, <3>5, <3>6
      <3>8. k \notin S(path)
        BY <3>2, <3>3, <3>7
      <3>9. k \in DOMAIN path
        BY <2>1, <3>3, <3>7
      <3>10. QED BY <3>7, <3>8, <3>9
    <2>4. QED BY <2>2, <2>3
  <1>3. QED BY <1>1, <1>2 DEF Clean

\* What a row holds is redacted, and so is what a request is about to record.
Cleaned == {Redacted(b) : b \in Bodies}
Asking == [pc : {"called"}, tenant : Scopes \union {Outside}, about : Filters, before : Cleaned]
Telling == [pc : {"answered"}, tenant : Scopes \union {Outside}, about : Filters,
            before : Cleaned, after : Cleaned]

CleanInv ==
  /\ trail \in Seq(AuditRow)
  /\ write \in [Writes -> {NoWrite} \union Asking \union Telling]

\* Every step keeps the rows and what will be one free of what is below a sensitive key.
LEMMA CleanStep == CleanInv /\ [AuditNext]_auditVars => CleanInv'
  <1> SUFFICES ASSUME CleanInv, [AuditNext]_auditVars PROVE CleanInv'
    OBVIOUS
  <1>1. CASE UNCHANGED <<trail, write>>
    BY <1>1 DEF CleanInv
  <1>2. ASSUME NEW w \in Writes, NEW t \in Scopes \union {Outside}, NEW f \in Filters,
               NEW body \in Bodies, Use(w, t, f, body)
        PROVE  CleanInv'
    <2>1. [pc |-> "called", tenant |-> t, about |-> f, before |-> Redacted(body)] \in Asking
      BY DEF Asking, Cleaned
    <2>2. QED BY <1>2, <2>1 DEF Use, CleanInv
  <1>3. ASSUME NEW w \in Writes, NEW body \in Bodies, Answered(w, body) PROVE CleanInv'
    <2>1. write[w] \in Asking
      BY <1>3 DEF Answered, CleanInv, NoWrite, Telling
    <2>2. [pc |-> "answered", tenant |-> write[w].tenant, about |-> write[w].about,
           before |-> write[w].before, after |-> Redacted(body)] \in Telling
      BY <2>1 DEF Asking, Telling, Cleaned
    <2>3. QED BY <1>3, <2>2 DEF Answered, CleanInv
  <1>4. ASSUME NEW w \in Writes, Persist(w) PROVE CleanInv'
    <2>1. write[w] \in Telling
      BY <1>4 DEF Persist, CleanInv, NoWrite, Asking
    <2>2. [tenant |-> write[w].tenant, about |-> write[w].about,
           before |-> write[w].before, after |-> write[w].after] \in AuditRow
      BY <2>1 DEF Telling, AuditRow, Cleaned
    <2>3. QED BY <1>4, <2>2 DEF Persist, CleanInv
  <1>5. ASSUME NEW w \in Writes, Unrecorded(w) PROVE CleanInv'
    BY <1>5 DEF Unrecorded, CleanInv
  <1>6. QED BY <1>1, <1>2, <1>3, <1>4, <1>5 DEF AuditNext, Capturing, Listing, Browsing, auditVars

\* No row of the trail holds anything below a sensitive key: audit-redactor.ts,
\* for bodies of any depth, and AuditMiddleware, whatever the order and the end
\* of the requests it watches.
THEOREM NothingBelowCorrect == AuditSpec => []NothingBelow
  <1>1. AuditInit => CleanInv
    BY DEF AuditInit, CleanInv
  <1>2. CleanInv => NothingBelow
    <2> SUFFICES ASSUME CleanInv, NEW i \in DOMAIN trail,
                        NEW path \in trail[i].before \union trail[i].after,
                        NEW k \in 1..(Len(path) - 1)
                 PROVE  path[k] \notin SENSITIVE_KEYS
      BY DEF NothingBelow
    <2>1. trail[i] \in AuditRow
      BY DEF CleanInv
    <2>2. trail[i].before \in Cleaned /\ trail[i].after \in Cleaned
      BY <2>1 DEF AuditRow, Cleaned
    <2>3. Clean(trail[i].before) /\ Clean(trail[i].after)
      BY <2>2, RedactedClean DEF Cleaned
    <2>4. QED BY <2>3 DEF Clean
  <1>3. QED BY <1>1, <1>2, CleanStep, PTL DEF AuditSpec

-----------------------------------------------------------------------------
(* Audit: the list *)

\* Of a finite set, each place from the greatest number down is taken.
LEMMA PlacesTaken ==
  ASSUME NEW S \in SUBSET Nat, IsFiniteSet(S)
  PROVE  /\ Cardinality(S) \in Nat
         /\ \A k \in 1..Cardinality(S) : \E i \in S : Cardinality({j \in S : j >= i}) = k
  <1> DEFINE PlaceTaken(T, k) == \E i \in T : Cardinality({j \in T : j >= i}) = k
             Q == {n \in Nat : \A T \in SUBSET Nat : IsFiniteSet(T) /\ Cardinality(T) = n =>
                                 \A k \in 1..n : PlaceTaken(T, k)}
  <1>1. 0 \in Q
    OBVIOUS
  <1>2. \A n \in Nat : n \in Q => n + 1 \in Q
    <2> SUFFICES ASSUME NEW n \in Nat, n \in Q, NEW T \in SUBSET Nat, IsFiniteSet(T), Cardinality(T) = n + 1,
                        NEW k \in 1..(n + 1)
                 PROVE  PlaceTaken(T, k)
      OBVIOUS
    <2>1. T # {} /\ T \subseteq Nat
      BY FS_EmptySet
    <2>2. PICK m \in T : \A j \in T : m <= j
      BY <2>1, LeastPlace
    <2>3. IsFiniteSet(T \ {m}) /\ Cardinality(T \ {m}) = n
      <3>1. IsFiniteSet(T \ {m}) /\ Cardinality(T \ {m}) = Cardinality(T) - 1
        BY <2>2, FS_RemoveElement
      <3>2. QED BY <3>1
    <2>4. CASE k \in 1..n
      <3>1. PlaceTaken(T \ {m}, k)
        BY <2>3, <2>4
      <3>2. PICK i \in T \ {m} : Cardinality({j \in T \ {m} : j >= i}) = k
        BY <3>1
      <3>3. i \in Nat /\ m \in Nat /\ i # m /\ m <= i
        BY <2>2
      <3>4. ~(m >= i)
        BY <3>3
      <3>5. {j \in T \ {m} : j >= i} = {j \in T : j >= i}
        BY <3>4
      <3>6. QED BY <3>2, <3>5
    <2>5. CASE k = n + 1
      <3>1. \A j \in T : j >= m
        BY <2>2
      <3>2. {j \in T : j >= m} = T
        BY <3>1
      <3>3. QED BY <2>2, <2>5, <3>2
    <2>6. QED BY <2>4, <2>5
  <1> HIDE DEF Q, PlaceTaken
  <1>3. \A n \in Nat : n \in Q
    BY <1>1, <1>2, NumbersAll
  <1>4. Cardinality(S) \in Nat
    BY FS_CardinalityType
  <1>5. Cardinality(S) \in Q
    BY <1>3, <1>4
  <1>6. \A k \in 1..Cardinality(S) : PlaceTaken(S, k)
    BY <1>5 DEF Q
  <1>7. QED BY <1>4, <1>6 DEF PlaceTaken

\* A page has rows of the set it is taken from.
LEMMA NewestOf ==
  ASSUME NEW S \in SUBSET Nat, IsFiniteSet(S)
  PROVE  Newest(S) \in Seq(Nat) /\ ToSet(Newest(S)) \subseteq S
  <1> DEFINE m == Min({Cardinality(S), Take})
             At(k) == CHOOSE i \in S : Cardinality({j \in S : j >= i}) = k
  <1>1. Cardinality(S) \in Nat /\ Take \in Nat
    BY PlacesTaken, AuditAssumption
  <1>2. m \in Nat /\ m <= Cardinality(S)
    <2>1. {Cardinality(S), Take} \subseteq Nat /\ {Cardinality(S), Take} # {}
      BY <1>1
    <2>2. m \in {Cardinality(S), Take} /\ m <= Cardinality(S)
      BY <2>1, LeastPlace
    <2>3. QED BY <1>1, <2>2
  <1> HIDE DEF m
  <1>3. \A k \in 1..m : At(k) \in S
    <2>1. \A k \in 1..m : k \in 1..Cardinality(S)
      BY <1>1, <1>2
    <2>2. \A k \in 1..m : \E i \in S : Cardinality({j \in S : j >= i}) = k
      BY <2>1, PlacesTaken
    <2>3. QED BY <2>2
  <1>4. Newest(S) = [k \in 1..m |-> At(k)]
    BY DEF Newest, m
  <1> HIDE DEF At
  <1>5. DOMAIN Newest(S) = 1..m /\ \A k \in 1..m : Newest(S)[k] \in S /\ Newest(S)[k] \in Nat
    BY <1>3, <1>4
  <1>6. Newest(S) \in [1..m -> Nat]
    BY <1>4, <1>5
  <1>7. Newest(S) \in Seq(Nat)
    BY <1>2, <1>6, IsASeq
  <1>8. QED BY <1>5, <1>7 DEF ToSet

FilterOrAll == Filters \union {All}
SentLists == [pc : {"sent"}, filter : FilterOrAll, newest : BOOLEAN, found : BOOLEAN, rows : Seq(Nat), total : Int]
FailedLists == [pc : {"error"}, newest : BOOLEAN]
ListPages == [view : {"closed", "open", "broken"}, filter : FilterOrAll, rows : Seq(Nat), total : Int]

\* What is listed matches its filter.
MatchesFilter(list) ==
  ToSet(list.rows) \subseteq Where(list.filter) /\ list.total <= Cardinality(Where(list.filter))

\* The page before it has loaded, and a broken one.
LEMMA NoRows ==
  /\ <<>> \in Seq(Nat) /\ All \in FilterOrAll
  /\ Closed \in ListPages /\ Closed.view = "closed"
  /\ \A v \in {"open", "broken"} :
       /\ [Closed EXCEPT !.view = v] \in ListPages
       /\ [Closed EXCEPT !.view = v].view = v /\ [Closed EXCEPT !.view = v].filter = All
  <1>1. <<>> \in Seq(Nat) /\ All \in FilterOrAll
    BY DEF FilterOrAll
  <1>2. Closed \in ListPages /\ Closed.view = "closed"
    BY <1>1 DEF Closed, ListPages
  <1>3. SUFFICES ASSUME NEW v \in {"open", "broken"}
                 PROVE  /\ [Closed EXCEPT !.view = v] \in ListPages
                        /\ [Closed EXCEPT !.view = v].view = v /\ [Closed EXCEPT !.view = v].filter = All
    BY <1>1, <1>2
  <1>4. [Closed EXCEPT !.view = v] = [view |-> v, filter |-> All, rows |-> <<>>, total |-> 0]
    BY DEF Closed
  <1>5. [view |-> v, filter |-> All, rows |-> <<>>, total |-> 0] \in ListPages
    BY <1>1 DEF ListPages
  <1>6. QED BY <1>4, <1>5

\* Answers under way match their own filters; the newest request has the filter
\* that the page shows; and a page whose newest request was answered matches it.
TableInv ==
  /\ table \in ListPages /\ load \in [Loads -> {NoLoad} \union SentLists \union FailedLists] /\ strayed \in BOOLEAN
  /\ \A l \in Loads : load[l].pc = "sent" =>
       MatchesFilter(load[l]) /\ (load[l].newest /\ table.view = "open" => load[l].filter = table.filter)
  /\ table.view = "open" /\ ~strayed /\ (\A l \in Waiting : ~load[l].newest) => MatchesFilter(table)

\* The rows of a filter are finitely many.
LEMMA WhereFinite ==
  ASSUME trail \in Seq(AuditRow), NEW f
  PROVE  Where(f) \in SUBSET Nat /\ IsFiniteSet(Where(f)) /\ Cardinality(Where(f)) \in Nat
  <1>1. DOMAIN trail = 1..Len(trail) /\ Len(trail) \in Nat
    OBVIOUS
  <1>2. IsFiniteSet(1..Len(trail)) /\ Where(f) \in SUBSET (1..Len(trail)) /\ 1..Len(trail) \subseteq Nat
    BY <1>1, FS_Interval DEF Where
  <1>3. QED BY <1>2, FS_Subset, FS_CardinalityType

\* A row more leaves what was listed matching.
LEMMA WhereGrows ==
  ASSUME trail \in Seq(AuditRow), NEW x, trail' = trail \/ (x \in AuditRow /\ trail' = Append(trail, x))
  PROVE  \A f : /\ Where(f) \subseteq Where(f)' /\ Cardinality(Where(f)) <= Cardinality(Where(f)')
                /\ Cardinality(Where(f)) \in Nat /\ Cardinality(Where(f)') \in Nat
  <1> TAKE f
  <1>1. trail' \in Seq(AuditRow) /\ \A i \in DOMAIN trail : i \in DOMAIN trail' /\ trail'[i] = trail[i]
    BY AppendProperties
  <1>2. Where(f) \subseteq Where(f)'
    BY <1>1 DEF Where
  <1>3. IsFiniteSet(Where(f)')
    <2>1. DOMAIN trail' = 1..Len(trail') /\ 1 \in Int /\ Len(trail') \in Int
      BY <1>1
    <2>2. IsFiniteSet(1..Len(trail'))
      BY <2>1, FS_Interval
    <2>3. Where(f)' \in SUBSET (1..Len(trail'))
      BY <2>1 DEF Where
    <2>4. QED BY <2>2, <2>3, FS_Subset
  <1>4. QED BY <1>2, <1>3, FS_Subset, FS_CardinalityType

\* Every step keeps what is known of the answers under way and of the page.
LEMMA TableStep ==
  ASSUME CleanInv, CleanInv', TableInv, [AuditNext]_auditVars
  PROVE  TableInv'
  <1>0. trail \in Seq(AuditRow) /\ trail' \in Seq(AuditRow)
    BY DEF CleanInv
  <1>1. CASE UNCHANGED auditVars
    BY <1>1 DEF TableInv, auditVars, MatchesFilter, Where, Waiting
  <1>2. CASE Capturing
    <2>1. \A f : Where(f) \subseteq Where(f)' /\ Cardinality(Where(f)) <= Cardinality(Where(f)')
                 /\ Cardinality(Where(f)) \in Nat /\ Cardinality(Where(f)') \in Nat
      <3>1. CASE UNCHANGED trail
        BY <1>0, <3>1, WhereGrows
      <3>2. CASE \E w \in Writes : Persist(w)
        <4>1. PICK w \in Writes : Persist(w)
          BY <3>2
        <4>2. PICK x : trail' = Append(trail, x)
          BY <4>1 DEF Persist
        <4>3. trail'[Len(trail')] = x /\ Len(trail') \in DOMAIN trail'
          BY <1>0, <4>2, AppendProperties
        <4>4. x \in AuditRow
          BY <1>0, <4>3
        <4>5. QED BY <1>0, <4>2, <4>4, WhereGrows
      <3>3. QED BY <1>2, <3>1, <3>2 DEF Capturing, Use, Answered, Unrecorded
    <2>2. UNCHANGED <<table, load, strayed>>
      BY <1>2 DEF Capturing
    <2>3. \A l \in Loads : load[l].pc = "sent" => MatchesFilter(load[l])'
      <3>1. SUFFICES ASSUME NEW l \in Loads, load[l].pc = "sent" PROVE MatchesFilter(load[l])'
        OBVIOUS
      <3>2. load[l] \in SentLists /\ load[l].total \in Int /\ MatchesFilter(load[l])
        BY <3>1 DEF TableInv, NoLoad, FailedLists, SentLists
      <3>3. QED BY <2>1, <2>2, <3>2 DEF MatchesFilter
    <2>4. MatchesFilter(table) => MatchesFilter(table)'
      <3>1. table.total \in Int
        BY DEF TableInv, ListPages
      <3>2. QED BY <2>1, <2>2, <3>1 DEF MatchesFilter
    <2>5. QED BY <2>2, <2>3, <2>4 DEF TableInv, Waiting
  <1>3. CASE Listing
    <2>1. UNCHANGED <<trail, table, strayed>> /\ \A f : Where(f)' = Where(f)
      BY <1>3 DEF Listing, Where
    <2>2. PICK l \in Loads : FindMany(l) \/ CountRows(l) \/ Fail(l)
      BY <1>3 DEF Listing
    <2>3. load[l] \in SentLists /\ load[l].pc = "sent" /\ MatchesFilter(load[l])
      BY <2>2 DEF FindMany, CountRows, Fail, TableInv, NoLoad, FailedLists, SentLists
    <2>4. /\ load' = [load EXCEPT ![l] = load'[l]]
          /\ load'[l] \in SentLists \union FailedLists /\ load'[l].newest = load[l].newest
          /\ load'[l].pc = "sent" => load'[l].filter = load[l].filter /\ MatchesFilter(load'[l])
      <3>1. CASE FindMany(l)
        <4>1. load'[l] = [load[l] EXCEPT !.found = TRUE, !.rows = Newest(Where(load[l].filter))]
          BY <3>1 DEF FindMany, TableInv
        <4>2. Newest(Where(load[l].filter)) \in Seq(Nat)
              /\ ToSet(Newest(Where(load[l].filter))) \subseteq Where(load[l].filter)
          BY <1>0, WhereFinite, NewestOf
        <4>3. load'[l] \in SentLists /\ load'[l].filter = load[l].filter /\ load'[l].newest = load[l].newest
          BY <2>3, <4>1, <4>2 DEF SentLists
        <4>4. MatchesFilter(load'[l])
          BY <2>3, <4>1, <4>2 DEF MatchesFilter, SentLists
        <4>5. QED BY <3>1, <4>3, <4>4 DEF FindMany, TableInv
      <3>2. CASE CountRows(l)
        <4>1. load'[l] = [load[l] EXCEPT !.total = Cardinality(Where(load[l].filter))]
          BY <3>2 DEF CountRows, TableInv
        <4>2. Cardinality(Where(load[l].filter)) \in Nat
          BY <1>0, WhereFinite
        <4>3. load'[l] \in SentLists /\ load'[l].filter = load[l].filter /\ load'[l].newest = load[l].newest
          BY <2>3, <4>1, <4>2 DEF SentLists
        <4>4. MatchesFilter(load'[l])
          BY <2>3, <4>1, <4>2 DEF MatchesFilter, SentLists
        <4>5. QED BY <3>2, <4>3, <4>4 DEF CountRows, TableInv
      <3>3. CASE Fail(l)
        BY <2>3, <3>3 DEF Fail, TableInv, SentLists, FailedLists
      <3>4. QED BY <2>2, <3>1, <3>2, <3>3
    <2>5. load' \in [Loads -> {NoLoad} \union SentLists \union FailedLists]
      BY <2>4 DEF TableInv
    <2>6. Waiting' = Waiting /\ \A d \in Waiting : load'[d].newest = load[d].newest
      <3>1. load'[l].pc # "idle"
        BY <2>4 DEF SentLists, FailedLists
      <3>2. QED BY <2>3, <2>4, <3>1 DEF Waiting, TableInv
    <2>7. \A d \in Loads : load'[d].pc = "sent" =>
            load[d].pc = "sent" /\ MatchesFilter(load'[d]) /\ load'[d].filter = load[d].filter
            /\ load'[d].newest = load[d].newest
      BY <2>3, <2>4 DEF TableInv
    <2>8. QED BY <2>1, <2>5, <2>6, <2>7 DEF TableInv, MatchesFilter
  <1>4. CASE Browsing
    <2>1. UNCHANGED trail /\ \A f : Where(f)' = Where(f)
      BY <1>4 DEF Browsing, Where
    <2>2. PICK l \in Loads : OpenTable(l) \/ SetData(l) \/ \E f \in Filters \union {All} : SetFilter(l, f)
      BY <1>4 DEF Browsing
    <2>3. \A f \in FilterOrAll : ListRequest(f) \in SentLists /\ ListRequest(f).filter = f /\ MatchesFilter(ListRequest(f))
      <3>1. SUFFICES ASSUME NEW f \in FilterOrAll
                     PROVE  ListRequest(f) \in SentLists /\ MatchesFilter(ListRequest(f))
        BY DEF ListRequest
      <3>2. ToSet(<<>>) = {} /\ Cardinality(Where(f)) \in Nat
        BY <1>0, WhereFinite DEF ToSet
      <3>3. QED BY <3>2 DEF ListRequest, SentLists, MatchesFilter
    <2>4. ASSUME OpenTable(l) PROVE TableInv'
      <3>1. All \in FilterOrAll
        BY DEF FilterOrAll
      <3>2. table' \in ListPages /\ table'.filter = All /\ strayed' = FALSE
        BY <2>4, <3>1, NoRows DEF OpenTable
      <3>3. /\ load' \in [Loads -> {NoLoad} \union SentLists \union FailedLists]
            /\ load'[l] = ListRequest(All) /\ load'[l].newest /\ load'[l].pc # "idle"
            /\ \A d \in Loads \ {l} : load'[d] = NoLoad
        BY <2>3, <2>4, <3>1 DEF OpenTable, ListRequest
      <3>4. \A d \in Loads : load'[d].pc = "sent" => load'[d] = ListRequest(All)
        BY <3>3 DEF NoLoad
      <3>5. l \in Waiting'
        BY <3>3 DEF Waiting
      <3>6. QED BY <2>1, <2>3, <3>1, <3>2, <3>3, <3>4, <3>5 DEF TableInv, MatchesFilter
    <2>5. ASSUME NEW f \in Filters \union {All}, SetFilter(l, f) PROVE TableInv'
      <3>1. f \in FilterOrAll
        BY DEF FilterOrAll
      <3>2. table' = [table EXCEPT !.filter = f] /\ table' \in ListPages /\ table'.filter = f
        BY <2>5, <3>1 DEF SetFilter, ListPages, TableInv
      <3>3. /\ load'[l] = ListRequest(f) /\ load'[l].newest /\ load'[l].pc = "sent"
            /\ \A d \in Loads \ {l} : load'[d] = IF load[d].pc # "idle" THEN [load[d] EXCEPT !.newest = FALSE] ELSE NoLoad
        BY <2>5 DEF SetFilter, ListRequest, Waiting
      <3>4. ASSUME NEW d \in Loads \ {l}
            PROVE  load'[d] \in {NoLoad} \union SentLists \union FailedLists
                   /\ (load'[d].pc = "sent" => MatchesFilter(load'[d]) /\ ~load'[d].newest)
        <4>1. CASE load[d] = NoLoad
          BY <3>3, <4>1 DEF NoLoad
        <4>2. CASE load[d] \in FailedLists
          BY <3>3, <4>2 DEF FailedLists
        <4>3. CASE load[d] \in SentLists
          <5>1. load'[d] = [load[d] EXCEPT !.newest = FALSE] /\ load[d].pc = "sent"
            BY <3>3, <4>3 DEF SentLists
          <5>2. load'[d] \in SentLists /\ ~load'[d].newest
                /\ load'[d].rows = load[d].rows /\ load'[d].total = load[d].total /\ load'[d].filter = load[d].filter
            BY <4>3, <5>1 DEF SentLists
          <5>3. QED BY <5>1, <5>2 DEF TableInv, MatchesFilter
        <4>4. QED BY <4>1, <4>2, <4>3 DEF TableInv
      <3>5. load' \in [Loads -> {NoLoad} \union SentLists \union FailedLists]
        BY <2>3, <2>5, <3>1, <3>3, <3>4 DEF SetFilter
      <3>6. strayed' = strayed /\ strayed \in BOOLEAN
        BY <2>5 DEF SetFilter, TableInv
      <3>7. QED BY <2>1, <2>3, <3>1, <3>2, <3>3, <3>4, <3>5, <3>6 DEF TableInv, Waiting, MatchesFilter
    <2>6. ASSUME SetData(l) PROVE TableInv'
      <3>1. load' = [load EXCEPT ![l] = NoLoad] /\ load' \in [Loads -> {NoLoad} \union SentLists \union FailedLists]
            /\ Waiting' = Waiting \ {l} /\ l \in Waiting
        BY <2>6 DEF SetData, TableInv, Waiting, NoLoad
      <3>2. \A d \in Loads : load'[d].pc = "sent" => d # l /\ load'[d] = load[d]
        BY <3>1 DEF NoLoad, TableInv
      <3>3. CASE load[l].pc = "error"
        <4>1. strayed' \in BOOLEAN /\ strayed'
          <5>1. strayed' = (load[l].pc = "error" \/ (~load[l].newest /\ (strayed \/ NoNewest)))
            BY <2>6 DEF SetData
          <5>2. QED BY <3>3, <5>1
        <4>2. table' \in {table, [Closed EXCEPT !.view = "broken"]}
          BY <2>6, <3>3 DEF SetData
        <4>3. table' \in ListPages /\ (table'.view = "open" => table' = table)
          BY <4>2, NoRows DEF TableInv
        <4>4. QED BY <2>1, <3>1, <3>2, <4>1, <4>3 DEF TableInv, MatchesFilter
      <3>4. CASE load[l].pc = "sent"
        <4>1. load[l] \in SentLists /\ MatchesFilter(load[l])
          BY <3>4 DEF TableInv, NoLoad, FailedLists, SentLists
        <4>2. table' = Shown(load[l])
          BY <2>6, <3>4 DEF SetData
        <4>3. table' \in ListPages /\ table'.filter = table.filter /\ table'.view = table.view
              /\ table'.rows = load[l].rows /\ table'.total = load[l].total
          BY <4>1, <4>2 DEF Shown, ListPages, SentLists, TableInv
        <4>4. CASE load[l].newest
          <5>1. strayed' = FALSE
            BY <2>6, <3>4, <4>4 DEF SetData
          <5>2. table.view = "open" => load[l].filter = table.filter
            BY <3>4, <4>4 DEF TableInv
          <5>3. table'.view = "open" => MatchesFilter(table')
            BY <4>1, <4>3, <5>2 DEF MatchesFilter
          <5>4. QED BY <2>1, <3>1, <3>2, <4>3, <5>1, <5>3 DEF TableInv, MatchesFilter
        <4>5. CASE ~load[l].newest
          <5>1. strayed' = (strayed \/ NoNewest)
            BY <2>6, <3>4, <4>5 DEF SetData
          <5>2. strayed' \in BOOLEAN
            BY <5>1
          <5>3. ~strayed' => \E d \in Waiting' : load'[d].newest
            <6>1. SUFFICES ASSUME ~strayed' PROVE \E d \in Waiting' : load'[d].newest
              OBVIOUS
            <6>2. PICK d \in Waiting : load[d].newest
              BY <5>1, <6>1 DEF NoNewest
            <6>3. d # l /\ d \in Loads
              BY <4>5, <6>2 DEF Waiting
            <6>4. QED BY <3>1, <6>2, <6>3 DEF TableInv
          <5>4. QED BY <2>1, <3>1, <3>2, <4>3, <5>2, <5>3 DEF TableInv, MatchesFilter
        <4>6. QED BY <4>4, <4>5
      <3>5. QED BY <2>6, <3>3, <3>4 DEF SetData
    <2>7. QED BY <2>2, <2>4, <2>5, <2>6
  <1>5. QED BY <1>1, <1>2, <1>3, <1>4 DEF AuditNext, auditVars

\* Both invariants hold: of what is recorded and of what the page shows.
LEMMA TableCorrect == AuditSpec => [](CleanInv /\ TableInv)
  <1>1. AuditInit => TableInv
    <2>1. SUFFICES ASSUME AuditInit PROVE TableInv
      OBVIOUS
    <2>2. Closed \in ListPages /\ Closed.view # "open"
      BY NoRows DEF Closed, ListPages
    <2>3. table = Closed /\ load \in [Loads -> {NoLoad}] /\ strayed = FALSE
      BY <2>1 DEF AuditInit
    <2>4. \A l \in Loads : load[l].pc = "idle"
      BY <2>3 DEF NoLoad
    <2>5. QED BY <2>2, <2>3, <2>4 DEF TableInv
  <1>2. CleanInv /\ TableInv /\ [AuditNext]_auditVars => CleanInv' /\ TableInv'
    <2>1. SUFFICES ASSUME CleanInv, TableInv, [AuditNext]_auditVars PROVE CleanInv' /\ TableInv'
      OBVIOUS
    <2>2. CleanInv'
      BY <2>1, CleanStep
    <2>3. TableInv'
      BY <2>1, <2>2, TableStep
    <2>4. QED BY <2>2, <2>3
  <1>3. AuditInit => CleanInv
    BY DEF AuditInit, CleanInv
  <1>4. QED BY <1>1, <1>2, <1>3, PTL DEF AuditSpec

\* The page of AuditLogTable.tsx lists rows of its tenant that match its filter
\* once every answer is there, for any number of requests under way, rows and
\* filters, whatever the order of the answers and of the two queries of each.
THEOREM ListTrueCorrect == AuditSpec => []ListTrue
  <1>1. CleanInv /\ TableInv => ListTrue
    BY DEF TableInv, ListTrue, MatchesFilter, Waiting
  <1>2. QED BY <1>1, TableCorrect, PTL

\* What AuditMiddleware records and what AuditLogTable.tsx shows are both right.
THEOREM AuditTrailCorrect == AuditSpec => []AuditTrail
  <1>1. NothingBelow /\ ListTrue => AuditTrail
    BY DEF AuditTrail
  <1>2. QED BY <1>1, NothingBelowCorrect, ListTrueCorrect, PTL

-----------------------------------------------------------------------------
(* Timers: the guard *)

\* The attempts let through from one moment to another: PassedIn.
Span(from, to) == {m \in Moments : from <= m /\ m <= to}
Among(p, from, to) == SumsOf(p, Moments)[Span(from, to)]

\* The moments are finitely many numbers.
LEMMA MomentsFinite == IsFiniteSet(Moments) /\ \A m \in Moments : m \in Int
  <1>1. MaxNow \in Int /\ 0 \in Int
    BY TimersAssumption
  <1>2. QED BY <1>1, FS_Interval DEF Moments

\* The moments of a span.
LEMMA InSpan ==
  ASSUME NEW a \in Int, NEW b \in Int
  PROVE  /\ Span(a, b) \in SUBSET Moments
         /\ \A m : m \in Span(a, b) <=> m \in Moments /\ m \in Int /\ a <= m /\ m <= b
  BY MomentsFinite DEF Span

\* The attempts let through can be added up.
LEMMA PassingsAdd ==
  ASSUME NEW p \in [Moments -> Nat]
  PROVE  /\ \A m \in Moments : p[m] \in Nat /\ p[m] \in Int
         /\ Adds(SumsOf(p, Moments), p, Moments)
  <1>1. \A m \in Moments : p[m] \in Nat /\ p[m] \in Int
    OBVIOUS
  <1>2. QED BY <1>1, MomentsFinite, SumsOfAdd

\* The recursion of PassedIn adds the attempts of its span.
LEMMA PassedInIs ==
  ASSUME passed \in [Moments -> Nat], NEW from \in Int, NEW to \in Int
  PROVE  PassedIn(from, to) = Among(passed, from, to)
  <1> DEFINE g == SumsOf(passed, Moments)
             Rec(h) == h = [m \in Int |-> IF m < from THEN 0 ELSE h[m - 1] + (IF m \in Moments THEN passed[m] ELSE 0)]
  <1>1. Adds(g, passed, Moments)
    BY PassingsAdd
  <1> HIDE DEF g
  <1> DEFINE k == [m \in Int |-> g[Span(from, m)]]
  <1>2. \A m \in Int : Span(from, m) \in SUBSET Moments /\ g[Span(from, m)] \in Int
    BY <1>1 DEF Span, Adds
  <1>3. ASSUME NEW m \in Int
        PROVE  k[m] = IF m < from THEN 0 ELSE k[m - 1] + (IF m \in Moments THEN passed[m] ELSE 0)
    <2>1. CASE m < from
      <3>1. Span(from, m) = {}
        BY <2>1, InSpan
      <3>2. QED BY <2>1, <3>1, <1>1 DEF Adds
    <2>2. CASE from <= m /\ m \in Moments
      <3>1. m \in Span(from, m) /\ Span(from, m) \ {m} = Span(from, m - 1)
        <4>1. m - 1 \in Int /\ \A x \in Int : x <= m - 1 <=> x <= m /\ x # m
          OBVIOUS
        <4>2. QED BY <2>2, <4>1, InSpan
      <3>2. g[Span(from, m)] = passed[m] + g[Span(from, m - 1)]
        BY <3>1, <1>1, <1>2 DEF Adds
      <3>3. m - 1 \in Int /\ g[Span(from, m - 1)] \in Int /\ passed[m] \in Int
        BY <2>2, <1>2
      <3>4. g[Span(from, m)] = g[Span(from, m - 1)] + passed[m]
        BY <3>2, <3>3
      <3>5. QED BY <2>2, <3>3, <3>4
    <2>3. CASE from <= m /\ m \notin Moments
      <3>1. Span(from, m) = Span(from, m - 1)
        <4>1. m - 1 \in Int /\ \A x \in Int : x <= m - 1 <=> x <= m /\ x # m
          OBVIOUS
        <4>2. \A x : x \in Span(from, m) <=> x \in Moments /\ x \in Int /\ from <= x /\ x <= m
          BY InSpan
        <4>3. \A x : x \in Span(from, m - 1) <=> x \in Moments /\ x \in Int /\ from <= x /\ x <= m - 1
          BY <4>1, InSpan
        <4>4. \A x : x \in Span(from, m) <=> x \in Span(from, m - 1)
          BY <2>3, <4>1, <4>2, <4>3
        <4>5. QED BY <4>4
      <3>2. m - 1 \in Int /\ g[Span(from, m - 1)] \in Int
        BY <1>2
      <3>3. QED BY <2>3, <3>1, <3>2
    <2>4. QED BY <2>1, <2>2, <2>3
  <1>4. Rec(k)
    BY <1>3
  <1>5. \A m \in Int : k[m] = g[Span(from, m)]
    OBVIOUS
  <1> HIDE DEF k
  <1>6. PassedIn(from, to) = (CHOOSE h : Rec(h))[to]
    BY DEF PassedIn
  <1>7. PICK h : Rec(h) /\ PassedIn(from, to) = h[to]
    BY <1>4, <1>6
  <1>8. \A m \in Int : h[m] = IF m < from THEN 0 ELSE h[m - 1] + (IF m \in Moments THEN passed[m] ELSE 0)
    BY <1>7
  <1> HIDE DEF Rec
  <1>9. \A m \in Int : m < from => h[m] = k[m]
    BY <1>3, <1>8
  <1> DEFINE Q == {n \in Nat : h[from + n - 1] = k[from + n - 1]}
  <1>10. 0 \in Q
    <2>1. from + 0 - 1 \in Int /\ from + 0 - 1 < from
      OBVIOUS
    <2>2. QED BY <2>1, <1>9
  <1>11. \A n \in Nat : n \in Q => n + 1 \in Q
    <2> SUFFICES ASSUME NEW n \in Nat, n \in Q PROVE n + 1 \in Q
      OBVIOUS
    <2>0. h[from + n - 1] = k[from + n - 1]
      OBVIOUS
    <2>1. PICK m \in Int : m = from + (n + 1) - 1
      OBVIOUS
    <2>2. m >= from /\ m - 1 = from + n - 1 /\ ~(m < from)
      BY <2>1
    <2>3. h[m - 1] = k[m - 1]
      BY <2>0, <2>2
    <2>4. h[m] = h[m - 1] + (IF m \in Moments THEN passed[m] ELSE 0)
      BY <2>2, <1>8
    <2>5. k[m] = k[m - 1] + (IF m \in Moments THEN passed[m] ELSE 0)
      BY <2>2, <1>3
    <2>6. h[m] = k[m]
      BY <2>3, <2>4, <2>5
    <2>7. QED BY <2>1, <2>6
  <1> HIDE DEF Q
  <1>12. \A n \in Nat : n \in Q
    BY <1>10, <1>11, NumbersAll
  <1>13. h[to] = k[to]
    <2>1. CASE to < from
      BY <2>1, <1>9
    <2>2. CASE to >= from
      <3>1. PICK n \in Nat : n = to - from + 1
        BY <2>2
      <3>2. to = from + n - 1
        BY <3>1
      <3>3. QED BY <3>2, <1>12 DEF Q
    <2>3. QED BY <2>1, <2>2
  <1>14. QED BY <1>5, <1>7, <1>13 DEF Among, g

\* Spans of attempts add up, none is negative, and one of moments without an
\* attempt is 0.
LEMMA AmongAdds ==
  ASSUME NEW p \in [Moments -> Nat]
  PROVE  /\ \A a, b \in Int : Among(p, a, b) \in Nat
         /\ \A a, b, c \in Int : a <= b + 1 /\ b <= c => Among(p, a, c) = Among(p, a, b) + Among(p, b + 1, c)
         /\ \A a, b \in Int : (\A m \in Span(a, b) : p[m] = 0) => Among(p, a, b) = 0
  <1> DEFINE g == SumsOf(p, Moments)
  <1>1. Adds(g, p, Moments)
    BY PassingsAdd
  <1>2. \A a, b \in Int : Among(p, a, b) = g[Span(a, b)] /\ Span(a, b) \in SUBSET Moments
    BY InSpan DEF Among
  <1> HIDE DEF g
  <1>3. \A T \in SUBSET Moments : g[T] \in Nat
    BY <1>1, PassingsAdd, MomentsFinite, SumNat
  <1>4. ASSUME NEW a \in Int, NEW b \in Int, NEW c \in Int, a <= b + 1, b <= c
        PROVE  Among(p, a, c) = Among(p, a, b) + Among(p, b + 1, c)
    <2>0. b + 1 \in Int /\ \A x \in Int : b + 1 <= x <=> ~(x <= b)
      OBVIOUS
    <2>1. /\ Span(a, c) = Span(a, b) \union Span(b + 1, c)
          /\ Span(a, b) \intersect Span(b + 1, c) = {}
      BY <1>4, <2>0, InSpan
    <2>2. g[Span(a, b) \union Span(b + 1, c)] = g[Span(a, b)] + g[Span(b + 1, c)]
      <3>1. \A m \in Moments : p[m] \in Int
        BY PassingsAdd
      <3>2. Span(a, b) \in SUBSET Moments /\ Span(b + 1, c) \in SUBSET Moments
        BY <2>0, InSpan
      <3>3. QED BY <1>1, <2>1, <3>1, <3>2, MomentsFinite, SumUnion
    <2>3. QED BY <1>2, <2>0, <2>1, <2>2
  <1>5. ASSUME NEW a \in Int, NEW b \in Int, \A m \in Span(a, b) : p[m] = 0
        PROVE  Among(p, a, b) = 0
    BY <1>1, <1>2, <1>5, MomentsFinite, SumZero
  <1>6. QED BY <1>2, <1>3, <1>4, <1>5

\* One attempt more counts in the spans that hold its moment.
LEMMA AmongMore ==
  ASSUME NEW p \in [Moments -> Nat], NEW n \in Moments, 
         NEW q \in [Moments -> Nat], q[n] = p[n] + 1, \A m \in Moments \ {n} : q[m] = p[m]
  PROVE  \A a, b \in Int : Among(q, a, b) = Among(p, a, b) + (IF a <= n /\ n <= b THEN 1 ELSE 0)
  <1> DEFINE g == SumsOf(p, Moments)
             h == [T \in SUBSET Moments |-> g[T] + (IF n \in T THEN 1 ELSE 0)]
  <1>1. Adds(g, p, Moments) /\ Adds(SumsOf(q, Moments), q, Moments)
    <2>1. q \in [Moments -> Nat]
      OBVIOUS
    <2>2. (\A m \in Moments : q[m] \in Int) /\ \A m \in Moments : p[m] \in Int
      BY <2>1
    <2>3. QED BY <2>2, MomentsFinite, SumsOfAdd
  <1> HIDE DEF g
  <1>2. Adds(h, q, Moments)
    <2>1. h \in [SUBSET Moments -> Int] /\ h[{}] = 0
      <3>1. g[{}] = 0 /\ \A T \in SUBSET Moments : g[T] \in Int
        <4> HIDE DEF h
        <4>1. QED BY <1>1 DEF Adds
      <3>2. QED BY <3>1
    <2>2. ASSUME NEW T \in SUBSET Moments, NEW x \in T PROVE h[T] = q[x] + h[T \ {x}]
      <3>1. g[T] = p[x] + g[T \ {x}] /\ g[T \ {x}] \in Int /\ p[x] \in Int
        <4> HIDE DEF h
        <4>1. x \in Moments /\ T \ {x} \in SUBSET Moments
          OBVIOUS
        <4>2. QED BY <1>1, <4>1, PassingsAdd DEF Adds
      <3>2. CASE x = n
        <4>1. h[T] = g[T] + 1 /\ h[T \ {x}] = g[T \ {x}] + 0 /\ q[x] = p[x] + 1
          BY <3>2
        <4>2. QED BY <3>1, <4>1
      <3>3. CASE x # n /\ n \in T
        <4>1. h[T] = g[T] + 1 /\ h[T \ {x}] = g[T \ {x}] + 1 /\ q[x] = p[x]
          BY <3>3
        <4>2. QED BY <3>1, <4>1
      <3>4. CASE n \notin T
        <4>1. h[T] = g[T] + 0 /\ h[T \ {x}] = g[T \ {x}] + 0 /\ q[x] = p[x]
          BY <3>4
        <4>2. QED BY <3>1, <4>1
      <3>5. QED BY <3>2, <3>3, <3>4
    <2> HIDE DEF h
    <2>3. QED BY <2>1, <2>2 DEF Adds
  <1>3. ASSUME NEW a \in Int, NEW b \in Int
        PROVE  Among(q, a, b) = Among(p, a, b) + (IF a <= n /\ n <= b THEN 1 ELSE 0)
    <2>1. Span(a, b) \in SUBSET Moments /\ (n \in Span(a, b) <=> a <= n /\ n <= b)
      BY DEF Span
    <2>2. SumsOf(q, Moments)[Span(a, b)] = h[Span(a, b)]
      <3>1. \A T \in SUBSET Moments : SumsOf(q, Moments)[T] = h[T]
        <4> HIDE DEF h
        <4>1. QED BY <1>1, <1>2, MomentsFinite, SumsSame
      <3>2. QED BY <2>1, <3>1
    <2>3. Among(q, a, b) = SumsOf(q, Moments)[Span(a, b)] /\ Among(p, a, b) = g[Span(a, b)]
      BY DEF Among, g, Span, Moments
    <2>4. h[Span(a, b)] = g[Span(a, b)] + (IF n \in Span(a, b) THEN 1 ELSE 0)
      BY <2>1
    <2>5. QED BY <2>1, <2>2, <2>3, <2>4
  <1>4. QED BY <1>3

\* What a span has of attempts is no more than a longer one has, and nothing
\* after the last one counts.
LEMMA AmongBounds ==
  ASSUME NEW p \in [Moments -> Nat]
  PROVE  /\ \A a, b, c \in Int : a <= b /\ b <= c + 1 => Among(p, b, c) <= Among(p, a, c)
         /\ \A a, b, c \in Int : b <= c => Among(p, a, b) <= Among(p, a, c)
         /\ \A n, a, b \in Int : (\A m \in Moments : m > n => p[m] = 0) /\ b >= n => Among(p, a, b) = Among(p, a, n)
  <1>1. ASSUME NEW a \in Int, NEW b \in Int, NEW c \in Int, a <= b, b <= c + 1
        PROVE  Among(p, b, c) <= Among(p, a, c)
    <2>1. b - 1 \in Int /\ (b - 1) + 1 = b /\ a <= (b - 1) + 1 /\ b - 1 <= c
      BY <1>1
    <2>2. Among(p, a, c) = Among(p, a, b - 1) + Among(p, b, c)
      <3>1. Among(p, a, c) = Among(p, a, b - 1) + Among(p, (b - 1) + 1, c)
        BY <2>1, AmongAdds
      <3>2. QED BY <2>1, <3>1
    <2>3. Among(p, a, c) \in Nat /\ Among(p, a, b - 1) \in Nat /\ Among(p, b, c) \in Nat
      BY <2>1, AmongAdds
    <2>4. QED BY <2>2, <2>3
  <1>2. ASSUME NEW a \in Int, NEW b \in Int, b < a PROVE Among(p, a, b) = 0
    <2>1. Span(a, b) = {}
      BY <1>2, InSpan
    <2>2. QED BY <2>1, AmongAdds
  <1>3. ASSUME NEW a \in Int, NEW b \in Int, NEW c \in Int, b <= c
        PROVE  Among(p, a, b) <= Among(p, a, c)
    <2>0. Among(p, a, c) \in Nat /\ Among(p, a, b) \in Nat /\ b + 1 \in Int /\ Among(p, b + 1, c) \in Nat
      BY AmongAdds
    <2>1. CASE a <= b + 1
      <3>1. Among(p, a, c) = Among(p, a, b) + Among(p, b + 1, c)
        BY <1>3, <2>1, AmongAdds
      <3>2. QED BY <2>0, <3>1
    <2>2. CASE b < a
      BY <2>0, <2>2, <1>2
    <2>3. QED BY <2>1, <2>2
  <1>4. ASSUME NEW n \in Int, NEW a \in Int, NEW b \in Int,
               \A m \in Moments : m > n => p[m] = 0, b >= n
        PROVE  Among(p, a, b) = Among(p, a, n)
    <2>0. Among(p, a, b) \in Nat /\ Among(p, a, n) \in Nat /\ n + 1 \in Int
      BY AmongAdds
    <2>1. CASE a <= n + 1
      <3>1. Among(p, a, b) = Among(p, a, n) + Among(p, n + 1, b)
        BY <1>4, <2>1, AmongAdds
      <3>2. \A m \in Span(n + 1, b) : p[m] = 0
        <4>1. \A m \in Span(n + 1, b) : m \in Moments /\ m \in Int /\ n + 1 <= m
          BY <2>0, InSpan
        <4>2. QED BY <4>1, <1>4
      <3>3. Among(p, n + 1, b) = 0
        BY <2>0, <3>2, AmongAdds
      <3>4. QED BY <2>0, <3>1, <3>3
    <2>2. CASE n + 1 < a
      <3>1. \A m \in Span(a, b) : p[m] = 0
        <4>1. \A m \in Span(a, b) : m \in Moments /\ m \in Int /\ a <= m
          BY InSpan
        <4>2. QED BY <4>1, <2>2, <1>4
      <3>2. Among(p, a, b) = 0
        BY <3>1, AmongAdds
      <3>3. QED BY <2>2, <3>2, <1>2
    <2>3. QED BY <2>1, <2>2
  <1>5. QED BY <1>1, <1>3, <1>4

\* The bucket counts the attempts since its window started, and the stretch
\* before that, which a span as long as a window can reach, has no more than
\* the allowed ones: all of them are of the window before.
GuardOK(n, b, p, r) ==
  LET start == b.resetAt - Window IN
    /\ n \in Moments
    /\ b \in [count : 0..Allowed, resetAt : Int]
    /\ p \in [Moments -> Nat] /\ r \in BOOLEAN
    /\ start <= n
    /\ \A m \in Moments : m > n => p[m] = 0
    /\ b.resetAt < n => p[n] = 0
    /\ Among(p, start, n) = b.count
    /\ Among(p, start - Window, start - 1) <= Allowed
    /\ \A m \in Int : Among(p, m, m + Window) <= 2 * Allowed
    /\ r => Among(p, n - Window, n) >= Allowed

GuardInv == GuardOK(now, bucket, passed, refused)

\* The constants of the guard are numbers.
LEMMA GuardNumbers == Window \in Nat /\ Allowed \in Nat /\ 2 * Allowed \in Nat /\ MaxNow \in Nat
  BY TimersAssumption

\* What GuardOK says, in numbers.
LEMMA GuardFields ==
  ASSUME NEW n, NEW b, NEW p, NEW r, GuardOK(n, b, p, r)
  PROVE  /\ n \in Moments /\ n \in Int /\ n >= 0
         /\ b.resetAt \in Int /\ b.count \in Nat /\ b.count <= Allowed
         /\ b = [count |-> b.count, resetAt |-> b.resetAt]
         /\ b.resetAt - Window \in Int /\ b.resetAt - Window <= n
         /\ p \in [Moments -> Nat]
         /\ \A i, j \in Int : Among(p, i, j) \in Nat
  <1>1. n \in Moments /\ b \in [count : 0..Allowed, resetAt : Int] /\ p \in [Moments -> Nat] /\ b.resetAt - Window <= n
    BY DEF GuardOK
  <1>2. n \in Int /\ n >= 0
    BY <1>1, MomentsFinite DEF Moments
  <1>3. /\ b.resetAt \in Int /\ b.count \in 0..Allowed /\ b = [count |-> b.count, resetAt |-> b.resetAt]
    BY <1>1
  <1>4. QED BY <1>1, <1>2, <1>3, GuardNumbers, AmongAdds

\* Nothing was let through yet: no span has an attempt.
LEMMA NothingPassed ==
  ASSUME NEW n \in Moments
  PROVE  GuardOK(n, NoBucket, [m \in Moments |-> 0], FALSE)
  <1> DEFINE p == [m \in Moments |-> 0]
             start == NoBucket.resetAt - Window
  <1>0. n \in Int /\ n >= 0 /\ NoBucket.resetAt = -1 /\ NoBucket.count = 0
    BY MomentsFinite DEF Moments, NoBucket
  <1>1. p \in [Moments -> Nat] /\ \A m \in Moments : p[m] = 0
    OBVIOUS
  <1> HIDE DEF p
  <1>2. \A a, b \in Int : Among(p, a, b) = 0
    <2>1. \A a, b \in Int : \A m \in Span(a, b) : p[m] = 0
      BY <1>1, InSpan
    <2>2. QED BY <1>1, <2>1, AmongAdds
  <1>3. start \in Int /\ start <= n /\ start - Window \in Int /\ start - 1 \in Int
    BY <1>0, GuardNumbers
  <1>4. NoBucket \in [count : 0..Allowed, resetAt : Int]
    BY GuardNumbers DEF NoBucket
  <1> HIDE DEF start
  <1>5. Among(p, start, n) = NoBucket.count /\ Among(p, start - Window, start - 1) <= Allowed
    BY <1>0, <1>2, <1>3, GuardNumbers
  <1>6. \A m \in Int : Among(p, m, m + Window) <= 2 * Allowed
    BY <1>2, GuardNumbers
  <1>7. GuardOK(n, NoBucket, p, FALSE)
    BY <1>1, <1>3, <1>4, <1>5, <1>6 DEF GuardOK, start
  <1>8. QED BY <1>7 DEF p

\* A new window in place of one that is over.
LEMMA WindowOpens ==
  ASSUME NEW n, NEW b, NEW p, NEW r, GuardOK(n, b, p, r), b.resetAt < n
  PROVE  GuardOK(n, [count |-> 0, resetAt |-> n + Window], p, FALSE)
  <1> DEFINE s == b.resetAt - Window
             new == [count |-> 0, resetAt |-> n + Window]
  <1> HIDE DEF new
  <1>1. /\ n \in Moments /\ n \in Int /\ s \in Int /\ s <= n
        /\ p \in [Moments -> Nat] /\ p[n] = 0
        /\ \A i, j \in Int : Among(p, i, j) \in Nat
    BY GuardFields DEF GuardOK
  <1>10. Among(p, s, n) \in Nat /\ Among(p, s, n) <= Allowed
    BY GuardFields DEF GuardOK
  <1>2. s <= n - Window /\ n - Window \in Int /\ n - 1 \in Int /\ n - 1 <= n /\ n - Window <= n
    BY <1>1, GuardFields, GuardNumbers
  <1> HIDE DEF s
  <1>3. Among(p, n, n) = 0
    <2>1. n \in Int
      BY <1>1
    <2>2. \A m \in Span(n, n) : m \in Int /\ n <= m /\ m <= n
      BY <2>1, InSpan
    <2>3. \A m \in Span(n, n) : m = n
      BY <2>1, <2>2
    <2>4. QED BY <1>1, <2>3, AmongAdds
  <1>4. Among(p, n - Window, n - 1) <= Allowed
    <2>1. Among(p, n - Window, n - 1) <= Among(p, n - Window, n)
      BY <1>1, <1>2, AmongBounds
    <2>2. n - Window <= n + 1
      BY <1>1, <1>2
    <2>3. Among(p, n - Window, n) <= Among(p, s, n)
      BY <1>1, <1>2, <2>2, AmongBounds
    <2>4. Among(p, n - Window, n - 1) \in Nat /\ Among(p, n - Window, n) \in Nat
      BY <1>1, <1>2
    <2>5. Allowed \in Nat
      BY GuardNumbers
    <2>6. QED BY <1>10, <2>1, <2>3, <2>4, <2>5
  <1>5. new.resetAt - Window = n /\ new.count = 0 /\ new.resetAt >= n /\ new \in [count : 0..Allowed, resetAt : Int]
    BY <1>1, GuardNumbers DEF new
  <1>6. ~(new.resetAt < n)
    BY <1>1, <1>5, GuardNumbers
  <1>11. /\ \A m \in Moments : m > n => p[m] = 0
        /\ \A m \in Int : Among(p, m, m + Window) <= 2 * Allowed
        /\ n <= n
    BY <1>1 DEF GuardOK
  <1>7. GuardOK(n, new, p, FALSE)
    BY <1>1, <1>3, <1>4, <1>5, <1>6, <1>11 DEF GuardOK
  <1>8. QED BY <1>7 DEF new

\* A refusal in a window that is full.
LEMMA RefusalStep ==
  ASSUME NEW n, NEW b, NEW p, NEW r, GuardOK(n, b, p, r), b.resetAt >= n, Full(b.count)
  PROVE  GuardOK(n, b, p, TRUE)
  <1> DEFINE s == b.resetAt - Window
  <1>1. n \in Int /\ s \in Int /\ s <= n /\ Among(p, s, n) = b.count /\ p \in [Moments -> Nat]
    BY GuardFields DEF GuardOK
  <1>2. n - Window <= s /\ n - Window \in Int /\ s <= n + 1
    BY <1>1, GuardFields, GuardNumbers
  <1> HIDE DEF s
  <1>3. Among(p, s, n) <= Among(p, n - Window, n)
    BY <1>1, <1>2, AmongBounds
  <1>4. Among(p, s, n) \in Nat /\ Among(p, n - Window, n) \in Nat /\ Among(p, s, n) >= Allowed
    BY <1>1, <1>2, GuardFields DEF Full
  <1>5. Among(p, n - Window, n) >= Allowed
    BY <1>3, <1>4, GuardNumbers
  <1>6. QED BY <1>5 DEF GuardOK

\* An attempt that is let through in a window that has room.
LEMMA AttemptStep ==
  ASSUME NEW n, NEW b, NEW p, NEW r, GuardOK(n, b, p, r), b.resetAt >= n, ~Full(b.count)
  PROVE  GuardOK(n, [b EXCEPT !.count = @ + 1], [p EXCEPT ![n] = @ + 1], FALSE)
  <1> DEFINE s == b.resetAt - Window
             c == [b EXCEPT !.count = @ + 1]
             q == [p EXCEPT ![n] = @ + 1]
  <1> HIDE DEF c, q
  <1>1. /\ n \in Moments /\ n \in Int /\ s \in Int /\ s <= n
        /\ p \in [Moments -> Nat]
        /\ \A i, j \in Int : Among(p, i, j) \in Nat
    BY GuardFields
  <1>14. Among(p, s, n) = b.count
    BY DEF GuardOK
  <1>15. b.count \in Nat /\ b.count + 1 <= Allowed
    BY GuardFields, GuardNumbers DEF Full
  <1>16. \A i, j \in Int : i \in Int /\ j \in Int /\ Among(p, i, j) \in Int
    BY <1>1
  <1>2. n <= s + Window /\ s - Window \in Int /\ s - 1 \in Int
    BY <1>1, GuardFields, GuardNumbers
  <1>3. c \in [count : 0..Allowed, resetAt : Int] /\ c.resetAt = b.resetAt /\ c.count = b.count + 1
    BY <1>15, GuardFields, GuardNumbers DEF c
  <1>4. q \in [Moments -> Nat] /\ \A m \in Moments : m > n => q[m] = 0
    <2>1. \A m \in Moments : m > n => p[m] = 0 /\ m # n
      BY <1>1, MomentsFinite DEF GuardOK
    <2>2. q \in [Moments -> Nat]
      <3>1. p[n] \in Nat
        BY <1>1, PassingsAdd
      <3>2. p[n] + 1 \in Nat
        BY <3>1
      <3>3. QED BY <1>1, <3>2 DEF q
    <2>3. \A m \in Moments : m # n => q[m] = p[m]
      BY <1>1 DEF q
    <2>4. QED BY <2>1, <2>2, <2>3
  <1>5. \A i, j \in Int : Among(q, i, j) = Among(p, i, j) + (IF i <= n /\ n <= j THEN 1 ELSE 0)
    <2>1. q[n] = p[n] + 1 /\ \A m \in Moments \ {n} : q[m] = p[m]
      BY <1>1 DEF q
    <2>2. QED BY <1>1, <1>4, <2>1, AmongMore
  <1>6. Among(p, s - Window, s - 1) <= Allowed /\ \A m \in Int : Among(p, m, m + Window) <= 2 * Allowed
    BY DEF GuardOK
  <1>7. \A m \in Moments : m > n => p[m] = 0
    BY DEF GuardOK
  <1>8. c.resetAt - Window = s /\ ~(c.resetAt < n)
    BY <1>1, <1>3, GuardFields, GuardNumbers
  <1> HIDE DEF s
  <1>9. Among(q, s, n) = b.count + 1
    <2>1. Among(q, s, n) = Among(p, s, n) + (IF s <= n /\ n <= n THEN 1 ELSE 0)
      BY <1>1, <1>5
    <2>2. n <= n
      BY <1>1
    <2>3. QED BY <1>1, <1>14, <2>1, <2>2
  <1>10. Among(q, s - Window, s - 1) <= Allowed
    <2>1. ~(n <= s - 1)
      BY <1>1
    <2>2. Among(q, s - Window, s - 1) = Among(p, s - Window, s - 1) + 0 /\ Among(p, s - Window, s - 1) \in Nat
      BY <1>1, <1>2, <1>5, <2>1
    <2>3. QED BY <1>6, <2>2
  <1>11. ASSUME NEW m \in Int PROVE Among(q, m, m + Window) <= 2 * Allowed
    <2>0. m + Window \in Int /\ Among(p, m, m + Window) \in Nat /\ Among(p, m, n) \in Nat
      <3>1. m + Window \in Int
        BY GuardNumbers
      <3>2. QED BY <1>1, <3>1
    <2>1. CASE ~(m <= n /\ n <= m + Window)
      <3>1. Among(q, m, m + Window) = Among(p, m, m + Window) + 0
        BY <1>5, <2>0, <2>1
      <3>2. QED BY <1>6, <2>0, <3>1
    <2>2. CASE m <= n /\ n <= m + Window
      <3>1. Among(q, m, m + Window) = Among(p, m, m + Window) + 1
        BY <1>5, <2>0, <2>2
      <3>2. Among(p, m, m + Window) = Among(p, m, n)
        BY <1>1, <1>7, <2>0, <2>2, AmongBounds
      <3>3. CASE s <= m
        <4>1. m <= n + 1
          BY <1>1, <2>2
        <4>2. Among(p, m, n) <= Among(p, s, n)
          BY <1>1, <3>3, <4>1, AmongBounds
        <4>3. Allowed \in Nat /\ Among(p, s, n) + 1 <= Allowed /\ Among(p, s, n) \in Nat
          BY <1>14, <1>15, GuardNumbers
        <4>4. QED BY <2>0, <3>1, <3>2, <4>2, <4>3
      <3>4. CASE m < s
        <4>1. /\ m <= (s - 1) + 1 /\ s - 1 <= n /\ (s - 1) + 1 = s
              /\ s - Window <= m
          BY <1>1, <1>2, <2>2, <3>4, GuardNumbers
        <4>2. Among(p, m, n) = Among(p, m, s - 1) + Among(p, s, n)
          <5>1. Among(p, m, n) = Among(p, m, s - 1) + Among(p, (s - 1) + 1, n)
            BY <1>1, <1>2, <4>1, AmongAdds
          <5>2. QED BY <4>1, <5>1
        <4>3. Among(p, m, s - 1) <= Among(p, s - Window, s - 1)
          BY <1>1, <1>2, <4>1, AmongBounds
        <4>4. Among(p, m, s - 1) \in Nat /\ Among(p, s - Window, s - 1) \in Nat /\ Among(p, s, n) \in Nat
          BY <1>1, <1>2
        <4>5. Among(p, m, s - 1) <= Allowed
          BY <1>6, <4>3, <4>4, GuardNumbers
        <4>6. Allowed \in Nat /\ Among(p, s, n) + 1 <= Allowed
          BY <1>14, <1>15, GuardNumbers
        <4>7. QED BY <3>1, <3>2, <4>2, <4>4, <4>5, <4>6
      <3>5. QED BY <1>1, <3>3, <3>4
    <2>3. QED BY <2>1, <2>2
  <1>12. GuardOK(n, c, q, FALSE)
    BY <1>1, <1>3, <1>4, <1>8, <1>9, <1>10, <1>11 DEF GuardOK
  <1>13. QED BY <1>12 DEF c, q

\* A moment passes.
LEMMA MomentStep ==
  ASSUME NEW n, NEW b, NEW p, NEW r, GuardOK(n, b, p, r), n + 1 \in Moments
  PROVE  GuardOK(n + 1, b, p, FALSE)
  <1>1. /\ n \in Moments /\ n \in Int /\ b.resetAt - Window \in Int /\ b.resetAt - Window <= n
        /\ p \in [Moments -> Nat] /\ \A m \in Moments : m > n => p[m] = 0
    BY GuardFields DEF GuardOK
  <1>2. Among(p, b.resetAt - Window, n + 1) = Among(p, b.resetAt - Window, n)
    BY <1>1, AmongBounds
  <1>3. /\ \A m \in Moments : m > n + 1 => p[m] = 0
        /\ p[n + 1] = 0
    BY <1>1, MomentsFinite
  <1>4. b.resetAt - Window <= n + 1
    BY <1>1
  <1>5. QED BY <1>2, <1>3, <1>4 DEF GuardOK

\* Every step keeps the invariant of the guard.
LEMMA GuardStep == GuardInv /\ [TimersNext]_timersVars => GuardInv'
  <1> SUFFICES ASSUME GuardInv, [TimersNext]_timersVars PROVE GuardOK(now', bucket', passed', refused')
    BY DEF GuardInv
  <1>0. GuardOK(now, bucket, passed, refused)
    BY DEF GuardInv
  <1>1. CASE UNCHANGED <<now, guardVars>>
    BY <1>0, <1>1 DEF guardVars
  <1>2. CASE Passing
    <2>1. now < MaxNow /\ now' = now + 1 /\ refused' = FALSE /\ bucket' = bucket /\ passed' = passed
      BY <1>2 DEF Passing
    <2>2. now + 1 \in Moments
      BY <1>0, <2>1, GuardFields, GuardNumbers DEF Moments
    <2>3. QED BY <1>0, <2>1, <2>2, MomentStep
  <1>3. CASE Restart /\ UNCHANGED now
    BY <1>0, <1>3, NothingPassed, GuardFields DEF Restart
  <1>4. CASE CanActivate /\ UNCHANGED now
    <2> DEFINE open == IF Expired THEN [count |-> 0, resetAt |-> now + Window] ELSE bucket
    <2>1. \E r : GuardOK(now, open, passed, r) /\ open.resetAt >= now
      <3>1. CASE Expired
        <4>1. GuardOK(now, open, passed, FALSE)
          BY <1>0, <3>1, WindowOpens DEF Expired
        <4>2. open.resetAt >= now
          BY <1>0, <3>1, GuardFields, GuardNumbers
        <4>3. QED BY <4>1, <4>2
      <3>2. CASE ~Expired
        BY <1>0, <3>2, GuardFields DEF Expired
      <3>3. QED BY <3>1, <3>2
    <2>2. /\ Full(open.count) => bucket' = open /\ refused' = TRUE /\ passed' = passed
          /\ ~Full(open.count) => /\ bucket' = [open EXCEPT !.count = @ + 1]
                                  /\ passed' = [passed EXCEPT ![now] = @ + 1]
                                  /\ refused' = FALSE
      BY <1>4 DEF CanActivate
    <2> HIDE DEF open
    <2>3. PICK r : GuardOK(now, open, passed, r) /\ open.resetAt >= now
      BY <2>1
    <2>4. CASE Full(open.count)
      <3>1. GuardOK(now, open, passed, TRUE)
        BY <2>3, <2>4, RefusalStep
      <3>2. QED BY <1>4, <2>2, <2>4, <3>1
    <2>5. CASE ~Full(open.count)
      <3>1. GuardOK(now, [open EXCEPT !.count = @ + 1], [passed EXCEPT ![now] = @ + 1], FALSE)
        BY <2>3, <2>5, AttemptStep
      <3>2. QED BY <1>4, <2>2, <2>5, <3>1
    <2>6. QED BY <2>4, <2>5
  <1>5. QED
    <2>1. CASE Guard
      BY <1>3, <1>4, <2>1 DEF Guard
    <2>2. QED BY <1>1, <1>2, <2>1 DEF TimersNext, Reporting, Mailbox, timersVars, guardVars

\* At first the guard has let nobody through.
LEMMA GuardStart == TimersInit => GuardInv
  <1> SUFFICES ASSUME TimersInit PROVE GuardOK(now, bucket, passed, refused)
    BY DEF GuardInv
  <1>1. now \in Moments /\ bucket = NoBucket /\ passed = [m \in Moments |-> 0] /\ refused = FALSE
    BY GuardNumbers DEF TimersInit, Moments
  <1>2. QED BY <1>1, NothingPassed

\* The guard lets no more than twice the allowed attempts through in a span as
\* long as a window, and refuses only who has used up the allowed ones in such
\* a span: canActivate in mfa-rate-limit.guard.ts, for any number of attempts
\* at any moments and any restarts.
THEOREM TwiceAtMostCorrect == TimersSpec => []TwiceAtMost
  <1>1. GuardInv => TwiceAtMost
    <2> SUFFICES ASSUME GuardInv PROVE TwiceAtMost
      OBVIOUS
    <2>1. /\ passed \in [Moments -> Nat] /\ now \in Int
          /\ \A m \in Int : Among(passed, m, m + Window) <= 2 * Allowed
          /\ refused => Among(passed, now - Window, now) >= Allowed
      BY GuardFields DEF GuardInv, GuardOK
    <2>2. \A m \in Moments : m \in Int /\ m + Window \in Int
      BY MomentsFinite, GuardNumbers
    <2>3. \A m \in Moments : PassedIn(m, m + Window) <= 2 * Allowed
      BY <2>1, <2>2, PassedInIs
    <2>4. now - Window \in Int
      BY <2>1, GuardNumbers
    <2>5. refused => PassedIn(now - Window, now) >= Allowed
      BY <2>1, <2>4, PassedInIs
    <2>6. QED BY <2>3, <2>5 DEF TwiceAtMost
  <1>2. QED BY <1>1, GuardStart, GuardStep, PTL DEF TimersSpec

-----------------------------------------------------------------------------
(* Timers: reports *)

\* A report that is cancelled stays so once it ran; one that never ran has no
\* moments; and otherwise it remembers the last of its moments.
RunsRemembered ==
  /\ now \in Nat
  /\ report \in [Reports -> Int]
  /\ ran \in [Reports -> SUBSET Int]
  /\ \A r \in Reports :
       /\ \A m \in ran[r] : 0 <= m /\ m <= now
       /\ report[r] = Never => ran[r] = {}
       /\ report[r] \in {Cancelled, Never} \union ran[r]
       /\ report[r] >= 0 => \A m \in ran[r] : m <= report[r]

ReportsInv == RunsRemembered /\ HourApart

\* At first no report has run.
LEMMA ReportsInit == TimersInit => ReportsInv
  BY DEF TimersInit, ReportsInv, RunsRemembered, HourApart, Cancelled, Never

\* A run of what is due is an hour after the last one.
LEMMA DueStep == ASSUME ReportsInv, RunDue, UNCHANGED now PROVE ReportsInv'
  <1> USE DEF Cancelled, Never
  <1>1. PICK failing \in SUBSET Reports :
          LET due == {r \in Reports : report[r] # Cancelled /\ ShouldRun(r)} \ failing
          IN /\ report' = [r \in Reports |-> IF r \in due THEN now ELSE report[r]]
             /\ ran' = [r \in Reports |-> IF r \in due THEN ran[r] \union {now} ELSE ran[r]]
    BY DEF RunDue
  <1> DEFINE due == {r \in Reports : report[r] # Cancelled /\ ShouldRun(r)} \ failing
  <1>2. \A r \in Reports : /\ report'[r] = IF r \in due THEN now ELSE report[r]
                           /\ ran'[r] = IF r \in due THEN ran[r] \union {now} ELSE ran[r]
    BY <1>1
  <1>3. now \in Nat /\ Hour \in Nat \ {0} /\ report \in [Reports -> Int] /\ ran \in [Reports -> SUBSET Int]
    BY TimersAssumption DEF ReportsInv, RunsRemembered
  <1>4. report' \in [Reports -> Int] /\ ran' \in [Reports -> SUBSET Int]
    BY <1>1, <1>3
  <1>5. ASSUME NEW r \in Reports
        PROVE  /\ \A m \in ran'[r] : 0 <= m /\ m <= now
               /\ report'[r] = Never => ran'[r] = {}
               /\ report'[r] \in {Cancelled, Never} \union ran'[r]
               /\ report'[r] >= 0 => \A m \in ran'[r] : m <= report'[r]
               /\ \A m, n \in ran'[r] : m < n => n - m >= Hour
    <2>0. /\ \A m \in ran[r] : m \in Int /\ 0 <= m /\ m <= now
          /\ report[r] \in Int
          /\ report[r] = Never => ran[r] = {}
          /\ report[r] \in {Cancelled, Never} \union ran[r]
          /\ report[r] >= 0 => \A m \in ran[r] : m <= report[r]
          /\ \A m, n \in ran[r] : m < n => n - m >= Hour
      BY <1>3 DEF ReportsInv, RunsRemembered, HourApart
    <2>1. CASE r \notin due
      BY <2>0, <2>1, <1>2
    <2>2. CASE r \in due
      <3>1. report'[r] = now /\ ran'[r] = ran[r] \union {now} /\ ShouldRun(r) /\ report[r] # Cancelled
        BY <2>2, <1>2
      <3>2. CASE ran[r] = {}
        BY <3>1, <3>2, <2>0, <1>3, TimersAssumption DEF TimersInit
      <3>3. CASE ran[r] # {}
        <4>1. report[r] \in ran[r] /\ now - report[r] >= Hour
          BY <2>0, <3>1, <3>3 DEF ShouldRun
        <4>2. \A m \in ran[r] : m <= report[r]
          BY <4>1, <2>0
        <4>3. \A m \in ran[r] : now - m >= Hour
          BY <4>1, <4>2, <2>0, <1>3
        <4>4. QED BY <4>1, <4>3, <3>1, <2>0, <1>3
      <3>4. QED BY <3>2, <3>3
    <2>3. QED BY <2>1, <2>2
  <1>6. QED BY <1>3, <1>4, <1>5 DEF ReportsInv, RunsRemembered, HourApart

\* Every step keeps the invariant of the reports.
LEMMA ReportsStep == ReportsInv /\ [TimersNext]_timersVars => ReportsInv'
  <1> SUFFICES ASSUME ReportsInv, [TimersNext]_timersVars PROVE ReportsInv'
    OBVIOUS
  <1> USE DEF Cancelled, Never
  <1>1. CASE UNCHANGED <<now, reportVars>>
    BY <1>1 DEF reportVars, ReportsInv, RunsRemembered, HourApart
  <1>2. CASE Reporting
    <2>1. CASE RunDue
      BY <1>2, <2>1, DueStep DEF Reporting
    <2>2. ASSUME NEW r \in Reports, CreateReport(r) \/ CancelReport(r), UNCHANGED now PROVE ReportsInv'
      BY <2>2 DEF CreateReport, CancelReport, ReportsInv, RunsRemembered, HourApart
    <2>3. QED BY <1>2, <2>1, <2>2 DEF Reporting
  <1>3. CASE Passing
    BY <1>3 DEF Passing, reportVars, ReportsInv, RunsRemembered, HourApart
  <1>4. QED BY <1>1, <1>2, <1>3 DEF TimersNext, Guard, Mailbox, timersVars, reportVars

\* Two runs of a report are an hour apart: runDue in scheduled-reports.service.ts,
\* however often the timer fires and whatever fails or is cancelled meanwhile.
THEOREM HourApartCorrect == TimersSpec => []HourApart
  <1>1. ReportsInv => HourApart
    BY DEF ReportsInv
  <1>2. QED BY <1>1, ReportsInit, ReportsStep, PTL DEF TimersSpec

-----------------------------------------------------------------------------
(* Timers: the mail client *)

ClientInv ==
  /\ pending \in Nat
  /\ imap \in [ImapClients -> {"unused", "connecting", "open", "closed"}]
  /\ current \subseteq ImapClients
  /\ NeverAlone

\* A client that ends starts one timer at least.
LEMMA EndsStartTimers == ASSUME NEW c, NEW n \in Reconnecting(c) PROVE n \in Nat /\ n > 0
  BY DEF Reconnecting

\* Every step leaves a client or a timer that will make one.
LEMMA ClientStep == ClientInv /\ [TimersNext]_timersVars => ClientInv'
  <1> SUFFICES ASSUME ClientInv, [TimersNext]_timersVars PROVE ClientInv'
    OBVIOUS
  <1> USE DEF ClientInv, NeverAlone
  <1>1. CASE UNCHANGED imapVars
    BY <1>1 DEF imapVars
  <1>2. CASE Destroy
    <2>1. CASE UNCHANGED <<imap, pending>>
      BY <1>2, <2>1 DEF Destroy
    <2>2. ASSUME NEW c \in current, NEW n \in Reconnecting(c),
                 imap' = [imap EXCEPT ![c] = "closed"], pending' = pending + n
          PROVE  ClientInv'
      BY <1>2, <2>2, EndsStartTimers DEF Destroy
    <2>3. QED BY <1>2, <2>1, <2>2 DEF Destroy
  <1>3. ASSUME NEW c \in ImapClients, Connect(c) PROVE ClientInv'
    BY <1>3 DEF Connect
  <1>4. ASSUME NEW c \in ImapClients, Connected(c) PROVE ClientInv'
    BY <1>4 DEF Connected
  <1>5. ASSUME NEW c \in ImapClients, Ended(c) PROVE ClientInv'
    <2>1. PICK n \in Reconnecting(c) : pending' = pending + n
      BY <1>5 DEF Ended
    <2>2. QED BY <1>5, <2>1, EndsStartTimers DEF Ended
  <1>6. QED BY <1>1, <1>2, <1>3, <1>4, <1>5 DEF TimersNext, Guard, Reporting, Mailbox, Passing, timersVars

\* The mail client never comes to rest: ImapService has a client that is open or
\* connecting, or a timer that will make one, however its connections end.
THEOREM NeverAloneCorrect == TimersSpec => []NeverAlone
  <1>1. TimersInit => ClientInv
    BY DEF TimersInit, ClientInv, NeverAlone
  <1>2. ClientInv => NeverAlone
    BY DEF ClientInv
  <1>3. QED BY <1>1, <1>2, ClientStep, PTL DEF TimersSpec

-----------------------------------------------------------------------------
(* Topbar *)

AskedFor(t) == \E c \in BarCalls : ask[c] = t

BarInv ==
  /\ BarTypeOK
  /\ bar.error => bar.pendingId = NoOrg
  /\ bar.leads = "" /\ bar.pendingId # NoOrg => AskedFor(bar.pendingId)
  /\ bar.leads = "" /\ bar.signingOut => AskedFor(Logout)
  /\ ~overtaken => \A c \in Switches : bar.pendingId = ask[c]
  /\ ~overtaken => \A c, d \in Switches : c = d
  /\ ~mixed /\ bar.signingOut => Switches = {}
  /\ AskedFor(Logout) => bar.signingOut
  /\ bar.signedOut => bar.signingOut
  /\ bar.signedOut /\ ~mixed => bar.leads = "login"

Bars == [leads : {"", "reload", "login"}, current : Orgs, open : BOOLEAN, pendingId : Orgs \union {NoOrg},
         error : BOOLEAN, menuOpen : BOOLEAN, signingOut : BOOLEAN, signedOut : BOOLEAN]

\* The fields of a new bar.
LEMMA NewBarFields ==
  ASSUME NEW t \in Orgs
  PROVE  /\ NewBar(t) \in Bars /\ NewBar(t).pendingId = NoOrg /\ NewBar(t).leads = ""
         /\ ~NewBar(t).signingOut /\ ~NewBar(t).signedOut
  BY DEF NewBar, Bars

\* A document with a new bar, of which nothing is asked.
LEMMA BarAnew ==
  ASSUME NEW t \in Orgs, bar' = NewBar(t), ask' = [c \in BarCalls |-> NoOrg],
         overtaken' = FALSE, mixed' = FALSE
  PROVE  BarInv'
  <1>1. /\ bar' \in Bars /\ bar'.pendingId = NoOrg /\ ~bar'.signingOut /\ ~bar'.signedOut
    BY NewBarFields
  <1>2. /\ ask' \in [BarCalls -> Orgs \union {NoOrg, Logout}] /\ Switches' = {} /\ ~AskedFor(Logout)'
    BY TopbarAssumption DEF Switches, AskedFor
  <1>3. BarTypeOK'
    BY <1>1, <1>2 DEF BarTypeOK, Bars
  <1>4. QED BY <1>1, <1>2, <1>3 DEF BarInv

\* At first nothing is asked for.
LEMMA BarStart == BarInit => BarInv
  <1> SUFFICES ASSUME BarInit PROVE BarInv
    OBVIOUS
  <1>1. /\ bar \in Bars /\ bar.pendingId = NoOrg /\ ~bar.signingOut /\ ~bar.signedOut
    BY NewBarFields, TopbarAssumption DEF BarInit
  <1>2. ask \in [BarCalls -> Orgs \union {NoOrg, Logout}] /\ Switches = {}
        /\ overtaken = FALSE /\ mixed = FALSE /\ ~AskedFor(Logout)
    BY TopbarAssumption DEF Switches, BarInit, AskedFor
  <1>3. BarTypeOK
    BY <1>1, <1>2 DEF BarTypeOK, Bars
  <1>4. QED BY <1>1, <1>2, <1>3 DEF BarInv

\* Every step keeps the invariant of the bar.
LEMMA BarStep == BarInv /\ [BarNext]_barVars => BarInv'
  <1> SUFFICES ASSUME BarInv, [BarNext]_barVars PROVE BarInv'
    OBVIOUS
  <1>0. bar \in Bars /\ ask \in [BarCalls -> Orgs \union {NoOrg, Logout}]
        /\ overtaken \in BOOLEAN /\ mixed \in BOOLEAN
    BY DEF BarInv, BarTypeOK, Bars
  \* What the list and the menu do not matter to.
  <1>1. ASSUME ToggleList \/ ToggleMenu PROVE BarInv'
    <2>1. /\ bar' \in Bars /\ UNCHANGED <<ask, overtaken, mixed>>
          /\ bar'.leads = bar.leads /\ bar'.pendingId = bar.pendingId /\ bar'.error = bar.error
          /\ bar'.signingOut = bar.signingOut /\ bar'.signedOut = bar.signedOut
      BY <1>0, <1>1 DEF ToggleList, ToggleMenu, Bars
    <2>2. BarTypeOK' /\ Switches' = Switches /\ (\A t : AskedFor(t)' <=> AskedFor(t))
      BY <1>0, <2>1 DEF BarTypeOK, Bars, Switches, AskedFor
    <2>3. QED BY <2>1, <2>2 DEF BarInv, AskedFor
  <1>2. CASE NewDocument
    BY <1>2, BarAnew DEF NewDocument
  <1>3. ASSUME NEW c \in BarCalls, NEW t \in Orgs, HandleSelect(c, t) PROVE BarInv'
    <2>1. CASE t = bar.current
      <3>1. /\ bar' \in Bars /\ UNCHANGED <<ask, overtaken, mixed>>
            /\ bar'.leads = bar.leads /\ bar'.pendingId = bar.pendingId /\ bar'.error = bar.error
            /\ bar'.signingOut = bar.signingOut /\ bar'.signedOut = bar.signedOut
        BY <1>0, <1>3, <2>1 DEF HandleSelect, Bars
      <3>2. BarTypeOK' /\ Switches' = Switches
        BY <1>0, <3>1 DEF BarTypeOK, Bars, Switches
      <3>3. QED BY <3>1, <3>2 DEF BarInv, AskedFor
    <2>2. CASE t # bar.current
      <3>1. /\ bar' = [bar EXCEPT !.pendingId = t, !.error = FALSE]
            /\ ask' = [ask EXCEPT ![c] = t] /\ ask[c] = NoOrg /\ bar.pendingId # t
            /\ overtaken' = (overtaken \/ \E d \in Switches : ask[d] # t)
            /\ mixed' = (mixed \/ bar.signingOut)
        BY <1>3, <2>2 DEF HandleSelect, Enabled
      <3>2. /\ bar' \in Bars /\ bar'.leads = bar.leads /\ bar'.pendingId = t /\ ~bar'.error
            /\ bar'.signingOut = bar.signingOut /\ bar'.signedOut = bar.signedOut
        BY <1>0, <3>1 DEF Bars
      <3>3. /\ ask' \in [BarCalls -> Orgs \union {NoOrg, Logout}] /\ ask'[c] = t
            /\ \A d \in BarCalls \ {c} : ask'[d] = ask[d]
            /\ overtaken' \in BOOLEAN /\ mixed' \in BOOLEAN
        BY <1>0, <3>1 DEF Bars
      <3>4. BarTypeOK'
        BY <3>2, <3>3 DEF BarTypeOK, Bars
      <3>5. Switches' = Switches \union {c}
        BY <3>1, <3>3, TopbarAssumption DEF Switches
      \* The option that was clicked does not wait, so what is under way overtakes it.
      <3>6. ~overtaken' => Switches = {}
        BY <3>1 DEF BarInv
      <3>7. /\ AskedFor(bar.pendingId)'
            /\ bar'.leads = "" /\ bar'.signingOut => AskedFor(Logout)'
            /\ AskedFor(Logout)' => bar'.signingOut
        BY <3>1, <3>2, <3>3, TopbarAssumption DEF BarInv, AskedFor
      <3>8. ~mixed' => ~bar'.signingOut /\ ~bar'.signedOut
        BY <3>1, <3>2 DEF BarInv
      <3>9. bar'.signedOut => bar'.signingOut
        BY <3>2 DEF BarInv
      <3>10. QED BY <3>2, <3>3, <3>4, <3>5, <3>6, <3>7, <3>8, <3>9 DEF BarInv
    <2>3. QED BY <2>1, <2>2
  <1>4. ASSUME NEW c \in BarCalls, Switched(c) \/ RefuseSwitch(c) PROVE BarInv'
    <2>1. /\ c \in Switches /\ ask' = [ask EXCEPT ![c] = NoOrg] /\ UNCHANGED <<overtaken, mixed>>
      BY <1>4 DEF Switched, RefuseSwitch
    <2>2. /\ bar' \in Bars
          /\ bar'.signingOut = bar.signingOut /\ bar'.signedOut = bar.signedOut
          /\ \/ bar'.leads = "reload" /\ bar'.pendingId = bar.pendingId /\ bar'.error = bar.error
             \/ bar'.leads = bar.leads /\ bar'.pendingId = NoOrg
      BY <1>0, <1>4 DEF Switched, RefuseSwitch, Refused, Bars
    <2>3. /\ ask' \in [BarCalls -> Orgs \union {NoOrg, Logout}]
          /\ \A d \in BarCalls \ {c} : ask'[d] = ask[d]
          /\ Switches' = Switches \ {c}
      BY <1>0, <2>1, TopbarAssumption DEF Switches
    <2>4. BarTypeOK'
      BY <1>0, <2>1, <2>2, <2>3 DEF BarTypeOK, Bars
    <2>5. ~mixed => ~bar.signingOut
      BY <2>1 DEF BarInv
    <2>6. ~overtaken => Switches' = {}
      BY <2>1, <2>3 DEF BarInv
    <2>7. AskedFor(Logout) <=> AskedFor(Logout)'
      BY <2>1, <2>3, TopbarAssumption DEF AskedFor, Switches
    <2>8. QED BY <2>1, <2>2, <2>4, <2>5, <2>6, <2>7 DEF BarInv
  <1>5. ASSUME NEW c \in BarCalls, HandleSignOut(c) \/ AfterSignOut(c) PROVE BarInv'
    <2>1. CASE HandleSignOut(c)
      <3>1. /\ ~bar.signingOut /\ ask[c] = NoOrg
            /\ bar' = [bar EXCEPT !.signingOut = TRUE] /\ ask' = [ask EXCEPT ![c] = Logout]
            /\ mixed' = (mixed \/ Switches # {} \/ bar.leads = "reload") /\ UNCHANGED overtaken
        BY <2>1 DEF HandleSignOut
      <3>2. /\ bar' \in Bars /\ bar'.signingOut /\ bar'.signedOut = bar.signedOut
            /\ bar'.leads = bar.leads /\ bar'.pendingId = bar.pendingId /\ bar'.error = bar.error
        BY <1>0, <3>1 DEF Bars
      <3>3. /\ ask' \in [BarCalls -> Orgs \union {NoOrg, Logout}] /\ ask'[c] = Logout
            /\ \A d \in BarCalls \ {c} : ask'[d] = ask[d]
            /\ Switches' = Switches /\ mixed' \in BOOLEAN
        BY <1>0, <3>1, TopbarAssumption DEF Switches
      <3>4. BarTypeOK'
        BY <1>0, <3>1, <3>2, <3>3 DEF BarTypeOK, Bars
      <3>5. AskedFor(Logout)' /\ (bar'.leads = "" /\ bar'.pendingId # NoOrg => AskedFor(bar.pendingId)')
        BY <3>1, <3>2, <3>3 DEF AskedFor, BarInv
      <3>6. ~bar'.signedOut
        BY <3>1, <3>2 DEF BarInv
      <3>7. \A d \in Switches : ask'[d] = ask[d]
        BY <3>1, <3>3, TopbarAssumption DEF Switches
      <3>8. ~mixed' => Switches' = {}
        BY <3>1, <3>3
      <3>9. QED BY <3>1, <3>2, <3>3, <3>4, <3>5, <3>6, <3>7, <3>8 DEF BarInv
    <2>2. CASE AfterSignOut(c)
      <3>1. /\ ask[c] = Logout /\ bar' = [bar EXCEPT !.leads = "login", !.signedOut = TRUE]
            /\ ask' = [ask EXCEPT ![c] = NoOrg] /\ UNCHANGED <<overtaken, mixed>>
        BY <2>2 DEF AfterSignOut
      <3>2. /\ bar' \in Bars /\ bar'.leads = "login" /\ bar'.signedOut
            /\ bar'.signingOut = bar.signingOut /\ bar'.pendingId = bar.pendingId /\ bar'.error = bar.error
        BY <1>0, <3>1 DEF Bars
      <3>3. /\ ask' \in [BarCalls -> Orgs \union {NoOrg, Logout}]
            /\ \A d \in BarCalls \ {c} : ask'[d] = ask[d]
            /\ Switches' = Switches /\ c \notin Switches
        BY <1>0, <3>1, TopbarAssumption DEF Switches
      <3>4. BarTypeOK'
        BY <1>0, <3>1, <3>2, <3>3 DEF BarTypeOK, Bars
      <3>5. \A d \in Switches : ask'[d] = ask[d]
        BY <3>3 DEF Switches
      \* Only a sign-out under way is answered.
      <3>6. bar.signingOut
        BY <3>1 DEF BarInv, AskedFor
      <3>7. QED BY <3>1, <3>2, <3>3, <3>4, <3>5, <3>6 DEF BarInv
    <2>3. QED BY <1>5, <2>1, <2>2
  <1>6. CASE UNCHANGED barVars
    BY <1>6 DEF barVars, BarInv, BarTypeOK, Switches, AskedFor
  <1>7. QED BY <1>1, <1>2, <1>3, <1>4, <1>5, <1>6 DEF BarNext

\* The bar agrees with what it has asked for: handleSelect of TenantSwitcher and
\* handleSignOut of Topbar, whatever order the answers come in, for any number of
\* tenants and calls.
THEOREM BarAgreesCorrect == BarSpec => []BarAgrees
  <1>1. BarInv => BarAgrees
    <2> SUFFICES ASSUME BarInv PROVE BarAgrees
      OBVIOUS
    <2>1. Idling /\ bar.leads = "" => bar.pendingId = NoOrg /\ ~bar.signingOut
      BY TopbarAssumption DEF BarInv, BarTypeOK, Idling, AskedFor
    <2>2. ~overtaken => Cardinality(Switches) <= 1
      <3>1. CASE Switches = {}
        BY <3>1, FS_EmptySet
      <3>2. ASSUME NEW c \in Switches, ~overtaken PROVE Cardinality(Switches) <= 1
        <4>1. Switches = {c}
          BY <3>2 DEF BarInv
        <4>2. QED BY <4>1, FS_Singleton
      <3>3. QED BY <3>1, <3>2
    <2>3. QED BY <2>1, <2>2 DEF BarInv, BarAgrees
  <1>2. QED BY <1>1, BarStart, BarStep, PTL DEF BarSpec

-----------------------------------------------------------------------------
(* Sign-in and second factor *)

\* An account exists once a signup was accepted, and the page goes on only then:
\* invitations have no route and are refused.
\* While the page and the server may be compared, signups are the page's own, and
\* an account that the first form does not know of yet is on its way to it.
AccountKnown ==
  /\ \A w \in WebCalls : web[w].op = "signup" /\ web[w].pc = "ok" => site.account
  /\ \A w \in WebCalls : web[w].op = "invite" => web[w].pc # "ok"
  /\ tab.step \in {"invite", "done"} => site.account
  /\ "signup" \notin excuse =>
       /\ \A w \in WebCalls : web[w].op = "signup" /\ web[w].pc # "free" => web[w].mine
       /\ tab.step = "workspace" /\ site.account =>
            \E w \in WebCalls : web[w].op = "signup" /\ web[w].pc = "ok"

\* The steps of the enrolment have a secret; unless a factor was disabled, those
\* shown and those on their way are of active factors.
SecretShown ==
  /\ \A w \in WebCalls : web[w].pc = "checked" => web[w].op = "enroll"
  /\ \A w \in WebCalls : web[w].op = "enroll" /\ web[w].pc = "ok" =>
       /\ web[w].code # 0
       /\ "disabled" \notin excuse => web[w].code \in site.active
  /\ tab.step \in {"qr", "verify"} => tab.secret # 0
  /\ tab.secret # 0 /\ "disabled" \notin excuse => tab.secret \in site.active

Comparable == "enroll" \notin excuse /\ "overlapped" \notin excuse /\ "disabled" \notin excuse

\* The active factor is the only one then: the page shows it, or it is on its way.
FactorKnown ==
  Comparable =>
    /\ \A w \in WebCalls : web[w].op = "enroll" /\ web[w].pc # "free" => web[w].mine
    /\ \A w \in WebCalls : web[w].op = "enroll" /\ web[w].pc = "ok" => site.active = {web[w].code}
    /\ tab.secret # 0 => site.active = {tab.secret} /\ tab.step # "intro"
    /\ site.active # {} => tab.secret # 0 \/
                           \E w \in WebCalls : web[w].op = "enroll" /\ web[w].pc = "ok"

SignInInv == SignInTypeOK /\ AccountKnown /\ SecretShown /\ FactorKnown

Steps == {"workspace", "invite", "done", "intro", "qr", "verify", "challenge", "through"}
Sites == [account : BOOLEAN, active : SUBSET (1..MaxFactors), drawn : 0..MaxFactors]
Tabs == [step : Steps, secret : 0..MaxFactors, busy : BOOLEAN, refusal : BOOLEAN]
CallOf == [pc : {"free", "sent", "checked", "ok", "refused"}, op : {"signup", "invite", "enroll", "verify"},
           code : 0..MaxFactors, mine : BOOLEAN]

\* At first the pages are empty and no call is under way.
LEMMA InitHolds == SignInInit => SignInInv
  <1> SUFFICES ASSUME SignInInit PROVE SignInInv
    OBVIOUS
  <1>1. /\ site = [account |-> FALSE, active |-> {}, drawn |-> 0] /\ kept = {} /\ accepted = FALSE
        /\ tab = [step |-> "workspace", secret |-> 0, busy |-> FALSE, refusal |-> FALSE]
        /\ web = [w \in WebCalls |-> [pc |-> "free", op |-> "signup", code |-> 0, mine |-> TRUE]]
    BY DEF SignInInit, Fresh, Rest
  <1>2. 0 \in 0..MaxFactors
    BY SignInAssumption
  <1>3. SignInTypeOK
    BY <1>1, <1>2 DEF SignInTypeOK
  <1>4. QED BY <1>1, <1>3 DEF SignInInv, AccountKnown, SecretShown, FactorKnown

\* A new call of the page is of its own, and not answered.
LEMMA RequestStep ==
  ASSUME SignInInv, NEW w \in WebCalls, NEW op \in {"signup", "invite", "enroll", "verify"},
         NEW code \in 0..MaxFactors, Request(w, op, code), UNCHANGED <<site, kept, excuse>>,
         tab'.step = tab.step, tab'.secret = tab.secret, tab' \in Tabs, accepted' \in BOOLEAN
  PROVE  SignInInv'
  <1>1. /\ web[w].pc = "free"
        /\ web' = [web EXCEPT ![w] = [pc |-> "sent", op |-> op, code |-> code, mine |-> TRUE]]
    BY DEF Request
  <1>2. /\ web' \in [WebCalls -> CallOf]
        /\ web'[w] = [pc |-> "sent", op |-> op, code |-> code, mine |-> TRUE]
        /\ \A v \in WebCalls : v # w => web'[v] = web[v]
    BY <1>1 DEF SignInInv, SignInTypeOK, CallOf
  <1>3. SignInTypeOK'
    BY <1>2 DEF SignInInv, SignInTypeOK, CallOf, Steps, Tabs
  <1>4. \A v \in WebCalls : web[v].pc = "ok" => v # w
    BY <1>1
  <1>5. AccountKnown'
    BY <1>2, <1>4 DEF SignInInv, AccountKnown
  <1>6. SecretShown'
    BY <1>2, <1>4 DEF SignInInv, SecretShown
  <1>7. FactorKnown'
    BY <1>2, <1>4 DEF SignInInv, FactorKnown, Comparable
  <1>8. QED BY <1>3, <1>5, <1>6, <1>7 DEF SignInInv

\* A step of the page alone, which neither goes to the first form nor to the last step.
LEMMA PageStep ==
  ASSUME SignInInv, UNCHANGED <<site, web, kept, accepted>>, excuse \subseteq excuse',
         tab' \in Tabs, tab'.secret = tab.secret,
         tab'.step \in {"invite", "done"} => tab.step \in {"invite", "done"},
         tab'.step \in {"qr", "verify"} => tab.step \in {"qr", "verify"},
         tab'.step = "intro" => "enroll" \in excuse',
         tab'.step \notin {"workspace", "through"}
  PROVE  SignInInv'
  <1>1. SignInTypeOK'
    BY DEF SignInInv, SignInTypeOK, Steps, Tabs
  <1>2. AccountKnown'
    BY DEF SignInInv, AccountKnown
  <1>3. SecretShown'
    BY DEF SignInInv, SecretShown
  <1>4. FactorKnown'
    BY DEF SignInInv, FactorKnown, Comparable
  <1>5. QED BY <1>1, <1>2, <1>3, <1>4 DEF SignInInv

\* A page that opens knows nothing.
LEMMA OpenStep ==
  ASSUME SignInInv, NEW step \in {"workspace", "intro", "challenge"}, OpenPage(step)
  PROVE  SignInInv'
  <1>1. /\ tab' = [step |-> step, secret |-> 0, busy |-> FALSE, refusal |-> FALSE]
        /\ UNCHANGED <<site, kept>> /\ accepted' = FALSE
        /\ excuse \subseteq excuse'
        /\ \A w \in WebCalls : web[w].pc # "free" /\ web[w].mine => web[w].op \in excuse'
        /\ tab.secret # 0 => "enroll" \in excuse'
        /\ site.account => "signup" \in excuse'
    BY DEF OpenPage, Fresh, Forgotten, Awaited
  <1>2. /\ web' \in [WebCalls -> CallOf]
        /\ \A w \in WebCalls : /\ web'[w].pc = web[w].pc /\ web'[w].op = web[w].op
                               /\ web'[w].code = web[w].code
    BY DEF OpenPage, SignInInv, SignInTypeOK, CallOf
  <1>3. SignInTypeOK'
    <2>1. 0 \in 0..MaxFactors
      BY SignInAssumption
    <2>2. tab' \in [step : {"workspace", "invite", "done", "intro", "qr", "verify", "challenge", "through"},
                    secret : 0..MaxFactors, busy : BOOLEAN, refusal : BOOLEAN]
      BY <1>1, <2>1
    <2>3. QED BY <1>1, <1>2, <2>2 DEF SignInInv, SignInTypeOK, CallOf
  <1>4. AccountKnown'
    BY <1>1, <1>2 DEF SignInInv, AccountKnown
  <1>5. SecretShown'
    BY <1>1, <1>2 DEF SignInInv, SecretShown
  <1>6. ASSUME Comparable'
        PROVE  /\ Comparable /\ tab.secret = 0 /\ site.active = {}
               /\ \A w \in WebCalls : ~(web[w].op = "enroll" /\ web[w].pc # "free")
    BY <1>1, <1>6 DEF SignInInv, FactorKnown, Comparable
  <1>7. FactorKnown'
    BY <1>1, <1>2, <1>6 DEF SignInInv, FactorKnown
  <1>8. QED BY <1>3, <1>4, <1>5, <1>7 DEF SignInInv

\* A call that ends without an answer, and leaves an excuse if it was done.
LEMMA LoseStep ==
  ASSUME SignInInv, NEW w \in WebCalls, LoseCall(w)
  PROVE  SignInInv'
  <1>1. /\ web[w].pc \in {"sent", "checked", "ok"}
        /\ web' = [web EXCEPT ![w].pc = "refused"]
        /\ excuse \subseteq excuse'
        /\ web[w].pc = "ok" => web[w].op \in excuse'
        /\ UNCHANGED <<site, tab, kept, accepted>>
    BY DEF LoseCall
  <1>2. /\ web' \in [WebCalls -> CallOf]
        /\ web'[w].pc = "refused" /\ web'[w].op = web[w].op /\ web'[w].mine = web[w].mine
        /\ \A v \in WebCalls : v # w => web'[v] = web[v]
    BY <1>1 DEF SignInInv, SignInTypeOK, CallOf
  <1>3. SignInTypeOK'
    BY <1>1, <1>2 DEF SignInInv, SignInTypeOK, CallOf
  <1>4. AccountKnown'
    BY <1>1, <1>2 DEF SignInInv, AccountKnown
  <1>5. SecretShown'
    BY <1>1, <1>2 DEF SignInInv, SecretShown
  <1>6. FactorKnown'
    BY <1>1, <1>2 DEF SignInInv, FactorKnown, Comparable
  <1>7. QED BY <1>3, <1>4, <1>5, <1>6 DEF SignInInv

\* A refused call leaves the page at its step.
LEMMA AfterRefusal ==
  ASSUME NEW call \in CallOf, call.pc # "ok", tab \in Tabs
  PROVE  /\ AfterAnswer(call) \in Tabs
         /\ AfterAnswer(call).step = tab.step /\ AfterAnswer(call).secret = tab.secret
  BY DEF AfterAnswer, GoesOn, CallOf, Tabs

\* A call that is cut off is none of the page's, and leaves an excuse.
LEMMA CutStep ==
  ASSUME SignInInv, NEW w \in WebCalls, CutOff(w)
  PROVE  SignInInv'
  <1> DEFINE call == [web[w] EXCEPT !.pc = "refused"]
  <1>1. /\ web[w].pc \in {"sent", "checked"}
        /\ tab' = AfterAnswer(call)
        /\ web' = [web EXCEPT ![w].mine = FALSE]
        /\ excuse' = excuse \union {web[w].op}
        /\ UNCHANGED <<site, kept, accepted>>
    BY DEF CutOff
  <1>2. web[w] \in CallOf /\ tab \in Tabs
    BY DEF SignInInv, SignInTypeOK, CallOf, Tabs, Steps
  <1>3. call \in CallOf /\ call.pc = "refused"
    BY <1>2 DEF CallOf
  <1> HIDE DEF call
  <1>4. tab' \in Tabs /\ tab'.step = tab.step /\ tab'.secret = tab.secret
    BY <1>1, <1>2, <1>3, AfterRefusal
  <1>5. /\ web' \in [WebCalls -> CallOf]
        /\ web'[w].pc = web[w].pc /\ web'[w].op = web[w].op /\ web'[w].code = web[w].code
        /\ \A v \in WebCalls : v # w => web'[v] = web[v]
    BY <1>1 DEF SignInInv, SignInTypeOK, CallOf
  <1>6. SignInTypeOK'
    BY <1>1, <1>4, <1>5 DEF SignInInv, SignInTypeOK, CallOf, Tabs, Steps
  <1>7. AccountKnown'
    BY <1>1, <1>4, <1>5 DEF SignInInv, AccountKnown
  <1>8. SecretShown'
    BY <1>1, <1>4, <1>5 DEF SignInInv, SecretShown
  <1>9. FactorKnown'
    BY <1>1, <1>4, <1>5 DEF SignInInv, FactorKnown, Comparable
  <1>10. QED BY <1>6, <1>7, <1>8, <1>9 DEF SignInInv

\* An answer to a call that neither creates an account nor a factor.
LEMMA AnswerOnly ==
  ASSUME SignInInv, NEW w \in WebCalls, web[w].pc = "sent", NEW pc \in {"checked", "ok", "refused"},
         web' = [web EXCEPT ![w].pc = pc],
         pc = "ok" => web[w].op = "verify", pc = "checked" => web[w].op = "enroll",
         UNCHANGED <<site, tab, kept, excuse>>, accepted' \in BOOLEAN
  PROVE  SignInInv'
  <1>1. /\ web' \in [WebCalls -> CallOf]
        /\ web'[w].pc = pc
        /\ web'[w].op = web[w].op /\ web'[w].mine = web[w].mine
        /\ \A v \in WebCalls : v # w => web'[v] = web[v]
    BY DEF SignInInv, SignInTypeOK, CallOf
  <1>2. SignInTypeOK'
    BY <1>1 DEF SignInInv, SignInTypeOK, CallOf
  <1>3. AccountKnown'
    BY <1>1 DEF SignInInv, AccountKnown
  <1>4. SecretShown'
    BY <1>1 DEF SignInInv, SecretShown
  <1>5. FactorKnown'
    BY <1>1 DEF SignInInv, FactorKnown, Comparable
  <1>6. QED BY <1>2, <1>3, <1>4, <1>5 DEF SignInInv

\* A new factor is on its way to the page; if another call has written one since
\* the check, the two are not compared.
LEMMA CreateStep ==
  ASSUME SignInInv, NEW w \in WebCalls, CreateFactor(w), web[w].op = "enroll"
  PROVE  SignInInv'
  <1> DEFINE new == site.drawn + 1
  <1>1. /\ web[w].pc = "checked" /\ site.drawn < MaxFactors
        /\ web' = [web EXCEPT ![w].pc = "ok", ![w].code = new]
        /\ site' = [site EXCEPT !.active = @ \union {new}, !.drawn = new]
        /\ excuse \subseteq excuse' /\ ("disabled" \notin excuse => "disabled" \notin excuse')
        /\ site.active # {} => "overlapped" \in excuse'
        /\ UNCHANGED <<tab, kept, accepted>>
    BY DEF CreateFactor
  <1>2. site \in Sites /\ site.drawn \in 0..MaxFactors
    BY DEF SignInInv, SignInTypeOK, Sites
  <1>3. new \in 0..MaxFactors /\ new \in 1..MaxFactors /\ new # 0
    BY <1>1, <1>2, SignInAssumption
  <1> HIDE DEF new
  <1>4. site'.active = site.active \union {new} /\ site'.account = site.account /\ site' \in Sites
    BY <1>1, <1>2, <1>3 DEF Sites
  <1>5. /\ web' \in [WebCalls -> CallOf]
        /\ web'[w].pc = "ok" /\ web'[w].code = new
        /\ web'[w].op = "enroll" /\ web'[w].mine = web[w].mine
        /\ \A v \in WebCalls : v # w => web'[v] = web[v]
    BY <1>1, <1>3 DEF SignInInv, SignInTypeOK, CallOf
  <1>6. SignInTypeOK'
    BY <1>1, <1>4, <1>5 DEF SignInInv, SignInTypeOK, CallOf, Sites
  <1>7. AccountKnown'
    BY <1>1, <1>4, <1>5 DEF SignInInv, AccountKnown
  <1>8. SecretShown'
    BY <1>1, <1>3, <1>4, <1>5 DEF SignInInv, SecretShown
  \* No factor was active, so no secret was shown and none was on its way.
  <1>9. Comparable' =>
          /\ Comparable /\ site.active = {} /\ tab.secret = 0
          /\ \A v \in WebCalls : ~(web[v].op = "enroll" /\ web[v].pc = "ok")
    BY <1>1 DEF SignInInv, FactorKnown, SecretShown, Comparable
  <1>10. FactorKnown'
    BY <1>1, <1>4, <1>5, <1>9 DEF SignInInv, FactorKnown
  <1>11. QED BY <1>6, <1>7, <1>8, <1>10 DEF SignInInv

\* What the server does is known to the page or on its way to it.
LEMMA ServeStep ==
  ASSUME SignInInv, NEW w \in WebCalls, Serve(w)
  PROVE  SignInInv'
  <1>1. CASE ServeSignup(w)
    <2>1. /\ web[w].pc = "sent" /\ web[w].op = "signup"
          /\ UNCHANGED <<tab, kept, excuse, accepted>>
          /\ site'.account = TRUE /\ site'.active = site.active /\ site' \in Sites
      BY <1>1 DEF ServeSignup, SignInInv, SignInTypeOK, Sites
    <2>2. /\ web' \in [WebCalls -> CallOf]
          /\ web'[w].pc = (IF site.account THEN "refused" ELSE "ok")
          /\ web'[w].op = "signup" /\ web'[w].mine = web[w].mine
          /\ \A v \in WebCalls : v # w => web'[v] = web[v]
      BY <1>1 DEF ServeSignup, Respond, SignInInv, SignInTypeOK, CallOf
    <2>3. SignInTypeOK'
      BY <2>1, <2>2 DEF SignInInv, SignInTypeOK, CallOf, Sites
    <2>4. AccountKnown'
      BY <2>1, <2>2 DEF SignInInv, AccountKnown
    <2>5. SecretShown'
      BY <2>1, <2>2 DEF SignInInv, SecretShown
    <2>6. FactorKnown'
      BY <2>1, <2>2 DEF SignInInv, FactorKnown, Comparable
    <2>7. QED BY <2>3, <2>4, <2>5, <2>6 DEF SignInInv
  <1>2. CASE CheckFactor(w)
    <2>1. accepted' \in BOOLEAN
      BY <1>2 DEF CheckFactor, SignInInv, SignInTypeOK
    <2>2. QED BY <1>2, <2>1, AnswerOnly DEF CheckFactor
  <1>3. CASE CreateFactor(w)
    BY <1>3, CreateStep DEF CreateFactor, SignInInv, SecretShown
  <1>4. CASE ServeVerify(w)
    <2>1. PICK fine \in {FALSE, web[w].code \in site.active} :
            web' = [web EXCEPT ![w].pc = IF fine THEN "ok" ELSE "refused"]
      BY <1>4 DEF ServeVerify, Respond
    <2>2. PICK f \in {FALSE, web[w].code \in site.active} : accepted' = (accepted \/ (f /\ web[w].mine))
      BY <1>4 DEF ServeVerify
    <2>3. accepted' \in BOOLEAN
      BY <2>2
    <2>4. PICK pc \in {"ok", "refused"} : web' = [web EXCEPT ![w].pc = pc]
      BY <2>1
    <2>5. QED BY <1>4, <2>3, <2>4, AnswerOnly DEF ServeVerify
  <1>5. CASE RefuseInvites(w)
    <2>1. accepted' \in BOOLEAN
      BY <1>5 DEF RefuseInvites, SignInInv, SignInTypeOK
    <2>2. QED BY <1>5, <2>1, AnswerOnly DEF RefuseInvites, Respond
  <1>6. QED BY <1>1, <1>2, <1>3, <1>4, <1>5 DEF Serve

\* A factor that is disabled elsewhere leaves an excuse.
LEMMA DisableStep ==
  ASSUME SignInInv, DisableElsewhere
  PROVE  SignInInv'
  <1>1. /\ site'.account = site.account /\ site' \in Sites
        /\ excuse' = excuse \union {"disabled"}
        /\ UNCHANGED <<tab, web, kept, accepted>>
    BY DEF DisableElsewhere, SignInInv, SignInTypeOK, Sites
  <1>2. SignInTypeOK'
    BY <1>1 DEF SignInInv, SignInTypeOK, Sites
  <1>3. AccountKnown'
    BY <1>1 DEF SignInInv, AccountKnown
  <1>4. SecretShown'
    BY <1>1 DEF SignInInv, SecretShown
  <1>5. FactorKnown'
    BY <1>1 DEF FactorKnown, Comparable
  <1>6. QED BY <1>2, <1>3, <1>4, <1>5 DEF SignInInv

\* An answer moves on only the page that sent the call.
LEMMA ReceiveStep ==
  ASSUME SignInInv, NEW w \in WebCalls, ReceiveAnswer(w)
  PROVE  SignInInv'
  <1> DEFINE call == web[w]
  <1>1. /\ call.pc \in {"ok", "refused"}
        /\ tab' = IF call.mine THEN AfterAnswer(call) ELSE tab
        /\ web' = [web EXCEPT ![w] = [pc |-> "free", op |-> "signup", code |-> 0, mine |-> TRUE]]
        /\ kept' = kept \union ({tab'.secret} \ {0})
        /\ UNCHANGED <<site, excuse, accepted>>
    BY DEF ReceiveAnswer, Rest
  <1>2. /\ web' \in [WebCalls -> CallOf]
        /\ web'[w].pc = "free" /\ web'[w].op = "signup"
        /\ \A v \in WebCalls : v # w => web'[v] = web[v]
    BY <1>1, SignInAssumption DEF SignInInv, SignInTypeOK, CallOf
  <1>3. call \in CallOf /\ tab \in Tabs
    BY DEF SignInInv, SignInTypeOK, CallOf, Steps, Tabs
  \* The page after the answer: unmoved, or on by the step of the call.
  <1>4. /\ tab' \in Tabs
        /\ \/ /\ tab'.step = tab.step /\ tab'.secret = tab.secret
              /\ call.mine /\ call.pc = "ok" => call.op = "verify"
           \/ /\ call.op = "signup" /\ call.pc = "ok" /\ call.mine
              /\ tab'.step = "invite" /\ tab'.secret = tab.secret
           \/ /\ call.op = "invite" /\ call.pc = "ok" /\ call.mine
              /\ tab'.step = "done" /\ tab'.secret = tab.secret
           \/ /\ call.op = "enroll" /\ call.pc = "ok" /\ call.mine
              /\ tab'.step = "qr" /\ tab'.secret = call.code
    <2> HIDE DEF call
    <2>1. CASE ~call.mine
      BY <1>1, <1>3, <2>1
    <2>2. CASE call.mine /\ call.pc = "refused"
      BY <1>1, <1>3, <2>2, AfterRefusal
    <2>3. CASE call.mine /\ call.pc = "ok"
      <3>1. tab' = AfterAnswer(call)
        BY <1>1, <2>3
      <3>2. CASE call.op = "verify"
        BY <1>3, <3>1, <3>2 DEF AfterAnswer, GoesOn, Wanted, Granted, Tabs
      <3>3. CASE call.op = "signup"
        BY <1>3, <2>3, <3>1, <3>3 DEF AfterAnswer, GoesOn, Tabs, Steps
      <3>4. CASE call.op = "invite"
        BY <1>3, <2>3, <3>1, <3>4 DEF AfterAnswer, GoesOn, Tabs, Steps
      <3>5. CASE call.op = "enroll"
        BY <1>3, <2>3, <3>1, <3>5 DEF AfterAnswer, GoesOn, Tabs, Steps, CallOf
      <3>6. QED BY <1>3, <3>2, <3>3, <3>4, <3>5 DEF CallOf
    <2>4. QED BY <1>1, <2>1, <2>2, <2>3
  <1>5. SignInTypeOK'
    <2>1. kept' \subseteq 1..MaxFactors
      <3>1. tab'.secret \in 0..MaxFactors
        BY <1>4 DEF Tabs
      <3>2. \A n \in 0..MaxFactors : n # 0 => n \in 1..MaxFactors
        BY SignInAssumption
      <3>3. kept \subseteq 1..MaxFactors
        BY DEF SignInInv, SignInTypeOK
      <3>4. QED BY <1>1, <3>1, <3>2, <3>3
    <2>2. QED BY <1>1, <1>2, <1>4, <2>1 DEF SignInInv, SignInTypeOK, CallOf, Steps, Tabs
  <1>6. AccountKnown'
    BY <1>1, <1>2, <1>4 DEF SignInInv, AccountKnown
  <1>7. SecretShown'
    BY <1>1, <1>2, <1>4 DEF SignInInv, SecretShown
  <1>8. FactorKnown'
    <2>1. CASE ~Comparable
      BY <1>1, <2>1 DEF FactorKnown, Comparable
    <2>2. CASE Comparable
      <3>1. /\ \A v \in WebCalls : web[v].op = "enroll" /\ web[v].pc # "free" => web[v].mine
            /\ \A v \in WebCalls : web[v].op = "enroll" /\ web[v].pc = "ok" =>
                 web[v].code # 0 /\ site.active = {web[v].code}
            /\ tab.secret # 0 => site.active = {tab.secret} /\ tab.step # "intro"
            /\ site.active # {} => tab.secret # 0 \/
                                   \E v \in WebCalls : web[v].op = "enroll" /\ web[v].pc = "ok"
        BY <2>2 DEF SignInInv, FactorKnown, SecretShown
      <3>2. \A v \in WebCalls : web'[v].op = "enroll" => v # w /\ web'[v] = web[v]
        BY <1>2
      \* An enrolment that was answered is on the page now.
      <3>3. CASE call.op = "enroll" /\ call.pc = "ok"
        <4>1. tab'.step = "qr" /\ tab'.secret = call.code
          BY <1>4, <3>1, <3>3
        <4>2. QED BY <1>1, <3>1, <3>2, <3>3, <4>1 DEF FactorKnown
      <3>4. CASE ~(call.op = "enroll" /\ call.pc = "ok")
        <4>1. /\ tab'.secret = tab.secret
              /\ tab'.step = "intro" => tab.step = "intro"
          BY <1>4, <3>4
        <4>2. QED BY <1>1, <1>2, <3>1, <3>2, <3>4, <4>1 DEF FactorKnown
      <3>5. QED BY <3>3, <3>4
    <2>3. QED BY <2>1, <2>2
  <1>9. QED BY <1>5, <1>6, <1>7, <1>8 DEF SignInInv

\* Every step keeps the invariant of the sign-in.
LEMMA StepHolds == SignInInv /\ [SignInNext]_signInVars => SignInInv'
  <1> SUFFICES ASSUME SignInInv, [SignInNext]_signInVars
               PROVE  SignInInv'
    OBVIOUS
  <1>1. tab \in Tabs /\ accepted \in BOOLEAN /\ kept \subseteq 1..MaxFactors
    BY DEF SignInInv, SignInTypeOK, Steps, Tabs
  <1>2. ASSUME NEW step \in {"workspace", "intro", "challenge"}, OpenPage(step)
        PROVE  SignInInv'
    BY <1>2, OpenStep
  <1>3. CASE SkipInvites
    <2>1. tab' \in Tabs /\ tab'.secret = tab.secret /\ tab'.step = "done" /\ tab.step = "invite"
      BY <1>1, <1>3 DEF SkipInvites, Tabs, Steps
    <2>2. QED BY <1>3, <2>1, PageStep DEF SkipInvites
  <1>4. CASE Turn
    <2>1. PICK turn \in {<<"qr", "verify">>, <<"verify", "qr">>, <<"qr", "intro">>} :
            tab.step = turn[1] /\ tab' = [tab EXCEPT !.step = turn[2]]
      BY <1>4 DEF Turn
    <2>2. /\ tab' \in Tabs /\ tab'.secret = tab.secret /\ tab.step \in {"qr", "verify"}
          /\ tab'.step \in {"qr", "verify", "intro"}
      BY <1>1, <2>1 DEF Tabs, Steps
    <2>3. /\ UNCHANGED <<site, web, kept, accepted>> /\ excuse \subseteq excuse'
          /\ tab'.step = "intro" => "enroll" \in excuse'
      <3>1. PICK go \in {<<"qr", "verify">>, <<"verify", "qr">>, <<"qr", "intro">>} :
              /\ tab' = [tab EXCEPT !.step = go[2]]
              /\ excuse' = excuse \union (IF go[2] = "intro" THEN {"enroll"} ELSE {})
              /\ UNCHANGED <<site, web, kept, accepted>>
        BY <1>4 DEF Turn
      <3>2. tab'.step = go[2]
        BY <1>1, <3>1 DEF Tabs
      <3>3. QED BY <3>1, <3>2
    <2>4. QED BY <2>2, <2>3, PageStep
  <1>5. CASE DisableElsewhere
    BY <1>5, DisableStep
  \* A form that is sent: the page stays, and is busy.
  <1>6. ASSUME NEW w \in WebCalls, NEW op \in {"signup", "invite"}, Request(w, op, 0),
               tab' = [tab EXCEPT !.busy = TRUE], UNCHANGED <<site, kept, excuse, accepted>>
        PROVE  SignInInv'
    <2>1. tab'.step = tab.step /\ tab'.secret = tab.secret /\ tab' \in Tabs
      BY <1>1, <1>6 DEF Tabs
    <2>2. 0 \in 0..MaxFactors /\ accepted' \in BOOLEAN
      BY <1>1, <1>6, SignInAssumption
    <2>3. QED BY <1>6, <2>1, <2>2, RequestStep
  <1>7. ASSUME NEW w \in WebCalls, SubmitWorkspace(w) \/ SendInvites(w)
        PROVE  SignInInv'
    BY <1>6, <1>7 DEF SubmitWorkspace, SendInvites
  <1>8. ASSUME NEW w \in WebCalls, StartSetup(w)
        PROVE  SignInInv'
    <2>1. 0 \in 0..MaxFactors /\ accepted' \in BOOLEAN
      BY <1>1, <1>8, SignInAssumption DEF StartSetup
    <2>2. QED BY <1>1, <1>8, <2>1, RequestStep DEF StartSetup
  <1>9. ASSUME NEW w \in WebCalls, NEW code \in 0..MaxFactors, SendCode(w, code)
        PROVE  SignInInv'
    <2>1. tab'.step = tab.step /\ tab'.secret = tab.secret /\ tab' \in Tabs
      BY <1>1, <1>9 DEF SendCode, Tabs
    <2>2. accepted' \in BOOLEAN
      BY <1>9 DEF SendCode
    <2>3. QED BY <1>9, <2>1, <2>2, RequestStep DEF SendCode
  <1>10. ASSUME NEW w \in WebCalls, SubmitEnrolCode(w) \/ SubmitChallenge(w)
         PROVE  SignInInv'
    <2>1. PICK code \in {0, tab.secret} \union ({0} \union kept) : SendCode(w, code)
      BY <1>10 DEF SubmitEnrolCode, SubmitChallenge
    <2>2. code \in 0..MaxFactors
      BY <1>1, <2>1, SignInAssumption DEF Tabs
    <2>3. QED BY <1>9, <2>1, <2>2
  <1>11. ASSUME NEW w \in WebCalls, Serve(w) \/ LoseCall(w) \/ CutOff(w) \/ ReceiveAnswer(w)
         PROVE  SignInInv'
    BY <1>11, ServeStep, LoseStep, CutStep, ReceiveStep
  <1>12. CASE UNCHANGED signInVars
    BY <1>12 DEF signInVars, SignInInv, SignInTypeOK, AccountKnown, SecretShown, FactorKnown, Comparable
  <1>13. QED
    BY <1>2, <1>3, <1>4, <1>5, <1>7, <1>8, <1>10, <1>11, <1>12 DEF SignInNext

\* The invariant of the sign-in holds.
LEMMA InvHolds == SignInSpec => []SignInInv
  BY InitHolds, StepHolds, PTL DEF SignInSpec

\* The variables of the pages and of the server keep their shape, for any number
\* of calls in flight and of enrolments.
THEOREM SignInTypeCorrect == SignInSpec => []SignInTypeOK
  <1>1. SignInInv => SignInTypeOK
    BY DEF SignInInv
  <1>2. QED BY <1>1, InvHolds, PTL

\* The wizard and the enrolment of SignupWizard.tsx and MfaEnroll.tsx agree with
\* the server whenever they await no answer, but for the cases that SignInAgrees
\* names; and the secret on the page is one of an active factor, also after
\* enrolments that ran together, for any number of them.
THEOREM SignInAgreesCorrect == SignInSpec => []SignInAgrees
  <1>1. SignInInv => SignInAgrees
    <2> SUFFICES ASSUME SignInInv PROVE SignInAgrees
      OBVIOUS
    <2>1. Awaited = {} => \A w \in WebCalls : web[w].pc = "free" \/ ~web[w].mine
      BY DEF Awaited
    <2>2. Awaited = {} /\ "signup" \notin excuse /\ tab.step = "workspace" => ~site.account
      BY <2>1 DEF SignInInv, AccountKnown
    <2>3. tab.step \in {"invite", "done"} => site.account
      BY DEF SignInInv, AccountKnown
    <2>4. /\ tab.step \in {"qr", "verify"} => tab.secret # 0
          /\ tab.secret # 0 /\ "disabled" \notin excuse => tab.secret \in site.active
      BY DEF SignInInv, SecretShown
    <2>5. ASSUME Awaited = {}, Comparable
          PROVE  /\ site.active # {} => tab.secret # 0
                 /\ tab.secret # 0 => site.active = {tab.secret}
      <3>1. \A w \in WebCalls : ~(web[w].op = "enroll" /\ web[w].pc = "ok")
        BY <2>1, <2>5 DEF SignInInv, FactorKnown
      <3>2. QED BY <2>5, <3>1 DEF SignInInv, FactorKnown
    <2>6. Comparable /\ tab.step = "intro" => tab.secret = 0
      BY DEF SignInInv, FactorKnown
    <2>7. QED BY <2>2, <2>3, <2>4, <2>5, <2>6 DEF SignInAgrees, Comparable
  <1>2. QED BY <1>1, InvHolds, PTL

-----------------------------------------------------------------------------
(* Types *)

\* Parents and records are of departments and moments that there are.
LEMMA WorkplaceTypeStep ==
  HoursInv /\ WorkplaceTypeOK /\ [WorkplaceNext]_workplaceVars => WorkplaceTypeOK'
  <1> SUFFICES ASSUME HoursInv, WorkplaceTypeOK, [WorkplaceNext]_workplaceVars PROVE WorkplaceTypeOK'
    OBVIOUS
  <1>1. CASE UNCHANGED workplaceVars
    BY <1>1 DEF WorkplaceTypeOK, workplaceVars
  <1>2. CASE DepartmentRequests
    <2>1. PICK d \in Departments, p \in Departments \union {NoOne} : parent' = Put(parent, d, p)
      BY <1>2 DEF DepartmentRequests
    <2>2. DOMAIN parent' = DOMAIN parent \union {d}
      BY <2>1 DEF Put
    <2>3. QED BY <1>2, <2>2 DEF DepartmentRequests, WorkplaceTypeOK
  <1>3. CASE Tick
    BY <1>3, WorkplaceAssumption DEF Tick, WorkplaceTypeOK
  <1>4. ASSUME NEW e \in Workers, ClockIn(e), UNCHANGED <<parent, clock>> PROVE WorkplaceTypeOK'
    <2>1. PICK asked, dated, in \in Readings :
            /\ \/ record' = [record EXCEPT ![e][asked].in = in]
               \/ record' = [record EXCEPT ![e] = Put(@, dated, [in |-> in, out |-> -1, hours |-> 0])]
            /\ raced' = raced \union ({<<e, asked>>} \intersect {<<e, d>> : d \in DOMAIN record[e]})
            /\ UNCHANGED clockOut
      BY <1>4 DEF ClockIn, Day
    <2>2. asked \in Nat /\ dated \in Nat
      BY WorkplaceAssumption DEF Readings, WorkplaceTypeOK
    <2>3. DOMAIN record = Workers
      BY DEF HoursInv
    <2>4. ASSUME NEW d \in Workers PROVE DOMAIN record'[d] \subseteq DOMAIN record[d] \union {dated}
      <3>1. CASE record' = [record EXCEPT ![e][asked].in = in]
        BY <2>3, <3>1
      <3>2. CASE record' = [record EXCEPT ![e] = Put(@, dated, [in |-> in, out |-> -1, hours |-> 0])]
        BY <2>3, <3>2 DEF Put
      <3>3. QED BY <2>1, <3>1, <3>2
    <2>5. QED BY <1>4, <2>1, <2>2, <2>4 DEF WorkplaceTypeOK
  <1>5. ASSUME NEW e \in Workers, FindRecord(e), UNCHANGED <<parent, clock>> PROVE WorkplaceTypeOK'
    BY <1>5 DEF FindRecord, WorkplaceTypeOK
  <1>6. CASE WriteClockOut /\ UNCHANGED <<parent, clock>>
    <2>1. DOMAIN record = Workers
      BY DEF HoursInv
    <2>2. ASSUME NEW d \in Workers PROVE DOMAIN record'[d] = DOMAIN record[d]
      BY <1>6, <2>1 DEF WriteClockOut
    <2>3. QED BY <1>6, <2>2 DEF WriteClockOut, WorkplaceTypeOK, Out
  <1>7. QED BY <1>1, <1>2, <1>3, <1>4, <1>5, <1>6 DEF WorkplaceNext, AttendanceRequests

\* Departments, moments and dates stay within their sets: DepartmentsService, AttendanceService.
THEOREM WorkplaceTypeCorrect == WorkplaceSpec => []WorkplaceTypeOK
  <1>1. WorkplaceInit => WorkplaceTypeOK
    BY WorkplaceAssumption DEF WorkplaceInit, WorkplaceTypeOK, None, Out
  <1>2. QED BY <1>1, HoursInit, HoursStep, WorkplaceTypeStep, PTL DEF WorkplaceSpec

\* Rows, entries and figures keep their columns: seeds, JournalService, bills.
THEOREM LedgerTypeCorrect == LedgerSpec => []LedgerTypeOK
  <1> DEFINE Columns == paper = [subtotal |-> paper.subtotal, tax |-> paper.tax,
                                 wht |-> paper.wht, total |-> paper.total]
  <1>1. LedgerInit => SeedsInv /\ JournalInv /\ PaperInv /\ Columns
    <2>1. LedgerInit => JournalInv
      BY DEF LedgerInit, JournalInv, DaysAdd, Entries
    <2>2. LedgerInit => PaperInv /\ Columns
      BY DEF LedgerInit, PaperInv, Blank
    <2>3. QED BY <2>1, <2>2, SeedsInit
  <1>2. Columns /\ [LedgerNext]_ledgerVars => Columns'
    <2> SUFFICES ASSUME Columns, [LedgerNext]_ledgerVars PROVE Columns'
      OBVIOUS
    <2>1. CASE UNCHANGED paper
      BY <2>1
    <2>2. CASE Billing
      BY <2>2 DEF Billing, CreateBill, CreateInvoice, StoredFigures
    <2>3. QED BY <2>1, <2>2 DEF LedgerNext, Seeding, Posting, ledgerVars
  <1>3. SeedsInv /\ JournalInv /\ PaperInv /\ Columns => LedgerTypeOK
    BY DEF SeedsInv, JournalInv, PaperInv, LedgerTypeOK, RowKinds, Entries
  <1>4. QED BY <1>1, <1>2, <1>3, SeedsStep, JournalStep, PaperStep, PTL DEF LedgerSpec

\* The trail and the page of it have their forms: AuditMiddleware, AuditLogTable.tsx.
THEOREM AuditTypeCorrect == AuditSpec => []AuditTypeOK
  <1>1. CleanInv /\ TableInv => AuditTypeOK
    <2> SUFFICES ASSUME CleanInv, TableInv PROVE AuditTypeOK
      OBVIOUS
    <2>1. \A w \in Writes : write[w].pc \in {"idle", "called", "answered"}
      <3> TAKE w \in Writes
      <3>1. write[w] \in {NoWrite} \union Asking \union Telling
        BY DEF CleanInv
      <3>2. QED BY <3>1 DEF NoWrite, Asking, Telling
    <2>2. \A l \in Loads : load[l].pc \in {"idle", "sent", "error"}
      <3> TAKE l \in Loads
      <3>1. load[l] \in {NoLoad} \union SentLists \union FailedLists
        BY DEF TableInv
      <3>2. QED BY <3>1 DEF NoLoad, SentLists, FailedLists
    <2>3. table.view \in {"closed", "open", "broken"} /\ table.filter \in Filters \union {All}
      <3>1. table \in ListPages
        BY DEF TableInv
      <3>2. QED BY <3>1 DEF ListPages, FilterOrAll
    <2>4. QED BY <2>1, <2>2, <2>3 DEF AuditTypeOK, CleanInv, TableInv
  <1>2. QED BY <1>1, TableCorrect, PTL

\* The bucket never counts beyond what is allowed, and timers, reports and mail
\* clients have their states: MfaRateLimitGuard, ScheduledReportsService, ImapService.
THEOREM TimersTypeCorrect == TimersSpec => []TimersTypeOK
  <1> DEFINE Polls == polling \in BOOLEAN
  <1>1. TimersInit => ReportsInv /\ ClientInv /\ Polls
    <2>1. TimersInit => ClientInv
      BY DEF TimersInit, ClientInv, NeverAlone
    <2>2. TimersInit => Polls
      BY DEF TimersInit
    <2>3. QED BY <2>1, <2>2, ReportsInit
  <1>2. Polls /\ [TimersNext]_timersVars => Polls'
    BY DEF TimersNext, Guard, Reporting, Mailbox, Passing, Destroy, Connect, Connected, Ended, timersVars, imapVars
  <1>3. GuardInv /\ ReportsInv /\ ClientInv /\ Polls => TimersTypeOK
    <2> SUFFICES ASSUME GuardInv, ReportsInv, ClientInv, Polls PROVE TimersTypeOK
      OBVIOUS
    <2>1. /\ now \in Moments /\ bucket \in [count : 0..Allowed, resetAt : Int]
          /\ passed \in [Moments -> Nat] /\ refused \in BOOLEAN
      BY DEF GuardInv, GuardOK
    <2>2. \A m \in Int : 0 <= m /\ m <= now => m \in Moments
      BY <2>1, TimersAssumption DEF Moments
    <2>3. \A r \in Reports : report[r] \in Moments \union {Cancelled, Never}
      BY <2>2 DEF ReportsInv, RunsRemembered
    <2>4. report \in [Reports -> Moments \union {Cancelled, Never}]
      BY <2>3 DEF ReportsInv, RunsRemembered
    <2>5. QED BY <2>1, <2>4 DEF TimersTypeOK, ClientInv
  <1>4. QED BY <1>1, <1>2, <1>3, GuardStart, GuardStep, ReportsStep, ClientStep, PTL DEF TimersSpec

\* What a request of an inbox flags, wants and holds.
BoxInv ==
  /\ flagged \subseteq Letters /\ loose \subseteq Letters
  /\ quiet \subseteq BoxCalls /\ tangled \subseteq 1..MaxInbox
  /\ \A c \in BoxCalls : Step(c) \in {"rest", "next", "create", "flag", "move", "count"}

\* Every step keeps what requests flag, want and hold within its set.
LEMMA BoxStep == Formed /\ BoxInv /\ [InboxNext]_inboxVars => BoxInv'
  <1> SUFFICES ASSUME Formed, BoxInv, [InboxNext]_inboxVars PROVE BoxInv'
    OBVIOUS
  <1> DEFINE Pcs == {"rest", "next", "create", "flag", "move", "count"}
  <1>1. CASE UNCHANGED inboxVars
    BY <1>1 DEF BoxInv, Step, inboxVars
  <1>2. \A i \in DOMAIN inbox : i \in 1..MaxInbox
    <2>1. DOMAIN inbox = 1..Len(inbox) /\ Len(inbox) \in Nat /\ Len(inbox) <= MaxInbox
      BY DEF Formed
    <2>2. QED BY <2>1, InboxAssumption
  <1>3. ASSUME NEW c \in BoxCalls, NEW k, Goes(c, k), k.pc \in Pcs
        PROVE  \A d \in BoxCalls : request'[d].pc \in Pcs
    BY <1>3, GoesTo DEF BoxInv, Others, Step
  <1>4. \A c \in BoxCalls : Step(c) \in Syncs => request[c].todo \subseteq Letters
    BY DEF Formed
  <1>5. \A c \in BoxCalls : Step(c) \in {"create", "flag"} => request[c].letter \in Letters
    BY DEF Formed
  <1>6. ASSUME NEW c \in BoxCalls, SyncInbox(c) PROVE BoxInv'
    <2>1. PICK got \in SUBSET Unseen :
            /\ Goes(c, [pc |-> "next", todo |-> got])
            /\ loose' = loose \union (got \intersect UNION {AtHand(d) : d \in Syncing \ {c}})
      BY <1>6 DEF SyncInbox
    <2>2. loose' \subseteq Letters
      BY <2>1 DEF Unseen, BoxInv
    <2>3. \A d \in BoxCalls : request'[d].pc \in Pcs
      BY <1>3, <2>1
    <2>4. QED BY <1>6, <2>2, <2>3 DEF SyncInbox, BoxInv, Step
  <1>7. ASSUME NEW c \in BoxCalls, FindLetter(c) PROVE BoxInv'
    <2>1. \E k : Goes(c, k) /\ k.pc \in Pcs
      <3>1. CASE request[c].todo = {}
        BY <1>7, <3>1 DEF FindLetter, NoRequest
      <3>2. CASE request[c].todo # {}
        <4>1. PICK m \in request[c].todo :
                Goes(c, [pc |-> IF InInbox(m) THEN "flag" ELSE "create", todo |-> request[c].todo \ {m}, letter |-> m])
          BY <1>7, <3>2 DEF FindLetter
        <4>2. QED BY <4>1
      <3>3. QED BY <3>1, <3>2
    <2>2. \A d \in BoxCalls : request'[d].pc \in Pcs
      BY <1>3, <2>1
    <2>3. QED BY <1>7, <2>2 DEF FindLetter, BoxInv, Step
  <1>8. ASSUME NEW c \in BoxCalls, StoreLetter(c) PROVE BoxInv'
    <2>1. \A d \in BoxCalls : request'[d].pc \in Pcs
      BY <1>8 DEF StoreLetter, BoxInv, Step, Formed
    <2>2. QED BY <1>8, <2>1 DEF StoreLetter, BoxInv, Step
  <1>9. ASSUME NEW c \in BoxCalls, FlagLetter(c) PROVE BoxInv'
    <2>1. \A d \in BoxCalls : request'[d].pc \in Pcs
      BY <1>3, <1>9 DEF FlagLetter
    <2>2. flagged' \subseteq Letters
      BY <1>5, <1>9 DEF FlagLetter, BoxInv, Step
    <2>3. QED BY <1>9, <2>1, <2>2 DEF FlagLetter, BoxInv, Step
  <1>10. ASSUME NEW c \in BoxCalls, GiveUp(c) PROVE BoxInv'
    <2>1. \A d \in BoxCalls : request'[d].pc \in Pcs
      BY <1>3, <1>10 DEF GiveUp, NoRequest
    <2>2. loose' \subseteq Letters
      BY <1>5, <1>10 DEF GiveUp, BoxInv, Step
    <2>3. QED BY <1>10, <2>1, <2>2 DEF GiveUp, BoxInv, Step
  <1>11. ASSUME NEW c \in BoxCalls, NEW i \in DOMAIN inbox, NEW f \in FolderNames, FindToMove(c, i, f) PROVE BoxInv'
    <2>1. \A d \in BoxCalls : request'[d].pc \in Pcs
      BY <1>3, <1>11 DEF FindToMove
    <2>2. tangled' \subseteq 1..MaxInbox
      BY <1>2, <1>11 DEF FindToMove, BoxInv
    <2>3. QED BY <1>11, <2>1, <2>2 DEF FindToMove, BoxInv, Step
  <1>12. ASSUME NEW c \in BoxCalls, MoveToFolder(c) PROVE BoxInv'
    <2>1. \A d \in BoxCalls : request'[d].pc \in Pcs
      BY <1>3, <1>12 DEF MoveToFolder, NoRequest
    <2>2. QED BY <1>12, <2>1 DEF MoveToFolder, BoxInv, Step
  <1>13. ASSUME NEW c \in BoxCalls, StartCounts(c) PROVE BoxInv'
    <2>1. \A d \in BoxCalls : request'[d].pc \in Pcs
      BY <1>3, <1>13 DEF StartCounts
    <2>2. QED BY <1>13, <2>1 DEF StartCounts, BoxInv, Step
  <1>14. ASSUME NEW c \in BoxCalls, CountFolder(c) PROVE BoxInv'
    <2>1. \A d \in BoxCalls : request'[d].pc \in Pcs
      BY <1>14 DEF CountFolder, BoxInv, Step, Formed
    <2>2. QED BY <1>14, <2>1 DEF CountFolder, BoxInv, Step
  <1>15. ASSUME NEW c \in BoxCalls, AnswerCounts(c) PROVE BoxInv'
    <2>1. \A d \in BoxCalls : request'[d].pc \in Pcs
      BY <1>3, <1>15 DEF AnswerCounts, NoRequest
    <2>2. QED BY <1>15, <2>1 DEF AnswerCounts, BoxInv, Step
  <1>16. QED BY <1>1, <1>6, <1>7, <1>8, <1>9, <1>10, <1>11, <1>12, <1>13, <1>14, <1>15 DEF InboxNext

\* The rows, the flags and the requests of an inbox have their forms:
\* EmailInboxService, MailService.handleIncomingMessages.
THEOREM InboxTypeCorrect == InboxSpec => []InboxTypeOK
  <1>1. InboxInit => BoxInv
    BY DEF InboxInit, BoxInv, NoRequest, Step
  <1>2. InboxInit => MovedInv
    BY DEF InboxInit, MovedInv, NoRequest, Step, FolderNames
  <1>3. Formed /\ MovedInv /\ BoxInv => InboxTypeOK
    BY DEF Formed, MovedInv, BoxInv, InboxTypeOK, BoxRows, Step
  <1>4. QED BY <1>1, <1>2, <1>3, FormedStart, FormedStep, MovedStep, BoxStep, PTL DEF InboxSpec

\* The bar has its fields, and awaits tenants there are: TenantSwitcher.tsx, Topbar.tsx.
THEOREM BarTypeCorrect == BarSpec => []BarTypeOK
  <1>1. BarInv => BarTypeOK
    BY DEF BarInv
  <1>2. QED BY <1>1, BarStart, BarStep, PTL DEF BarSpec
=============================================================================
