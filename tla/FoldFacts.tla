------------------------------ MODULE FoldFacts ------------------------------
(***************************************************************************)
(* What the proofs need to know of the folds of the community modules.     *)
(***************************************************************************)
EXTENDS Selection, Integers, FiniteSetTheorems, SequenceTheorems, WellFoundedInduction, TLAPS

\* Induction over the subsets of a finite set, for a set of subsets: there is
\* no smallest subset that is not in T.
LEMMA SubsetInduction ==
    ASSUME NEW S, IsFiniteSet(S), NEW T,
           \A A \in SUBSET S : (\A B \in SUBSET S : B \subseteq A /\ B # A => B \in T) => A \in T
    PROVE  SUBSET S \subseteq T
<1> DEFINE Order == StrictSubsetOrdering(S)
           Others == (SUBSET S) \ T
<1>1. IsWellFoundedOn(Order, SUBSET S)
  BY FS_StrictSubsetOrderingWellFounded, FS_FiniteSubsetsOfFinite
<1>2. SUFFICES ASSUME Others # {} PROVE FALSE
  OBVIOUS
<1> HIDE DEF Order
<1>3. PICK A \in Others : \A B \in Others : ~ (<<B, A>> \in Order)
  <2>1. Others \subseteq SUBSET S
    OBVIOUS
  <2> HIDE DEF Others
  <2> QED BY <1>1, <1>2, <2>1, WFMin
<1>4. \A B \in SUBSET S : B \subseteq A /\ B # A => B \in T
  <2> SUFFICES ASSUME NEW B \in SUBSET S, B \subseteq A, B # A PROVE B \in T
    OBVIOUS
  <2>1. <<B, A>> \in Order
    BY DEF Order, StrictSubsetOrdering
  <2> QED BY <1>3, <2>1
<1> QED BY <1>3, <1>4

\* Induction over the natural numbers, for a set of them.
LEMMA NatSetInduction ==
    ASSUME NEW T, 0 \in T, \A n \in Nat : n \in T => n + 1 \in T
    PROVE  Nat \subseteq T
<1> DEFINE Order == OpToRel(<, Nat)
           Others == Nat \ T
<1>1. IsWellFoundedOn(Order, Nat)
  BY NatLessThanWellFounded
<1>2. SUFFICES ASSUME Others # {} PROVE FALSE
  OBVIOUS
<1>o. \A x, y \in Nat : x < y => <<x, y>> \in Order
  BY DEF OpToRel
<1> HIDE DEF Order
<1>3. PICK n \in Others : \A m \in Others : ~ (<<m, n>> \in Order)
  <2>1. Others \subseteq Nat
    OBVIOUS
  <2> HIDE DEF Others
  <2> QED BY <1>1, <1>2, <2>1, WFMin
<1>4. n # 0 /\ n \in Nat
  BY <1>3
<1>5. n - 1 \in Nat /\ n - 1 < n /\ (n - 1) + 1 = n
  BY <1>4
<1>6. n - 1 \in T
  BY <1>3, <1>4, <1>5, <1>o
<1> QED BY <1>3, <1>4, <1>5, <1>6
-----------------------------------------------------------------------------
(* Folds.  A fold is a function of the subsets of S: base on the empty set, *)
(* and step of the element that is taken out and of what the rest gives.   *)

\* fold is the function that takes pick[A] out of A.
Folds(fold, S, pick, step, base) ==
    fold = [A \in SUBSET S |->
              IF A = {} THEN base ELSE step[<<pick[A], fold[A \ {pick[A]}]>>]]

Picks(pick, S) == \A A \in (SUBSET S) \ {{}} : pick[A] \in A

\* There is such a function, and its values are of the type step keeps to: the
\* functions that are right about the sets of up to n elements, for every n.
LEMMA FoldExists ==
    ASSUME NEW S, IsFiniteSet(S), NEW State, NEW base \in State,
           NEW step \in [S \X State -> State], NEW pick, Picks(pick, S)
    PROVE  \E fold \in [SUBSET S -> State] : Folds(fold, S, pick, step, base)
<1> DEFINE Value(fold, A) == IF A = {} THEN base ELSE step[<<pick[A], fold[A \ {pick[A]}]>>]
           Right(fold, n) == \A A \in SUBSET S : Cardinality(A) <= n => fold[A] = Value(fold, A)
           T == {n \in Nat : \E fold \in [SUBSET S -> State] : Right(fold, n)}
<1>1. \A A \in SUBSET S : Cardinality(A) \in Nat /\ (Cardinality(A) = 0 <=> A = {})
  BY FS_Subset, FS_CardinalityType, FS_EmptySet
<1>2. \A A \in SUBSET S : A # {} =>
         /\ pick[A] \in S /\ A \ {pick[A]} \in SUBSET S
         /\ Cardinality(A \ {pick[A]}) = Cardinality(A) - 1
  BY FS_Subset, FS_RemoveElement DEF Picks
<1>3. \A fold \in [SUBSET S -> State], A \in SUBSET S : Value(fold, A) \in State
  BY <1>2
<1>4. 0 \in T
  <2>1. [A \in SUBSET S |-> base] \in [SUBSET S -> State]
    OBVIOUS
  <2>2. Right([A \in SUBSET S |-> base], 0)
    BY <1>1
  <2> QED BY <2>1, <2>2
<1>5. ASSUME NEW n \in Nat, n \in T PROVE n + 1 \in T
  <2>1. PICK fold \in [SUBSET S -> State] : Right(fold, n)
    BY <1>5
  <2> DEFINE next == [A \in SUBSET S |-> Value(fold, A)]
  <2>2. next \in [SUBSET S -> State]
    BY <1>3
  <2>3. ASSUME NEW A \in SUBSET S, Cardinality(A) <= n + 1 PROVE next[A] = Value(next, A)
    <3>1. CASE A = {}
      BY <3>1
    <3>2. CASE A # {}
      <4>1. /\ A \ {pick[A]} \in SUBSET S
            /\ Cardinality(A \ {pick[A]}) <= n
        BY <1>1, <1>2, <2>3, <3>2
      <4>2. next[A \ {pick[A]}] = fold[A \ {pick[A]}]
        BY <2>1, <4>1
      <4> QED BY <3>2, <4>2
    <3> QED BY <3>1, <3>2
  <2>4. Right(next, n + 1)
    BY <2>3
  <2> HIDE DEF next, Right
  <2> QED BY <2>2, <2>4
<1>6. Nat \subseteq T
  <2> HIDE DEF T
  <2> QED BY <1>4, <1>5, NatSetInduction
<1>7. Cardinality(S) \in T
  BY <1>6, FS_CardinalityType
<1>8. PICK fold \in [SUBSET S -> State] : Right(fold, Cardinality(S))
  BY <1>7
<1>9. \A A \in SUBSET S : fold[A] = Value(fold, A)
  <2>1. \A A \in SUBSET S : Cardinality(A) <= Cardinality(S)
    BY FS_Subset
  <2> QED BY <1>8, <2>1
<1>10. fold = [A \in SUBSET S |-> Value(fold, A)]
  BY <1>9
<1>11. Folds(fold, S, pick, step, base)
  BY <1>10 DEF Folds
<1> QED BY <1>11
-----------------------------------------------------------------------------
(* Sums                                                                    *)

Chosen(A) == CHOOSE x \in A : TRUE

Sums(sum, f, S) ==
    sum = [A \in SUBSET S |-> IF A = {} THEN 0 ELSE f[Chosen(A)] + sum[A \ {Chosen(A)}]]

LEMMA SumTyped ==
    ASSUME NEW S, IsFiniteSet(S), NEW f, \A s \in S : f[s] \in Int,
           NEW sum, Sums(sum, f, S)
    PROVE  sum \in [SUBSET S -> Int]
<1> DEFINE T == {A \in SUBSET S : sum[A] \in Int}
<1>1. ASSUME NEW A \in SUBSET S, \A B \in SUBSET S : B \subseteq A /\ B # A => B \in T
      PROVE  A \in T
  <2>1. CASE A = {}
    BY <2>1 DEF Sums
  <2>2. CASE A # {}
    <3>1. Chosen(A) \in A
      BY <2>2 DEF Chosen
    <3>2. sum[A \ {Chosen(A)}] \in Int
      BY <1>1, <3>1
    <3>3. sum[A] = f[Chosen(A)] + sum[A \ {Chosen(A)}]
      BY <2>2 DEF Sums
    <3> QED BY <3>1, <3>2, <3>3
  <2> QED BY <2>1, <2>2
<1>2. SUBSET S \subseteq T
  <2> HIDE DEF T
  <2> QED BY <1>1, SubsetInduction
<1>3. \A A \in SUBSET S : sum[A] \in Int
  BY <1>2
<1> QED BY <1>3 DEF Sums

LEMMA SumExists ==
    ASSUME NEW S, IsFiniteSet(S), NEW f, \A s \in S : f[s] \in Int
    PROVE  /\ \A sum : Sums(sum, f, S) => sum \in [SUBSET S -> Int]
           /\ \E sum : Sums(sum, f, S) /\ SumFunctionOnSet(f, S) = sum[S]
<1> DEFINE pick == [A \in SUBSET S |-> Chosen(A)]
           step == [p \in S \X Int |-> f[p[1]] + p[2]]
<1>1. \A A \in SUBSET S : A # {} => Chosen(A) \in A
  BY DEF Chosen
<1>2. PICK fold \in [SUBSET S -> Int] : Folds(fold, S, pick, step, 0)
  <2>1. Picks(pick, S)
    BY <1>1 DEF Picks
  <2>2. step \in [S \X Int -> Int]
    OBVIOUS
  <2>3. 0 \in Int
    OBVIOUS
  <2> HIDE DEF pick, step
  <2> QED BY <2>1, <2>2, <2>3, FoldExists
<1>3. ASSUME NEW A \in SUBSET S, A # {}
      PROVE  fold[A] = f[Chosen(A)] + fold[A \ {Chosen(A)}]
  <2>1. Chosen(A) \in S /\ A \ {Chosen(A)} \in SUBSET S /\ pick[A] = Chosen(A)
    BY <1>1, <1>3
  <2>2. fold[A \ {Chosen(A)}] \in Int
    BY <2>1
  <2>3. fold[A] = step[<<Chosen(A), fold[A \ {Chosen(A)}]>>]
    BY <1>2, <1>3, <2>1 DEF Folds
  <2> QED BY <2>1, <2>2, <2>3
<1>4. Sums(fold, f, S)
  <2>1. fold[{}] = 0
    BY <1>2 DEF Folds
  <2> QED BY <1>3, <2>1 DEF Sums
<1>5. \E sum : Sums(sum, f, S) /\ SumFunctionOnSet(f, S) = sum[S]
  <2> DEFINE chosen == CHOOSE sum : Sums(sum, f, S)
  <2>1. Sums(chosen, f, S)
    BY <1>4
  <2>2. SumFunctionOnSet(f, S) = chosen[S]
    BY DEF SumFunctionOnSet, FoldFunctionOnSet, MapThenFoldSet, Sums, Chosen
  <2> QED BY <2>1, <2>2
<1> QED BY <1>5, SumTyped

LEMMA TotalType ==
    ASSUME NEW S, IsFiniteSet(S), NEW f, \A s \in S : f[s] \in Int
    PROVE  SumFunctionOnSet(f, S) \in Int
<1>1. PICK sum : Sums(sum, f, S) /\ SumFunctionOnSet(f, S) = sum[S]
  BY SumExists
<1>2. sum \in [SUBSET S -> Int]
  BY <1>1, SumExists
<1> QED BY <1>1, <1>2

\* One summand changes, and the sum by as much.
LEMMA TotalChanges ==
    ASSUME NEW S, IsFiniteSet(S), NEW k \in S,
           NEW f, \A s \in S : f[s] \in Int,
           NEW g, \A s \in S : g[s] \in Int, \A s \in S \ {k} : g[s] = f[s]
    PROVE  SumFunctionOnSet(g, S) = SumFunctionOnSet(f, S) + g[k] - f[k]
<1>1. PICK sum : Sums(sum, f, S) /\ SumFunctionOnSet(f, S) = sum[S] /\ sum \in [SUBSET S -> Int]
  BY SumExists
<1>2. PICK tot : Sums(tot, g, S) /\ SumFunctionOnSet(g, S) = tot[S] /\ tot \in [SUBSET S -> Int]
  BY SumExists
<1> DEFINE Apart(A) == IF k \in A THEN g[k] - f[k] ELSE 0
           T == {A \in SUBSET S : tot[A] = sum[A] + Apart(A)}
<1>3. ASSUME NEW A \in SUBSET S, \A B \in SUBSET S : B \subseteq A /\ B # A => B \in T
      PROVE  A \in T
  <2>1. CASE A = {}
    BY <1>1, <1>2, <2>1 DEF Sums
  <2>2. CASE A # {}
    <3> DEFINE x == Chosen(A)
               R == A \ {x}
    <3>1. x \in A
      BY <2>2 DEF Chosen
    <3>2. sum[A] = f[x] + sum[R] /\ tot[A] = g[x] + tot[R]
      BY <1>1, <1>2, <2>2 DEF Sums
    <3> HIDE DEF x
    <3>3. R \in SUBSET S /\ tot[R] = sum[R] + Apart(R)
      BY <1>3, <3>1
    <3>4. f[x] \in Int /\ g[x] \in Int /\ sum[R] \in Int /\ f[k] \in Int /\ g[k] \in Int
      BY <1>1, <3>1, <3>3
    <3>5. CASE x = k
      <4>1. Apart(A) = g[k] - f[k] /\ Apart(R) = 0
        BY <3>1, <3>5
      <4>2. tot[A] = sum[A] + Apart(A)
        BY <3>2, <3>3, <3>4, <3>5, <4>1
      <4> QED BY <4>2
    <3>6. CASE x # k
      <4>1. Apart(A) = Apart(R) /\ g[x] = f[x]
        BY <3>1, <3>6
      <4>2. Apart(R) \in Int
        BY <3>4
      <4>3. tot[A] = sum[A] + Apart(A)
        BY <3>2, <3>3, <3>4, <4>1, <4>2
      <4> QED BY <4>3
    <3> QED BY <3>5, <3>6
  <2> QED BY <2>1, <2>2
<1>4. S \in T
  <2> HIDE DEF T
  <2>1. SUBSET S \subseteq T
    BY <1>3, SubsetInduction
  <2> QED BY <2>1
<1>5. /\ SumFunctionOnSet(g, S) = SumFunctionOnSet(f, S) + (g[k] - f[k])
      /\ SumFunctionOnSet(f, S) \in Int /\ f[k] \in Int /\ g[k] \in Int
  BY <1>1, <1>2, <1>4
<1> QED BY <1>5

\* Nothing sums to nothing.
LEMMA TotalOfZeroes ==
    ASSUME NEW S, IsFiniteSet(S), NEW f, \A s \in S : f[s] = 0
    PROVE  SumFunctionOnSet(f, S) = 0
<1>0. \A s \in S : f[s] \in Int
  OBVIOUS
<1>1. PICK sum : Sums(sum, f, S) /\ SumFunctionOnSet(f, S) = sum[S]
  BY <1>0, SumExists
<1> DEFINE T == {A \in SUBSET S : sum[A] = 0}
<1>2. ASSUME NEW A \in SUBSET S, \A B \in SUBSET S : B \subseteq A /\ B # A => B \in T
      PROVE  A \in T
  <2>1. CASE A = {}
    BY <1>1, <2>1 DEF Sums
  <2>2. CASE A # {}
    <3>1. Chosen(A) \in A /\ sum[A] = f[Chosen(A)] + sum[A \ {Chosen(A)}]
      BY <1>1, <2>2 DEF Sums, Chosen
    <3>2. sum[A \ {Chosen(A)}] = 0
      BY <1>2, <3>1
    <3> QED BY <3>1, <3>2
  <2> QED BY <2>1, <2>2
<1> HIDE DEF T
<1>3. SUBSET S \subseteq T
  BY <1>2, SubsetInduction
<1> QED BY <1>1, <1>3 DEF T
-----------------------------------------------------------------------------
(* Folds from the left                                                     *)

LEMMA LastOfInterval ==
    /\ \A n \in Nat : \A A \in SUBSET (1 .. n) : A # {} => Max(A) \in A
    /\ \A n \in Nat : Max(1 .. n + 1) = n + 1 /\ (1 .. n + 1) \ {n + 1} = 1 .. n
<1>1. ASSUME NEW n \in Nat, NEW A \in SUBSET (1 .. n), A # {} PROVE Max(A) \in A
  <2> DEFINE T == {m \in Nat : \A B \in SUBSET (1 .. m) : B # {} => \E x \in B : \A y \in B : x >= y}
  <2>1. 0 \in T
    <3>1. 1 .. 0 = {}
      OBVIOUS
    <3> QED BY <3>1
  <2>2. ASSUME NEW m \in Nat, m \in T PROVE m + 1 \in T
    <3> SUFFICES ASSUME NEW B \in SUBSET (1 .. m + 1), B # {}
                 PROVE  \E x \in B : \A y \in B : x >= y
      OBVIOUS
    <3>1. CASE m + 1 \in B
      BY <3>1
    <3>2. CASE m + 1 \notin B
      <4>1. B \in SUBSET (1 .. m)
        BY <3>2
      <4> QED BY <2>2, <4>1
    <3> QED BY <3>1, <3>2
  <2>3. n \in T
    <3> HIDE DEF T
    <3>1. Nat \subseteq T
      BY <2>1, <2>2, NatSetInduction
    <3> QED BY <3>1
  <2>4. \E x \in A : \A y \in A : x >= y
    BY <1>1, <2>3
  <2> QED BY <2>4 DEF Max
<1>2. ASSUME NEW n \in Nat PROVE Max(1 .. n + 1) = n + 1
  <2>1. Max(1 .. n + 1) \in 1 .. n + 1
    <3>1. n + 1 \in Nat /\ 1 .. n + 1 # {} /\ 1 .. n + 1 \in SUBSET (1 .. n + 1)
      OBVIOUS
    <3> QED BY <1>1, <3>1, Zenon
  <2>2. \A y \in 1 .. n + 1 : Max(1 .. n + 1) >= y
    <3>1. n + 1 \in 1 .. n + 1 /\ \A y \in 1 .. n + 1 : n + 1 >= y
      OBVIOUS
    <3> QED BY <3>1 DEF Max
  <2> QED BY <2>1, <2>2
<1>3. ASSUME NEW n \in Nat PROVE (1 .. n + 1) \ {n + 1} = 1 .. n
  OBVIOUS
<1> QED BY <1>1, <1>2, <1>3, Zenon

\* The last element of a prefix, and the prefix before it.
LEMMA PrefixFacts ==
    ASSUME NEW n \in Nat, NEW k \in 1 .. n
    PROVE  /\ 1 .. k \in SUBSET (1 .. n) /\ 1 .. k # {} /\ k - 1 \in 0 .. n /\ k \in 0 .. n
           /\ Max(1 .. k) = k /\ (1 .. k) \ {k} = 1 .. (k - 1)
<1>1. k - 1 \in Nat /\ (k - 1) + 1 = k
  OBVIOUS
<1>2. Max(1 .. k) = k /\ (1 .. k) \ {k} = 1 .. (k - 1)
  BY <1>1, LastOfInterval
<1>3. 1 .. k # {}
  OBVIOUS
<1>4. \A i \in 1 .. k : i \in 1 .. n
  OBVIOUS
<1> QED BY <1>1, <1>2, <1>3, <1>4

\* The function of the subsets of 1 .. n that takes out the largest first.
LeftFolds(fold, n, State, step, base) ==
    /\ fold \in [SUBSET (1 .. n) -> State]
    /\ fold[{}] = base
    /\ \A A \in SUBSET (1 .. n) : A # {} =>
          /\ Max(A) \in A
          /\ fold[A \ {Max(A)}] \in State
          /\ fold[A] = step[<<Max(A), fold[A \ {Max(A)}]>>]

LEMMA LeftFoldExists ==
    ASSUME NEW n \in Nat, NEW State, NEW base \in State,
           NEW step \in [(1 .. n) \X State -> State]
    PROVE  \E fold : LeftFolds(fold, n, State, step, base)
<1> DEFINE pick == [A \in SUBSET (1 .. n) |-> Max(A)]
<1>1. \A A \in SUBSET (1 .. n) : A # {} => Max(A) \in A
  BY LastOfInterval
<1>2. Picks(pick, 1 .. n)
  BY <1>1 DEF Picks
<1>3. IsFiniteSet(1 .. n)
  BY FS_Interval
<1>4. PICK fold \in [SUBSET (1 .. n) -> State] : Folds(fold, 1 .. n, pick, step, base)
  <2> HIDE DEF pick
  <2> QED BY <1>2, <1>3, FoldExists
<1>5. fold[{}] = base
  BY <1>4 DEF Folds
<1>6. ASSUME NEW A \in SUBSET (1 .. n), A # {}
      PROVE  /\ fold[A \ {Max(A)}] \in State
             /\ fold[A] = step[<<Max(A), fold[A \ {Max(A)}]>>]
  BY <1>4, <1>6 DEF Folds
<1> QED BY <1>1, <1>5, <1>6 DEF LeftFolds
\* What the prefixes are folded to, one element after the other.
LEMMA StepsTyped ==
    ASSUME NEW n \in Nat, NEW State, NEW acc, DOMAIN acc = 0 .. n, acc = [k \in 0 .. n |-> acc[k]],
           acc[0] \in State,
           \A k \in 1 .. n : acc[k - 1] \in State => acc[k] \in State
    PROVE  acc \in [0 .. n -> State]
<1> DEFINE T == {k \in Nat : k <= n => acc[k] \in State}
<1>1. 0 \in T
  OBVIOUS
<1>2. ASSUME NEW k \in Nat, k \in T PROVE k + 1 \in T
  <2> SUFFICES ASSUME k + 1 <= n PROVE acc[k + 1] \in State
    OBVIOUS
  <2>1. acc[k] \in State /\ k + 1 \in 1 .. n /\ (k + 1) - 1 = k
    BY <1>2
  <2> QED BY <2>1
<1>3. Nat \subseteq T
  <2> HIDE DEF T
  <2> QED BY <1>1, <1>2, NatSetInduction
<1>4. \A k \in 0 .. n : acc[k] \in State
  BY <1>3
<1> QED BY <1>4

LEMMA SameSteps ==
    ASSUME NEW n \in Nat, NEW f, NEW g, f[0] = g[0],
           \A k \in 1 .. n : f[k - 1] = g[k - 1] => f[k] = g[k]
    PROVE  f[n] = g[n]
<1> DEFINE T == {k \in Nat : k <= n => f[k] = g[k]}
<1>1. 0 \in T
  OBVIOUS
<1>2. ASSUME NEW k \in Nat, k \in T PROVE k + 1 \in T
  <2> SUFFICES ASSUME k + 1 <= n PROVE f[k + 1] = g[k + 1]
    OBVIOUS
  <2>1. f[k] = g[k] /\ k + 1 \in 1 .. n /\ (k + 1) - 1 = k
    BY <1>2
  <2> QED BY <2>1
<1>3. Nat \subseteq T
  <2> HIDE DEF T
  <2> QED BY <1>1, <1>2, NatSetInduction
<1> QED BY <1>3

-----------------------------------------------------------------------------
(* Folds over a sequence                                                   *)

\* acc is what each prefix of s is folded to, when step takes in one element.
FoldsOver(acc, s, State, step, base) ==
    /\ acc \in [0 .. Len(s) -> State]
    /\ acc[0] = base
    /\ \A k \in 1 .. Len(s) : acc[k] = step[<<acc[k - 1], s[k]>>]

FoldsTo(v, s, State, step, base) ==
    \E acc : FoldsOver(acc, s, State, step, base) /\ v = acc[Len(s)]

\* The function that FoldLeft chooses exists.
SetFold(fold, s, S, State, step, base) ==
    /\ fold \in [SUBSET DOMAIN s -> State]
    /\ fold[{}] = base
    /\ \A A \in SUBSET DOMAIN s : A # {} =>
          /\ fold[A \ {Max(A)}] \in State /\ s[Max(A)] \in S
          /\ fold[A] = step[<<fold[A \ {Max(A)}], s[Max(A)]>>]

LEMMA SeqFoldExists ==
    ASSUME NEW S, NEW s \in Seq(S), NEW State, NEW base \in State,
           NEW step \in [State \X S -> State]
    PROVE  \E fold : SetFold(fold, s, S, State, step, base)
<1> DEFINE n == Len(s)
           indexed == [p \in (1 .. n) \X State |-> step[<<p[2], s[p[1]]>>]]
<1>1. n \in Nat /\ DOMAIN s = 1 .. n /\ \A k \in 1 .. n : s[k] \in S
  BY LenProperties, ElementOfSeq
<1>2. indexed \in [(1 .. n) \X State -> State]
  BY <1>1
<1>3. PICK fold : LeftFolds(fold, n, State, indexed, base)
  <2> HIDE DEF indexed, n
  <2> QED BY <1>1, <1>2, LeftFoldExists
<1>4. ASSUME NEW A \in SUBSET (1 .. n), A # {}
      PROVE  /\ fold[A \ {Max(A)}] \in State /\ s[Max(A)] \in S
             /\ fold[A] = step[<<fold[A \ {Max(A)}], s[Max(A)]>>]
  <2>1. /\ Max(A) \in 1 .. n /\ fold[A \ {Max(A)}] \in State
        /\ fold[A] = indexed[<<Max(A), fold[A \ {Max(A)}]>>]
    BY <1>3, <1>4 DEF LeftFolds
  <2> QED BY <1>1, <2>1
<1>5. fold \in [SUBSET DOMAIN s -> State] /\ fold[{}] = base
  BY <1>1, <1>3 DEF LeftFolds
<1>6. SetFold(fold, s, S, State, step, base)
  BY <1>1, <1>4, <1>5 DEF SetFold
<1> QED BY <1>6

\* A function that takes such a step wherever its value before it is typed.
StepsOnSets(fold, s, State, step, base) ==
    /\ fold[{}] = base
    /\ \A A \in SUBSET DOMAIN s : A # {} /\ fold[A \ {Max(A)}] \in State
          => fold[A] = step[<<fold[A \ {Max(A)}], s[Max(A)]>>]

\* Such a function folds one element after the other.
LEMMA PrefixesFold ==
    ASSUME NEW S, NEW s \in Seq(S), NEW State, NEW base \in State,
           NEW step \in [State \X S -> State],
           NEW fold, StepsOnSets(fold, s, State, step, base)
    PROVE  FoldsTo(fold[DOMAIN s], s, State, step, base)
<1> DEFINE n == Len(s)
           acc == [k \in 0 .. n |-> fold[1 .. k]]
<1>1. n \in Nat /\ DOMAIN s = 1 .. n /\ \A k \in 1 .. n : s[k] \in S
  BY LenProperties, ElementOfSeq
<1>2. acc[0] = base
  <2>1. 1 .. 0 = {} /\ 0 \in 0 .. n
    BY <1>1
  <2> QED BY <2>1 DEF StepsOnSets
<1>3. ASSUME NEW k \in 1 .. n, acc[k - 1] \in State
      PROVE  acc[k] = step[<<acc[k - 1], s[k]>>]
  <2>1. /\ 1 .. k \in SUBSET (1 .. n) /\ 1 .. k # {} /\ k - 1 \in 0 .. n /\ k \in 0 .. n
        /\ Max(1 .. k) = k /\ (1 .. k) \ {k} = 1 .. (k - 1)
    BY <1>1, PrefixFacts
  <2>2. acc[k] = fold[1 .. k] /\ acc[k - 1] = fold[1 .. (k - 1)]
    BY <2>1
  <2> HIDE DEF acc, n
  <2> QED BY <1>1, <1>3, <2>1, <2>2 DEF StepsOnSets
<1>4. acc[n] = fold[1 .. n] /\ DOMAIN acc = 0 .. n /\ acc = [k \in 0 .. n |-> acc[k]]
  BY <1>1
<1> HIDE DEF acc
<1>5. \A k \in 1 .. n : acc[k - 1] \in State => acc[k] \in State
  BY <1>1, <1>3
<1>6. acc \in [0 .. n -> State]
  <2> HIDE DEF n
  <2> QED BY <1>1, <1>2, <1>4, <1>5, StepsTyped
<1>7. \A k \in 1 .. n : acc[k] = step[<<acc[k - 1], s[k]>>]
  <2> SUFFICES ASSUME NEW k \in 1 .. n PROVE acc[k] = step[<<acc[k - 1], s[k]>>]
    OBVIOUS
  <2>1. k - 1 \in 0 .. n
    BY <1>1
  <2> QED BY <1>3, <1>6, <2>1
<1> QED BY <1>1, <1>2, <1>4, <1>6, <1>7 DEF FoldsOver, FoldsTo

\* One element more is taken in last.
OneLonger(t, s, x, S) ==
    /\ s \in Seq(S) /\ x \in S /\ t \in Seq(S)
    /\ Len(t) = Len(s) + 1 /\ t[Len(s) + 1] = x /\ \A k \in 1 .. Len(s) : t[k] = s[k]

StepOn(step, S, State, base) == base \in State /\ step \in [State \X S -> State]

LEMMA FoldsAppend ==
    ASSUME NEW S, NEW s, NEW x, NEW t, OneLonger(t, s, x, S),
           NEW State, NEW base, NEW step, StepOn(step, S, State, base),
           NEW v, FoldsTo(v, s, State, step, base),
           NEW w, FoldsTo(w, t, State, step, base)
    PROVE  v \in State /\ w = step[<<v, x>>]
<1>o. /\ s \in Seq(S) /\ x \in S /\ t \in Seq(S)
      /\ Len(t) = Len(s) + 1 /\ t[Len(s) + 1] = x /\ \A k \in 1 .. Len(s) : t[k] = s[k]
      /\ base \in State /\ step \in [State \X S -> State]
  BY DEF OneLonger, StepOn
<1>f. PICK f : FoldsOver(f, s, State, step, base) /\ v = f[Len(s)]
  BY DEF FoldsTo
<1>g. PICK g : FoldsOver(g, t, State, step, base) /\ w = g[Len(t)]
  BY DEF FoldsTo
<1> DEFINE n == Len(s)
<1>1. /\ Len(t) = n + 1 /\ t[n + 1] = x /\ n \in Nat
      /\ \A k \in 1 .. n : t[k] = s[k]
  BY <1>o, LenProperties
<1>2. f[0] = g[0]
  BY <1>f, <1>g DEF FoldsOver
<1>3. ASSUME NEW k \in 1 .. n, f[k - 1] = g[k - 1] PROVE f[k] = g[k]
  <2>1. k \in 1 .. Len(t) /\ t[k] = s[k]
    BY <1>1
  <2>2. f[k] = step[<<f[k - 1], s[k]>>] /\ g[k] = step[<<g[k - 1], t[k]>>]
    BY <1>f, <1>g, <2>1 DEF FoldsOver
  <2> QED BY <1>3, <2>1, <2>2
<1>4. f[n] = g[n]
  <2> HIDE DEF n
  <2> QED BY <1>1, <1>2, <1>3, SameSteps
<1>5. n + 1 \in 1 .. Len(t) /\ (n + 1) - 1 = n
  BY <1>1
<1>6. g[n + 1] = step[<<g[n], x>>]
  BY <1>g, <1>1, <1>5 DEF FoldsOver
<1>7. f[n] \in State
  BY <1>f, <1>1 DEF FoldsOver
<1> QED BY <1>f, <1>g, <1>1, <1>4, <1>6, <1>7

LEMMA FoldsNothing ==
    ASSUME NEW State, NEW base, NEW step, NEW v, FoldsTo(v, <<>>, State, step, base)
    PROVE  v = base
<1>1. Len(<<>>) = 0
  OBVIOUS
<1> QED BY <1>1 DEF FoldsTo, FoldsOver

\* No summand grows, and the sum does not.
LEMMA TotalMonotone ==
    ASSUME NEW S, IsFiniteSet(S), NEW f, \A s \in S : f[s] \in Int,
           NEW g, \A s \in S : g[s] \in Int, \A s \in S : g[s] <= f[s]
    PROVE  SumFunctionOnSet(g, S) <= SumFunctionOnSet(f, S)
<1>1. PICK sum : Sums(sum, f, S) /\ SumFunctionOnSet(f, S) = sum[S] /\ sum \in [SUBSET S -> Int]
  BY SumExists
<1>2. PICK tot : Sums(tot, g, S) /\ SumFunctionOnSet(g, S) = tot[S] /\ tot \in [SUBSET S -> Int]
  BY SumExists
<1> DEFINE T == {A \in SUBSET S : tot[A] <= sum[A]}
<1>3. ASSUME NEW A \in SUBSET S, \A B \in SUBSET S : B \subseteq A /\ B # A => B \in T
      PROVE  A \in T
  <2>1. CASE A = {}
    BY <1>1, <1>2, <2>1 DEF Sums
  <2>2. CASE A # {}
    <3> DEFINE x == Chosen(A)
               R == A \ {x}
    <3>1. x \in A
      BY <2>2 DEF Chosen
    <3>2. sum[A] = f[x] + sum[R] /\ tot[A] = g[x] + tot[R]
      BY <1>1, <1>2, <2>2 DEF Sums
    <3> HIDE DEF x
    <3>3. R \in SUBSET S /\ tot[R] <= sum[R]
      BY <1>3, <3>1
    <3>4. f[x] \in Int /\ g[x] \in Int /\ sum[R] \in Int /\ tot[R] \in Int /\ g[x] <= f[x]
      BY <1>1, <1>2, <3>1, <3>3
    <3>5. tot[A] <= sum[A]
      BY <3>2, <3>3, <3>4
    <3> QED BY <3>5
  <2> QED BY <2>1, <2>2
<1> HIDE DEF T
<1>4. SUBSET S \subseteq T
  BY <1>3, SubsetInduction
<1> QED BY <1>1, <1>2, <1>4 DEF T

-----------------------------------------------------------------------------
(* Only                                                                    *)

\* acc is what each prefix of s leaves.
OnlyRun(acc, S, s, wanted) ==
    /\ acc \in [0 .. Len(s) -> Seq(S)]
    /\ acc[0] = <<>>
    /\ \A k \in 1 .. Len(s) :
         acc[k] = IF s[k] \in wanted THEN Append(acc[k - 1], s[k]) ELSE acc[k - 1]
    /\ Only(s, wanted) = acc[Len(s)]

LEMMA OnlySteps ==
    ASSUME NEW S, NEW s \in Seq(S), NEW wanted
    PROVE  \E acc : OnlyRun(acc, S, s, wanted)
<1> DEFINE n == Len(s)
           Op(v, x) == IF x \in wanted THEN Append(v, x) ELSE v
           step == [p \in (1 .. n) \X Seq(S) |-> Op(p[2], s[p[1]])]
           Right(fold) ==
             fold = [A \in SUBSET (DOMAIN s) |->
                       IF A = {} THEN <<>> ELSE Op(fold[A \ {Max(A)}], s[Max(A)])]
           chosen == CHOOSE fold : Right(fold)
<1>1. n \in Nat /\ DOMAIN s = 1 .. n /\ \A k \in 1 .. n : s[k] \in S
  BY LenProperties, ElementOfSeq
<1>2. PICK fold : LeftFolds(fold, n, Seq(S), step, <<>>)
  <2>1. step \in [(1 .. n) \X Seq(S) -> Seq(S)]
    BY <1>1, AppendProperties
  <2>2. <<>> \in Seq(S)
    OBVIOUS
  <2>3. n \in Nat
    BY <1>1
  <2> HIDE DEF step, n
  <2> QED BY <2>1, <2>2, <2>3, LeftFoldExists
<1>3. Right(fold)
  <2>1. ASSUME NEW A \in SUBSET (1 .. n), A # {}
        PROVE  fold[A] = Op(fold[A \ {Max(A)}], s[Max(A)])
    BY <1>2, <2>1 DEF LeftFolds
  <2> QED BY <1>1, <1>2, <2>1 DEF LeftFolds
<1>4. Right(chosen) /\ Only(s, wanted) = chosen[1 .. n]
  <2>1. Right(chosen)
    BY <1>3
  <2>2. Only(s, wanted) = chosen[DOMAIN s]
    BY DEF Only, FoldLeft, MapThenFoldSet
  <2> QED BY <1>1, <2>1, <2>2
<1> DEFINE acc == [k \in 0 .. n |-> chosen[1 .. k]]
<1>5. acc[0] = <<>>
  <2>1. 1 .. 0 = {}
    OBVIOUS
  <2> HIDE DEF chosen
  <2> QED BY <1>1, <1>4, <2>1
<1>6. ASSUME NEW k \in 1 .. n PROVE acc[k] = Op(acc[k - 1], s[k])
  <2>1. /\ 1 .. k \in SUBSET (1 .. n) /\ 1 .. k # {} /\ k - 1 \in 0 .. n /\ k \in 0 .. n
        /\ Max(1 .. k) = k /\ (1 .. k) \ {k} = 1 .. (k - 1)
    BY <1>1, PrefixFacts
  <2>2. chosen[1 .. k] = Op(chosen[(1 .. k) \ {Max(1 .. k)}], s[Max(1 .. k)])
    <3> HIDE DEF chosen
    <3> QED BY <1>1, <1>4, <2>1
  <2> HIDE DEF chosen, Op
  <2> QED BY <2>1, <2>2
<1>7. acc \in [0 .. n -> Seq(S)]
  <2>1. acc[0] \in Seq(S)
    BY <1>5
  <2>2. \A k \in 1 .. n : acc[k - 1] \in Seq(S) => acc[k] \in Seq(S)
    <3>2. \A v \in Seq(S), x \in S : Op(v, x) \in Seq(S)
      BY AppendProperties
    <3> HIDE DEF acc, Op, n, Right, chosen, step
    <3> QED BY <1>1, <1>6, <3>2
  <2>3. DOMAIN acc = 0 .. n /\ acc = [k \in 0 .. n |-> acc[k]]
    OBVIOUS
  <2> HIDE DEF acc
  <2> QED BY <1>1, <2>1, <2>2, <2>3, StepsTyped
<1>8. Only(s, wanted) = acc[n]
  <2>1. n \in 0 .. n
    BY <1>1
  <2> HIDE DEF chosen, n
  <2> QED BY <1>4, <2>1
<1> HIDE DEF acc, step, Right, chosen
<1>9. OnlyRun(acc, S, s, wanted)
  BY <1>5, <1>6, <1>7, <1>8 DEF OnlyRun
<1> QED BY <1>9

LEMMA OnlyOfNothing == \A wanted : Only(<<>>, wanted) = <<>>
<1> TAKE wanted
<1>1. <<>> \in Seq({}) /\ Len(<<>>) = 0
  OBVIOUS
<1>2. PICK acc : OnlyRun(acc, {}, <<>>, wanted)
  BY <1>1, OnlySteps
<1> QED BY <1>1, <1>2 DEF OnlyRun

LEMMA OnlyAppend ==
    ASSUME NEW S, NEW s \in Seq(S), NEW x \in S, NEW wanted
    PROVE  Only(Append(s, x), wanted) =
             IF x \in wanted THEN Append(Only(s, wanted), x) ELSE Only(s, wanted)
<1> DEFINE n == Len(s)
           t == Append(s, x)
<1>1. /\ t \in Seq(S) /\ Len(t) = n + 1 /\ t[n + 1] = x /\ n \in Nat
      /\ \A k \in 1 .. n : t[k] = s[k]
  BY AppendProperties
<1>2. PICK f : OnlyRun(f, S, s, wanted)
  BY OnlySteps
<1> HIDE DEF t
<1>3. PICK g : OnlyRun(g, S, t, wanted)
  BY <1>1, OnlySteps
<1>4. f[n] = g[n]
  <2>1. f[0] = g[0]
    BY <1>2, <1>3 DEF OnlyRun
  <2>2. ASSUME NEW k \in 1 .. n, f[k - 1] = g[k - 1] PROVE f[k] = g[k]
    <3>1. k \in 1 .. Len(t) /\ t[k] = s[k]
      BY <1>1
    <3>2. f[k] = IF s[k] \in wanted THEN Append(f[k - 1], s[k]) ELSE f[k - 1]
      BY <1>2 DEF OnlyRun
    <3>3. g[k] = IF t[k] \in wanted THEN Append(g[k - 1], t[k]) ELSE g[k - 1]
      BY <1>3, <3>1 DEF OnlyRun
    <3> QED BY <2>2, <3>1, <3>2, <3>3
  <2> HIDE DEF n
  <2> QED BY <1>1, <2>1, <2>2, SameSteps
<1>5. n + 1 \in 1 .. Len(t) /\ (n + 1) - 1 = n
  BY <1>1
<1>6. Only(t, wanted) = IF t[n + 1] \in wanted THEN Append(g[n], t[n + 1]) ELSE g[n]
  BY <1>1, <1>3, <1>5 DEF OnlyRun
<1>7. Only(s, wanted) = f[n]
  BY <1>2 DEF OnlyRun
<1> QED BY <1>1, <1>4, <1>6, <1>7 DEF t

\* Induction over sequences, for a set of them.
LEMMA SeqSetInduction ==
    ASSUME NEW S, NEW T, <<>> \in T,
           \A s \in Seq(S), x \in S : s \in T => Append(s, x) \in T
    PROVE  Seq(S) \subseteq T
<1> DEFINE U == {n \in Nat : \A s \in Seq(S) : Len(s) = n => s \in T}
<1>1. 0 \in U
  BY EmptySeq
<1>2. ASSUME NEW n \in Nat, n \in U PROVE n + 1 \in U
  <2> SUFFICES ASSUME NEW s \in Seq(S), Len(s) = n + 1 PROVE s \in T
    OBVIOUS
  <2>1. s # <<>>
    OBVIOUS
  <2>2. PICK front \in Seq(S), last \in S : s = Append(front, last)
    BY <2>1, SequenceEmptyOrAppend
  <2>3. Len(front) = n
    BY <2>2, AppendProperties
  <2> QED BY <1>2, <2>2, <2>3
<1>3. Nat \subseteq U
  <2> HIDE DEF U
  <2> QED BY <1>1, <1>2, NatSetInduction
<1> QED BY <1>3, LenProperties

LEMMA ElementsOfAppend ==
    ASSUME NEW S, NEW s \in Seq(S), NEW x \in S
    PROVE  /\ Append(s, x) \in Seq(S)
           /\ Len(Append(s, x)) = Len(s) + 1
           /\ ToSet(Append(s, x)) = ToSet(s) \cup {x}
<1>1. /\ Append(s, x) \in Seq(S) /\ Len(Append(s, x)) = Len(s) + 1
      /\ Len(s) \in Nat /\ Append(s, x)[Len(s) + 1] = x
      /\ \A i \in 1 .. Len(s) : Append(s, x)[i] = s[i]
  BY AppendProperties, LenProperties
<1>2. DOMAIN Append(s, x) = 1 .. Len(s) + 1 /\ DOMAIN s = 1 .. Len(s)
  BY <1>1, LenProperties
<1>3. \A y : y \in ToSet(Append(s, x)) <=> y \in ToSet(s) \/ y = x
  BY <1>1, <1>2 DEF ToSet
<1> QED BY <1>1, <1>3

\* The elements of s that are wanted, and no others.
LEMMA OnlyFacts ==
    ASSUME NEW S, NEW s \in Seq(S), NEW wanted
    PROVE  /\ Only(s, wanted) \in Seq(S)
           /\ ToSet(Only(s, wanted)) = ToSet(s) \cap wanted
           /\ Len(Only(s, wanted)) <= Len(s)
<1> DEFINE Kept(t) == /\ Only(t, wanted) \in Seq(S)
                      /\ ToSet(Only(t, wanted)) = ToSet(t) \cap wanted
                      /\ Len(Only(t, wanted)) <= Len(t)
           T == {t \in Seq(S) : Kept(t)}
<1>1. <<>> \in T
  <2>1. <<>> \in Seq(S) /\ ToSet(<<>>) = {} /\ Len(<<>>) <= Len(<<>>)
    BY DEF ToSet
  <2>2. Only(<<>>, wanted) = <<>>
    BY OnlyOfNothing
  <2>3. Kept(<<>>)
    BY <2>1, <2>2
  <2> HIDE DEF Kept
  <2> QED BY <2>1, <2>3
<1>2. ASSUME NEW t \in Seq(S), NEW x \in S, t \in T PROVE Append(t, x) \in T
  <2>1. /\ ToSet(Append(t, x)) = ToSet(t) \cup {x}
        /\ Append(t, x) \in Seq(S) /\ Len(Append(t, x)) = Len(t) + 1
    BY ElementsOfAppend
  <2>2. Only(Append(t, x), wanted) =
             IF x \in wanted THEN Append(Only(t, wanted), x) ELSE Only(t, wanted)
    BY OnlyAppend
  <2>3. Only(t, wanted) \in Seq(S) /\ Len(Only(t, wanted)) \in Nat /\ Len(t) \in Nat
    BY <1>2, LenProperties
  <2>4. CASE x \in wanted
    <3>1. /\ ToSet(Append(Only(t, wanted), x)) = ToSet(Only(t, wanted)) \cup {x}
          /\ Append(Only(t, wanted), x) \in Seq(S)
          /\ Len(Append(Only(t, wanted), x)) = Len(Only(t, wanted)) + 1
      BY <2>3, ElementsOfAppend
    <3>2. Only(Append(t, x), wanted) = Append(Only(t, wanted), x)
      BY <2>2, <2>4
    <3>3. ToSet(Only(Append(t, x), wanted)) = ToSet(Append(t, x)) \cap wanted
      BY <1>2, <2>1, <2>4, <3>1, <3>2
    <3>4. Len(Only(t, wanted)) <= Len(t)
      BY <1>2
    <3>5. Len(Only(Append(t, x), wanted)) <= Len(Append(t, x))
      BY <2>1, <2>3, <3>1, <3>2, <3>4
    <3>6. Kept(Append(t, x))
      BY <3>1, <3>2, <3>3, <3>5
    <3> HIDE DEF Kept
    <3> QED BY <2>1, <3>6
  <2>5. CASE x \notin wanted
    <3>2. Only(Append(t, x), wanted) = Only(t, wanted)
      BY <2>2, <2>5
    <3>3. ToSet(Only(Append(t, x), wanted)) = ToSet(Append(t, x)) \cap wanted
      BY <1>2, <2>1, <2>5, <3>2
    <3>4. Len(Only(t, wanted)) <= Len(t)
      BY <1>2
    <3>5. Len(Only(Append(t, x), wanted)) <= Len(Append(t, x))
      BY <2>1, <2>3, <3>2, <3>4
    <3>6. Kept(Append(t, x))
      BY <2>3, <3>2, <3>3, <3>5
    <3> HIDE DEF Kept
    <3> QED BY <2>1, <3>6
  <2> QED BY <2>4, <2>5
<1>3. Seq(S) \subseteq T
  <2> HIDE DEF T
  <2> QED BY <1>1, <1>2, SeqSetInduction
<1> QED BY <1>3

\* What is in a sequence after another one, and in what is left of it.
LEMMA ElementsOfConcat ==
    ASSUME NEW S, NEW s \in Seq(S), NEW t \in Seq(S)
    PROVE  s \o t \in Seq(S) /\ ToSet(s \o t) = ToSet(s) \cup ToSet(t)
<1>1. /\ s \o t \in Seq(S) /\ Len(s \o t) = Len(s) + Len(t)
      /\ Len(s) \in Nat /\ Len(t) \in Nat
      /\ \A i \in 1 .. Len(s) : (s \o t)[i] = s[i]
      /\ \A i \in 1 .. Len(t) : (s \o t)[Len(s) + i] = t[i]
  BY ConcatProperties, LenProperties
<1>2. ASSUME NEW x \in ToSet(s \o t) PROVE x \in ToSet(s) \cup ToSet(t)
  <2>1. PICK i \in 1 .. Len(s) + Len(t) : x = (s \o t)[i]
    BY <1>1 DEF ToSet
  <2>2. CASE i <= Len(s)
    BY <1>1, <2>1, <2>2 DEF ToSet
  <2>3. CASE i > Len(s)
    <3>1. i - Len(s) \in 1 .. Len(t) /\ i = Len(s) + (i - Len(s))
      BY <1>1, <2>3
    <3>2. x = t[i - Len(s)]
      BY <1>1, <2>1, <3>1
    <3> QED BY <3>1, <3>2 DEF ToSet
  <2> QED BY <1>1, <2>2, <2>3
<1>3. ASSUME NEW x \in ToSet(s) PROVE x \in ToSet(s \o t)
  BY <1>1 DEF ToSet
<1>4. ASSUME NEW x \in ToSet(t) PROVE x \in ToSet(s \o t)
  <2>1. PICK i \in 1 .. Len(t) : x = t[i]
    BY <1>1 DEF ToSet
  <2>2. Len(s) + i \in 1 .. Len(s \o t) /\ (s \o t)[Len(s) + i] = x
    BY <1>1, <2>1
  <2> QED BY <2>2 DEF ToSet
<1> QED BY <1>1, <1>2, <1>3, <1>4

LEMMA ElementsOfTail ==
    ASSUME NEW S, NEW s \in Seq(S), s # <<>>
    PROVE  /\ Head(s) \in ToSet(s) /\ Tail(s) \in Seq(S) /\ ToSet(Tail(s)) \subseteq ToSet(s)
           /\ Len(Tail(s)) = Len(s) - 1 /\ Len(s) \in Nat /\ Len(s) > 0
<1>1. /\ Tail(s) \in Seq(S) /\ Len(Tail(s)) = Len(s) - 1 /\ Len(s) \in Nat /\ Len(s) > 0
      /\ \A i \in 1 .. Len(Tail(s)) : Tail(s)[i] = s[i + 1]
  BY HeadTailProperties, LenProperties, EmptySeq
<1>2. Head(s) = s[1] /\ 1 \in 1 .. Len(s)
  BY <1>1
<1>3. ToSet(Tail(s)) \subseteq ToSet(s)
  <2> SUFFICES ASSUME NEW x \in ToSet(Tail(s)) PROVE x \in ToSet(s)
    OBVIOUS
  <2>1. PICK i \in 1 .. Len(Tail(s)) : x = Tail(s)[i]
    BY <1>1 DEF ToSet
  <2>2. i + 1 \in 1 .. Len(s) /\ x = s[i + 1]
    BY <1>1, <2>1
  <2> QED BY <2>2 DEF ToSet
<1> QED BY <1>1, <1>2, <1>3 DEF ToSet

\* What is in a part of a sequence.
LEMMA ElementsOfPart ==
    ASSUME NEW S, NEW s \in Seq(S), NEW a \in Nat \ {0}
    PROVE  /\ SubSeq(s, a, Len(s)) \in Seq(S)
           /\ ToSet(SubSeq(s, a, Len(s))) \subseteq ToSet(s)
<1>1. Len(s) \in Nat /\ \A i \in 1 .. Len(s) : s[i] \in S
  BY LenProperties, ElementOfSeq
<1>2. \A i \in a .. Len(s) : s[i] \in ToSet(s)
  BY <1>1 DEF ToSet
<1>3. ToSet(s) \subseteq S
  BY <1>1 DEF ToSet
<1>4. SubSeq(s, a, Len(s)) \in Seq(ToSet(s))
  BY <1>1, <1>2, SubSeqProperties
<1> DEFINE part == SubSeq(s, a, Len(s))
           R == ToSet(s)
<1> HIDE DEF part, R
<1>5. part \in Seq(R) /\ R \subseteq S
  BY <1>3, <1>4 DEF part, R
<1>6. ToSet(part) \subseteq R
  BY <1>5, LenProperties, ElementOfSeq DEF ToSet
<1>7. part \in Seq(S)
  BY <1>5, SeqMonotonic
<1> QED BY <1>6, <1>7 DEF part, R

\* A set of natural numbers that is not empty has a smallest element.
LEMMA SmallestIsThere ==
    ASSUME NEW A \in SUBSET Nat, A # {}
    PROVE  Min(A) \in A
<1> DEFINE Order == OpToRel(<, Nat)
<1>1. IsWellFoundedOn(Order, Nat)
  BY NatLessThanWellFounded
<1>2. \A x, y \in Nat : x < y => <<x, y>> \in Order
  BY DEF OpToRel
<1> HIDE DEF Order
<1>3. PICK n \in A : \A m \in A : ~ (<<m, n>> \in Order)
  BY <1>1, WFMin
<1>4. ASSUME NEW m \in A PROVE n <= m
  <2>1. n \in Nat /\ m \in Nat /\ ~ (m < n)
    BY <1>2, <1>3
  <2> QED BY <2>1
<1> QED BY <1>3, <1>4 DEF Min

\* What a fold from the left never leaves.
LEMMA LeftFoldStays ==
    ASSUME NEW n \in Nat, NEW State, NEW fold, fold[{}] \in State,
           \A k \in 1 .. n : fold[1 .. (k - 1)] \in State => fold[1 .. k] \in State
    PROVE  fold[1 .. n] \in State
<1> DEFINE acc == [k \in 0 .. n |-> fold[1 .. k]]
<1>1. acc[0] \in State
  <2>1. 1 .. 0 = {} /\ 0 \in 0 .. n
    OBVIOUS
  <2> QED BY <2>1
<1>2. \A k \in 1 .. n : acc[k - 1] \in State => acc[k] \in State
  <2> SUFFICES ASSUME NEW k \in 1 .. n PROVE acc[k - 1] \in State => acc[k] \in State
    OBVIOUS
  <2>1. k - 1 \in 0 .. n /\ k \in 0 .. n
    OBVIOUS
  <2> QED BY <2>1
<1>3. DOMAIN acc = 0 .. n /\ acc = [k \in 0 .. n |-> acc[k]]
  OBVIOUS
<1>4. acc[n] = fold[1 .. n] /\ n \in 0 .. n
  OBVIOUS
<1> HIDE DEF acc
<1>5. acc \in [0 .. n -> State]
  BY <1>1, <1>2, <1>3, StepsTyped
<1> QED BY <1>4, <1>5
=============================================================================
