--------------------------- MODULE OperatorLemmas ---------------------------
(***************************************************************************)
(* The lemmas the invariance proofs cite.  First the sums and maxima of    *)
(* FiniteSetsExt and the folds of SequencesExt, by induction over the      *)
(* subsets of a finite set, and remainders; then what voting power adds up *)
(* to, what each function of TwoChainSafetyRules does to the safety state, *)
(* and what process_block counts, for every state and every round.         *)
(***************************************************************************)
EXTENDS SafetyRules, PendingVotes, Pipeline, Sequences, FiniteSetTheorems, TLAPS

-----------------------------------------------------------------------------
(***************************************************************************)
(* Finite sets, sums and maxima.                                           *)
(***************************************************************************)
\* The sums of voting power of the model, as a function and a set.
SumOver(f, S) == MapThenSumSet(LAMBDA a : f[a], S)

\* The element MapThenFoldSet takes next.
Pick(s) == CHOOSE x \in s : TRUE

\* g is the recursive function inside MapThenFoldSet.
Unfolds(f, g, S) ==
    g = [s \in SUBSET S |-> IF s = {} THEN 0 ELSE f[Pick(s)] + g[s \ {Pick(s)}]]

\* Induction over the subsets of a finite set, with a set in the place of the
\* predicate: Good holds every T that follows from its proper subsets.
LEMMA SubsetInduction ==
    ASSUME NEW S, IsFiniteSet(S), NEW Good,
           ASSUME NEW T \in SUBSET S, \A U \in SUBSET T : U # T => U \in Good
           PROVE  T \in Good
    PROVE  SUBSET S \subseteq Good
  <1> SUFFICES ASSUME (SUBSET S) \ Good # {} PROVE FALSE
    OBVIOUS
  <1>1. FiniteSubsetsOf(S) = SUBSET S
    BY FS_FiniteSubsetsOfFinite
  <1>a. IsWellFoundedOn(StrictSubsetOrdering(S), FiniteSubsetsOf(S))
    BY FS_StrictSubsetOrderingWellFounded
  <1>2. IsWellFoundedOn(StrictSubsetOrdering(S), SUBSET S)
    BY <1>1, <1>a
  <1> DEFINE R == StrictSubsetOrdering(S)
             D == SUBSET S
             Bad == D \ Good
  <1>b. Bad \subseteq D /\ Bad # {} /\ IsWellFoundedOn(R, D)
    BY <1>2
  <1> HIDE DEF R, D, Bad
  <1>3. PICK T \in Bad : \A U \in Bad : ~(<<U, T>> \in R)
    BY <1>b, WFMin
  <1>4. \A U \in SUBSET T : U # T => U \in Good
    BY <1>3 DEF Bad, D, R, StrictSubsetOrdering
  <1> QED BY <1>3, <1>4 DEF Bad, D

\* Two functions that unfold the sum of f agree wherever both are defined.
LEMMA UnfoldsAgree ==
    ASSUME NEW f, NEW g, NEW h, NEW A, NEW B, NEW S \in SUBSET A,
           S \subseteq B, IsFiniteSet(S), Unfolds(f, g, A), Unfolds(f, h, B)
    PROVE  g[S] = h[S]
  <1> DEFINE Good == {T \in SUBSET S : g[T] = h[T]}
  <1>1. ASSUME NEW T \in SUBSET S, \A U \in SUBSET T : U # T => U \in Good
        PROVE  T \in Good
    <2>1. CASE T = {}
      BY <2>1 DEF Unfolds
    <2>2. CASE T # {}
      <3>1. Pick(T) \in T
        BY <2>2 DEF Pick
      <3>2. T \ {Pick(T)} \in Good
        BY <1>1, <3>1
      <3>3. g[T] = f[Pick(T)] + g[T \ {Pick(T)}] /\ h[T] = f[Pick(T)] + h[T \ {Pick(T)}]
        BY <2>2 DEF Unfolds
      <3> QED BY <3>2, <3>3
    <2> QED BY <2>1, <2>2
  <1> HIDE DEF Good
  <1>2. SUBSET S \subseteq Good
    BY <1>1, SubsetInduction
  <1> QED BY <1>2 DEF Good

\* The function that MapThenFoldSet chooses exists for every finite set.
LEMMA UnfoldsExists ==
    ASSUME NEW f, NEW S, IsFiniteSet(S)
    PROVE  \E g : Unfolds(f, g, S)
  <1> DEFINE Good == {T \in SUBSET S : \E g : Unfolds(f, g, T)}
  <1>1. ASSUME NEW T \in SUBSET S, \A U \in SUBSET T : U # T => U \in Good
        PROVE  T \in Good
    <2> DEFINE G(U) == CHOOSE g : Unfolds(f, g, U)
               rest == T \ {Pick(T)}
               g == [s \in SUBSET T |->
                        IF s # T THEN G(s)[s]
                        ELSE IF s = {} THEN 0 ELSE f[Pick(T)] + G(rest)[rest]]
    <2>1. \A U \in SUBSET T : U # T => Unfolds(f, G(U), U)
      BY <1>1
    <2>2. ASSUME NEW s \in SUBSET T
          PROVE  g[s] = IF s = {} THEN 0 ELSE f[Pick(s)] + g[s \ {Pick(s)}]
      <3> DEFINE r == s \ {Pick(s)}
      <3>1. CASE s = {}
        <4>1. CASE s = T
          BY <3>1, <4>1
        <4>2. CASE s # T
          <5>1. Unfolds(f, G(s), s)
            BY <2>1, <4>2
          <5> HIDE DEF G
          <5>2. G(s)[s] = 0
            BY <3>1, <5>1 DEF Unfolds
          <5> QED BY <3>1, <4>2, <5>2
        <4> QED BY <4>1, <4>2
      <3>2. CASE s # {}
        <4>1. r \in SUBSET T /\ r # T /\ r # s /\ r \subseteq s
          BY <3>2 DEF Pick
        <4>2. g[r] = G(r)[r]
          BY <4>1
        <4>3. CASE s = T
          BY <3>2, <4>2, <4>3
        <4>4. CASE s # T
          <5>1. Unfolds(f, G(s), s) /\ Unfolds(f, G(r), r) /\ IsFiniteSet(r)
            BY <2>1, <4>1, <4>4, FS_Subset
          <5> HIDE DEF G
          <5>2. G(s)[r] = G(r)[r]
            <6>1. r \in SUBSET s /\ r \subseteq r
              BY <4>1
            <6> HIDE DEF r
            <6> QED BY <5>1, <6>1, UnfoldsAgree
          <5>3. G(s)[s] = f[Pick(s)] + G(s)[r]
            BY <3>2, <5>1 DEF Unfolds
          <5>4. g[s] = G(s)[s]
            BY <4>4
          <5> QED BY <3>2, <4>2, <5>2, <5>3, <5>4
        <4> QED BY <4>3, <4>4
      <3> QED BY <3>1, <3>2
    <2>3. g = [s \in SUBSET T |-> g[s]]
      OBVIOUS
    <2> HIDE DEF g
    <2>4. Unfolds(f, g, T)
      BY <2>2, <2>3 DEF Unfolds
    <2> QED BY <2>4
  <1> HIDE DEF Good
  <1>2. SUBSET S \subseteq Good
    BY <1>1, SubsetInduction
  <1> QED BY <1>2 DEF Good

\* So the sum is what that function says.
LEMMA SumUnfolds ==
    ASSUME NEW f, NEW S, IsFiniteSet(S)
    PROVE  \E g : Unfolds(f, g, S) /\ SumOver(f, S) = g[S]
  <1> DEFINE h == CHOOSE g : Unfolds(f, g, S)
  <1>1. Unfolds(f, h, S)
    BY UnfoldsExists
  <1>2. SumOver(f, S) = h[S]
    BY DEF SumOver, MapThenSumSet, MapThenFoldSet, Unfolds, Pick
  <1> QED BY <1>1, <1>2

\* No voters have no power.
LEMMA SumEmpty ==
    ASSUME NEW f
    PROVE  SumOver(f, {}) = 0
  <1>1. PICK g : Unfolds(f, g, {}) /\ SumOver(f, {}) = g[{}]
    BY SumUnfolds, FS_EmptySet
  <1> QED BY <1>1 DEF Unfolds

\* The sum takes out the element the definition picks,
LEMMA SumPick ==
    ASSUME NEW f, NEW S, IsFiniteSet(S), S # {}
    PROVE  Pick(S) \in S /\ SumOver(f, S) = f[Pick(S)] + SumOver(f, S \ {Pick(S)})
  <1> DEFINE R == S \ {Pick(S)}
  <1>1. Pick(S) \in S
    BY DEF Pick
  <1>2. IsFiniteSet(R) /\ R \in SUBSET S /\ R \subseteq R
    BY FS_Subset
  <1>3. PICK g : Unfolds(f, g, S) /\ SumOver(f, S) = g[S]
    BY SumUnfolds
  <1>4. g[S] = f[Pick(S)] + g[R]
    BY <1>3 DEF Unfolds
  <1> HIDE DEF R
  <1>5. PICK h : Unfolds(f, h, R) /\ SumOver(f, R) = h[R]
    BY <1>2, SumUnfolds
  <1>6. g[R] = h[R]
    BY <1>2, <1>3, <1>5, UnfoldsAgree
  <1> QED BY <1>1, <1>3, <1>4, <1>5, <1>6 DEF R

\* it is a natural number,
LEMMA SumType ==
    ASSUME NEW f, NEW S, IsFiniteSet(S), \A x \in S : f[x] \in Nat
    PROVE  SumOver(f, S) \in Nat
  <1> DEFINE Good == {T \in SUBSET S : SumOver(f, T) \in Nat}
  <1>1. ASSUME NEW T \in SUBSET S, \A U \in SUBSET T : U # T => U \in Good
        PROVE  T \in Good
    <2>1. CASE T = {}
      BY <2>1, SumEmpty
    <2>2. CASE T # {}
      <3>1. Pick(T) \in T /\ SumOver(f, T) = f[Pick(T)] + SumOver(f, T \ {Pick(T)})
        BY <2>2, SumPick, FS_Subset
      <3>2. SumOver(f, T \ {Pick(T)}) \in Nat
        BY <1>1, <3>1
      <3> QED BY <3>1, <3>2
    <2> QED BY <2>1, <2>2
  <1> HIDE DEF Good
  <1>2. SUBSET S \subseteq Good
    BY <1>1, SubsetInduction
  <1> QED BY <1>2 DEF Good

\* and it takes out any element, not only the one the definition picks.
LEMMA SumRemove ==
    ASSUME NEW f, NEW S, IsFiniteSet(S), \A y \in S : f[y] \in Nat, NEW x \in S
    PROVE  SumOver(f, S) = f[x] + SumOver(f, S \ {x})
  <1> DEFINE Good == {T \in SUBSET S :
                        \A y \in T : SumOver(f, T) = f[y] + SumOver(f, T \ {y})}
  <1>1. ASSUME NEW T \in SUBSET S, \A U \in SUBSET T : U # T => U \in Good
        PROVE  T \in Good
    <2> SUFFICES ASSUME NEW y \in T
                 PROVE  SumOver(f, T) = f[y] + SumOver(f, T \ {y})
      OBVIOUS
    <2> DEFINE p == Pick(T)
               rest == T \ {p, y}
    <2>1. p \in T /\ SumOver(f, T) = f[p] + SumOver(f, T \ {p})
      BY SumPick, FS_Subset
    <2>2. CASE p = y
      BY <2>1, <2>2
    <2>3. CASE p # y
      <3>1. T \ {p} \in Good /\ T \ {y} \in Good
        BY <1>1, <2>1
      <3>2. (T \ {p}) \ {y} = rest /\ (T \ {y}) \ {p} = rest
        OBVIOUS
      <3>3. SumOver(f, T \ {p}) = f[y] + SumOver(f, rest)
        BY <2>3, <3>1, <3>2
      <3>4. SumOver(f, T \ {y}) = f[p] + SumOver(f, rest)
        BY <2>1, <2>3, <3>1, <3>2
      <3>5. SumOver(f, rest) \in Nat /\ f[p] \in Nat /\ f[y] \in Nat
        BY <2>1, SumType, FS_Subset
      <3> HIDE DEF p, rest
      <3> QED BY <2>1, <3>3, <3>4, <3>5
    <2> QED BY <2>2, <2>3
  <1> HIDE DEF Good
  <1>2. SUBSET S \subseteq Good
    BY <1>1, SubsetInduction
  <1> QED BY <1>2 DEF Good

\* A new element adds what f gives it.
LEMMA SumAdd ==
    ASSUME NEW f, NEW S, IsFiniteSet(S), NEW x, x \notin S,
           \A y \in S \cup {x} : f[y] \in Nat
    PROVE  SumOver(f, S \cup {x}) = f[x] + SumOver(f, S)
  <1>1. IsFiniteSet(S \cup {x}) /\ x \in S \cup {x} /\ (S \cup {x}) \ {x} = S
    BY FS_AddElement
  <1> QED BY <1>1, SumRemove

\* More voters have at least the power of fewer.
LEMMA SumMonotone ==
    ASSUME NEW f, NEW S, IsFiniteSet(S), \A x \in S : f[x] \in Nat, NEW T \in SUBSET S
    PROVE  SumOver(f, T) <= SumOver(f, S)
  <1> DEFINE Good == {A \in SUBSET S : \A B \in SUBSET A : SumOver(f, B) <= SumOver(f, A)}
  <1>1. ASSUME NEW A \in SUBSET S, \A U \in SUBSET A : U # A => U \in Good
        PROVE  A \in Good
    <2> SUFFICES ASSUME NEW B \in SUBSET A PROVE SumOver(f, B) <= SumOver(f, A)
      OBVIOUS
    <2>1. SumOver(f, A) \in Nat /\ SumOver(f, B) \in Nat
      BY SumType, FS_Subset
    <2>2. CASE B = A
      BY <2>1, <2>2
    <2>3. CASE B # A
      <3>1. PICK x \in A : x \notin B
        BY <2>3
      <3>2. SumOver(f, A) = f[x] + SumOver(f, A \ {x})
        BY SumRemove, FS_Subset
      <3>3. SumOver(f, B) <= SumOver(f, A \ {x})
        BY <1>1, <3>1
      <3>4. SumOver(f, A \ {x}) \in Nat
        BY SumType, FS_Subset
      <3> QED BY <2>1, <3>2, <3>3, <3>4
    <2> QED BY <2>2, <2>3
  <1> HIDE DEF Good
  <1>2. SUBSET S \subseteq Good
    BY <1>1, SubsetInduction
  <1> QED BY <1>2 DEF Good

\* The sum depends on f only within the set.
LEMMA SumAgree ==
    ASSUME NEW f, NEW g, NEW S, IsFiniteSet(S), \A x \in S : f[x] = g[x]
    PROVE  SumOver(f, S) = SumOver(g, S)
  <1> DEFINE Good == {T \in SUBSET S : SumOver(f, T) = SumOver(g, T)}
  <1>1. ASSUME NEW T \in SUBSET S, \A U \in SUBSET T : U # T => U \in Good
        PROVE  T \in Good
    <2>1. CASE T = {}
      BY <2>1, SumEmpty
    <2>2. CASE T # {}
      <3>1. /\ Pick(T) \in T
            /\ SumOver(f, T) = f[Pick(T)] + SumOver(f, T \ {Pick(T)})
            /\ SumOver(g, T) = g[Pick(T)] + SumOver(g, T \ {Pick(T)})
        BY <2>2, SumPick, FS_Subset
      <3>2. SumOver(f, T \ {Pick(T)}) = SumOver(g, T \ {Pick(T)})
        BY <1>1, <3>1
      <3> QED BY <3>1, <3>2
    <2> QED BY <2>1, <2>2
  <1> HIDE DEF Good
  <1>2. SUBSET S \subseteq Good
    BY <1>1, SubsetInduction
  <1> QED BY <1>2 DEF Good

\* A sum of zeros is zero.
LEMMA SumOfZeros ==
    ASSUME NEW f, NEW S, IsFiniteSet(S), \A x \in S : f[x] = 0
    PROVE  SumOver(f, S) = 0
  <1> DEFINE Good == {T \in SUBSET S : SumOver(f, T) = 0}
  <1>1. ASSUME NEW T \in SUBSET S, \A U \in SUBSET T : U # T => U \in Good
        PROVE  T \in Good
    <2>1. CASE T = {}
      BY <2>1, SumEmpty
    <2>2. CASE T # {}
      <3>1. Pick(T) \in T /\ SumOver(f, T) = f[Pick(T)] + SumOver(f, T \ {Pick(T)})
        BY <2>2, SumPick, FS_Subset
      <3>2. SumOver(f, T \ {Pick(T)}) = 0
        BY <1>1, <3>1
      <3> QED BY <3>1, <3>2
    <2> QED BY <2>1, <2>2
  <1> HIDE DEF Good
  <1>2. SUBSET S \subseteq Good
    BY <1>1, SubsetInduction
  <1> QED BY <1>2 DEF Good

\* Inclusion and exclusion: what quorum intersection rests on.
LEMMA SumUnion ==
    ASSUME NEW f, NEW S, IsFiniteSet(S), \A x \in S : f[x] \in Nat,
           NEW A \in SUBSET S, NEW B \in SUBSET S
    PROVE  SumOver(f, A \cup B) + SumOver(f, A \cap B) = SumOver(f, A) + SumOver(f, B)
  <1> DEFINE Good == {T \in SUBSET S :
                 SumOver(f, T \cup B) + SumOver(f, T \cap B) = SumOver(f, T) + SumOver(f, B)}
  <1>0. ASSUME NEW T \in SUBSET S PROVE IsFiniteSet(T) /\ SumOver(f, T) \in Nat
    BY SumType, FS_Subset
  <1>1. ASSUME NEW T \in SUBSET S, \A U \in SUBSET T : U # T => U \in Good
        PROVE  T \in Good
    <2>1. CASE T = {}
      <3>1. T \cup B = B /\ T \cap B = {}
        BY <2>1
      <3> QED BY <1>0, <2>1, <3>1, SumEmpty
    <2>2. CASE T # {}
      <3>1. PICK x \in T : TRUE
        BY <2>2
      <3> DEFINE U == T \ {x}
      <3>2. SumOver(f, U \cup B) + SumOver(f, U \cap B) = SumOver(f, U) + SumOver(f, B)
        BY <1>1
      <3>3. SumOver(f, T) = f[x] + SumOver(f, U)
        BY <1>0, SumRemove
      <3>4. /\ SumOver(f, U) \in Nat /\ SumOver(f, B) \in Nat /\ f[x] \in Nat
            /\ SumOver(f, U \cup B) \in Nat /\ SumOver(f, U \cap B) \in Nat
        BY <1>0
      <3>5. CASE x \in B
        <4>1. T \cup B = U \cup B /\ x \in T \cap B /\ (T \cap B) \ {x} = U \cap B
          BY <3>5
        <4>2. SumOver(f, T \cap B) = f[x] + SumOver(f, U \cap B)
          BY <1>0, <4>1, SumRemove
        <4> HIDE DEF U, Good
        <4>3. SumOver(f, T \cup B) = SumOver(f, U \cup B)
          BY <4>1, Zenon
        <4>4. SumOver(f, T \cup B) + SumOver(f, T \cap B) = SumOver(f, T) + SumOver(f, B)
          BY <3>2, <3>3, <3>4, <4>2, <4>3
        <4> QED BY <4>4 DEF Good
      <3>6. CASE x \notin B
        <4>1. T \cap B = U \cap B /\ x \in T \cup B /\ (T \cup B) \ {x} = U \cup B
          BY <3>6
        <4>2. SumOver(f, T \cup B) = f[x] + SumOver(f, U \cup B)
          BY <1>0, <4>1, SumRemove
        <4> HIDE DEF U, Good
        <4>3. SumOver(f, T \cap B) = SumOver(f, U \cap B)
          BY <4>1, Zenon
        <4>4. SumOver(f, T \cup B) + SumOver(f, T \cap B) = SumOver(f, T) + SumOver(f, B)
          BY <3>2, <3>3, <3>4, <4>2, <4>3
        <4> QED BY <4>4 DEF Good
      <3> QED BY <3>5, <3>6
    <2> QED BY <2>1, <2>2
  <1> HIDE DEF Good
  <1>2. SUBSET S \subseteq Good
    BY <1>1, SubsetInduction
  <1> QED BY <1>2 DEF Good

\* The image of a finite set under a function is finite.
LEMMA ImageIsFinite ==
    ASSUME NEW f, NEW S, IsFiniteSet(S)
    PROVE  IsFiniteSet({f[x] : x \in S})
  <1> DEFINE T == {f[x] : x \in S}
             g == [x \in S |-> f[x]]
  <1>1. g \in Surjection(S, T)
    BY DEF Surjection
  <1> HIDE DEF T, g
  <1>2. IsFiniteSet(T)
    BY <1>1, FS_Surjection
  <1> QED
    BY <1>2 DEF T

\* Counting along an enumeration that repeats nothing is counting the set.
LEMMA SumEnumerated ==
    ASSUME NEW D, IsFiniteSet(D), NEW s, NEW g, NEW f,
           \A i, j \in D : s[i] = s[j] => i = j,
           \A i \in D : g[i] = f[s[i]] /\ g[i] \in Nat
    PROVE  SumOver(g, D) = SumOver(f, {s[i] : i \in D})
  <1> DEFINE Image(T) == {s[i] : i \in T}
             Good == {T \in SUBSET D : SumOver(g, T) = SumOver(f, Image(T))}
  <1>1. ASSUME NEW T \in SUBSET D, \A U \in SUBSET T : U # T => U \in Good
        PROVE  T \in Good
    <2>1. CASE T = {}
      <3>1. Image(T) = {}
        BY <2>1
      <3> QED
        BY <2>1, <3>1, SumEmpty
    <2>2. CASE T # {}
      <3>1. PICK i \in T : TRUE
        BY <2>2
      <3>2. /\ s[i] \in Image(T)
            /\ Image(T) \ {s[i]} = Image(T \ {i})
        OBVIOUS
      <3>3. /\ IsFiniteSet(T) /\ IsFiniteSet(Image(T))
            /\ \A x \in Image(T) : f[x] \in Nat
        BY FS_Subset, ImageIsFinite
      <3>4. SumOver(g, T) = g[i] + SumOver(g, T \ {i})
        BY <3>3, SumRemove
      <3>5. SumOver(f, Image(T)) = f[s[i]] + SumOver(f, Image(T \ {i}))
        <4> HIDE DEF Image
        <4>1. SumOver(f, Image(T)) = f[s[i]] + SumOver(f, Image(T) \ {s[i]})
          BY <3>2, <3>3, SumRemove
        <4> QED
          BY <3>2, <4>1
      <3>6. SumOver(g, T \ {i}) = SumOver(f, Image(T \ {i}))
        BY <1>1
      <3> HIDE DEF Image
      <3> QED
        BY <3>4, <3>5, <3>6
    <2> QED
      BY <2>1, <2>2
  <1> HIDE DEF Good
  <1>2. SUBSET D \subseteq Good
    BY <1>1, SubsetInduction
  <1> QED
    BY <1>2 DEF Good

\* A finite set of integers has its maximum, and Max is it.
LEMMA MaxFacts ==
    ASSUME NEW S \in SUBSET Int, IsFiniteSet(S), S # {}
    PROVE  Max(S) \in S /\ \A x \in S : x <= Max(S)
  <1> DEFINE Good == {T \in SUBSET S : T # {} => \E m \in T : \A x \in T : m >= x}
  <1>1. ASSUME NEW T \in SUBSET S, \A U \in SUBSET T : U # T => U \in Good
        PROVE  T \in Good
    <2> SUFFICES ASSUME T # {} PROVE \E m \in T : \A x \in T : m >= x
      OBVIOUS
    <2>1. PICK t \in T : TRUE
      OBVIOUS
    <2>2. CASE T = {t}
      BY <2>2
    <2>3. CASE T # {t}
      <3>1. PICK m \in T \ {t} : \A x \in T \ {t} : m >= x
        <4>1. T \ {t} \in Good /\ T \ {t} # {}
          BY <1>1, <2>3
        <4> QED BY <4>1
      <3>2. CASE m >= t
        BY <3>1, <3>2
      <3>3. CASE t >= m
        BY <3>1, <3>3
      <3> QED BY <3>2, <3>3
    <2> QED BY <2>2, <2>3
  <1> HIDE DEF Good
  <1>2. SUBSET S \subseteq Good
    BY <1>1, SubsetInduction
  <1>3. \E m \in S : \A x \in S : m >= x
    BY <1>2 DEF Good
  <1> QED BY <1>3 DEF Max

\* A finite set of integers has its minimum, and Min is it.
LEMMA MinFacts ==
    ASSUME NEW S \in SUBSET Int, IsFiniteSet(S), S # {}
    PROVE  Min(S) \in S /\ \A x \in S : Min(S) <= x
  <1> DEFINE f == [x \in S |-> -x]
             T == {f[x] : x \in S}
  <1>0. \A x \in S : f[x] \in Int
    OBVIOUS
  <1> HIDE DEF f
  <1>1. T \in SUBSET Int /\ T # {}
    BY <1>0
  <1>2. IsFiniteSet(T)
    BY ImageIsFinite
  <1> HIDE DEF T
  <1>3. Max(T) \in T /\ \A y \in T : y <= Max(T)
    BY <1>1, <1>2, MaxFacts
  <1>4. PICK x \in S : Max(T) = -x
    BY <1>3 DEF T, f
  <1>5. \A y \in S : -y <= -x
    BY <1>3, <1>4 DEF T, f
  <1>6. \A y \in S : x <= y
    BY <1>5
  <1> QED BY <1>6 DEF Min

\* The larger of two numbers.
LEMMA MaxOfTwo ==
    ASSUME NEW a \in Int, NEW b \in Int
    PROVE  Max({a, b}) = IF a >= b THEN a ELSE b
  <1>1. \E x \in {a, b} : \A y \in {a, b} : x >= y
    OBVIOUS
  <1>2. Max({a, b}) \in {a, b} /\ \A y \in {a, b} : Max({a, b}) >= y
    BY <1>1 DEF Max
  <1> QED
    BY <1>2

\* The smaller of two numbers.
LEMMA MinOfTwo ==
    ASSUME NEW a \in Int, NEW b \in Int
    PROVE  Min({a, b}) = IF a <= b THEN a ELSE b
  <1>1. \E x \in {a, b} : \A y \in {a, b} : x <= y
    OBVIOUS
  <1>2. Min({a, b}) \in {a, b} /\ \A y \in {a, b} : Min({a, b}) <= y
    BY <1>1 DEF Min
  <1> QED
    BY <1>2

-----------------------------------------------------------------------------
(***************************************************************************)
(* Remainders: what elections by round modulo n rest on.                   *)
(***************************************************************************)
\* What a division leaves.
LEMMA ModFacts ==
    ASSUME NEW x \in Int, NEW n \in Nat, n > 0
    PROVE  /\ x % n \in 0..(n - 1)
           /\ \E q \in Int : x = n * q + (x % n)
  <1>1. x % n \in 0..(n - 1)
    OBVIOUS
  <1>2. x = n * (x \div n) + (x % n) /\ x \div n \in Int
    OBVIOUS
  <1> QED BY <1>1, <1>2

\* A remainder is what is left below the divisor.
LEMMA ModIsUnique ==
    ASSUME NEW n \in Nat, n > 0, NEW q \in Int, NEW r \in 0..(n-1)
    PROVE  (n * q + r) % n = r
  OBVIOUS

\* Numbers less than n apart have different remainders.
LEMMA ModIsInjective ==
    ASSUME NEW n \in Nat, n > 0, NEW x \in Int, NEW y \in Int,
           x % n = y % n, x - y < n, y - x < n
    PROVE  x = y
  <1>1. PICK p \in Int : x = n * p + (x % n)
    BY ModFacts
  <1>2. PICK q \in Int : y = n * q + (y % n)
    BY ModFacts
  <1>3. x - y = n * (p - q)
    BY <1>1, <1>2, ModFacts
  <1>4. p - q = 0
    <2> DEFINE d == p - q
    <2>1. d \in Int /\ n * d < n /\ -n < n * d
      BY <1>3
    <2> HIDE DEF d
    <2>2. d < 1 /\ d > -1
      BY <2>1
    <2> QED BY <2>1, <2>2 DEF d
  <1> QED
    BY <1>3, <1>4

\* Of n consecutive numbers, hi - lo have a remainder from lo to below hi.
LEMMA WindowCount ==
    ASSUME NEW n \in Nat, n > 0, NEW c \in Int, NEW from \in Int,
           NEW lo \in 0..n, NEW hi \in lo..n
    PROVE  Cardinality({i \in from..(from + n - 1) : lo <= (c + i) % n /\ (c + i) % n < hi})
              = hi - lo
  <1> DEFINE A == {i \in from..(from + n - 1) : lo <= (c + i) % n /\ (c + i) % n < hi}
             B == lo..(hi - 1)
             f == [i \in A |-> (c + i) % n]
  <1>1. f \in [A -> B]
    BY ModFacts
  <1>2. \A i, j \in A : f[i] = f[j] => i = j
    <2> SUFFICES ASSUME NEW i \in A, NEW j \in A, f[i] = f[j] PROVE i = j
      OBVIOUS
    <2>1. (c + i) % n = (c + j) % n /\ c + i \in Int /\ c + j \in Int
      OBVIOUS
    <2>2. (c + i) - (c + j) < n /\ (c + j) - (c + i) < n
      OBVIOUS
    <2>3. c + i = c + j
      BY <2>1, <2>2, ModIsInjective
    <2> QED
      BY <2>3
  <1>3. \A t \in B : \E i \in A : f[i] = t
    <2> SUFFICES ASSUME NEW t \in B PROVE \E i \in A : f[i] = t
      OBVIOUS
    <2> DEFINE first == (c + from) % n
               i == IF t >= first THEN from + (t - first) ELSE from + (t - first) + n
    <2>1. first \in 0..(n - 1)
      BY ModFacts
    <2>2. PICK q \in Int : c + from = n * q + first
      BY ModFacts
    <2> HIDE DEF first
    <2>3. i \in from..(from + n - 1)
      BY <2>1
    <2>4. \E p \in Int : c + i = n * p + t
      <3>1. CASE t >= first
        BY <2>1, <2>2, <3>1
      <3>2. CASE ~(t >= first)
        <4> DEFINE p == q + 1
        <4>1. c + i = n * p + t /\ p \in Int
          BY <2>1, <2>2, <3>2
        <4> HIDE DEF p
        <4> QED
          BY <4>1
      <3> QED
        BY <3>1, <3>2
    <2> HIDE DEF i
    <2>5. (c + i) % n = t
      BY <2>4, ModIsUnique
    <2> QED
      BY <2>3, <2>5
  <1>4. f \in Bijection(A, B)
    BY <1>1, <1>2, <1>3 DEF Bijection, Injection, Surjection, IsInjective
  <1>5. IsFiniteSet(A)
    <2>1. IsFiniteSet(from..(from + n - 1)) /\ A \in SUBSET (from..(from + n - 1))
      BY FS_Interval
    <2> HIDE DEF A
    <2> QED
      BY <2>1, FS_Subset
  <1>6. Cardinality(A) = Cardinality(B)
    <2> HIDE DEF A, B, f
    <2> QED
      BY <1>4, <1>5, FS_Bijection DEF ExistsBijection
  <1>7. Cardinality(B) = hi - lo
    <2>1. lo \in Int /\ hi - 1 \in Int /\ lo <= hi
      OBVIOUS
    <2>2. Cardinality(B) = IF lo > hi - 1 THEN 0 ELSE (hi - 1) - lo + 1
      BY <2>1, FS_Interval
    <2> QED
      BY <2>1, <2>2
  <1> QED
    BY <1>6, <1>7

\* Of the first m numbers, no remainder occurs two times more often than
\* another.
LEMMA RemaindersAreEven ==
    ASSUME NEW n \in Nat, n > 0, NEW m \in Nat, NEW k \in 0..(n - 1), NEW l \in 0..(n - 1)
    PROVE  Cardinality({i \in 1..m : (i - 1) % n = k})
              <= Cardinality({i \in 1..m : (i - 1) % n = l}) + 1
  <1> DEFINE A == {i \in 1..m : (i - 1) % n = k}
             B == {i \in 1..m : (i - 1) % n = l}
             C == A \ {k + 1}
             back == IF l <= k THEN k - l ELSE n - (l - k)
             f == [i \in C |-> i - back]
  <1>1. ASSUME NEW i \in C PROVE i - back \in B
    <2>1. PICK q \in Int : i - 1 = n * q + k
      BY ModFacts
    <2>2. q >= 1
      <3>1. n * q + k >= 0 /\ n * q # 0
        BY <2>1
      <3>2. q > -1
        BY <3>1
      <3> QED
        BY <3>1, <3>2
    <2>3. n * q >= n
      BY <2>2
    <2>4. i - back >= 1 /\ i - back <= m
      BY <2>1, <2>3
    <2>5. (i - back) - 1 = n * q + l \/ (i - back) - 1 = n * (q - 1) + l
      BY <2>1
    <2>6. \E p \in Int : (i - back) - 1 = n * p + l
      <3> DEFINE p == q - 1
      <3>1. p \in Int /\ ((i - back) - 1 = n * q + l \/ (i - back) - 1 = n * p + l)
        BY <2>5
      <3> HIDE DEF p, back
      <3> QED
        BY <3>1
    <2>7. ((i - back) - 1) % n = l
      BY <2>6, ModIsUnique
    <2> QED
      BY <2>4, <2>7
  <1>2. f \in Injection(C, B)
    <2>1. f \in [C -> B]
      BY <1>1
    <2>2. \A i, j \in C : i \in Int /\ j \in Int /\ (f[i] = f[j] => i - back = j - back)
      OBVIOUS
    <2>3. back \in Int
      OBVIOUS
    <2> HIDE DEF f, back, B, C
    <2>4. \A i, j \in C : f[i] = f[j] => i = j
      BY <2>2, <2>3
    <2> QED
      BY <2>1, <2>4 DEF Injection, IsInjective
  <1>3. IsFiniteSet(A) /\ IsFiniteSet(B)
    <2>1. IsFiniteSet(1..m) /\ A \in SUBSET (1..m) /\ B \in SUBSET (1..m)
      BY FS_Interval
    <2> HIDE DEF A, B
    <2> QED
      BY <2>1, FS_Subset
  <1> HIDE DEF A, B, f
  <1>4. IsFiniteSet(C) /\ Cardinality(C) <= Cardinality(B)
    BY <1>2, <1>3, FS_Injection
  <1>5. Cardinality(A) \in Nat /\ Cardinality(B) \in Nat /\ Cardinality(C) \in Nat
    BY <1>3, <1>4, FS_CardinalityType
  <1>6. Cardinality(A) <= Cardinality(C) + 1
    <2>1. Cardinality(C) = IF k + 1 \in A THEN Cardinality(A) - 1 ELSE Cardinality(A)
      BY <1>3, FS_RemoveElement
    <2> HIDE DEF C
    <2> QED
      BY <1>5, <2>1
  <1> QED
    BY <1>4, <1>5, <1>6 DEF A, B

-----------------------------------------------------------------------------
(***************************************************************************)
(* Folds over sequences.                                                   *)
(***************************************************************************)
\* g is the recursive function inside FoldLeft, which takes the last element
\* first, for an operation given as a function F.
FoldsBy(F, g, base, seq, S) ==
    g = [s \in SUBSET S |-> IF s = {} THEN base ELSE F[g[s \ {Max(s)}]][seq[Max(s)]]]

\* The last element of a prefix, and what is before it.
LEMMA LastOfPrefix ==
    ASSUME NEW k \in Nat, k > 0
    PROVE  Max(1..k) = k /\ (1..k) \ {k} = 1..(k - 1) /\ 1..k # {}
  <1>1. IsFiniteSet(1..k) /\ 1..k \in SUBSET Int /\ k \in 1..k
    BY FS_Interval
  <1>2. Max(1..k) \in 1..k /\ \A x \in 1..k : x <= Max(1..k)
    BY <1>1, MaxFacts
  <1> QED
    BY <1>1, <1>2

\* A non-empty part of a finite set of numbers contains its maximum.
LEMMA MaxOfPart ==
    ASSUME NEW S \in SUBSET Nat, IsFiniteSet(S), NEW T \in SUBSET S, T # {}
    PROVE  Max(T) \in T
  <1>1. T \in SUBSET Int
    OBVIOUS
  <1>2. IsFiniteSet(T)
    BY FS_Subset
  <1> QED
    BY <1>1, <1>2, MaxFacts

\* Induction along a sequence, with a set in the place of the predicate.
LEMMA PrefixInduction ==
    ASSUME NEW n \in Nat, NEW Good, 0 \in Good,
           ASSUME NEW k \in 0..n - 1, k \in Good
           PROVE  k + 1 \in Good
    PROVE  n \in Good
  <1> DEFINE D == 1..n
             Fine == {T \in SUBSET D : \A k \in 0..n : T = 1..k => k \in Good}
  <1>1. ASSUME NEW T \in SUBSET D, \A U \in SUBSET T : U # T => U \in Fine
        PROVE  T \in Fine
    <2> SUFFICES ASSUME NEW k \in 0..n, T = 1..k PROVE k \in Good
      OBVIOUS
    <2>1. CASE k = 0
      BY <2>1
    <2>2. CASE k # 0
      <3>1. k - 1 \in 0..n - 1 /\ k - 1 \in 0..n /\ (k - 1) + 1 = k
        BY <2>2
      <3>2. 1..(k - 1) \in SUBSET T /\ 1..(k - 1) # T
        <4>1. k \in T /\ k \notin 1..(k - 1)
          BY <2>2
        <4> QED
          BY <4>1
      <3>3. 1..(k - 1) \in Fine
        BY <1>1, <3>2
      <3>4. k - 1 \in Good
        BY <3>1, <3>3
      <3> QED
        BY <3>1, <3>4
    <2> QED
      BY <2>1, <2>2
  <1>2. IsFiniteSet(D)
    BY FS_Interval
  <1> HIDE DEF Fine, D
  <1>3. SUBSET D \subseteq Fine
    BY <1>1, <1>2, SubsetInduction
  <1>4. n \in 0..n
    OBVIOUS
  <1> QED
    BY <1>3, <1>4 DEF Fine, D

\* Two functions that unfold the same fold agree wherever both are defined.
LEMMA FoldsAgree ==
    ASSUME NEW F, NEW g, NEW h, NEW base, NEW seq, NEW A \in SUBSET Nat, NEW B,
           NEW S \in SUBSET A, S \subseteq B, IsFiniteSet(S),
           FoldsBy(F, g, base, seq, A), FoldsBy(F, h, base, seq, B)
    PROVE  g[S] = h[S]
  <1> DEFINE Good == {T \in SUBSET S : g[T] = h[T]}
  <1>1. ASSUME NEW T \in SUBSET S, \A U \in SUBSET T : U # T => U \in Good
        PROVE  T \in Good
    <2>1. CASE T = {}
      BY <2>1 DEF FoldsBy
    <2>2. CASE T # {}
      <3>1. Max(T) \in T
        <4>1. S \in SUBSET Nat
          OBVIOUS
        <4> QED
          BY <2>2, <4>1, MaxOfPart
      <3>2. T \ {Max(T)} \in Good
        BY <1>1, <3>1
      <3>3. /\ g[T] = F[g[T \ {Max(T)}]][seq[Max(T)]]
            /\ h[T] = F[h[T \ {Max(T)}]][seq[Max(T)]]
        BY <2>2 DEF FoldsBy
      <3> QED
        BY <3>2, <3>3
    <2> QED
      BY <2>1, <2>2
  <1> HIDE DEF Good
  <1>2. SUBSET S \subseteq Good
    BY <1>1, SubsetInduction
  <1> QED
    BY <1>2 DEF Good

\* The function that FoldLeft chooses exists,
LEMMA FoldsExists ==
    ASSUME NEW F, NEW base, NEW seq, NEW S \in SUBSET Nat, IsFiniteSet(S)
    PROVE  \E g : FoldsBy(F, g, base, seq, S)
  <1> DEFINE Good == {T \in SUBSET S : \E g : FoldsBy(F, g, base, seq, T)}
  <1>1. ASSUME NEW T \in SUBSET S, \A U \in SUBSET T : U # T => U \in Good
        PROVE  T \in Good
    <2> DEFINE G(U) == CHOOSE g : FoldsBy(F, g, base, seq, U)
               rest == T \ {Max(T)}
               g == [s \in SUBSET T |->
                        IF s # T THEN G(s)[s]
                        ELSE IF s = {} THEN base ELSE F[G(rest)[rest]][seq[Max(T)]]]
    <2>1. \A U \in SUBSET T : U # T => FoldsBy(F, G(U), base, seq, U)
      BY <1>1
    <2>2. ASSUME NEW s \in SUBSET T
          PROVE  g[s] = IF s = {} THEN base ELSE F[g[s \ {Max(s)}]][seq[Max(s)]]
      <3> DEFINE r == s \ {Max(s)}
      <3>1. CASE s = {}
        <4>1. CASE s = T
          BY <3>1, <4>1
        <4>2. CASE s # T
          <5>1. FoldsBy(F, G(s), base, seq, s)
            BY <2>1, <4>2
          <5> HIDE DEF G
          <5>2. G(s)[s] = base
            BY <3>1, <5>1 DEF FoldsBy
          <5> QED
            BY <3>1, <4>2, <5>2
        <4> QED
          BY <4>1, <4>2
      <3>2. CASE s # {}
        <4>0. Max(s) \in s
          <5>1. s \in SUBSET S
            OBVIOUS
          <5> QED
            BY <3>2, <5>1, MaxOfPart
        <4>1. r \in SUBSET T /\ r # T /\ r # s /\ r \subseteq s
          BY <4>0
        <4>2. g[r] = G(r)[r]
          BY <4>1
        <4>3. CASE s = T
          <5>1. rest = r /\ g[s] = F[G(rest)[rest]][seq[Max(T)]]
            BY <3>2, <4>3
          <5> QED
            BY <3>2, <4>2, <4>3, <5>1
        <4>4. CASE s # T
          <5>1. /\ FoldsBy(F, G(s), base, seq, s) /\ FoldsBy(F, G(r), base, seq, r)
                /\ IsFiniteSet(r)
            BY <2>1, <4>1, <4>4, FS_Subset
          <5> HIDE DEF G
          <5>2. G(s)[r] = G(r)[r]
            <6>1. r \in SUBSET s /\ r \subseteq r /\ s \in SUBSET Nat
              BY <4>1
            <6> HIDE DEF r
            <6> QED
              BY <5>1, <6>1, FoldsAgree
          <5>3. G(s)[s] = F[G(s)[r]][seq[Max(s)]]
            BY <3>2, <5>1 DEF FoldsBy
          <5>4. g[s] = G(s)[s]
            BY <4>4
          <5> QED
            BY <3>2, <4>2, <5>2, <5>3, <5>4
        <4> QED
          BY <4>3, <4>4
      <3> QED
        BY <3>1, <3>2
    <2>3. g = [s \in SUBSET T |-> g[s]]
      OBVIOUS
    <2> HIDE DEF g
    <2>4. FoldsBy(F, g, base, seq, T)
      BY <2>2, <2>3 DEF FoldsBy
    <2> QED
      BY <2>4
  <1> HIDE DEF Good
  <1>2. SUBSET S \subseteq Good
    BY <1>1, SubsetInduction
  <1> QED
    BY <1>2 DEF Good

\* and stays in the type of the accumulator.
LEMMA FoldsStayTyped ==
    ASSUME NEW Acc, NEW X, NEW F, \A a \in Acc, x \in X : F[a][x] \in Acc,
           NEW base \in Acc, NEW seq \in Seq(X), NEW g,
           FoldsBy(F, g, base, seq, DOMAIN seq)
    PROVE  \A s \in SUBSET DOMAIN seq : g[s] \in Acc
  <1> DEFINE S == DOMAIN seq
             Good == {T \in SUBSET S : g[T] \in Acc}
  <1>0. S = 1..Len(seq) /\ Len(seq) \in Nat /\ \A i \in S : seq[i] \in X
    OBVIOUS
  <1>a. IsFiniteSet(1..Len(seq))
    BY <1>0, FS_Interval
  <1>1. S \in SUBSET Nat /\ IsFiniteSet(S) /\ \A i \in S : seq[i] \in X
    BY <1>0, <1>a
  <1>2. ASSUME NEW T \in SUBSET S, \A U \in SUBSET T : U # T => U \in Good
        PROVE  T \in Good
    <2>1. CASE T = {}
      BY <2>1 DEF FoldsBy
    <2>2. CASE T # {}
      <3>1. Max(T) \in T
        BY <1>1, <2>2, MaxOfPart
      <3>2. T \ {Max(T)} \in Good /\ seq[Max(T)] \in X
        BY <1>1, <1>2, <3>1
      <3>3. g[T] = F[g[T \ {Max(T)}]][seq[Max(T)]]
        BY <2>2 DEF FoldsBy
      <3> QED
        BY <3>2, <3>3
    <2> QED
      BY <2>1, <2>2
  <1> HIDE DEF Good, S
  <1>3. SUBSET S \subseteq Good
    BY <1>1, <1>2, SubsetInduction
  <1> QED
    BY <1>3 DEF Good, S

-----------------------------------------------------------------------------
(***************************************************************************)
(* Voting power.                                                           *)
(***************************************************************************)
\* The power of a set of authors is a sum over the validators among them; it
\* grows with the set.
LEMMA PowerFacts ==
    ASSUME NEW S, NEW T, S \subseteq T
    PROVE  PowerOf(S) \in Nat /\ PowerOf(T) \in Nat /\ PowerOf(S) <= PowerOf(T)
  <1>1. PowerOf(S) = SumOver(Power, S \cap Validators) /\ PowerOf(T) = SumOver(Power, T \cap Validators)
    BY DEF PowerOf, SumOver
  <1>2. IsFiniteSet(S \cap Validators) /\ IsFiniteSet(T \cap Validators)
    BY PendingVotesConstants, FS_Subset
  <1>3. \A v \in Validators : Power[v] \in Nat
    BY PendingVotesConstants
  <1>4. S \cap Validators \in SUBSET (T \cap Validators)
    OBVIOUS
  <1>5. SumOver(Power, S \cap Validators) \in Nat /\ SumOver(Power, T \cap Validators) \in Nat
    BY <1>2, <1>3, SumType
  <1>6. SumOver(Power, S \cap Validators) <= SumOver(Power, T \cap Validators)
    BY <1>2, <1>3, <1>4, SumMonotone
  <1> QED
    BY <1>1, <1>5, <1>6

\* check_voting_power: a set that holds a quorum is one.
LEMMA QuorumGrows ==
    ASSUME NEW S, NEW T, S \subseteq T, CheckVotingPower(S)
    PROVE  CheckVotingPower(T)
  <1>1. QuorumVotingPower \in Nat
    BY PowerFacts DEF QuorumVotingPower
  <1>2. PowerOf(S) \in Nat /\ PowerOf(T) \in Nat /\ PowerOf(S) <= PowerOf(T)
    BY PowerFacts
  <1>3. PowerOf(S) >= QuorumVotingPower
    BY DEF CheckVotingPower
  <1>4. PowerOf(T) >= QuorumVotingPower
    BY <1>1, <1>2, <1>3
  <1> QED
    BY <1>4 DEF CheckVotingPower

\* Nobody is no quorum: its threshold is at least one.
LEMMA NoQuorumOfNone == ~CheckVotingPower({})
  <1>1. PowerOf({}) = 0
    <2>1. PowerOf({}) = SumOver(Power, {} \cap Validators) /\ {} \cap Validators = {}
      BY DEF PowerOf, SumOver
    <2> QED
      BY <2>1, SumEmpty
  <1>2. QuorumVotingPower \in Nat /\ QuorumVotingPower > 0
    BY PowerFacts DEF QuorumVotingPower
  <1> QED
    BY <1>1, <1>2 DEF CheckVotingPower

-----------------------------------------------------------------------------
(***************************************************************************)
(* The safety rules.                                                       *)
(***************************************************************************)
\* TwoChainSafetyRules::new gives a well-typed state with all rounds 0.
LEMMA NewSafetyStateFacts ==
    ASSUME NEW e \in U64
    PROVE  /\ NewSafetyState(e) \in SafetyStateData
           /\ NewSafetyState(e).last_voted_round = 0
           /\ NewSafetyState(e).preferred_round = 0
           /\ NewSafetyState(e).one_chain_round = 0
  BY SafetyConstants DEF NewSafetyState, SafetyStateData, U64

\* Every safety state is at least itself,
LEMMA RoundsAtLeastReflexive ==
    ASSUME NEW s \in SafetyStateData
    PROVE  RoundsAtLeast(s, s)
  BY SafetyConstants DEF RoundsAtLeast, SafetyStateData, U64

\* and "at least" is transitive.
LEMMA RoundsAtLeastTransitive ==
    ASSUME NEW s \in SafetyStateData, NEW t \in SafetyStateData,
           NEW u \in SafetyStateData,
           RoundsAtLeast(s, t), RoundsAtLeast(t, u)
    PROVE  RoundsAtLeast(s, u)
  BY SafetyConstants DEF RoundsAtLeast, SafetyStateData, U64

\* record_vote raises last_voted_round to the vote's round at least, and
\* touches nothing else.
LEMMA RecordVoteFacts ==
    ASSUME NEW s \in SafetyStateData, NEW r \in U64
    PROVE  /\ RecordVote(s, r) \in SafetyStateData
           /\ RoundsAtLeast(RecordVote(s, r), s)
           /\ RecordVote(s, r).last_voted_round >= r
           /\ RecordVote(s, r).preferred_round = s.preferred_round
           /\ RecordVote(s, r).one_chain_round = s.one_chain_round
  BY SafetyConstants
  DEF RecordVote, Larger, RoundsAtLeast, SafetyStateData, U64

\* record_timeout raises highest_timeout_round only.
LEMMA RecordTimeoutFacts ==
    ASSUME NEW s \in SafetyStateData, NEW r \in U64
    PROVE  /\ RecordTimeout(s, r) \in SafetyStateData
           /\ RoundsAtLeast(RecordTimeout(s, r), s)
           /\ RecordTimeout(s, r).last_voted_round = s.last_voted_round
           /\ RecordTimeout(s, r).preferred_round = s.preferred_round
           /\ RecordTimeout(s, r).one_chain_round = s.one_chain_round
  BY SafetyConstants
  DEF RecordTimeout, UpdateHighestTimeoutRound, Larger, RoundsAtLeast,
      SafetyStateData, U64

\* The three update_* functions each raise their own round only.
LEMMA UpdateFacts ==
    ASSUME NEW s \in SafetyStateData, NEW r \in U64
    PROVE  /\ UpdateOneChainRound(s, r) \in SafetyStateData
           /\ UpdateOneChainRound(s, r).last_voted_round = s.last_voted_round
           /\ UpdateOneChainRound(s, r).preferred_round = s.preferred_round
           /\ UpdateOneChainRound(s, r).one_chain_round = Larger(s.one_chain_round, r)
           /\ UpdateOneChainRound(s, r).highest_timeout_round = s.highest_timeout_round
           /\ UpdatePreferredRound(s, r) \in SafetyStateData
           /\ UpdatePreferredRound(s, r).last_voted_round = s.last_voted_round
           /\ UpdatePreferredRound(s, r).preferred_round = Larger(s.preferred_round, r)
           /\ UpdatePreferredRound(s, r).one_chain_round = s.one_chain_round
           /\ UpdatePreferredRound(s, r).highest_timeout_round = s.highest_timeout_round
           /\ UpdateHighestTimeoutRound(s, r) \in SafetyStateData
           /\ UpdateHighestTimeoutRound(s, r).last_voted_round = s.last_voted_round
           /\ UpdateHighestTimeoutRound(s, r).preferred_round = s.preferred_round
           /\ UpdateHighestTimeoutRound(s, r).one_chain_round = s.one_chain_round
           /\ UpdateHighestTimeoutRound(s, r).highest_timeout_round
                 = Larger(s.highest_timeout_round, r)
  <1>1. \A a, b \in U64 : Larger(a, b) \in U64
    BY DEF Larger
  <1> QED
    BY <1>1 DEF UpdateOneChainRound, UpdatePreferredRound,
                UpdateHighestTimeoutRound, SafetyStateData

\* observe_qc takes one_chain_round to the larger of the two rounds, and
\* preferred_round only to a round one above the old one_chain_round.
LEMMA ObserveQcFacts ==
    ASSUME NEW s \in SafetyStateData, NEW r \in U64
    PROVE  /\ ObserveQc(s, r) \in SafetyStateData
           /\ RoundsAtLeast(ObserveQc(s, r), s)
           /\ ObserveQc(s, r).last_voted_round = s.last_voted_round
           /\ ObserveQc(s, r).one_chain_round = Larger(s.one_chain_round, r)
           /\ \/ ObserveQc(s, r).preferred_round = s.preferred_round
              \/ /\ ObserveQc(s, r).preferred_round = r
                 /\ r = s.one_chain_round + 1
  <1>1. PICK t \in {s, UpdatePreferredRound(s, r)} :
            /\ ObserveQc(s, r) = UpdateOneChainRound(t, r)
            /\ t # s => r = WrappingAdd(s.one_chain_round, 1)
    BY DEF ObserveQc
  <1>2. /\ t \in SafetyStateData
        /\ t.last_voted_round = s.last_voted_round
        /\ t.one_chain_round = s.one_chain_round
        /\ t.highest_timeout_round = s.highest_timeout_round
        /\ \/ t.preferred_round = s.preferred_round
           \/ /\ t.preferred_round = Larger(s.preferred_round, r)
              /\ r = WrappingAdd(s.one_chain_round, 1)
    BY <1>1, UpdateFacts
  <1>3. r = WrappingAdd(s.one_chain_round, 1) => r = s.one_chain_round + 1 \/ r = 0
    BY SafetyConstants DEF WrappingAdd, SafetyStateData, U64
  <1>4. /\ ObserveQc(s, r) \in SafetyStateData
        /\ ObserveQc(s, r).last_voted_round = t.last_voted_round
        /\ ObserveQc(s, r).preferred_round = t.preferred_round
        /\ ObserveQc(s, r).one_chain_round = Larger(t.one_chain_round, r)
        /\ ObserveQc(s, r).highest_timeout_round = t.highest_timeout_round
    <2>1. t \in SafetyStateData
      BY <1>2
    <2>2. /\ UpdateOneChainRound(t, r) \in SafetyStateData
          /\ UpdateOneChainRound(t, r).last_voted_round = t.last_voted_round
          /\ UpdateOneChainRound(t, r).preferred_round = t.preferred_round
          /\ UpdateOneChainRound(t, r).one_chain_round = Larger(t.one_chain_round, r)
          /\ UpdateOneChainRound(t, r).highest_timeout_round = t.highest_timeout_round
      BY <2>1, UpdateFacts
    <2>3. ObserveQc(s, r) = UpdateOneChainRound(t, r)
      BY <1>1
    <2> QED
      BY <2>2, <2>3
  <1> QED
    BY <1>2, <1>3, <1>4, SafetyConstants
    DEF Larger, RoundsAtLeast, SafetyStateData, U64

\* observe_tc raises one_chain_round to the certificate's hqc_round and the
\* highest timeout round, and leaves preferred_round behind.
LEMMA ObserveTcFacts ==
    ASSUME NEW s \in SafetyStateData, NEW tc, tc.round \in U64, tc.hqc_round \in U64
    PROVE  /\ ObserveTc(s, tc) \in SafetyStateData
           /\ RoundsAtLeast(ObserveTc(s, tc), s)
           /\ ObserveTc(s, tc).last_voted_round = s.last_voted_round
           /\ ObserveTc(s, tc).one_chain_round = Larger(s.one_chain_round, tc.hqc_round)
           /\ ObserveTc(s, tc).preferred_round = s.preferred_round
  <1>1. tc.round \in U64 /\ tc.hqc_round \in U64
    OBVIOUS
  <1>2. PICK t \in SafetyStateData :
            /\ ObserveTc(s, tc) = UpdateOneChainRound(t, tc.hqc_round)
            /\ t.last_voted_round = s.last_voted_round
            /\ t.preferred_round = s.preferred_round
            /\ t.one_chain_round = s.one_chain_round
            /\ t.highest_timeout_round = Larger(s.highest_timeout_round, tc.round)
    BY <1>1, UpdateFacts DEF ObserveTc
  <1>3. \A h \in U64 :
            /\ UpdateOneChainRound(t, h) \in SafetyStateData
            /\ UpdateOneChainRound(t, h).last_voted_round = t.last_voted_round
            /\ UpdateOneChainRound(t, h).preferred_round = t.preferred_round
            /\ UpdateOneChainRound(t, h).one_chain_round = Larger(t.one_chain_round, h)
            /\ UpdateOneChainRound(t, h).highest_timeout_round = t.highest_timeout_round
    BY UpdateFacts
  <1>4. /\ ObserveTc(s, tc) \in SafetyStateData
        /\ ObserveTc(s, tc).last_voted_round = t.last_voted_round
        /\ ObserveTc(s, tc).preferred_round = t.preferred_round
        /\ ObserveTc(s, tc).one_chain_round = Larger(t.one_chain_round, tc.hqc_round)
        /\ ObserveTc(s, tc).highest_timeout_round = t.highest_timeout_round
    BY <1>1, <1>2, <1>3
  <1> QED
    BY <1>1, <1>2, <1>4, SafetyConstants
    DEF Larger, RoundsAtLeast, SafetyStateData, U64

-----------------------------------------------------------------------------
(***************************************************************************)
(* The pipeline.                                                           *)
(***************************************************************************)
\* A block on its way through the pipeline, none of whose stages stops it.
PipelineRuns(b) == [stats : PipelineStats, block : {b}, verdict : {"Continue"}]

\* A visit of a stage counts that stage and one more visit, nothing else.
LEMMA VisitFacts ==
    ASSUME NEW b, NEW run \in PipelineRuns(b), NEW stage \in StageNames
    PROVE  /\ VisitStage(run, stage) \in PipelineRuns(b)
           /\ VisitStage(run, stage).stats = CountStage(run.stats, stage)
           /\ CountStage(run.stats, stage).stage_counts =
                 [run.stats.stage_counts EXCEPT ![stage] = @ + 1]
           /\ CountStage(run.stats, stage).total_processed = run.stats.total_processed + 1
           /\ CountStage(run.stats, stage).failed = run.stats.failed
           /\ CountStage(run.stats, stage).skipped = run.stats.skipped
  <1> DEFINE s == run.stats
             c == CountStage(s, stage)
  <1>1. s \in PipelineStats /\ run.verdict = "Continue"
    BY DEF PipelineRuns
  <1>2. /\ c.stage_counts = [s.stage_counts EXCEPT ![stage] = @ + 1]
        /\ c.total_processed = s.total_processed + 1
        /\ c.failed = s.failed /\ c.skipped = s.skipped
    BY <1>1 DEF CountStage, PipelineStats
  <1>3. c \in PipelineStats
    <2> DEFINE counts == [s.stage_counts EXCEPT ![stage] = @ + 1]
    <2>1. counts \in [StageNames -> Nat] /\ s.total_processed + 1 \in Nat
      BY <1>1 DEF PipelineStats
    <2>2. c = [s EXCEPT !.stage_counts = counts, !.total_processed = @ + 1]
      BY DEF CountStage
    <2> HIDE DEF counts, c
    <2> QED
      BY <1>1, <2>1, <2>2 DEF PipelineStats
  <1>4. VisitStage(run, stage) = [run EXCEPT !.stats = c]
    BY <1>1 DEF VisitStage, ShouldContinue, ProcessAtStage
  <1>5. [run EXCEPT !.stats = c] \in PipelineRuns(b) /\ [run EXCEPT !.stats = c].stats = c
    <2> HIDE DEF c
    <2> QED
      BY <1>3 DEF PipelineRuns
  <1> QED
    BY <1>2, <1>4, <1>5

\* g is the recursive function inside the fold of process_block.
Visits(g, base) ==
    g = [s \in SUBSET DOMAIN Stages |->
            IF s = {} THEN base ELSE VisitStage(g[s \ {Max(s)}], Stages[Max(s)])]

\* The function exists, and the fold is its value for all the stages.
LEMMA VisitsUnfold ==
    ASSUME NEW b, NEW base \in PipelineRuns(b)
    PROVE  \E g : Visits(g, base) /\ FoldLeft(VisitStage, base, Stages) = g[DOMAIN Stages]
  <1> DEFINE Runs == PipelineRuns(b)
             F == [run \in Runs |-> [stage \in StageNames |-> VisitStage(run, stage)]]
             D == DOMAIN Stages
             h == CHOOSE g : Visits(g, base)
  <1>b. Stages \in Seq(StageNames)
    BY DEF Stages, StageNames
  <1>0. D = 1..Len(Stages) /\ Len(Stages) \in Nat /\ \A i \in D : Stages[i] \in StageNames
    BY <1>b
  <1>a. IsFiniteSet(1..Len(Stages))
    BY <1>0, FS_Interval
  <1>1. D \in SUBSET Nat /\ IsFiniteSet(D)
    BY <1>0, <1>a
  <1>2. \A a \in Runs, x \in StageNames : F[a][x] \in Runs /\ F[a][x] = VisitStage(a, x)
    BY VisitFacts
  <1> HIDE DEF F, Runs
  <1>3. PICK g : FoldsBy(F, g, base, Stages, D)
    BY <1>1, FoldsExists
  <1>4. \A s \in SUBSET D : g[s] \in Runs
    <2>1. base \in Runs
      BY DEF Runs
    <2> QED
      BY <1>2, <1>3, <1>b, <2>1, FoldsStayTyped
  <1>5. ASSUME NEW s \in SUBSET D, s # {}
        PROVE  F[g[s \ {Max(s)}]][Stages[Max(s)]] = VisitStage(g[s \ {Max(s)}], Stages[Max(s)])
    <2>1. Max(s) \in s
      BY <1>1, <1>5, MaxOfPart
    <2>2. Stages[Max(s)] \in StageNames /\ g[s \ {Max(s)}] \in Runs
      BY <1>0, <1>4, <2>1
    <2> QED
      BY <1>2, <2>2
  <1>6. Visits(g, base)
    <2> HIDE DEF D
    <2>1. \A s \in SUBSET D :
             (IF s = {} THEN base ELSE F[g[s \ {Max(s)}]][Stages[Max(s)]])
               = (IF s = {} THEN base ELSE VisitStage(g[s \ {Max(s)}], Stages[Max(s)]))
      BY <1>5
    <2>2. g = [s \in SUBSET D |->
                  IF s = {} THEN base ELSE VisitStage(g[s \ {Max(s)}], Stages[Max(s)])]
      BY <1>3, <2>1 DEF FoldsBy
    <2> QED
      BY <2>2 DEF Visits, D
  <1>7. Visits(h, base)
    BY <1>6
  <1>8. FoldLeft(VisitStage, base, Stages) = h[DOMAIN Stages]
    BY DEF FoldLeft, MapThenFoldSet, Visits
  <1> QED
    BY <1>7, <1>8

\* process_block takes every block through all four stages, in their order,
\* and counts each visit.
LEMMA BlockVisitsAllStages ==
    ASSUME NEW s \in PipelineStats, NEW b
    PROVE  /\ PipelineBlock(s, b).stats \in PipelineStats
           /\ PipelineBlock(s, b).verdict = "Continue"
           /\ \A stage \in StageNames :
                 PipelineBlock(s, b).stats.stage_counts[stage] = s.stage_counts[stage] + 1
           /\ PipelineBlock(s, b).stats.total_processed = s.total_processed + 4
           /\ PipelineBlock(s, b).stats.failed = s.failed
           /\ PipelineBlock(s, b).stats.skipped = s.skipped
  <1> DEFINE base == [stats |-> s, block |-> b, verdict |-> "Continue"]
  <1>1. base \in PipelineRuns(b) /\ base.stats = s
    BY DEF PipelineRuns
  <1>2. PICK g : Visits(g, base) /\ PipelineBlock(s, b) = g[DOMAIN Stages]
    BY <1>1, VisitsUnfold DEF PipelineBlock
  <1> HIDE DEF base
  <1>3. /\ DOMAIN Stages = 1..4 /\ Stages[1] = "Receiving" /\ Stages[2] = "Validation"
        /\ Stages[3] = "Processing" /\ Stages[4] = "Commit"
    BY DEF Stages
  <1>4. g[{}] = base /\ 1..0 = {}
    BY <1>2 DEF Visits
  <1>5. ASSUME NEW k \in 1..4 PROVE g[1..k] = VisitStage(g[1..(k - 1)], Stages[k])
    <2>1. Max(1..k) = k /\ (1..k) \ {k} = 1..(k - 1) /\ 1..k # {}
      BY LastOfPrefix
    <2>2. 1..k \in SUBSET DOMAIN Stages
      BY <1>3
    <2>3. g[1..k] = VisitStage(g[(1..k) \ {Max(1..k)}], Stages[Max(1..k)])
      <3> DEFINE p == 1..k
      <3>1. p \in SUBSET DOMAIN Stages /\ p # {}
        BY <2>1, <2>2
      <3> HIDE DEF p
      <3>2. g[p] = VisitStage(g[p \ {Max(p)}], Stages[Max(p)])
        BY <1>2, <3>1 DEF Visits
      <3> QED
        BY <3>2 DEF p
    <2> QED
      BY <2>1, <2>3
  <1> DEFINE Run(k) == g[1..k]
  <1>6. /\ Run(0) = base
        /\ Run(1) = VisitStage(Run(0), "Receiving")
        /\ Run(2) = VisitStage(Run(1), "Validation")
        /\ Run(3) = VisitStage(Run(2), "Processing")
        /\ Run(4) = VisitStage(Run(3), "Commit")
        /\ PipelineBlock(s, b) = Run(4)
    <2>1. Run(0) = base /\ PipelineBlock(s, b) = Run(4)
      BY <1>2, <1>3, <1>4
    <2>2. \A k \in 1..4 : Run(k) = VisitStage(Run(k - 1), Stages[k])
      BY <1>5
    <2> HIDE DEF Run
    <2>3. /\ Run(1) = VisitStage(Run(1 - 1), Stages[1]) /\ Run(2) = VisitStage(Run(2 - 1), Stages[2])
          /\ Run(3) = VisitStage(Run(3 - 1), Stages[3]) /\ Run(4) = VisitStage(Run(4 - 1), Stages[4])
      BY <2>2
    <2>4. 1 - 1 = 0 /\ 2 - 1 = 1 /\ 3 - 1 = 2 /\ 4 - 1 = 3
      OBVIOUS
    <2> QED
      BY <1>3, <2>1, <2>3, <2>4
  <1> HIDE DEF Run
  <1>7. "Receiving" \in StageNames /\ "Validation" \in StageNames /\ "Processing" \in StageNames /\ "Commit" \in StageNames
    BY DEF StageNames
  <1> DEFINE Counts(k) == Run(k).stats.stage_counts
             Rest(k) == Run(k).stats
  <1>8. ASSUME NEW k \in 0..3, NEW stage \in StageNames, Run(k) \in PipelineRuns(b),
               Run(k + 1) = VisitStage(Run(k), stage)
        PROVE  /\ Run(k + 1) \in PipelineRuns(b)
               /\ Counts(k + 1) = [Counts(k) EXCEPT ![stage] = @ + 1]
               /\ Rest(k + 1).total_processed = Rest(k).total_processed + 1
               /\ Rest(k + 1).failed = Rest(k).failed /\ Rest(k + 1).skipped = Rest(k).skipped
    <2> DEFINE run == Run(k)
    <2>1. run \in PipelineRuns(b) /\ Run(k + 1) = VisitStage(run, stage)
      BY <1>8
    <2> HIDE DEF run
    <2>2. /\ VisitStage(run, stage) \in PipelineRuns(b)
          /\ VisitStage(run, stage).stats = CountStage(run.stats, stage)
          /\ CountStage(run.stats, stage).stage_counts =
                [run.stats.stage_counts EXCEPT ![stage] = @ + 1]
          /\ CountStage(run.stats, stage).total_processed = run.stats.total_processed + 1
          /\ CountStage(run.stats, stage).failed = run.stats.failed
          /\ CountStage(run.stats, stage).skipped = run.stats.skipped
      BY <2>1, VisitFacts
    <2> QED
      BY <2>1, <2>2 DEF run
  <1> DEFINE Step(k, stage) ==
               /\ Run(k + 1) \in PipelineRuns(b)
               /\ Counts(k + 1) = [Counts(k) EXCEPT ![stage] = @ + 1]
               /\ Rest(k + 1).total_processed = Rest(k).total_processed + 1
               /\ Rest(k + 1).failed = Rest(k).failed /\ Rest(k + 1).skipped = Rest(k).skipped
  <1>9. /\ Run(0) \in PipelineRuns(b) /\ Run(0).stats = s
        /\ Step(0, "Receiving") /\ Step(1, "Validation")
        /\ Step(2, "Processing") /\ Step(3, "Commit")
    <2>0. Run(0) \in PipelineRuns(b) /\ Run(0).stats = s
      BY <1>1, <1>6
    <2>a. 0 + 1 = 1 /\ 1 + 1 = 2 /\ 2 + 1 = 3 /\ 3 + 1 = 4
      OBVIOUS
    <2>1. Step(0, "Receiving")
      BY <1>6, <1>7, <1>8, <2>0, <2>a
    <2>2. Step(1, "Validation")
      BY <1>6, <1>7, <1>8, <2>1, <2>a
    <2>3. Step(2, "Processing")
      BY <1>6, <1>7, <1>8, <2>2, <2>a
    <2>4. Step(3, "Commit")
      BY <1>6, <1>7, <1>8, <2>3, <2>a
    <2> QED
      BY <2>0, <2>1, <2>2, <2>3, <2>4
  <1>10. /\ Run(4).stats.total_processed = s.total_processed + 4
         /\ Run(4).stats.failed = s.failed /\ Run(4).stats.skipped = s.skipped
    <2>1. s.total_processed \in Nat
      BY DEF PipelineStats
    <2> QED
      BY <1>9, <2>1
  <1>11. ASSUME NEW stage \in StageNames PROVE Counts(4)[stage] = s.stage_counts[stage] + 1
    <2>1. s.stage_counts \in [StageNames -> Nat]
      BY DEF PipelineStats
    <2>2. /\ Counts(0) = s.stage_counts
          /\ Counts(1) = [Counts(0) EXCEPT !["Receiving"] = @ + 1]
          /\ Counts(2) = [Counts(1) EXCEPT !["Validation"] = @ + 1]
          /\ Counts(3) = [Counts(2) EXCEPT !["Processing"] = @ + 1]
          /\ Counts(4) = [Counts(3) EXCEPT !["Commit"] = @ + 1]
      BY <1>9
    <2> HIDE DEF Counts
    <2> QED
      BY <2>1, <2>2 DEF StageNames
  <1>12. Run(4).stats \in PipelineStats /\ Run(4).verdict = "Continue"
    <2>1. Run(4) \in PipelineRuns(b)
      BY <1>9
    <2> QED
      BY <2>1 DEF PipelineRuns
  <1> QED
    BY <1>6, <1>10, <1>11, <1>12
=============================================================================
