----------------------------- MODULE SumTheorems -----------------------------
(***************************************************************************)
(* Lemmas about SumFunctionOnSet of module Functions, for finite sets of   *)
(* any size.  The induction theorems of the library quantify over an       *)
(* operator, which the provers cannot instantiate; every induction here is *)
(* an argument about a minimal counterexample (WFMin).                     *)
(***************************************************************************)
EXTENDS Functions, FiniteSetTheorems, TLAPS

\* A nonempty set of naturals has a least element.
LEMMA LeastNatural ==
    ASSUME NEW T \in SUBSET Nat, T # {}
    PROVE  \E m \in T : \A n \in T : m <= n
<1> DEFINE R == OpToRel(<, Nat)
<1>1. IsWellFoundedOn(R, Nat)
    BY NatLessThanWellFounded
<1> HIDE DEF R
<1>2. \E m \in T : \A n \in T : ~ (<<n, m>> \in R)
    BY <1>1, WFMin
<1>3. ASSUME NEW m \in Nat, NEW n \in Nat, ~ (<<n, m>> \in R)
      PROVE  m <= n
    BY <1>3 DEF R, OpToRel
<1>4. T \subseteq Nat
    OBVIOUS
<1>5. PICK m \in T : \A n \in T : ~ (<<n, m>> \in R)
    BY <1>2
<1>6. \A n \in T : m <= n
    BY <1>3, <1>4, <1>5
<1> QED
    BY <1>5, <1>6

\* A nonempty set of subsets of a finite set has a minimal element.
LEMMA MinimalSubset ==
    ASSUME NEW S, IsFiniteSet(S), NEW T \in SUBSET SUBSET S, T # {}
    PROVE  \E m \in T : \A n \in T : n \subseteq m => n = m
<1> DEFINE R == StrictSubsetOrdering(S)
<1>1. IsWellFoundedOn(R, SUBSET S)
    BY FS_StrictSubsetOrderingWellFounded, FS_FiniteSubsetsOfFinite
<1> HIDE DEF R
<1>2. \E m \in T : \A n \in T : ~ (<<n, m>> \in R)
    BY <1>1, WFMin
<1>3. ASSUME NEW m \in SUBSET S, NEW n \in SUBSET S, n \subseteq m, n # m
      PROVE  <<n, m>> \in R
    BY <1>3 DEF R, StrictSubsetOrdering
<1> QED
    BY <1>2, <1>3

\* The element a sum takes from a set next.
Pick(s) == CHOOSE x \in s : TRUE

\* The equation that defines the partial sums over the subsets of S.
Sums(g, f, S) == g = [s \in SUBSET S |-> IF s = {} THEN 0 ELSE f[Pick(s)] + g[s \ {Pick(s)}]]

\* A sum is read off the partial sums that CHOOSE picks.
LEMMA SumUnfolds ==
    ASSUME NEW f, NEW S
    PROVE  SumFunctionOnSet(f, S) = (CHOOSE g : Sums(g, f, S))[S]
    BY DEF SumFunctionOnSet, FoldFunctionOnSet, MapThenFoldSet, Sums, Pick

\* Where the equation is asked of small subsets only.
SumsUpTo(g, f, S, n) ==
    \A s \in SUBSET S : Cardinality(s) <= n =>
        g[s] = IF s = {} THEN 0 ELSE f[Pick(s)] + g[s \ {Pick(s)}]

\* What is picked from a nonempty set is a member of it.
LEMMA PickMember ==
    ASSUME NEW s, s # {}
    PROVE  Pick(s) \in s
BY DEF Pick

\* What is left after a pick is a smaller subset.
LEMMA SmallerRest ==
    ASSUME NEW S, IsFiniteSet(S), NEW s \in SUBSET S, s # {}
    PROVE  /\ s \ {Pick(s)} \in SUBSET S
           /\ s \ {Pick(s)} # s
           /\ Cardinality(s) \in Nat \ {0}
           /\ Cardinality(s \ {Pick(s)}) = Cardinality(s) - 1
<1>1. IsFiniteSet(s)
    BY FS_Subset
<1>2. Pick(s) \in s
    BY PickMember
<1>3. Cardinality(s) \in Nat /\ Cardinality(s) # 0
    BY <1>1, FS_CardinalityType, FS_EmptySet
<1>4. Cardinality(s \ {Pick(s)}) = Cardinality(s) - 1
    BY <1>1, <1>2, FS_RemoveElement
<1> QED
    BY <1>2, <1>3, <1>4

\* Partial sums up to a size can be extended to the next size.
LEMMA SumsUpToStep ==
    ASSUME NEW f, NEW S, IsFiniteSet(S), NEW n \in Nat,
           NEW g, g = [s \in SUBSET S |-> g[s]], SumsUpTo(g, f, S, n)
    PROVE  \E h : h = [s \in SUBSET S |-> h[s]] /\ SumsUpTo(h, f, S, n + 1)
<1> DEFINE h == [s \in SUBSET S |->
                    IF Cardinality(s) <= n THEN g[s] ELSE f[Pick(s)] + g[s \ {Pick(s)}]]
<1>1. h = [s \in SUBSET S |-> h[s]]
    OBVIOUS
<1>2. ASSUME NEW s \in SUBSET S, Cardinality(s) <= n + 1
      PROVE  h[s] = IF s = {} THEN 0 ELSE f[Pick(s)] + h[s \ {Pick(s)}]
    <2>1. CASE s = {}
        <3>1. Cardinality(s) = 0
            BY <2>1, FS_EmptySet
        <3>2. h[s] = g[s]
            BY <3>1
        <3> HIDE DEF h
        <3>3. Cardinality(s) <= n
            BY <3>1
        <3>4. g[s] = IF s = {} THEN 0 ELSE f[Pick(s)] + g[s \ {Pick(s)}]
            BY <3>3 DEF SumsUpTo
        <3> QED
            BY <2>1, <3>2, <3>4
    <2>2. CASE s # {}
        <3> DEFINE r == s \ {Pick(s)}
        <3>1. r \in SUBSET S /\ Cardinality(s) \in Nat \ {0} /\ Cardinality(r) = Cardinality(s) - 1
            BY <2>2, SmallerRest
        <3> HIDE DEF r
        <3>2. Cardinality(r) <= n
            BY <1>2, <3>1
        <3>3. h[r] = g[r]
            BY <3>1, <3>2
        <3>4. h[s] = f[Pick(s)] + g[r]
            <4>1. CASE Cardinality(s) <= n
                <5>1. h[s] = g[s]
                    BY <4>1
                <5>2. g[s] = f[Pick(s)] + g[r]
                    BY <2>2, <4>1 DEF SumsUpTo, r
                <5> QED
                    BY <5>1, <5>2
            <4>2. CASE ~(Cardinality(s) <= n)
                BY <4>2 DEF r
            <4> QED
                BY <4>1, <4>2
        <3> QED
            BY <2>2, <3>3, <3>4 DEF r
    <2> QED
        BY <2>1, <2>2
<1> HIDE DEF h
<1>3. SumsUpTo(h, f, S, n + 1)
    BY <1>2 DEF SumsUpTo
<1> QED
    BY <1>1, <1>3

\* The partial sums exist: there is no least n up to which they do not.
LEMMA SumsExist ==
    ASSUME NEW f, NEW S, IsFiniteSet(S)
    PROVE  \E g : Sums(g, f, S)
<1> DEFINE P(n) == \E g : g = [s \in SUBSET S |-> g[s]] /\ SumsUpTo(g, f, S, n)
           Bad == {n \in Nat : ~P(n)}
<1>1. P(0)
    <2> DEFINE z == [s \in SUBSET S |-> 0]
    <2>1. z = [s \in SUBSET S |-> z[s]]
        OBVIOUS
    <2>2. ASSUME NEW s \in SUBSET S, Cardinality(s) <= 0
          PROVE  s = {}
        <3>1. IsFiniteSet(s)
            BY FS_Subset
        <3>2. Cardinality(s) = 0
            BY <2>2, <3>1, FS_CardinalityType
        <3> QED
            BY <3>1, <3>2, FS_EmptySet
    <2>3. SumsUpTo(z, f, S, 0)
        BY <2>2 DEF SumsUpTo
    <2> HIDE DEF z
    <2> QED
        BY <2>1, <2>3
<1>2. ASSUME NEW n \in Nat, P(n)
      PROVE  P(n + 1)
    BY <1>2, SumsUpToStep
<1> HIDE DEF P
<1>3. Bad = {}
    <2>1. SUFFICES ASSUME Bad # {}
                   PROVE  FALSE
        OBVIOUS
    <2>2. PICK m \in Bad : \A n \in Bad : m <= n
        BY <2>1, LeastNatural
    <2>3. m \in Nat /\ m # 0
        BY <1>1, <2>2
    <2>4. m - 1 \in Nat /\ m - 1 \notin Bad
        BY <2>2, <2>3
    <2>5. P(m - 1 + 1)
        BY <1>2, <2>4
    <2>6. m - 1 + 1 = m
        BY <2>3
    <2> QED
        BY <2>2, <2>5, <2>6
<1>4. Cardinality(S) \in Nat
    BY FS_CardinalityType
<1>5. P(Cardinality(S))
    BY <1>3, <1>4
<1>6. PICK g : g = [s \in SUBSET S |-> g[s]] /\ SumsUpTo(g, f, S, Cardinality(S))
    BY <1>5 DEF P
<1>7. ASSUME NEW s \in SUBSET S
      PROVE  g[s] = IF s = {} THEN 0 ELSE f[Pick(s)] + g[s \ {Pick(s)}]
    <2>1. Cardinality(s) <= Cardinality(S)
        BY FS_Subset
    <2> QED
        BY <1>6, <2>1 DEF SumsUpTo
<1>8. Sums(g, f, S)
    <2> DEFINE e == [s \in SUBSET S |-> IF s = {} THEN 0 ELSE f[Pick(s)] + g[s \ {Pick(s)}]]
    <2>1. [s \in SUBSET S |-> g[s]] = e
        BY <1>7
    <2> QED
        BY <1>6, <2>1 DEF Sums
<1> QED
    BY <1>8

\* Induction over the subsets of S: Good holds of a set when it holds of all
\* smaller ones, or of the one without its first element.
LEMMA SubsetInduction ==
    ASSUME NEW S, IsFiniteSet(S), NEW Good \in SUBSET SUBSET S,
           \A m \in SUBSET S :
               (\A n \in SUBSET S : n \subseteq m /\ n # m => n \in Good) => m \in Good
    PROVE  S \in Good
<1> DEFINE Bad == (SUBSET S) \ Good
<1>1. Bad \in SUBSET SUBSET S
    OBVIOUS
<1>2. ASSUME NEW m \in Bad, \A n \in Bad : n \subseteq m => n = m
      PROVE  FALSE
    BY <1>2
<1> HIDE DEF Bad
<1>3. Bad = {}
    BY <1>1, <1>2, MinimalSubset
<1> QED
    BY <1>3 DEF Bad

\* The same, when Good holds of the empty set and passes on from the rest of a
\* set to the set.
LEMMA PickInduction ==
    ASSUME NEW S, IsFiniteSet(S), NEW Good \in SUBSET SUBSET S, {} \in Good,
           \A m \in SUBSET S : m # {} /\ m \ {Pick(m)} \in Good => m \in Good
    PROVE  S \in Good
<1>1. ASSUME NEW m \in SUBSET S,
             \A n \in SUBSET S : n \subseteq m /\ n # m => n \in Good
      PROVE  m \in Good
    <2>1. CASE m = {}
        BY <2>1
    <2>2. CASE m # {}
        <3>1. m \ {Pick(m)} \in SUBSET S /\ m \ {Pick(m)} # m
            BY <2>2, SmallerRest
        <3>2. m \ {Pick(m)} \in Good
            BY <1>1, <3>1
        <3> QED
            BY <2>2, <3>2
    <2> QED
        BY <2>1, <2>2
<1> QED
    BY <1>1, SubsetInduction

\* The partial sums of a smaller set are the same.
LEMMA SumsAgree ==
    ASSUME NEW f, NEW R, IsFiniteSet(R), NEW S \in SUBSET R,
           NEW g, Sums(g, f, S), NEW h, Sums(h, f, R)
    PROVE  g[S] = h[S]
<1> DEFINE Good == {s \in SUBSET S : g[s] = h[s]}
<1>1. ASSUME NEW s \in SUBSET S
      PROVE  /\ g[s] = IF s = {} THEN 0 ELSE f[Pick(s)] + g[s \ {Pick(s)}]
             /\ h[s] = IF s = {} THEN 0 ELSE f[Pick(s)] + h[s \ {Pick(s)}]
    BY <1>1 DEF Sums
<1>2. {} \in Good
    BY <1>1
<1>3. ASSUME NEW s \in SUBSET S, s # {}, s \ {Pick(s)} \in Good
      PROVE  s \in Good
    BY <1>1, <1>3
<1>4. IsFiniteSet(S) /\ Good \in SUBSET SUBSET S
    BY FS_Subset
<1> HIDE DEF Good
<1>5. S \in Good
    BY <1>2, <1>3, <1>4, PickInduction
<1> QED
    BY <1>5 DEF Good

\* A sum may be read off the partial sums over any larger finite set.
LEMMA SumRead ==
    ASSUME NEW f, NEW R, IsFiniteSet(R), NEW S \in SUBSET R, NEW h, Sums(h, f, R)
    PROVE  SumFunctionOnSet(f, S) = h[S]
<1>1. IsFiniteSet(S)
    BY FS_Subset
<1> DEFINE g == CHOOSE g : Sums(g, f, S)
<1>2. Sums(g, f, S)
    BY <1>1, SumsExist
<1>3. SumFunctionOnSet(f, S) = g[S]
    BY SumUnfolds
<1> HIDE DEF g
<1> QED
    BY <1>2, <1>3, SumsAgree

-----------------------------------------------------------------------------
\* What a sum is

\* The sum over nothing.
LEMMA SumEmpty ==
    ASSUME NEW f
    PROVE  SumFunctionOnSet(f, {}) = 0
<1>1. IsFiniteSet({})
    BY FS_EmptySet
<1>2. PICK g : Sums(g, f, {})
    BY <1>1, SumsExist
<1>3. g[{}] = 0
    BY <1>2 DEF Sums
<1> QED
    BY <1>1, <1>2, <1>3, SumRead

\* The equation of SumFunctionOnSet, for a finite set.
LEMMA SumPick ==
    ASSUME NEW f, NEW S, IsFiniteSet(S), S # {}
    PROVE  SumFunctionOnSet(f, S) = f[Pick(S)] + SumFunctionOnSet(f, S \ {Pick(S)})
<1>1. PICK g : Sums(g, f, S)
    BY SumsExist
<1>2. g[S] = f[Pick(S)] + g[S \ {Pick(S)}]
    BY <1>1 DEF Sums
<1>3. S \ {Pick(S)} \in SUBSET S
    OBVIOUS
<1>4. SumFunctionOnSet(f, S) = g[S] /\ SumFunctionOnSet(f, S \ {Pick(S)}) = g[S \ {Pick(S)}]
    BY <1>1, <1>3, SumRead
<1> QED
    BY <1>2, <1>4

\* A sum of integers is one.
LEMMA SumInt ==
    ASSUME NEW f, NEW S, IsFiniteSet(S), \A x \in S : f[x] \in Int
    PROVE  SumFunctionOnSet(f, S) \in Int
<1> DEFINE Good == {s \in SUBSET S : SumFunctionOnSet(f, s) \in Int}
<1>1. {} \in Good
    BY SumEmpty
<1>2. ASSUME NEW m \in SUBSET S, m # {}, m \ {Pick(m)} \in Good
      PROVE  m \in Good
    <2>1. f[Pick(m)] \in Int /\ SumFunctionOnSet(f, m \ {Pick(m)}) \in Int
        BY <1>2, PickMember
    <2>2. SumFunctionOnSet(f, m) = f[Pick(m)] + SumFunctionOnSet(f, m \ {Pick(m)})
        BY <1>2, SumPick, FS_Subset
    <2>3. SumFunctionOnSet(f, m) \in Int
        BY <2>1, <2>2
    <2> QED
        BY <2>3
<1>3. Good \in SUBSET SUBSET S
    OBVIOUS
<1> HIDE DEF Good
<1>4. S \in Good
    BY <1>1, <1>2, <1>3, PickInduction
<1> QED
    BY <1>4 DEF Good

\* A sum of naturals is one.
LEMMA SumNat ==
    ASSUME NEW f, NEW S, IsFiniteSet(S), \A x \in S : f[x] \in Nat
    PROVE  SumFunctionOnSet(f, S) \in Nat
<1> DEFINE Good == {s \in SUBSET S : SumFunctionOnSet(f, s) \in Nat}
<1>1. {} \in Good
    BY SumEmpty
<1>2. ASSUME NEW m \in SUBSET S, m # {}, m \ {Pick(m)} \in Good
      PROVE  m \in Good
    <2>1. f[Pick(m)] \in Nat /\ SumFunctionOnSet(f, m \ {Pick(m)}) \in Nat
        BY <1>2, PickMember
    <2>2. SumFunctionOnSet(f, m) = f[Pick(m)] + SumFunctionOnSet(f, m \ {Pick(m)})
        BY <1>2, SumPick, FS_Subset
    <2>3. SumFunctionOnSet(f, m) \in Nat
        BY <2>1, <2>2
    <2> QED
        BY <2>3
<1>3. Good \in SUBSET SUBSET S
    OBVIOUS
<1> HIDE DEF Good
<1>4. S \in Good
    BY <1>1, <1>2, <1>3, PickInduction
<1> QED
    BY <1>4 DEF Good

\* Any element can be taken out first.
THEOREM SumRemove ==
    ASSUME NEW f, NEW S, IsFiniteSet(S), \A y \in S : f[y] \in Int, NEW x \in S
    PROVE  SumFunctionOnSet(f, S) = f[x] + SumFunctionOnSet(f, S \ {x})
<1> DEFINE T(s) == SumFunctionOnSet(f, s)
           Good == {s \in SUBSET S : \A y \in s : T(s) = f[y] + T(s \ {y})}
<1>1. ASSUME NEW m \in SUBSET S, \A n \in SUBSET S : n \subseteq m /\ n # m => n \in Good,
             NEW y \in m
      PROVE  T(m) = f[y] + T(m \ {y})
    <2> DEFINE c == Pick(m)
               rest == (m \ {c}) \ {y}
    <2>1. IsFiniteSet(m) /\ m # {}
        BY FS_Subset
    <2>2. c \in m
        BY <2>1, PickMember
    <2>3. T(m) = f[c] + T(m \ {c})
        BY <2>1, SumPick
    <2> HIDE DEF c
    <2>4. CASE y = c
        BY <2>3, <2>4
    <2>5. CASE y # c
        <3>1. m \ {c} \in Good /\ m \ {y} \in Good
            BY <1>1, <2>2
        <3>2. T(m \ {c}) = f[y] + T(rest)
            BY <2>5, <3>1
        <3>3. T(m \ {y}) = f[c] + T(rest)
            <4>1. rest = (m \ {y}) \ {c}
                OBVIOUS
            <4>2. T(m \ {y}) = f[c] + T((m \ {y}) \ {c})
                BY <2>2, <2>5, <3>1
            <4> QED
                BY <4>1, <4>2
        <3>4. f[c] \in Int /\ f[y] \in Int /\ T(rest) \in Int
            <4>1. IsFiniteSet(rest)
                BY FS_Subset
            <4> QED
                BY <2>2, <4>1, SumInt
        <3>5. f[c] + (f[y] + T(rest)) = f[y] + (f[c] + T(rest))
            BY <3>4
        <3> HIDE DEF T, rest
        <3> QED
            BY <2>3, <3>2, <3>3, <3>5
    <2> QED
        BY <2>4, <2>5
<1>2. ASSUME NEW m \in SUBSET S, \A n \in SUBSET S : n \subseteq m /\ n # m => n \in Good
      PROVE  m \in Good
    BY <1>1, <1>2
<1>3. Good \in SUBSET SUBSET S
    OBVIOUS
<1> HIDE DEF Good
<1>4. S \in Good
    BY <1>2, <1>3, SubsetInduction
<1> QED
    BY <1>4 DEF Good

\* A new element adds its value.
LEMMA SumAdd ==
    ASSUME NEW f, NEW S, IsFiniteSet(S), NEW x, x \notin S, \A y \in S \cup {x} : f[y] \in Int
    PROVE  SumFunctionOnSet(f, S \cup {x}) = f[x] + SumFunctionOnSet(f, S)
<1>1. IsFiniteSet(S \cup {x}) /\ (S \cup {x}) \ {x} = S
    BY FS_AddElement
<1> QED
    BY <1>1, SumRemove

\* A sum depends on the values over its set only.
LEMMA SumSame ==
    ASSUME NEW f, NEW g, NEW S, IsFiniteSet(S), \A x \in S : f[x] = g[x]
    PROVE  SumFunctionOnSet(f, S) = SumFunctionOnSet(g, S)
<1> DEFINE Good == {s \in SUBSET S : SumFunctionOnSet(f, s) = SumFunctionOnSet(g, s)}
<1>1. {} \in Good
    BY SumEmpty
<1>2. ASSUME NEW m \in SUBSET S, m # {}, m \ {Pick(m)} \in Good
      PROVE  m \in Good
    <2>1. f[Pick(m)] = g[Pick(m)]
        BY <1>2, PickMember
    <2>2. IsFiniteSet(m)
        BY FS_Subset
    <2>3. /\ SumFunctionOnSet(f, m) = f[Pick(m)] + SumFunctionOnSet(f, m \ {Pick(m)})
          /\ SumFunctionOnSet(g, m) = g[Pick(m)] + SumFunctionOnSet(g, m \ {Pick(m)})
        BY <1>2, <2>2, SumPick
    <2>4. SumFunctionOnSet(f, m) = SumFunctionOnSet(g, m)
        BY <1>2, <2>1, <2>3
    <2> QED
        BY <2>4
<1>3. Good \in SUBSET SUBSET S
    OBVIOUS
<1> HIDE DEF Good
<1>4. S \in Good
    BY <1>1, <1>2, <1>3, PickInduction
<1> QED
    BY <1>4 DEF Good

\* A sum changes by what its only changed term changes by.
LEMMA SumChange ==
    ASSUME NEW f, NEW g, NEW S, IsFiniteSet(S), NEW j \in S,
           \A x \in S : f[x] \in Int /\ g[x] \in Int,
           \A x \in S \ {j} : g[x] = f[x]
    PROVE  SumFunctionOnSet(g, S) - SumFunctionOnSet(f, S) = g[j] - f[j]
<1>1. IsFiniteSet(S \ {j})
    BY FS_RemoveElement
<1>2. SumFunctionOnSet(f, S \ {j}) = SumFunctionOnSet(g, S \ {j})
    BY <1>1, SumSame
<1>3. /\ SumFunctionOnSet(f, S) = f[j] + SumFunctionOnSet(f, S \ {j})
      /\ SumFunctionOnSet(g, S) = g[j] + SumFunctionOnSet(g, S \ {j})
    BY SumRemove
<1>4. SumFunctionOnSet(f, S \ {j}) \in Int
    BY <1>1, SumInt
<1> QED
    BY <1>2, <1>3, <1>4

\* A sum of zeros.
LEMMA SumZero ==
    ASSUME NEW f, NEW S, IsFiniteSet(S), \A x \in S : f[x] = 0
    PROVE  SumFunctionOnSet(f, S) = 0
<1> DEFINE Good == {s \in SUBSET S : SumFunctionOnSet(f, s) = 0}
<1>1. {} \in Good
    BY SumEmpty
<1>2. ASSUME NEW m \in SUBSET S, m # {}, m \ {Pick(m)} \in Good
      PROVE  m \in Good
    <2>1. SumFunctionOnSet(f, m) = f[Pick(m)] + SumFunctionOnSet(f, m \ {Pick(m)})
        BY <1>2, SumPick, FS_Subset
    <2>2. f[Pick(m)] = 0 /\ SumFunctionOnSet(f, m \ {Pick(m)}) = 0
        BY <1>2, PickMember
    <2>3. SumFunctionOnSet(f, m) = 0
        BY <2>1, <2>2
    <2> QED
        BY <2>3
<1>3. Good \in SUBSET SUBSET S
    OBVIOUS
<1> HIDE DEF Good
<1>4. S \in Good
    BY <1>1, <1>2, <1>3, PickInduction
<1> QED
    BY <1>4 DEF Good
=============================================================================
