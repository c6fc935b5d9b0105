-------------------------------- MODULE Sums --------------------------------
(***************************************************************************)
(* What SumFunctionOnSet and SumFunction compute over any finite set, for  *)
(* the proofs about money: the sale log, the months of the record and the  *)
(* coins of a window per node are sums.                                    *)
(*                                                                         *)
(* A sum is a CHOOSE of a function that satisfies a recursion, so it has   *)
(* to be shown first that there is one.  The library's induction theorems  *)
(* take an operator; the induction here takes a set.                       *)
(***************************************************************************)
EXTENDS Functions, FiniteSetTheorems, TLAPS

\* A set of numbers that is not empty has a least one.
LEMMA LeastNumber ==
  ASSUME NEW B \in SUBSET Nat, B # {}
  PROVE  \E n \in B : \A m \in B : n <= m
<1> DEFINE R == {ss \in Nat \X Nat : ss[1] < ss[2]}
<1>1. IsWellFoundedOn(R, Nat)
  BY NatLessThanWellFounded, Zenon DEF OpToRel
<1>2. PICK n \in B : \A m \in B : <<m, n>> \notin R
  <2> HIDE DEF R
  <2> QED BY <1>1, WFMin
<1>3. \A m \in B : ~(m < n)
  BY <1>2
<1> QED BY <1>3

\* The element a sum takes next.
Some(s) == CHOOSE x \in s : TRUE

\* It is an element.
LEMMA SomeIn == ASSUME NEW s, s # {} PROVE Some(s) \in s
  BY DEF Some

\* Induction over the subsets of a finite set, for a set of subsets.
LEMMA SubsetInduction ==
  ASSUME NEW S, IsFiniteSet(S), NEW G, {} \in G,
         \A s \in SUBSET S : s # {} /\ s \ {Some(s)} \in G => s \in G
  PROVE  SUBSET S \subseteq G
<1> SUFFICES ASSUME (SUBSET S) \ G # {} PROVE FALSE  OBVIOUS
<1>0. \A s \in SUBSET S : IsFiniteSet(s) /\ Cardinality(s) \in Nat
  BY FS_Subset, FS_CardinalityType
<1> DEFINE B == {Cardinality(s) : s \in (SUBSET S) \ G}
<1>1. PICK n \in B : \A m \in B : n <= m
  <2>1. B \in SUBSET Nat /\ B # {}  BY <1>0
  <2> HIDE DEF B
  <2> QED BY <2>1, LeastNumber
<1>2. PICK s \in (SUBSET S) \ G : Cardinality(s) = n
  BY <1>1
<1> DEFINE x == Some(s)
<1>3. x \in s
  BY SomeIn
<1>4. Cardinality(s \ {x}) = Cardinality(s) - 1
  BY <1>0, <1>3, FS_RemoveElement
<1>5. s \ {x} \in (SUBSET S) \ G
  BY <1>3
<1>6. n <= Cardinality(s \ {x})
  BY <1>1, <1>5
<1> QED BY <1>0, <1>2, <1>4, <1>6

\* The sums that SumFunctionOnSet adds up on its way, subset by subset.
Partial(f, S) ==
    CHOOSE it : it = [s \in SUBSET S |->
        IF s = {} THEN 0 ELSE f[CHOOSE x \in s : TRUE] + it[s \ {CHOOSE x \in s : TRUE}]]

\* A sum is the last of these.
LEMMA SumIsPartial ==
  ASSUME NEW f, NEW S
  PROVE  SumFunctionOnSet(f, S) = Partial(f, S)[S]
  BY Zenon DEF SumFunctionOnSet, FoldFunctionOnSet, MapThenFoldSet, Partial

\* Sums of up to n summands.
UpTo(S, n) == {s \in SUBSET S : Cardinality(s) <= n}
SumsUpTo(it, f, S, n) ==
    /\ it \in [UpTo(S, n) -> Nat]
    /\ \A s \in UpTo(S, n) :
         it[s] = IF s = {} THEN 0 ELSE f[Some(s)] + it[s \ {Some(s)}]

\* They exist, for any number of summands: the recursion has a solution.
LEMMA SumsExist ==
  ASSUME NEW S, IsFiniteSet(S), NEW f, \A x \in S : f[x] \in Nat
  PROVE  \A n \in Nat : \E it : SumsUpTo(it, f, S, n)
<1> SUFFICES ASSUME {n \in Nat : ~\E it : SumsUpTo(it, f, S, n)} # {} PROVE FALSE  OBVIOUS
<1> DEFINE B == {n \in Nat : ~\E it : SumsUpTo(it, f, S, n)}
<1>0. \A s \in SUBSET S : IsFiniteSet(s) /\ Cardinality(s) \in Nat
  BY FS_Subset, FS_CardinalityType
<1>1. PICK n \in B : \A m \in B : n <= m
  <2>1. B \in SUBSET Nat /\ B # {}  OBVIOUS
  <2> HIDE DEF B
  <2> QED BY <2>1, LeastNumber
<1>2. CASE n = 0
  <2>1. UpTo(S, 0) = {{}}
    BY <1>0, FS_EmptySet DEF UpTo
  <2>2. SumsUpTo([s \in UpTo(S, 0) |-> 0], f, S, 0)
    BY <2>1 DEF SumsUpTo
  <2> QED BY <1>1, <1>2, <2>2
<1>3. CASE n # 0
  <2>1. n - 1 \in Nat /\ n - 1 \notin B  BY <1>1, <1>3
  <2>2. PICK it : SumsUpTo(it, f, S, n - 1)  BY <2>1
  <2> DEFINE new == [s \in UpTo(S, n) |->
                       IF s \in UpTo(S, n - 1) THEN it[s] ELSE f[Some(s)] + it[s \ {Some(s)}]]
  <2>3. \A s \in UpTo(S, n) : s = {} => s \in UpTo(S, n - 1)
    BY <1>1, <2>1, FS_EmptySet DEF UpTo
  <2>4. \A s \in UpTo(S, n) : s # {} =>
          /\ Some(s) \in S /\ s \ {Some(s)} \in UpTo(S, n - 1)
          /\ f[Some(s)] \in Nat /\ it[s \ {Some(s)}] \in Nat
    <3> SUFFICES ASSUME NEW s \in UpTo(S, n), s # {}
                 PROVE  /\ Some(s) \in S /\ s \ {Some(s)} \in UpTo(S, n - 1)
                        /\ f[Some(s)] \in Nat /\ it[s \ {Some(s)}] \in Nat
      OBVIOUS
    <3>1. Some(s) \in s /\ s \in SUBSET S /\ Cardinality(s) <= n  BY SomeIn DEF UpTo
    <3>2. Cardinality(s \ {Some(s)}) = Cardinality(s) - 1
      BY <1>0, <3>1, FS_RemoveElement
    <3>3. s \ {Some(s)} \in UpTo(S, n - 1)
      BY <1>0, <1>1, <3>1, <3>2 DEF UpTo
    <3> QED BY <2>2, <3>1, <3>3 DEF SumsUpTo
  <2>5. UpTo(S, n - 1) \subseteq UpTo(S, n)
    BY <1>0, <1>1, <2>1 DEF UpTo
  <2>6. new \in [UpTo(S, n) -> Nat]
    <3>1. \A s \in UpTo(S, n - 1) : it[s] \in Nat  BY <2>2 DEF SumsUpTo
    <3>2. \A s \in UpTo(S, n) : new[s] \in Nat  BY <2>3, <2>4, <3>1
    <3> QED BY <3>2
  <2>7. ASSUME NEW s \in UpTo(S, n)
        PROVE  new[s] = IF s = {} THEN 0 ELSE f[Some(s)] + new[s \ {Some(s)}]
    <3>1. CASE s = {}  BY <2>2, <2>3, <3>1 DEF SumsUpTo
    <3>2. CASE s # {}
      <4>1. s \ {Some(s)} \in UpTo(S, n - 1)  BY <2>4, <3>2
      <4>2. new[s \ {Some(s)}] = it[s \ {Some(s)}]  BY <2>5, <4>1
      <4>3. new[s] = f[Some(s)] + it[s \ {Some(s)}]  BY <2>2, <3>2 DEF SumsUpTo
      <4> QED BY <3>2, <4>2, <4>3
    <3> QED BY <3>1, <3>2
  <2> HIDE DEF new
  <2>8. SumsUpTo(new, f, S, n)  BY <2>6, <2>7 DEF SumsUpTo
  <2> QED BY <1>1, <2>8
<1> QED BY <1>2, <1>3

\* A sum over no elements is 0, and any other adds the next element to the rest.
LEMMA PartialSums ==
  ASSUME NEW S, IsFiniteSet(S), NEW f, \A x \in S : f[x] \in Nat
  PROVE  /\ Partial(f, S) \in [SUBSET S -> Nat]
         /\ Partial(f, S)[{}] = 0
         /\ \A s \in SUBSET S : s # {} =>
              Partial(f, S)[s] = f[Some(s)] + Partial(f, S)[s \ {Some(s)}]
<1>1. Cardinality(S) \in Nat /\ UpTo(S, Cardinality(S)) = SUBSET S
  BY FS_CardinalityType, FS_Subset DEF UpTo
<1>2. PICK g : SumsUpTo(g, f, S, Cardinality(S))
  BY <1>1, SumsExist
<1>3. g = [s \in SUBSET S |-> IF s = {} THEN 0 ELSE f[Some(s)] + g[s \ {Some(s)}]]
  BY <1>1, <1>2 DEF SumsUpTo
<1> DEFINE P == Partial(f, S)
<1>4. P = [s \in SUBSET S |-> IF s = {} THEN 0 ELSE f[Some(s)] + P[s \ {Some(s)}]]
  BY <1>3, Zenon DEF Partial, Some
<1> HIDE DEF P
<1>5. DOMAIN P = SUBSET S /\ P = [s \in DOMAIN P |-> P[s]]  BY <1>4
<1>6. \A s \in SUBSET S : P[s] = IF s = {} THEN 0 ELSE f[Some(s)] + P[s \ {Some(s)}]
  BY <1>4
<1> DEFINE G == {s \in SUBSET S : P[s] \in Nat}
<1>7. SUBSET S \subseteq G
  <2>1. P[{}] = 0  BY <1>6
  <2>2. \A s \in SUBSET S : s # {} => Some(s) \in S  BY SomeIn
  <2>3. ASSUME NEW s \in SUBSET S, s # {}, s \ {Some(s)} \in G PROVE s \in G
    BY <1>6, <2>2, <2>3
  <2>4. {} \in G  BY <2>1
  <2> HIDE DEF G
  <2> QED BY <2>3, <2>4, SubsetInduction
<1> QED BY <1>5, <1>6, <1>7 DEF P

\* A sum of numbers is a number.
LEMMA SumNat ==
  ASSUME NEW S, IsFiniteSet(S), NEW f, \A x \in S : f[x] \in Nat
  PROVE  SumFunctionOnSet(f, S) \in Nat
<1>1. Partial(f, S) \in [SUBSET S -> Nat]  BY PartialSums
<1> QED BY <1>1, SumIsPartial

\* A sum does not fall when no summand does, and rises when one of them rises.
LEMMA SumOrder ==
  ASSUME NEW S, IsFiniteSet(S), NEW f, NEW g,
         \A x \in S : f[x] \in Nat /\ g[x] \in Nat /\ f[x] <= g[x]
  PROVE  /\ SumFunctionOnSet(f, S) <= SumFunctionOnSet(g, S)
         /\ (\E x \in S : f[x] < g[x]) => SumFunctionOnSet(f, S) < SumFunctionOnSet(g, S)
<1> DEFINE P == Partial(f, S)
           Q == Partial(g, S)
<1>1. /\ P \in [SUBSET S -> Nat] /\ P[{}] = 0
      /\ \A s \in SUBSET S : s # {} => P[s] = f[Some(s)] + P[s \ {Some(s)}]
  BY PartialSums
<1>2. /\ Q \in [SUBSET S -> Nat] /\ Q[{}] = 0
      /\ \A s \in SUBSET S : s # {} => Q[s] = g[Some(s)] + Q[s \ {Some(s)}]
  BY PartialSums
<1> HIDE DEF P, Q
<1> DEFINE G == {s \in SUBSET S : P[s] <= Q[s] /\ ((\E x \in s : f[x] < g[x]) => P[s] < Q[s])}
<1>3. {} \in G  BY <1>1, <1>2
<1>4. ASSUME NEW s \in SUBSET S, s # {}, s \ {Some(s)} \in G PROVE s \in G
  <2> DEFINE r == s \ {Some(s)}
  <2>1. Some(s) \in s /\ Some(s) \in S  BY <1>4, SomeIn
  <2>2. P[s] = f[Some(s)] + P[r] /\ Q[s] = g[Some(s)] + Q[r]  BY <1>1, <1>2, <1>4
  <2>3. P[r] \in Nat /\ Q[r] \in Nat  BY <1>1, <1>2
  <2>4. P[r] <= Q[r] /\ ((\E x \in r : f[x] < g[x]) => P[r] < Q[r])  BY <1>4
  <2>5. (\E x \in s : f[x] < g[x]) => f[Some(s)] < g[Some(s)] \/ \E x \in r : f[x] < g[x]
    OBVIOUS
  <2>6. f[Some(s)] \in Nat /\ g[Some(s)] \in Nat /\ f[Some(s)] <= g[Some(s)]  BY <2>1
  <2> HIDE DEF r
  <2>7. P[s] <= Q[s]  BY <2>2, <2>3, <2>4, <2>6
  <2>8. (\E x \in s : f[x] < g[x]) => P[s] < Q[s]  BY <2>2, <2>3, <2>4, <2>5, <2>6
  <2> QED BY <2>7, <2>8
<1>5. S \in G
  <2> HIDE DEF G
  <2> QED BY <1>3, <1>4, SubsetInduction
<1> QED BY <1>5, SumIsPartial DEF P, Q

\* A sum of sums is the sum of the sums.
LEMMA SumPlus ==
  ASSUME NEW S, IsFiniteSet(S), NEW f, NEW g, NEW h,
         \A x \in S : f[x] \in Nat /\ g[x] \in Nat /\ h[x] = f[x] + g[x]
  PROVE  SumFunctionOnSet(h, S) = SumFunctionOnSet(f, S) + SumFunctionOnSet(g, S)
<1> DEFINE P == Partial(f, S)
           Q == Partial(g, S)
           R == Partial(h, S)
<1>0. \A x \in S : h[x] \in Nat  OBVIOUS
<1>1. /\ P \in [SUBSET S -> Nat] /\ P[{}] = 0
      /\ \A s \in SUBSET S : s # {} => P[s] = f[Some(s)] + P[s \ {Some(s)}]
  BY PartialSums
<1>2. /\ Q \in [SUBSET S -> Nat] /\ Q[{}] = 0
      /\ \A s \in SUBSET S : s # {} => Q[s] = g[Some(s)] + Q[s \ {Some(s)}]
  BY PartialSums
<1>3. /\ R \in [SUBSET S -> Nat] /\ R[{}] = 0
      /\ \A s \in SUBSET S : s # {} => R[s] = h[Some(s)] + R[s \ {Some(s)}]
  BY <1>0, PartialSums
<1> HIDE DEF P, Q, R
<1> DEFINE G == {s \in SUBSET S : R[s] = P[s] + Q[s]}
<1>4. {} \in G  BY <1>1, <1>2, <1>3
<1>5. ASSUME NEW s \in SUBSET S, s # {}, s \ {Some(s)} \in G PROVE s \in G
  <2> DEFINE r == s \ {Some(s)}
  <2>1. Some(s) \in S  BY <1>5, SomeIn
  <2>2. /\ P[s] = f[Some(s)] + P[r] /\ Q[s] = g[Some(s)] + Q[r]
        /\ R[s] = h[Some(s)] + R[r] /\ R[r] = P[r] + Q[r]
    BY <1>1, <1>2, <1>3, <1>5
  <2>3. P[r] \in Nat /\ Q[r] \in Nat  BY <1>1, <1>2
  <2> HIDE DEF r
  <2>4. R[s] = P[s] + Q[s]  BY <2>1, <2>2, <2>3
  <2> QED BY <2>4
<1>6. S \in G
  <2> HIDE DEF G
  <2> QED BY <1>4, <1>5, SubsetInduction
<1> QED BY <1>6, SumIsPartial DEF P, Q, R

\* A sum of zeros is 0.
LEMMA SumZero ==
  ASSUME NEW S, IsFiniteSet(S), NEW f, \A x \in S : f[x] = 0
  PROVE  SumFunctionOnSet(f, S) = 0
<1> DEFINE P == Partial(f, S)
<1>0. \A x \in S : f[x] \in Nat  OBVIOUS
<1>1. /\ P \in [SUBSET S -> Nat] /\ P[{}] = 0
      /\ \A s \in SUBSET S : s # {} => P[s] = f[Some(s)] + P[s \ {Some(s)}]
  BY <1>0, PartialSums
<1> HIDE DEF P
<1> DEFINE G == {s \in SUBSET S : P[s] = 0}
<1>2. {} \in G  BY <1>1
<1>3. ASSUME NEW s \in SUBSET S, s # {}, s \ {Some(s)} \in G PROVE s \in G
  BY <1>1, <1>3, SomeIn
<1>4. S \in G
  <2> HIDE DEF G
  <2> QED BY <1>2, <1>3, SubsetInduction
<1> QED BY <1>4, SumIsPartial DEF P

\* Where one element counts 1 and no other anything, the sum is 1.
LEMMA SumOne ==
  ASSUME NEW S, IsFiniteSet(S), NEW e \in S, NEW f,
         \A x \in S : f[x] = IF x = e THEN 1 ELSE 0
  PROVE  SumFunctionOnSet(f, S) = 1
<1> DEFINE P == Partial(f, S)
<1>0. \A x \in S : f[x] \in Nat  OBVIOUS
<1>1. /\ P \in [SUBSET S -> Nat] /\ P[{}] = 0
      /\ \A s \in SUBSET S : s # {} => P[s] = f[Some(s)] + P[s \ {Some(s)}]
  BY <1>0, PartialSums
<1> HIDE DEF P
<1> DEFINE G == {s \in SUBSET S : P[s] = IF e \in s THEN 1 ELSE 0}
<1>2. {} \in G  BY <1>1
<1>3. ASSUME NEW s \in SUBSET S, s # {}, s \ {Some(s)} \in G PROVE s \in G
  <2> DEFINE r == s \ {Some(s)}
  <2>1. Some(s) \in s /\ Some(s) \in S  BY <1>3, SomeIn
  <2>2. P[s] = f[Some(s)] + P[r]  BY <1>1, <1>3
  <2>3. P[r] = IF e \in r THEN 1 ELSE 0  BY <1>3
  <2>4. f[Some(s)] = IF Some(s) = e THEN 1 ELSE 0  BY <2>1
  <2>5. e \in s <=> Some(s) = e \/ e \in r  BY <2>1
  <2>6. Some(s) = e => e \notin r  OBVIOUS
  <2> HIDE DEF r
  <2>7. P[s] = IF e \in s THEN 1 ELSE 0  BY <2>2, <2>3, <2>4, <2>5, <2>6
  <2> QED BY <2>7
<1>4. S \in G
  <2> HIDE DEF G
  <2> QED BY <1>2, <1>3, SubsetInduction
<1> QED BY <1>4, SumIsPartial DEF P
=============================================================================
