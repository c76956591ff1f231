--------------------------- MODULE KvStoreProofs ---------------------------
(**************************************************************************)
(* What the methods of a store do, for all keys, texts and budgets: a store*)
(* is sound, its count of bytes exact and within its budget, before a      *)
(* method and after it.  The count is a sum over a finite set, so the facts*)
(* about such sums come first.                                             *)
(**************************************************************************)
EXTENDS KvStore, FiniteSetTheorems, TLAPS

(* Induction over the subsets of a finite set: when a set is in Q as soon  *)
(* as its proper subsets are, all of them are.                             *)
LEMMA SubsetInduction ==
    ASSUME NEW D, IsFiniteSet(D), NEW Q,
           \A s \in SUBSET D : (\A r \in SUBSET s : r # s => r \in Q) => s \in Q
    PROVE  \A s \in SUBSET D : s \in Q
<1> DEFINE R == StrictSubsetOrdering(D)
           T == {s \in SUBSET D : s \notin Q}
<1>1. IsWellFoundedOn(R, SUBSET D)
  BY FS_StrictSubsetOrderingWellFounded, FS_FiniteSubsetsOfFinite, Zenon
<1>2. SUFFICES ASSUME T # {}
               PROVE  FALSE
  BY Zenon
<1>3. T \subseteq SUBSET D
  BY Zenon
<1> HIDE DEF R
<1>4. \E s \in T : \A r \in T : <<r, s>> \notin R
  <2> HIDE DEF T
  <2> QED
    BY <1>1, <1>2, <1>3, WFMin
<1>5. PICK s \in T : \A r \in T : <<r, s>> \notin R
  BY <1>4, Zenon
<1>6. \A r \in SUBSET s : r # s => <<r, s>> \in R
  BY Zenon DEF R, StrictSubsetOrdering
<1>7. PICK r \in SUBSET s : r # s /\ r \notin Q
  BY <1>5, Zenon
<1> QED
  BY <1>5, <1>6, <1>7, Zenon

(* One unfolding of the sum of f over s, given the sums g of smaller sets. *)
Step(f, g, s) ==
    IF s = {} THEN 0 ELSE f[CHOOSE x \in s : TRUE] + g[s \ {CHOOSE x \in s : TRUE}]

(* g is the table of the sums of f over the subsets of D. *)
Sums(g, f, D) == g = [s \in SUBSET D |-> Step(f, g, s)]

(* The sum is defined by a table of its values on all subsets. *)
LEMMA SumIsChoice ==
    ASSUME NEW f, NEW S
    PROVE  SumFunctionOnSet(f, S) = (CHOOSE g : Sums(g, f, S))[S]
BY Zenon DEF SumFunctionOnSet, FoldFunctionOnSet, MapThenFoldSet, Step, Sums

(* Tables for a set and for a larger one agree. *)
LEMMA TablesAgree ==
    ASSUME NEW f, NEW D, IsFiniteSet(D), NEW E \in SUBSET D,
           NEW g, Sums(g, f, D), NEW h, Sums(h, f, E)
    PROVE  g[E] = h[E]
<1> DEFINE Q == {s \in SUBSET E : g[s] = h[s]}
<1>1. IsFiniteSet(E)
  BY FS_Subset, Zenon
<1>2. ASSUME NEW s \in SUBSET E, \A r \in SUBSET s : r # s => r \in Q
      PROVE  g[s] = h[s]
  <2>1. g[s] = Step(f, g, s) /\ h[s] = Step(f, h, s)
    BY Zenon DEF Sums
  <2>2. CASE s = {}
    BY <2>1, <2>2, Zenon DEF Step
  <2>3. CASE s # {}
    <3> DEFINE c == CHOOSE x \in s : TRUE
    <3>1. c \in s
      BY <2>3, Zenon
    <3>2. s \ {c} \in Q
      BY <1>2, <3>1, Zenon
    <3>3. g[s \ {c}] = h[s \ {c}]
      BY <3>2, Zenon
    <3> QED
      BY <2>1, <2>3, <3>3, Zenon DEF Step
  <2> QED
    BY <2>2, <2>3, Zenon
<1>3. \A s \in SUBSET E : (\A r \in SUBSET s : r # s => r \in Q) => s \in Q
  BY <1>2, Zenon
<1>4. \A s \in SUBSET E : s \in Q
  <2> HIDE DEF Q
  <2> QED
    BY <1>1, <1>3, SubsetInduction, Zenon
<1> QED
  BY <1>4, Zenon

(* Every finite set has a table. *)
LEMMA TableExists ==
    ASSUME NEW f, NEW D, IsFiniteSet(D)
    PROVE  \E g : Sums(g, f, D)
<1> DEFINE Q == {E \in SUBSET D : \E g : Sums(g, f, E)}
           Sum(s) == (CHOOSE g : Sums(g, f, s))[s]
<1>1. ASSUME NEW E \in SUBSET D, \A r \in SUBSET E : r # E => r \in Q
      PROVE  \E g : Sums(g, f, E)
  <2> DEFINE below == [s \in SUBSET E |-> Sum(s)]
             h == [s \in SUBSET E |-> IF s = E THEN Step(f, below, E) ELSE Sum(s)]
  <2>1. ASSUME NEW s \in SUBSET E
        PROVE  h[s] = Step(f, h, s)
    <3> DEFINE c == CHOOSE x \in s : TRUE
    <3>1. s # {} => c \in s
      BY Zenon
    <3>2. CASE s = E
      BY <3>1, <3>2 DEF Step
    <3>3. CASE s # E
      <4> DEFINE t == CHOOSE g : Sums(g, f, s)
      <4>1. Sums(t, f, s)
        BY <1>1, <3>3, Zenon
      <4>2. t[s] = Step(f, t, s)
        BY <4>1, Zenon DEF Sums
      <4>3. CASE s = {}
        BY <3>3, <4>2, <4>3, Zenon DEF Step
      <4>4. CASE s # {}
        <5> DEFINE r == s \ {c}
                   u == CHOOSE g : Sums(g, f, r)
        <5>1. r \in SUBSET s /\ r # s /\ r \in SUBSET E /\ r # E
          BY <3>1, <4>4, Zenon
        <5>2. Sums(u, f, r)
          BY <1>1, <5>1, Zenon
        <5>3. IsFiniteSet(s)
          BY FS_Subset, Zenon
        <5>4. t[r] = u[r]
          <6> HIDE DEF t, u, r
          <6> QED
            BY <4>1, <5>1, <5>2, <5>3, TablesAgree
        <5>5. h[s] = t[s] /\ h[r] = u[r]
          BY <3>3, <5>1, Zenon
        <5>6. t[s] = f[c] + t[r]
          BY <4>2, <4>4, Zenon DEF Step
        <5>7. Step(f, h, s) = f[c] + h[r]
          BY <4>4, Zenon DEF Step
        <5> HIDE DEF h, t, u, r, c
        <5> QED
          BY <5>4, <5>5, <5>6, <5>7, Zenon
      <4> QED
        BY <4>3, <4>4, Zenon
    <3> QED
      BY <3>2, <3>3, Zenon
  <2>2. h = [s \in SUBSET E |-> h[s]]
    OBVIOUS
  <2>3. Sums(h, f, E)
    <3> HIDE DEF h
    <3> QED
      BY <2>1, <2>2, Zenon DEF Sums
  <2> QED
    BY <2>3, Zenon
<1>2. \A s \in SUBSET D : (\A r \in SUBSET s : r # s => r \in Q) => s \in Q
  BY <1>1, Zenon
<1>3. \A s \in SUBSET D : s \in Q
  <2> HIDE DEF Q
  <2> QED
    BY <1>2, SubsetInduction, Zenon
<1> QED
  BY <1>3, Zenon

(* The equation of the sum: the chosen element and the rest. *)
LEMMA SumStep ==
    ASSUME NEW f, NEW S, IsFiniteSet(S)
    PROVE  /\ SumFunctionOnSet(f, {}) = 0
           /\ S # {} => LET c == CHOOSE x \in S : TRUE IN
                SumFunctionOnSet(f, S) = f[c] + SumFunctionOnSet(f, S \ {c})
<1>1. ASSUME NEW D, IsFiniteSet(D)
      PROVE  Sums(CHOOSE g : Sums(g, f, D), f, D)
  BY <1>1, TableExists, Zenon
<1>2. SumFunctionOnSet(f, {}) = 0
  <2> DEFINE t == CHOOSE g : Sums(g, f, {})
  <2>1. Sums(t, f, {})
    BY <1>1, FS_EmptySet, Zenon
  <2>2. t[{}] = 0
    <3> HIDE DEF t
    <3> QED
      BY <2>1, Zenon DEF Sums, Step
  <2> QED
    BY <2>2, SumIsChoice, Zenon
<1>3. ASSUME S # {}
      PROVE  LET c == CHOOSE x \in S : TRUE IN
               SumFunctionOnSet(f, S) = f[c] + SumFunctionOnSet(f, S \ {c})
  <2> DEFINE c == CHOOSE x \in S : TRUE
             r == S \ {c}
             t == CHOOSE g : Sums(g, f, S)
             u == CHOOSE g : Sums(g, f, r)
  <2>1. r \in SUBSET S /\ IsFiniteSet(r)
    BY FS_Subset, Zenon
  <2>2. Sums(t, f, S) /\ Sums(u, f, r)
    BY <1>1, <2>1, Zenon
  <2>3. t[S] = f[c] + t[r]
    <3> HIDE DEF t
    <3> QED
      BY <1>3, <2>2, Zenon DEF Sums, Step
  <2>4. t[r] = u[r]
    <3> HIDE DEF t, u, r
    <3> QED
      BY <2>1, <2>2, TablesAgree, ZenonT(40)
  <2>5. SumFunctionOnSet(f, S) = t[S] /\ SumFunctionOnSet(f, r) = u[r]
    BY SumIsChoice, Zenon
  <2> QED
    BY <2>3, <2>4, <2>5, Zenon
<1> QED
  BY <1>2, <1>3, Zenon

(* A sum of integers is an integer; of naturals, a natural. *)
LEMMA SumType ==
    ASSUME NEW f, NEW S, IsFiniteSet(S)
    PROVE  /\ (\A x \in S : f[x] \in Int) => SumFunctionOnSet(f, S) \in Int
           /\ (\A x \in S : f[x] \in Nat) => SumFunctionOnSet(f, S) \in Nat
<1>1. ASSUME NEW T \in {Int, Nat}, \A x \in S : f[x] \in T
      PROVE  SumFunctionOnSet(f, S) \in T
  <2> DEFINE Q == {s \in SUBSET S : SumFunctionOnSet(f, s) \in T}
  <2>1. ASSUME NEW s \in SUBSET S, \A r \in SUBSET s : r # s => r \in Q
        PROVE  SumFunctionOnSet(f, s) \in T
    <3>1. IsFiniteSet(s)
      BY FS_Subset, Zenon
    <3>2. CASE s = {}
      <4>1. SumFunctionOnSet(f, s) = 0
        BY <3>1, <3>2, SumStep, Zenon
      <4> QED
        BY <4>1
    <3>3. CASE s # {}
      <4> DEFINE c == CHOOSE x \in s : TRUE
      <4>1. c \in s /\ s \ {c} \in SUBSET s /\ s \ {c} # s
        BY <3>3, Zenon
      <4>2. SumFunctionOnSet(f, s) = f[c] + SumFunctionOnSet(f, s \ {c})
        BY <3>1, <3>3, SumStep, Zenon
      <4>3. SumFunctionOnSet(f, s \ {c}) \in T /\ f[c] \in T
        BY <1>1, <2>1, <4>1, Zenon
      <4> HIDE DEF c
      <4> QED
        BY <4>2, <4>3
    <3> QED
      BY <3>2, <3>3, Zenon
  <2>2. \A s \in SUBSET S : (\A r \in SUBSET s : r # s => r \in Q) => s \in Q
    BY <2>1, Zenon
  <2>3. \A s \in SUBSET S : s \in Q
    <3> HIDE DEF Q
    <3> QED
      BY <2>2, SubsetInduction, Zenon
  <2> QED
    BY <2>3, Zenon
<1> QED
  BY <1>1, Zenon

(* Any element of the set can be split off. *)
LEMMA SumRemove ==
    ASSUME NEW f, NEW S, IsFiniteSet(S), \A x \in S : f[x] \in Int, NEW a \in S
    PROVE  SumFunctionOnSet(f, S) = f[a] + SumFunctionOnSet(f, S \ {a})
<1> DEFINE Sum(s) == SumFunctionOnSet(f, s)
           Q == {s \in SUBSET S : \A x \in s : Sum(s) = f[x] + Sum(s \ {x})}
<1>1. \A s \in SUBSET S : IsFiniteSet(s) /\ Sum(s) \in Int
  <2> TAKE s \in SUBSET S
  <2>1. IsFiniteSet(s)
    BY FS_Subset, Zenon
  <2> QED
    BY <2>1, SumType, Zenon
<1>2. ASSUME NEW s \in SUBSET S, \A r \in SUBSET s : r # s => r \in Q, NEW x \in s
      PROVE  Sum(s) = f[x] + Sum(s \ {x})
  <2> DEFINE c == CHOOSE y \in s : TRUE
  <2>1. c \in s /\ s \ {c} \in SUBSET s /\ s \ {c} # s /\ s \ {x} \in SUBSET s /\ s \ {x} # s
    BY Zenon
  <2>2. Sum(s) = f[c] + Sum(s \ {c})
    BY <1>1, SumStep, Zenon
  <2>3. CASE x = c
    BY <2>2, <2>3, Zenon
  <2>4. CASE x # c
    <3>1. Sum(s \ {c}) = f[x] + Sum((s \ {c}) \ {x})
      BY <1>2, <2>1, <2>4, Zenon
    <3>2. Sum(s \ {x}) = f[c] + Sum((s \ {x}) \ {c})
      BY <1>2, <2>1, <2>4
    <3>3. (s \ {c}) \ {x} = (s \ {x}) \ {c} /\ (s \ {c}) \ {x} \in SUBSET S
      BY Zenon
    <3>4. Sum((s \ {c}) \ {x}) \in Int /\ f[x] \in Int /\ f[c] \in Int
      BY <1>1, <2>1, <3>3, Zenon
    <3>5. Sum((s \ {c}) \ {x}) = Sum((s \ {x}) \ {c})
      BY <3>3, Zenon
    <3> HIDE DEF c
    <3> QED
      BY <2>2, <3>1, <3>2, <3>4, <3>5
  <2> QED
    BY <2>3, <2>4, Zenon
<1>3. \A s \in SUBSET S : (\A r \in SUBSET s : r # s => r \in Q) => s \in Q
  BY <1>2, Zenon
<1>4. \A s \in SUBSET S : s \in Q
  <2> HIDE DEF Q
  <2> QED
    BY <1>3, SubsetInduction, Zenon
<1> QED
  BY <1>4, Zenon

(* The sum over two disjoint sets together. *)
LEMMA SumUnion ==
    ASSUME NEW f, NEW A, NEW B, IsFiniteSet(A), IsFiniteSet(B), A \cap B = {},
           \A x \in A \cup B : f[x] \in Int
    PROVE  SumFunctionOnSet(f, A \cup B) = SumFunctionOnSet(f, A) + SumFunctionOnSet(f, B)
<1> DEFINE Sum(s) == SumFunctionOnSet(f, s)
           Q == {s \in SUBSET B : Sum(A \cup s) = Sum(A) + Sum(s)}
<1>1. Sum(A) \in Int
  BY SumType, Zenon
<1>2. ASSUME NEW s \in SUBSET B, \A r \in SUBSET s : r # s => r \in Q
      PROVE  Sum(A \cup s) = Sum(A) + Sum(s)
  <2>1. IsFiniteSet(s)
    BY FS_Subset, Zenon
  <2>2. CASE s = {}
    <3>1. A \cup s = A /\ Sum(s) = 0
      BY <2>1, <2>2, SumStep, Zenon
    <3> QED
      BY <1>1, <3>1
  <2>3. CASE s # {}
    <3>1. PICK c \in s : TRUE
      BY <2>3, Zenon
    <3> DEFINE r == s \ {c}
    <3>2. r \in SUBSET s /\ r # s
      BY <3>1, Zenon
    <3>3. Sum(A \cup r) = Sum(A) + Sum(r)
      BY <1>2, <3>2, Zenon
    <3>4. Sum(s) = f[c] + Sum(r)
      BY <2>1, <3>1, SumRemove
    <3>5. (A \cup s) \ {c} = A \cup r /\ IsFiniteSet(A \cup s)
      BY <2>1, <3>1, FS_Union, Zenon
    <3>6. Sum(A \cup s) = f[c] + Sum((A \cup s) \ {c})
      BY <3>1, <3>5, SumRemove
    <3>7. Sum(r) \in Int /\ f[c] \in Int
      <4>1. IsFiniteSet(r)
        BY <2>1, FS_Subset, Zenon
      <4> QED
        BY <3>1, <4>1, SumType, Zenon
    <3>8. Sum((A \cup s) \ {c}) = Sum(A \cup r)
      BY <3>5, Zenon
    <3> HIDE DEF r
    <3> QED
      BY <1>1, <3>3, <3>4, <3>6, <3>7, <3>8
  <2> QED
    BY <2>2, <2>3, Zenon
<1>3. \A s \in SUBSET B : (\A r \in SUBSET s : r # s => r \in Q) => s \in Q
  BY <1>2, Zenon
<1>4. \A s \in SUBSET B : s \in Q
  <2> HIDE DEF Q
  <2> QED
    BY <1>3, SubsetInduction, Zenon
<1> QED
  BY <1>4, Zenon

(* A sum over part of a set, of naturals, is at most the sum over it. *)
LEMMA SumSubset ==
    ASSUME NEW f, NEW S, IsFiniteSet(S), \A x \in S : f[x] \in Nat, NEW A \in SUBSET S
    PROVE  /\ SumFunctionOnSet(f, S) = SumFunctionOnSet(f, A) + SumFunctionOnSet(f, S \ A)
           /\ SumFunctionOnSet(f, A) \in Nat
           /\ SumFunctionOnSet(f, S \ A) \in Nat
           /\ SumFunctionOnSet(f, S) \in Nat
<1>1. IsFiniteSet(A) /\ IsFiniteSet(S \ A)
  BY FS_Subset, Zenon
<1>2. SumFunctionOnSet(f, A \cup (S \ A)) = SumFunctionOnSet(f, A) + SumFunctionOnSet(f, S \ A)
  <2>1. A \cap (S \ A) = {} /\ \A x \in A \cup (S \ A) : f[x] \in Int
    OBVIOUS
  <2> QED
    BY <1>1, <2>1, SumUnion, Zenon
<1>3. A \cup (S \ A) = S
  BY Zenon
<1>4. SumFunctionOnSet(f, A \cup (S \ A)) = SumFunctionOnSet(f, S)
  BY <1>3, Zenon
<1>5. SumFunctionOnSet(f, A) \in Nat /\ SumFunctionOnSet(f, S \ A) \in Nat
  BY <1>1, SumType, Zenon
<1> QED
  BY <1>2, <1>4, <1>5

(* Functions that agree on a set have the same sum over it. *)
LEMMA SumEqual ==
    ASSUME NEW f, NEW g, NEW S, IsFiniteSet(S), \A x \in S : f[x] = g[x]
    PROVE  SumFunctionOnSet(f, S) = SumFunctionOnSet(g, S)
<1> DEFINE Q == {s \in SUBSET S : SumFunctionOnSet(f, s) = SumFunctionOnSet(g, s)}
<1>1. ASSUME NEW s \in SUBSET S, \A r \in SUBSET s : r # s => r \in Q
      PROVE  SumFunctionOnSet(f, s) = SumFunctionOnSet(g, s)
  <2>1. IsFiniteSet(s)
    BY FS_Subset, Zenon
  <2>2. CASE s = {}
    BY <2>2, FS_EmptySet, SumStep, Zenon
  <2>3. CASE s # {}
    <3> DEFINE c == CHOOSE x \in s : TRUE
    <3>1. c \in s /\ s \ {c} \in SUBSET s /\ s \ {c} # s
      BY <2>3, Zenon
    <3>2. /\ SumFunctionOnSet(f, s) = f[c] + SumFunctionOnSet(f, s \ {c})
          /\ SumFunctionOnSet(g, s) = g[c] + SumFunctionOnSet(g, s \ {c})
      BY <2>1, <2>3, SumStep, Zenon
    <3>3. SumFunctionOnSet(f, s \ {c}) = SumFunctionOnSet(g, s \ {c}) /\ f[c] = g[c]
      BY <1>1, <3>1, Zenon
    <3> HIDE DEF c
    <3> QED
      BY <3>2, <3>3, Zenon
  <2> QED
    BY <2>2, <2>3, Zenon
<1>2. \A s \in SUBSET S : (\A r \in SUBSET s : r # s => r \in Q) => s \in Q
  BY <1>1, Zenon
<1>3. \A s \in SUBSET S : s \in Q
  <2> HIDE DEF Q
  <2> QED
    BY <1>2, SubsetInduction, Zenon
<1> QED
  BY <1>3, Zenon

(* A sum of smaller terms is smaller. *)
LEMMA SumBound ==
    ASSUME NEW f, NEW g, NEW S, IsFiniteSet(S),
           \A x \in S : f[x] \in Int /\ g[x] \in Int /\ f[x] <= g[x]
    PROVE  SumFunctionOnSet(f, S) <= SumFunctionOnSet(g, S)
<1> DEFINE Q == {s \in SUBSET S : SumFunctionOnSet(f, s) <= SumFunctionOnSet(g, s)}
<1>1. ASSUME NEW s \in SUBSET S, \A r \in SUBSET s : r # s => r \in Q
      PROVE  SumFunctionOnSet(f, s) <= SumFunctionOnSet(g, s)
  <2>1. IsFiniteSet(s)
    BY FS_Subset, Zenon
  <2>2. CASE s = {}
    <3>1. SumFunctionOnSet(f, s) = 0 /\ SumFunctionOnSet(g, s) = 0
      BY <2>2, FS_EmptySet, SumStep, Zenon
    <3> QED
      BY <3>1
  <2>3. CASE s # {}
    <3> DEFINE c == CHOOSE x \in s : TRUE
    <3>1. c \in s /\ s \ {c} \in SUBSET s /\ s \ {c} # s
      BY <2>3, Zenon
    <3>2. /\ SumFunctionOnSet(f, s) = f[c] + SumFunctionOnSet(f, s \ {c})
          /\ SumFunctionOnSet(g, s) = g[c] + SumFunctionOnSet(g, s \ {c})
      BY <2>1, <2>3, SumStep, Zenon
    <3>3. /\ SumFunctionOnSet(f, s \ {c}) <= SumFunctionOnSet(g, s \ {c})
          /\ f[c] \in Int /\ g[c] \in Int /\ f[c] <= g[c]
      BY <1>1, <3>1, Zenon
    <3>4. SumFunctionOnSet(f, s \ {c}) \in Int /\ SumFunctionOnSet(g, s \ {c}) \in Int
      <4>1. IsFiniteSet(s \ {c}) /\ \A x \in s \ {c} : f[x] \in Int /\ g[x] \in Int
        BY <2>1, FS_Subset, Zenon
      <4> QED
        BY <4>1, SumType, Zenon
    <3> HIDE DEF c
    <3> QED
      BY <3>2, <3>3, <3>4
  <2> QED
    BY <2>2, <2>3, Zenon
<1>2. \A s \in SUBSET S : (\A r \in SUBSET s : r # s => r \in Q) => s \in Q
  BY <1>1, Zenon
<1>3. \A s \in SUBSET S : s \in Q
  <2> HIDE DEF Q
  <2> QED
    BY <1>2, SubsetInduction, Zenon
<1> QED
  BY <1>3, Zenon

----------------------------------------------------------------------------
(* What an entry takes of the budget is a positive number. *)
LEMMA EntryBytesType ==
    ASSUME NEW k \in Keys, NEW v \in Text
    PROVE  EntryBytes(k, v) \in Nat /\ EntryBytes(k, v) > 0
BY KvStoreAssumption DEF EntryBytes, Text

(* BytesOf is a sum over a finite set of natural numbers. *)
LEMMA BytesOfSum ==
    ASSUME NEW s, IsStore(s), NEW K \in SUBSET DOMAIN s.entries
    PROVE  LET f == [k \in DOMAIN s.entries |-> EntryBytes(k, s.entries[k].value)] IN
           /\ IsFiniteSet(DOMAIN s.entries) /\ IsFiniteSet(K)
           /\ \A k \in DOMAIN s.entries : f[k] \in Nat
           /\ BytesOf(s, K) = SumFunctionOnSet(f, K)
<1> DEFINE f == [k \in DOMAIN s.entries |-> EntryBytes(k, s.entries[k].value)]
           g == [k \in K |-> EntryBytes(k, s.entries[k].value)]
<1>1. IsFiniteSet(DOMAIN s.entries) /\ IsFiniteSet(K)
  BY KvStoreAssumption, FS_Subset, Zenon DEF IsStore
<1>2. \A k \in DOMAIN s.entries : f[k] \in Nat
  BY EntryBytesType, Zenon DEF IsStore, Entry
<1>3. BytesOf(s, K) = SumFunctionOnSet(g, K)
  BY Zenon DEF BytesOf, SumFunction
<1>4. \A k \in K : f[k] = g[k]
  BY Zenon
<1> HIDE DEF f, g
<1>5. SumFunctionOnSet(f, K) = SumFunctionOnSet(g, K)
  BY <1>1, <1>4, SumEqual, Zenon
<1> QED
  BY <1>1, <1>2, <1>3, <1>5, Zenon DEF f

(* The bytes of the keys of a set are those of a part of it and of the     *)
(* rest.                                                                   *)
LEMMA BytesOfParts ==
    ASSUME NEW s, IsStore(s), NEW B \in SUBSET DOMAIN s.entries, NEW A \in SUBSET B
    PROVE  /\ BytesOf(s, A) \in Nat /\ BytesOf(s, B) \in Nat
           /\ BytesOf(s, B) = BytesOf(s, A) + BytesOf(s, B \ A)
<1> DEFINE f == [k \in DOMAIN s.entries |-> EntryBytes(k, s.entries[k].value)]
<1>1. /\ IsFiniteSet(B)
      /\ \A k \in B : f[k] \in Nat
      /\ BytesOf(s, B) = SumFunctionOnSet(f, B)
  BY BytesOfSum, Zenon
<1>2. BytesOf(s, A) = SumFunctionOnSet(f, A) /\ BytesOf(s, B \ A) = SumFunctionOnSet(f, B \ A)
  <2>1. A \in SUBSET DOMAIN s.entries /\ B \ A \in SUBSET DOMAIN s.entries
    BY Zenon
  <2> QED
    BY <2>1, BytesOfSum, Zenon
<1> HIDE DEF f
<1> QED
  BY <1>1, <1>2, SumSubset

(* Stores with the same values under K have the same bytes there. *)
LEMMA BytesOfSame ==
    ASSUME NEW s, NEW t, NEW K, \A k \in K : s.entries[k].value = t.entries[k].value
    PROVE  BytesOf(s, K) = BytesOf(t, K)
<1>1. [k \in K |-> EntryBytes(k, s.entries[k].value)] = [k \in K |-> EntryBytes(k, t.entries[k].value)]
  BY Zenon
<1> QED
  BY <1>1, Zenon DEF BytesOf

(* The bytes of one key are those of its entry. *)
LEMMA BytesOfOne ==
    ASSUME NEW s, IsStore(s), NEW k \in DOMAIN s.entries
    PROVE  BytesOf(s, {k}) = EntryBytes(k, s.entries[k].value)
<1> DEFINE f == [j \in DOMAIN s.entries |-> EntryBytes(j, s.entries[j].value)]
<1>1. {k} \in SUBSET DOMAIN s.entries
  BY Zenon
<1>2. IsFiniteSet({k}) /\ BytesOf(s, {k}) = SumFunctionOnSet(f, {k}) /\ f[k] \in Nat
  BY <1>1, BytesOfSum, Zenon
<1>3. SumFunctionOnSet(f, {k}) = f[k] + SumFunctionOnSet(f, {k} \ {k})
  <2> HIDE DEF f
  <2> QED
    BY <1>2, SumRemove
<1>4. {k} \ {k} = {}
  BY Zenon
<1>5. SumFunctionOnSet(f, {k} \ {k}) = 0
  BY <1>4, FS_EmptySet, SumStep, Zenon
<1>6. f[k] = EntryBytes(k, s.entries[k].value)
  BY Zenon
<1> HIDE DEF f
<1> QED
  BY <1>2, <1>3, <1>5, <1>6

(* Entries leave with their share of the count. *)
LEMMA EraseStore ==
    ASSUME NEW s, IsStore(s), NEW K \in SUBSET DOMAIN s.entries
    PROVE  LET t == Erase(s, K) IN
           /\ IsStore(t)
           /\ t.entries = [k \in DOMAIN s.entries \ K |-> s.entries[k]]
           /\ DOMAIN t.entries = DOMAIN s.entries \ K
           /\ t.memory_usage = s.memory_usage - BytesOf(s, K)
           /\ t.access_clock = s.access_clock
           /\ t.maxmemory = s.maxmemory
           /\ t.policy = s.policy
<1> DEFINE t == Erase(s, K)
<1>1. BytesOf(s, K) \in Nat
  BY BytesOfParts, Zenon
<1>2. /\ t.entries = [k \in DOMAIN s.entries \ K |-> s.entries[k]]
      /\ t.memory_usage = s.memory_usage - BytesOf(s, K)
      /\ t.access_clock = s.access_clock
      /\ t.maxmemory = s.maxmemory
      /\ t.policy = s.policy
      /\ t \in [entries : {t.entries}, memory_usage : {t.memory_usage},
                access_clock : {t.access_clock}, maxmemory : {t.maxmemory}, policy : {t.policy}]
  BY Zenon DEF Erase, Restrict, IsStore
<1> HIDE DEF t
<1>3. DOMAIN t.entries \subseteq Keys /\ t.entries \in [DOMAIN t.entries -> Entry]
  BY <1>2, Zenon DEF IsStore
<1>4. t.memory_usage \in Int /\ t.access_clock \in Nat /\ t.maxmemory \in Nat /\ t.policy \in Policies
  BY <1>1, <1>2 DEF IsStore
<1>5. IsStore(t)
  BY <1>2, <1>3, <1>4, Zenon DEF IsStore
<1> QED
  BY <1>2, <1>5, Zenon DEF t

(* Erasing keeps the count exact and within the budget. *)
LEMMA EraseSound ==
    ASSUME NEW s, Sound(s), NEW K \in SUBSET DOMAIN s.entries
    PROVE  Sound(Erase(s, K))
<1> DEFINE t == Erase(s, K)
           D == DOMAIN s.entries
<1>1. /\ IsStore(t)
      /\ t.entries = [k \in D \ K |-> s.entries[k]]
      /\ t.memory_usage = s.memory_usage - BytesOf(s, K)
      /\ t.maxmemory = s.maxmemory
  BY EraseStore DEF Sound
<1>2. BytesOf(s, D) = BytesOf(s, K) + BytesOf(s, D \ K)
  BY D \in SUBSET D, BytesOfParts, ZenonT(40) DEF Sound
<1>3. BytesOf(s, K) \in Nat /\ BytesOf(s, D \ K) \in Nat
  BY BytesOfParts, Zenon DEF Sound
<1> HIDE DEF t
<1>4. BytesOf(s, D \ K) = BytesOf(t, D \ K)
  BY <1>1, BytesOfSame
<1>5. DOMAIN t.entries = D \ K
  BY <1>1, Zenon
<1>6. BytesOf(t, DOMAIN t.entries) = BytesOf(t, D \ K)
  BY <1>5, Zenon
<1>7. s.memory_usage = BytesOf(s, D) /\ s.memory_usage <= s.maxmemory /\ s.maxmemory \in Nat
  BY Zenon DEF Sound, IsStore
<1> QED
  BY <1>1, <1>2, <1>3, <1>4, <1>6, <1>7 DEF Sound, t

(* Expired entries are entries. *)
LEMMA ExpiredEntries ==
    ASSUME NEW s, NEW K, NEW now
    PROVE  Expired(s, K, now) \in SUBSET DOMAIN s.entries
BY Zenon DEF Expired

(* The lazy deletion of a key that has expired leaves a sound store. *)
LEMMA RemoveIfExpiredSound ==
    ASSUME NEW s, Sound(s), NEW key, NEW now
    PROVE  LET t == RemoveIfExpired(s, key, now) IN
           /\ Sound(t)
           /\ DOMAIN t.entries \subseteq DOMAIN s.entries
           /\ t.access_clock = s.access_clock
           /\ t.maxmemory = s.maxmemory
           /\ t.policy = s.policy
<1> DEFINE E == Expired(s, {key}, now)
<1>1. E \in SUBSET DOMAIN s.entries
  BY ExpiredEntries, Zenon
<1> HIDE DEF E
<1>2. Sound(Erase(s, E))
  BY <1>1, EraseSound, Zenon
<1>3. /\ DOMAIN Erase(s, E).entries = DOMAIN s.entries \ E
      /\ Erase(s, E).access_clock = s.access_clock
      /\ Erase(s, E).maxmemory = s.maxmemory
      /\ Erase(s, E).policy = s.policy
  BY <1>1, EraseStore, Zenon DEF Sound
<1> QED
  BY <1>2, <1>3, Zenon DEF RemoveIfExpired, E

(* A call that leaves the keys, the values and the count alone. *)
LEMMA SameValuesSound ==
    ASSUME NEW s, Sound(s), NEW t, IsStore(t), DOMAIN t.entries = DOMAIN s.entries,
           \A k \in DOMAIN s.entries : t.entries[k].value = s.entries[k].value,
           t.memory_usage = s.memory_usage, t.maxmemory = s.maxmemory
    PROVE  Sound(t)
<1>1. BytesOf(t, DOMAIN s.entries) = BytesOf(s, DOMAIN s.entries)
  BY BytesOfSame
<1>2. BytesOf(t, DOMAIN t.entries) = BytesOf(t, DOMAIN s.entries)
  BY Zenon
<1> QED
  BY <1>1, <1>2, Zenon DEF Sound

(* The bytes an older entry of key takes, if there is one. *)
LEMMA OldBytesType ==
    ASSUME NEW s, IsStore(s), NEW key
    PROVE  /\ OldBytes(s, key) \in Nat
           /\ OldBytes(s, key) = BytesOf(s, DOMAIN s.entries \cap {key})
<1> DEFINE D == DOMAIN s.entries
<1>1. CASE key \in D
  <2>1. {key} \in SUBSET D /\ D \cap {key} = {key}
    BY <1>1, Zenon
  <2>2. BytesOf(s, D \cap {key}) = BytesOf(s, {key})
    BY <2>1, Zenon
  <2>3. BytesOf(s, {key}) \in Nat
    BY <2>1, BytesOfParts, Zenon
  <2> QED
    BY <1>1, <2>2, <2>3, Zenon DEF OldBytes, Has
<1>2. CASE key \notin D
  <2>1. {} \in SUBSET D /\ D \cap {key} = {}
    BY <1>2, Zenon
  <2>2. BytesOf(s, D \cap {key}) = BytesOf(s, {})
    BY <2>1, Zenon
  <2>3. BytesOf(s, {}) = 0
    BY FS_EmptySet, SumStep, Zenon DEF BytesOf, SumFunction
  <2> QED
    BY <1>2, <2>2, <2>3, Zenon DEF OldBytes, Has
<1> QED
  BY <1>1, <1>2, Zenon

(* A write that fits puts its entry in the place of the older one, with    *)
(* the count kept exact.                                                   *)
LEMMA PutSound ==
    ASSUME NEW s, Sound(s), NEW key \in Keys, NEW value \in Text,
           NEW expires_at \in Int \cup {Never},
           s.memory_usage - OldBytes(s, key) + EntryBytes(key, value) <= s.maxmemory
    PROVE  LET t == Put(s, key, value, expires_at) IN
           /\ Sound(t)
           /\ DOMAIN t.entries = DOMAIN s.entries \cup {key}
           /\ t.entries[key].value = value
           /\ t.entries[key].expires_at = expires_at
           /\ \A k \in DOMAIN s.entries \ {key} : t.entries[k] = s.entries[k]
           /\ t.policy = s.policy
           /\ t.maxmemory = s.maxmemory
<1> DEFINE t == Put(s, key, value, expires_at)
           e == [value |-> value, expires_at |-> expires_at, last_access |-> NextAccess(s),
                 frequency |-> 1]
           D == DOMAIN s.entries
<1>1. s.access_clock \in Nat /\ s.memory_usage \in Int /\ EntryBytes(key, value) \in Nat
  BY EntryBytesType, Zenon DEF Sound, IsStore
<1>2. NextAccess(s) \in Nat
  BY <1>1 DEF NextAccess
<1>3. e \in Entry
  BY <1>2, Zenon DEF Entry
<1>4. /\ t.entries = [k \in D \cup {key} |-> IF k \in {key} THEN e ELSE s.entries[k]]
      /\ t.memory_usage = s.memory_usage - OldBytes(s, key) + EntryBytes(key, value)
      /\ t.access_clock = NextAccess(s)
      /\ t.maxmemory = s.maxmemory
      /\ t.policy = s.policy
      /\ t \in [entries : {t.entries}, memory_usage : {t.memory_usage},
                access_clock : {t.access_clock}, maxmemory : {t.maxmemory}, policy : {t.policy}]
  BY Zenon DEF Put, Merge, Sound, IsStore
<1>5. e.value = value /\ e.expires_at = expires_at
  BY Zenon
<1> HIDE DEF t, e
<1>6. /\ DOMAIN t.entries = D \cup {key}
      /\ t.entries[key] = e
      /\ \A k \in D \ {key} : t.entries[k] = s.entries[k]
  BY <1>4, Zenon
<1>7. DOMAIN t.entries \subseteq Keys /\ t.entries \in [DOMAIN t.entries -> Entry]
  BY <1>3, <1>4 DEF Sound, IsStore
<1>8. OldBytes(s, key) \in Nat /\ OldBytes(s, key) = BytesOf(s, D \cap {key})
  BY OldBytesType, Zenon DEF Sound
<1>9. IsStore(t)
  <2>1. t.memory_usage \in Int
    BY <1>1, <1>4, <1>8
  <2>2. t.access_clock \in Nat /\ t.maxmemory \in Nat /\ t.policy \in Policies
    BY <1>2, <1>4, Zenon DEF Sound, IsStore
  <2> QED
    BY <1>4, <1>7, <2>1, <2>2, Zenon DEF IsStore
<1>10. BytesOf(t, D \cup {key}) = BytesOf(t, {key}) + BytesOf(t, (D \cup {key}) \ {key})
  BY <1>6, <1>9, BytesOfParts
<1>11. BytesOf(t, {key}) = EntryBytes(key, value)
  BY <1>5, <1>6, <1>9, BytesOfOne, Zenon
<1>12. BytesOf(t, (D \cup {key}) \ {key}) = BytesOf(s, D \ {key})
  <2>1. (D \cup {key}) \ {key} = D \ {key}
    BY Zenon
  <2>2. BytesOf(t, (D \cup {key}) \ {key}) = BytesOf(t, D \ {key})
    BY <2>1, Zenon
  <2>3. BytesOf(t, D \ {key}) = BytesOf(s, D \ {key})
    BY <1>6, BytesOfSame
  <2> QED
    BY <2>2, <2>3, Zenon
<1>13. BytesOf(s, D) = BytesOf(s, D \cap {key}) + BytesOf(s, D \ {key}) /\ BytesOf(s, D \ {key}) \in Nat
  <2>1. D \cap {key} \in SUBSET D /\ D \ (D \cap {key}) = D \ {key} /\ D \ {key} \in SUBSET D
    BY Zenon
  <2>2. BytesOf(s, D) = BytesOf(s, D \cap {key}) + BytesOf(s, D \ (D \cap {key}))
    BY <2>1, BytesOfParts DEF Sound
  <2>3. BytesOf(s, D \ (D \cap {key})) = BytesOf(s, D \ {key})
    BY <2>1, Zenon
  <2>4. BytesOf(s, D \ {key}) \in Nat
    BY <2>1, BytesOfParts, Zenon DEF Sound
  <2> QED
    BY <2>2, <2>3, <2>4, Zenon
<1>14. BytesOf(t, DOMAIN t.entries) = BytesOf(t, D \cup {key})
  BY <1>6, Zenon
<1>15. s.memory_usage = BytesOf(s, D)
  BY Zenon DEF Sound
<1>16. t.memory_usage = BytesOf(t, DOMAIN t.entries)
  BY <1>1, <1>4, <1>8, <1>10, <1>11, <1>12, <1>13, <1>14, <1>15
<1>17. Sound(t)
  BY <1>4, <1>9, <1>16, Zenon DEF Sound
<1> QED
  BY <1>4, <1>5, <1>6, <1>17, Zenon DEF t

(* A deadline, wrapped or not, is a time. *)
LEMMA AfterType ==
    ASSUME NEW t \in Int, NEW ms \in Int
    PROVE  After(t, ms) \in Int
<1>1. TicksPerMs \in Nat /\ TimeHalf \in Nat \ {0}
  BY KvStoreAssumption, Zenon
<1>2. ms * TicksPerMs \in Int
  BY <1>1
<1> QED
  BY <1>1, <1>2 DEF After

(* The text of a number is a text. *)
LEMMA DecimalTextType ==
    ASSUME NEW n \in Int
    PROVE  DecimalText(n) \in Text
<1> DEFINE m == IF n < 0 THEN -n ELSE n
           E == {e \in 1..m : 10^e <= m}
<1>1. E \subseteq 1..m /\ 1 \in Int /\ m \in Int
  OBVIOUS
<1>2. DecimalText(n) = [int |-> n, size |-> (IF n < 0 THEN 1 ELSE 0) + 1 + Cardinality(E)]
  BY Zenon DEF DecimalText
<1> HIDE DEF m, E
<1>3. IsFiniteSet(1..m)
  BY <1>1, FS_Interval, Zenon
<1>4. Cardinality(E) \in Nat
  BY <1>1, <1>3, FS_Subset, FS_CardinalityType, Zenon
<1> QED
  BY <1>2, <1>4 DEF Text

(* The victims free what is missing, and there are none when nothing is. *)
LEMMA VictimsSound ==
    ASSUME NEW s, Sound(s), NEW C \in SUBSET DOMAIN s.entries, NEW excess \in Int,
           NEW V \in Victims(s, C, excess)
    PROVE  /\ V \in SUBSET C
           /\ BytesOf(s, V) \in Nat
           /\ BytesOf(s, V) >= excess
           /\ excess <= 0 => V = {}
<1>1. V \in SUBSET C /\ BytesOf(s, V) >= excess
  BY Zenon DEF Victims, Enough
<1>2. V \in SUBSET DOMAIN s.entries
  BY <1>1, Zenon
<1>3. BytesOf(s, V) \in Nat
  BY <1>2, BytesOfParts, Zenon DEF Sound
<1>4. ASSUME excess <= 0, V # {}
      PROVE  FALSE
  <2>1. PICK v \in V : ~(BytesOf(s, V \ {v}) >= excess)
    BY <1>4, Zenon DEF Victims, Enough
  <2>2. V \ {v} \in SUBSET DOMAIN s.entries
    BY <1>2, Zenon
  <2>3. BytesOf(s, V \ {v}) \in Nat
    BY <2>2, BytesOfParts, Zenon DEF Sound
  <2> QED
    BY <1>4, <2>1, <2>3
<1> QED
  BY <1>1, <1>3, <1>4, Zenon

(* Eviction brings the projected size within the budget; a store that does *)
(* not evict takes no victim.                                              *)
LEMMA VictimsFree ==
    ASSUME NEW s, Sound(s), NEW C \in SUBSET DOMAIN s.entries, NEW projected \in Int,
           NEW V \in IF s.policy = "noeviction" /\ projected > s.maxmemory THEN {}
                     ELSE Victims(s, C, projected - s.maxmemory)
    PROVE  /\ V \in SUBSET C
           /\ BytesOf(s, V) \in Nat
           /\ projected - BytesOf(s, V) <= s.maxmemory
           /\ s.policy = "noeviction" => V = {}
<1> DEFINE excess == projected - s.maxmemory
<1>1. /\ V \in Victims(s, C, excess)
      /\ s.policy = "noeviction" => ~(projected > s.maxmemory)
  BY Zenon
<1>2. excess \in Int /\ s.maxmemory \in Nat
  BY DEF Sound, IsStore
<1>3. /\ V \in SUBSET C
      /\ BytesOf(s, V) \in Nat
      /\ BytesOf(s, V) >= excess
      /\ excess <= 0 => V = {}
  <2> HIDE DEF excess
  <2> QED
    BY <1>1, <1>2, VictimsSound, Zenon
<1> QED
  BY <1>1, <1>2, <1>3

(* MakeRoom never takes the key that is written, and makes enough room. *)
LEMMA MakeRoomSound ==
    ASSUME NEW s, Sound(s), NEW projected \in Int, NEW key, NEW V \in MakeRoom(s, projected, key)
    PROVE  /\ V \in SUBSET (DOMAIN s.entries \ {key})
           /\ BytesOf(s, V) \in Nat
           /\ projected - BytesOf(s, V) <= s.maxmemory
           /\ s.policy = "noeviction" => V = {}
<1> DEFINE C == DOMAIN s.entries \ {key}
<1>1. C \in SUBSET DOMAIN s.entries
  BY Zenon
<1>2. V \in IF s.policy = "noeviction" /\ projected > s.maxmemory THEN {}
            ELSE Victims(s, C, projected - s.maxmemory)
  BY Zenon DEF MakeRoom
<1>3. /\ V \in SUBSET C
      /\ BytesOf(s, V) \in Nat
      /\ projected - BytesOf(s, V) <= s.maxmemory
      /\ s.policy = "noeviction" => V = {}
  <2> HIDE DEF C
  <2> QED
    BY <1>1, <1>2, VictimsFree, Zenon
<1> QED
  BY <1>3, Zenon

(* The deadline Set gives an entry. *)
Deadline(now, ttl) == IF ttl = Never THEN Never ELSE After(now, ttl)

(* What Set does when it is refused and when it is not: a refusal has      *)
(* erased the key itself at most, and only if it had expired.              *)
LEMMA SetOutcome ==
    ASSUME NEW s, Sound(s), NEW request, request.key \in Keys, request.value \in Text,
           NEW now, NEW o \in Set(s, request, now),
           NEW key, key = request.key, NEW t, t = RemoveIfExpired(s, key, now),
           NEW projected,
           projected = t.memory_usage - OldBytes(t, key) + EntryBytes(key, request.value)
    PROVE  \/ /\ ConditionFails(request, Has(t, key))
              /\ o = Outcome(t, "kConditionFailed", Nothing)
           \/ /\ ~ConditionFails(request, Has(t, key))
              /\ o = Outcome(t, "kNoMemory", Nothing)
           \/ /\ ~ConditionFails(request, Has(t, key))
              /\ \E V \in SUBSET (DOMAIN t.entries \ {key}) :
                    /\ o = Outcome(Put(Erase(t, V), key, request.value, Deadline(now, request.ttl)),
                                   "kOk", request.value)
                    /\ BytesOf(t, V) \in Nat
                    /\ projected - BytesOf(t, V) <= t.maxmemory
                    /\ t.policy = "noeviction" => V = {}
<1> DEFINE fails == ConditionFails(request, Has(t, key))
           victims == MakeRoom(t, projected, key)
           Written(V) == Outcome(Put(Erase(t, V), key, request.value, Deadline(now, request.ttl)),
                                 "kOk", request.value)
<1>1. Sound(t)
  BY RemoveIfExpiredSound, Zenon
<1>2. OldBytes(t, key) \in Nat
  BY <1>1, OldBytesType, Zenon DEF Sound
<1>3. projected \in Int /\ t.maxmemory \in Nat
  <2>1. t.memory_usage \in Int /\ t.maxmemory \in Nat
    BY <1>1, Zenon DEF Sound, IsStore
  <2> QED
    BY <1>2, <2>1, EntryBytesType
<1>4. \/ fails /\ o = Outcome(t, "kConditionFailed", Nothing)
      \/ ~fails /\ o = Outcome(t, "kNoMemory", Nothing)
      \/ ~fails /\ \E V \in victims : o = Written(V)
  BY Zenon DEF Set, Deadline
<1>5. ASSUME NEW V \in victims
      PROVE  /\ V \in SUBSET (DOMAIN t.entries \ {key})
             /\ BytesOf(t, V) \in Nat
             /\ projected - BytesOf(t, V) <= t.maxmemory
             /\ t.policy = "noeviction" => V = {}
  BY <1>1, <1>3, MakeRoomSound
<1> HIDE DEF victims, fails, Written
<1>6. \/ fails /\ o = Outcome(t, "kConditionFailed", Nothing)
      \/ ~fails /\ o = Outcome(t, "kNoMemory", Nothing)
      \/ ~fails /\ \E V \in SUBSET (DOMAIN t.entries \ {key}) :
            /\ o = Written(V)
            /\ BytesOf(t, V) \in Nat
            /\ projected - BytesOf(t, V) <= t.maxmemory
            /\ t.policy = "noeviction" => V = {}
  BY <1>4, <1>5, Zenon
<1> QED
  BY <1>6, Zenon DEF fails, Written

(* Methods one after the other. *)
LEMMA FollowsTransitive ==
    ASSUME NEW s, NEW t, Follows(s, t), NEW u, Follows(t, u)
    PROVE  Follows(s, u)
BY Zenon DEF Follows

(* What Erase leaves. *)
LEMMA EraseFollows ==
    ASSUME NEW s, Sound(s), NEW K \in SUBSET DOMAIN s.entries
    PROVE  /\ Follows(s, Erase(s, K))
           /\ Erase(s, K).entries = [k \in DOMAIN s.entries \ K |-> s.entries[k]]
           /\ Erase(s, K).memory_usage = s.memory_usage - BytesOf(s, K)
           /\ Erase(s, K).access_clock = s.access_clock
<1>1. /\ Erase(s, K).entries = [k \in DOMAIN s.entries \ K |-> s.entries[k]]
      /\ Erase(s, K).memory_usage = s.memory_usage - BytesOf(s, K)
      /\ Erase(s, K).access_clock = s.access_clock
      /\ Erase(s, K).maxmemory = s.maxmemory
      /\ Erase(s, K).policy = s.policy
  <2>1. IsStore(s)
    BY Zenon DEF Sound
  <2>2. Erase(s, K).entries = [k \in DOMAIN s.entries \ K |-> s.entries[k]]
    BY <2>1, EraseStore
  <2>3. Erase(s, K).memory_usage = s.memory_usage - BytesOf(s, K)
        /\ Erase(s, K).access_clock = s.access_clock /\ Erase(s, K).maxmemory = s.maxmemory
        /\ Erase(s, K).policy = s.policy
    BY <2>1, EraseStore, ZenonT(40)
  <2> QED
    BY <2>2, <2>3, Zenon
<1>2. Sound(Erase(s, K))
  BY EraseSound, Zenon
<1> QED
  BY <1>1, <1>2, Zenon DEF Follows

(* The lazy deletion leaves budget and policy alone. *)
LEMMA RemoveIfExpiredFollows ==
    ASSUME NEW s, Sound(s), NEW key, NEW now
    PROVE  Follows(s, RemoveIfExpired(s, key, now))
BY RemoveIfExpiredSound, Zenon DEF Follows

(* An accepted write, after its victims are gone. *)
LEMMA PutAfterErase ==
    ASSUME NEW s, Sound(s), NEW key \in Keys, NEW value \in Text,
           NEW expires_at \in Int \cup {Never}, NEW V \in SUBSET (DOMAIN s.entries \ {key}),
           NEW projected, projected = s.memory_usage - OldBytes(s, key) + EntryBytes(key, value),
           projected - BytesOf(s, V) <= s.maxmemory,
           NEW t, t = Put(Erase(s, V), key, value, expires_at)
    PROVE  /\ Follows(s, t)
           /\ DOMAIN t.entries = (DOMAIN s.entries \ V) \cup {key}
           /\ t.entries[key].value = value
           /\ t.entries[key].expires_at = expires_at
           /\ \A k \in DOMAIN t.entries \ {key} : t.entries[k] = s.entries[k]
<1> DEFINE r == Erase(s, V)
           D == DOMAIN s.entries
<1>1. V \in SUBSET D
  BY Zenon
<1>2. /\ Follows(s, r)
      /\ r.entries = [k \in D \ V |-> s.entries[k]]
  BY <1>1, EraseFollows, Zenon
<1>3. r.memory_usage = s.memory_usage - BytesOf(s, V)
  BY <1>1, EraseStore, Zenon DEF Sound
<1> HIDE DEF r
<1>4. Sound(r) /\ r.maxmemory = s.maxmemory /\ r.policy = s.policy /\ DOMAIN r.entries = D \ V
  BY <1>2, Zenon DEF Follows
<1>5. OldBytes(r, key) = OldBytes(s, key)
  <2>1. Has(r, key) <=> Has(s, key)
    BY <1>4, Zenon DEF Has
  <2>2. ASSUME Has(s, key)
        PROVE  BytesOf(r, {key}) = BytesOf(s, {key})
    <3>1. \A k \in {key} : r.entries[k].value = s.entries[k].value
      BY <1>2, <2>2, Zenon DEF Has
    <3> QED
      BY <3>1, BytesOfSame, Zenon
  <2> QED
    BY <2>1, <2>2, Zenon DEF OldBytes
<1>6. s.memory_usage \in Int /\ BytesOf(s, V) \in Nat /\ OldBytes(s, key) \in Nat
      /\ EntryBytes(key, value) \in Nat /\ s.maxmemory \in Nat
  <2>1. IsStore(s)
    BY Zenon DEF Sound
  <2>2. s.memory_usage \in Int /\ s.maxmemory \in Nat
    BY <2>1, Zenon DEF IsStore
  <2>3. BytesOf(s, V) \in Nat
    BY <1>1, <2>1, BytesOfParts, Zenon
  <2> QED
    BY <2>1, <2>2, <2>3, OldBytesType, EntryBytesType, Zenon
<1>7. r.memory_usage - OldBytes(r, key) + EntryBytes(key, value) <= r.maxmemory
  BY <1>3, <1>4, <1>5, <1>6
<1>8. t = Put(r, key, value, expires_at)
  BY Zenon DEF r
<1>9. /\ Sound(t)
      /\ DOMAIN t.entries = DOMAIN r.entries \cup {key}
      /\ t.entries[key].value = value
      /\ t.entries[key].expires_at = expires_at
      /\ \A k \in DOMAIN r.entries \ {key} : t.entries[k] = r.entries[k]
      /\ t.policy = r.policy
      /\ t.maxmemory = r.maxmemory
  BY <1>4, <1>7, <1>8, PutSound
<1>10. \A k \in DOMAIN t.entries \ {key} : t.entries[k] = s.entries[k]
  BY <1>2, <1>4, <1>9, Zenon
<1> QED
  BY <1>4, <1>9, <1>10, Zenon DEF Follows

(* The deadline of a write. *)
LEMMA DeadlineType ==
    ASSUME NEW now \in Int, NEW ttl \in Int \cup {Never}
    PROVE  Deadline(now, ttl) \in Int \cup {Never}
BY AfterType, Zenon DEF Deadline

(* Whatever Set does, the store stays sound. *)
LEMMA SetFollows ==
    ASSUME NEW s, Sound(s), NEW request, request.key \in Keys, request.value \in Text,
           request.ttl \in Int \cup {Never}, NEW now \in Int, NEW o \in Set(s, request, now)
    PROVE  Follows(s, o.store)
<1> DEFINE key == request.key
           t == RemoveIfExpired(s, key, now)
           projected == t.memory_usage - OldBytes(t, key) + EntryBytes(key, request.value)
           deadline == Deadline(now, request.ttl)
<1>1. Follows(s, t)
  BY RemoveIfExpiredFollows, Zenon
<1>2. \/ o.store = t
      \/ \E V \in SUBSET (DOMAIN t.entries \ {key}) :
            /\ o.store = Put(Erase(t, V), key, request.value, deadline)
            /\ projected - BytesOf(t, V) <= t.maxmemory
  <2> HIDE DEF key, t, projected, deadline
  <2>1. key = request.key /\ t = RemoveIfExpired(s, key, now)
        /\ projected = t.memory_usage - OldBytes(t, key) + EntryBytes(key, request.value)
    BY Zenon DEF key, t, projected
  <2> QED
    BY <2>1, SetOutcome DEF Outcome, deadline
<1>3. ASSUME NEW V \in SUBSET (DOMAIN t.entries \ {key}),
             o.store = Put(Erase(t, V), key, request.value, deadline),
             projected - BytesOf(t, V) <= t.maxmemory
      PROVE  Follows(t, o.store)
  <2>1. deadline \in Int \cup {Never} /\ Sound(t)
    BY <1>1, DeadlineType, Zenon DEF Follows
  <2>2. projected = t.memory_usage - OldBytes(t, key) + EntryBytes(key, request.value)
        /\ key \in Keys
    BY Zenon
  <2> HIDE DEF t, deadline, key, projected
  <2> QED
    BY <1>3, <2>1, <2>2, PutAfterErase
<1> HIDE DEF t, key, deadline, projected
<1> QED
  BY <1>1, <1>2, <1>3, FollowsTransitive, Zenon

(* Keys that were not there are written together. *)
LEMMA PutAllFollows ==
    ASSUME NEW s, Sound(s), NEW updates, NEW K \in SUBSET Keys, K = DOMAIN updates,
           updates \in [K -> Text], \A k \in K : k \notin DOMAIN s.entries, NEW order \in [K -> Nat],
           s.memory_usage + Required(updates) <= s.maxmemory,
           NEW t, t = PutAll(s, updates, order)
    PROVE  /\ Follows(s, t)
           /\ DOMAIN t.entries = DOMAIN s.entries \cup K
           /\ \A k \in K : t.entries[k].value = updates[k] /\ t.entries[k].expires_at = Never
           /\ \A k \in DOMAIN s.entries : t.entries[k] = s.entries[k]
<1> DEFINE D == DOMAIN s.entries
           E(k) == [value |-> updates[k], expires_at |-> Never, last_access |-> order[k],
                    frequency |-> 1]
           f == [k \in K |-> EntryBytes(k, updates[k])]
<1>1. DOMAIN updates = K /\ D \subseteq Keys /\ IsFiniteSet(K)
  BY KvStoreAssumption, FS_Subset, Zenon DEF Sound, IsStore
<1>2. Required(updates) = SumFunctionOnSet(f, K) /\ Required(updates) \in Nat
  <2>1. Required(updates) = SumFunctionOnSet(f, K)
    BY <1>1, Zenon DEF Required, SumFunction
  <2>2. \A k \in K : f[k] \in Nat
    BY EntryBytesType, Zenon
  <2> HIDE DEF f
  <2> QED
    BY <1>1, <2>1, <2>2, SumType, Zenon
<1>3. Cardinality(K) \in Nat
  BY <1>1, FS_CardinalityType, Zenon
<1>4. /\ t.entries = [k \in D \cup K |-> IF k \in K THEN E(k) ELSE s.entries[k]]
      /\ t.memory_usage = s.memory_usage + Required(updates)
      /\ t.access_clock = s.access_clock + Cardinality(K)
      /\ t.maxmemory = s.maxmemory
      /\ t.policy = s.policy
      /\ t \in [entries : {t.entries}, memory_usage : {t.memory_usage},
                access_clock : {t.access_clock}, maxmemory : {t.maxmemory}, policy : {t.policy}]
  BY <1>1, Zenon DEF PutAll, Merge, Sound, IsStore
<1>5. \A k \in K : E(k) \in Entry /\ E(k).value = updates[k] /\ E(k).expires_at = Never
  BY Zenon DEF Entry
<1> HIDE DEF E
<1>6. /\ DOMAIN t.entries = D \cup K
      /\ \A k \in K : t.entries[k] = E(k)
      /\ \A k \in D : t.entries[k] = s.entries[k]
  BY <1>4, Zenon
<1>7. IsStore(t)
  <2>1. t.entries \in [DOMAIN t.entries -> Entry] /\ DOMAIN t.entries \subseteq Keys
    BY <1>1, <1>4, <1>5 DEF Sound, IsStore
  <2>2. t.memory_usage \in Int /\ t.access_clock \in Nat /\ t.maxmemory \in Nat
        /\ t.policy \in Policies
    BY <1>2, <1>3, <1>4 DEF Sound, IsStore
  <2> QED
    BY <1>4, <2>1, <2>2, Zenon DEF IsStore
<1>8. BytesOf(t, K) = Required(updates)
  <2>1. [k \in K |-> EntryBytes(k, t.entries[k].value)] = f
    BY <1>5, <1>6, Zenon
  <2>2. SumFunction([k \in K |-> EntryBytes(k, t.entries[k].value)]) = SumFunction(f)
    BY <2>1, Zenon
  <2> QED
    BY <1>1, <2>2, Zenon DEF BytesOf, Required
<1>9. BytesOf(t, D \cup K) = BytesOf(t, K) + BytesOf(t, (D \cup K) \ K)
  <2>1. D \cup K \in SUBSET DOMAIN t.entries /\ K \in SUBSET (D \cup K)
    BY <1>6, Zenon
  <2> QED
    BY <1>7, <2>1, BytesOfParts, SMTT(25)
<1>10. BytesOf(t, (D \cup K) \ K) = BytesOf(s, D)
  <2>1. (D \cup K) \ K = D
    BY Zenon
  <2>2. BytesOf(t, (D \cup K) \ K) = BytesOf(t, D)
    BY <2>1, Zenon
  <2>3. BytesOf(t, D) = BytesOf(s, D)
    BY <1>6, BytesOfSame
  <2> QED
    BY <2>2, <2>3, Zenon
<1>11. BytesOf(t, DOMAIN t.entries) = BytesOf(t, D \cup K)
  BY <1>6, Zenon
<1>12. s.memory_usage = BytesOf(s, D) /\ s.memory_usage \in Int
  BY Zenon DEF Sound, IsStore
<1>13. t.memory_usage = BytesOf(t, DOMAIN t.entries)
  BY <1>2, <1>4, <1>8, <1>9, <1>10, <1>11, <1>12
<1>14. Sound(t)
  BY <1>4, <1>7, <1>13, Zenon DEF Sound
<1> QED
  BY <1>4, <1>5, <1>6, <1>14 DEF Follows

(* MSet leaves the very store it was given, or one with all its updates. *)
LEMMA MSetOutcome ==
    ASSUME NEW s, Sound(s), NEW updates, NEW K \in SUBSET Keys, K = DOMAIN updates,
           updates \in [K -> Text], NEW o \in MSet(s, updates)
    PROVE  \/ o = Outcome(s, "kNoMemory", Nothing)
           \/ /\ o.status = "kOk"
              /\ Follows(s, o.store)
              /\ K \subseteq DOMAIN o.store.entries
              /\ DOMAIN o.store.entries \subseteq DOMAIN s.entries \cup K
              /\ s.policy = "noeviction" => DOMAIN s.entries \subseteq DOMAIN o.store.entries
              /\ \A k \in K : /\ o.store.entries[k].value = updates[k]
                              /\ o.store.entries[k].expires_at = Never
              /\ \A k \in DOMAIN o.store.entries \ K : o.store.entries[k] = s.entries[k]
<1> DEFINE D == DOMAIN s.entries
           trial == Erase(s, DOMAIN updates \cap D)
           projected == trial.memory_usage + Required(updates)
           victims == IF s.policy = "noeviction" /\ projected > s.maxmemory THEN {}
                      ELSE Victims(trial, DOMAIN trial.entries, projected - s.maxmemory)
           orders == Bijection(DOMAIN updates, (s.access_clock + 1)..(s.access_clock + Cardinality(DOMAIN updates)))
<1>1. IsFiniteSet(K)
  BY KvStoreAssumption, FS_Subset, Zenon
<1>2. /\ Follows(s, trial)
      /\ trial.entries = [k \in D \ (DOMAIN updates \cap D) |-> s.entries[k]]
  BY DOMAIN updates \cap D \in SUBSET DOMAIN s.entries, EraseFollows, Zenon
<1>3. Required(updates) \in Nat
  <2> DEFINE f == [k \in K |-> EntryBytes(k, updates[k])]
  <2>1. Required(updates) = SumFunctionOnSet(f, K)
    BY <1>1, Zenon DEF Required, SumFunction
  <2>2. \A k \in K : f[k] \in Nat
    BY EntryBytesType, Zenon
  <2> HIDE DEF f
  <2> QED
    BY <1>1, <2>1, <2>2, SumType, Zenon
<1>4. \/ o = Outcome(s, "kNoMemory", Nothing)
      \/ \E V \in victims, order \in orders :
            o = Outcome(PutAll(Erase(trial, V), updates, order), "kOk", Nothing)
  <2>1. MSet(s, updates) =
          IF Required(updates) > s.maxmemory \/ victims = {}
          THEN {Outcome(s, "kNoMemory", Nothing)}
          ELSE {Outcome(PutAll(Erase(trial, V), updates, order), "kOk", Nothing) :
                  V \in victims, order \in orders}
    BY DEF MSet, AfterRefusal
  <2> HIDE DEF victims, orders, trial
  <2> QED
    BY <2>1
<1>5. ASSUME NEW V \in victims, NEW order \in orders,
             o = Outcome(PutAll(Erase(trial, V), updates, order), "kOk", Nothing)
      PROVE  /\ o.status = "kOk"
             /\ Follows(s, o.store)
             /\ K \subseteq DOMAIN o.store.entries
             /\ DOMAIN o.store.entries \subseteq D \cup K
             /\ s.policy = "noeviction" => D \subseteq DOMAIN o.store.entries
             /\ \A k \in K : /\ o.store.entries[k].value = updates[k]
                             /\ o.store.entries[k].expires_at = Never
             /\ \A k \in DOMAIN o.store.entries \ K : o.store.entries[k] = s.entries[k]
  <2>1. Cardinality(K) \in Nat /\ s.access_clock \in Nat
    BY <1>1, FS_CardinalityType, Zenon DEF Sound, IsStore
  <2>2. order \in [K -> Nat]
    <3>1. order \in [K -> (s.access_clock + 1)..(s.access_clock + Cardinality(K))]
      BY Zenon DEF Bijection, Injection
    <3> QED
      BY <2>1, <3>1
  <2> DEFINE C == DOMAIN trial.entries
             r == Erase(trial, V)
  <2>3. C = D \ K
    BY <1>2, Zenon
  <2>4. Sound(trial) /\ trial.maxmemory = s.maxmemory /\ trial.policy = s.policy
    BY <1>2, Zenon DEF Follows
  <2>5. trial.memory_usage \in Int /\ s.maxmemory \in Nat /\ C \in SUBSET DOMAIN trial.entries
    BY <2>4, Zenon DEF Sound, IsStore
  <2>6. projected \in Int
    BY <1>3, <2>5
  <2>0. V \in IF trial.policy = "noeviction" /\ projected > trial.maxmemory THEN {}
              ELSE Victims(trial, C, projected - trial.maxmemory)
    BY <2>4, Zenon
  <2> HIDE DEF trial, victims, orders
  <2>7. /\ V \in SUBSET C
        /\ BytesOf(trial, V) \in Nat
        /\ projected - BytesOf(trial, V) <= trial.maxmemory
        /\ trial.policy = "noeviction" => V = {}
    <3> HIDE DEF C, projected
    <3> QED
      BY <2>0, <2>4, <2>5, <2>6, VictimsFree, Zenon
  <2>8. /\ Follows(trial, r)
        /\ r.entries = [k \in C \ V |-> trial.entries[k]]
        /\ r.memory_usage = trial.memory_usage - BytesOf(trial, V)
    BY <2>4, <2>7, EraseFollows, Zenon
  <2> HIDE DEF r
  <2>10. /\ Sound(r) /\ r.maxmemory = s.maxmemory /\ r.policy = s.policy
         /\ DOMAIN r.entries = (D \ K) \ V
         /\ \A k \in DOMAIN r.entries : r.entries[k] = s.entries[k]
    BY <1>2, <2>3, <2>4, <2>8, Zenon DEF Follows
  <2>11. r.memory_usage + Required(updates) <= r.maxmemory
    BY <1>3, <2>4, <2>5, <2>7, <2>8, <2>10
  <2>12. o.store = PutAll(r, updates, order) /\ o.status = "kOk"
    BY <1>5, Zenon DEF Outcome, r
  <2>13. \A k \in K : k \notin DOMAIN r.entries
    BY <2>10, Zenon
  <2>14. /\ Follows(r, o.store)
         /\ DOMAIN o.store.entries = DOMAIN r.entries \cup K
         /\ \A k \in K : /\ o.store.entries[k].value = updates[k]
                         /\ o.store.entries[k].expires_at = Never
         /\ \A k \in DOMAIN r.entries : o.store.entries[k] = r.entries[k]
    <3> QED
      BY <2>2, <2>10, <2>11, <2>12, <2>13, PutAllFollows
  <2>15. s.policy = "noeviction" => V = {}
    BY <2>4, <2>7, Zenon
  <2>16. Follows(s, o.store)
    BY <2>10, <2>14, Zenon DEF Follows
  <2> QED
    BY <2>10, <2>12, <2>14, <2>15, <2>16, Zenon
<1> QED
  BY <1>4, <1>5, Zenon

(* A new store is empty. *)
LEMMA EmptyStoreSound ==
    ASSUME NEW m \in Nat, NEW p \in Policies
    PROVE  /\ Sound(EmptyStore(m, p))
           /\ EmptyStore(m, p).maxmemory = m
           /\ EmptyStore(m, p).policy = p
           /\ DOMAIN EmptyStore(m, p).entries = {}
<1> DEFINE t == EmptyStore(m, p)
<1>1. /\ t.entries = [k \in {} |-> <<>>] /\ t.memory_usage = 0 /\ t.access_clock = 0
      /\ t.maxmemory = m /\ t.policy = p
      /\ t \in [entries : {t.entries}, memory_usage : {t.memory_usage},
                access_clock : {t.access_clock}, maxmemory : {t.maxmemory}, policy : {t.policy}]
  BY Zenon DEF EmptyStore
<1> HIDE DEF t
<1>2. DOMAIN t.entries = {} /\ t.entries \in [{} -> Entry]
  BY <1>1, Zenon
<1>3. IsStore(t)
  BY <1>1, <1>2 DEF IsStore
<1>4. BytesOf(t, DOMAIN t.entries) = BytesOf(t, {})
  BY <1>2, Zenon
<1>5. BytesOf(t, {}) = 0
  BY FS_EmptySet, SumStep, Zenon DEF BytesOf, SumFunction
<1> QED
  BY <1>1, <1>2, <1>3, <1>4, <1>5 DEF Sound, t

(* Clear leaves an empty store of the same budget and policy. *)
LEMMA ClearFollows ==
    ASSUME NEW s, Sound(s)
    PROVE  Follows(s, Clear(s)) /\ DOMAIN Clear(s).entries = {}
<1> DEFINE e == EmptyStore(s.maxmemory, s.policy)
           t == Clear(s)
<1>1. s.maxmemory \in Nat /\ s.policy \in Policies /\ s.access_clock \in Nat
  BY Zenon DEF Sound, IsStore
<1>2. Sound(e) /\ e.maxmemory = s.maxmemory /\ e.policy = s.policy /\ DOMAIN e.entries = {}
  BY <1>1, EmptyStoreSound, Zenon
<1>3. /\ t.entries = e.entries /\ t.memory_usage = e.memory_usage
      /\ t.access_clock = s.access_clock
      /\ t.maxmemory = e.maxmemory /\ t.policy = e.policy
      /\ t \in [entries : {t.entries}, memory_usage : {t.memory_usage},
                access_clock : {t.access_clock}, maxmemory : {t.maxmemory}, policy : {t.policy}]
  BY Zenon DEF Clear, EmptyStore
<1> HIDE DEF e, t
<1>4. IsStore(t)
  BY <1>1, <1>2, <1>3, Zenon DEF Sound, IsStore
<1>5. Sound(t)
  BY <1>2, <1>3, <1>4, SameValuesSound, Zenon
<1> QED
  BY <1>2, <1>3, <1>5, Zenon DEF Follows, t

(* An entry is read, or gets another deadline. *)
Touch(s, clock, key, e) == [s EXCEPT !.access_clock = clock, !.entries[key] = e]

(* An entry that keeps its value keeps its bytes. *)
LEMMA TouchFollows ==
    ASSUME NEW s, Sound(s), NEW key \in DOMAIN s.entries, NEW clock \in Nat, NEW e \in Entry,
           e.value = s.entries[key].value,
           NEW t, t = Touch(s, clock, key, e)
    PROVE  /\ Follows(s, t)
           /\ DOMAIN t.entries = DOMAIN s.entries
           /\ t.entries[key] = e
           /\ \A k \in DOMAIN s.entries \ {key} : t.entries[k] = s.entries[k]
<1>1. /\ t.entries = [s.entries EXCEPT ![key] = e] /\ t.memory_usage = s.memory_usage
      /\ t.access_clock = clock
      /\ t.maxmemory = s.maxmemory /\ t.policy = s.policy
      /\ t \in [entries : {t.entries}, memory_usage : {t.memory_usage},
                access_clock : {t.access_clock}, maxmemory : {t.maxmemory}, policy : {t.policy}]
  BY Zenon DEF Sound, IsStore, Touch
<1>2. s.entries \in [DOMAIN s.entries -> Entry]
  BY Zenon DEF Sound, IsStore
<1>3. /\ DOMAIN t.entries = DOMAIN s.entries /\ t.entries \in [DOMAIN t.entries -> Entry]
      /\ t.entries[key] = e
      /\ \A k \in DOMAIN s.entries \ {key} : t.entries[k] = s.entries[k]
  BY <1>1, <1>2, Zenon
<1>4. IsStore(t)
  BY <1>1, <1>3, Zenon DEF Sound, IsStore
<1>5. \A k \in DOMAIN s.entries : t.entries[k].value = s.entries[k].value
  BY <1>3, Zenon
<1>6. Sound(t)
  BY <1>1, <1>3, <1>4, <1>5, SameValuesSound, Zenon
<1> QED
  BY <1>1, <1>3, <1>6, Zenon DEF Follows

(* Get returns the value of a key that has not expired, and changes access *)
(* records only.                                                           *)
LEMMA GetOutcome ==
    ASSUME NEW s, Sound(s), NEW key, NEW now, NEW o \in Get(s, key, now),
           NEW t, t = RemoveIfExpired(s, key, now)
    PROVE  /\ Follows(s, o.store)
           /\ DOMAIN o.store.entries = DOMAIN t.entries
           /\ \A k \in DOMAIN t.entries :
                 /\ o.store.entries[k].value = t.entries[k].value
                 /\ o.store.entries[k].expires_at = t.entries[k].expires_at
           /\ IF key \in DOMAIN t.entries
              THEN o.status = "hit" /\ o.value = t.entries[key].value
              ELSE o.status = "miss"
<1>1. Follows(s, t) /\ Sound(t)
  BY RemoveIfExpiredFollows, Zenon DEF Follows
<1>2. CASE key \notin DOMAIN t.entries
  <2>1. o = Outcome(t, "miss", Nothing)
    BY <1>2, Zenon DEF Get, Has
  <2> QED
    BY <1>1, <1>2, <2>1, Zenon DEF Outcome
<1>3. CASE key \in DOMAIN t.entries
  <2> DEFINE clock == NextAccess(t)
             e == [t.entries[key] EXCEPT !.last_access = clock, !.frequency = Bump(@)]
             u == Touch(t, clock, key, e)
  <2>1. t.entries[key] \in Entry /\ t.access_clock \in Nat
    BY <1>1, <1>3, Zenon DEF Sound, IsStore
  <2>2. clock \in Nat /\ \A f \in Nat : Bump(f) \in Nat
    BY <2>1 DEF NextAccess, Bump
  <2>3. e \in Entry /\ e.value = t.entries[key].value /\ e.expires_at = t.entries[key].expires_at
    BY <2>1, <2>2, Zenon DEF Entry
  <2>4. o = Outcome([t EXCEPT !.access_clock = clock, !.entries[key].last_access = clock,
                              !.entries[key].frequency = Bump(@)], "hit", t.entries[key].value)
    BY <1>3, Zenon DEF Get, Has
  <2>5. [t EXCEPT !.access_clock = clock, !.entries[key].last_access = clock,
                  !.entries[key].frequency = Bump(@)] = u
    BY <1>1, <1>3, <2>1, ZenonT(60) DEF Sound, IsStore, Entry, Touch
  <2>6. o.store = u /\ o.status = "hit" /\ o.value = t.entries[key].value
    BY <2>4, <2>5, Zenon DEF Outcome
  <2> HIDE DEF e, clock
  <2>7. /\ Follows(t, u)
        /\ DOMAIN u.entries = DOMAIN t.entries
        /\ u.entries[key] = e
        /\ \A k \in DOMAIN t.entries \ {key} : u.entries[k] = t.entries[k]
    BY <1>1, <1>3, <2>2, <2>3, TouchFollows
  <2> HIDE DEF u
  <2> QED
    BY <1>1, <1>3, <2>3, <2>6, <2>7, FollowsTransitive, Zenon
<1> QED
  BY <1>2, <1>3, Zenon

(* Delete counts and erases a key that has not expired. *)
LEMMA DeleteOutcome ==
    ASSUME NEW s, Sound(s), NEW key, NEW now, NEW o \in Delete(s, key, now),
           NEW t, t = RemoveIfExpired(s, key, now)
    PROVE  /\ Follows(s, o.store)
           /\ o.status = "kOk"
           /\ o.value = Number(IF key \in DOMAIN t.entries THEN 1 ELSE 0)
           /\ DOMAIN o.store.entries = DOMAIN t.entries \ {key}
           /\ \A k \in DOMAIN o.store.entries : o.store.entries[k] = t.entries[k]
<1>1. Follows(s, t) /\ Sound(t)
  BY RemoveIfExpiredFollows, Zenon DEF Follows
<1>2. CASE key \notin DOMAIN t.entries
  <2>1. o = Outcome(t, "kOk", Number(0))
    BY <1>2, Zenon DEF Delete, Has
  <2> QED
    BY <1>1, <1>2, <2>1, Zenon DEF Outcome
<1>3. CASE key \in DOMAIN t.entries
  <2>1. o.store = Erase(t, {key}) /\ o.status = "kOk" /\ o.value = Number(1)
    BY <1>3 DEF Delete, Has, Outcome
  <2>2. {key} \in SUBSET DOMAIN t.entries
    BY <1>3, Zenon
  <2>3. /\ Follows(t, Erase(t, {key}))
        /\ Erase(t, {key}).entries = [k \in DOMAIN t.entries \ {key} |-> t.entries[k]]
    BY <1>1, <2>2, EraseFollows
  <2>4. Follows(s, o.store)
    BY <1>1, <2>1, <2>3, FollowsTransitive, Zenon
  <2> QED
    BY <1>3, <2>1, <2>3, <2>4
<1> QED
  BY <1>2, <1>3, Zenon

(* Exists says whether there is a key that has not expired. *)
LEMMA ExistsOutcome ==
    ASSUME NEW s, Sound(s), NEW key, NEW now, NEW o \in Exists(s, key, now),
           NEW t, t = RemoveIfExpired(s, key, now)
    PROVE  /\ Follows(s, t)
           /\ o = Outcome(t, "kOk", Number(IF key \in DOMAIN t.entries THEN 1 ELSE 0))
BY RemoveIfExpiredFollows, Zenon DEF Exists, Has

(* TtlSeconds gives the whole seconds left, or says why there are none. *)
LEMMA TtlSecondsOutcome ==
    ASSUME NEW s, Sound(s), NEW key, NEW now, NEW o \in TtlSeconds(s, key, now),
           NEW t, t = RemoveIfExpired(s, key, now)
    PROVE  /\ Follows(s, t)
           /\ o = Outcome(t, "kOk", Number(IF key \notin DOMAIN t.entries THEN -2
                              ELSE IF t.entries[key].expires_at = Never THEN -1
                              ELSE Millis(t.entries[key].expires_at - now) \div MsPerSecond))
BY RemoveIfExpiredFollows, Zenon DEF TtlSeconds, Has

(* Expire moves the deadline of a key that has not expired, or erases the  *)
(* key.                                                                    *)
LEMMA ExpireOutcome ==
    ASSUME NEW s, Sound(s), NEW key, NEW ttl \in Int, NEW now \in Int,
           NEW o \in Expire(s, key, ttl, now), NEW t, t = RemoveIfExpired(s, key, now)
    PROVE  /\ Follows(s, o.store)
           /\ o.status = "kOk"
           /\ o.value = Number(IF key \in DOMAIN t.entries THEN 1 ELSE 0)
           /\ key \notin DOMAIN t.entries => o.store = t
           /\ key \in DOMAIN t.entries /\ ttl <= 0 =>
                 /\ DOMAIN o.store.entries = DOMAIN t.entries \ {key}
                 /\ \A k \in DOMAIN o.store.entries : o.store.entries[k] = t.entries[k]
           /\ key \in DOMAIN t.entries /\ ttl > 0 =>
                 /\ DOMAIN o.store.entries = DOMAIN t.entries
                 /\ o.store.entries[key].value = t.entries[key].value
                 /\ o.store.entries[key].expires_at = After(now, ttl)
                 /\ \A k \in DOMAIN t.entries \ {key} : o.store.entries[k] = t.entries[k]
<1>1. Follows(s, t) /\ Sound(t)
  BY RemoveIfExpiredFollows, Zenon DEF Follows
<1>2. CASE key \notin DOMAIN t.entries
  <2>1. o = Outcome(t, "kOk", Number(0))
    BY <1>2, Zenon DEF Expire, Has
  <2> QED
    BY <1>1, <1>2, <2>1, Zenon DEF Outcome
<1>3. CASE key \in DOMAIN t.entries /\ ttl <= 0
  <2>1. o.store = Erase(t, {key}) /\ o.status = "kOk" /\ o.value = Number(1)
    BY <1>3 DEF Expire, Has, Outcome
  <2>2. {key} \in SUBSET DOMAIN t.entries
    BY <1>3, Zenon
  <2>3. /\ Follows(t, Erase(t, {key}))
        /\ Erase(t, {key}).entries = [k \in DOMAIN t.entries \ {key} |-> t.entries[k]]
    BY <1>1, <2>2, EraseFollows
  <2>4. Follows(s, o.store)
    BY <1>1, <2>1, <2>3, FollowsTransitive, Zenon
  <2> QED
    BY <1>3, <2>1, <2>3, <2>4
<1>4. CASE key \in DOMAIN t.entries /\ ttl > 0
  <2> DEFINE clock == t.access_clock
             e == [t.entries[key] EXCEPT !.expires_at = After(now, ttl)]
             u == Touch(t, clock, key, e)
  <2>1. t.entries[key] \in Entry /\ clock \in Nat /\ After(now, ttl) \in Int
    BY <1>1, <1>4, AfterType, Zenon DEF Sound, IsStore
  <2>2. e \in Entry /\ e.value = t.entries[key].value /\ e.expires_at = After(now, ttl)
    BY <2>1, Zenon DEF Entry
  <2>3. o = Outcome([t EXCEPT !.entries[key].expires_at = After(now, ttl)], "kOk", Number(1))
    BY <1>4 DEF Expire, Has
  <2>4. [t EXCEPT !.entries[key].expires_at = After(now, ttl)] = u
    BY <1>1, <1>4, <2>1, Zenon DEF Sound, IsStore, Entry, Touch
  <2>5. o.store = u /\ o.status = "kOk" /\ o.value = Number(1)
    BY <2>3, <2>4, Zenon DEF Outcome
  <2> HIDE DEF e, clock
  <2>7. /\ Follows(t, u)
        /\ DOMAIN u.entries = DOMAIN t.entries
        /\ u.entries[key] = e
        /\ \A k \in DOMAIN t.entries \ {key} : u.entries[k] = t.entries[k]
    BY <1>1, <1>4, <2>1, <2>2, TouchFollows
  <2> HIDE DEF u
  <2>8. Follows(s, u)
    BY <1>1, <2>7, FollowsTransitive, Zenon
  <2> QED
    BY <1>4, <2>2, <2>5, <2>7, <2>8
<1> QED
  BY <1>2, <1>3, <1>4

(* The request an increment makes of Set, when it makes one. *)
IncrementRequest(t, key, delta, now) ==
    [key |-> key,
     value |-> DecimalText((IF Has(t, key) THEN t.entries[key].value.int ELSE 0) + delta),
     ttl |-> IF Has(t, key) /\ t.entries[key].expires_at # Never
             THEN Millis(t.entries[key].expires_at - now) ELSE Never,
     condition |-> "kNone"]

(* Increment refuses a text and an overflow, and calls Set otherwise. *)
LEMMA IncrementOutcome ==
    ASSUME NEW s, Sound(s), NEW key \in Keys, NEW delta \in Int, NEW now \in Int,
           NEW later \in Int, NEW o \in Increment(s, key, delta, now, later),
           NEW t, t = RemoveIfExpired(s, key, now),
           NEW current, current = IF Has(t, key) THEN t.entries[key].value.int ELSE 0,
           NEW request, request = IncrementRequest(t, key, delta, now)
    PROVE  /\ Follows(s, t) /\ Sound(t)
           /\ Follows(s, o.store)
           /\ \/ current = NotInteger /\ o = Outcome(t, "kNotInteger", Nothing)
              \/ /\ current # NotInteger /\ current + delta \notin IntMin..IntMax
                 /\ o = Outcome(t, "kOverflow", Nothing)
              \/ /\ current # NotInteger /\ current + delta \in IntMin..IntMax
                 /\ current \in Int
                 /\ o \in Set(t, request, later)
                 /\ request.key = key /\ request.value \in Text
                 /\ request.ttl \in Int \cup {Never}
<1>1. Follows(s, t) /\ Sound(t)
  BY RemoveIfExpiredFollows, Zenon DEF Follows
<1>2. \/ current = NotInteger /\ o = Outcome(t, "kNotInteger", Nothing)
      \/ /\ current # NotInteger /\ current + delta \notin IntMin..IntMax
         /\ o = Outcome(t, "kOverflow", Nothing)
      \/ /\ current # NotInteger /\ current + delta \in IntMin..IntMax
         /\ o \in Set(t, request, later)
  BY Zenon DEF Increment, IncrementRequest, Overflows
<1>3. ASSUME current # NotInteger
      PROVE  /\ current \in Int
             /\ request.key = key /\ request.value \in Text
             /\ request.ttl \in Int \cup {Never}
  <2>1. ASSUME Has(t, key)
        PROVE  /\ t.entries[key].value.int \in Int \cup {NotInteger}
               /\ t.entries[key].expires_at \in Int \cup {Never}
    BY <1>1, <2>1, Zenon DEF Sound, IsStore, Entry, Text, Has
  <2>2. current \in Int
    BY <1>3, <2>1
  <2>3. DecimalText(current + delta) \in Text
    BY <2>2, DecimalTextType
  <2>4. \A x \in Int : Millis(x - now) \in Int
    BY KvStoreAssumption DEF Millis
  <2>5. request.key = key /\ request.value = DecimalText(current + delta)
    BY Zenon DEF IncrementRequest
  <2>6. request.ttl = IF Has(t, key) /\ t.entries[key].expires_at # Never
                      THEN Millis(t.entries[key].expires_at - now) ELSE Never
    BY Zenon DEF IncrementRequest
  <2>7. request.ttl \in Int \cup {Never}
    BY <2>1, <2>4, <2>6, Zenon
  <2> QED
    BY <2>2, <2>3, <2>5, <2>7, Zenon
<1>4. Follows(s, o.store)
  <2>1. ASSUME current # NotInteger, o \in Set(t, request, later)
        PROVE  Follows(t, o.store)
    BY <1>1, <1>3, <2>1, SetFollows, Zenon
  <2>2. CASE o \in Set(t, request, later) /\ current # NotInteger
    BY <1>1, <2>1, <2>2, FollowsTransitive, Zenon
  <2>3. CASE o.store = t
    BY <1>1, <2>3, Zenon
  <2> QED
    BY <1>2, <2>2, <2>3 DEF Outcome
<1> QED
  BY <1>1, <1>2, <1>3, <1>4, Zenon

(* Expiry in the background takes expired entries only. *)
LEMMA ActiveExpireOutcome ==
    ASSUME NEW s, NEW samples, NEW now, NEW t \in ActiveExpire(s, samples, now)
    PROVE  \E E \in SUBSET DOMAIN s.entries : t = Erase(s, Expired(s, E, now))
<1> DEFINE n == IF Cardinality(DOMAIN s.entries) < samples THEN Cardinality(DOMAIN s.entries)
                ELSE samples
<1>1. PICK E \in kSubset(n, DOMAIN s.entries) : t = Erase(s, Expired(s, E, now))
  BY Zenon DEF ActiveExpire
<1>2. E \in SUBSET DOMAIN s.entries
  BY Zenon DEF kSubset
<1> QED
  BY <1>1, <1>2, Zenon

(* Expiry in the background leaves a sound store. *)
LEMMA ActiveExpireFollows ==
    ASSUME NEW s, Sound(s), NEW samples, NEW now, NEW t \in ActiveExpire(s, samples, now)
    PROVE  Follows(s, t)
<1>1. PICK E \in SUBSET DOMAIN s.entries : t = Erase(s, Expired(s, E, now))
  BY ActiveExpireOutcome, Zenon
<1> QED
  BY <1>1, ExpiredEntries, EraseFollows, Zenon

(* Snapshot erases what has expired, and nothing else. *)
LEMMA SnapshotFollows ==
    ASSUME NEW s, Sound(s), NEW now, NEW later
    PROVE  /\ Snapshot(s, now, later).store = Erase(s, Expired(s, DOMAIN s.entries, now))
           /\ Snapshot(s, now, later).status = "kOk"
           /\ Follows(s, Snapshot(s, now, later).store)
<1>1. Snapshot(s, now, later).store = Erase(s, Expired(s, DOMAIN s.entries, now))
      /\ Snapshot(s, now, later).status = "kOk"
  BY Zenon DEF Snapshot, Outcome
<1> DEFINE E == Expired(s, DOMAIN s.entries, now)
<1>2. E \in SUBSET DOMAIN s.entries
  BY ExpiredEntries, Zenon
<1>3. Follows(s, Erase(s, E))
  <2> HIDE DEF E
  <2> QED
    BY <1>2, EraseFollows, Zenon
<1> QED
  BY <1>1, <1>3, Zenon

----------------------------------------------------------------------------
(* What clients see. *)

(* Clients see the keys that have not expired, with values and deadlines. *)
LEMMA VisibleKeys ==
    ASSUME NEW s, NEW now
    PROVE  /\ \A k : k \in DOMAIN Visible(s, now) <=>
                        k \in DOMAIN s.entries /\ ~IsExpired(s.entries[k], now)
           /\ \A k \in DOMAIN Visible(s, now) :
                 /\ Visible(s, now)[k].value = s.entries[k].value
                 /\ Visible(s, now)[k].expires_at = s.entries[k].expires_at
                 /\ Visible(s, now)[k] = [value |-> s.entries[k].value,
                                          expires_at |-> s.entries[k].expires_at]
BY Zenon DEF Visible, Expired

(* When two stores look the same. *)
LEMMA VisibleEqual ==
    ASSUME NEW s, NEW t, NEW m, NEW n,
           \A k : k \in DOMAIN Visible(s, m) <=> k \in DOMAIN Visible(t, n),
           \A k \in DOMAIN Visible(s, m) :
              /\ s.entries[k].value = t.entries[k].value
              /\ s.entries[k].expires_at = t.entries[k].expires_at
    PROVE  Visible(s, m) = Visible(t, n)
<1> DEFINE D == DOMAIN Visible(s, m)
           R(u) == [k \in D |-> [value |-> u.entries[k].value, expires_at |-> u.entries[k].expires_at]]
<1>1. D = DOMAIN Visible(t, n)
  BY Zenon
<1>2. Visible(s, m) = R(s)
  BY Zenon DEF Visible
<1>3. Visible(t, n) = [k \in DOMAIN Visible(t, n) |->
                         [value |-> t.entries[k].value, expires_at |-> t.entries[k].expires_at]]
  BY Zenon DEF Visible
<1>4. Visible(t, n) = R(t)
  BY <1>1, <1>3, Zenon
<1>5. R(s) = R(t)
  BY Zenon
<1> QED
  BY <1>2, <1>4, <1>5, Zenon

(* What has expired stays expired. *)
LEMMA ExpiryIsFinal ==
    ASSUME NEW s, Sound(s), NEW k \in DOMAIN s.entries, NEW now \in Int, NEW n \in Int, now <= n,
           IsExpired(s.entries[k], now)
    PROVE  IsExpired(s.entries[k], n)
<1>1. s.entries[k].expires_at \in Int \cup {Never}
  BY Zenon DEF Sound, IsStore, Entry
<1> QED
  BY <1>1 DEF IsExpired

(* Clients do not see expired entries go. *)
LEMMA EraseExpiredVisible ==
    ASSUME NEW s, Sound(s), NEW now \in Int, NEW n \in Int, now <= n,
           NEW K \in SUBSET DOMAIN s.entries, \A k \in K : IsExpired(s.entries[k], now)
    PROVE  Visible(Erase(s, K), n) = Visible(s, n)
<1> DEFINE t == Erase(s, K)
<1>1. t.entries = [k \in DOMAIN s.entries \ K |-> s.entries[k]]
  BY EraseFollows, Zenon
<1> HIDE DEF t
<1>2. \A k \in K : IsExpired(s.entries[k], n)
  BY ExpiryIsFinal, Zenon
<1>3. \A k : k \in DOMAIN Visible(t, n) <=> k \in DOMAIN Visible(s, n)
  <2> TAKE k
  <2>1. k \in DOMAIN Visible(t, n) <=> k \in DOMAIN t.entries /\ ~IsExpired(t.entries[k], n)
    BY VisibleKeys, Zenon
  <2>2. k \in DOMAIN Visible(s, n) <=> k \in DOMAIN s.entries /\ ~IsExpired(s.entries[k], n)
    BY VisibleKeys, Zenon
  <2> QED
    BY <1>1, <1>2, <2>1, <2>2, Zenon
<1>4. \A k \in DOMAIN Visible(t, n) :
         /\ t.entries[k].value = s.entries[k].value
         /\ t.entries[k].expires_at = s.entries[k].expires_at
  BY <1>1, VisibleKeys
<1>5. Visible(t, n) = Visible(s, n)
  BY <1>3, <1>4, VisibleEqual
<1> QED
  BY <1>5, Zenon DEF t

(* The lazy deletion is invisible, and after it the key is there exactly   *)
(* when clients see it.                                                    *)
LEMMA RemoveIfExpiredVisible ==
    ASSUME NEW s, Sound(s), NEW key, NEW now \in Int, NEW t, t = RemoveIfExpired(s, key, now)
    PROVE  /\ \A n \in Int : now <= n => Visible(t, n) = Visible(s, n)
           /\ key \in DOMAIN t.entries <=> key \in DOMAIN Visible(s, now)
           /\ key \in DOMAIN t.entries => ~IsExpired(t.entries[key], now)
           /\ \A k \in DOMAIN t.entries : k \in DOMAIN s.entries /\ t.entries[k] = s.entries[k]
<1> DEFINE E == Expired(s, {key}, now)
<1>1. E \in SUBSET DOMAIN s.entries /\ \A k \in E : IsExpired(s.entries[k], now)
  BY Zenon DEF Expired
<1>2. key \in E <=> key \in DOMAIN s.entries /\ IsExpired(s.entries[key], now)
  BY Zenon DEF Expired
<1>3. t = Erase(s, E)
  BY Zenon DEF RemoveIfExpired
<1> HIDE DEF E
<1>4. t.entries = [k \in DOMAIN s.entries \ E |-> s.entries[k]]
  BY <1>1, <1>3, EraseFollows
<1>5. ASSUME NEW n \in Int, now <= n
      PROVE  Visible(t, n) = Visible(s, n)
  BY <1>1, <1>3, <1>5, EraseExpiredVisible, ZenonT(40)
<1>6. key \in DOMAIN t.entries <=> key \in DOMAIN Visible(s, now)
  BY <1>2, <1>4, VisibleKeys, Zenon
<1>7. key \in DOMAIN t.entries => ~IsExpired(t.entries[key], now)
  BY <1>2, <1>4, Zenon
<1>8. \A k \in DOMAIN t.entries : k \in DOMAIN s.entries /\ t.entries[k] = s.entries[k]
  BY <1>4, Zenon
<1> QED
  BY <1>5, <1>6, <1>7, <1>8, Zenon

(* A refused Set has taken nothing but its own key, if that had expired. *)
LEMMA RefusedSetVisible ==
    ASSUME NEW s, Sound(s), NEW request, request.key \in Keys, request.value \in Text,
           NEW m \in Int, NEW o \in Set(s, request, m), o.status # "kOk"
    PROVE  \A n \in Int : m <= n => Visible(o.store, n) = Visible(s, n)
<1> DEFINE key == request.key
           t == RemoveIfExpired(s, key, m)
           projected == t.memory_usage - OldBytes(t, key) + EntryBytes(key, request.value)
<1>1. o.store = t
  BY SetOutcome DEF Outcome
<1>2. \A n \in Int : m <= n => Visible(t, n) = Visible(s, n)
  BY RemoveIfExpiredVisible
<1> QED
  BY <1>1, <1>2, Zenon

(* What a write of K leaves of the other keys, as clients see it. *)
LEMMA WriteVisible ==
    ASSUME NEW s, NEW u, NEW K, NEW n,
           DOMAIN u.entries \subseteq DOMAIN s.entries \cup K,
           \A k \in DOMAIN u.entries \ K : u.entries[k] = s.entries[k]
    PROVE  /\ DOMAIN Visible(u, n) \subseteq DOMAIN Visible(s, n) \cup K
           /\ \A k \in DOMAIN Visible(u, n) \ K : Visible(u, n)[k] = Visible(s, n)[k]
           /\ DOMAIN s.entries \ K \subseteq DOMAIN u.entries =>
                 DOMAIN Visible(s, n) \ K \subseteq DOMAIN Visible(u, n)
<1> DEFINE v == Visible(u, n)
           w == Visible(s, n)
<1>1. \A k : /\ k \in DOMAIN v <=> k \in DOMAIN u.entries /\ ~IsExpired(u.entries[k], n)
             /\ k \in DOMAIN w <=> k \in DOMAIN s.entries /\ ~IsExpired(s.entries[k], n)
  BY VisibleKeys, Zenon
<1>2. /\ \A k \in DOMAIN v : v[k] = [value |-> u.entries[k].value,
                                      expires_at |-> u.entries[k].expires_at]
      /\ \A k \in DOMAIN w : w[k] = [value |-> s.entries[k].value,
                                      expires_at |-> s.entries[k].expires_at]
  BY VisibleKeys
<1> HIDE DEF v, w
<1>3. DOMAIN v \subseteq DOMAIN w \cup K
  BY <1>1, Zenon
<1>4. \A k \in DOMAIN v \ K : v[k] = w[k]
  <2> TAKE k \in DOMAIN v \ K
  <2>1. k \in DOMAIN w /\ u.entries[k] = s.entries[k]
    BY <1>1, <1>3, Zenon
  <2> QED
    BY <1>2, <2>1, Zenon
<1>5. DOMAIN s.entries \ K \subseteq DOMAIN u.entries => DOMAIN w \ K \subseteq DOMAIN v
  BY <1>1, Zenon
<1> QED
  BY <1>3, <1>4, <1>5, Zenon DEF v, w

(* What an accepted Set leaves in the map. *)
LEMMA AcceptedEntries ==
    ASSUME NEW s, Sound(s), NEW request, request.key \in Keys, request.value \in Text,
           request.ttl \in Int \cup {Never}, NEW m \in Int,
           NEW o \in Set(s, request, m), o.status = "kOk",
           NEW key, key = request.key, NEW d, d = Deadline(m, request.ttl)
    PROVE  /\ o.value = request.value
           /\ key \in DOMAIN o.store.entries
           /\ o.store.entries[key].value = request.value
           /\ o.store.entries[key].expires_at = d
           /\ \A k \in DOMAIN o.store.entries : k # key =>
                 /\ k \in DOMAIN RemoveIfExpired(s, key, m).entries
                 /\ k \in DOMAIN s.entries
                 /\ o.store.entries[k] = s.entries[k]
           /\ s.policy = "noeviction" =>
                 \A k \in DOMAIN RemoveIfExpired(s, key, m).entries : k \in DOMAIN o.store.entries
<1> DEFINE t == RemoveIfExpired(s, key, m)
           projected == t.memory_usage - OldBytes(t, key) + EntryBytes(key, request.value)
           u == o.store
<1>1. Sound(t) /\ t.policy = s.policy
  BY RemoveIfExpiredFollows DEF Follows
<1>2. \A k \in DOMAIN t.entries : k \in DOMAIN s.entries /\ t.entries[k] = s.entries[k]
  BY RemoveIfExpiredVisible
<1>3. PICK V \in SUBSET (DOMAIN t.entries \ {key}) :
         /\ o = Outcome(Put(Erase(t, V), key, request.value, d), "kOk", request.value)
         /\ projected - BytesOf(t, V) <= t.maxmemory
         /\ t.policy = "noeviction" => V = {}
  <2>1. Outcome(t, "kConditionFailed", Nothing).status # "kOk"
    BY Zenon DEF Outcome
  <2>2. Outcome(t, "kNoMemory", Nothing).status # "kOk"
    BY Zenon DEF Outcome
  <2> HIDE DEF t, projected
  <2>3. t = RemoveIfExpired(s, key, m)
    BY Zenon DEF t
  <2>4. projected = t.memory_usage - OldBytes(t, key) + EntryBytes(key, request.value)
    BY Zenon DEF projected
  <2>5. \/ o = Outcome(t, "kConditionFailed", Nothing)
        \/ o = Outcome(t, "kNoMemory", Nothing)
        \/ \E V \in SUBSET (DOMAIN t.entries \ {key}) :
              /\ o = Outcome(Put(Erase(t, V), key, request.value, Deadline(m, request.ttl)),
                             "kOk", request.value)
              /\ BytesOf(t, V) \in Nat
              /\ projected - BytesOf(t, V) <= t.maxmemory
              /\ t.policy = "noeviction" => V = {}
    BY <2>3, <2>4, SetOutcome
  <2> QED
    BY <2>1, <2>2, <2>5, Zenon
<1> HIDE DEF t
<1>4. u = Put(Erase(t, V), key, request.value, d) /\ o.value = request.value
  BY <1>3, Zenon DEF Outcome
<1>5. d \in Int \cup {Never}
  BY DeadlineType, ZenonT(40)
<1>6. /\ DOMAIN u.entries = (DOMAIN t.entries \ V) \cup {key}
      /\ u.entries[key].value = request.value
      /\ u.entries[key].expires_at = d
      /\ \A k \in DOMAIN u.entries \ {key} : u.entries[k] = t.entries[k]
  BY <1>1, <1>3, <1>4, <1>5, PutAfterErase
<1> HIDE DEF u, projected
<1>7. \A k \in DOMAIN u.entries : k # key =>
         k \in DOMAIN t.entries /\ k \in DOMAIN s.entries /\ u.entries[k] = s.entries[k]
  BY <1>2, <1>6, Zenon
<1>8. s.policy = "noeviction" => \A k \in DOMAIN t.entries : k \in DOMAIN u.entries
  BY <1>1, <1>3, <1>6, Zenon
<1> QED
  BY <1>4, <1>6, <1>7, <1>8, Zenon DEF t, u

(* What an accepted Set does, as clients see it. *)
LEMMA AcceptedSet ==
    ASSUME NEW s, Sound(s), NEW request, request.key \in Keys, request.value \in Text,
           request.ttl \in Int \cup {Never}, NEW m \in Int,
           NEW o \in Set(s, request, m), o.status = "kOk",
           NEW key, key = request.key, NEW d, d = Deadline(m, request.ttl)
    PROVE  /\ o.value = request.value
           /\ key \in DOMAIN Visible(o.store, m) <=> ~(d # Never /\ d <= m)
           /\ key \in DOMAIN Visible(o.store, m) =>
                 Visible(o.store, m)[key] = [value |-> request.value, expires_at |-> d]
           /\ DOMAIN Visible(o.store, m) \subseteq DOMAIN Visible(s, m) \cup {key}
           /\ s.policy = "noeviction" =>
                 DOMAIN Visible(s, m) \ {key} \subseteq DOMAIN Visible(o.store, m)
           /\ \A k \in DOMAIN Visible(o.store, m) \ {key} :
                 Visible(o.store, m)[k] = Visible(s, m)[k]
<1> DEFINE t == RemoveIfExpired(s, key, m)
           u == o.store
           K == {key}
<1>1. /\ o.value = request.value
      /\ key \in DOMAIN u.entries
      /\ u.entries[key].value = request.value
      /\ u.entries[key].expires_at = d
      /\ \A k \in DOMAIN u.entries : k # key =>
            k \in DOMAIN t.entries /\ k \in DOMAIN s.entries /\ u.entries[k] = s.entries[k]
      /\ s.policy = "noeviction" => \A k \in DOMAIN t.entries : k \in DOMAIN u.entries
  BY AcceptedEntries
<1>2. /\ Visible(t, m) = Visible(s, m)
      /\ \A k \in DOMAIN t.entries : k \in DOMAIN s.entries /\ t.entries[k] = s.entries[k]
  <2>1. m <= m
    OBVIOUS
  <2> QED
    BY <2>1, RemoveIfExpiredVisible
<1> HIDE DEF t, u
<1>3. /\ DOMAIN u.entries \subseteq DOMAIN t.entries \cup K
      /\ \A k \in DOMAIN u.entries \ K : u.entries[k] = t.entries[k]
  BY <1>1, <1>2, Zenon
<1>4. s.policy = "noeviction" => DOMAIN t.entries \ K \subseteq DOMAIN u.entries
  BY <1>1, Zenon
<1>5. /\ DOMAIN Visible(u, m) \subseteq DOMAIN Visible(t, m) \cup K
      /\ \A k \in DOMAIN Visible(u, m) \ K : Visible(u, m)[k] = Visible(t, m)[k]
      /\ DOMAIN t.entries \ K \subseteq DOMAIN u.entries =>
            DOMAIN Visible(t, m) \ K \subseteq DOMAIN Visible(u, m)
  <2> HIDE DEF K
  <2> QED
    BY <1>3, WriteVisible, Zenon
<1>6. key \in DOMAIN Visible(u, m) <=> ~(d # Never /\ d <= m)
  BY <1>1, VisibleKeys DEF IsExpired
<1>7. key \in DOMAIN Visible(u, m) =>
         Visible(u, m)[key] = [value |-> request.value, expires_at |-> d]
  BY <1>1, VisibleKeys
<1>8. s.policy = "noeviction" => DOMAIN Visible(s, m) \ K \subseteq DOMAIN Visible(u, m)
  BY <1>2, <1>4, <1>5, Zenon
<1>9. \A k \in DOMAIN Visible(u, m) \ K : Visible(u, m)[k] = Visible(s, m)[k]
  BY <1>2, <1>5, Zenon
<1>10. DOMAIN Visible(u, m) \subseteq DOMAIN Visible(s, m) \cup K
  BY <1>2, <1>5, Zenon
<1> QED
  BY <1>1, <1>6, <1>7, <1>8, <1>9, <1>10, Zenon DEF u

(* A map without one of its keys. *)
Without(f, key) == Restrict(f, DOMAIN f \ {key})

(* Erasing one key takes that key from what clients see. *)
LEMMA EraseOneVisible ==
    ASSUME NEW s, NEW t, NEW key, NEW n,
           \A k : k \in DOMAIN t.entries <=> k \in DOMAIN s.entries /\ k # key,
           \A k \in DOMAIN t.entries : t.entries[k] = s.entries[k]
    PROVE  Visible(t, n) = Without(Visible(s, n), key)
<1> DEFINE v == Visible(t, n)
           w == Visible(s, n)
           D == DOMAIN w \ {key}
<1>1. \A k : /\ k \in DOMAIN v <=> k \in DOMAIN t.entries /\ ~IsExpired(t.entries[k], n)
             /\ k \in DOMAIN w <=> k \in DOMAIN s.entries /\ ~IsExpired(s.entries[k], n)
  BY VisibleKeys, Zenon
<1>2. /\ \A k \in DOMAIN v : v[k] = [value |-> t.entries[k].value,
                                      expires_at |-> t.entries[k].expires_at]
      /\ \A k \in DOMAIN w : w[k] = [value |-> s.entries[k].value,
                                      expires_at |-> s.entries[k].expires_at]
  BY VisibleKeys
<1>3. v = [k \in DOMAIN v |-> v[k]]
  BY Zenon DEF Visible
<1> HIDE DEF v, w
<1>4. DOMAIN v = D
  BY <1>1, Zenon
<1>5. \A k \in D : v[k] = w[k]
  <2> TAKE k \in D
  <2>1. k \in DOMAIN v /\ k \in DOMAIN w /\ t.entries[k] = s.entries[k]
    BY <1>1, <1>4, Zenon
  <2> QED
    BY <1>2, <2>1, Zenon
<1>6. v = [k \in D |-> v[k]]
  BY <1>3, <1>4, Zenon
<1>7. v = [k \in D |-> w[k]]
  BY <1>5, <1>6, Zenon
<1> QED
  BY <1>7, Zenon DEF Without, Restrict, v, w

----------------------------------------------------------------------------
(* Arithmetic of deadlines. *)

(* Arithmetic of deadlines. *)
(* Multiplication keeps order. *)
LEMMA ProductOrder ==
    ASSUME NEW a \in Int, NEW b \in Int, NEW c \in Nat, a <= b
    PROVE  a * c \in Int /\ b * c \in Int /\ a * c <= b * c
<1>1. (b - a) * c >= 0
  OBVIOUS
<1>2. (b - a) * c = b * c - a * c
  OBVIOUS
<1> QED
  BY <1>1, <1>2

(* A quotient is what division gives back up to a remainder. *)
LEMMA Quotient ==
    ASSUME NEW x \in Int, NEW d \in Nat \ {0}
    PROVE  /\ x \div d \in Int
           /\ (x \div d) * d <= x
           /\ x < (x \div d) * d + d
           /\ x >= 0 => x \div d >= 0
OBVIOUS

(* Only the quotient is that close. *)
LEMMA QuotientUnique ==
    ASSUME NEW x \in Int, NEW d \in Nat \ {0}, NEW q \in Int, q * d <= x, x < q * d + d
    PROVE  q = x \div d
OBVIOUS

(* Milliseconds, then seconds: dividing twice is dividing by the product. *)
LEMMA QuotientOfQuotient ==
    ASSUME NEW x \in Nat, NEW b \in Nat \ {0}, NEW c \in Nat \ {0}
    PROVE  (x \div b) \div c = x \div (b * c)
<1> DEFINE p == x \div b
           r == p \div c
           d == b * c
<1>1. p \in Int /\ p * b <= x /\ x < p * b + b /\ p >= 0
  BY Quotient
<1> HIDE DEF p
<1>2. r \in Int /\ r * c <= p /\ p < r * c + c
  BY <1>1, Quotient, Zenon
<1> HIDE DEF r
<1>3. d \in Nat \ {0}
  OBVIOUS
<1>4. (r * c) * b <= p * b
  BY <1>1, <1>2, ProductOrder
<1>5. (p + 1) * b <= (r * c + c) * b
  BY <1>1, <1>2, ProductOrder
<1>6. (r * c) * b = r * d /\ (r * c + c) * b = r * d + d /\ (p + 1) * b = p * b + b
  BY <1>1, <1>2
<1>7. r * d \in Int /\ p * b \in Int
  BY <1>1, <1>2
<1> HIDE DEF d
<1>8. r * d <= x /\ x < r * d + d
  BY <1>1, <1>2, <1>3, <1>4, <1>5, <1>6, <1>7
<1>9. r = x \div d
  BY <1>2, <1>3, <1>8, QuotientUnique
<1> QED
  BY <1>9, Zenon DEF r, p, d

(* Without overflow, the deadline is the sum. *)
LEMMA AfterExact ==
    ASSUME NEW t \in Nat, NEW ms \in Nat, t + ms * TicksPerMs < TimeHalf
    PROVE  After(t, ms) = t + ms * TicksPerMs
<1> DEFINE d == ms * TicksPerMs
           w == t + d + TimeHalf
<1>1. d \in Nat /\ TimeHalf \in Nat /\ 2 * TimeHalf \in Nat \ {0}
  BY KvStoreAssumption
<1> HIDE DEF d
<1>2. w \in Nat /\ w < 2 * TimeHalf
  BY <1>1 DEF d
<1>3. w % (2 * TimeHalf) = w
  BY <1>1, <1>2
<1> QED
  BY <1>1, <1>3 DEF After, d
============================================================================
