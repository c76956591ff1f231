-------------------------- MODULE StoreLoopsProofs --------------------------
(***************************************************************************)
(* The loops of a store do what KvStore says without them, for all stores, *)
(* orders of iteration, budgets and numbers of samples.  A loop takes one  *)
(* step an iteration, so its invariant is an invariant of the              *)
(* specification: what MakeRoom has taken so far, and what a scan has      *)
(* examined so far.                                                        *)
(***************************************************************************)
EXTENDS StoreLoops, KvStoreProofs, SequenceTheorems

(* Stores with the same fields are the same. *)
LEMMA SameStore ==
    ASSUME NEW s, IsStore(s), NEW t, IsStore(t), DOMAIN s.entries = DOMAIN t.entries,
           \A k \in DOMAIN s.entries : s.entries[k] = t.entries[k],
           s.memory_usage = t.memory_usage, s.access_clock = t.access_clock,
           s.maxmemory = t.maxmemory, s.policy = t.policy
    PROVE  s = t
<1> DEFINE R == [entries : {s.entries}, memory_usage : Int, access_clock : Nat,
                 maxmemory : Nat, policy : Policies]
<1>1. s.entries \in [DOMAIN s.entries -> Entry] /\ t.entries \in [DOMAIN t.entries -> Entry]
  BY Zenon DEF IsStore
<1>2. s.entries = t.entries
  BY <1>1
<1>3. s \in R /\ t \in R
  BY <1>2, Zenon DEF IsStore
<1> QED
  BY <1>3

(* t is s without the entries of K. *)
Remains(s, K, t) ==
    /\ IsStore(t) /\ DOMAIN t.entries = DOMAIN s.entries \ K
    /\ \A k \in DOMAIN s.entries \ K : t.entries[k] = s.entries[k]
    /\ t.memory_usage = s.memory_usage - BytesOf(s, K)
    /\ t.access_clock = s.access_clock /\ t.maxmemory = s.maxmemory /\ t.policy = s.policy

(* That is what Erase does. *)
LEMMA EraseRemains ==
    ASSUME NEW s, IsStore(s), NEW K \in SUBSET DOMAIN s.entries
    PROVE  Remains(s, K, Erase(s, K))
<1> DEFINE t == Erase(s, K)
<1>1. /\ IsStore(t) /\ t.entries = [k \in DOMAIN s.entries \ K |-> s.entries[k]]
      /\ t.memory_usage = s.memory_usage - BytesOf(s, K)
      /\ t.access_clock = s.access_clock /\ t.maxmemory = s.maxmemory /\ t.policy = s.policy
  <2>1. t.entries = [k \in DOMAIN s.entries \ K |-> s.entries[k]]
    BY EraseStore
  <2>2. /\ IsStore(t) /\ t.memory_usage = s.memory_usage - BytesOf(s, K)
        /\ t.access_clock = s.access_clock /\ t.maxmemory = s.maxmemory /\ t.policy = s.policy
    BY EraseStore, ZenonT(40)
  <2> QED
    BY <2>1, <2>2, Zenon
<1> HIDE DEF t
<1>2. Remains(s, K, t)
  BY <1>1, Zenon DEF Remains
<1> QED
  BY <1>2, Zenon DEF t

(* And nothing else is. *)
LEMMA RemainsIsErase ==
    ASSUME NEW s, IsStore(s), NEW K \in SUBSET DOMAIN s.entries, NEW t, Remains(s, K, t)
    PROVE  t = Erase(s, K)
<1> DEFINE u == Erase(s, K)
<1>1. Remains(s, K, u)
  BY EraseRemains, Zenon
<1> HIDE DEF u
<1>2. u = t
  <2>1. /\ IsStore(u) /\ IsStore(t) /\ DOMAIN u.entries = DOMAIN t.entries
        /\ \A k \in DOMAIN u.entries : u.entries[k] = t.entries[k]
    BY <1>1, Zenon DEF Remains
  <2>2. /\ u.memory_usage = t.memory_usage /\ u.access_clock = t.access_clock
        /\ u.maxmemory = t.maxmemory /\ u.policy = t.policy
    BY <1>1, Zenon DEF Remains
  <2> QED
    BY <2>1, <2>2, SameStore, Zenon
<1> QED
  BY <1>2, Zenon DEF u

(* Erasing nothing changes nothing. *)
LEMMA EraseNothing ==
    ASSUME NEW s, IsStore(s)
    PROVE  BytesOf(s, {}) = 0 /\ Erase(s, {}) = s
<1>1. {} \in SUBSET DOMAIN s.entries /\ {} \in SUBSET {} /\ {} \ {} = {}
  BY Zenon
<1>2. BytesOf(s, {}) = 0
  <2>1. BytesOf(s, {}) \in Nat /\ BytesOf(s, {}) = BytesOf(s, {}) + BytesOf(s, {} \ {})
    BY <1>1, BytesOfParts, Zenon
  <2> DEFINE n == BytesOf(s, {})
  <2>2. n \in Nat /\ n = n + n
    BY <1>1, <2>1, Zenon
  <2> HIDE DEF n
  <2>3. n = 0
    BY <2>2
  <2> QED
    BY <2>3, Zenon DEF n
<1>3. s.memory_usage = s.memory_usage - BytesOf(s, {})
  <2>1. s.memory_usage \in Int
    BY Zenon DEF IsStore
  <2> QED
    BY <1>2, <2>1
<1>4. Remains(s, {}, s)
  BY <1>3, Zenon DEF Remains
<1> QED
  BY <1>1, <1>2, <1>4, RemainsIsErase, Zenon

(* Erasing in two steps is erasing both sets. *)
LEMMA EraseTwice ==
    ASSUME NEW s, IsStore(s), NEW A \in SUBSET DOMAIN s.entries,
           NEW B \in SUBSET (DOMAIN s.entries \ A), NEW t, t = Erase(s, A)
    PROVE  /\ Erase(t, B) = Erase(s, A \cup B)
           /\ BytesOf(t, B) = BytesOf(s, B)
           /\ BytesOf(s, A \cup B) = BytesOf(s, A) + BytesOf(s, B)
<1> DEFINE D == DOMAIN s.entries
           u == Erase(t, B)
           U == A \cup B
<1>1. Remains(s, A, t)
  BY EraseRemains, Zenon
<1>a. U \in SUBSET D /\ A \in SUBSET U /\ B \in SUBSET U
  BY Zenon
<1>b. U \ A = B
  BY Zenon
<1>2. (D \ A) \ B = D \ U
  BY Zenon
<1>3. Remains(t, B, u)
  <2>1. IsStore(t) /\ B \in SUBSET DOMAIN t.entries
    BY <1>1, Zenon DEF Remains
  <2> QED
    BY <2>1, EraseRemains, Zenon
<1> HIDE DEF u, D, U
<1>4. BytesOf(t, B) = BytesOf(s, B)
  <2>1. \A k \in B : t.entries[k].value = s.entries[k].value
    BY <1>1, Zenon DEF Remains
  <2> QED
    BY <2>1, BytesOfSame, Zenon
<1>5. /\ BytesOf(s, U) = BytesOf(s, A) + BytesOf(s, B)
      /\ BytesOf(s, A) \in Nat /\ BytesOf(s, U) \in Nat
  <2>1. /\ BytesOf(s, U) = BytesOf(s, A) + BytesOf(s, U \ A)
        /\ BytesOf(s, A) \in Nat /\ BytesOf(s, U) \in Nat
    BY <1>a, BytesOfParts, ZenonT(40) DEF D
  <2>2. BytesOf(s, U \ A) = BytesOf(s, B)
    BY <1>b, Zenon
  <2> QED
    BY <2>1, <2>2, Zenon
<1>6. u.memory_usage = s.memory_usage - BytesOf(s, U)
  <2>1. u.memory_usage = (s.memory_usage - BytesOf(s, A)) - BytesOf(s, B)
    BY <1>1, <1>3, <1>4, Zenon DEF Remains
  <2>2. s.memory_usage \in Int /\ BytesOf(s, B) \in Nat
    BY <1>a, BytesOfParts, Zenon DEF IsStore, D
  <2> QED
    BY <1>5, <2>1, <2>2
<1>7. Remains(s, U, u)
  <2>1. /\ IsStore(u) /\ DOMAIN u.entries = DOMAIN s.entries \ U
        /\ \A k \in DOMAIN s.entries \ U : u.entries[k] = s.entries[k]
    BY <1>1, <1>2, <1>3, Zenon DEF Remains, D
  <2>2. u.access_clock = s.access_clock /\ u.maxmemory = s.maxmemory /\ u.policy = s.policy
    BY <1>1, <1>3, Zenon DEF Remains
  <2> QED
    BY <1>6, <2>1, <2>2, Zenon DEF Remains
<1>8. u = Erase(s, U)
  BY <1>a, <1>7, RemainsIsErase, Zenon DEF D
<1> QED
  BY <1>4, <1>5, <1>8, Zenon DEF u, U

(* Erasing an entry more. *)
LEMMA EraseOneMore ==
    ASSUME NEW s, IsStore(s), NEW A \in SUBSET DOMAIN s.entries,
           NEW v \in DOMAIN s.entries \ A, NEW t, t = Erase(s, A)
    PROVE  /\ Erase(t, {v}) = Erase(s, A \cup {v}) /\ BytesOf(t, {v}) = BytesOf(s, {v})
           /\ BytesOf(s, A \cup {v}) = BytesOf(s, A) + BytesOf(s, {v})
<1> DEFINE B == {v}
<1>1. B \in SUBSET (DOMAIN s.entries \ A)
  BY Zenon
<1> HIDE DEF B
<1>2. /\ Erase(t, B) = Erase(s, A \cup B) /\ BytesOf(t, B) = BytesOf(s, B)
      /\ BytesOf(s, A \cup B) = BytesOf(s, A) + BytesOf(s, B)
  BY <1>1, EraseTwice
<1> QED
  BY <1>2, Zenon DEF B

(* Some element of a finite set has the lowest rank. *)
LEMMA LowestExists ==
    ASSUME NEW S, IsFiniteSet(S), NEW r, \A x \in S : r[x] \in Nat, S # {}
    PROVE  \E v \in S : \A k \in S : r[v] <= r[k]
<1> DEFINE Lowest(s) == \E v \in s : \A k \in s : r[v] <= r[k]
           Q == {s \in SUBSET S : s # {} => Lowest(s)}
<1>1. ASSUME NEW s \in SUBSET S, \A q \in SUBSET s : q # s => q \in Q, s # {}
      PROVE  Lowest(s)
  <2>1. PICK x \in s : TRUE
    BY <1>1, Zenon
  <2>2. s \ {x} \in SUBSET s /\ s \ {x} # s
    BY <2>1, Zenon
  <2>3. s \ {x} # {} => Lowest(s \ {x})
    BY <1>1, <2>2, Zenon
  <2>4. CASE s \ {x} = {}
    <3>1. \A k \in s : k = x
      BY <2>4, Zenon
    <3>2. r[x] <= r[x]
      BY <2>1
    <3> QED
      BY <3>1, <3>2, Zenon
  <2>5. CASE s \ {x} # {}
    <3>1. PICK v \in s \ {x} : \A k \in s \ {x} : r[v] <= r[k]
      BY <2>3, <2>5, Zenon
    <3>2. r[x] \in Nat /\ r[v] \in Nat /\ \A k \in s : r[k] \in Nat
      BY <2>1, <3>1, Zenon
    <3>3. CASE r[v] <= r[x]
      <4>1. \A k \in s : r[v] <= r[k]
        BY <3>1, <3>3, Zenon
      <4> QED
        BY <3>1, <4>1, Zenon
    <3>4. CASE r[x] < r[v]
      <4>1. \A k \in s : r[x] <= r[k]
        BY <3>1, <3>2, <3>4
      <4> QED
        BY <2>1, <4>1, Zenon
    <3> QED
      BY <3>2, <3>3, <3>4
  <2> QED
    BY <2>4, <2>5, Zenon
<1>2. \A s \in SUBSET S : (\A q \in SUBSET s : q # s => q \in Q) => s \in Q
  BY <1>1, Zenon
<1> HIDE DEF Q
<1>3. \A s \in SUBSET S : s \in Q
  BY <1>2, SubsetInduction, Zenon
<1> QED
  BY <1>3, S \in SUBSET S, Zenon DEF Q

(* The rank by which a policy chooses is a number. *)
LEMMA RankType ==
    ASSUME NEW s, IsStore(s), NEW k \in DOMAIN s.entries
    PROVE  Rank(s, k) \in Nat
<1>1. s.entries[k].last_access \in Nat /\ s.entries[k].frequency \in Nat
  BY Zenon DEF IsStore, Entry
<1> QED
  BY <1>1 DEF Rank

(* A key that stays keeps its rank. *)
LEMMA RankKept ==
    ASSUME NEW s, NEW K, NEW t, Remains(s, K, t)
    PROVE  \A k \in DOMAIN s.entries \ K : Rank(t, k) = Rank(s, k)
<1> TAKE k \in DOMAIN s.entries \ K
<1>1. t.policy = s.policy /\ t.entries[k] = s.entries[k]
  BY Zenon DEF Remains
<1> QED
  BY <1>1, Zenon DEF Rank

(* What Set would need, were nothing evicted. *)
Projected(s, key, value) == s.memory_usage - OldBytes(s, key) + EntryBytes(key, value)

(* The victims V that the loop of MakeRoom has taken so far: none outranks *)
(* an entry that is left, and before the last one there was not enough     *)
(* room.                                                                   *)
TakenSoFar(s, key, excess, V) ==
    /\ V \in SUBSET (DOMAIN s.entries \ {key})
    /\ \A v \in V, k \in (DOMAIN s.entries \ {key}) \ V : Rank(s, v) <= Rank(s, k)
    /\ V # {} => \E v \in V : /\ \A u \in V : Rank(s, u) <= Rank(s, v)
                             /\ ~Enough(s, V \ {v}, excess)
    /\ s.policy = "noeviction" => V = {}

(* The loop of MakeRoom, for a key and value, that has made t of s. *)
Evicting(s, t, key, value, projected) ==
    /\ Sound(s) /\ key \in Keys /\ value \in Text /\ EntryBytes(key, value) <= s.maxmemory
    /\ \E V \in SUBSET DOMAIN s.entries :
        /\ TakenSoFar(s, key, Projected(s, key, value) - s.maxmemory, V)
        /\ t = Erase(s, V)
        /\ projected = Projected(s, key, value) - BytesOf(s, V)

(* What Set needs is a number. *)
LEMMA ProjectedType ==
    ASSUME NEW s, Sound(s), NEW key \in Keys, NEW value \in Text
    PROVE  Projected(s, key, value) \in Int /\ s.maxmemory \in Nat
<1>1. s.memory_usage \in Int /\ s.maxmemory \in Nat /\ IsStore(s)
  BY Zenon DEF Sound, IsStore
<1>2. OldBytes(s, key) \in Nat /\ EntryBytes(key, value) \in Nat
  BY <1>1, OldBytesType, EntryBytesType, Zenon
<1> QED
  BY <1>1, <1>2 DEF Projected

(* The loop begins with nothing taken. *)
LEMMA EvictingStarts ==
    ASSUME NEW s, Sound(s), NEW key \in Keys, NEW value \in Text,
           EntryBytes(key, value) <= s.maxmemory
    PROVE  Evicting(s, s, key, value, Projected(s, key, value))
<1>1. Projected(s, key, value) \in Int /\ IsStore(s)
  BY ProjectedType, Zenon DEF Sound
<1>2. BytesOf(s, {}) = 0 /\ Erase(s, {}) = s
  BY <1>1, EraseNothing, Zenon
<1>3. Projected(s, key, value) = Projected(s, key, value) - BytesOf(s, {})
  BY <1>1, <1>2
<1>4. {} \in SUBSET DOMAIN s.entries
      /\ TakenSoFar(s, key, Projected(s, key, value) - s.maxmemory, {})
  BY Zenon DEF TakenSoFar
<1> QED
  BY <1>2, <1>3, <1>4, Zenon DEF Evicting

(* The victim v, of the lowest rank, goes while there is not enough room. *)
LEMMA EvictingGoesOn ==
    ASSUME NEW s, NEW t, NEW key, NEW value, NEW projected, Evicting(s, t, key, value, projected),
           projected > t.maxmemory, t.policy # "noeviction",
           NEW v \in DOMAIN t.entries \ {key},
           \A k \in DOMAIN t.entries \ {key} : Rank(t, v) <= Rank(t, k)
    PROVE  Evicting(s, Erase(t, {v}), key, value, projected - BytesOf(t, {v}))
<1> DEFINE excess == Projected(s, key, value) - s.maxmemory
           C == DOMAIN s.entries \ {key}
<1>1. Sound(s) /\ IsStore(s) /\ key \in Keys /\ value \in Text
  BY Zenon DEF Evicting, Sound
<1>2. PICK V \in SUBSET DOMAIN s.entries :
        /\ TakenSoFar(s, key, excess, V) /\ t = Erase(s, V)
        /\ projected = Projected(s, key, value) - BytesOf(s, V)
  BY Zenon DEF Evicting
<1>3. Remains(s, V, t)
  BY <1>1, <1>2, EraseRemains, Zenon
<1>4. v \in DOMAIN s.entries \ V /\ v \in C \ V /\ V \cup {v} \in SUBSET DOMAIN s.entries
  BY <1>3, Zenon DEF Remains
<1>5. \A k \in C \ V : Rank(s, v) <= Rank(s, k)
  <2>1. \A k \in DOMAIN s.entries \ V : Rank(t, k) = Rank(s, k)
    BY <1>3, RankKept
  <2>2. \A k \in C \ V : k \in DOMAIN s.entries \ V /\ k \in DOMAIN t.entries \ {key}
    BY <1>3, Zenon DEF Remains
  <2>3. \A k \in C \ V : Rank(t, v) <= Rank(t, k)
    BY <2>2, Zenon
  <2>4. \A k \in C \ V : Rank(t, v) <= Rank(s, k)
    BY <2>1, <2>2, <2>3, Zenon
  <2>5. Rank(t, v) = Rank(s, v)
    BY <1>4, <2>1, Zenon
  <2> QED
    BY <2>4, <2>5, Zenon
<1>6. /\ Erase(t, {v}) = Erase(s, V \cup {v}) /\ BytesOf(t, {v}) = BytesOf(s, {v})
      /\ BytesOf(s, V \cup {v}) = BytesOf(s, V) + BytesOf(s, {v})
  <2>1. t = Erase(s, V) /\ IsStore(s) /\ v \in DOMAIN s.entries \ V
    BY <1>1, <1>2, <1>4, Zenon
  <2> QED
    BY <2>1, EraseOneMore
<1>7. BytesOf(s, V) \in Nat /\ BytesOf(s, {v}) \in Nat
  <2>1. {v} \in SUBSET DOMAIN s.entries /\ V \in SUBSET V /\ {v} \in SUBSET {v}
    BY <1>4, Zenon
  <2> QED
    BY <1>1, <2>1, BytesOfParts, Zenon
<1>8. Projected(s, key, value) \in Int /\ s.maxmemory \in Nat
  BY <1>1, ProjectedType, Zenon
<1>9. projected - BytesOf(t, {v}) = Projected(s, key, value) - BytesOf(s, V \cup {v})
  <2> DEFINE n == Projected(s, key, value)
  <2> HIDE DEF n
  <2> QED
    BY <1>2, <1>6, <1>7, <1>8 DEF n
<1>10. ~Enough(s, V, excess)
  <2>1. projected > s.maxmemory
    BY <1>3, Zenon DEF Remains
  <2> QED
    BY <1>2, <1>7, <1>8, <2>1 DEF Enough
<1>11. TakenSoFar(s, key, excess, V \cup {v})
  <2>1. V \cup {v} \in SUBSET C
    BY <1>2, <1>4, Zenon DEF TakenSoFar
  <2>2. \A u \in V \cup {v}, k \in C \ (V \cup {v}) : Rank(s, u) <= Rank(s, k)
    BY <1>2, <1>5, Zenon DEF TakenSoFar
  <2>3. \A u \in V : Rank(s, u) <= Rank(s, v)
    BY <1>2, <1>4, Zenon DEF TakenSoFar
  <2>4. Rank(s, v) <= Rank(s, v)
    BY <1>4, <1>5, Zenon
  <2>5. (V \cup {v}) \ {v} = V
    BY <1>4, Zenon
  <2>6. s.policy # "noeviction"
    BY <1>3, Zenon DEF Remains
  <2> QED
    BY <1>10, <2>1, <2>2, <2>3, <2>4, <2>5, <2>6, Zenon DEF TakenSoFar
<1> HIDE DEF excess
<1> QED
  BY <1>4, <1>6, <1>9, <1>11, Zenon DEF Evicting, excess

(* What the loop has taken are the entries V, and what it still needs.     *)
Took(s, t, key, value, projected, V) ==
    /\ V \in SUBSET DOMAIN s.entries
    /\ TakenSoFar(s, key, Projected(s, key, value) - s.maxmemory, V)
    /\ Remains(s, V, t) /\ t = Erase(s, V)
    /\ projected = Projected(s, key, value) - BytesOf(s, V)
    /\ BytesOf(s, V) \in Nat

(* What is gone are the victims. *)
LEMMA EvictingTook ==
    ASSUME NEW s, NEW t, NEW key, NEW value, NEW projected, Evicting(s, t, key, value, projected)
    PROVE  Took(s, t, key, value, projected, DOMAIN s.entries \ DOMAIN t.entries)
<1>1. IsStore(s)
  BY Zenon DEF Evicting, Sound
<1>2. PICK V \in SUBSET DOMAIN s.entries :
        /\ TakenSoFar(s, key, Projected(s, key, value) - s.maxmemory, V) /\ t = Erase(s, V)
        /\ projected = Projected(s, key, value) - BytesOf(s, V)
  BY Zenon DEF Evicting
<1>3. Remains(s, V, t)
  BY <1>1, <1>2, EraseRemains, Zenon
<1>4. V = DOMAIN s.entries \ DOMAIN t.entries
  BY <1>3 DEF Remains
<1>5. BytesOf(s, V) \in Nat
  <2>1. V \in SUBSET V
    BY Zenon
  <2> QED
    BY <1>1, <2>1, BytesOfParts, Zenon
<1>6. Took(s, t, key, value, projected, V)
  BY <1>2, <1>3, <1>5, Zenon DEF Took
<1> QED
  BY <1>4, <1>6, Zenon

(* When there is room, the victims are a set that MakeRoom allows. *)
LEMMA EvictingSucceeds ==
    ASSUME NEW s, NEW t, NEW key, NEW value, NEW projected, Evicting(s, t, key, value, projected),
           ~(projected > t.maxmemory)
    PROVE  DOMAIN s.entries \ DOMAIN t.entries \in MakeRoom(s, Projected(s, key, value), key)
<1> DEFINE n == Projected(s, key, value)
           excess == n - s.maxmemory
           C == DOMAIN s.entries \ {key}
           V == DOMAIN s.entries \ DOMAIN t.entries
<1>1. Sound(s) /\ key \in Keys /\ value \in Text
  BY Zenon DEF Evicting
<1>2. n \in Int /\ s.maxmemory \in Nat
  BY <1>1, ProjectedType, Zenon
<1>3. Took(s, t, key, value, projected, V)
  BY EvictingTook, Zenon
<1> HIDE DEF n, V
<1>4. n - BytesOf(s, V) <= s.maxmemory
  <2>1. t.maxmemory = s.maxmemory /\ projected = n - BytesOf(s, V) /\ BytesOf(s, V) \in Nat
    BY <1>3, Zenon DEF Took, Remains, n
  <2> QED
    BY <1>2, <2>1
<1>5. Enough(s, V, excess)
  <2>1. BytesOf(s, V) \in Nat
    BY <1>3, Zenon DEF Took
  <2> QED
    BY <1>2, <1>4, <2>1 DEF Enough
<1>6. V \in Victims(s, C, excess)
  <2>1. TakenSoFar(s, key, excess, V)
    BY <1>3, Zenon DEF Took, n
  <2> HIDE DEF excess
  <2> QED
    BY <1>5, <2>1, Zenon DEF Victims, TakenSoFar
<1>7. ~(s.policy = "noeviction" /\ n > s.maxmemory)
  <2>1. ASSUME s.policy = "noeviction", n > s.maxmemory
        PROVE  FALSE
    <3>1. V = {} /\ IsStore(s)
      BY <1>1, <1>3, <2>1, Zenon DEF Took, TakenSoFar, Sound
    <3>2. BytesOf(s, V) = 0
      BY <3>1, EraseNothing, Zenon
    <3> QED
      BY <1>2, <1>4, <2>1, <3>2
  <2> QED
    BY <2>1, Zenon
<1>8. V \in MakeRoom(s, n, key)
  BY <1>6, <1>7, Zenon DEF MakeRoom
<1> QED
  BY <1>8, Zenon DEF n, V

(* When there is no room and no victim, nothing was taken and MakeRoom     *)
(* allows nothing.                                                         *)
LEMMA EvictingFails ==
    ASSUME NEW s, NEW t, NEW key, NEW value, NEW projected, Evicting(s, t, key, value, projected),
           projected > t.maxmemory,
           \/ t.policy = "noeviction"
           \/ ~\E v \in DOMAIN t.entries \ {key} :
                 \A k \in DOMAIN t.entries \ {key} : Rank(t, v) <= Rank(t, k)
    PROVE  /\ DOMAIN s.entries \ DOMAIN t.entries = {}
           /\ MakeRoom(s, Projected(s, key, value), key) = {}
<1> DEFINE n == Projected(s, key, value)
           C == DOMAIN t.entries \ {key}
           V == DOMAIN s.entries \ DOMAIN t.entries
<1>1. Sound(s) /\ IsStore(s) /\ key \in Keys /\ value \in Text /\ EntryBytes(key, value) <= s.maxmemory
  BY Zenon DEF Evicting, Sound
<1>2. n \in Int /\ s.maxmemory \in Nat
  BY <1>1, ProjectedType, Zenon
<1>3. Took(s, t, key, value, projected, V)
  BY EvictingTook, Zenon
<1> HIDE DEF V
<1>4. n - BytesOf(s, V) > s.maxmemory /\ t.policy = s.policy
  BY <1>3, Zenon DEF Took, Remains
<1>5. CASE s.policy = "noeviction"
  <2>1. V = {}
    BY <1>3, <1>5, Zenon DEF Took, TakenSoFar
  <2>2. BytesOf(s, V) = 0
    BY <1>1, <2>1, EraseNothing, Zenon
  <2> HIDE DEF n
  <2>3. n > s.maxmemory
    BY <1>2, <1>4, <2>2
  <2>4. MakeRoom(s, n, key) = {}
    BY <1>5, <2>3, Zenon DEF MakeRoom
  <2> QED
    BY <2>1, <2>4, Zenon DEF n, V
<1>6. CASE s.policy # "noeviction"
  <2>1. C = {}
    <3>1. SUFFICES ASSUME C # {} PROVE FALSE
      BY Zenon
    <3>2. IsStore(t) /\ C \in SUBSET DOMAIN t.entries
      BY <1>3, Zenon DEF Took, Remains
    <3> DEFINE r == [k \in C |-> Rank(t, k)]
    <3>3. \A k \in C : r[k] = Rank(t, k) /\ r[k] \in Nat
      BY <3>2, RankType
    <3>4. IsFiniteSet(C)
      BY <3>2, BytesOfSum, Zenon
    <3> HIDE DEF r
    <3>5. PICK v \in C : \A k \in C : r[v] <= r[k]
      BY <3>1, <3>3, <3>4, LowestExists, Zenon
    <3>6. \A k \in C : Rank(t, v) <= Rank(t, k)
      BY <3>3, <3>5, Zenon
    <3> QED
      BY <1>4, <1>6, <3>6, Zenon
  <2>2. BytesOf(s, DOMAIN s.entries) = BytesOf(s, V) + OldBytes(s, key)
    <3> DEFINE D == DOMAIN s.entries
    <3>0. V \in SUBSET D
      BY <1>3, Zenon DEF Took
    <3>1. D \ V = D \cap {key}
      <4>1. DOMAIN t.entries = D \ V /\ key \notin V /\ V \in SUBSET D
        BY <1>3, Zenon DEF Took, Remains, TakenSoFar
      <4> QED
        BY <2>1, <4>1
    <3>2. D \in SUBSET D
      BY Zenon
    <3>3. BytesOf(s, D) = BytesOf(s, V) + BytesOf(s, D \ V)
      BY <1>1, <3>0, <3>2, BytesOfParts, ZenonT(40)
    <3>4. OldBytes(s, key) = BytesOf(s, D \cap {key})
      BY <1>1, OldBytesType, Zenon
    <3> QED
      BY <3>1, <3>3, <3>4, Zenon
  <2> DEFINE b == BytesOf(s, V)
             e == EntryBytes(key, value)
             m == s.maxmemory
  <2>3. n = b + e /\ e \in Nat /\ b \in Nat
    <3>1. s.memory_usage = b + OldBytes(s, key)
      BY <1>1, <2>2, Zenon DEF Sound
    <3>2. OldBytes(s, key) \in Nat /\ e \in Nat /\ b \in Nat
      BY <1>1, <1>3, OldBytesType, EntryBytesType, Zenon DEF Took
    <3> DEFINE o == OldBytes(s, key)
    <3>3. n = (b + o) - o + e
      BY <3>1, Zenon DEF Projected
    <3> HIDE DEF n, b, e, o
    <3> QED
      BY <3>2, <3>3 DEF o
  <2>4. n - b > m /\ e <= m /\ m \in Nat
    BY <1>1, <1>2, <1>4, Zenon
  <2> HIDE DEF n, b, e, m
  <2>5. FALSE
    BY <2>3, <2>4
  <2> QED
    BY <2>5, Zenon
<1> QED
  BY <1>5, <1>6, Zenon

(* Room is made: the write is stored. *)
LEMMA EvictingStores ==
    ASSUME NEW s, NEW t, NEW key, NEW value, NEW projected, Evicting(s, t, key, value, projected),
           ~(projected > t.maxmemory), NEW u, u = Put(t, key, value, Never)
    PROVE  Sound(u) /\ DOMAIN u.entries = DOMAIN t.entries \cup {key}
<1> DEFINE n == Projected(s, key, value)
           V == DOMAIN s.entries \ DOMAIN t.entries
<1>1. Sound(s) /\ key \in Keys /\ value \in Text /\ n \in Int /\ s.maxmemory \in Nat
  BY ProjectedType, Zenon DEF Evicting
<1>2. Took(s, t, key, value, projected, V)
  BY EvictingTook, Zenon
<1> HIDE DEF V
<1>3. /\ V \in SUBSET (DOMAIN s.entries \ {key}) /\ u = Put(Erase(s, V), key, value, Never)
      /\ t.maxmemory = s.maxmemory /\ projected = n - BytesOf(s, V) /\ BytesOf(s, V) \in Nat
      /\ DOMAIN t.entries = DOMAIN s.entries \ V
  BY <1>2, Zenon DEF Took, TakenSoFar, Remains
<1>4. n - BytesOf(s, V) <= s.maxmemory
  <2> HIDE DEF n
  <2> QED
    BY <1>1, <1>3
<1>5. n = s.memory_usage - OldBytes(s, key) + EntryBytes(key, value)
  BY Zenon DEF Projected
<1>6. Follows(s, u) /\ DOMAIN u.entries = (DOMAIN s.entries \ V) \cup {key}
  <2> DEFINE x == Never
  <2>1. x \in Int \cup {Never} /\ u = Put(Erase(s, V), key, value, x)
    BY <1>3, Zenon
  <2>2. Sound(s) /\ key \in Keys /\ value \in Text /\ V \in SUBSET (DOMAIN s.entries \ {key})
    BY <1>1, <1>3, Zenon
  <2> HIDE DEF n, x
  <2> QED
    BY <1>4, <1>5, <2>1, <2>2, PutAfterErase
<1> QED
  BY <1>3, <1>6, Zenon DEF Follows

(* The positions before i, of n in a circle, that are the last c of them.  *)
Window(i, c, n) == IF c <= i THEN (i - c + 1)..i ELSE (1..i) \cup ((n - c + i + 1)..n)

(* The iterator, which goes on at the front when it is at the end.         *)
Wrapped(i, n) == IF i = n THEN 0 ELSE i

(* The place after the window is not in it as long as it is not everything, *)
(* and what the window becomes when that place is taken in, or taken out.  *)
LEMMA WindowGrows ==
    ASSUME NEW n \in Nat \ {0}, NEW i \in 0..n, NEW c \in 0..(n - 1), NEW j, j = Wrapped(i, n)
    PROVE  /\ j \in 0..(n - 1) /\ j + 1 \notin Window(i, c, n)
           /\ \A p \in 1..n : p \in Window(j + 1, c + 1, n) <=> p \in Window(i, c, n) \/ p = j + 1
           /\ \A p \in 1..j : p \in Window(j, c, n - 1) <=> p \in Window(i, c, n)
           /\ \A p \in (j + 1)..(n - 1) : p \in Window(j, c, n - 1) <=> p + 1 \in Window(i, c, n)
<1>1. CASE i = n
  <2>1. j = 0
    BY <1>1 DEF Wrapped
  <2> QED
    BY <1>1, <2>1 DEF Window
<1>2. CASE i # n
  <2>1. j = i
    BY <1>2 DEF Wrapped
  <2>2. CASE c <= i
    BY <1>2, <2>1, <2>2 DEF Window
  <2>3. CASE c > i
    BY <1>2, <2>1, <2>3 DEF Window
  <2> QED
    BY <2>2, <2>3
<1> QED
  BY <1>1, <1>2, Zenon

(* q has every key of D once. *)
IsOrder(q, D) ==
    /\ q \in Seq(D) /\ Len(q) \in Nat /\ DOMAIN q = 1..Len(q)
    /\ \A i, j \in 1..Len(q) : q[i] = q[j] => i = j
    /\ \A k \in D : \E i \in 1..Len(q) : q[i] = k

(* So it is as long as D is large. *)
LEMMA OrderLength ==
    ASSUME NEW D, NEW q, IsOrder(q, D)
    PROVE  Len(q) = Cardinality(D) /\ IsFiniteSet(D)
<1> DEFINE n == Len(q)
<1>1. n \in Nat /\ q \in [1..n -> D]
  BY LenProperties, Zenon DEF IsOrder
<1>2. q \in Bijection(1..n, D)
  BY <1>1, Zenon DEF IsOrder, Bijection, Injection, IsInjective, Surjection
<1>3. ExistsBijection(1..n, D)
  BY <1>2, Zenon DEF ExistsBijection
<1>4. IsFiniteSet(1..n) /\ Cardinality(1..n) = n
  BY <1>1, FS_Interval
<1> QED
  BY <1>3, <1>4, FS_Bijection, Zenon

(* A sequence that is all of D and nothing twice is an order of it. *)
LEMMA OrderIs ==
    ASSUME NEW D, NEW q, NEW n \in Nat, q \in Seq(D), Len(q) = n,
           \A i, j \in 1..n : q[i] = q[j] => i = j,
           \A k \in D : \E i \in 1..n : q[i] = k
    PROVE  IsOrder(q, D)
<1>1. DOMAIN q = 1..n
  BY LenProperties, Zenon
<1> QED
  BY <1>1, Zenon DEF IsOrder

(* q without the place i, as erasing leaves it. *)
CutOut(q, i) == SubSeq(q, 1, i - 1) \o SubSeq(q, i + 1, Len(q))

(* r is q without the place i. *)
Removed(q, i, r) ==
    /\ Len(r) = Len(q) - 1
    /\ \A p \in 1..(i - 1) : r[p] = q[p]
    /\ \A p \in i..(Len(q) - 1) : r[p] = q[p + 1]

(* Cutting a place out of a sequence. *)
LEMMA RemovedParts ==
    ASSUME NEW S, NEW q \in Seq(S), NEW i \in 1..Len(q), NEW r, r = CutOut(q, i)
    PROVE  r \in Seq(S) /\ Removed(q, i, r)
<1> DEFINE n == Len(q)
           a == SubSeq(q, 1, i - 1)
           b == SubSeq(q, i + 1, n)
<1>1. n \in Nat /\ i \in Int /\ i >= 1 /\ i <= n /\ \A p \in 1..n : q[p] \in S
  BY LenProperties, ElementOfSeq
<1>2. a \in Seq(S) /\ Len(a) = i - 1 /\ \A p \in 1..(i - 1) : a[p] = q[p]
  <2>1. (\A p \in 1..(i - 1) : q[p] \in S) /\ 1 \in Int /\ i - 1 \in Int
    BY <1>1
  <2> QED
    BY <1>1, <2>1, SubSeqProperties
<1>3. b \in Seq(S) /\ Len(b) = n - i /\ \A p \in 1..(n - i) : b[p] = q[p + i]
  <2>1. (\A p \in (i + 1)..n : q[p] \in S) /\ i + 1 \in Int /\ n \in Int
    BY <1>1
  <2> QED
    BY <1>1, <2>1, SubSeqProperties
<1>4. r = a \o b
  BY Zenon DEF CutOut
<1> HIDE DEF a, b, n
<1>5. /\ r \in Seq(S) /\ Len(r) = Len(a) + Len(b)
      /\ \A p \in 1..(Len(a) + Len(b)) : r[p] = IF p <= Len(a) THEN a[p] ELSE b[p - Len(a)]
  BY <1>2, <1>3, <1>4, ConcatProperties
<1>6. Len(r) = n - 1
  BY <1>1, <1>2, <1>3, <1>5
<1>7. ASSUME NEW p \in 1..(i - 1) PROVE r[p] = q[p]
  BY <1>1, <1>2, <1>3, <1>5
<1>8. ASSUME NEW p \in i..(n - 1) PROVE r[p] = q[p + 1]
  <2>1. p \in 1..(Len(a) + Len(b)) /\ ~(p <= Len(a)) /\ p - Len(a) = p - i + 1
        /\ p - i + 1 \in 1..(n - i) /\ (p - i + 1) + i = p + 1
    BY <1>1, <1>2, <1>3
  <2>2. r[p] = b[p - i + 1]
    BY <1>5, <2>1, Zenon
  <2> QED
    BY <1>3, <2>1, <2>2, Zenon
<1> QED
  BY <1>5, <1>6, <1>7, <1>8, Zenon DEF n, Removed

(* An order loses a place. *)
LEMMA OrderShrinks ==
    ASSUME NEW D, NEW q, IsOrder(q, D), NEW i \in 1..Len(q), NEW r, r = CutOut(q, i)
    PROVE  IsOrder(r, D \ {q[i]})
<1> DEFINE n == Len(q)
           m == n - 1
           U == D \ {q[i]}
<1>1. q \in Seq(D) /\ n \in Nat
  BY Zenon DEF IsOrder
<1>2. /\ r \in Seq(D) /\ Len(r) = m
      /\ \A p \in 1..(i - 1) : r[p] = q[p]
      /\ \A p \in i..m : r[p] = q[p + 1]
  <2>1. r \in Seq(D) /\ Removed(q, i, r)
    BY <1>1, RemovedParts, Zenon
  <2> QED
    BY <2>1, Zenon DEF Removed, m
<1>3. \A p, o \in 1..n : q[p] = q[o] => p = o
  BY Zenon DEF IsOrder
<1>4. m \in Nat /\ m = n - 1 /\ i \in 1..n /\ n \in Int
  BY <1>1
<1> HIDE DEF n, m
<1> DEFINE At(p) == IF p < i THEN p ELSE p + 1
<1>5. \A p \in 1..m : At(p) \in 1..n /\ At(p) # i /\ r[p] = q[At(p)]
  BY <1>1, <1>2, <1>4
<1>6. \A p, o \in 1..m : At(p) = At(o) => p = o
  BY <1>1, <1>4
<1>7. \A o \in 1..n : o # i => \E p \in 1..m : At(p) = o
  <2> TAKE o \in 1..n
  <2>1. CASE o < i
    <3>1. o \in 1..m /\ At(o) = o
      BY <1>4, <2>1
    <3> QED
      BY <3>1, Zenon
  <2>2. CASE o > i
    <3>1. o - 1 \in 1..m /\ At(o - 1) = o
      BY <1>4, <2>2
    <3> QED
      BY <3>1, Zenon
  <2> QED
    BY <1>4, <2>1, <2>2
<1> HIDE DEF At
<1>8. \A p \in 1..m : r[p] \in U
  <2>1. \A p \in 1..n : q[p] \in D
    BY <1>1, ElementOfSeq DEF n
  <2> QED
    BY <1>3, <1>4, <1>5, <2>1
<1>9. r \in Seq(U)
  <2>1. r \in [1..m -> D]
    BY <1>2, <1>4, LenProperties, Zenon
  <2>2. r \in [1..m -> U]
    BY <1>8, <2>1
  <2> QED
    BY <1>4, <2>2, SeqDef
<1>10. \A p, o \in 1..m : r[p] = r[o] => p = o
  BY <1>3, <1>5, <1>6, ZenonT(40)
<1>11. \A k \in U : \E p \in 1..m : r[p] = k
  <2>1. \A k \in D : \E o \in 1..n : q[o] = k
    BY Zenon DEF IsOrder, n
  <2> QED
    BY <1>5, <1>7, <2>1
<1> HIDE DEF U
<1>12. Len(r) = m /\ m \in Nat
  BY <1>2, <1>4, Zenon
<1>13. IsOrder(r, U)
  BY <1>9, <1>10, <1>11, <1>12, OrderIs
<1> QED
  BY <1>13, Zenon DEF U

(* A bijection is an order. *)
LEMMA BijectionIsOrder ==
    ASSUME NEW D, IsFiniteSet(D), NEW q \in Bijection(1..Cardinality(D), D)
    PROVE  IsOrder(q, D)
<1> DEFINE n == Cardinality(D)
<1>1. n \in Nat
  BY FS_CardinalityType, Zenon
<1>2. /\ q \in [1..n -> D]
      /\ \A i, j \in 1..n : q[i] = q[j] => i = j
      /\ \A k \in D : \E i \in 1..n : q[i] = k
  BY Zenon DEF Bijection, Injection, IsInjective, Surjection
<1>3. q \in Seq(D) /\ Len(q) = n
  BY <1>1, <1>2, SeqDef
<1> HIDE DEF n
<1> QED
  BY <1>1, <1>2, <1>3, OrderIs

(* The scan of s at m has examined the entries E.  Of those it has removed *)
(* the expired ones, which leaves t; the others are the ones just before   *)
(* its iterator i, in the order q of what is left.                         *)
Scanned(s, t, q, m, i, examined, E) ==
    /\ E \in SUBSET DOMAIN s.entries /\ Cardinality(E) = examined
    /\ t = Erase(s, Expired(s, E, m))
    /\ \A p \in 1..Len(q) :
          q[p] \in E <=> p \in Window(i, Len(q) + examined - Cardinality(DOMAIN s.entries), Len(q))

(* A scan that has not gone round. *)
Scanning(s, t, q, m, i, examined) ==
    /\ Sound(s) /\ examined \in Nat /\ examined <= max_samples /\ i \in 0..Len(q)
    /\ Len(q) + examined - Cardinality(DOMAIN s.entries) \in 0..Len(q)
    /\ \E E \in SUBSET DOMAIN s.entries : Scanned(s, t, q, m, i, examined, E)

(* The number of entries. *)
LEMMA EntriesFinite ==
    ASSUME NEW s, IsStore(s), NEW K \in SUBSET DOMAIN s.entries
    PROVE  IsFiniteSet(K) /\ Cardinality(K) \in Nat
<1>1. IsFiniteSet(K)
  BY BytesOfSum, Zenon
<1> QED
  BY <1>1, FS_CardinalityType, Zenon

(* The orders of a store's entries, at the start and after a rehash. *)
LEMMA OrdersAreOrders ==
    ASSUME NEW s, Sound(s), NEW q \in Orders(s)
    PROVE  IsOrder(q, DOMAIN s.entries)
<1>1. IsStore(s) /\ DOMAIN s.entries \in SUBSET DOMAIN s.entries
  BY Zenon DEF Sound
<1>2. IsFiniteSet(DOMAIN s.entries)
  BY <1>1, EntriesFinite, Zenon
<1> QED
  BY <1>2, BijectionIsOrder, Zenon DEF Orders

(* A scan begins with nothing examined. *)
LEMMA ScanStarts ==
    ASSUME NEW s, Sound(s), NEW q, IsOrder(q, DOMAIN s.entries), NEW m, NEW i \in 0..Len(q),
           max_samples \in Nat
    PROVE  Scanning(s, s, q, m, i, 0)
<1> DEFINE n == Len(q)
           N == Cardinality(DOMAIN s.entries)
<1>1. n = N /\ n \in Nat
  BY OrderLength, Zenon DEF IsOrder
<1>2. IsStore(s) /\ {} \in SUBSET DOMAIN s.entries /\ Cardinality({}) = 0
  BY FS_EmptySet, Zenon DEF Sound
<1>3. Erase(s, Expired(s, {}, m)) = s
  <2>1. Expired(s, {}, m) = {}
    BY Zenon DEF Expired
  <2> QED
    BY <1>2, <2>1, EraseNothing, Zenon
<1> HIDE DEF n, N
<1>4. n + 0 - N = 0 /\ 0 \in 0..n /\ 0 \in Nat /\ 0 <= max_samples
  BY <1>1
<1>5. \A p \in 1..n : ~(p \in Window(i, n + 0 - N, n))
  <2>1. i \in Nat
    BY <1>1 DEF n
  <2> QED
    BY <1>1, <1>4, <2>1 DEF Window
<1>6. Scanned(s, s, q, m, i, 0, {})
  BY <1>2, <1>3, <1>5, Zenon DEF Scanned, n, N
<1> QED
  BY <1>2, <1>4, <1>6, Zenon DEF Scanning, n, N

(* The iterator of such a scan comes to the key at j + 1. *)
Meets(s, t, q, m, i, examined, E, j, key) ==
    /\ Len(q) \in Nat \ {0} /\ i \in 0..Len(q) /\ j \in 0..(Len(q) - 1)
    /\ Len(q) + examined - Cardinality(DOMAIN s.entries) \in 0..(Len(q) - 1)
    /\ Cardinality(DOMAIN s.entries) \in Nat
    /\ key \in DOMAIN t.entries /\ Remains(s, Expired(s, E, m), t)
    /\ key \in DOMAIN s.entries \ Expired(s, E, m)
    /\ E \cup {key} \in SUBSET DOMAIN s.entries /\ Cardinality(E \cup {key}) = examined + 1
    /\ \A p \in 1..Len(q) : q[p] = key <=> p = j + 1

(* What the iterator comes to was not examined. *)
LEMMA ScanMeets ==
    ASSUME NEW s, NEW t, NEW q, NEW m, NEW i, NEW examined, Scanning(s, t, q, m, i, examined),
           IsOrder(q, DOMAIN t.entries), Len(q) # 0, examined < Cardinality(DOMAIN s.entries),
           NEW E, Scanned(s, t, q, m, i, examined, E),
           NEW j, j = Wrapped(i, Len(q)), NEW key, key = q[j + 1]
    PROVE  Meets(s, t, q, m, i, examined, E, j, key)
<1> DEFINE n == Len(q)
           N == Cardinality(DOMAIN s.entries)
           c == n + examined - N
           D == DOMAIN s.entries
           X == Expired(s, E, m)
<1>1. /\ IsStore(s) /\ examined \in Nat /\ i \in 0..n /\ c \in 0..n
      /\ E \in SUBSET D /\ Cardinality(E) = examined /\ t = Erase(s, X)
  BY Zenon DEF Scanning, Scanned, Sound
<1>2. N \in Nat /\ IsFiniteSet(E)
  BY <1>1, EntriesFinite, Zenon
<1>3. n \in Nat /\ q \in Seq(DOMAIN t.entries) /\ \A p, o \in 1..n : q[p] = q[o] => p = o
  BY Zenon DEF IsOrder
<1>4. \A p \in 1..n : q[p] \in E <=> p \in Window(i, c, n)
  BY Zenon DEF Scanned
<1>5. Remains(s, X, t)
  BY <1>1, ExpiredEntries, EraseRemains, Zenon
<1>6. n \in Nat \ {0} /\ c \in 0..(n - 1)
  <2> HIDE DEF n, N
  <2> QED
    BY <1>1, <1>2, <1>3 DEF n, N
<1> HIDE DEF c, N, X, D
<1>7. j \in 0..(n - 1) /\ j + 1 \notin Window(i, c, n)
  BY <1>1, <1>6, WindowGrows, Zenon
<1>8. j + 1 \in 1..n
  BY <1>6, <1>7
<1>9. key \in DOMAIN t.entries
  BY <1>3, <1>8, ElementOfSeq, Zenon
<1>10. key \notin E
  BY <1>4, <1>7, <1>8, Zenon
<1>11. key \in D \ X
  BY <1>5, <1>9, Zenon DEF Remains, D
<1>12. Cardinality(E \cup {key}) = examined + 1
  BY <1>1, <1>2, <1>10, FS_AddElement, Zenon
<1>13. E \cup {key} \in SUBSET D
  BY <1>1, <1>11, Zenon
<1>14. \A p \in 1..n : q[p] = key <=> p = j + 1
  BY <1>3, <1>8, Zenon
<1> QED
  BY <1>1, <1>2, <1>5, <1>6, <1>7, <1>9, <1>11, <1>12, <1>13, <1>14, Zenon DEF c, N, D, X, Meets

(* An entry more is examined. *)
LEMMA ExpiredAdds ==
    ASSUME NEW s, NEW E, NEW m, NEW key \in DOMAIN s.entries
    PROVE  Expired(s, E \cup {key}, m) =
              Expired(s, E, m) \cup (IF IsExpired(s.entries[key], m) THEN {key} ELSE {})
BY Zenon DEF Expired

(* An expired entry more is removed. *)
LEMMA ErasesExpired ==
    ASSUME NEW s, IsStore(s), NEW E, NEW m, NEW t, t = Erase(s, Expired(s, E, m)),
           NEW key, key \in DOMAIN s.entries, key \notin Expired(s, E, m),
           IsExpired(s.entries[key], m)
    PROVE  Erase(t, {key}) = Erase(s, Expired(s, E \cup {key}, m))
<1> DEFINE X == Expired(s, E, m)
<1>1. Expired(s, E \cup {key}, m) = X \cup {key}
  BY ExpiredAdds, Zenon
<1>2. X \in SUBSET DOMAIN s.entries /\ key \in DOMAIN s.entries \ X
  BY ExpiredEntries, Zenon
<1> HIDE DEF X
<1>3. Erase(t, {key}) = Erase(s, X \cup {key})
  BY <1>2, EraseOneMore DEF X
<1> QED
  BY <1>1, <1>3, Zenon

(* The position behind one of an order is a position of it, or its end. *)
LEMMA PositionBehind ==
    ASSUME NEW n \in Nat, NEW c \in 0..(n - 1)
    PROVE  c + 1 \in 0..n
BY SMT

(* One more examined is still within the bound. *)
LEMMA OneMoreExamined ==
    ASSUME NEW examined \in Nat, NEW max \in Nat, examined < max
    PROVE  examined + 1 \in Nat /\ examined + 1 <= max
BY SMT

(* ... and moves the count of the entries that stay and are behind. *)
LEMMA OneMoreBehind ==
    ASSUME NEW n \in Nat, NEW examined \in Nat, NEW N \in Nat
    PROVE  n + (examined + 1) - N = (n + examined - N) + 1
BY SMT

(* An entry that stays is behind the iterator. *)
LEMMA ScanKeeps ==
    ASSUME NEW s, NEW t, NEW q, NEW m, NEW i, NEW examined, Scanning(s, t, q, m, i, examined),
           IsOrder(q, DOMAIN t.entries), Len(q) # 0, examined < Cardinality(DOMAIN s.entries),
           examined < max_samples, max_samples \in Nat,
           NEW j, j = Wrapped(i, Len(q)), ~IsExpired(t.entries[q[j + 1]], m)
    PROVE  Scanning(s, t, q, m, j + 1, examined + 1)
<1> DEFINE n == Len(q)
           N == Cardinality(DOMAIN s.entries)
           c == n + examined - N
           key == q[j + 1]
<1>1. PICK E : Scanned(s, t, q, m, i, examined, E)
  BY Zenon DEF Scanning
<1> DEFINE X == Expired(s, E, m)
<1>2. /\ n \in Nat \ {0} /\ i \in 0..n /\ j \in 0..(n - 1) /\ c \in 0..(n - 1) /\ N \in Nat
      /\ key \in DOMAIN t.entries /\ Remains(s, X, t) /\ key \in DOMAIN s.entries \ X
      /\ E \cup {key} \in SUBSET DOMAIN s.entries /\ Cardinality(E \cup {key}) = examined + 1
      /\ \A p \in 1..n : q[p] = key <=> p = j + 1
  <2>1. Meets(s, t, q, m, i, examined, E, j, key)
    BY <1>1, ScanMeets, Zenon
  <2> QED
    BY <2>1, Zenon DEF Meets
<1>3. examined \in Nat /\ Sound(s) /\ t = Erase(s, X)
  BY <1>1, Zenon DEF Scanning, Scanned
<1>4. \A p \in 1..n : q[p] \in E <=> p \in Window(i, c, n)
  BY <1>1, Zenon DEF Scanned
<1>5. Expired(s, E \cup {key}, m) = X
  <2>1. ~IsExpired(s.entries[key], m)
    BY <1>2, Zenon DEF Remains
  <2> HIDE DEF key
  <2>2. Expired(s, E \cup {key}, m) = X \cup (IF IsExpired(s.entries[key], m) THEN {key} ELSE {})
    BY <1>2, ExpiredAdds, Zenon
  <2> HIDE DEF X
  <2> QED
    BY <2>1, <2>2, Zenon
<1>6. n + (examined + 1) - N = c + 1 /\ c + 1 \in 0..n /\ j + 1 \in 0..n
      /\ examined + 1 \in Nat /\ examined + 1 <= max_samples
  <2>1. n \in Nat /\ j \in 0..(n - 1) /\ c \in 0..(n - 1) /\ N \in Nat /\ c = n + examined - N
    BY <1>2, Zenon
  <2> HIDE DEF n, N, c, key, X
  <2>2. c + 1 \in 0..n /\ j + 1 \in 0..n
    BY <2>1, PositionBehind, Zenon
  <2>3. examined + 1 \in Nat /\ examined + 1 <= max_samples
    BY <1>3, OneMoreExamined, Zenon
  <2>4. n + (examined + 1) - N = c + 1
    BY <1>3, <2>1, OneMoreBehind, Zenon
  <2> QED
    BY <2>2, <2>3, <2>4, Zenon
<1> HIDE DEF n, N, c, key, X
<1>7. \A p \in 1..n : p \in Window(j + 1, c + 1, n) <=> p \in Window(i, c, n) \/ p = j + 1
  BY <1>2, WindowGrows, Zenon DEF n
<1>8. \A p \in 1..n : q[p] \in E \cup {key} <=> p \in Window(j + 1, c + 1, n)
  BY <1>2, <1>4, <1>7, Zenon
<1>9. Scanned(s, t, q, m, j + 1, examined + 1, E \cup {key})
  BY <1>2, <1>3, <1>5, <1>6, <1>8, Zenon DEF Scanned, n, N
<1> QED
  BY <1>2, <1>3, <1>6, <1>9, Zenon DEF Scanning, n, N

(* An expired entry goes, and the iterator is at the one behind it. *)
LEMMA ScanRemoves ==
    ASSUME NEW s, NEW t, NEW q, NEW m, NEW i, NEW examined, Scanning(s, t, q, m, i, examined),
           IsOrder(q, DOMAIN t.entries), Len(q) # 0, examined < Cardinality(DOMAIN s.entries),
           examined < max_samples, max_samples \in Nat,
           NEW j, j = Wrapped(i, Len(q)), IsExpired(t.entries[q[j + 1]], m),
           NEW r, Removed(q, j + 1, r)
    PROVE  Scanning(s, Erase(t, {q[j + 1]}), r, m, j, examined + 1)
<1> DEFINE n == Len(q)
           N == Cardinality(DOMAIN s.entries)
           c == n + examined - N
           key == q[j + 1]
           u == Erase(t, {key})
<1>1. PICK E : Scanned(s, t, q, m, i, examined, E)
  BY Zenon DEF Scanning
<1> DEFINE X == Expired(s, E, m)
<1>2. /\ n \in Nat \ {0} /\ i \in 0..n /\ j \in 0..(n - 1) /\ c \in 0..(n - 1) /\ N \in Nat
      /\ key \in DOMAIN t.entries /\ Remains(s, X, t) /\ key \in DOMAIN s.entries \ X
      /\ E \cup {key} \in SUBSET DOMAIN s.entries /\ Cardinality(E \cup {key}) = examined + 1
      /\ \A p \in 1..n : q[p] = key <=> p = j + 1
  <2>1. Meets(s, t, q, m, i, examined, E, j, key)
    BY <1>1, ScanMeets, Zenon
  <2> QED
    BY <2>1, Zenon DEF Meets
<1>3. /\ examined \in Nat /\ Sound(s) /\ IsStore(s) /\ t = Erase(s, X)
      /\ X \in SUBSET DOMAIN s.entries
  BY <1>1, ExpiredEntries, Zenon DEF Scanning, Scanned, Sound
<1>4. \A p \in 1..n : q[p] \in E <=> p \in Window(i, c, n)
  BY <1>1, Zenon DEF Scanned
<1>5. u = Erase(s, Expired(s, E \cup {key}, m))
  <2>1. IsExpired(s.entries[key], m) /\ key \in DOMAIN s.entries /\ key \notin X
    BY <1>2, Zenon DEF Remains
  <2>2. IsStore(s) /\ t = Erase(s, Expired(s, E, m))
    BY <1>3, Zenon
  <2> HIDE DEF key
  <2> QED
    BY <2>1, <2>2, ErasesExpired
<1>6. /\ Len(r) = n - 1
      /\ \A p \in 1..((j + 1) - 1) : r[p] = q[p]
      /\ \A p \in (j + 1)..(n - 1) : r[p] = q[p + 1]
  BY Zenon DEF Removed
<1>7. (n - 1) + (examined + 1) - N = c /\ j \in 0..(n - 1)
      /\ examined + 1 \in Nat /\ examined + 1 <= max_samples
  BY <1>2, <1>3
<1> HIDE DEF n, N, c, key, X
<1>8. /\ \A p \in 1..j : p \in Window(j, c, n - 1) <=> p \in Window(i, c, n)
      /\ \A p \in (j + 1)..(n - 1) : p \in Window(j, c, n - 1) <=> p + 1 \in Window(i, c, n)
  BY <1>2, WindowGrows, Zenon DEF n
<1>9. \A p \in 1..(n - 1) : r[p] \in E \cup {key} <=> p \in Window(j, c, n - 1)
  <2> TAKE p \in 1..(n - 1)
  <2>1. CASE p <= j
    <3>1. p \in 1..j /\ p \in 1..((j + 1) - 1) /\ p \in 1..n /\ p # j + 1
      BY <1>2, <2>1
    <3> QED
      BY <1>2, <1>4, <1>6, <1>8, <3>1, Zenon
  <2>2. CASE ~(p <= j)
    <3>1. p \in (j + 1)..(n - 1) /\ p + 1 \in 1..n /\ p + 1 # j + 1
      BY <1>2, <2>2
    <3> QED
      BY <1>2, <1>4, <1>6, <1>8, <3>1, Zenon
  <2> QED
    BY <2>1, <2>2, Zenon
<1>10. Scanned(s, u, r, m, j, examined + 1, E \cup {key})
  BY <1>2, <1>5, <1>6, <1>7, <1>9, Zenon DEF Scanned, N
<1>11. Scanning(s, u, r, m, j, examined + 1)
  BY <1>2, <1>3, <1>6, <1>7, <1>10, Zenon DEF Scanning, N
<1> QED
  BY <1>11, Zenon DEF key

(* A scan that may not go on has examined what ActiveExpire examines. *)
LEMMA ScanEnds ==
    ASSUME NEW s, NEW t, NEW q, NEW m, NEW i, NEW examined, Scanning(s, t, q, m, i, examined),
           max_samples \in Nat, Len(q) \in Nat,
           Len(q) = 0 \/ ~(examined < max_samples) \/ ~(examined < Cardinality(DOMAIN s.entries))
    PROVE  t \in ActiveExpire(s, max_samples, m)
<1> DEFINE n == Len(q)
           N == Cardinality(DOMAIN s.entries)
<1>1. /\ IsStore(s) /\ examined \in Nat /\ examined <= max_samples /\ n + examined - N \in 0..n
  BY Zenon DEF Scanning, Sound
<1>2. PICK E \in SUBSET DOMAIN s.entries : Scanned(s, t, q, m, i, examined, E)
  BY Zenon DEF Scanning
<1>3. N \in Nat
  BY <1>1, EntriesFinite, Zenon
<1> HIDE DEF n, N
<1>4. examined = IF N < max_samples THEN N ELSE max_samples
  BY <1>1, <1>3 DEF n, N
<1>5. E \in kSubset(IF N < max_samples THEN N ELSE max_samples, DOMAIN s.entries)
  BY <1>2, <1>4, Zenon DEF Scanned, kSubset
<1>6. t = Erase(s, Expired(s, E, m))
  BY <1>2, Zenon DEF Scanned
<1> QED
  BY <1>5, <1>6, Zenon DEF ActiveExpire, N

(* A loop in progress is the loop of MakeRoom, or a scan. *)
InRoom(l, t) ==
    /\ l.op = "MakeRoom"
    /\ l = [op |-> "MakeRoom", original |-> l.original, key |-> l.key, value |-> l.value,
            projected |-> l.projected]
    /\ Evicting(l.original, t, l.key, l.value, l.projected)

InScan(l, t, q) ==
    /\ l.op = "ActiveExpire"
    /\ l = [op |-> "ActiveExpire", original |-> l.original, now |-> l.now, examined |-> l.examined,
            skip |-> l.skip, iterator |-> l.iterator]
    /\ l.skip \in Nat
    /\ Scanning(l.original, t, q, l.now, l.iterator, l.examined)

InLoop(l, t, q) == l = NoLoop \/ InRoom(l, t) \/ InScan(l, t, q)

(* What the loops are in between their iterations. *)
LoopsInv ==
    /\ Sound(table) /\ IsOrder(order, DOMAIN table.entries) /\ expire_scan_offset_ \in Nat
    /\ InLoop(loop, table, order)

(* Where a scan begins, nothing has been examined. *)
LEMMA ScanBegins ==
    ASSUME NEW s, Sound(s), NEW q, IsOrder(q, DOMAIN s.entries), expire_scan_offset_ \in Nat,
           NEW l, l = StartOfScan(s, q)
    PROVE  InLoop(l, s, q)
<1>1. CASE q = <<>>
  BY <1>1, Zenon DEF StartOfScan, InLoop
<1>2. CASE q # <<>>
  <2> DEFINE i == expire_scan_offset_ % Len(q)
  <2>1. Len(q) \in Nat /\ Len(q) # 0
    <3>1. q \in Seq(DOMAIN s.entries) /\ Len(q) \in Nat
      BY Zenon DEF IsOrder
    <3> QED
      BY <1>2, <3>1, EmptySeq, Zenon
  <2>2. i \in 0..Len(q) /\ i \in Nat
    BY <2>1
  <2> HIDE DEF i
  <2>3. l = [op |-> "ActiveExpire", original |-> s, now |-> clock, examined |-> 0,
             skip |-> i, iterator |-> i]
    BY <1>2, Zenon DEF StartOfScan, i
  <2>4. /\ l.op = "ActiveExpire" /\ l.original = s /\ l.now = clock /\ l.examined = 0
        /\ l.skip = i /\ l.iterator = i
    BY <2>3
  <2>5. Scanning(s, s, q, clock, i, 0)
    <3>1. max_samples \in Nat
      BY LoopsAssumption, Zenon
    <3> QED
      BY <2>2, <3>1, ScanStarts, Zenon
  <2>6. InScan(l, s, q)
    BY <2>2, <2>3, <2>4, <2>5, Zenon DEF InScan
  <2> QED
    BY <2>6, Zenon DEF InLoop
<1> QED
  BY <1>1, <1>2, Zenon

(* The place of a key in the order. *)
LEMMA PlaceOf ==
    ASSUME NEW D, NEW q, IsOrder(q, D), NEW k \in D, NEW i, i = CHOOSE j \in DOMAIN q : q[j] \in {k}
    PROVE  i \in 1..Len(q) /\ q[i] = k
<1>1. \E j \in DOMAIN q : q[j] \in {k}
  BY Zenon DEF IsOrder
<1>2. i \in DOMAIN q /\ q[i] \in {k}
  BY <1>1, Zenon
<1> QED
  BY <1>2, Zenon DEF IsOrder

(* Erasing a key, or none, from the table and the order of it. *)
LEMMA KeysErased ==
    ASSUME Sound(table), IsOrder(order, DOMAIN table.entries), NEW K,
           K = {} \/ \E k \in DOMAIN table.entries : K = {k}, EraseKeys(K)
    PROVE  /\ Sound(table') /\ IsOrder(order', DOMAIN table'.entries)
           /\ table' = Erase(table, K)
           /\ K = {} => table' = table /\ order' = order
           /\ \A k \in DOMAIN table.entries : K = {k} =>
                \E i \in 1..Len(order) : order[i] = k /\ Removed(order, i, order')
<1>1. table' = Erase(table, K) /\ order' = OrderWithout(K) /\ IsStore(table)
  BY Zenon DEF EraseKeys, Sound
<1>2. CASE K = {}
  <2>1. table' = table /\ order' = order
    BY <1>1, <1>2, EraseNothing, Zenon DEF OrderWithout
  <2> QED
    BY <1>1, <1>2, <2>1, Zenon
<1>3. ASSUME NEW k \in DOMAIN table.entries, K = {k}
      PROVE  /\ Sound(table') /\ IsOrder(order', DOMAIN table'.entries)
             /\ \E i \in 1..Len(order) : order[i] = k /\ Removed(order, i, order')
  <2> DEFINE i == CHOOSE j \in DOMAIN order : order[j] \in {k}
  <2>1. order' = CutOut(order, i)
    BY <1>1, <1>3, Zenon DEF OrderWithout, Size, CutOut
  <2>2. i \in 1..Len(order) /\ order[i] = k
    BY PlaceOf
  <2> HIDE DEF i
  <2>3. IsOrder(order', DOMAIN table.entries \ {k})
    <3>1. IsOrder(order', DOMAIN table.entries \ {order[i]})
      BY <2>1, <2>2, OrderShrinks, Zenon
    <3> QED
      BY <2>2, <3>1, Zenon
  <2>4. Removed(order, i, order')
    <3>1. order \in Seq(DOMAIN table.entries)
      BY Zenon DEF IsOrder
    <3> QED
      BY <2>1, <2>2, <3>1, RemovedParts, Zenon
  <2>5. K \in SUBSET DOMAIN table.entries
    BY <1>3, Zenon
  <2>6. Remains(table, K, table')
    BY <1>1, <2>5, EraseRemains, Zenon
  <2>7. DOMAIN table'.entries = DOMAIN table.entries \ {k}
    BY <1>3, <2>6, Zenon DEF Remains
  <2>8. Sound(table')
    BY <1>1, <2>5, EraseFollows, Zenon DEF Follows
  <2> QED
    BY <2>2, <2>3, <2>4, <2>7, <2>8, Zenon
<1> QED
  BY <1>1, <1>2, <1>3, Zenon

(* A write begins. *)
LEMMA BeginSetStep ==
    ASSUME LoopsInv, NEW key \in Keys, NEW value \in Values, BeginSet(key, value)
    PROVE  LoopsInv'
<1> DEFINE K == Expired(table, {key}, clock)
<1>1. K = {} \/ \E k \in DOMAIN table.entries : K = {k}
  <2>1. K \in SUBSET DOMAIN table.entries /\ K \in SUBSET {key}
    BY Zenon DEF Expired
  <2> HIDE DEF K
  <2> QED
    BY <2>1
<1>2. EraseKeys(K) /\ UNCHANGED expire_scan_offset_
  BY Zenon DEF BeginSet
<1>3. Sound(table) /\ IsOrder(order, DOMAIN table.entries) /\ expire_scan_offset_ \in Nat
  BY Zenon DEF LoopsInv
<1> HIDE DEF K
<1>4. Sound(table') /\ IsOrder(order', DOMAIN table'.entries)
  BY <1>1, <1>2, <1>3, KeysErased, Zenon
<1>5. value \in Text
  BY LoopsAssumption, Zenon
<1>6. table'.maxmemory = table.maxmemory
  <2>1. table' = Erase(table, K) /\ K \in SUBSET DOMAIN table.entries
    BY <1>1, <1>2, Zenon DEF EraseKeys
  <2> QED
    BY <1>3, <2>1, EraseFollows, Zenon DEF Follows
<1>7. CASE EntryBytes(key, value) > table.maxmemory
  <2>1. loop' = StartOfScan(table', order')
    BY <1>7, Zenon DEF BeginSet
  <2>2. InLoop(loop', table', order')
    BY <1>3, <1>4, <2>1, ScanBegins, Zenon
  <2> QED
    BY <1>2, <1>3, <1>4, <2>2, Zenon DEF LoopsInv
<1>8. CASE ~(EntryBytes(key, value) > table.maxmemory)
  <2> DEFINE n == Projected(table', key, value)
  <2>1. loop' = [op |-> "MakeRoom", original |-> table', key |-> key, value |-> value,
                 projected |-> n]
    BY <1>8, Zenon DEF BeginSet, Projected
  <2>2. EntryBytes(key, value) <= table'.maxmemory
    <3>1. EntryBytes(key, value) \in Nat /\ table.maxmemory \in Nat
      BY <1>3, <1>5, EntryBytesType, Zenon DEF Sound, IsStore
    <3> QED
      BY <1>6, <1>8, <3>1
  <2>3. Evicting(table', table', key, value, n)
    BY <1>4, <1>5, <2>2, EvictingStarts, Zenon
  <2> HIDE DEF n
  <2>4. /\ loop'.op = "MakeRoom" /\ loop'.original = table' /\ loop'.key = key
        /\ loop'.value = value /\ loop'.projected = n
    BY <2>1
  <2>5. InRoom(loop', table')
    BY <2>1, <2>3, <2>4, Zenon DEF InRoom
  <2> QED
    BY <1>2, <1>3, <1>4, <2>5, Zenon DEF LoopsInv, InLoop
<1> QED
  BY <1>7, <1>8, Zenon

(* Which loop it is. *)
LEMMA LoopIs ==
    ASSUME LoopsInv
    PROVE  /\ loop.op = "MakeRoom" => InRoom(loop, table)
           /\ loop.op = "ActiveExpire" => InScan(loop, table, order)
<1>1. loop = NoLoop => loop.op = "none"
  BY DEF NoLoop
<1>2. InRoom(loop, table) => loop.op = "MakeRoom"
  BY Zenon DEF InRoom
<1>3. InScan(loop, table, order) => loop.op = "ActiveExpire"
  BY Zenon DEF InScan
<1>4. loop = NoLoop \/ InRoom(loop, table) \/ InScan(loop, table, order)
  BY Zenon DEF LoopsInv, InLoop
<1> QED
  BY <1>1, <1>2, <1>3, <1>4

(* A victim goes. *)
LEMMA EvictStep ==
    ASSUME LoopsInv, Evict
    PROVE  LoopsInv'
<1>1. InRoom(loop, table) /\ Full /\ table.policy # "noeviction" /\ UNCHANGED expire_scan_offset_
  BY LoopIs, Zenon DEF Evict, NoVictim
<1>2. PICK v \in SelectVictim :
         EraseKeys({v}) /\ loop' = [loop EXCEPT !.projected = @ - BytesOf(table, {v})]
  BY Zenon DEF Evict
<1>3. /\ v \in DOMAIN table.entries \ {loop.key}
      /\ \A k \in DOMAIN table.entries \ {loop.key} : Rank(table, v) <= Rank(table, k)
  BY <1>2, Zenon DEF SelectVictim, Candidates
<1>4. Sound(table) /\ IsOrder(order, DOMAIN table.entries) /\ expire_scan_offset_ \in Nat
  BY Zenon DEF LoopsInv
<1> DEFINE K == {v}
           n == loop.projected - BytesOf(table, K)
<1>5. K = {} \/ \E k \in DOMAIN table.entries : K = {k}
  BY <1>3, Zenon
<1>6. Evicting(loop.original, Erase(table, K), loop.key, loop.value, n)
  <2>1. Evicting(loop.original, table, loop.key, loop.value, loop.projected)
        /\ loop.projected > table.maxmemory
    BY <1>1, Zenon DEF InRoom, Full
  <2> QED
    BY <1>1, <1>3, <2>1, EvictingGoesOn, Zenon
<1>7. EraseKeys(K) /\ loop' = [loop EXCEPT !.projected = n]
  BY <1>2, Zenon
<1> HIDE DEF K, n
<1>8. Sound(table') /\ IsOrder(order', DOMAIN table'.entries) /\ table' = Erase(table, K)
  BY <1>4, <1>5, <1>7, KeysErased, Zenon
<1>9. loop = [op |-> "MakeRoom", original |-> loop.original, key |-> loop.key,
              value |-> loop.value, projected |-> loop.projected]
  BY <1>1, Zenon DEF InRoom
<1>10. /\ loop' = [op |-> "MakeRoom", original |-> loop.original, key |-> loop.key,
                   value |-> loop.value, projected |-> n]
  BY <1>7, <1>9
<1>11. /\ loop'.op = "MakeRoom" /\ loop'.original = loop.original /\ loop'.key = loop.key
       /\ loop'.value = loop.value /\ loop'.projected = n
  BY <1>10
<1>12. InRoom(loop', table')
  BY <1>6, <1>8, <1>10, <1>11, Zenon DEF InRoom
<1> QED
  BY <1>1, <1>4, <1>8, <1>12, Zenon DEF LoopsInv, InLoop

(* A write is stored or refused, and a scan begins. *)
LEMMA EndSetStep ==
    ASSUME LoopsInv, EndSet
    PROVE  LoopsInv'
<1>1. InRoom(loop, table) /\ UNCHANGED expire_scan_offset_ /\ loop' = StartOfScan(table', order')
  BY LoopIs, Zenon DEF EndSet
<1>2. Sound(table) /\ IsOrder(order, DOMAIN table.entries) /\ expire_scan_offset_ \in Nat
  BY Zenon DEF LoopsInv
<1>3. Sound(table') /\ IsOrder(order', DOMAIN table'.entries)
  <2>1. CASE Full
    BY <1>2, <2>1, Zenon DEF EndSet
  <2>2. CASE ~Full
    <3> DEFINE key == loop.key
    <3>1. /\ table' = Put(table, key, loop.value, Never)
          /\ IF Has(table, key) THEN UNCHANGED order
             ELSE order' \in Orders(table')
      BY <2>2, Zenon DEF EndSet
    <3>2. /\ Evicting(loop.original, table, key, loop.value, loop.projected)
          /\ ~(loop.projected > table.maxmemory)
      BY <1>1, <2>2, Zenon DEF InRoom, Full
    <3>3. Sound(table') /\ DOMAIN table'.entries = DOMAIN table.entries \cup {key}
      BY <3>1, <3>2, EvictingStores
    <3> HIDE DEF key
    <3>4. CASE key \in DOMAIN table.entries
      <4>1. order' = order /\ DOMAIN table'.entries = DOMAIN table.entries
        BY <3>1, <3>3, <3>4, Zenon DEF Has
      <4> QED
        BY <1>2, <3>3, <4>1, Zenon
    <3>5. CASE key \notin DOMAIN table.entries
      BY <3>1, <3>3, <3>5, OrdersAreOrders, Zenon DEF Has
    <3> QED
      BY <3>4, <3>5, Zenon
  <2> QED
    BY <2>1, <2>2, Zenon
<1>4. InLoop(loop', table', order')
  BY <1>1, <1>2, <1>3, ScanBegins, Zenon
<1> QED
  BY <1>1, <1>2, <1>3, <1>4, Zenon DEF LoopsInv

(* An idle shard begins a scan. *)
LEMMA BeginScanStep ==
    ASSUME LoopsInv, BeginScan
    PROVE  LoopsInv'
<1>1. /\ loop' = StartOfScan(table, order) /\ table' = table /\ order' = order
      /\ expire_scan_offset_' = expire_scan_offset_
  BY Zenon DEF BeginScan
<1>2. Sound(table) /\ IsOrder(order, DOMAIN table.entries) /\ expire_scan_offset_ \in Nat
  BY Zenon DEF LoopsInv
<1>3. InLoop(loop', table, order)
  BY <1>1, <1>2, ScanBegins, Zenon
<1> QED
  BY <1>1, <1>2, <1>3, Zenon DEF LoopsInv

(* A scan that is not at its end. *)
LEMMA MoreLeft ==
    ASSUME LoopsInv, MoreToExamine, loop.op = "ActiveExpire"
    PROVE  /\ Len(order) # 0 /\ loop.examined < max_samples /\ max_samples \in Nat
           /\ loop.examined < Cardinality(DOMAIN loop.original.entries)
<1>1. order \in Seq(DOMAIN table.entries) /\ order # <<>>
  BY Zenon DEF LoopsInv, IsOrder, MoreToExamine
<1>2. Len(order) # 0
  BY <1>1, EmptySeq, Zenon
<1> QED
  BY <1>2, LoopsAssumption, Zenon DEF MoreToExamine

(* The local variables of a scan that goes on. *)
LEMMA ScanGoesOn ==
    ASSUME NEW a, NEW b, NEW c, NEW d, NEW e, NEW x, NEW i,
           NEW l, l = [op |-> "ActiveExpire", original |-> a, now |-> b, examined |-> c,
                       skip |-> d, iterator |-> e],
           NEW m, m = [l EXCEPT !.iterator = i, !.examined = x]
    PROVE  m = [op |-> "ActiveExpire", original |-> a, now |-> b, examined |-> x,
                skip |-> d, iterator |-> i]
<1> DEFINE k == [l EXCEPT !.iterator = i]
<1>1. k = [op |-> "ActiveExpire", original |-> a, now |-> b, examined |-> c,
           skip |-> d, iterator |-> i]
  OBVIOUS
<1>2. m = [k EXCEPT !.examined = x]
  OBVIOUS
<1> HIDE DEF k
<1> QED
  BY <1>1, <1>2, Zenon

(* An entry is examined. *)
LEMMA ExamineStep ==
    ASSUME LoopsInv, Examine
    PROVE  LoopsInv'
<1> DEFINE j == Wrapped(loop.iterator, Len(order))
           key == order[j + 1]
           gone == IsExpired(table.entries[key], loop.now)
           K == IF gone THEN {key} ELSE {}
           i == IF gone THEN j ELSE j + 1
           s == loop.original
<1>1. InScan(loop, table, order) /\ UNCHANGED expire_scan_offset_ /\ MoreToExamine
  BY LoopIs, Zenon DEF Examine
<1>2. /\ EraseKeys(K)
      /\ loop' = [loop EXCEPT !.iterator = i, !.examined = loop.examined + 1]
  BY Zenon DEF Examine, Wrapped, Size, Examined
<1>3. Sound(table) /\ IsOrder(order, DOMAIN table.entries) /\ expire_scan_offset_ \in Nat
  BY Zenon DEF LoopsInv
<1>4. Scanning(s, table, order, loop.now, loop.iterator, loop.examined) /\ loop.skip \in Nat
  BY <1>1, Zenon DEF InScan
<1>5. /\ Len(order) # 0 /\ loop.examined < max_samples /\ max_samples \in Nat
      /\ loop.examined < Cardinality(DOMAIN s.entries)
  BY <1>1, MoreLeft, Zenon DEF Examine
<1>6. key \in DOMAIN table.entries /\ j + 1 \in 1..Len(order)
  <2>1. PICK E : Scanned(s, table, order, loop.now, loop.iterator, loop.examined, E)
    BY <1>4, Zenon DEF Scanning
  <2>2. Meets(s, table, order, loop.now, loop.iterator, loop.examined, E, j, key)
    BY <1>3, <1>4, <1>5, <2>1, ScanMeets, Zenon
  <2>3. key \in DOMAIN table.entries /\ j \in 0..(Len(order) - 1) /\ Len(order) \in Nat
    BY <1>3, <2>2, Zenon DEF Meets, IsOrder
  <2> HIDE DEF j
  <2>4. j + 1 \in 1..Len(order)
    BY <2>3
  <2> QED
    BY <2>3, <2>4, Zenon
<1> HIDE DEF j
<1>7. K = {} \/ \E k \in DOMAIN table.entries : K = {k}
  BY <1>6, Zenon
<1>8. /\ Sound(table') /\ IsOrder(order', DOMAIN table'.entries) /\ table' = Erase(table, K)
      /\ K = {} => table' = table /\ order' = order
      /\ \A k \in DOMAIN table.entries : K = {k} =>
            \E p \in 1..Len(order) : order[p] = k /\ Removed(order, p, order')
  <2> HIDE DEF K
  <2> QED
    BY <1>2, <1>3, <1>7, KeysErased, Zenon
<1>9. Scanning(s, table', order', loop.now, i, loop.examined + 1)
  <2>1. CASE gone
    <3>1. PICK p \in 1..Len(order) : order[p] = key /\ Removed(order, p, order')
      BY <1>6, <1>8, <2>1, Zenon
    <3>2. p = j + 1
      BY <1>3, <1>6, <3>1, Zenon DEF IsOrder
    <3>3. Scanning(s, Erase(table, {key}), order', loop.now, j, loop.examined + 1)
      BY <1>3, <1>4, <1>5, <2>1, <3>1, <3>2, ScanRemoves, Zenon DEF j
    <3> QED
      BY <1>8, <2>1, <3>3, Zenon
  <2>2. CASE ~gone
    <3>1. Scanning(s, table, order, loop.now, j + 1, loop.examined + 1)
      BY <1>3, <1>4, <1>5, <2>2, ScanKeeps, Zenon DEF j
    <3> QED
      BY <1>8, <2>2, <3>1, Zenon
  <2> QED
    BY <2>1, <2>2, Zenon
<1> HIDE DEF i, s
<1> DEFINE x == loop.examined + 1
<1> HIDE DEF x
<1>10. loop = [op |-> "ActiveExpire", original |-> loop.original, now |-> loop.now,
               examined |-> loop.examined, skip |-> loop.skip, iterator |-> loop.iterator]
  BY <1>1, Zenon DEF InScan
<1>11. loop' = [op |-> "ActiveExpire", original |-> loop.original, now |-> loop.now,
                examined |-> x, skip |-> loop.skip, iterator |-> i]
  <2>1. loop' = [loop EXCEPT !.iterator = i, !.examined = x]
    BY <1>2, Zenon DEF x
  <2> DEFINE a == loop.original
             b == loop.now
             c == loop.examined
             d == loop.skip
             e == loop.iterator
  <2>2. loop = [op |-> "ActiveExpire", original |-> a, now |-> b, examined |-> c,
                skip |-> d, iterator |-> e]
    BY <1>10, Zenon
  <2> HIDE DEF a, b, c, d, e
  <2>3. loop' = [op |-> "ActiveExpire", original |-> a, now |-> b, examined |-> x,
                 skip |-> d, iterator |-> i]
    BY <2>1, <2>2, ScanGoesOn, Zenon
  <2> QED
    BY <2>3, Zenon DEF a, b, d
<1>12. /\ loop'.op = "ActiveExpire" /\ loop'.original = loop.original /\ loop'.now = loop.now
       /\ loop'.examined = x /\ loop'.skip = loop.skip /\ loop'.iterator = i
  BY <1>11
<1>13. InScan(loop', table', order')
  BY <1>4, <1>9, <1>11, <1>12, Zenon DEF InScan, x, s
<1> QED
  BY <1>1, <1>3, <1>8, <1>13, Zenon DEF LoopsInv, InLoop

(* A scan ends. *)
LEMMA EndScanStep ==
    ASSUME LoopsInv, EndScan
    PROVE  LoopsInv'
<1>1. /\ table' = table /\ order' = order /\ loop' = NoLoop /\ expire_scan_offset_' = NextOffset
      /\ InScan(loop, table, order)
  BY LoopIs, Zenon DEF EndScan
<1>2. Sound(table) /\ IsOrder(order, DOMAIN table.entries)
  BY Zenon DEF LoopsInv
<1>3. NextOffset \in Nat
  <2>1. /\ order \in Seq(DOMAIN table.entries) /\ Len(order) \in Nat
        /\ loop.skip \in Nat /\ loop.examined \in Nat
    BY <1>1, <1>2, Zenon DEF IsOrder, InScan, Scanning
  <2>2. order # <<>> => Len(order) # 0
    BY <2>1, EmptySeq, Zenon
  <2> QED
    BY <2>1, <2>2 DEF NextOffset, Size
<1> QED
  BY <1>1, <1>2, <1>3, Zenon DEF LoopsInv, InLoop

(* The clock and what comes from outside change no loop. *)
LEMMA ClockStep ==
    ASSUME LoopsInv, ClockTick \/ UNCHANGED loopVars
    PROVE  LoopsInv'
<1>1. /\ table' = table /\ order' = order /\ loop' = loop
      /\ expire_scan_offset_' = expire_scan_offset_
  BY Zenon DEF ClockTick, loopVars
<1> QED
  BY <1>1, Zenon DEF LoopsInv

(* The invariant holds at the start. *)
LEMMA LoopsStart ==
    ASSUME LoopInit
    PROVE  LoopsInv
<1>1. Sound(table) /\ loop = NoLoop /\ order \in Orders(table) /\ expire_scan_offset_ = 0
  BY LoopsAssumption, Zenon DEF LoopInit
<1>3. IsOrder(order, DOMAIN table.entries)
  BY <1>1, OrdersAreOrders, Zenon
<1>4. expire_scan_offset_ \in Nat
  BY <1>1
<1> QED
  BY <1>1, <1>3, <1>4, Zenon DEF LoopsInv, InLoop

(* Every iteration keeps it. *)
LEMMA LoopsStep ==
    ASSUME LoopsInv, [LoopNext]_loopVars
    PROVE  LoopsInv'
<1>1. ASSUME NEW key \in Keys, NEW value \in Values, BeginSet(key, value)
      PROVE  LoopsInv'
  BY <1>1, BeginSetStep, Zenon
<1>2. CASE ClockTick \/ UNCHANGED loopVars
  BY <1>2, ClockStep, Zenon
<1>3. CASE Evict
  BY <1>3, EvictStep, Zenon
<1>4. CASE EndSet
  BY <1>4, EndSetStep, Zenon
<1>5. CASE BeginScan
  BY <1>5, BeginScanStep, Zenon
<1>6. CASE Examine
  BY <1>6, ExamineStep, Zenon
<1>7. CASE EndScan
  BY <1>7, EndScanStep, Zenon
<1> QED
  BY <1>1, <1>2, <1>3, <1>4, <1>5, <1>6, <1>7, Zenon DEF LoopNext

(* KvStore.cpp's loops, between two iterations: the table is sound, every  *)
(* entry has one place in the order of iteration, MakeRoom has taken       *)
(* entries of the lowest ranks, each while there was no room, and a scan   *)
(* has examined different entries, removed the expired ones among them,    *)
(* and has the others right before its iterator.                           *)
THEOREM LoopsAreInOrder == LoopSpec => []LoopsInv
<1>1. LoopInit => LoopsInv
  BY LoopsStart, Zenon
<1>2. LoopsInv /\ [LoopNext]_loopVars => LoopsInv'
  BY LoopsStep, Zenon
<1> QED
  BY <1>1, <1>2, PTL DEF LoopSpec

(* KvStore::MakeRoom ends with a set of victims that KvStore's MakeRoom    *)
(* allows, or, without having taken any, where it allows none.             *)
THEOREM EvictionIsMakeRoom == LoopSpec => []LoopIsMakeRoom
<1>1. ASSUME LoopsInv PROVE LoopIsMakeRoom
  <2>1. SUFFICES ASSUME loop.op = "MakeRoom"
                 PROVE  LET taken == DOMAIN loop.original.entries \ DOMAIN table.entries
                            allowed == MakeRoom(loop.original,
                                         Projected(loop.original, loop.key, loop.value), loop.key)
                        IN /\ ~Full => taken \in allowed
                           /\ Full /\ NoVictim => taken = {} /\ allowed = {}
    BY Zenon DEF LoopIsMakeRoom, Projected
  <2>2. Evicting(loop.original, table, loop.key, loop.value, loop.projected)
    BY <1>1, <2>1, LoopIs, Zenon DEF InRoom
  <2>3. CASE ~Full
    <3>1. ~(loop.projected > table.maxmemory)
      BY <2>3, Zenon DEF Full
    <3> QED
      BY <2>2, <2>3, <3>1, EvictingSucceeds, Zenon
  <2>4. CASE Full /\ NoVictim
    <3>1. /\ loop.projected > table.maxmemory
          /\ \/ table.policy = "noeviction"
             \/ ~\E v \in DOMAIN table.entries \ {loop.key} :
                   \A k \in DOMAIN table.entries \ {loop.key} : Rank(table, v) <= Rank(table, k)
      BY <2>4, Zenon DEF Full, NoVictim, SelectVictim, Candidates
    <3> QED
      BY <2>2, <2>4, <3>1, EvictingFails, Zenon
  <2> QED
    BY <2>3, <2>4, Zenon
<1> QED
  BY <1>1, LoopsAreInOrder, PTL

(* KvStore::ActiveExpire, which erases under its iterator, ends with a     *)
(* store that KvStore's ActiveExpire allows: it has examined as many       *)
(* different entries as it may.                                            *)
THEOREM ExpiryIsActiveExpire == LoopSpec => []ScanIsActiveExpire
<1>1. ASSUME LoopsInv PROVE ScanIsActiveExpire
  <2>1. SUFFICES ASSUME loop.op = "ActiveExpire", ~MoreToExamine
                 PROVE  table \in ActiveExpire(loop.original, max_samples, loop.now)
    BY Zenon DEF ScanIsActiveExpire
  <2>2. Scanning(loop.original, table, order, loop.now, loop.iterator, loop.examined)
    BY <1>1, <2>1, LoopIs, Zenon DEF InScan
  <2>3. /\ order \in Seq(DOMAIN table.entries) /\ Len(order) \in Nat /\ max_samples \in Nat
    BY <1>1, LoopsAssumption, Zenon DEF LoopsInv, IsOrder
  <2>4. order = <<>> => Len(order) = 0
    BY <2>3, EmptySeq, Zenon
  <2>5. \/ Len(order) = 0 \/ ~(loop.examined < max_samples)
        \/ ~(loop.examined < Cardinality(DOMAIN loop.original.entries))
    BY <2>1, <2>4, Zenon DEF MoreToExamine
  <2> QED
    BY <2>2, <2>3, <2>5, ScanEnds, Zenon
<1> QED
  BY <1>1, LoopsAreInOrder, PTL
=============================================================================
