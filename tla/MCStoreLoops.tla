---------------------------- MODULE MCStoreLoops ----------------------------
(* An instance of StoreLoops for TLC. *)
EXTENDS StoreLoops

CONSTANTS a, b, c, d

MCIntMin == -1

MCKeySize == a :> 1 @@ b :> 2 @@ c :> 1 @@ d :> 1

MCTexts == {[int |-> NotInteger, size |-> 1], [int |-> NotInteger, size |-> 3]}

(* What is written may also be too large for the store. *)
MCWritten == MCTexts \cup {[int |-> NotInteger, size |-> 9]}

Store(entries, policy) ==
    LET s == [EmptyStore(10, policy) EXCEPT !.entries = entries, !.access_clock = 4]
    IN [s EXCEPT !.memory_usage = BytesOf(s, DOMAIN entries)]

(* Stores as they can be, for the eviction: entries of different sizes,    *)
(* times of access and frequencies.                                        *)
Used ==
    {Store(entries, policy) : policy \in Policies, entries \in
        {e \in UNION {[K -> [value : MCTexts, expires_at : {Never}, last_access : 1..3,
                             frequency : 1..2]] : K \in SUBSET {a, b, c}} :
            \A j, k \in DOMAIN e : e[j].last_access = e[k].last_access => j = k}}

(* And for the scan: entries that have expired, will expire or never do. *)
Expiring ==
    {Store(entries, "lru") : entries \in
        [{a, b, c, d} -> [value : {[int |-> NotInteger, size |-> 0]}, expires_at : {0, 1, Never},
                          last_access : {1}, frequency : {1}]]}

MCStores == {s \in Used \cup Expiring : s.memory_usage <= s.maxmemory}
=============================================================================
