------------------------ MODULE KvStoreMachineProofs ------------------------
(***************************************************************************)
(* One store under calls in any order: its memory, what a refused write    *)
(* leaves, how far away its deadlines are, and that it implements the map  *)
(* of CacheContract: action by action, then the whole.                     *)
(***************************************************************************)
EXTENDS KvStoreMachine, KvStoreProofs

(* Between two calls the store is sound. *)
StoreInv == Sound(store) /\ now \in Nat /\ now <= MaxNow

(* The requests the machine makes are well formed. *)
LEMMA RequestsType ==
    /\ \A r \in Requests : r.key \in Keys /\ r.value \in Text /\ r.ttl \in Int \cup {Never}
    /\ \A u \in Updates : \E K \in SUBSET Keys : K = DOMAIN u /\ u \in [K -> Text]
<1>1. ASSUME NEW r \in Requests
      PROVE  r.key \in Keys /\ r.value \in Text /\ r.ttl \in Int \cup {Never}
  <2>1. r.key \in Keys /\ r.value \in Texts /\ r.ttl \in Ttls \cup {Never}
    BY Zenon DEF Requests
  <2>2. Texts \subseteq Text /\ Ttls \subseteq Int
    BY CallsAssumption
  <2> QED
    BY <2>1, <2>2, Zenon
<1>2. ASSUME NEW u \in Updates
      PROVE  \E K \in SUBSET Keys : K = DOMAIN u /\ u \in [K -> Text]
  <2>1. PICK K \in SUBSET Keys : u \in [K -> Texts]
    BY Zenon DEF Updates
  <2>2. K = DOMAIN u /\ u \in [K -> Text]
    BY <2>1, CallsAssumption, Zenon
  <2> QED
    BY <2>2, Zenon
<1> QED
  BY <1>1, <1>2, Zenon

(* Every step leaves a sound store, with the options it was made with. *)
LEMMA StepFollows ==
    ASSUME StoreInv, Next
    PROVE  Follows(store, store') /\ StoreInv'
<1> USE DEF StoreInv
<1>0. Sound(store) /\ now \in Int /\ Follows(store, store)
  BY DEF Follows
<1>1. CASE Tick
  BY <1>0, <1>1, CallsAssumption DEF Tick, Follows
<1>2. CASE DoGet
  BY <1>0, <1>2, GetOutcome DEF DoGet, Call, Follows
<1>3. CASE DoSet
  <2>0. PICK r \in Requests : \E o \in Set(store, r, now) : store' = o.store /\ now' = now
    BY <1>3, Zenon DEF DoSet, Call
  <2>1. PICK o \in Set(store, r, now) : store' = o.store /\ now' = now
    BY <2>0, Zenon
  <2>2. Follows(store, o.store)
    BY <1>0, <2>1, RequestsType, SetFollows, Zenon
  <2> QED
    BY <2>1, <2>2, Zenon DEF Follows
<1>4. CASE DoMSet
  <2>0. PICK u \in Updates : \E o \in MSet(store, u) : store' = o.store /\ now' = now
    BY <1>4, Zenon DEF DoMSet, Call
  <2>1. PICK o \in MSet(store, u) : store' = o.store /\ now' = now
    BY <2>0, Zenon
  <2>2. o = Outcome(store, "kNoMemory", Nothing) \/ Follows(store, o.store)
    BY <1>0, <2>1, RequestsType, MSetOutcome, Zenon
  <2> QED
    BY <1>0, <2>1, <2>2 DEF Follows, Outcome
<1>5. CASE DoDelete
  BY <1>0, <1>5, DeleteOutcome DEF DoDelete, Call, Follows
<1>6. CASE DoExists
  BY <1>0, <1>6, ExistsOutcome DEF DoExists, Call, Follows, Outcome
<1>7. CASE DoExpire
  <2>0. PICK k \in Keys, ttl \in Ttls \cup {0} :
           \E o \in Expire(store, k, ttl, now) : store' = o.store /\ now' = now
    BY <1>7, Zenon DEF DoExpire, Call
  <2>1. PICK o \in Expire(store, k, ttl, now) : store' = o.store /\ now' = now
    BY <2>0, Zenon
  <2>2. ttl \in Int
    BY CallsAssumption
  <2>3. Follows(store, o.store)
    BY <1>0, <2>2, ExpireOutcome
  <2> QED
    BY <2>1, <2>3, Zenon DEF Follows
<1>8. CASE DoTtl
  BY <1>0, <1>8, TtlSecondsOutcome DEF DoTtl, Call, Follows, Outcome
<1>9. CASE DoIncrement
  <2>1. PICK k \in Keys, delta \in {1, -1}, later \in now..MaxNow :
           \E o \in Increment(store, k, delta, now, later) : store' = o.store /\ now' = later
    BY <1>9, Zenon DEF DoIncrement, Call
  <2>2. PICK o \in Increment(store, k, delta, now, later) : store' = o.store /\ now' = later
    BY <2>1, Zenon
  <2>3. delta \in Int /\ later \in Int /\ later \in Nat /\ later <= MaxNow
    BY CallsAssumption
  <2>4. Follows(store, o.store)
    BY <1>0, <2>3, IncrementOutcome
  <2> QED
    BY <2>2, <2>3, <2>4, Zenon DEF Follows
<1>10. CASE DoActiveExpire
  BY <1>0, <1>10, ActiveExpireFollows DEF DoActiveExpire, Follows
<1>11. CASE DoSnapshot
  <2>1. PICK later \in now..MaxNow : store' = Snapshot(store, now, later).store /\ now' = later
    BY <1>11, Zenon DEF DoSnapshot, Call
  <2>2. Follows(store, Snapshot(store, now, later).store)
    BY <1>0, SnapshotFollows, Zenon
  <2> QED
    BY <2>1, <2>2, CallsAssumption DEF Follows
<1>12. CASE DoClear
  BY <1>0, <1>12, ClearFollows DEF DoClear, Call, Follows, Outcome
<1> QED
  BY <1>1, <1>2, <1>3, <1>4, <1>5, <1>6, <1>7, <1>8, <1>9, <1>10, <1>11, <1>12 DEF Next

(* The invariant holds at the start and is kept. *)
LEMMA StoreInvHolds == Spec => []StoreInv
<1>1. Init => StoreInv
  BY OptionsAssumption, CallsAssumption, EmptyStoreSound DEF Init, StoreInv
<1>2. StoreInv /\ [Next]_vars => StoreInv'
  <2> SUFFICES ASSUME StoreInv, [Next]_vars PROVE StoreInv'
    BY Zenon
  <2>1. CASE Next
    BY <2>1, StepFollows, Zenon
  <2>2. CASE UNCHANGED vars
    BY <2>2, Zenon DEF vars, StoreInv
  <2> QED
    BY <2>1, <2>2, Zenon
<1> QED
  BY <1>1, <1>2, PTL DEF Spec

(* memory_usage_ is the sum of the bytes of the entries, whatever the      *)
(* keys, sizes, budget and policy, after any calls.                        *)
THEOREM MemoryAccounted == Spec => []MemoryAccounting
<1>1. StoreInv => MemoryAccounting
  BY Zenon DEF StoreInv, Sound, MemoryAccounting
<1> QED
  BY <1>1, StoreInvHolds, PTL

(* No mixture of writes, increments and evictions takes the store over     *)
(* maxmemory.                                                              *)
THEOREM MemoryStaysBounded == Spec => []MemoryBounded
<1>1. StoreInv => MemoryBounded
  BY Zenon DEF StoreInv, Sound, MemoryBounded
<1> QED
  BY <1>1, StoreInvHolds, PTL

----------------------------------------------------------------------------
(* The periodic scan is invisible. *)
LEMMA ActiveExpireStutters ==
    ASSUME StoreInv, DoActiveExpire
    PROVE  Visible(store', now') = Visible(store, now) /\ now' = now /\ reply' = reply
<1>1. PICK t \in ActiveExpire(store, Samples, now) : store' = t /\ now' = now /\ reply' = reply
  BY Zenon DEF DoActiveExpire
<1>2. PICK E \in SUBSET DOMAIN store.entries : t = Erase(store, Expired(store, E, now))
  BY ActiveExpireOutcome, Zenon
<1>3. /\ Expired(store, E, now) \in SUBSET DOMAIN store.entries
      /\ \A k \in Expired(store, E, now) : IsExpired(store.entries[k], now)
  BY Zenon DEF Expired
<1>4. Sound(store) /\ now \in Int /\ now <= now
  BY DEF StoreInv
<1>5. Visible(Erase(store, Expired(store, E, now)), now) = Visible(store, now)
  BY <1>3, <1>4, EraseExpiredVisible, Zenon
<1> QED
  BY <1>1, <1>2, <1>5, Zenon

(* The statuses of refused writes. *)
Refusals == {"kConditionFailed", "kNoMemory", "kNotInteger", "kOverflow"}

(* A step that ends with a refusal leaves the data clients see. *)
LEMMA RefusalStep ==
    ASSUME StoreInv, Next, reply'.status \in Refusals
    PROVE  Visible(store', now') = Visible(store, now')
<1> USE DEF StoreInv
<1>0. Sound(store) /\ now \in Int
  OBVIOUS
<1>1. CASE Tick \/ DoActiveExpire
  <2>1. CASE Tick
    BY <2>1, Zenon DEF Tick
  <2>2. CASE DoActiveExpire
    BY <2>2, ActiveExpireStutters, Zenon
  <2> QED
    BY <1>1, <2>1, <2>2, Zenon
<1>2. CASE DoSet
  <2>1. PICK r \in Requests :
           \E o \in Set(store, r, now) :
              store' = o.store /\ now' = now /\ reply'.status = o.status
    BY <1>2 DEF DoSet, Call
  <2>2. PICK o \in Set(store, r, now) :
           store' = o.store /\ now' = now /\ reply'.status = o.status
    BY <2>1, Zenon
  <2>3. o.status # "kOk" /\ now <= now
    BY <2>2 DEF Refusals
  <2>4. r.key \in Keys /\ r.value \in Text
    BY RequestsType, Zenon
  <2>5. Visible(o.store, now) = Visible(store, now)
    BY <1>0, <2>3, <2>4, RefusedSetVisible, Zenon
  <2> QED
    BY <2>2, <2>5, Zenon
<1>3. CASE DoMSet
  <2>1. PICK u \in Updates :
           \E o \in MSet(store, u) : store' = o.store /\ reply'.status = o.status
    BY <1>3 DEF DoMSet, Call
  <2>2. PICK o \in MSet(store, u) : store' = o.store /\ reply'.status = o.status
    BY <2>1, Zenon
  <2>3. o = Outcome(store, "kNoMemory", Nothing) \/ o.status = "kOk"
    BY <1>0, RequestsType, MSetOutcome
  <2> QED
    BY <2>2, <2>3 DEF Outcome, Refusals
<1>4. CASE DoIncrement
  <2>1. PICK k \in Keys, delta \in {1, -1}, later \in now..MaxNow :
           \E o \in Increment(store, k, delta, now, later) :
              store' = o.store /\ now' = later /\ reply'.status = o.status
    BY <1>4 DEF DoIncrement, Call
  <2>2. PICK o \in Increment(store, k, delta, now, later) :
           store' = o.store /\ now' = later /\ reply'.status = o.status
    BY <2>1, Zenon
  <2>3. delta \in Int /\ later \in Int /\ now <= later /\ later <= later
    BY CallsAssumption
  <2> DEFINE t == RemoveIfExpired(store, k, now)
             request == IncrementRequest(t, k, delta, now)
             current == IF Has(t, k) THEN t.entries[k].value.int ELSE 0
  <2>4. /\ Sound(t)
        /\ \/ o.store = t
           \/ o \in Set(t, request, later) /\ request.key = k /\ request.value \in Text
    BY <1>0, <2>3, IncrementOutcome DEF Outcome
  <2>5. Visible(t, later) = Visible(store, later)
    BY <1>0, <2>3, RemoveIfExpiredVisible
  <2> HIDE DEF t, request
  <2>6. o.store = t \/ Visible(o.store, later) = Visible(t, later)
    BY <2>2, <2>3, <2>4, RefusedSetVisible DEF Refusals
  <2> QED
    BY <2>2, <2>5, <2>6, Zenon
<1>5. CASE DoGet
  BY <1>0, <1>5, GetOutcome DEF DoGet, Call, Refusals
<1>6. CASE DoDelete
  BY <1>0, <1>6, DeleteOutcome DEF DoDelete, Call, Refusals
<1>7. CASE DoExists
  BY <1>0, <1>7, ExistsOutcome DEF DoExists, Call, Refusals, Outcome
<1>8. CASE DoExpire
  <2>1. PICK k \in Keys, ttl \in Ttls \cup {0} :
           \E o \in Expire(store, k, ttl, now) : reply'.status = o.status
    BY <1>8 DEF DoExpire, Call
  <2>2. ttl \in Int
    BY CallsAssumption
  <2> QED
    BY <1>0, <2>1, <2>2, ExpireOutcome DEF Refusals
<1>9. CASE DoTtl
  BY <1>0, <1>9, TtlSecondsOutcome DEF DoTtl, Call, Refusals, Outcome
<1>10. CASE DoSnapshot
  BY <1>0, <1>10, SnapshotFollows DEF DoSnapshot, Call, Refusals
<1>11. CASE DoClear
  BY <1>11 DEF DoClear, Call, Outcome, Refusals
<1> QED
  BY <1>1, <1>2, <1>3, <1>4, <1>5, <1>6, <1>7, <1>8, <1>9, <1>10, <1>11 DEF Next

(* Whatever the reason of the refusal, and even when the clock moves       *)
(* during the call, the clients see the same data after it as before.      *)
THEOREM RefusalsKeepData == Spec => RefusedWriteKeepsData
<1>1. StoreInv /\ [Next]_vars =>
         [reply'.status \in {"kConditionFailed", "kNoMemory", "kNotInteger", "kOverflow"} =>
             Visible(store', now') = Visible(store, now')]_vars
  BY RefusalStep, Zenon DEF Refusals
<1> QED
  BY <1>1, StoreInvHolds, PTL DEF Spec, RefusedWriteKeepsData

----------------------------------------------------------------------------
(* Deadlines. *)

(* The deadline of a Set that gives a time to live is in the future. *)
LEMMA DeadlineExact ==
    ASSUME DeadlinesFit, NEW m \in Nat, m <= MaxNow, NEW ttl \in Ttls
    PROVE  /\ After(m, ttl) = m + ttl * TicksPerMs
           /\ After(m, ttl) \in Int /\ After(m, ttl) > m
<1>1. ttl \in Nat \ {0} /\ TicksPerMs \in Nat \ {0} /\ MaxNow \in Nat /\ TimeHalf \in Nat
  BY CallsAssumption, KvStoreAssumption, Zenon
<1> DEFINE d == ttl * TicksPerMs
<1>2. d \in Nat \ {0} /\ MaxNow + d < TimeHalf
  BY <1>1 DEF DeadlinesFit
<1>3. m + d < TimeHalf
  <2> HIDE DEF d
  <2> QED
    BY <1>1, <1>2
<1>4. After(m, ttl) = m + d
  BY <1>1, <1>3, AfterExact, Zenon
<1> HIDE DEF d
<1>5. m + d \in Int /\ m + d > m
  BY <1>2
<1> QED
  BY <1>4, <1>5, Zenon DEF d

(* A deadline is no further away than a time to live clients may ask for. *)
WithinTtl(d, n) == d # Never => \E ttl \in Ttls : d <= n + ttl * TicksPerMs

(* No entry has a deadline that is too far away. *)
DeadlineInv == \A k \in DOMAIN store.entries : WithinTtl(store.entries[k].expires_at, now)

(* Time only brings deadlines nearer. *)
LEMMA WithinTtlLater ==
    ASSUME NEW d \in Int \cup {Never}, NEW m \in Int, NEW n \in Int, m <= n, WithinTtl(d, m)
    PROVE  WithinTtl(d, n)
<1>1. CASE d = Never
  BY <1>1, Zenon DEF WithinTtl
<1>2. CASE d # Never
  <2>1. PICK ttl \in Ttls : d <= m + ttl * TicksPerMs
    BY <1>2, Zenon DEF WithinTtl
  <2>2. ttl \in Int /\ TicksPerMs \in Int
    BY CallsAssumption, KvStoreAssumption
  <2>3. ttl * TicksPerMs \in Int
    BY <2>2
  <2>4. d <= n + ttl * TicksPerMs
    BY <1>2, <2>1, <2>3
  <2> QED
    BY <2>4, Zenon DEF WithinTtl
<1> QED
  BY <1>1, <1>2, Zenon

(* The deadline an increment at m gives a counter whose deadline was d,    *)
(* when Set reads the clock at n: the remaining time is cut to             *)
(* milliseconds, and counts from n.                                        *)
LEMMA CarriedDeadline ==
    ASSUME DeadlinesFit, NEW m \in Nat, NEW n \in Nat, m <= n, n <= MaxNow,
           NEW d \in Int, d > m, d # Never, WithinTtl(d, m),
           NEW e, e = Deadline(n, Millis(d - m))
    PROVE  /\ e \in Int
           /\ e > d - TicksPerMs
           /\ e <= d + (n - m)
           /\ e <= n => d < n + TicksPerMs
           /\ WithinTtl(e, n)
<1> DEFINE q == Millis(d - m)
           p == q * TicksPerMs
<1>1. TicksPerMs \in Nat \ {0} /\ TimeHalf \in Nat /\ MaxNow \in Nat
  BY KvStoreAssumption, CallsAssumption, Zenon
<1>2. q \in Int /\ p <= d - m /\ d - m < p + TicksPerMs /\ q >= 0
  <2>1. d - m \in Int /\ d - m >= 0
    OBVIOUS
  <2> QED
    BY <1>1, <2>1, Quotient, Zenon DEF Millis
<1> HIDE DEF q
<1>3. p \in Nat
  BY <1>1, <1>2
<1>4. PICK ttl \in Ttls : d <= m + ttl * TicksPerMs
  BY Zenon DEF WithinTtl
<1>5. ttl * TicksPerMs \in Nat /\ MaxNow + ttl * TicksPerMs < TimeHalf
  <2>1. ttl \in Nat
    BY CallsAssumption, Zenon
  <2> QED
    BY <1>1, <2>1 DEF DeadlinesFit
<1> HIDE DEF p
<1>6. n + p < TimeHalf
  BY <1>1, <1>2, <1>3, <1>4, <1>5
<1>7. e = n + p
  <2>1. q \in Nat /\ q # Never /\ q = Millis(d - m)
    BY <1>2, CallsAssumption DEF q
  <2>2. n + q * TicksPerMs < TimeHalf
    BY <1>6, Zenon DEF p
  <2>3. After(n, q) = n + q * TicksPerMs
    BY <2>1, <2>2, AfterExact, Zenon
  <2> QED
    BY <2>1, <2>3, Zenon DEF Deadline, p
<1>8. /\ e \in Int
      /\ e > d - TicksPerMs
      /\ e <= d + (n - m)
      /\ e <= n => d < n + TicksPerMs
  BY <1>1, <1>2, <1>3, <1>7
<1>9. e <= n + ttl * TicksPerMs
  BY <1>2, <1>3, <1>4, <1>5, <1>7
<1> QED
  BY <1>8, <1>9, Zenon DEF WithinTtl

(* What an increment that reads the clock at m and n makes of deadline d:  *)
(* the remaining time, counted from the second reading.                    *)
Carried(d, e, m, n) ==
    /\ d = Never => e = Never
    /\ d # Never => /\ e # Never
                    /\ e \in Int /\ d \in Int
                    /\ e > d - TicksPerMs
                    /\ e <= d + (n - m)
                    /\ e <= n => d < n + TicksPerMs

(* The deadline an increment leaves, when it is not refused. *)
LEMMA IncrementSet ==
    ASSUME NEW s, Sound(s), NEW m \in Nat, NEW n \in Nat, m <= n, n <= MaxNow, DeadlinesFit,
           \A j \in DOMAIN s.entries : WithinTtl(s.entries[j].expires_at, m),
           NEW k \in Keys, NEW delta \in Int,
           NEW t, t = RemoveIfExpired(s, k, m), Sound(t),
           NEW request, request = IncrementRequest(t, k, delta, m),
           request.value \in Text, request.ttl \in Int \cup {Never},
           NEW e, e = Deadline(n, request.ttl),
           NEW d, d = IF k \in DOMAIN Visible(s, m) THEN Visible(s, m)[k].expires_at ELSE Never
    PROVE  Carried(d, e, m, n) /\ WithinTtl(e, n)
<1>0. m \in Int /\ Never \notin Int
  BY CallsAssumption
<1>1. /\ k \in DOMAIN t.entries <=> k \in DOMAIN Visible(s, m)
      /\ k \in DOMAIN t.entries => ~IsExpired(t.entries[k], m)
      /\ k \in DOMAIN t.entries => k \in DOMAIN s.entries /\ t.entries[k] = s.entries[k]
  BY <1>0, RemoveIfExpiredVisible
<1>2. k \in DOMAIN t.entries => d = t.entries[k].expires_at
  BY <1>1, VisibleKeys
<1>3. k \notin DOMAIN t.entries => d = Never
  BY <1>1, Zenon
<1>4. CASE d = Never
  <2>1. request.ttl = Never
    BY <1>2, <1>4, Zenon DEF IncrementRequest, Has
  <2>2. e = Never
    BY <2>1, Zenon DEF Deadline
  <2> QED
    BY <1>4, <2>2, Zenon DEF WithinTtl, Carried
<1>5. CASE d # Never
  <2>1. k \in DOMAIN t.entries /\ d = t.entries[k].expires_at
    BY <1>2, <1>3, <1>5, Zenon
  <2>2. d \in Int \cup {Never}
    BY <2>1 DEF Sound, IsStore, Entry
  <2>3. d \in Int /\ d > m
    BY <1>0, <1>1, <1>5, <2>1, <2>2 DEF IsExpired
  <2>4. WithinTtl(d, m)
    BY <1>1, <2>1, Zenon
  <2>5. request.ttl = Millis(d - m)
    BY <1>5, <2>1, Zenon DEF IncrementRequest, Has
  <2>6. /\ e \in Int
        /\ e > d - TicksPerMs
        /\ e <= d + (n - m)
        /\ e <= n => d < n + TicksPerMs
        /\ WithinTtl(e, n)
    BY <1>5, <2>3, <2>4, <2>5, CarriedDeadline
  <2> QED
    BY <1>0, <1>5, <2>3, <2>6, Zenon DEF Carried
<1> QED
  BY <1>4, <1>5, Zenon

(* A store whose entries have old deadlines, or good new ones. *)
LEMMA DeadlinesKept ==
    ASSUME StoreInv, DeadlineInv, StoreInv', now <= now',
           \A k \in DOMAIN store'.entries :
              \/ /\ k \in DOMAIN store.entries
                 /\ store'.entries[k].expires_at = store.entries[k].expires_at
              \/ WithinTtl(store'.entries[k].expires_at, now')
    PROVE  DeadlineInv'
<1>1. ASSUME NEW k \in DOMAIN store'.entries
      PROVE  WithinTtl(store'.entries[k].expires_at, now')
  <2>1. CASE /\ k \in DOMAIN store.entries
             /\ store'.entries[k].expires_at = store.entries[k].expires_at
    <3>1. store.entries[k].expires_at \in Int \cup {Never}
      BY <2>1, Zenon DEF StoreInv, Sound, IsStore, Entry
    <3>2. WithinTtl(store.entries[k].expires_at, now) /\ now \in Int /\ now' \in Int
      BY <2>1 DEF DeadlineInv, StoreInv
    <3> QED
      BY <2>1, <3>1, <3>2, WithinTtlLater, Zenon
  <2> QED
    BY <2>1, Zenon
<1> QED
  BY <1>1, Zenon DEF DeadlineInv

(* No step makes a deadline that is too far away. *)
LEMMA DeadlineStep ==
    ASSUME StoreInv, DeadlineInv, DeadlinesFit, Next
    PROVE  DeadlineInv'
<1> DEFINE Old(k) == /\ k \in DOMAIN store.entries
                     /\ store'.entries[k].expires_at = store.entries[k].expires_at
           New(k) == WithinTtl(store'.entries[k].expires_at, now')
<1>0. /\ Sound(store) /\ now \in Int /\ now <= now /\ now \in Nat /\ now <= MaxNow
      /\ StoreInv'
  BY StepFollows DEF StoreInv
<1>1. SUFFICES now <= now' /\ \A k \in DOMAIN store'.entries : Old(k) \/ New(k)
  BY <1>0, DeadlinesKept, Zenon
<1>t. \A k : \A j \in DOMAIN RemoveIfExpired(store, k, now).entries :
         /\ j \in DOMAIN store.entries
         /\ RemoveIfExpired(store, k, now).entries[j] = store.entries[j]
  BY <1>0, RemoveIfExpiredVisible
<1>2. CASE Tick
  BY <1>0, <1>2 DEF Tick
<1>3. CASE DoGet \/ DoDelete \/ DoExists \/ DoTtl
  <2>1. now' = now /\ \E k : \A j \in DOMAIN store'.entries :
           /\ j \in DOMAIN RemoveIfExpired(store, k, now).entries
           /\ store'.entries[j].expires_at =
                 RemoveIfExpired(store, k, now).entries[j].expires_at
    <3>1. CASE DoGet
      BY <1>0, <3>1, GetOutcome DEF DoGet, Call
    <3>2. CASE DoDelete
      BY <1>0, <3>2, DeleteOutcome DEF DoDelete, Call
    <3>3. CASE DoExists
      BY <1>0, <3>3, ExistsOutcome DEF DoExists, Call, Outcome
    <3>4. CASE DoTtl
      BY <1>0, <3>4, TtlSecondsOutcome DEF DoTtl, Call, Outcome
    <3> QED
      BY <1>3, <3>1, <3>2, <3>3, <3>4
  <2> QED
    BY <1>0, <1>t, <2>1, Zenon
<1>4. CASE DoSet
  <2>0. PICK r \in Requests : \E o \in Set(store, r, now) : store' = o.store /\ now' = now
    BY <1>4, Zenon DEF DoSet, Call
  <2>1. PICK o \in Set(store, r, now) : store' = o.store /\ now' = now
    BY <2>0, Zenon
  <2>2. /\ r.key \in Keys /\ r.value \in Text /\ r.ttl \in Int \cup {Never}
        /\ r.ttl \in Ttls \cup {Never}
    BY RequestsType, Zenon DEF Requests
  <2>3. CASE o.status # "kOk"
    <3> DEFINE key == r.key
               t == RemoveIfExpired(store, key, now)
               projected == t.memory_usage - OldBytes(t, key) + EntryBytes(key, r.value)
    <3>1. o.store = t
      BY <1>0, <2>2, <2>3, SetOutcome DEF Outcome
    <3> QED
      BY <1>0, <1>t, <2>1, <3>1, Zenon
  <2>4. CASE o.status = "kOk"
    <3> DEFINE d == Deadline(now, r.ttl)
    <3>1. WithinTtl(d, now)
      <4>1. CASE r.ttl = Never
        BY <4>1, Zenon DEF Deadline, WithinTtl
      <4>2. CASE r.ttl # Never
        <5>1. d = now + r.ttl * TicksPerMs /\ r.ttl \in Ttls
          BY <1>0, <2>2, <4>2, DeadlineExact DEF Deadline
        <5>2. r.ttl * TicksPerMs \in Int
          BY <2>2, <4>2, KvStoreAssumption
        <5> HIDE DEF d
        <5>3. d <= now + r.ttl * TicksPerMs
          BY <1>0, <5>1, <5>2
        <5> QED
          BY <5>1, <5>3, Zenon DEF WithinTtl
      <4> QED
        BY <4>1, <4>2, Zenon
    <3> HIDE DEF d
    <3>2. /\ o.store.entries[r.key].expires_at = d
          /\ \A k \in DOMAIN o.store.entries : k # r.key =>
                k \in DOMAIN store.entries /\ o.store.entries[k] = store.entries[k]
      BY <1>0, <2>2, <2>4, AcceptedEntries DEF d
    <3> QED
      BY <1>0, <2>1, <3>1, <3>2, Zenon
  <2> QED
    BY <2>3, <2>4, Zenon
<1>5. CASE DoMSet
  <2>0. PICK u \in Updates : \E o \in MSet(store, u) : store' = o.store /\ now' = now
    BY <1>5, Zenon DEF DoMSet, Call
  <2>1. PICK o \in MSet(store, u) : store' = o.store /\ now' = now
    BY <2>0, Zenon
  <2>2. PICK K \in SUBSET Keys : K = DOMAIN u /\ u \in [K -> Text]
    BY RequestsType, Zenon
  <2>3. \/ o.store = store
        \/ /\ DOMAIN o.store.entries \subseteq DOMAIN store.entries \cup K
           /\ \A k \in K : o.store.entries[k].expires_at = Never
           /\ \A k \in DOMAIN o.store.entries \ K : o.store.entries[k] = store.entries[k]
    BY <1>0, <2>2, MSetOutcome DEF Outcome
  <2>4. WithinTtl(Never, now)
    BY Zenon DEF WithinTtl
  <2> QED
    BY <1>0, <2>1, <2>3, <2>4, Zenon
<1>6. CASE DoExpire
  <2>0. PICK k \in Keys, ttl \in Ttls \cup {0} :
           \E o \in Expire(store, k, ttl, now) : store' = o.store /\ now' = now
    BY <1>6, Zenon DEF DoExpire, Call
  <2>1. PICK o \in Expire(store, k, ttl, now) : store' = o.store /\ now' = now
    BY <2>0, Zenon
  <2> DEFINE t == RemoveIfExpired(store, k, now)
  <2>2. ttl \in Int /\ (ttl > 0 => ttl \in Ttls)
    BY CallsAssumption
  <2>3. \A j \in DOMAIN o.store.entries :
           /\ j \in DOMAIN t.entries
           /\ \/ o.store.entries[j] = t.entries[j]
              \/ ttl > 0 /\ o.store.entries[j].expires_at = After(now, ttl)
    <3> HIDE DEF t
    <3>1. /\ k \notin DOMAIN t.entries => o.store = t
          /\ k \in DOMAIN t.entries /\ ttl <= 0 =>
                /\ DOMAIN o.store.entries = DOMAIN t.entries \ {k}
                /\ \A j \in DOMAIN o.store.entries : o.store.entries[j] = t.entries[j]
          /\ k \in DOMAIN t.entries /\ ttl > 0 =>
                /\ DOMAIN o.store.entries = DOMAIN t.entries
                /\ o.store.entries[k].expires_at = After(now, ttl)
                /\ \A j \in DOMAIN t.entries \ {k} : o.store.entries[j] = t.entries[j]
      BY <1>0, <2>2, ExpireOutcome DEF t
    <3> QED
      BY <2>2, <3>1
  <2>4. ttl > 0 => WithinTtl(After(now, ttl), now)
    <3> SUFFICES ASSUME ttl > 0 PROVE WithinTtl(After(now, ttl), now)
      BY Zenon
    <3>1. After(now, ttl) = now + ttl * TicksPerMs /\ After(now, ttl) \in Int /\ ttl \in Ttls
      BY <1>0, <2>2, DeadlineExact, Zenon
    <3> QED
      BY <3>1 DEF WithinTtl
  <2> QED
    BY <1>0, <1>t, <2>1, <2>3, <2>4, Zenon
<1>7. CASE DoIncrement
  <2>1. PICK k \in Keys, delta \in {1, -1}, later \in now..MaxNow :
           \E o \in Increment(store, k, delta, now, later) : store' = o.store /\ now' = later
    BY <1>7, Zenon DEF DoIncrement, Call
  <2>2. PICK o \in Increment(store, k, delta, now, later) : store' = o.store /\ now' = later
    BY <2>1, Zenon
  <2>3. delta \in Int /\ later \in Int /\ later \in Nat /\ now <= later /\ later <= MaxNow
    BY <1>0, CallsAssumption
  <2> DEFINE t == RemoveIfExpired(store, k, now)
             request == IncrementRequest(t, k, delta, now)
             current == IF Has(t, k) THEN t.entries[k].value.int ELSE 0
             w == Visible(store, now)
             d == IF k \in DOMAIN w THEN w[k].expires_at ELSE Never
             e == Deadline(later, request.ttl)
  <2>4. /\ Sound(t)
        /\ \/ o.store = t
           \/ /\ o \in Set(t, request, later)
              /\ request.key = k /\ request.value \in Text
              /\ request.ttl \in Int \cup {Never}
    BY <1>0, <2>3, IncrementOutcome DEF Outcome
  <2>5. CASE o.store = t
    BY <1>t, <2>2, <2>3, <2>5, Zenon
  <2>6. CASE /\ o \in Set(t, request, later)
             /\ request.key = k /\ request.value \in Text
             /\ request.ttl \in Int \cup {Never}
    <3> DEFINE u == RemoveIfExpired(t, k, later)
               projected == u.memory_usage - OldBytes(u, k) + EntryBytes(k, request.value)
    <3>1. WithinTtl(e, later)
      <4>1. \A j \in DOMAIN store.entries : WithinTtl(store.entries[j].expires_at, now)
        BY Zenon DEF DeadlineInv
      <4>2. /\ t = RemoveIfExpired(store, k, now) /\ request = IncrementRequest(t, k, delta, now)
            /\ e = Deadline(later, request.ttl)
        BY Zenon
      <4>3. d = IF k \in DOMAIN Visible(store, now) THEN Visible(store, now)[k].expires_at ELSE Never
        BY Zenon
      <4>4. /\ Sound(store) /\ now \in Nat /\ later \in Nat /\ now <= later /\ later <= MaxNow
            /\ delta \in Int /\ Sound(t)
            /\ request.value \in Text /\ request.ttl \in Int \cup {Never}
        BY <1>0, <2>3, <2>4, <2>6, Zenon
      <4> HIDE DEF t, request, d, e
      <4> QED
        BY <4>1, <4>2, <4>3, <4>4, IncrementSet, ZenonT(40)
    <3> HIDE DEF request, e, t
    <3>2. \A j \in DOMAIN u.entries : j \in DOMAIN t.entries /\ u.entries[j] = t.entries[j]
      BY <2>3, <2>4, RemoveIfExpiredVisible, SMTT(40)
    <3>3. CASE o.status # "kOk"
      <4>1. o.store = u
        BY <2>4, <2>6, <3>3, SetOutcome, SMTT(40) DEF Outcome
      <4> QED
        <5>1. \A j \in DOMAIN t.entries : j \in DOMAIN store.entries /\ t.entries[j] = store.entries[j]
          BY <1>t, Zenon DEF t
        <5> HIDE DEF u
        <5> QED
          BY <2>2, <2>3, <3>2, <4>1, <5>1, Zenon
    <3>4. CASE o.status = "kOk"
      <4>1. /\ o.store.entries[k].expires_at = e
            /\ \A j \in DOMAIN o.store.entries : j # k =>
                  j \in DOMAIN t.entries /\ o.store.entries[j] = t.entries[j]
        BY <2>3, <2>4, <2>6, <3>4, AcceptedEntries DEF e
      <4> QED
        BY <1>t, <2>2, <2>3, <3>1, <4>1, ZenonT(40) DEF t
    <3> QED
      BY <3>3, <3>4, Zenon
  <2> QED
    BY <2>4, <2>5, <2>6, Zenon
<1>8. CASE DoActiveExpire
  <2>1. PICK t \in ActiveExpire(store, Samples, now) : store' = t /\ now' = now
    BY <1>8, Zenon DEF DoActiveExpire
  <2>2. PICK E \in SUBSET DOMAIN store.entries : t = Erase(store, Expired(store, E, now))
    BY ActiveExpireOutcome, Zenon
  <2>3. t.entries = [k \in DOMAIN store.entries \ Expired(store, E, now) |-> store.entries[k]]
    BY <1>0, <2>2, ExpiredEntries, EraseFollows, Zenon
  <2> QED
    BY <1>0, <2>1, <2>3, Zenon
<1>9. CASE DoSnapshot
  <2>1. PICK later \in now..MaxNow : store' = Snapshot(store, now, later).store /\ now' = later
    BY <1>9, Zenon DEF DoSnapshot, Call
  <2> DEFINE E == Expired(store, DOMAIN store.entries, now)
  <2>2. store' = Erase(store, E)
    BY <1>0, <2>1, SnapshotFollows, Zenon
  <2>3. store'.entries = [k \in DOMAIN store.entries \ E |-> store.entries[k]]
    BY <1>0, <2>2, ExpiredEntries, EraseFollows
  <2>4. now <= now'
    BY <1>0, <2>1, CallsAssumption
  <2> QED
    BY <2>3, <2>4, Zenon
<1>10. CASE DoClear
  BY <1>0, <1>10, ClearFollows DEF DoClear, Call, Outcome
<1> QED
  BY <1>2, <1>3, <1>4, <1>5, <1>6, <1>7, <1>8, <1>9, <1>10 DEF Next

----------------------------------------------------------------------------
(* The data clients see at a later time are those still alive then. *)
LEMMA AliveVisible ==
    ASSUME NEW s, Sound(s), NEW m \in Int, NEW n \in Int, m <= n
    PROVE  Contract!Alive(Visible(s, m), n) = Visible(s, n)
<1> DEFINE d == Visible(s, m)
           S == {k \in DOMAIN d : d[k].expires_at = Never \/ d[k].expires_at > n}
           e == Visible(s, n)
<1>1. Contract!Alive(d, n) = [k \in S |-> d[k]]
  BY Zenon DEF Contract!Alive, Contract!RestrictValues, Contract!Restrict
<1>2. ASSUME NEW k
      PROVE  k \in S <=> k \in DOMAIN e
  <2>1. /\ k \in DOMAIN d <=> k \in DOMAIN s.entries /\ ~IsExpired(s.entries[k], m)
        /\ k \in DOMAIN e <=> k \in DOMAIN s.entries /\ ~IsExpired(s.entries[k], n)
        /\ k \in DOMAIN d => d[k].expires_at = s.entries[k].expires_at
    BY VisibleKeys
  <2> HIDE DEF d, e
  <2>2. k \in DOMAIN s.entries => s.entries[k].expires_at \in Int \cup {Never}
    BY Zenon DEF Sound, IsStore, Entry
  <2> QED
    BY <2>1, <2>2 DEF IsExpired
<1>3. S = DOMAIN e
  BY <1>2, Zenon
<1>4. \A k \in DOMAIN e : d[k] = e[k]
  <2> TAKE k \in DOMAIN e
  <2>1. k \in DOMAIN d
    BY <1>2, Zenon
  <2>2. d[k] = [value |-> s.entries[k].value, expires_at |-> s.entries[k].expires_at]
    BY <2>1, VisibleKeys
  <2>3. e[k] = [value |-> s.entries[k].value, expires_at |-> s.entries[k].expires_at]
    BY VisibleKeys
  <2> QED
    BY <2>2, <2>3, Zenon
<1>5. e = [k \in DOMAIN e |-> e[k]]
  BY Zenon DEF Visible
<1> HIDE DEF S, d, e
<1>6. [k \in S |-> d[k]] = [k \in DOMAIN e |-> d[k]]
  BY <1>3, Zenon
<1>7. [k \in DOMAIN e |-> d[k]] = [k \in DOMAIN e |-> e[k]]
  BY <1>4, Zenon
<1> QED
  BY <1>1, <1>5, <1>6, <1>7, Zenon DEF d, e

(* Time passes as in the contract, where expired keys go at once. *)
LEMMA TickImplements ==
    ASSUME StoreInv, Tick
    PROVE  Contract!Tick
<1>1. /\ store' = store /\ now' = now + 1 /\ reply' = reply
      /\ Sound(store) /\ now \in Int /\ now' \in Int /\ now <= now'
  BY DEF Tick, StoreInv
<1>2. Contract!Alive(Visible(store, now), now') = Visible(store, now')
  BY <1>1, AliveVisible, Zenon
<1>3. now' > now
  BY <1>1
<1> QED
  BY <1>1, <1>2, <1>3, Zenon DEF Contract!Tick

(* A Get is the contract's: what differs are access records. *)
LEMMA GetImplements ==
    ASSUME StoreInv, DoGet
    PROVE  Contract!Get
<1>1. PICK k \in Keys : Call([op |-> "Get", key |-> k], Get(store, k, now), now)
  BY Zenon DEF DoGet
<1>2. PICK o \in Get(store, k, now) :
         /\ store' = o.store /\ now' = now
         /\ reply' = [call |-> [op |-> "Get", key |-> k], status |-> o.status, value |-> o.value]
  BY <1>1, Zenon DEF Call
<1> DEFINE t == RemoveIfExpired(store, k, now)
<1>0. Sound(store) /\ now \in Int /\ now <= now
  BY DEF StoreInv
<1>3. /\ DOMAIN o.store.entries = DOMAIN t.entries
      /\ \A j \in DOMAIN t.entries :
            /\ o.store.entries[j].value = t.entries[j].value
            /\ o.store.entries[j].expires_at = t.entries[j].expires_at
      /\ IF k \in DOMAIN t.entries
         THEN o.status = "hit" /\ o.value = t.entries[k].value
         ELSE o.status = "miss"
  BY <1>0, GetOutcome
<1>4. /\ Visible(t, now) = Visible(store, now)
      /\ k \in DOMAIN t.entries <=> k \in DOMAIN Visible(store, now)
      /\ \A j \in DOMAIN t.entries : j \in DOMAIN store.entries /\ t.entries[j] = store.entries[j]
  BY <1>0, RemoveIfExpiredVisible
<1> HIDE DEF t
<1>5. \A j : j \in DOMAIN Visible(o.store, now) <=> j \in DOMAIN Visible(t, now)
  <2> TAKE j
  <2>1. j \in DOMAIN Visible(o.store, now) <=>
           j \in DOMAIN o.store.entries /\ ~IsExpired(o.store.entries[j], now)
    BY VisibleKeys, Zenon
  <2>2. j \in DOMAIN Visible(t, now) <=> j \in DOMAIN t.entries /\ ~IsExpired(t.entries[j], now)
    BY VisibleKeys, Zenon
  <2> QED
    BY <1>3, <2>1, <2>2, Zenon DEF IsExpired
<1>6. Visible(o.store, now) = Visible(t, now)
  <2>1. \A j \in DOMAIN Visible(o.store, now) :
           /\ o.store.entries[j].value = t.entries[j].value
           /\ o.store.entries[j].expires_at = t.entries[j].expires_at
    BY <1>3, VisibleKeys, Zenon
  <2> QED
    BY <1>5, <2>1, VisibleEqual
<1>7. Visible(store', now') = Visible(store, now)
  BY <1>2, <1>4, <1>6, ZenonT(40)
<1>8. k \in DOMAIN Visible(store, now) => Visible(store, now)[k].value = store.entries[k].value
  BY VisibleKeys
<1> QED
  BY <1>2, <1>3, <1>4, <1>7, <1>8 DEF Contract!Get, Contract!call

(* A Set, refused or not, is the contract's. *)
LEMMA SetImplements ==
    ASSUME StoreInv, DeadlinesFit, DoSet
    PROVE  Contract!Set
<1>1. PICK r \in Requests :
         Call([op |-> "Set", key |-> r.key, value |-> r.value, ttl |-> r.ttl,
               condition |-> r.condition], Set(store, r, now), now)
  BY Zenon DEF DoSet
<1> DEFINE key == r.key
           c == [op |-> "Set", key |-> key, value |-> r.value, ttl |-> r.ttl,
                 condition |-> r.condition]
           t == RemoveIfExpired(store, key, now)
           projected == t.memory_usage - OldBytes(t, key) + EntryBytes(key, r.value)
           d == Deadline(now, r.ttl)
<1>2. PICK o \in Set(store, r, now) :
         /\ store' = o.store /\ now' = now
         /\ reply' = [call |-> c, status |-> o.status, value |-> o.value]
  BY <1>1, Zenon DEF Call
<1>3. /\ Sound(store) /\ now \in Int /\ now <= now /\ now \in Nat /\ now <= MaxNow
      /\ key \in Keys /\ r.value \in Text /\ r.ttl \in Int \cup {Never}
      /\ r.ttl \in Ttls \cup {Never}
  BY RequestsType DEF StoreInv, Requests
<1>4. key \in DOMAIN t.entries <=> key \in DOMAIN Visible(store, now)
  BY <1>3, RemoveIfExpiredVisible
<1>5. Contract!ConditionHolds(c) <=> ~ConditionFails(r, Has(t, key))
  BY <1>4, Zenon DEF Contract!ConditionHolds, ConditionFails, Has
<1>6. \/ ConditionFails(r, Has(t, key)) /\ o.status = "kConditionFailed"
      \/ ~ConditionFails(r, Has(t, key)) /\ o.status \in {"kNoMemory", "kOk"}
  BY <1>3, SetOutcome DEF Outcome
<1> HIDE DEF t
<1>7. reply'.call = c /\ reply'.status = o.status
  BY <1>2, ZenonT(40)
<1>8. CASE o.status # "kOk"
  <2>1. Visible(store', now') = Visible(store, now)
    BY <1>2, <1>3, <1>8, RefusedSetVisible, ZenonT(40)
  <2>2. c.op = "Set"
    BY Zenon
  <2> HIDE DEF c
  <2>3. Contract!Refused(o.status)
    BY <1>7, <2>1, Zenon DEF Contract!Refused
  <2>4. \/ ~Contract!ConditionHolds(c) /\ Contract!Refused("kConditionFailed")
        \/ Contract!ConditionHolds(c) /\ Contract!Refused("kNoMemory")
    BY <1>5, <1>6, <1>8, <2>3, ZenonT(40)
  <2> QED
    BY <1>2, <1>7, <2>2, <2>4, ZenonT(40) DEF Contract!Set, Contract!call
<1>9. CASE o.status = "kOk"
  <2>1. d = Contract!Deadline(r.ttl) /\ ~(d # Never /\ d <= now)
    <3>1. CASE r.ttl = Never
      BY <3>1, Zenon DEF Deadline, Contract!Deadline
    <3>2. CASE r.ttl # Never
      BY <1>3, <3>2, DeadlineExact, SMTT(25) DEF Deadline, Contract!Deadline
    <3> QED
      BY <3>1, <3>2, Zenon
  <2> HIDE DEF d
  <2>2. /\ key \in DOMAIN Visible(o.store, now)
        /\ Visible(o.store, now)[key] = [value |-> r.value, expires_at |-> d]
        /\ DOMAIN Visible(o.store, now) \subseteq DOMAIN Visible(store, now) \cup {key}
        /\ store.policy = "noeviction" =>
              DOMAIN Visible(store, now) \ {key} \subseteq DOMAIN Visible(o.store, now)
        /\ \A k \in DOMAIN Visible(o.store, now) \ {key} :
              Visible(o.store, now)[k] = Visible(store, now)[k]
    BY <1>3, <1>9, <2>1, AcceptedSet DEF d
  <2>3. Contract!OthersStay({key})
    BY <1>2, <2>2, Zenon DEF Contract!OthersStay
  <2>4. c.key = key /\ c.value = r.value /\ c.ttl = r.ttl /\ c.op = "Set"
    BY Zenon
  <2>5. Contract!ConditionHolds(c)
    BY <1>5, <1>6, <1>9, Zenon
  <2> HIDE DEF c, key
  <2> QED
    BY <1>2, <1>7, <1>9, <2>1, <2>2, <2>3, <2>4, <2>5 DEF Contract!Set, Contract!call
<1> QED
  BY <1>8, <1>9, Zenon

(* MSet, which looks at no deadline, makes the writes of the contract. *)
LEMMA MSetImplements ==
    ASSUME StoreInv, DoMSet
    PROVE  Contract!MSet
<1>1. PICK u \in Updates : Call([op |-> "MSet", updates |-> u], MSet(store, u), now)
  BY Zenon DEF DoMSet
<1>2. PICK o \in MSet(store, u) :
         /\ store' = o.store /\ now' = now
         /\ reply' = [call |-> [op |-> "MSet", updates |-> u], status |-> o.status,
                      value |-> o.value]
  BY <1>1, Zenon DEF Call
<1>3. PICK K \in SUBSET Keys : K = DOMAIN u /\ u \in [K -> Text]
  BY RequestsType, Zenon
<1>4. Sound(store)
  BY Zenon DEF StoreInv
<1>5. CASE o = Outcome(store, "kNoMemory", Nothing)
  BY <1>2, <1>5, Zenon DEF Outcome, Contract!MSet, Contract!call, Contract!Refused
<1>6. CASE o # Outcome(store, "kNoMemory", Nothing)
  <2> DEFINE t == o.store
             v == Visible(t, now)
             w == Visible(store, now)
  <2>1. /\ o.status = "kOk"
        /\ K \subseteq DOMAIN t.entries
        /\ DOMAIN t.entries \subseteq DOMAIN store.entries \cup K
        /\ store.policy = "noeviction" => DOMAIN store.entries \subseteq DOMAIN t.entries
        /\ \A k \in K : t.entries[k].value = u[k] /\ t.entries[k].expires_at = Never
        /\ \A k \in DOMAIN t.entries \ K : t.entries[k] = store.entries[k]
    BY <1>3, <1>4, <1>6, MSetOutcome
  <2> HIDE DEF t
  <2>2. /\ DOMAIN v \subseteq DOMAIN w \cup K
        /\ \A k \in DOMAIN v \ K : v[k] = w[k]
        /\ DOMAIN store.entries \ K \subseteq DOMAIN t.entries => DOMAIN w \ K \subseteq DOMAIN v
    BY <2>1, WriteVisible, Zenon
  <2>3. store.policy = "noeviction" => DOMAIN w \ K \subseteq DOMAIN v
    BY <2>1, <2>2, ZenonT(40)
  <2>4. \A k \in K : k \in DOMAIN v /\ v[k] = [value |-> u[k], expires_at |-> Never]
    <3> TAKE k \in K
    <3>1. k \in DOMAIN t.entries /\ ~IsExpired(t.entries[k], now)
      BY <2>1, Zenon DEF IsExpired
    <3>2. k \in DOMAIN v
      BY <3>1, VisibleKeys, Zenon
    <3>3. v[k] = [value |-> t.entries[k].value, expires_at |-> t.entries[k].expires_at]
      BY <3>2, VisibleKeys
    <3> QED
      BY <2>1, <3>2, <3>3
  <2>5. Visible(store', now') = v
    BY <1>2, Zenon DEF t
  <2> HIDE DEF v, w
  <2>6. reply'.call.op = "MSet" /\ reply'.call.updates = u /\ reply'.status = "kOk"
    BY <1>2, <2>1, Zenon
  <2>7. Contract!OthersStay(K)
    BY <1>2, <2>2, <2>3, <2>5, Zenon DEF Contract!OthersStay, w
  <2> QED
    BY <1>2, <1>3, <2>4, <2>5, <2>6, <2>7, Zenon DEF Contract!MSet, Contract!call
<1> QED
  BY <1>5, <1>6, Zenon

(* A Delete is the contract's. *)
LEMMA DeleteImplements ==
    ASSUME StoreInv, DoDelete
    PROVE  Contract!Delete
<1>1. PICK k \in Keys : Call([op |-> "Delete", key |-> k], Delete(store, k, now), now)
  BY Zenon DEF DoDelete
<1>2. PICK o \in Delete(store, k, now) :
         /\ store' = o.store /\ now' = now
         /\ reply' = [call |-> [op |-> "Delete", key |-> k], status |-> o.status,
                      value |-> o.value]
  BY <1>1, Zenon DEF Call
<1> DEFINE t == RemoveIfExpired(store, k, now)
           w == Visible(store, now)
<1>3. Sound(store) /\ now \in Int /\ now <= now
  BY DEF StoreInv
<1>4. /\ o.status = "kOk"
      /\ o.value = Number(IF k \in DOMAIN t.entries THEN 1 ELSE 0)
      /\ DOMAIN o.store.entries = DOMAIN t.entries \ {k}
      /\ \A j \in DOMAIN o.store.entries : o.store.entries[j] = t.entries[j]
  BY <1>3, DeleteOutcome
<1>5. Visible(t, now) = w /\ (k \in DOMAIN t.entries <=> k \in DOMAIN w)
  BY <1>3, RemoveIfExpiredVisible
<1> HIDE DEF t
<1>6. Visible(o.store, now) = Without(Visible(t, now), k)
  <2>1. \A j : j \in DOMAIN o.store.entries <=> j \in DOMAIN t.entries /\ j # k
    BY <1>4, Zenon
  <2>2. \A j \in DOMAIN o.store.entries : o.store.entries[j] = t.entries[j]
    BY <1>4, Zenon
  <2> QED
    BY <2>1, <2>2, EraseOneVisible
<1>7. Visible(o.store, now) = Without(w, k)
  BY <1>5, <1>6, Zenon
<1> HIDE DEF w
<1>8. o.value.int = IF k \in DOMAIN w THEN 1 ELSE 0
  BY <1>4, <1>5 DEF Number
<1> QED
  BY <1>2, <1>4, <1>7, <1>8, Zenon
  DEF Contract!Delete, Contract!call, Contract!Returns, Contract!Restrict, Restrict, Without, w

(* An Exists is the contract's. *)
LEMMA ExistsImplements ==
    ASSUME StoreInv, DoExists
    PROVE  Contract!Exists
<1>1. PICK k \in Keys : Call([op |-> "Exists", key |-> k], Exists(store, k, now), now)
  BY Zenon DEF DoExists
<1>2. PICK o \in Exists(store, k, now) :
         /\ store' = o.store /\ now' = now
         /\ reply' = [call |-> [op |-> "Exists", key |-> k], status |-> o.status,
                      value |-> o.value]
  BY <1>1, Zenon DEF Call
<1> DEFINE t == RemoveIfExpired(store, k, now)
<1>3. Sound(store) /\ now \in Int /\ now <= now
  BY DEF StoreInv
<1>4. o = Outcome(t, "kOk", Number(IF k \in DOMAIN t.entries THEN 1 ELSE 0))
  BY <1>3, ExistsOutcome
<1>5. Visible(t, now) = Visible(store, now) /\ (k \in DOMAIN t.entries <=> k \in DOMAIN Visible(store, now))
  BY <1>3, RemoveIfExpiredVisible
<1> HIDE DEF t
<1>6. Visible(store', now') = Visible(store, now)
  BY <1>2, <1>4, <1>5, ZenonT(40) DEF Outcome
<1>7. reply'.status = "kOk" /\ reply'.value.int = IF k \in DOMAIN Visible(store, now) THEN 1 ELSE 0
  BY <1>2, <1>4, <1>5 DEF Outcome, Number
<1> QED
  BY <1>2, <1>6, <1>7, Zenon DEF Contract!Exists, Contract!call, Contract!Returns

(* An Expire is the contract's. *)
LEMMA ExpireImplements ==
    ASSUME StoreInv, DeadlinesFit, DoExpire
    PROVE  Contract!Expire
<1>1. PICK k \in Keys, ttl \in Ttls \cup {0} :
         Call([op |-> "Expire", key |-> k, ttl |-> ttl], Expire(store, k, ttl, now), now)
  BY Zenon DEF DoExpire
<1>2. PICK o \in Expire(store, k, ttl, now) :
         /\ store' = o.store /\ now' = now
         /\ reply' = [call |-> [op |-> "Expire", key |-> k, ttl |-> ttl],
                      status |-> o.status, value |-> o.value]
  BY <1>1, Zenon DEF Call
<1> DEFINE t == RemoveIfExpired(store, k, now)
           u == o.store
           w == Visible(store, now)
<1>3. /\ Sound(store) /\ now \in Int /\ now <= now /\ now \in Nat /\ now <= MaxNow
      /\ ttl \in Int /\ (ttl > 0 => ttl \in Ttls)
  BY CallsAssumption DEF StoreInv
<1>4. /\ o.status = "kOk"
      /\ o.value = Number(IF k \in DOMAIN t.entries THEN 1 ELSE 0)
      /\ k \notin DOMAIN t.entries => u = t
      /\ k \in DOMAIN t.entries /\ ttl <= 0 =>
            /\ DOMAIN u.entries = DOMAIN t.entries \ {k}
            /\ \A j \in DOMAIN u.entries : u.entries[j] = t.entries[j]
      /\ k \in DOMAIN t.entries /\ ttl > 0 =>
            /\ DOMAIN u.entries = DOMAIN t.entries
            /\ u.entries[k].value = t.entries[k].value
            /\ u.entries[k].expires_at = After(now, ttl)
            /\ \A j \in DOMAIN t.entries \ {k} : u.entries[j] = t.entries[j]
  BY <1>3, ExpireOutcome
<1>5. Visible(t, now) = w /\ (k \in DOMAIN t.entries <=> k \in DOMAIN w)
  BY <1>3, RemoveIfExpiredVisible
<1>6. reply'.call.op = "Expire" /\ reply'.call.key = k /\ reply'.call.ttl = ttl
  BY <1>2, ZenonT(40)
<1> HIDE DEF t, u
<1>7. reply'.status = "kOk" /\ reply'.value.int = IF k \in DOMAIN w THEN 1 ELSE 0
  BY <1>2, <1>4, <1>5 DEF Number
<1>8. Visible(store', now') = Visible(u, now)
  BY <1>2, Zenon DEF u
<1>9. CASE k \notin DOMAIN w
  <2>1. Visible(u, now) = w
    BY <1>4, <1>5, <1>9, Zenon
  <2> QED
    BY <1>2, <1>6, <1>7, <1>8, <1>9, <2>1
    DEF Contract!Expire, Contract!call, Contract!Returns
<1>10. CASE k \in DOMAIN w /\ ttl <= 0
  <2>1. \A j : j \in DOMAIN u.entries <=> j \in DOMAIN t.entries /\ j # k
    BY <1>4, <1>5, <1>10, Zenon
  <2>2. \A j \in DOMAIN u.entries : u.entries[j] = t.entries[j]
    BY <1>4, <1>5, <1>10, Zenon
  <2>3. Visible(u, now) = Without(Visible(t, now), k)
    BY <2>1, <2>2, EraseOneVisible
  <2>4. Visible(u, now) = Without(w, k)
    BY <1>5, <2>3, Zenon
  <2> QED
    BY <1>2, <1>6, <1>7, <1>8, <1>10, <2>4
    DEF Contract!Expire, Contract!call, Contract!Returns, Contract!Restrict, Restrict, Without
<1>11. CASE k \in DOMAIN w /\ ttl > 0
  <2> DEFINE d == After(now, ttl)
             v == Visible(u, now)
  <2>1. d = now + ttl * TicksPerMs /\ d \in Int /\ d > now /\ Never \notin Int
    BY <1>3, <1>11, DeadlineExact, CallsAssumption
  <2>2. /\ u.entries[k].value = t.entries[k].value
        /\ u.entries[k].expires_at = d
        /\ \A j \in DOMAIN t.entries \ {k} : u.entries[j] = t.entries[j]
        /\ \A j : j \in DOMAIN u.entries <=> j \in DOMAIN t.entries
    BY <1>4, <1>5, <1>11, Zenon
  <2> HIDE DEF d
  <2>3. \A j : /\ j \in DOMAIN v <=> j \in DOMAIN u.entries /\ ~IsExpired(u.entries[j], now)
               /\ j \in DOMAIN w <=> j \in DOMAIN t.entries /\ ~IsExpired(t.entries[j], now)
    BY <1>5, VisibleKeys, Zenon
  <2>4. /\ \A j \in DOMAIN v : v[j] = [value |-> u.entries[j].value,
                                        expires_at |-> u.entries[j].expires_at]
        /\ \A j \in DOMAIN w : w[j] = [value |-> t.entries[j].value,
                                        expires_at |-> t.entries[j].expires_at]
    <3>1. \A j \in DOMAIN Visible(t, now) : Visible(t, now)[j] =
             [value |-> t.entries[j].value, expires_at |-> t.entries[j].expires_at]
      BY VisibleKeys
    <3>2. \A j \in DOMAIN v : v[j] = [value |-> u.entries[j].value,
                                        expires_at |-> u.entries[j].expires_at]
      BY VisibleKeys
    <3> QED
      BY <1>5, <3>1, <3>2, ZenonT(40)
  <2>5. v = [j \in DOMAIN v |-> v[j]] /\ w = [j \in DOMAIN w |-> w[j]]
    BY Zenon DEF Visible
  <2> HIDE DEF v, w
  <2>6. \A j : j \in DOMAIN v <=> j \in DOMAIN w
    <3> TAKE j
    <3>1. CASE j = k
      BY <1>3, <1>11, <2>1, <2>2, <2>3, <3>1, SMTT(25) DEF IsExpired
    <3>2. CASE j # k
      BY <2>2, <2>3, <3>2, Zenon
    <3> QED
      BY <3>1, <3>2, Zenon
  <2>7. v[k] = [value |-> t.entries[k].value, expires_at |-> d]
    BY <1>11, <2>2, <2>4, <2>6, Zenon
  <2>8. v[k] = [w[k] EXCEPT !.expires_at = d]
    BY <1>11, <2>4, <2>7
  <2>9. \A j \in DOMAIN w : j # k => v[j] = w[j]
    BY <2>2, <2>3, <2>4, <2>6, Zenon
  <2>10. DOMAIN v = DOMAIN w
    BY <2>6, Zenon
  <2>11. v = [w EXCEPT ![k].expires_at = d]
    BY <1>11, <2>5, <2>8, <2>9, <2>10
  <2>12. d = Contract!Deadline(ttl) /\ ~(ttl <= 0)
    BY <1>3, <1>11, <2>1 DEF Contract!Deadline
  <2>13. d = Contract!Deadline(Contract!call.ttl) /\ ~(Contract!call.ttl <= 0)
    BY <1>6, <2>12, Zenon DEF Contract!call
  <2>14. v = [w EXCEPT ![Contract!call.key].expires_at = Contract!Deadline(Contract!call.ttl)]
    BY <1>6, <2>11, <2>13, ZenonT(40) DEF Contract!call
  <2> QED
    BY <1>2, <1>6, <1>7, <1>8, <1>11, <2>13, <2>14, Zenon
    DEF Contract!Expire, Contract!call, Contract!Returns, v, w
<1> QED
  BY <1>3, <1>9, <1>10, <1>11

(* A TtlSeconds is the contract's: the seconds left, rounded down. *)
LEMMA TtlImplements ==
    ASSUME StoreInv, DoTtl
    PROVE  Contract!TtlSeconds
<1>1. PICK k \in Keys : Call([op |-> "TtlSeconds", key |-> k], TtlSeconds(store, k, now), now)
  BY Zenon DEF DoTtl
<1>2. PICK o \in TtlSeconds(store, k, now) :
         /\ store' = o.store /\ now' = now
         /\ reply' = [call |-> [op |-> "TtlSeconds", key |-> k], status |-> o.status,
                      value |-> o.value]
  BY <1>1, Zenon DEF Call
<1> DEFINE t == RemoveIfExpired(store, k, now)
           w == Visible(store, now)
           d == t.entries[k].expires_at
           n == IF k \notin DOMAIN t.entries THEN -2
                ELSE IF d = Never THEN -1 ELSE Millis(d - now) \div MsPerSecond
<1>3. Sound(store) /\ now \in Int /\ now <= now
  BY DEF StoreInv
<1>4. o = Outcome(t, "kOk", Number(n)) /\ Follows(store, t)
  BY <1>3, TtlSecondsOutcome
<1>5. /\ Visible(t, now) = w /\ (k \in DOMAIN t.entries <=> k \in DOMAIN w)
      /\ k \in DOMAIN t.entries => ~IsExpired(t.entries[k], now)
      /\ k \in DOMAIN t.entries => t.entries[k] = store.entries[k]
  BY <1>3, RemoveIfExpiredVisible
<1>6. k \in DOMAIN t.entries => d \in Int \cup {Never}
  BY <1>4, Zenon DEF Follows, Sound, IsStore, Entry
<1> HIDE DEF t
<1>7. k \in DOMAIN w => w[k].expires_at = d
  BY <1>5, VisibleKeys
<1>8. Visible(store', now') = w
  BY <1>2, <1>4, <1>5, Zenon DEF Outcome
<1> HIDE DEF w
<1>9. n = IF k \notin DOMAIN w THEN -2 ELSE IF w[k].expires_at = Never THEN -1
          ELSE (w[k].expires_at - now) \div (TicksPerMs * MsPerSecond)
  <2>1. CASE k \notin DOMAIN w \/ d = Never
    BY <1>5, <1>7, <2>1, ZenonT(40)
  <2>2. CASE k \in DOMAIN w /\ d # Never
    <3>1. d \in Int /\ d > now
      BY <1>3, <1>5, <1>6, <2>2 DEF IsExpired
    <3>2. d - now \in Nat
      BY <1>3, <3>1
    <3>3. (Millis(d - now) \div MsPerSecond) = (d - now) \div (TicksPerMs * MsPerSecond)
      BY <3>2, KvStoreAssumption, QuotientOfQuotient DEF Millis
    <3> QED
      BY <1>5, <1>7, <2>2, <3>3
  <2> QED
    BY <2>1, <2>2, Zenon
<1> HIDE DEF n
<1>10. reply'.status = "kOk" /\ reply'.value.int = n
  BY <1>2, <1>4, Zenon DEF Outcome, Number
<1> QED
  BY <1>2, <1>8, <1>9, <1>10 DEF Contract!TtlSeconds, Contract!call, Contract!Returns, w

(* The keys but one that are alive at n. *)
LEMMA AliveWithout ==
    ASSUME NEW f, NEW key, NEW n
    PROVE  \A k : k \in DOMAIN Contract!Alive(Contract!Restrict(f, DOMAIN f \ {key}), n) <=>
                     k \in DOMAIN Contract!Alive(f, n) /\ k # key
BY Zenon DEF Contract!Alive, Contract!RestrictValues, Contract!Restrict

(* An Increment is the contract's, though the clock moves between its two  *)
(* halves.                                                                 *)
LEMMA IncrementImplements ==
    ASSUME StoreInv, DeadlineInv, DeadlinesFit, DoIncrement
    PROVE  Contract!Increment
<1>1. PICK k \in Keys, delta \in {1, -1}, later \in now..MaxNow :
         /\ (\E o \in Increment(store, k, delta, now, later) :
                o.status \in {"kNotInteger", "kOverflow"}) => later = now
         /\ Call([op |-> "Increment", key |-> k, delta |-> delta],
                 Increment(store, k, delta, now, later), later)
  BY Zenon DEF DoIncrement
<1>2. PICK o \in Increment(store, k, delta, now, later) :
         /\ store' = o.store /\ now' = later
         /\ reply' = [call |-> [op |-> "Increment", key |-> k, delta |-> delta],
                      status |-> o.status, value |-> o.value]
  BY <1>1, Zenon DEF Call
<1> DEFINE t == RemoveIfExpired(store, k, now)
           request == IncrementRequest(t, k, delta, now)
           current == IF Has(t, k) THEN t.entries[k].value.int ELSE 0
           w == Visible(store, now)
           x == Visible(store, later)
           v == Visible(o.store, later)
           B == Contract!Restrict(w, DOMAIN w \ {k})
           cur == IF k \in DOMAIN w THEN w[k].value.int ELSE 0
           d == IF k \in DOMAIN w THEN w[k].expires_at ELSE Never
           e == Deadline(later, request.ttl)
<1>d. /\ t = RemoveIfExpired(store, k, now)
      /\ current = IF Has(t, k) THEN t.entries[k].value.int ELSE 0
      /\ request = IncrementRequest(t, k, delta, now)
  BY Zenon
<1>v. w = Visible(store, now) /\ x = Visible(store, later)
  BY Zenon
<1> HIDE DEF t, request, current, w, x, v, B, cur, d, e
<1>3. /\ Sound(store) /\ now \in Nat /\ now \in Int /\ now <= now
      /\ later \in Nat /\ later \in Int /\ now <= later /\ later <= MaxNow /\ later <= later
      /\ delta \in Int
  <2>1. Sound(store) /\ now \in Nat
    BY Zenon DEF StoreInv
  <2>2. MaxNow \in Nat
    BY CallsAssumption, Zenon
  <2> QED
    BY <2>1, <2>2
<1>4. /\ Sound(t) /\ t.policy = store.policy
      /\ \/ current = NotInteger /\ o = Outcome(t, "kNotInteger", Nothing)
         \/ /\ current # NotInteger /\ current + delta \notin IntMin..IntMax
            /\ o = Outcome(t, "kOverflow", Nothing)
         \/ /\ current # NotInteger /\ current + delta \in IntMin..IntMax
            /\ current \in Int
            /\ o \in Set(t, request, later)
            /\ request.key = k /\ request.value \in Text
            /\ request.ttl \in Int \cup {Never}
  BY <1>3, <1>d, IncrementOutcome, SMTT(25) DEF Follows
<1>5. /\ Visible(t, now) = w /\ Visible(t, later) = x
      /\ k \in DOMAIN t.entries <=> k \in DOMAIN w
      /\ k \in DOMAIN t.entries => t.entries[k] = store.entries[k]
  BY <1>3, <1>d, <1>v, RemoveIfExpiredVisible, SMTT(25)
<1>6. current = cur
  <2>1. k \in DOMAIN w => w[k].value = store.entries[k].value
    BY VisibleKeys, Zenon DEF w
  <2>2. Has(t, k) <=> k \in DOMAIN w
    BY <1>5, Zenon DEF Has
  <2> QED
    BY <1>5, <2>1, <2>2, ZenonT(40) DEF current, cur, Has
<1>7. x = Contract!Alive(w, later)
  BY <1>3, <1>v, AliveVisible, Zenon
<1> USE DEF request, x, v, B, d, e
<1>8. Visible(store', now') = v /\ now' = later /\ now' >= now
  BY <1>2, <1>3, Zenon
<1>9. /\ reply'.call.op = "Increment" /\ reply'.call.key = k /\ reply'.call.delta = delta
      /\ reply'.status = o.status /\ reply'.value = o.value
  BY <1>2, Zenon
<1>10. CASE current = NotInteger \/ current + delta \notin IntMin..IntMax
  <2>1. \/ current = NotInteger /\ o = Outcome(t, "kNotInteger", Nothing)
        \/ /\ current # NotInteger /\ current + delta \notin IntMin..IntMax
           /\ o = Outcome(t, "kOverflow", Nothing)
    BY <1>4, <1>10, Zenon
  <2>2. /\ o.store = t
        /\ \/ cur = NotInteger /\ o.status = "kNotInteger"
           \/ cur # NotInteger /\ cur + delta \notin IntMin..IntMax /\ o.status = "kOverflow"
    BY <1>6, <2>1 DEF Outcome
  <2>3. later = now
    BY <1>1, <2>2, Zenon
  <2>4. v = w
    BY <1>5, <2>2, <2>3
  <2> QED
    BY <1>8, <1>9, <2>2, <2>3, <2>4
    DEF Contract!Increment, Contract!call, Contract!Refused, cur, w
<1>11. CASE current # NotInteger /\ current + delta \in IntMin..IntMax
  <2>1. /\ current \in Int
        /\ o \in Set(t, request, later)
        /\ request.key = k /\ request.value \in Text
        /\ request.ttl \in Int \cup {Never}
    BY <1>4, <1>11, Zenon
  <2>2. cur # NotInteger /\ cur + delta \in IntMin..IntMax
    BY <1>6, <1>11, Zenon
  <2>3. request.condition = "kNone" /\ request.value.int = cur + delta
    BY <1>6, ZenonT(40) DEF IncrementRequest, DecimalText, current
  <2>4. o.status \in {"kOk", "kNoMemory"}
    <3> DEFINE u == RemoveIfExpired(t, k, later)
               projected == u.memory_usage - OldBytes(u, k) + EntryBytes(k, request.value)
    <3>1. ~ConditionFails(request, Has(u, k))
      BY <2>3, Zenon DEF ConditionFails
    <3> HIDE DEF request
    <3> QED
      BY <1>4, <2>1, <3>1, SetOutcome DEF Outcome
  <2>5. CASE o.status = "kNoMemory"
    <3>1. v = x
      <4> HIDE DEF request
      <4> QED
        BY <1>3, <1>4, <1>5, <2>1, <2>5, RefusedSetVisible
    <3>2. Visible(store', now') = Contract!Alive(w, now')
      BY <1>7, <1>8, <3>1, Zenon
    <3> QED
      BY <1>8, <1>9, <2>2, <2>5, <3>2, ZenonT(40)
      DEF Contract!Increment, Contract!call, cur, w
  <2>6. CASE o.status = "kOk"
    <3>1. Carried(d, e, now, later)
      <4>1. \A j \in DOMAIN store.entries : WithinTtl(store.entries[j].expires_at, now)
        BY Zenon DEF DeadlineInv
      <4>2. t = RemoveIfExpired(store, k, now)
        BY Zenon DEF t
      <4>3. d = IF k \in DOMAIN Visible(store, now) THEN Visible(store, now)[k].expires_at ELSE Never
        BY ZenonT(40) DEF w
      <4>4. request = IncrementRequest(t, k, delta, now) /\ e = Deadline(later, request.ttl)
        BY Zenon
      <4>5. /\ Sound(store) /\ now \in Nat /\ later \in Nat /\ now <= later /\ later <= MaxNow
            /\ delta \in Int /\ Sound(t)
            /\ request.value \in Text /\ request.ttl \in Int \cup {Never}
        BY <1>3, <1>4, <2>1, Zenon
      <4> HIDE DEF request, d, e
      <4> QED
        BY <4>1, <4>2, <4>3, <4>4, <4>5, IncrementSet, ZenonT(40)
    <3> HIDE DEF request, d, e
    <3>2. /\ o.value = request.value
          /\ k \in DOMAIN v <=> ~(e # Never /\ e <= later)
          /\ k \in DOMAIN v => v[k] = [value |-> request.value, expires_at |-> e]
          /\ DOMAIN v \subseteq DOMAIN x \cup {k}
          /\ store.policy = "noeviction" => DOMAIN x \ {k} \subseteq DOMAIN v
          /\ \A j \in DOMAIN v \ {k} : v[j] = x[j]
      BY <1>3, <1>4, <1>5, <2>1, <2>6, AcceptedSet, SMTT(30) DEF e
    <3>3. reply'.value.int = cur + delta
      BY <1>9, <2>3, <3>2
    <3> HIDE DEF x, v
    <3>4. \A j : j \in DOMAIN Contract!Alive(B, later) <=> j \in DOMAIN x /\ j # k
      BY <1>7, AliveWithout, Zenon
    <3>5. \A j \in DOMAIN x : j \in DOMAIN w /\ x[j] = w[j]
      BY <1>7, Zenon DEF Contract!Alive, Contract!RestrictValues, Contract!Restrict
    <3> HIDE DEF B
    <3>6. DOMAIN v \ {k} \subseteq DOMAIN Contract!Alive(B, later)
      BY <3>2, <3>4
    <3>7. store.policy = "noeviction" => DOMAIN Contract!Alive(B, later) \subseteq DOMAIN v
      BY <3>2, <3>4
    <3>8. \A j \in DOMAIN v \ {k} : v[j] = w[j]
      BY <3>2, <3>5, Zenon
    <3>9. k \notin DOMAIN v => d # Never /\ d < later + TicksPerMs
      BY <3>1, <3>2, Zenon DEF Carried
    <3>10. k \in DOMAIN v => v[k].value.int = cur + delta /\ v[k].expires_at = e
      BY <2>3, <3>2
    <3>11. k \in DOMAIN v =>
             IF d = Never THEN v[k].expires_at = Never
             ELSE /\ v[k].expires_at # Never
                  /\ v[k].expires_at > d - TicksPerMs
                  /\ v[k].expires_at <= d + (later - now)
      BY <3>1, <3>10, ZenonT(40) DEF Carried
    <3> QED
      BY <1>8, <1>9, <2>2, <2>6, <3>3, <3>6, <3>7, <3>8, <3>9, <3>10, <3>11, Zenon
      DEF Contract!Increment, Contract!call, B, cur, w, d
  <2> QED
    BY <2>4, <2>5, <2>6
<1> QED
  BY <1>10, <1>11, Zenon

(* A Snapshot is the contract's, though it reads the clock twice. *)
LEMMA SnapshotImplements ==
    ASSUME StoreInv, DoSnapshot
    PROVE  Contract!Snapshot
<1>1. PICK later \in now..MaxNow :
         Call([op |-> "Snapshot"], {Snapshot(store, now, later)}, later)
  BY Zenon DEF DoSnapshot
<1> DEFINE o == Snapshot(store, now, later)
           E == Expired(store, DOMAIN store.entries, now)
           t == Erase(store, E)
           w == Visible(store, now)
           copy == reply'.value.entries
           Left(e) == IF e.expires_at = Never THEN Never
                      ELSE IF e.expires_at < later THEN 0 ELSE Millis(e.expires_at - later)
<1>2. /\ store' = o.store /\ now' = later
      /\ reply' = [call |-> [op |-> "Snapshot"], status |-> o.status, value |-> o.value]
  BY <1>1, Zenon DEF Call
<1>3. Sound(store) /\ now \in Int /\ now <= now /\ later \in Int /\ now <= later
  BY CallsAssumption DEF StoreInv
<1>4. /\ E \in SUBSET DOMAIN store.entries
      /\ \A k \in E : IsExpired(store.entries[k], now)
      /\ \A k \in DOMAIN store.entries : k \notin E => ~IsExpired(store.entries[k], now)
  BY Zenon DEF Expired
<1>5. o.store = t /\ o.status = "kOk"
  BY <1>3, SnapshotFollows, Zenon
<1>6. o.value.entries = [k \in DOMAIN t.entries |->
                           [value |-> t.entries[k].value, ttl |-> Left(t.entries[k])]]
  BY Zenon DEF Snapshot, Outcome
<1> HIDE DEF o, E
<1>7. t.entries = [k \in DOMAIN store.entries \ E |-> store.entries[k]]
  BY <1>3, <1>4, EraseFollows
<1>8. Visible(t, later) = Visible(store, later)
  BY <1>3, <1>4, EraseExpiredVisible, Zenon
<1> HIDE DEF t
<1>9. Visible(store', now') = Contract!Alive(w, now')
  BY <1>2, <1>3, <1>5, <1>8, AliveVisible
<1>10. DOMAIN copy = DOMAIN w
  <2>1. DOMAIN copy = DOMAIN t.entries
    BY <1>2, <1>6, Zenon
  <2>2. \A k : k \in DOMAIN t.entries <=> k \in DOMAIN w
    BY <1>4, <1>7, VisibleKeys
  <2> QED
    BY <2>1, <2>2, Zenon
<1>11. ASSUME NEW k \in DOMAIN w
       PROVE  /\ copy[k].value = w[k].value
              /\ IF w[k].expires_at = Never THEN copy[k].ttl = Never
                 ELSE /\ copy[k].ttl # Never
                      /\ later + copy[k].ttl * TicksPerMs <=
                            IF w[k].expires_at > later THEN w[k].expires_at ELSE later
                      /\ w[k].expires_at < later + (copy[k].ttl + 1) * TicksPerMs
  <2> DEFINE d == store.entries[k].expires_at
             n == Left(store.entries[k])
  <2>1. k \in DOMAIN store.entries \ E
    BY <1>4, VisibleKeys, Zenon
  <2>2. t.entries[k] = store.entries[k] /\ k \in DOMAIN t.entries
    BY <1>7, <2>1, Zenon
  <2>3. w[k].value = store.entries[k].value /\ w[k].expires_at = d
    BY VisibleKeys
  <2>4. copy[k].value = store.entries[k].value /\ copy[k].ttl = n
    BY <1>2, <1>6, <2>2
  <2>5. d \in Int \cup {Never}
    BY <1>3, <2>1, Zenon DEF Sound, IsStore, Entry
  <2>6. CASE d = Never
    BY <2>3, <2>4, <2>6, Zenon
  <2>7. CASE d # Never
    <3>1. d \in Int /\ TicksPerMs \in Nat \ {0}
      BY <2>5, <2>7, KvStoreAssumption, ZenonT(40)
    <3>2. CASE d < later
      <4>1. n = 0 /\ 0 # Never
        BY <2>7, <3>2, CallsAssumption
      <4> QED
        BY <1>3, <2>3, <2>4, <2>7, <3>1, <3>2, <4>1
    <3>3. CASE ~(d < later)
      <4>1. n = (d - later) \div TicksPerMs
        BY <2>7, <3>3, Zenon DEF Millis
      <4> HIDE DEF n
      <4>2. d - later \in Int
        BY <1>3, <3>1
      <4>3. n \in Int /\ n * TicksPerMs <= d - later /\ d - later < n * TicksPerMs + TicksPerMs
        BY <3>1, <4>1, <4>2, Quotient, ZenonT(40)
      <4>4. n * TicksPerMs \in Int /\ (n + 1) * TicksPerMs = n * TicksPerMs + TicksPerMs
        BY <3>1, <4>3
      <4>5. n # Never
        BY <4>3, CallsAssumption, Zenon
      <4> HIDE DEF d
      <4>6. /\ later + n * TicksPerMs <= (IF d > later THEN d ELSE later)
            /\ d < later + (n + 1) * TicksPerMs
        BY <1>3, <3>1, <3>3, <4>3, <4>4
      <4> QED
        BY <2>3, <2>4, <2>7, <4>5, <4>6
    <3> QED
      BY <3>2, <3>3, Zenon
  <2> QED
    BY <2>6, <2>7, Zenon
<1> HIDE DEF w
<1>12. \A k \in DOMAIN w :
         /\ copy[k].value = w[k].value
         /\ IF w[k].expires_at = Never THEN copy[k].ttl = Never
            ELSE /\ copy[k].ttl # Never
                 /\ later + copy[k].ttl * TicksPerMs <=
                       IF w[k].expires_at > later THEN w[k].expires_at ELSE later
                 /\ w[k].expires_at < later + (copy[k].ttl + 1) * TicksPerMs
  BY <1>11, Zenon
<1>13. reply'.call.op = "Snapshot" /\ reply'.status = "kOk" /\ now' >= now
  BY <1>2, <1>3, <1>5, Zenon
<1> QED
  BY <1>2, <1>9, <1>10, <1>12, <1>13 DEF Contract!Snapshot, Contract!call, w

(* A Clear is the contract's. *)
LEMMA ClearImplements ==
    ASSUME StoreInv, DoClear
    PROVE  Contract!Clear
<1>1. /\ store' = Clear(store) /\ now' = now
      /\ reply'.call = [op |-> "Clear"]
  BY DEF DoClear, Call, Outcome
<1>2. DOMAIN Clear(store).entries = {}
  BY ClearFollows, Zenon DEF StoreInv
<1>3. Visible(store', now') = [k \in {} |-> Visible(store, now)[k]]
  <2> DEFINE v == Visible(store', now')
  <2>1. v = [k \in DOMAIN v |-> v[k]]
    BY Zenon DEF Visible
  <2>2. DOMAIN v = {}
    BY <1>1, <1>2, VisibleKeys, Zenon
  <2> HIDE DEF v
  <2>3. v = [k \in {} |-> Visible(store, now)[k]]
    BY <2>1, <2>2, Zenon
  <2> QED
    BY <2>3, Zenon DEF v
<1> QED
  BY <1>1, <1>3 DEF Contract!Clear, Contract!call, Contract!Restrict

----------------------------------------------------------------------------
(* Every step of the store is a step of the contract, or invisible. *)
LEMMA ContractStep ==
    ASSUME StoreInv, DeadlineInv, DeadlinesFit, Next
    PROVE  \/ Contract!Next /\ store'.policy = store.policy
           \/ /\ Visible(store', now') = Visible(store, now)
              /\ UNCHANGED <<now, reply>> /\ store'.policy = store.policy
<1>1. store'.policy = store.policy
  BY StepFollows, Zenon DEF Follows
<1>2. CASE DoActiveExpire
  BY <1>1, <1>2, ActiveExpireStutters, Zenon
<1>3. CASE ~DoActiveExpire
  <2>1. Contract!Next
    BY <1>3, TickImplements, GetImplements, SetImplements, MSetImplements, DeleteImplements,
       ExistsImplements, ExpireImplements, TtlImplements, IncrementImplements,
       SnapshotImplements, ClearImplements
    DEF Next, Contract!Next
  <2> QED
    BY <1>1, <2>1, Zenon
<1> QED
  BY <1>2, <1>3, Zenon

(* The store with its lazy and its periodic deletion, its evictions and    *)
(* its trial copies implements the map of the contract, whatever its keys, *)
(* budget and policy, as long as no deadline overflows the clock.          *)
THEOREM StoreImplementsContract == DeadlinesFit => (Spec => ImplementsContract)
<1> SUFFICES ASSUME DeadlinesFit PROVE Spec => Contract!Spec
  BY Zenon DEF ImplementsContract
<1>1. Init => Contract!Init /\ StoreInv /\ DeadlineInv
  <2> SUFFICES ASSUME Init PROVE Contract!Init /\ StoreInv /\ DeadlineInv
    BY Zenon
  <2>1. PICK o \in Options : store = EmptyStore(o.maxmemory, o.policy)
    BY Zenon DEF Init
  <2>2. Sound(store) /\ DOMAIN store.entries = {} /\ now = 0
    BY <2>1, OptionsAssumption, EmptyStoreSound, Zenon DEF Init
  <2>3. DOMAIN Visible(store, now) = {}
    BY <2>2, VisibleKeys, Zenon
  <2> QED
    BY <2>2, <2>3, CallsAssumption DEF Contract!Init, StoreInv, DeadlineInv
<1>2. StoreInv /\ DeadlineInv /\ [Next]_vars =>
         /\ StoreInv' /\ DeadlineInv'
         /\ [Contract!Next /\ UNCHANGED (store.policy # "noeviction")]_<<
               store.policy # "noeviction", Visible(store, now), now, reply>>
  <2> SUFFICES ASSUME StoreInv, DeadlineInv, [Next]_vars
               PROVE  /\ StoreInv' /\ DeadlineInv'
                      /\ [Contract!Next /\ UNCHANGED (store.policy # "noeviction")]_<<
                            store.policy # "noeviction", Visible(store, now), now, reply>>
    BY Zenon
  <2>1. CASE Next
    BY <2>1, StepFollows, DeadlineStep, ContractStep, Zenon
  <2>2. CASE UNCHANGED vars
    BY <2>2, Zenon DEF vars, StoreInv, DeadlineInv
  <2> QED
    BY <2>1, <2>2, Zenon
<1> QED
  BY <1>1, <1>2, PTL DEF Spec, Contract!Spec
============================================================================
