------------------------------ MODULE KvStore ------------------------------
(***************************************************************************)
(* KvStore (src/storage/kv_store.cpp) as a value and its methods as        *)
(* operators: a method maps a store and its arguments to the set of        *)
(* outcomes it may have.  The map's iteration order and the pseudo-random  *)
(* generator are not modelled; what depends on them is a choice.  A method *)
(* takes the readings of the clock it makes as arguments.                  *)
(*                                                                         *)
(* Times are in ticks of the steady clock, TicksPerMs of them a            *)
(* millisecond.  A text is a record of the integer std::from_chars makes   *)
(* of it, or NotInteger, and its size.                                     *)
(***************************************************************************)
EXTENDS Integers, FiniteSets, FiniteSetsExt, Functions, TLC

CONSTANTS
    KeySize,        \* key -> its size
    EntrySize,      \* sizeof(Entry)
    FreqMax,        \* the largest frequency (uint64)
    IntMin, IntMax, \* the range of int64_t
    TicksPerMs, MsPerSecond,
    TimeHalf,       \* time points are -TimeHalf .. TimeHalf - 1 (int64)
    Never,          \* no deadline: nullopt
    NotInteger

Keys == DOMAIN KeySize

Policies == {"lru", "lfu", "random", "noeviction"}

ASSUME KvStoreAssumption ==
    /\ KeySize \in [Keys -> Nat] /\ IsFiniteSet(Keys)   \* a string has a largest size
    /\ EntrySize \in Nat \ {0} /\ FreqMax \in Nat \ {0}
    /\ IntMin \in Int /\ IntMax \in Int /\ IntMin < 0 /\ 0 < IntMax
    /\ {TicksPerMs, MsPerSecond, TimeHalf} \subseteq Nat \ {0}

(* std::to_string. *)
DecimalText(n) ==
    LET magnitude == IF n < 0 THEN -n ELSE n IN
    [int  |-> n,
     size |-> (IF n < 0 THEN 1 ELSE 0) + 1 + Cardinality({e \in 1..magnitude : 10^e <= magnitude})]

(* A time point ms milliseconds after t.  The sum is of signed 64-bit      *)
(* integers: an overflow is undefined, and wraps in the machine code.      *)
After(t, ms) == ((t + ms * TicksPerMs + TimeHalf) % (2 * TimeHalf)) - TimeHalf

(* duration_cast to milliseconds of a positive duration truncates. *)
Millis(ticks) == ticks \div TicksPerMs

----------------------------------------------------------------------------
NextAccess(s) == s.access_clock + 1

Bump(frequency) == IF frequency < FreqMax THEN frequency + 1 ELSE frequency

EmptyStore(maxmemory, policy) ==
    [entries |-> [k \in {} |-> <<>>], memory_usage |-> 0, access_clock |-> 0,
     maxmemory |-> maxmemory, policy |-> policy]

Has(s, k) == k \in DOMAIN s.entries

Outcome(s, status, value) == [store |-> s, status |-> status, value |-> value]

(* A reply that is a number, or no value at all. *)
Number(n) == [int |-> n]
Nothing == Number(NotInteger)

(* Fault: a key that expires now is still there. *)
IsExpired_Late(entry, now) == entry.expires_at # Never /\ entry.expires_at < now

IsExpired(entry, now) == entry.expires_at # Never /\ entry.expires_at <= now

EntryBytes(key, value) == EntrySize + KeySize[key] + value.size

BytesOf(s, K) == SumFunction([k \in K |-> EntryBytes(k, s.entries[k].value)])

(* entries_.erase for every key in K, with its share of memory_usage_. *)
Erase(s, K) ==
    [s EXCEPT !.entries = Restrict(@, DOMAIN @ \ K), !.memory_usage = @ - BytesOf(s, K)]

Expired(s, K, now) == {k \in K \cap DOMAIN s.entries : IsExpired(s.entries[k], now)}

RemoveIfExpired(s, key, now) == Erase(s, Expired(s, {key}, now))

----------------------------------------------------------------------------
(***************************************************************************)
(* Eviction.  MakeRoom and MSet take victims one by one, each among those  *)
(* the policy ranks lowest, until the excess is gone.  So a set V can be   *)
(* what they took when it is closed under lower rank, it covers the        *)
(* excess, and without one of its highest-ranked members it did not yet.   *)
(***************************************************************************)
Rank(s, k) ==
    CASE s.policy = "lru" -> s.entries[k].last_access
      [] s.policy = "lfu" -> s.entries[k].frequency
      [] OTHER -> 0

(* Fault: one victim too few when the rest would just fit. *)
Enough_OneLess(s, V, excess) == BytesOf(s, V) >= excess - 1

Enough(s, V, excess) == BytesOf(s, V) >= excess

Victims(s, candidates, excess) ==
    {V \in SUBSET candidates :
        /\ \A v \in V, k \in candidates \ V : Rank(s, v) <= Rank(s, k)
        /\ Enough(s, V, excess)
        /\ V # {} => \E v \in V :
              /\ \A u \in V : Rank(s, u) <= Rank(s, v)
              /\ ~Enough(s, V \ {v}, excess)}

(* The sets of victims MakeRoom may take; no such set: it returns false.   *)
(* Its callers have checked that the new entries fit without the old, so   *)
(* it returns false before it takes any.                                   *)
MakeRoom(s, projected, protected_key) ==
    IF s.policy = "noeviction" /\ projected > s.maxmemory THEN {}
    ELSE Victims(s, DOMAIN s.entries \ {protected_key}, projected - s.maxmemory)

----------------------------------------------------------------------------
Get(s, key, now) ==
    LET t == RemoveIfExpired(s, key, now) IN
    IF ~Has(t, key) THEN {Outcome(t, "miss", Nothing)}
    ELSE {Outcome([t EXCEPT !.access_clock = NextAccess(t),
                            !.entries[key].last_access = NextAccess(t),
                            !.entries[key].frequency = Bump(@)],
                  "hit", t.entries[key].value)}

ConditionFails(request, exists) ==
    \/ request.condition = "kIfAbsent" /\ exists
    \/ request.condition = "kIfPresent" /\ ~exists

(* Fault: the bytes of the value that is replaced are counted for ever. *)
OldBytes_Kept(s, key) == 0

OldBytes(s, key) == IF Has(s, key) THEN BytesOf(s, {key}) ELSE 0

(* entries, with those of more written over them. *)
Merge(entries, more) ==
    [k \in DOMAIN entries \cup DOMAIN more |-> IF k \in DOMAIN more THEN more[k] ELSE entries[k]]

Put(s, key, value, expires_at) ==
    [s EXCEPT !.entries = Merge(@, [k \in {key} |->
                  [value |-> value, expires_at |-> expires_at,
                   last_access |-> NextAccess(s), frequency |-> 1]]),
              !.access_clock = NextAccess(s),
              !.memory_usage = @ - OldBytes(s, key) + EntryBytes(key, value)]

Set(s, request, now) ==
    LET key == request.key
        t == RemoveIfExpired(s, key, now)
        new_bytes == EntryBytes(key, request.value)
        victims == MakeRoom(t, t.memory_usage - OldBytes(t, key) + new_bytes, key)
        expires_at == IF request.ttl = Never THEN Never ELSE After(now, request.ttl)
    IN
    IF ConditionFails(request, Has(t, key)) THEN {Outcome(t, "kConditionFailed", Nothing)}
    ELSE IF new_bytes > t.maxmemory \/ victims = {} THEN {Outcome(t, "kNoMemory", Nothing)}
    ELSE {Outcome(Put(Erase(t, V), key, request.value, expires_at), "kOk", request.value) :
             V \in victims}

(* Fault: MSet works on the store itself. *)
AfterRefusal_InPlace(s, trial) == trial

AfterRefusal(s, trial) == s

Required(updates) == SumFunction([k \in DOMAIN updates |-> EntryBytes(k, updates[k])])

(* The entries are written in the order of the caller's hash map.          *)
PutAll(s, updates, order) ==
    [s EXCEPT !.entries = Merge(@, [k \in DOMAIN updates |->
                  [value |-> updates[k], expires_at |-> Never,
                   last_access |-> order[k], frequency |-> 1]]),
              !.access_clock = @ + Cardinality(DOMAIN updates),
              !.memory_usage = @ + Required(updates)]

(* MSet works on a copy, which it drops when it fails.  updates is a       *)
(* function: of a key given twice the last value counts.  Expired keys are *)
(* not looked for.                                                         *)
MSet(s, updates) ==
    LET K == DOMAIN updates
        trial == Erase(s, K \cap DOMAIN s.entries)
        projected == trial.memory_usage + Required(updates)
        victims == IF s.policy = "noeviction" /\ projected > s.maxmemory THEN {}
                   ELSE Victims(trial, DOMAIN trial.entries, projected - s.maxmemory)
        orders == Bijection(K, (s.access_clock + 1)..(s.access_clock + Cardinality(K)))
    IN
    IF Required(updates) > s.maxmemory \/ victims = {}
    THEN {Outcome(AfterRefusal(s, trial), "kNoMemory", Nothing)}
    ELSE {Outcome(PutAll(Erase(trial, V), updates, order), "kOk", Nothing) :
             V \in victims, order \in orders}

(* Delete and Exists are given keys one by one by their only caller. *)
Delete(s, key, now) ==
    LET t == RemoveIfExpired(s, key, now) IN
    IF Has(t, key) THEN {Outcome(Erase(t, {key}), "kOk", Number(1))} ELSE {Outcome(t, "kOk", Number(0))}

Exists(s, key, now) ==
    LET t == RemoveIfExpired(s, key, now) IN
    {Outcome(t, "kOk", Number(IF Has(t, key) THEN 1 ELSE 0))}

Expire(s, key, ttl, now) ==
    LET t == RemoveIfExpired(s, key, now) IN
    IF ~Has(t, key) THEN {Outcome(t, "kOk", Number(0))}
    ELSE IF ttl <= 0 THEN {Outcome(Erase(t, {key}), "kOk", Number(1))}
    ELSE {Outcome([t EXCEPT !.entries[key].expires_at = After(now, ttl)], "kOk", Number(1))}

TtlSeconds(s, key, now) ==
    LET t == RemoveIfExpired(s, key, now)
        left == t.entries[key].expires_at - now
    IN
    {Outcome(t, "kOk", Number(IF ~Has(t, key) THEN -2
                              ELSE IF t.entries[key].expires_at = Never THEN -1
                              ELSE Millis(left) \div MsPerSecond))}

(* Fault: the range check looks at the wrong end. *)
Overflows_Wrong(current, delta) == current + delta < IntMin

Overflows(current, delta) == current + delta \notin IntMin..IntMax

(* Set reads the clock again, at later, and finds the key expired if its   *)
(* deadline has passed meanwhile.                                          *)
Increment(s, key, delta, now, later) ==
    LET t == RemoveIfExpired(s, key, now)
        entry == t.entries[key]
        current == IF Has(t, key) THEN entry.value.int ELSE 0
        ttl == IF Has(t, key) /\ entry.expires_at # Never
               THEN Millis(entry.expires_at - now) ELSE Never
        request == [key |-> key, value |-> DecimalText(current + delta), ttl |-> ttl,
                    condition |-> "kNone"]
    IN
    IF current = NotInteger THEN {Outcome(t, "kNotInteger", Nothing)}
    ELSE IF Overflows(current, delta) THEN {Outcome(t, "kOverflow", Nothing)}
    ELSE Set(t, request, later)

----------------------------------------------------------------------------
(* At most max_samples entries are examined, in a rotation over the map.   *)
ActiveExpire(s, max_samples, now) ==
    LET n == Cardinality(DOMAIN s.entries)
        examined == kSubset(IF n < max_samples THEN n ELSE max_samples, DOMAIN s.entries)
    IN {Erase(s, Expired(s, E, now)) : E \in examined}

(* Every entry is examined at now; a second reading of the clock, later,   *)
(* gives the remaining times.                                              *)
Snapshot(s, now, later) ==
    LET t == Erase(s, Expired(s, DOMAIN s.entries, now))
        Remaining(entry) ==
            IF entry.expires_at = Never THEN Never
            ELSE IF entry.expires_at < later THEN 0 ELSE Millis(entry.expires_at - later)
    IN Outcome(t, "kOk", [entries |-> [k \in DOMAIN t.entries |->
           [value |-> t.entries[k].value, ttl |-> Remaining(t.entries[k])]]])

Clear(s) == [EmptyStore(s.maxmemory, s.policy) EXCEPT !.access_clock = s.access_clock]

----------------------------------------------------------------------------
(* What a client can see of s at now. *)
Visible(s, now) ==
    [k \in DOMAIN s.entries \ Expired(s, DOMAIN s.entries, now) |->
        [value |-> s.entries[k].value, expires_at |-> s.entries[k].expires_at]]

(* What a store is between two calls: its entries, and the count of the    *)
(* bytes they take, which is within the budget.                            *)
Text == [int : Int \cup {NotInteger}, size : Nat]
Entry == [value : Text, expires_at : Int \cup {Never}, last_access : Nat, frequency : Nat]
IsStore(s) ==
    /\ DOMAIN s.entries \subseteq Keys /\ s.entries \in [DOMAIN s.entries -> Entry]
    /\ s \in [entries : {s.entries}, memory_usage : Int, access_clock : Nat,
              maxmemory : Nat, policy : Policies]

Sound(s) ==
    /\ IsStore(s)
    /\ s.memory_usage = BytesOf(s, DOMAIN s.entries)
    /\ s.memory_usage <= s.maxmemory

(* A store that a method may leave where it found s: still sound, and of   *)
(* the same budget and policy.                                             *)
Follows(s, t) == Sound(t) /\ t.maxmemory = s.maxmemory /\ t.policy = s.policy
=============================================================================
