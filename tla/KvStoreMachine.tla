--------------------------- MODULE KvStoreMachine --------------------------
(***************************************************************************)
(* One KvStore under calls in any order, as its shard worker makes them,   *)
(* while the steady clock moves on.                                        *)
(***************************************************************************)
EXTENDS KvStore

CONSTANTS
    Options,        \* [maxmemory, policy] a store may be made with
    Texts,          \* the texts clients write
    Conditions,     \* the conditions on Set they use
    Ttls,           \* the times to live they ask for, in milliseconds
    Samples,        \* the argument of ActiveExpire, 64 in the code
    MaxNow,         \* bound: the last tick of the clock
    MaxCalls        \* bound: accesses counted by access_clock_

ASSUME OptionsAssumption == \A o \in Options : o.maxmemory \in Nat /\ o.policy \in Policies

(* SET refuses a time to live that is not positive, and EXPIRE makes it 0. *)
ASSUME CallsAssumption ==
    /\ Texts \subseteq Text /\ Ttls \subseteq Nat \ {0}
    /\ MaxNow \in Nat /\ Never \notin Int

VARIABLES store, now, reply

vars == <<store, now, reply>>

Requests ==
    [key : Keys, value : Texts, ttl : Ttls \cup {Never},
     condition : Conditions]

Updates == UNION {[K -> Texts] : K \in (SUBSET Keys) \ {{}}}

Init ==
    /\ \E o \in Options : store = EmptyStore(o.maxmemory, o.policy)
    /\ now = 0
    /\ reply = [call |-> [op |-> "none"], status |-> "none", value |-> Nothing]

(* The call c ends with one of outcomes, at the clock reading t. *)
Call(c, outcomes, t) ==
    /\ store.access_clock < MaxCalls
    /\ now' = t
    /\ \E o \in outcomes :
        /\ store' = o.store
        /\ reply' = [call |-> c, status |-> o.status, value |-> o.value]

Tick ==
    /\ now < MaxNow
    /\ now' = now + 1
    /\ UNCHANGED <<store, reply>>

DoGet == \E k \in Keys : Call([op |-> "Get", key |-> k], Get(store, k, now), now)

DoSet == \E r \in Requests :
    Call([op |-> "Set", key |-> r.key, value |-> r.value, ttl |-> r.ttl,
          condition |-> r.condition], Set(store, r, now), now)

DoMSet == \E u \in Updates : Call([op |-> "MSet", updates |-> u], MSet(store, u), now)

DoDelete == \E k \in Keys : Call([op |-> "Delete", key |-> k], Delete(store, k, now), now)

DoExists == \E k \in Keys : Call([op |-> "Exists", key |-> k], Exists(store, k, now), now)

DoExpire == \E k \in Keys, ttl \in Ttls \cup {0} :
    Call([op |-> "Expire", key |-> k, ttl |-> ttl], Expire(store, k, ttl, now), now)

DoTtl == \E k \in Keys :
    Call([op |-> "TtlSeconds", key |-> k], TtlSeconds(store, k, now), now)

DoIncrement == \E k \in Keys, delta \in {1, -1}, later \in now..MaxNow :
    LET outcomes == Increment(store, k, delta, now, later) IN
    /\ (\E o \in outcomes : o.status \in {"kNotInteger", "kOverflow"}) => later = now
    /\ Call([op |-> "Increment", key |-> k, delta |-> delta], outcomes, later)

DoActiveExpire ==
    /\ \E t \in ActiveExpire(store, Samples, now) : store' = t
    /\ UNCHANGED <<now, reply>>

DoSnapshot == \E later \in now..MaxNow :
    Call([op |-> "Snapshot"], {Snapshot(store, now, later)}, later)

DoClear == Call([op |-> "Clear"], {Outcome(Clear(store), "kOk", Nothing)}, now)

Next ==
    \/ Tick \/ DoGet \/ DoSet \/ DoMSet \/ DoDelete \/ DoExists \/ DoExpire \/ DoTtl
    \/ DoIncrement \/ DoActiveExpire \/ DoSnapshot \/ DoClear

Spec == Init /\ [][Next]_vars

----------------------------------------------------------------------------
(* The running count memory_usage_ is what the entries really take, after  *)
(* every mixture of overwriting, eviction, expiry and batch writes: it     *)
(* never drifts and never wraps below zero.                                *)
MemoryAccounting == store.memory_usage = BytesOf(store, DOMAIN store.entries)

(* The store never holds more than its budget. *)
MemoryBounded == store.memory_usage <= store.maxmemory

(* A write that is refused, for whatever reason, costs no client any key:  *)
(* MakeRoom evicts nothing unless it succeeds.                             *)
RefusedWriteKeepsData ==
    [][reply'.status \in {"kConditionFailed", "kNoMemory", "kNotInteger", "kOverflow"} =>
          Visible(store', now') = Visible(store, now')]_vars

(* A client that just wrote a key can read it back. *)
AcceptedSetIsReadable ==
    [][reply' # reply /\ reply'.call.op = "Set" /\ reply'.status = "kOk" =>
          reply'.call.key \in DOMAIN Visible(store', now')]_vars

(* No time to live clients ask for makes a deadline that overflows. *)
DeadlinesFit == \A ttl \in Ttls : MaxNow + ttl * TicksPerMs < TimeHalf

(* The store is the map of CacheContract, seen through lazy deletion.      *)
Contract == INSTANCE CacheContract
    WITH data <- Visible(store, now), evicting <- store.policy # "noeviction"
ImplementsContract == Contract!Spec
=============================================================================
