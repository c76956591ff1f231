----------------------------- MODULE StoreLoops -----------------------------
(***************************************************************************)
(* The two loops of KvStore, one iteration a step, as a shard worker runs  *)
(* them: MakeRoom, which evicts one victim after the other, and            *)
(* ActiveExpire, which examines a few entries from a position that moves   *)
(* on.  KvStore gives their results as sets, without the loops; here the   *)
(* two are compared, and the scan has its position.                        *)
(*                                                                         *)
(* The order in which entries_ is iterated over is a sequence of its keys; *)
(* a new key may come anywhere in it, and may have the map rehashed.       *)
(***************************************************************************)
EXTENDS KvStore, Sequences

CONSTANTS
    Stores,         \* the stores at the start
    Values,
    max_samples,    \* the argument of ActiveExpire, 64 in the code
    MaxWrites       \* bound: keys written

ASSUME LoopsAssumption ==
    (\A s \in Stores : Sound(s)) /\ Values \subseteq Text /\ {max_samples, MaxWrites} \subseteq Nat

VARIABLES
    table, order, expire_scan_offset_,
    loop,           \* the loop that runs, with its local variables
    clock, writes

loopVars == <<table, order, expire_scan_offset_, loop, clock, writes>>

NoLoop == [op |-> "none"]

Orders(s) == Bijection(1..Cardinality(DOMAIN s.entries), DOMAIN s.entries)

LoopInit ==
    /\ table \in Stores /\ order \in Orders(table)
    /\ expire_scan_offset_ = 0
    /\ loop = NoLoop
    /\ clock = 0 /\ writes = 0

ClockTick ==
    /\ clock = 0 /\ clock' = 1
    /\ UNCHANGED <<table, order, expire_scan_offset_, loop, writes>>

Size == Len(order)

(* The order without the key in K, if there is one. *)
OrderWithout(K) ==
    IF K = {} THEN order
    ELSE LET i == CHOOSE i \in DOMAIN order : order[i] \in K
         IN SubSeq(order, 1, i - 1) \o SubSeq(order, i + 1, Size)

(* Where ActiveExpire begins, or returns at once. *)
StartOfScan(s, keys) ==
    IF keys = <<>> THEN NoLoop
    ELSE [op |-> "ActiveExpire", original |-> s, now |-> clock, examined |-> 0,
          skip |-> expire_scan_offset_ % Len(keys), iterator |-> expire_scan_offset_ % Len(keys)]

(* entries_.erase, of one key at most. *)
EraseKeys(K) ==
    /\ table' = Erase(table, K)
    /\ order' = OrderWithout(K)

----------------------------------------------------------------------------
(***************************************************************************)
(* Set with MakeRoom; what is too large for an empty store is refused      *)
(* before it.                                                              *)
(***************************************************************************)
BeginSet(key, value) ==
    /\ loop = NoLoop /\ writes < MaxWrites
    /\ EraseKeys(Expired(table, {key}, clock))
    /\ loop' = IF EntryBytes(key, value) > table.maxmemory THEN StartOfScan(table', order')
               ELSE [op |-> "MakeRoom", original |-> table', key |-> key,
                     value |-> value,
                     projected |-> table'.memory_usage - OldBytes(table', key)
                                     + EntryBytes(key, value)]
    /\ writes' = writes + 1
    /\ UNCHANGED <<expire_scan_offset_, clock>>

Candidates == DOMAIN table.entries \ {loop.key}

(* Fault: the entry that is used most. *)
SelectVictim_Hottest ==
    {v \in Candidates : \A k \in Candidates : Rank(table, v) >= Rank(table, k)}

(* Entries of the lowest rank; which of them depends on the hash order. *)
SelectVictim ==
    {v \in Candidates : \A k \in Candidates : Rank(table, v) <= Rank(table, k)}

Full == loop.projected > table.maxmemory

(* Fault: a store with one entry left has no victim. *)
NoVictim_OneLeft == table.policy = "noeviction" \/ Cardinality(DOMAIN table.entries) <= 1

NoVictim == table.policy = "noeviction" \/ SelectVictim = {}

Evict ==
    /\ loop.op = "MakeRoom" /\ Full /\ ~NoVictim
    /\ \E v \in SelectVictim :
        /\ EraseKeys({v})
        /\ loop' = [loop EXCEPT !.projected = @ - BytesOf(table, {v})]
    /\ UNCHANGED <<expire_scan_offset_, clock, writes>>

(* Shard::Run scans after every task. *)
EndSet ==
    /\ loop.op = "MakeRoom" /\ (Full => NoVictim)
    /\ IF Full THEN UNCHANGED <<table, order>>
       ELSE /\ table' = Put(table, loop.key, loop.value, Never)
            /\ IF Has(table, loop.key) THEN UNCHANGED order ELSE order' \in Orders(table')
    /\ loop' = StartOfScan(table', order')
    /\ UNCHANGED <<expire_scan_offset_, clock, writes>>

----------------------------------------------------------------------------
(***************************************************************************)
(* ActiveExpire.                                                           *)
(***************************************************************************)
(* An idle shard wakes up to scan. *)
BeginScan ==
    /\ loop = NoLoop /\ order # <<>>
    /\ loop' = StartOfScan(table, order)
    /\ UNCHANGED <<table, order, expire_scan_offset_, clock, writes>>

MoreToExamine ==
    /\ order # <<>>
    /\ loop.examined < max_samples
    /\ loop.examined < Cardinality(DOMAIN loop.original.entries)

(* Fault: an entry that is removed does not count. *)
Examined_KeptOnly(gone) == loop.examined + (IF gone THEN 0 ELSE 1)

Examined(gone) == loop.examined + 1

(* Erasing moves the entries behind the iterator one place forward. *)
Examine ==
    /\ loop.op = "ActiveExpire" /\ MoreToExamine
    /\ LET at == IF loop.iterator = Size THEN 0 ELSE loop.iterator
           key == order[at + 1]
           gone == IsExpired(table.entries[key], loop.now)
       IN
       /\ EraseKeys(IF gone THEN {key} ELSE {})
       /\ loop' = [loop EXCEPT !.iterator = IF gone THEN at ELSE at + 1, !.examined = Examined(gone)]
    /\ UNCHANGED <<expire_scan_offset_, clock, writes>>

(* Fault: the next scan starts at the front again. *)
NextOffset_Front == 0

NextOffset == IF order = <<>> THEN 0 ELSE (loop.skip + loop.examined) % Size

EndScan ==
    /\ loop.op = "ActiveExpire" /\ ~MoreToExamine
    /\ expire_scan_offset_' = NextOffset
    /\ loop' = NoLoop
    /\ UNCHANGED <<table, order, clock, writes>>

----------------------------------------------------------------------------
LoopNext ==
    \/ ClockTick
    \/ \E key \in Keys, value \in Values : BeginSet(key, value)
    \/ Evict \/ EndSet \/ BeginScan \/ Examine \/ EndScan

LoopSpec == LoopInit /\ [][LoopNext]_loopVars

(* The worker thread runs, and wakes up every 100 ms. *)
LoopFairness ==
    /\ WF_loopVars(Evict) /\ WF_loopVars(EndSet) /\ WF_loopVars(BeginScan)
    /\ WF_loopVars(Examine) /\ WF_loopVars(EndScan)

FairLoopSpec == LoopSpec /\ LoopFairness

----------------------------------------------------------------------------
(* The loop is the MakeRoom of KvStore.  The entries it has taken when it  *)
(* ends are a set that Victims allows: none goes that the policy ranks     *)
(* above one that stays, and none that was not needed.  It gives up only   *)
(* where nothing may be evicted, so no refusal comes after a loss.         *)
LoopIsMakeRoom ==
    LET taken == DOMAIN loop.original.entries \ DOMAIN table.entries
        allowed == MakeRoom(loop.original,
                            loop.original.memory_usage - OldBytes(loop.original, loop.key)
                              + EntryBytes(loop.key, loop.value), loop.key)
    IN loop.op = "MakeRoom" => /\ ~Full => taken \in allowed
                               /\ Full /\ NoVictim => taken = {} /\ allowed = {}

(* A scan examines as many different entries as it may, removes the        *)
(* expired ones among them and nothing else, although the map changes      *)
(* under its iterator: it is the ActiveExpire of KvStore.                  *)
ScanIsActiveExpire ==
    loop.op = "ActiveExpire" /\ ~MoreToExamine =>
        table \in ActiveExpire(loop.original, max_samples, loop.now)

(* Every expired entry is removed in the end, without being asked for and  *)
(* wherever it is in the map: the position of the scan skips entries when  *)
(* others are removed, but not for ever.                                   *)
ExpiredAreRemoved ==
    \A k \in Keys : (Expired(table, {k}, clock) # {}) ~> (Expired(table, {k}, clock) = {})
=============================================================================
