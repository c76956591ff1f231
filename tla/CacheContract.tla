--------------------------- MODULE CacheContract ---------------------------
(***************************************************************************)
(* What a store promises to the command layer (command/database.h): a map  *)
(* from keys to values with deadlines, read and written atomically.  There *)
(* is no memory limit here, no lazy deletion and no access record: a key   *)
(* is gone the moment its deadline is reached, and a store that evicts     *)
(* may forget other keys when a write is accepted, and only then.          *)
(***************************************************************************)
EXTENDS Integers, Functions

CONSTANTS
    IntMin, IntMax, TicksPerMs, MsPerSecond,
    Never, NotInteger

VARIABLES
    evicting,       \* does the store evict?
    data,           \* key -> [value, expires_at]
    now,
    reply           \* the last call, its result and the clock it was made at

(* The call of which reply is the record. *)
call == reply'.call

Alive(d, t) == RestrictValues(d, LAMBDA e : e.expires_at = Never \/ e.expires_at > t)

Returns(n) == reply'.status = "kOk" /\ reply'.value.int = n
Refused(status) == reply'.status = status /\ data' = data

(* An accepted write of K: other keys stay, unless the store evicts. *)
OthersStay(K) ==
    /\ DOMAIN data' \subseteq DOMAIN data \cup K
    /\ ~evicting => DOMAIN data \ K \subseteq DOMAIN data'
    /\ \A k \in DOMAIN data' \ K : data'[k] = data[k]

Deadline(ttl) == IF ttl = Never THEN Never ELSE now + ttl * TicksPerMs

----------------------------------------------------------------------------
Tick ==
    /\ now' > now
    /\ data' = Alive(data, now')
    /\ UNCHANGED reply

Get ==
    /\ call.op = "Get"
    /\ UNCHANGED <<data, now>>
    /\ IF call.key \in DOMAIN data THEN reply'.status = "hit" /\ reply'.value = data[call.key].value
       ELSE reply'.status = "miss"

ConditionHolds(request) ==
    /\ request.condition = "kIfAbsent" => request.key \notin DOMAIN data
    /\ request.condition = "kIfPresent" => request.key \in DOMAIN data

Set ==
    /\ call.op = "Set"
    /\ now' = now
    /\ \/ ~ConditionHolds(call) /\ Refused("kConditionFailed")
       \/ ConditionHolds(call) /\ Refused("kNoMemory")
       \/ /\ ConditionHolds(call)
          /\ reply'.status = "kOk"
          /\ call.key \in DOMAIN data'
          /\ data'[call.key] = [value |-> call.value, expires_at |-> Deadline(call.ttl)]
          /\ OthersStay({call.key})

MSet ==
    /\ call.op = "MSet"
    /\ now' = now
    /\ \/ Refused("kNoMemory")
       \/ /\ reply'.status = "kOk"
          /\ DOMAIN call.updates \subseteq DOMAIN data'
          /\ \A k \in DOMAIN call.updates :
                data'[k] = [value |-> call.updates[k], expires_at |-> Never]
          /\ OthersStay(DOMAIN call.updates)

Delete ==
    /\ call.op = "Delete"
    /\ now' = now
    /\ data' = Restrict(data, DOMAIN data \ {call.key})
    /\ Returns(IF call.key \in DOMAIN data THEN 1 ELSE 0)

Exists ==
    /\ call.op = "Exists"
    /\ UNCHANGED <<data, now>>
    /\ Returns(IF call.key \in DOMAIN data THEN 1 ELSE 0)

Expire ==
    /\ call.op = "Expire"
    /\ now' = now
    /\ Returns(IF call.key \in DOMAIN data THEN 1 ELSE 0)
    /\ data' = IF call.key \notin DOMAIN data THEN data
               ELSE IF call.ttl <= 0 THEN Restrict(data, DOMAIN data \ {call.key})
               ELSE [data EXCEPT ![call.key].expires_at = Deadline(call.ttl)]

TtlSeconds ==
    /\ call.op = "TtlSeconds"
    /\ UNCHANGED <<data, now>>
    /\ Returns(
           IF call.key \notin DOMAIN data THEN -2
           ELSE IF data[call.key].expires_at = Never THEN -1
           ELSE (data[call.key].expires_at - now) \div (TicksPerMs * MsPerSecond))

(* The clock may move on during an increment.  The counter keeps its       *)
(* deadline up to a millisecond less and as much more as the call took.    *)
Increment ==
    LET k == call.key
        known == k \in DOMAIN data
        current == IF known THEN data[k].value.int ELSE 0
        deadline == IF known THEN data[k].expires_at ELSE Never
        sum == current + call.delta
        before == Restrict(data, DOMAIN data \ {k})
    IN
    /\ call.op = "Increment"
    /\ now' >= now
    /\ CASE current = NotInteger -> Refused("kNotInteger") /\ now' = now
         [] current # NotInteger /\ sum \notin IntMin..IntMax ->
               Refused("kOverflow") /\ now' = now
         [] OTHER ->
               \/ reply'.status = "kNoMemory" /\ data' = Alive(data, now')
               \/ /\ reply'.status = "kOk" /\ reply'.value.int = sum
                  /\ DOMAIN data' \ {k} \subseteq DOMAIN Alive(before, now')
                  /\ ~evicting => DOMAIN Alive(before, now') \subseteq DOMAIN data'
                  /\ \A j \in DOMAIN data' \ {k} : data'[j] = data[j]
                  /\ k \notin DOMAIN data' => deadline # Never /\ deadline < now' + TicksPerMs
                  /\ k \in DOMAIN data' =>
                        /\ data'[k].value.int = sum
                        /\ IF deadline = Never THEN data'[k].expires_at = Never
                           ELSE /\ data'[k].expires_at # Never
                                /\ data'[k].expires_at > deadline - TicksPerMs
                                /\ data'[k].expires_at <= deadline + (now' - now)

(* A copy of everything, each entry with the milliseconds it has left. *)
Snapshot ==
    /\ call.op = "Snapshot"
    /\ now' >= now
    /\ data' = Alive(data, now')
    /\ reply'.status = "kOk"
    /\ DOMAIN reply'.value.entries = DOMAIN data
    /\ \A k \in DOMAIN data :
          /\ reply'.value.entries[k].value = data[k].value
          /\ IF data[k].expires_at = Never THEN reply'.value.entries[k].ttl = Never
             ELSE /\ reply'.value.entries[k].ttl # Never
                  /\ now' + reply'.value.entries[k].ttl * TicksPerMs <=
                        IF data[k].expires_at > now' THEN data[k].expires_at ELSE now'
                  /\ data[k].expires_at < now' + (reply'.value.entries[k].ttl + 1) * TicksPerMs

Clear ==
    /\ call.op = "Clear"
    /\ now' = now
    /\ data' = Restrict(data, {})

Next ==
    \/ Tick \/ Get \/ Set \/ MSet \/ Delete \/ Exists \/ Expire \/ TtlSeconds \/ Increment
    \/ Snapshot \/ Clear

Init == DOMAIN data = {} /\ now = 0

Spec == Init /\ [][Next /\ UNCHANGED evicting]_<<evicting, data, now, reply>>
=============================================================================
