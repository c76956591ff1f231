-------------------------- MODULE ShardedDatabase --------------------------
(***************************************************************************)
(* The sharded database: src/shard/sharded_database.cpp.                   *)
(*                                                                         *)
(* Every shard has a KvStore, a worker thread that alone touches it, and a *)
(* queue of tasks.  Command workers and the reactor (for /status) call the *)
(* facade: they take transaction_mutex_, shared or unique, post tasks in   *)
(* rounds, wait for the futures of a round before the next one, and        *)
(* release the mutex when they return.                                     *)
(*                                                                         *)
(* A call is a sequence of rounds, a round a sequence of tasks to post.    *)
(* Popping a task and running it is one step: only the worker touches the  *)
(* store.                                                                  *)
(***************************************************************************)
EXTENDS KvStore, Sequences

CONSTANTS
    Clients,        \* threads that call the facade
    NoClient,
    ShardCount,
    ShardForKey,    \* key -> shard: std::hash modulo ShardCount
    MaxMemory,
    Policy,
    Samples,        \* the argument of ActiveExpire, 64 in the code
    Menu,           \* client -> the calls it may make
    MaxCalls,       \* bound: calls made
    MaxNow          \* bound: the last tick of the clock

Shards == 0..(ShardCount - 1)

(* What a shard is asked for on its own behalf, and the calls of the       *)
(* facade: the executor has checked the number of the arguments.           *)
IsRequest(q) ==
    \/ q.op \in {"Stats", "Snapshot", "Clear"}
    \/ q.op \in {"Get", "TtlSeconds", "Delete", "Exists"} /\ q.key \in Keys
    \/ q.op = "Increment" /\ q.key \in Keys /\ q.delta \in Int
    \/ q.op = "Expire" /\ q.key \in Keys /\ q.ttl \in Int
    \/ /\ q.op = "Set" /\ q.key \in Keys
       /\ q.set.key = q.key /\ q.set.value \in Text /\ q.set.ttl \in Int \cup {Never}
    \/ /\ q.op = "MSet" /\ DOMAIN q.updates \in (SUBSET Keys) \ {{}}
       /\ q.updates \in [DOMAIN q.updates -> Text]

IsCall(q) ==
    IF q.op \in {"Delete", "Exists"} THEN q.keys \in Seq(Keys) \ {<<>>} ELSE IsRequest(q)

ASSUME ShardedAssumption ==
    /\ ShardCount \in Nat \ {0}
    /\ MaxMemory \in Nat /\ Policy \in Policies
    /\ ShardForKey \in [Keys -> Shards]
    /\ NoClient \notin Clients
    /\ \A c \in Clients : \A q \in Menu[c] : IsCall(q)

VARIABLES
    stores,         \* Shard::store_
    tasks_,         \* Shard::tasks_
    readers,        \* transaction_mutex_: the shared holders
    writer,         \* transaction_mutex_: the unique holder
    call,           \* the call each client is in
    rounds,         \* the rounds of it still to be started
    posts,          \* the tasks of the current round still to be posted
    results,        \* the last result of each shard in this call
    checkpoints,    \* MSet's copies of the touched stores
    failed,         \* MSet: a shard has refused, the copies go back
    before,         \* history: the stores when the mutex was acquired
    now, made

lockVars == <<readers, writer>>
clientVars == <<call, rounds, posts, results, checkpoints, failed, before>>
vars == <<stores, tasks_, lockVars, clientVars, now, made>>

Idle == [op |-> "idle"]

(* Fault: every shard gets the odd bytes. *)
Budget_Rounded(s) == MaxMemory \div ShardCount + 1

Budget(s) == MaxMemory \div ShardCount + (IF s < MaxMemory % ShardCount THEN 1 ELSE 0)

Init ==
    /\ stores = [s \in Shards |-> EmptyStore(Budget(s), Policy)]
    /\ tasks_ = [s \in Shards |-> <<>>]
    /\ readers = {} /\ writer = NoClient
    /\ call = [c \in Clients |-> Idle]
    /\ rounds = [c \in Clients |-> <<>>]
    /\ posts = [c \in Clients |-> <<>>]
    /\ results = [c \in Clients |-> Restrict(<<>>, {})]
    /\ checkpoints = [c \in Clients |-> Restrict(<<>>, {})]
    /\ failed = [c \in Clients |-> FALSE]
    /\ before = stores
    /\ now = 0 /\ made = 0

----------------------------------------------------------------------------
(***************************************************************************)
(* The rounds of a call.                                                   *)
(***************************************************************************)
Task(s, request) == [shard |-> s, request |-> request]

ToKey(request) == <<Task(ShardForKey[request.key], request)>>

ToAll(request) == [i \in 1..ShardCount |-> Task(i - 1, request)]

Group(updates, s) == Restrict(updates, {k \in DOMAIN updates : ShardForKey[k] = s})

(* The shards of S in the order the loops of the facade come to them. *)
Ascending(S) ==
    [i \in 1..Cardinality(S) |-> CHOOSE s \in S : Cardinality({t \in S : t < s}) = i - 1]

Touched(updates) == Ascending({ShardForKey[k] : k \in DOMAIN updates})

Rounds(q) ==
    CASE q.op \in {"Delete", "Exists"} ->
            [i \in DOMAIN q.keys |-> ToKey([op |-> q.op, key |-> q.keys[i]])]
      [] q.op \in {"Stats", "Snapshot", "Clear"} -> <<ToAll(q)>>
      [] q.op = "MSet" ->
            LET touched == Touched(q.updates) IN
            [i \in DOMAIN touched |-> <<Task(touched[i], [op |-> "Copy"])>>] \o
            [i \in DOMAIN touched |->
                <<Task(touched[i], [op |-> "MSet", updates |-> Group(q.updates, touched[i])])>>]
      [] OTHER -> <<ToKey(q)>>

----------------------------------------------------------------------------
(***************************************************************************)
(* A client.                                                               *)
(***************************************************************************)
(* Faults: a batch write, or a snapshot, that takes the mutex shared. *)
Unique_NotMSet(q) == q.op \in {"Snapshot", "Clear"}
Unique_NotSnapshot(q) == q.op \in {"MSet", "Clear"}

Unique(q) == q.op \in {"MSet", "Snapshot", "Clear"}

Enter(c, q) ==
    /\ call[c] = Idle
    /\ made < MaxCalls
    /\ writer = NoClient
    /\ Unique(q) => readers = {}
    /\ writer' = IF Unique(q) THEN c ELSE NoClient
    /\ readers' = IF Unique(q) THEN {} ELSE readers \cup {c}
    /\ made' = made + 1
    /\ call' = [call EXCEPT ![c] = q]
    /\ rounds' = [rounds EXCEPT ![c] = Tail(Rounds(q))]
    /\ posts' = [posts EXCEPT ![c] = Head(Rounds(q))]
    /\ before' = IF Unique(q) THEN stores ELSE before
    /\ UNCHANGED <<stores, tasks_, results, checkpoints, failed, now>>

Post(c) ==
    /\ posts[c] # <<>>
    /\ LET task == Head(posts[c]) IN
       tasks_' = [tasks_ EXCEPT ![task.shard] =
                     Append(@, [client |-> c, request |-> task.request])]
    /\ posts' = [posts EXCEPT ![c] = Tail(@)]
    /\ UNCHANGED <<stores, lockVars, call, rounds, results, checkpoints, failed, before, now, made>>

(* The shards whose futures c waits for: its task has not run yet. *)
Waiting(c) == {s \in Shards : \E i \in DOMAIN tasks_[s] : tasks_[s][i].client = c}

RoundOver(c) == call[c] # Idle /\ posts[c] = <<>> /\ Waiting(c) = {}

Refused(c) ==
    call[c].op = "MSet" /\ ~failed[c] /\
    \E s \in DOMAIN results[c] : results[c][s].status = "kNoMemory"

NextRound(c) ==
    /\ RoundOver(c)
    /\ rounds[c] # <<>> /\ ~Refused(c)
    /\ posts' = [posts EXCEPT ![c] = Head(rounds[c])]
    /\ rounds' = [rounds EXCEPT ![c] = Tail(@)]
    /\ UNCHANGED <<stores, tasks_, lockVars, call, results, checkpoints, failed, before,
                   now, made>>

(* Fault: only the shard that refused gets its copy. *)
Restored_Refusing(c) == {s \in DOMAIN results[c] : results[c][s].status = "kNoMemory"}

(* All the touched shards get their copy back. *)
Restored(c) == DOMAIN checkpoints[c]

Rollback(c) ==
    /\ RoundOver(c)
    /\ Refused(c)
    /\ LET touched == Ascending(Restored(c)) IN
       posts' = [posts EXCEPT ![c] =
                    [i \in DOMAIN touched |-> Task(touched[i], [op |-> "Restore"])]]
    /\ rounds' = [rounds EXCEPT ![c] = <<>>]
    /\ failed' = [failed EXCEPT ![c] = TRUE]
    /\ UNCHANGED <<stores, tasks_, lockVars, call, results, checkpoints, before, now, made>>

(* Fault: a shared holder waits until it is alone. *)
Done_Alone(c) == RoundOver(c) /\ rounds[c] = <<>> /\ ~Refused(c) /\ readers \subseteq {c}

Done(c) == RoundOver(c) /\ rounds[c] = <<>> /\ ~Refused(c)

Unlock(c) ==
    /\ readers' = readers \ {c}
    /\ writer' = IF writer = c THEN NoClient ELSE writer

(* The call returns and its lock guard goes out of scope. *)
Return(c) ==
    /\ Done(c)
    /\ Unlock(c)
    /\ call' = [call EXCEPT ![c] = Idle]
    /\ results' = [results EXCEPT ![c] = Restrict(<<>>, {})]
    /\ checkpoints' = [checkpoints EXCEPT ![c] = Restrict(<<>>, {})]
    /\ failed' = [failed EXCEPT ![c] = FALSE]
    /\ UNCHANGED <<stores, tasks_, rounds, posts, before, now, made>>

----------------------------------------------------------------------------
(***************************************************************************)
(* A shard's worker: Shard::Run.                                           *)
(***************************************************************************)
Apply(s, store, task) ==
    LET q == task.request IN
    CASE q.op = "Get" -> Get(store, q.key, now)
      [] q.op = "Set" -> Set(store, q.set, now)
      [] q.op = "MSet" -> MSet(store, q.updates)
      [] q.op = "Delete" -> Delete(store, q.key, now)
      [] q.op = "Exists" -> Exists(store, q.key, now)
      [] q.op = "Expire" -> Expire(store, q.key, q.ttl, now)
      [] q.op = "TtlSeconds" -> TtlSeconds(store, q.key, now)
      [] q.op = "Increment" -> Increment(store, q.key, q.delta, now, now)
      [] q.op = "Snapshot" -> {Snapshot(store, now, now)}
      [] q.op = "Stats" -> {Outcome(store, "kOk", [keys  |-> Cardinality(DOMAIN store.entries),
                                                   bytes |-> store.memory_usage])}
      [] q.op = "Clear" -> {Outcome(Clear(store), "kOk", Nothing)}
      [] q.op = "Copy" -> {Outcome(store, "kOk", Nothing)}
      [] q.op = "Restore" -> {Outcome(checkpoints[task.client][s], "kOk", Nothing)}

RunTask(s) ==
    /\ tasks_[s] # <<>>
    /\ LET task == Head(tasks_[s])
           c == task.client
       IN
       /\ \E o \in Apply(s, stores[s], task) :
            /\ \E t \in ActiveExpire(o.store, Samples, now) :
                  stores' = [stores EXCEPT ![s] = t]
            /\ results' = [results EXCEPT ![c] =
                              Merge(@, [i \in {s} |-> [status |-> o.status, value |-> o.value]])]
       /\ checkpoints' = IF task.request.op = "Copy"
                         THEN [checkpoints EXCEPT ![c] = Merge(@, [i \in {s} |-> stores[s]])]
                         ELSE checkpoints
    /\ tasks_' = [tasks_ EXCEPT ![s] = Tail(@)]
    /\ UNCHANGED <<lockVars, call, rounds, posts, failed, before, now, made>>

(* wait_for times out after 100 ms. *)
Sweep(s) ==
    /\ tasks_[s] = <<>>
    /\ \E t \in ActiveExpire(stores[s], Samples, now) : stores' = [stores EXCEPT ![s] = t]
    /\ UNCHANGED <<tasks_, lockVars, clientVars, now, made>>

Tick ==
    /\ now < MaxNow
    /\ now' = now + 1
    /\ UNCHANGED <<stores, tasks_, lockVars, clientVars, made>>

ClientStep(c) == Post(c) \/ NextRound(c) \/ Rollback(c) \/ Return(c)

Next ==
    \/ \E c \in Clients : (\E q \in Menu[c] : Enter(c, q)) \/ ClientStep(c)
    \/ \E s \in Shards : RunTask(s) \/ Sweep(s)
    \/ Tick

(* The threads run; nobody is obliged to call. *)
Fairness ==
    /\ \A c \in Clients : WF_vars(ClientStep(c))
    /\ \A s \in Shards : WF_vars(RunTask(s))

Spec == Init /\ [][Next]_vars
FairSpec == Spec /\ Fairness

----------------------------------------------------------------------------
Holders == IF writer = NoClient THEN readers ELSE {writer}

(* While a client is in a batch write, a snapshot or a clear, nobody else  *)
(* is in a call and no shard has a task of anybody else: nobody sees or    *)
(* changes the database between the rounds of a transaction.               *)
TransactionIsolation ==
    \A c \in Clients : call[c].op \in {"MSet", "Snapshot", "Clear"} =>
        /\ \A d \in Clients \ {c} : call[d] = Idle
        /\ \A s \in Shards : \A i \in DOMAIN tasks_[s] : tasks_[s][i].client = c

(* The strengthening by which TransactionIsolation is proved: only a       *)
(* holder of the mutex is in a call, has something to post or has a task   *)
(* in a queue, and who is in a transaction holds it alone.                 *)
IsSequence(q) == q \in Seq({q[i] : i \in DOMAIN q})

LockInv ==
    /\ readers \subseteq Clients /\ writer \in Clients \cup {NoClient}
    /\ DOMAIN call = Clients /\ DOMAIN posts = Clients
    /\ DOMAIN tasks_ = Shards /\ \A s \in Shards : IsSequence(tasks_[s])
    /\ writer # NoClient => readers = {}
    /\ \A c \in Clients : call[c] # Idle \/ posts[c] # <<>> => c \in Holders
    /\ \A c \in Clients : Unique(call[c]) => writer = c
    /\ \A s \in Shards : \A i \in DOMAIN tasks_[s] : tasks_[s][i].client \in Holders

View(ss) ==
    LET seen == [k \in Keys |-> Visible(ss[ShardForKey[k]], now)] IN
    [k \in {j \in Keys : j \in DOMAIN seen[j]} |-> seen[k][k]]

(* An MSET over several shards happens in full or not at all: when it is   *)
(* about to return, either it failed and clients would see just what they  *)
(* saw before it, or every pair is there and nothing but evicted keys has  *)
(* gone.                                                                   *)
MSetAllOrNothing ==
    \A c \in Clients : call[c].op = "MSet" /\ Done(c) =>
        LET u == call[c].updates
            old == View(before)
            new == View(stores)
        IN
        IF failed[c] THEN new = old
        ELSE /\ \A k \in DOMAIN u : k \in DOMAIN new /\ new[k].value = u[k]
             /\ \A k \in DOMAIN new \ DOMAIN u : k \in DOMAIN old /\ new[k] = old[k]
             /\ Policy = "noeviction" => DOMAIN old \subseteq DOMAIN new

(* A snapshot is the database at one moment, although the shards answer at *)
(* different times.                                                        *)
SnapshotIsConsistent ==
    \A c \in Clients : call[c].op = "Snapshot" /\ Done(c) =>
        LET new == View(stores)
            Shot(k) == results[c][ShardForKey[k]].value.entries
        IN
        /\ \A k \in DOMAIN new : k \in DOMAIN Shot(k) /\ Shot(k)[k].value = new[k].value
        /\ \A k \in Keys : k \in DOMAIN Shot(k) =>
              LET old == before[ShardForKey[k]].entries IN
              k \in DOMAIN old /\ Shot(k)[k].value = old[k].value

(* The shards together stay within maxmemory, however it is divided. *)
TotalMemoryBounded ==
    SumFunction([s \in Shards |-> stores[s].memory_usage]) <= MaxMemory

(* A client that has the mutex gives it back: no round waits for ever. *)
LockIsReleased == \A c \in Clients : (call[c] # Idle) ~> (call[c] = Idle)
=============================================================================
