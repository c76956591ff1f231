------------------------- MODULE TransactionProofs -------------------------
(***************************************************************************)
(* The protocol of the sharded database: who holds transaction_mutex_      *)
(* (LockInv), what the shards keep and are asked for (StoresInv), and what *)
(* has become of the stores while a transaction lasts (TransactionInv, of  *)
(* which the steps of a batch write are in ShardedDatabaseProofs).         *)
(*                                                                         *)
(* While a transaction lasts its client alone has tasks, so what a store   *)
(* may have become since the mutex was acquired is known at every step:    *)
(* it has aged, that is, lost entries that have expired; it has its part   *)
(* of the batch; or a copy of it that has only aged is on its way back.    *)
(*                                                                         *)
(* The protocol needs few facts about a store and about the order of the   *)
(* shards.  They are named here, and proved in ShardedDatabaseProofs.      *)
(***************************************************************************)
EXTENDS ShardedDatabase, SequenceTheorems, TLAPS

(* What a sequence has, and what its head and its tail are. *)
LEMMA SequenceParts ==
    ASSUME NEW q, IsSequence(q)
    PROVE  /\ Len(q) \in Nat /\ DOMAIN q = 1..Len(q)
           /\ q = <<>> <=> Len(q) = 0
           /\ q # <<>> => /\ 1 \in DOMAIN q /\ Head(q) = q[1]
                          /\ Len(Tail(q)) = Len(q) - 1 /\ DOMAIN Tail(q) = 1..(Len(q) - 1)
                          /\ \A i \in DOMAIN Tail(q) : i + 1 \in DOMAIN q /\ Tail(q)[i] = q[i + 1]
<1> DEFINE S == {q[i] : i \in DOMAIN q}
<1>1. q \in Seq(S)
  BY Zenon DEF IsSequence
<1> HIDE DEF S
<1>2. Len(q) \in Nat /\ DOMAIN q = 1..Len(q)
  BY <1>1, LenProperties, Zenon
<1>3. q = <<>> <=> Len(q) = 0
  BY <1>1, EmptySeq, Zenon
<1>4. ASSUME q # <<>>
      PROVE  /\ 1 \in DOMAIN q /\ Head(q) = q[1]
             /\ Len(Tail(q)) = Len(q) - 1 /\ DOMAIN Tail(q) = 1..(Len(q) - 1)
             /\ \A i \in DOMAIN Tail(q) : i + 1 \in DOMAIN q /\ Tail(q)[i] = q[i + 1]
  <2>1. /\ Tail(q) \in Seq(S) /\ Len(Tail(q)) = Len(q) - 1
        /\ \A i \in 1..Len(Tail(q)) : Tail(q)[i] = q[i + 1]
    BY <1>1, <1>4, HeadTailProperties, Zenon
  <2>2. DOMAIN Tail(q) = 1..Len(Tail(q))
    BY <2>1, LenProperties, Zenon
  <2>3. Head(q) = q[1]
    BY <1>1
  <2> QED
    BY <1>2, <1>3, <1>4, <2>1, <2>2, <2>3
<1> QED
  BY <1>2, <1>3, <1>4, Zenon

(* A function on 1..n is a sequence. *)
LEMMA FunctionIsSequence ==
    ASSUME NEW n \in Nat, NEW f, f = [i \in 1..n |-> f[i]]
    PROVE  IsSequence(f) /\ Len(f) = n /\ DOMAIN f = 1..n
<1> DEFINE S == {f[i] : i \in DOMAIN f}
<1>1. DOMAIN f = 1..n
  BY Zenon
<1>2. f \in [1..n -> S]
  BY <1>1, Zenon
<1> HIDE DEF S
<1>3. f \in Seq(S)
  BY <1>2, SeqDef, Zenon
<1>4. Len(f) \in Nat /\ DOMAIN f = 1..Len(f)
  BY <1>3, LenProperties, Zenon
<1>5. Len(f) = n
  BY <1>1, <1>4
<1> QED
  BY <1>1, <1>3, <1>5, Zenon DEF IsSequence, S

(* The elements of a sequence that grew at its end.                        *)
LEMMA Appending ==
    ASSUME NEW q, IsSequence(q), NEW e
    PROVE  /\ IsSequence(Append(q, e))
           /\ \A i \in DOMAIN Append(q, e) :
                 Append(q, e)[i] = e \/ \E j \in DOMAIN q : Append(q, e)[i] = q[j]
<1> DEFINE S == {q[i] : i \in DOMAIN q} \cup {e}
           r == Append(q, e)
<1>1. q \in Seq(S) /\ e \in S
  <2>1. {q[i] : i \in DOMAIN q} \subseteq S
    BY Zenon
  <2> QED
    BY <2>1, SeqMonotonic, Zenon DEF IsSequence
<1>2. /\ r \in Seq(S) /\ Len(r) = Len(q) + 1
      /\ \A i \in 1..Len(q) : r[i] = q[i]
      /\ r[Len(q) + 1] = e
    BY <1>1, AppendProperties
<1>3. DOMAIN q = 1..Len(q) /\ DOMAIN r = 1..Len(r) /\ Len(q) \in Nat
    BY <1>1, <1>2, LenProperties, Zenon
<1>4. \A i \in DOMAIN r : r[i] = e \/ \E j \in DOMAIN q : r[i] = q[j]
  <2> TAKE i \in DOMAIN r
  <2>1. i \in 1..Len(q) \/ i = Len(q) + 1
    BY <1>2, <1>3
  <2> QED
    BY <1>2, <1>3, <2>1, Zenon
<1>5. IsSequence(r)
  <2>1. \A i \in 1..Len(r) : r[i] \in {r[j] : j \in DOMAIN r}
    BY <1>3, Zenon
  <2>2. Len(r) \in Nat /\ r \in [1..Len(r) -> S]
    BY <1>2, LenProperties, Zenon
  <2>3. r \in [1..Len(r) -> {r[j] : j \in DOMAIN r}]
    BY <2>1, <2>2, SMTT(25)
  <2> HIDE DEF r
  <2> QED
    BY <2>2, <2>3, SeqDef DEF IsSequence
<1> QED
    BY <1>4, <1>5, Zenon

(* The elements of a sequence that lost its first one.                     *)
LEMMA Popping ==
    ASSUME NEW q, IsSequence(q), q # <<>>
    PROVE  /\ IsSequence(Tail(q))
           /\ \A i \in DOMAIN Tail(q) : \E j \in DOMAIN q : Tail(q)[i] = q[j]
<1> DEFINE S == {q[i] : i \in DOMAIN q}
           r == Tail(q)
<1>1. /\ r \in Seq(S) /\ Len(r) = Len(q) - 1
      /\ \A i \in 1..Len(r) : r[i] = q[i + 1]
    BY HeadTailProperties, Zenon DEF IsSequence
<1>2. DOMAIN q = 1..Len(q) /\ DOMAIN r = 1..Len(r) /\ Len(q) \in Nat
    BY <1>1, LenProperties, Zenon DEF IsSequence
<1>3. \A i \in DOMAIN r : \E j \in DOMAIN q : r[i] = q[j]
  <2> TAKE i \in DOMAIN r
  <2>1. i + 1 \in DOMAIN q
    BY <1>1, <1>2
  <2> QED
    BY <1>1, <1>2, <2>1, Zenon
<1>4. IsSequence(r)
  <2>1. \A i \in 1..Len(r) : r[i] \in {r[j] : j \in DOMAIN r}
    BY <1>2, Zenon
  <2>2. Len(r) \in Nat /\ r \in [1..Len(r) -> S]
    BY <1>1, LenProperties, Zenon
  <2>3. r \in [1..Len(r) -> {r[j] : j \in DOMAIN r}]
    BY <2>1, <2>2, Zenon
  <2> HIDE DEF r
  <2> QED
    BY <2>2, <2>3, SeqDef DEF IsSequence
<1> QED
    BY <1>3, <1>4, Zenon

(* Only holders of the mutex have something under way.                     *)
LEMMA LockStep == LockInv /\ [Next]_vars => LockInv'
<1> SUFFICES ASSUME LockInv, [Next]_vars
             PROVE  LockInv'
    BY Zenon
<1> USE ShardedAssumption DEF lockVars, clientVars
<1>1. ASSUME NEW c \in Clients, NEW q \in Menu[c], Enter(c, q)
      PROVE  LockInv'
  <2>1. /\ tasks_' = tasks_ /\ writer = NoClient /\ Holders = readers
        /\ Unique(q) => readers = {}
        /\ writer' = IF Unique(q) THEN c ELSE NoClient
        /\ readers' = IF Unique(q) THEN {} ELSE readers \cup {c}
        /\ DOMAIN call' = DOMAIN call /\ DOMAIN posts' = DOMAIN posts
        /\ \A d \in Clients : d # c => call'[d] = call[d] /\ posts'[d] = posts[d]
    BY <1>1, Zenon DEF Enter, Holders, LockInv
  <2>2. Holders' = readers \cup {c}
    BY <2>1, Zenon DEF Holders
  <2>3. ASSUME NEW d \in Clients, Unique(call'[d])
        PROVE  writer' = d
    <3>1. CASE d = c
      <4>1. call'[d] = q
        BY <1>1, <3>1, Zenon DEF Enter, LockInv
      <4> QED
        BY <2>1, <2>3, <3>1, <4>1, Zenon
    <3>2. CASE d # c
      BY <2>1, <2>3, <3>2, SMTT(20) DEF LockInv
    <3> QED
      BY <3>1, <3>2, Zenon
  <2> QED
    BY <2>1, <2>2, <2>3, Zenon DEF LockInv, Unique
<1>2. ASSUME NEW c \in Clients, Post(c)
      PROVE  LockInv'
  <2> DEFINE task == Head(posts[c])
             e == [client |-> c, request |-> task.request]
  <2>1. /\ UNCHANGED <<readers, writer, call>> /\ Holders' = Holders
        /\ c \in Holders
        /\ tasks_' = [tasks_ EXCEPT ![task.shard] = Append(@, e)]
        /\ DOMAIN posts' = DOMAIN posts
        /\ \A d \in Clients : d # c => posts'[d] = posts[d]
    BY <1>2, Zenon DEF Post, LockInv, Holders
  <2>2. DOMAIN tasks_' = Shards
    BY <2>1, Zenon DEF LockInv
  <2>3. ASSUME NEW s \in Shards
        PROVE  /\ IsSequence(tasks_'[s])
               /\ \A i \in DOMAIN tasks_'[s] : tasks_'[s][i].client \in Holders
    <3>1. CASE s # task.shard
      BY <2>1, <3>1, Zenon DEF LockInv
    <3>2. CASE s = task.shard
      <4> HIDE DEF task
      <4>1. tasks_'[s] = Append(tasks_[s], e)
        BY <2>1, <3>2, Zenon DEF LockInv
      <4>2. IsSequence(tasks_[s]) /\ \A i \in DOMAIN tasks_[s] : tasks_[s][i].client \in Holders
        BY Zenon DEF LockInv
      <4>3. e.client = c
        BY Zenon
      <4> HIDE DEF e
      <4> QED
        BY <2>1, <4>1, <4>2, <4>3, Appending
    <3> QED
      BY <3>1, <3>2, Zenon
  <2> QED
    BY <2>1, <2>2, <2>3, Zenon DEF LockInv
<1>3. ASSUME NEW c \in Clients, NextRound(c) \/ Rollback(c)
      PROVE  LockInv'
  <2>1. /\ UNCHANGED <<readers, writer, call, tasks_>> /\ Holders' = Holders
        /\ c \in Holders
        /\ DOMAIN posts' = DOMAIN posts
        /\ \A d \in Clients : d # c => posts'[d] = posts[d]
    BY <1>3, Zenon DEF NextRound, Rollback, RoundOver, LockInv, Holders
  <2> QED
    BY <2>1, Zenon DEF LockInv
<1>4. ASSUME NEW c \in Clients, Return(c)
      PROVE  LockInv'
  <2>1. /\ posts' = posts /\ tasks_' = tasks_ /\ posts[c] = <<>>
        /\ \A s \in Shards : \A i \in DOMAIN tasks_[s] : tasks_[s][i].client # c
        /\ readers' = readers \ {c}
        /\ writer' = IF writer = c THEN NoClient ELSE writer
        /\ DOMAIN call' = DOMAIN call /\ call'[c] = Idle
        /\ \A d \in Clients : d # c => call'[d] = call[d]
    BY <1>4, Zenon DEF Return, Unlock, Done, RoundOver, Waiting, LockInv
  <2>2. Holders' = Holders \ {c}
    BY <2>1, Zenon DEF Holders, LockInv
  <2>3. ~Unique(Idle)
    BY Zenon DEF Unique, Idle
  <2>4. ASSUME NEW d \in Clients, Unique(call'[d])
        PROVE  writer' = d
    <3>1. d # c
      BY <2>1, <2>3, <2>4, Zenon
    <3>2. writer = d
      BY <2>1, <2>4, <3>1, Zenon DEF LockInv
    <3> QED
      BY <2>1, <3>1, <3>2, Zenon
  <2> QED
    BY <2>1, <2>2, <2>4, Zenon DEF LockInv, Unique
<1>5. ASSUME NEW s \in Shards, RunTask(s)
      PROVE  LockInv'
  <2>1. /\ UNCHANGED <<readers, writer, call, posts>> /\ Holders' = Holders
        /\ tasks_[s] # <<>>
        /\ tasks_' = [tasks_ EXCEPT ![s] = Tail(@)]
    BY <1>5, Zenon DEF RunTask, Holders
  <2>2. ASSUME NEW r \in Shards
        PROVE  /\ IsSequence(tasks_'[r])
               /\ \A i \in DOMAIN tasks_'[r] : tasks_'[r][i].client \in Holders
    <3>1. CASE r # s
      BY <2>1, <3>1, Zenon DEF LockInv
    <3>2. CASE r = s
      <4>1. tasks_'[s] = Tail(tasks_[s])
        BY <2>1, Zenon DEF LockInv
      <4>2. IsSequence(tasks_[s]) /\ \A i \in DOMAIN tasks_[s] : tasks_[s][i].client \in Holders
        BY Zenon DEF LockInv
      <4> QED
        BY <2>1, <3>2, <4>1, <4>2, Popping
    <3> QED
      BY <3>1, <3>2, Zenon
  <2>3. DOMAIN tasks_' = Shards
    BY <2>1, Zenon DEF LockInv
  <2> QED
    BY <2>1, <2>2, <2>3, Zenon DEF LockInv
<1>6. CASE (\E s \in Shards : Sweep(s)) \/ Tick \/ UNCHANGED vars
  <2>1. UNCHANGED <<readers, writer, call, posts, tasks_>>
    BY <1>6, Zenon DEF Sweep, Tick, vars
  <2> QED
    BY <2>1, Zenon DEF LockInv, Holders
<1> QED
    BY <1>1, <1>2, <1>3, <1>4, <1>5, <1>6, Zenon DEF Next, ClientStep

(* At the start nobody holds the mutex and nothing is queued. *)
LEMMA LockInit == Init => LockInv
<1> SUFFICES ASSUME Init PROVE LockInv
  BY Zenon
<1>1. \A s \in Shards : tasks_[s] = <<>>
  BY Zenon DEF Init
<1>2. \A S : <<>> \in Seq(S)
  BY EmptySeq, Zenon
<1>3. DOMAIN <<>> = {} /\ IsSequence(<<>>)
  BY <1>2 DEF IsSequence
<1>4. \A s \in Shards : IsSequence(tasks_[s]) /\ DOMAIN tasks_[s] = {}
  BY <1>1, <1>3, Zenon
<1>5. ~Unique(Idle)
  BY Zenon DEF Unique, Idle
<1> QED
  BY <1>4, <1>5, ShardedAssumption, Zenon DEF Init, LockInv, Holders

----------------------------------------------------------------------------
(* The methods of a store leave it sound, with its budget and its policy.  *)
MethodsFollow ==
    \A s : Sound(s) => \A n \in Int : \A o :
        /\ \A key \in Keys :
            /\ o \in Get(s, key, n) => Follows(s, o.store)
            /\ o \in Delete(s, key, n) => Follows(s, o.store)
            /\ o \in Exists(s, key, n) => Follows(s, o.store)
            /\ o \in TtlSeconds(s, key, n) => Follows(s, o.store)
            /\ \A ttl \in Int : o \in Expire(s, key, ttl, n) => Follows(s, o.store)
            /\ \A delta \in Int : o \in Increment(s, key, delta, n, n) => Follows(s, o.store)
        /\ \A r : /\ r.key \in Keys /\ r.value \in Text /\ r.ttl \in Int \cup {Never}
                  /\ o \in Set(s, r, n)
                  => Follows(s, o.store)
        /\ o = Snapshot(s, n, n) => Follows(s, o.store)
        /\ o = Clear(s) => Follows(s, o)
        /\ o \in ActiveExpire(s, Samples, n) => Follows(s, o)

(* A batch write is refused and changes nothing, or it writes all of u, to *)
(* the keys K; other entries go only where the policy lets them.           *)
Wrote(s, K, u, o) ==
    LET new == o.store.entries IN
    /\ o.status = "kOk" /\ Follows(s, o.store)
    /\ K \subseteq DOMAIN new /\ DOMAIN new \subseteq DOMAIN s.entries \cup K
    /\ s.policy = "noeviction" => DOMAIN s.entries \subseteq DOMAIN new
    /\ \A k \in K : new[k].value = u[k] /\ new[k].expires_at = Never
    /\ \A k \in DOMAIN new \ K : new[k] = s.entries[k]

WritesWhole ==
    \A s : Sound(s) => \A K \in SUBSET Keys : \A u \in [K -> Text] : \A o \in MSet(s, u) :
        o = Outcome(s, "kNoMemory", Nothing) \/ Wrote(s, K, u, o)

(* The store of a shard that starts. *)
StartsSound ==
    \A s \in Shards : LET store == EmptyStore(Budget(s), Policy) IN
        Sound(store) /\ store.maxmemory = Budget(s) /\ store.policy = Policy

(* The loops of the facade come to every shard of C once. *)
ComesToEach ==
    \A C \in SUBSET Shards : \A q : q = Ascending(C) =>
        /\ IsSequence(q) /\ Len(q) = Cardinality(C) /\ Len(q) \in Nat
        /\ DOMAIN q = 1..Len(q)
        /\ \A i \in 1..Len(q) : q[i] \in C
        /\ \A s \in C : \E i \in 1..Len(q) : q[i] = s
        /\ \A i, j \in 1..Len(q) : q[i] = q[j] => i = j

StoreFacts == MethodsFollow /\ WritesWhole /\ StartsSound /\ ComesToEach

(* A store as shard s keeps it. *)
Kept(store, s) == Sound(store) /\ store.maxmemory = Budget(s) /\ store.policy = Policy

(* Shard s can run request q of a client that has copies of the shards in  *)
(* copied.                                                                 *)
Runs(copied, s, q) ==
    /\ s \in Shards
    /\ \/ IsRequest(q)
       \/ q.op = "Copy"
       \/ q.op = "Restore" /\ s \in copied

AllRun(copied, tasks) ==
    IsSequence(tasks) /\ \A j \in DOMAIN tasks : Runs(copied, tasks[j].shard, tasks[j].request)

(* The strengthening by which TotalMemoryBounded is proved: the stores,    *)
(* and the copies of them, are sound and have the budgets of their shards, *)
(* and what is on its way to a shard is something it can run.              *)
StoresInv ==
    /\ now \in Nat
    /\ DOMAIN stores = Shards /\ \A s \in Shards : Kept(stores[s], s)
    /\ DOMAIN checkpoints = Clients
    /\ \A c \in Clients : \A s \in DOMAIN checkpoints[c] :
          s \in Shards /\ Kept(checkpoints[c][s], s)
    /\ \A s \in Shards : \A i \in DOMAIN tasks_[s] :
          Runs(DOMAIN checkpoints[tasks_[s][i].client], s, tasks_[s][i].request)
    /\ \A c \in Clients : AllRun(DOMAIN checkpoints[c], posts[c])
    /\ DOMAIN rounds = Clients
    /\ \A c \in Clients :
          /\ IsSequence(rounds[c])
          /\ \A i \in DOMAIN rounds[c] : AllRun(DOMAIN checkpoints[c], rounds[c][i])


(* A sequence of one element. *)
LEMMA Single ==
    ASSUME NEW x
    PROVE  /\ IsSequence(<<x>>) /\ Len(<<x>>) = 1 /\ DOMAIN <<x>> = {1}
           /\ <<x>>[1] = x /\ <<x>> # <<>>
<1>1. DOMAIN <<x>> = {1} /\ <<x>>[1] = x /\ Len(<<x>>) = 1
  OBVIOUS
<1>2. <<x>> \in Seq({x})
  OBVIOUS
<1>3. {<<x>>[i] : i \in DOMAIN <<x>>} = {x}
  BY <1>1, Zenon
<1> QED
  BY <1>1, <1>2, <1>3, Zenon DEF IsSequence

(* Another copy does no harm. *)
LEMMA RunsMore ==
    ASSUME NEW copied, NEW more, copied \subseteq more
    PROVE  /\ \A s, q : Runs(copied, s, q) => Runs(more, s, q)
           /\ \A tasks : AllRun(copied, tasks) => AllRun(more, tasks)
BY Zenon DEF Runs, AllRun

(* A round of one task. *)
LEMMA OneTaskRuns ==
    ASSUME NEW copied, NEW s, NEW q, Runs(copied, s, q)
    PROVE  AllRun(copied, <<Task(s, q)>>)
<1>1. Task(s, q).shard = s /\ Task(s, q).request = q
  BY Zenon DEF Task
<1> QED
  BY <1>1, Single, Zenon DEF AllRun

TouchedSet(updates) == {ShardForKey[k] : k \in DOMAIN updates}

CopyRound(s) == <<Task(s, [op |-> "Copy"])>>
PartRound(updates, s) == <<Task(s, [op |-> "MSet", updates |-> Group(updates, s)])>>

(* The rounds R of MSET q, which touches the n shards S: a copy of every   *)
(* one, one after the other, then its part of the batch for each.          *)
MSetShape(q, S, touched, n, R) ==
    /\ S \in SUBSET Shards /\ n \in Nat \ {0} /\ DOMAIN touched = 1..n
    /\ \A i \in 1..n : touched[i] \in S
    /\ \A s \in S : \E i \in 1..n : touched[i] = s
    /\ \A i, j \in 1..n : touched[i] = touched[j] => i = j
    /\ IsSequence(R) /\ Len(R) = 2 * n
    /\ \A i \in 1..n : R[i] = CopyRound(touched[i])
    /\ \A i \in 1..n : R[n + i] = PartRound(q.updates, touched[i])

(* The rounds of MSET have this shape.                                     *)
LEMMA MSetRounds ==
    ASSUME StoreFacts, NEW q, q.op = "MSet", IsRequest(q),
           NEW S, S = TouchedSet(q.updates),
           NEW touched, touched = Touched(q.updates), NEW n, n = Len(touched),
           NEW R, R = Rounds(q)
    PROVE  MSetShape(q, S, touched, n, R)
<1> DEFINE A(i) == CopyRound(touched[i])
           B(i) == PartRound(q.updates, touched[i])
           a == [i \in 1..n |-> A(i)]
           b == [i \in 1..n |-> B(i)]
<1>1. DOMAIN q.updates \in (SUBSET Keys) \ {{}}
  BY Zenon DEF IsRequest
<1>2. S \in SUBSET Shards /\ S # {}
  <2>1. \A k \in DOMAIN q.updates : ShardForKey[k] \in Shards /\ ShardForKey[k] \in S
    BY <1>1, ShardedAssumption, Zenon DEF TouchedSet
  <2>2. PICK k : k \in DOMAIN q.updates
    BY <1>1, Zenon
  <2>3. S \subseteq Shards
    BY <2>1, Zenon DEF TouchedSet
  <2> QED
    BY <2>1, <2>2, <2>3, Zenon
<1>3. /\ IsSequence(touched) /\ n \in Nat /\ DOMAIN touched = 1..n
      /\ \A i \in 1..n : touched[i] \in S
      /\ \A s \in S : \E i \in 1..n : touched[i] = s
      /\ \A i, j \in 1..n : touched[i] = touched[j] => i = j
  <2>1. touched = Ascending(S)
    BY Zenon DEF Touched, TouchedSet
  <2> QED
    BY <1>2, <2>1 DEF StoreFacts, ComesToEach
<1>4. n # 0
  <2>1. PICK s : s \in S
    BY <1>2, Zenon
  <2>2. PICK i \in 1..n : touched[i] = s
    BY <1>3, <2>1, Zenon
  <2> QED
    BY <1>3, <2>2
<1>5. R = a \o b
  BY <1>3 DEF Rounds, CopyRound, PartRound
<1> DEFINE T == {A(i) : i \in 1..n} \cup {B(i) : i \in 1..n}
<1>6. a \in [1..n -> T] /\ b \in [1..n -> T]
  BY Zenon
<1>7. /\ \A i \in 1..n : a[i] = A(i) /\ b[i] = B(i)
  BY Zenon
<1> HIDE DEF A, B, a, b, T
<1>8. a \in Seq(T) /\ b \in Seq(T)
  <2>1. n \in Nat
    BY <1>3, Zenon
  <2> QED
    BY <1>6, <2>1, SeqDef
<1>9. DOMAIN a = 1..n /\ DOMAIN b = 1..n
  BY <1>6, Zenon
<1>10. Len(a) = n /\ Len(b) = n
  BY <1>3, <1>8, <1>9, LenProperties
<1>11. /\ R \in Seq(T) /\ Len(R) = n + n
       /\ \A i \in 1..(n + n) : R[i] = IF i <= n THEN a[i] ELSE b[i - n]
  BY <1>5, <1>8, <1>10, ConcatProperties
<1>12. IsSequence(R)
  <2>1. DOMAIN R = 1..(n + n) /\ n + n \in Nat
    BY <1>3, <1>11, LenProperties
  <2>2. R = [i \in 1..(n + n) |-> R[i]]
    BY <1>11, <2>1, LenProperties, Zenon
  <2> QED
    BY <2>1, <2>2, FunctionIsSequence, Zenon
<1>13. \A i \in 1..n : R[i] = A(i) /\ R[n + i] = B(i)
  <2> SUFFICES ASSUME NEW i \in 1..n
               PROVE  R[i] = A(i) /\ R[n + i] = B(i)
    BY Zenon
  <2>1. /\ i \in 1..(n + n) /\ i <= n /\ n + i \in 1..(n + n)
        /\ ~(n + i <= n) /\ (n + i) - n = i
    BY <1>3
  <2> QED
    BY <1>7, <1>11, <2>1, ZenonT(40)
<1>14. n + n = 2 * n
  BY <1>3
<1> QED
  BY <1>2, <1>3, <1>4, <1>11, <1>12, <1>13, <1>14, Zenon DEF A, B, MSetShape

(* A call is at least one round, of tasks that the shards can run. *)
LEMMA RoundsRun ==
    ASSUME StoreFacts, NEW q, IsCall(q), NEW copied
    PROVE  /\ IsSequence(Rounds(q)) /\ Rounds(q) # <<>>
           /\ \A i \in DOMAIN Rounds(q) : AllRun(copied, Rounds(q)[i])
<1>1. \A k \in Keys : ShardForKey[k] \in Shards
  BY ShardedAssumption, Zenon
<1>2. \A s \in Shards : \A x : IsRequest(x) \/ x.op = "Copy" => Runs(copied, s, x)
  BY Zenon DEF Runs
<1>3. ASSUME NEW k \in Keys, NEW x, x.key = k, IsRequest(x)
      PROVE  AllRun(copied, ToKey(x))
  BY <1>1, <1>2, <1>3, OneTaskRuns, Zenon DEF ToKey
<1>4. CASE q.op \in {"Delete", "Exists"}
  <2> DEFINE x(i) == [op |-> q.op, key |-> q.keys[i]]
             R == [i \in DOMAIN q.keys |-> ToKey(x(i))]
  <2>1. q.keys \in Seq(Keys) /\ q.keys # <<>>
    BY <1>4, Zenon DEF IsCall
  <2>2. /\ DOMAIN q.keys = 1..Len(q.keys) /\ Len(q.keys) \in Nat /\ Len(q.keys) # 0
        /\ \A i \in DOMAIN q.keys : q.keys[i] \in Keys
    BY <2>1, LenProperties, EmptySeq, Zenon
  <2>3. Rounds(q) = R
    BY <1>4, Zenon DEF Rounds
  <2>4. \A i \in DOMAIN q.keys : x(i).key = q.keys[i] /\ IsRequest(x(i))
    BY <1>4, <2>2, Zenon DEF IsRequest
  <2> HIDE DEF x
  <2>5. \A i \in DOMAIN q.keys : AllRun(copied, ToKey(x(i)))
    BY <1>3, <2>2, <2>4, Zenon
  <2>6. \A i \in DOMAIN q.keys : R[i] = ToKey(x(i))
    BY Zenon
  <2>7. R = [i \in 1..Len(q.keys) |-> R[i]]
    BY <2>2, Zenon
  <2> HIDE DEF R
  <2>8. IsSequence(R) /\ DOMAIN R = DOMAIN q.keys /\ Len(R) # 0
    BY <2>2, <2>7, FunctionIsSequence, Zenon
  <2>9. R # <<>>
    BY <2>8, SequenceParts, Zenon
  <2> QED
    BY <2>3, <2>5, <2>6, <2>8, <2>9, Zenon
<1>5. CASE q.op \in {"Stats", "Snapshot", "Clear"}
  <2>1. IsRequest(q)
    BY <1>5, Zenon DEF IsCall
  <2>2. Rounds(q) = <<ToAll(q)>>
    BY <1>5, Zenon DEF Rounds
  <2> DEFINE all == [i \in 1..ShardCount |-> Task(i - 1, q)]
  <2>3. IsSequence(all) /\ DOMAIN all = 1..ShardCount
    <3>1. all = [i \in 1..ShardCount |-> all[i]] /\ ShardCount \in Nat
      BY ShardedAssumption, Zenon
    <3> HIDE DEF all
    <3> QED
      BY <3>1, FunctionIsSequence, Zenon
  <2>4. \A i \in 1..ShardCount : all[i].shard \in Shards /\ all[i].request = q
    BY ShardedAssumption DEF Task, Shards
  <2>5. AllRun(copied, all)
    BY <1>2, <2>1, <2>3, <2>4, Zenon DEF AllRun
  <2>6. ToAll(q) = all
    BY Zenon DEF ToAll
  <2> HIDE DEF all
  <2>7. Rounds(q) = <<all>>
    BY <2>2, <2>6, Zenon
  <2> QED
    BY <2>5, <2>7, Single, Zenon
<1>6. CASE q.op = "MSet"
  <2> DEFINE S == TouchedSet(q.updates)
             touched == Touched(q.updates)
             n == Len(touched)
             R == Rounds(q)
             part(i) == [op |-> "MSet", updates |-> Group(q.updates, touched[i])]
  <2>1. /\ IsRequest(q)
        /\ S = TouchedSet(q.updates) /\ touched = Touched(q.updates)
        /\ n = Len(touched) /\ R = Rounds(q)
    BY <1>6, Zenon DEF IsCall
  <2> HIDE DEF S, touched, n, R
  <2>2. /\ S \in SUBSET Shards /\ n \in Nat \ {0}
        /\ \A i \in 1..n : touched[i] \in S
        /\ IsSequence(R) /\ Len(R) = 2 * n
        /\ \A i \in 1..n : R[i] = CopyRound(touched[i])
        /\ \A i \in 1..n : R[n + i] = PartRound(q.updates, touched[i])
    <3>1. MSetShape(q, S, touched, n, R)
      BY <1>6, <2>1, MSetRounds, Zenon
    <3> QED
      BY <3>1, Zenon DEF MSetShape
  <2>3. R # <<>> /\ DOMAIN R = 1..(2 * n)
    BY <2>2, SequenceParts
  <2>4. ASSUME NEW i \in 1..n
        PROVE  IsRequest(part(i))
    <3> DEFINE G == {k \in DOMAIN q.updates : ShardForKey[k] = touched[i]}
    <3>1. DOMAIN q.updates \in (SUBSET Keys) \ {{}} /\ q.updates \in [DOMAIN q.updates -> Text]
      BY <1>6, <2>1, Zenon DEF IsRequest
    <3>2. Group(q.updates, touched[i]) = [k \in G |-> q.updates[k]]
      BY Zenon DEF Group, Restrict
    <3>3. G # {}
      BY <2>2, <2>4, Zenon DEF S, TouchedSet
    <3>4. G \subseteq Keys /\ \A k \in G : q.updates[k] \in Text
      BY <3>1, Zenon
    <3> HIDE DEF G
    <3>5. /\ DOMAIN part(i).updates = G /\ part(i).updates \in [G -> Text]
          /\ part(i).op = "MSet"
      BY <3>2, <3>4, Zenon
    <3>6. G \in (SUBSET Keys) \ {{}}
      BY <3>3, <3>4, Zenon
    <3> HIDE DEF part
    <3> QED
      BY <3>5, <3>6, Zenon DEF IsRequest
  <2>5. ASSUME NEW i \in DOMAIN R
        PROVE  AllRun(copied, R[i])
    <3>1. CASE i \in 1..n
      <4>1. touched[i] \in Shards /\ [op |-> "Copy"].op = "Copy"
        BY <2>2, <3>1, Zenon
      <4> QED
        BY <1>2, <2>2, <3>1, <4>1, OneTaskRuns, Zenon DEF CopyRound
    <3>2. CASE i \notin 1..n
      <4>1. i - n \in 1..n /\ n + (i - n) = i
        BY <2>2, <2>3, <3>2
      <4>2. touched[i - n] \in Shards /\ R[i] = <<Task(touched[i - n], part(i - n))>>
        BY <2>2, <4>1, Zenon DEF PartRound
      <4>3. IsRequest(part(i - n))
        BY <2>4, <4>1, Zenon
      <4> HIDE DEF part
      <4> QED
        BY <1>2, <4>2, <4>3, OneTaskRuns, Zenon
    <3> QED
      BY <3>1, <3>2, Zenon
  <2> QED
    BY <2>1, <2>2, <2>3, <2>5, Zenon
<1>7. CASE q.op \in {"Get", "TtlSeconds", "Increment", "Expire", "Set"}
  <2>1. Rounds(q) = <<ToKey(q)>>
    BY <1>7, Zenon DEF Rounds
  <2>2. IsRequest(q) /\ q.key \in Keys
    BY <1>7, Zenon DEF IsCall, IsRequest
  <2> QED
    BY <1>3, <2>1, <2>2, Single
<1> QED
  BY <1>4, <1>5, <1>6, <1>7, Zenon DEF IsCall, IsRequest

(* Whatever a shard runs, its store stays sound and within its budget. *)
LEMMA ApplyKept ==
    ASSUME StoreFacts, NEW s \in Shards, NEW store, Kept(store, s), now \in Nat,
           NEW task, Runs(DOMAIN checkpoints[task.client], s, task.request),
           s \in DOMAIN checkpoints[task.client] => Kept(checkpoints[task.client][s], s),
           NEW o \in Apply(s, store, task)
    PROVE  Kept(o.store, s)
<1> DEFINE q == task.request
<1>0. MethodsFollow /\ WritesWhole
  BY Zenon DEF StoreFacts
<1>1. Sound(store) /\ now \in Int
  BY DEF Kept
<1>2. ASSUME Follows(store, o.store)
      PROVE  Kept(o.store, s)
  BY <1>2, Zenon DEF Kept, Follows
<1>3. \A x, status, value : Outcome(x, status, value).store = x
  BY Zenon DEF Outcome
<1>4. CASE q.op = "Get" /\ q.key \in Keys
  <2>1. o \in Get(store, q.key, now)
    BY <1>4, Zenon DEF Apply
  <2> QED
    BY <1>0, <1>1, <1>2, <1>4, <2>1, Zenon DEF MethodsFollow
<1>5. CASE q.op = "Set" /\ q.set.key \in Keys /\ q.set.value \in Text /\ q.set.ttl \in Int \cup {Never}
  <2>1. o \in Set(store, q.set, now)
    BY <1>5, Zenon DEF Apply
  <2> QED
    BY <1>0, <1>1, <1>2, <1>5, <2>1, Zenon DEF MethodsFollow
<1>6. CASE q.op = "MSet" /\ DOMAIN q.updates \in SUBSET Keys /\ q.updates \in [DOMAIN q.updates -> Text]
  <2>1. o \in MSet(store, q.updates)
    BY <1>6, Zenon DEF Apply
  <2>2. o = Outcome(store, "kNoMemory", Nothing) \/ Follows(store, o.store)
    BY <1>0, <1>1, <1>6, <2>1, Zenon DEF WritesWhole, Wrote
  <2> QED
    BY <1>2, <1>3, <2>2
<1>7. CASE q.op = "Delete" /\ q.key \in Keys
  <2>1. o \in Delete(store, q.key, now)
    BY <1>7, Zenon DEF Apply
  <2> QED
    BY <1>0, <1>1, <1>2, <1>7, <2>1, Zenon DEF MethodsFollow
<1>8. CASE q.op = "Exists" /\ q.key \in Keys
  <2>1. o \in Exists(store, q.key, now)
    BY <1>8, Zenon DEF Apply
  <2> QED
    BY <1>0, <1>1, <1>2, <1>8, <2>1, Zenon DEF MethodsFollow
<1>9. CASE q.op = "Expire" /\ q.key \in Keys /\ q.ttl \in Int
  <2>1. o \in Expire(store, q.key, q.ttl, now)
    BY <1>9, Zenon DEF Apply
  <2> QED
    BY <1>0, <1>1, <1>2, <1>9, <2>1, Zenon DEF MethodsFollow
<1>10. CASE q.op = "TtlSeconds" /\ q.key \in Keys
  <2>1. o \in TtlSeconds(store, q.key, now)
    BY <1>10, Zenon DEF Apply
  <2> QED
    BY <1>0, <1>1, <1>2, <1>10, <2>1, Zenon DEF MethodsFollow
<1>11. CASE q.op = "Increment" /\ q.key \in Keys /\ q.delta \in Int
  <2>1. o \in Increment(store, q.key, q.delta, now, now)
    BY <1>11, Zenon DEF Apply
  <2> QED
    BY <1>0, <1>1, <1>2, <1>11, <2>1, Zenon DEF MethodsFollow
<1>12. CASE q.op = "Snapshot"
  <2>1. o = Snapshot(store, now, now)
    BY <1>12, Zenon DEF Apply
  <2> QED
    BY <1>0, <1>1, <1>2, <2>1, Zenon DEF MethodsFollow
<1>13. CASE q.op = "Clear"
  <2>1. o = Outcome(Clear(store), "kOk", Nothing)
    BY <1>13, Zenon DEF Apply
  <2> QED
    BY <1>0, <1>1, <1>2, <1>3, <2>1 DEF MethodsFollow
<1>14. CASE q.op = "Stats"
  <2>1. \E v : o = Outcome(store, "kOk", v)
    BY <1>14, Zenon DEF Apply
  <2> QED
    BY <1>3, <2>1
<1>15. CASE q.op = "Copy"
  <2>1. o = Outcome(store, "kOk", Nothing)
    BY <1>15, Zenon DEF Apply
  <2> QED
    BY <1>3, <2>1, Zenon
<1>16. CASE q.op = "Restore" /\ s \in DOMAIN checkpoints[task.client]
  <2>1. o = Outcome(checkpoints[task.client][s], "kOk", Nothing)
    BY <1>16, Zenon DEF Apply
  <2> QED
    BY <1>3, <1>16, <2>1, Zenon
<1>17. \/ IsRequest(q) \/ q.op = "Copy"
       \/ q.op = "Restore" /\ s \in DOMAIN checkpoints[task.client]
  BY Zenon DEF Runs
<1> HIDE DEF q
<1> QED
  BY <1>4, <1>5, <1>6, <1>7, <1>8, <1>9, <1>10, <1>11, <1>12, <1>13, <1>14, <1>15, <1>16,
     <1>17, Zenon
  DEF IsRequest

(* Background expiry keeps it so. *)
LEMMA ActiveExpireKept ==
    ASSUME StoreFacts, NEW s, NEW store, Kept(store, s), NEW n \in Int, NEW t \in ActiveExpire(store, Samples, n)
    PROVE  Kept(t, s)
<1>1. Follows(store, t)
  BY Zenon DEF Kept, StoreFacts, MethodsFollow
<1> QED
  BY <1>1, Zenon DEF Kept, Follows

(* Every step keeps the stores, and what they are asked for, in order. *)
LEMMA StoresStep == StoreFacts /\ LockInv /\ StoresInv /\ [Next]_vars => StoresInv'
<1> SUFFICES ASSUME StoreFacts, LockInv, StoresInv, [Next]_vars
             PROVE  StoresInv'
    BY Zenon
<1> DEFINE Copied(c) == DOMAIN checkpoints[c]
<1>0. /\ \A s \in Shards : \A i \in DOMAIN tasks_[s] : tasks_[s][i].client \in Clients
      /\ DOMAIN call = Clients /\ DOMAIN posts = Clients /\ DOMAIN tasks_ = Shards
      /\ \A s \in Shards : IsSequence(tasks_[s])
  BY Zenon DEF LockInv, Holders
<1> USE DEF lockVars, clientVars
<1>1. ASSUME NEW c \in Clients, NEW q \in Menu[c], Enter(c, q)
      PROVE  StoresInv'
  <2> DEFINE R == Rounds(q)
  <2>1. /\ UNCHANGED <<stores, tasks_, checkpoints, now>>
        /\ posts' = [posts EXCEPT ![c] = Head(R)]
        /\ rounds' = [rounds EXCEPT ![c] = Tail(R)]
    BY <1>1, Zenon DEF Enter
  <2>2. IsCall(q)
    BY ShardedAssumption, Zenon
  <2>3. /\ IsSequence(R) /\ R # <<>>
        /\ \A i \in DOMAIN R : AllRun(Copied(c), R[i])
    BY <2>2, RoundsRun, Zenon
  <2> HIDE DEF R
  <2>4. AllRun(Copied(c), Head(R))
    BY <2>3, SequenceParts, Zenon
  <2>5. IsSequence(Tail(R)) /\ \A i \in DOMAIN Tail(R) : AllRun(Copied(c), Tail(R)[i])
    BY <2>3, Popping, Zenon
  <2>6. /\ DOMAIN rounds' = Clients
        /\ \A d \in Clients : AllRun(Copied(d), posts'[d])
    BY <1>0, <2>1, <2>4, Zenon DEF StoresInv
  <2>7. \A d \in Clients : /\ IsSequence(rounds'[d])
                           /\ \A i \in DOMAIN rounds'[d] : AllRun(Copied(d), rounds'[d][i])
    BY <2>1, <2>5, Zenon DEF StoresInv
  <2> QED
    BY <2>1, <2>6, <2>7, Zenon DEF StoresInv
<1>2. ASSUME NEW c \in Clients, Post(c)
      PROVE  StoresInv'
  <2> DEFINE task == Head(posts[c])
             e == [client |-> c, request |-> task.request]
  <2>1. /\ UNCHANGED <<stores, rounds, checkpoints, now>> /\ posts[c] # <<>>
        /\ posts' = [posts EXCEPT ![c] = Tail(@)]
        /\ tasks_' = [tasks_ EXCEPT ![task.shard] = Append(@, e)]
    BY <1>2, Zenon DEF Post
  <2>2. AllRun(Copied(c), posts[c])
    BY Zenon DEF StoresInv
  <2>3. Runs(Copied(c), task.shard, task.request)
    BY <2>1, <2>2, SequenceParts, Zenon DEF AllRun
  <2>4. AllRun(Copied(c), Tail(posts[c]))
    BY <2>1, <2>2, Popping, Zenon DEF AllRun
  <2>5. \A d \in Clients : AllRun(Copied(d), posts'[d])
    BY <1>0, <2>1, <2>4, Zenon DEF StoresInv
  <2> HIDE DEF task
  <2>6. e.client = c /\ e.request = task.request
    BY Zenon
  <2> HIDE DEF e
  <2>7. ASSUME NEW s \in Shards, NEW i \in DOMAIN tasks_'[s]
        PROVE  Runs(Copied(tasks_'[s][i].client), s, tasks_'[s][i].request)
    <3>1. CASE s # task.shard
      BY <1>0, <2>1, <2>7, <3>1, Zenon DEF StoresInv
    <3>2. CASE s = task.shard
      <4>1. tasks_'[s] = Append(tasks_[s], e)
        BY <1>0, <2>1, <3>2, Zenon
      <4>2. tasks_'[s][i] = e \/ \E j \in DOMAIN tasks_[s] : tasks_'[s][i] = tasks_[s][j]
        BY <1>0, <2>7, <4>1, Appending
      <4> QED
        BY <2>3, <2>6, <3>2, <4>2, Zenon DEF StoresInv
    <3> QED
      BY <3>1, <3>2, Zenon
  <2> QED
    BY <2>1, <2>5, <2>7, Zenon DEF StoresInv
<1>3. ASSUME NEW c \in Clients, NextRound(c)
      PROVE  StoresInv'
  <2>1. /\ UNCHANGED <<stores, tasks_, checkpoints, now>> /\ rounds[c] # <<>>
        /\ posts' = [posts EXCEPT ![c] = Head(rounds[c])]
        /\ rounds' = [rounds EXCEPT ![c] = Tail(@)]
    BY <1>3, Zenon DEF NextRound
  <2>2. IsSequence(rounds[c]) /\ \A i \in DOMAIN rounds[c] : AllRun(Copied(c), rounds[c][i])
    BY Zenon DEF StoresInv
  <2>3. AllRun(Copied(c), Head(rounds[c]))
    BY <2>1, <2>2, SequenceParts, Zenon
  <2>4. /\ IsSequence(Tail(rounds[c]))
        /\ \A i \in DOMAIN Tail(rounds[c]) : AllRun(Copied(c), Tail(rounds[c])[i])
    BY <2>1, <2>2, Popping, Zenon
  <2>5. /\ DOMAIN rounds' = Clients
        /\ \A d \in Clients : AllRun(Copied(d), posts'[d])
    BY <1>0, <2>1, <2>3, Zenon DEF StoresInv
  <2>6. \A d \in Clients : /\ IsSequence(rounds'[d])
                           /\ \A i \in DOMAIN rounds'[d] : AllRun(Copied(d), rounds'[d][i])
    BY <2>1, <2>4, Zenon DEF StoresInv
  <2> QED
    BY <2>1, <2>5, <2>6, Zenon DEF StoresInv
<1>4. ASSUME NEW c \in Clients, Rollback(c)
      PROVE  StoresInv'
  <2> DEFINE touched == Ascending(Copied(c))
             T(i) == Task(touched[i], [op |-> "Restore"])
             tasks == [i \in DOMAIN touched |-> T(i)]
  <2>1. /\ UNCHANGED <<stores, tasks_, checkpoints, now>>
        /\ posts' = [posts EXCEPT ![c] = tasks]
        /\ rounds' = [rounds EXCEPT ![c] = <<>>]
    BY <1>4, Zenon DEF Rollback, Restored
  <2>2. /\ DOMAIN touched = 1..Len(touched) /\ Len(touched) \in Nat
        /\ \A i \in DOMAIN touched : touched[i] \in Copied(c) /\ touched[i] \in Shards
    <3>1. Copied(c) \in SUBSET Shards
      BY Zenon DEF StoresInv
    <3>2. ComesToEach
      BY Zenon DEF StoreFacts
    <3> QED
      BY <3>1, <3>2 DEF ComesToEach
  <2>3. \A i \in DOMAIN touched : T(i).shard = touched[i] /\ T(i).request.op = "Restore"
    BY Zenon DEF Task
  <2> HIDE DEF touched, T
  <2>4. tasks = [i \in 1..Len(touched) |-> tasks[i]] /\ \A i \in DOMAIN touched : tasks[i] = T(i)
    BY <2>2, Zenon
  <2> HIDE DEF tasks
  <2>5. IsSequence(tasks) /\ DOMAIN tasks = DOMAIN touched
    BY <2>2, <2>4, FunctionIsSequence, Zenon
  <2>6. AllRun(Copied(c), tasks)
    BY <2>2, <2>3, <2>4, <2>5 DEF AllRun, Runs
  <2>7. IsSequence(<<>>) /\ DOMAIN <<>> = {}
    BY EmptySeq DEF IsSequence
  <2>8. /\ DOMAIN rounds' = Clients
        /\ \A d \in Clients : AllRun(Copied(d), posts'[d])
    BY <1>0, <2>1, <2>6, Zenon DEF StoresInv
  <2>9. \A d \in Clients : /\ IsSequence(rounds'[d])
                           /\ \A i \in DOMAIN rounds'[d] : AllRun(Copied(d), rounds'[d][i])
    BY <2>1, <2>7, Zenon DEF StoresInv
  <2> QED
    BY <2>1, <2>8, <2>9, Zenon DEF StoresInv
<1>5. ASSUME NEW c \in Clients, Return(c)
      PROVE  StoresInv'
  <2>1. /\ UNCHANGED <<stores, tasks_, rounds, posts, now>>
        /\ checkpoints' = [checkpoints EXCEPT ![c] = Restrict(<<>>, {})]
        /\ posts[c] = <<>> /\ rounds[c] = <<>>
        /\ \A s \in Shards : \A i \in DOMAIN tasks_[s] : tasks_[s][i].client # c
    BY <1>5, Zenon DEF Return, Done, RoundOver, Waiting
  <2>2. DOMAIN Restrict(<<>>, {}) = {}
    BY Zenon DEF Restrict
  <2>3. /\ DOMAIN checkpoints' = Clients /\ DOMAIN checkpoints'[c] = {}
        /\ \A d \in Clients : d # c => checkpoints'[d] = checkpoints[d]
    BY <2>1, <2>2, Zenon DEF StoresInv
  <2>4. IsSequence(<<>>) /\ DOMAIN <<>> = {}
    BY EmptySeq DEF IsSequence
  <2>5. ASSUME NEW d \in Clients
        PROVE  /\ \A s \in DOMAIN checkpoints'[d] : s \in Shards /\ Kept(checkpoints'[d][s], s)
               /\ AllRun(DOMAIN checkpoints'[d], posts[d])
               /\ IsSequence(rounds[d])
               /\ \A i \in DOMAIN rounds[d] : AllRun(DOMAIN checkpoints'[d], rounds[d][i])
    <3>1. CASE d = c
      BY <2>1, <2>3, <2>4, <3>1, Zenon DEF AllRun
    <3>2. CASE d # c
      BY <2>3, <3>2, Zenon DEF StoresInv
    <3> QED
      BY <3>1, <3>2, Zenon
  <2>6. ASSUME NEW s \in Shards, NEW i \in DOMAIN tasks_[s]
        PROVE  Runs(DOMAIN checkpoints'[tasks_[s][i].client], s, tasks_[s][i].request)
    <3>1. tasks_[s][i].client \in Clients /\ tasks_[s][i].client # c
      BY <1>0, <2>1, <2>6, Zenon
    <3> QED
      BY <2>3, <2>6, <3>1, Zenon DEF StoresInv
  <2> QED
    BY <2>1, <2>3, <2>5, <2>6, Zenon DEF StoresInv
<1>6. ASSUME NEW s \in Shards, RunTask(s)
      PROVE  StoresInv'
  <2> DEFINE task == Head(tasks_[s])
             c == task.client
  <2>1. PICK o \in Apply(s, stores[s], task) :
          \E t \in ActiveExpire(o.store, Samples, now) : stores' = [stores EXCEPT ![s] = t]
    BY <1>6, Zenon DEF RunTask
  <2>2. PICK t \in ActiveExpire(o.store, Samples, now) : stores' = [stores EXCEPT ![s] = t]
    BY <2>1, Zenon
  <2>3. /\ UNCHANGED <<rounds, posts, now>> /\ tasks_[s] # <<>>
        /\ tasks_' = [tasks_ EXCEPT ![s] = Tail(@)]
        /\ \/ checkpoints' = checkpoints
           \/ checkpoints' = [checkpoints EXCEPT ![c] = Merge(@, [i \in {s} |-> stores[s]])]
    BY <1>6, Zenon DEF RunTask
  <2>4. c \in Clients /\ Runs(Copied(c), s, task.request) /\ Kept(stores[s], s)
    <3>1. 1 \in DOMAIN tasks_[s] /\ task = tasks_[s][1]
      BY <1>0, <2>3, SequenceParts, Zenon
    <3> HIDE DEF task
    <3> QED
      BY <1>0, <3>1, Zenon DEF StoresInv
  <2>5. s \in Copied(c) => Kept(checkpoints[c][s], s)
    BY <2>4, Zenon DEF StoresInv
  <2>6. now \in Nat
    BY Zenon DEF StoresInv
  <2> HIDE DEF task
  <2>7. Kept(o.store, s)
    BY <2>4, <2>5, <2>6, ApplyKept, Zenon
  <2>8. Kept(t, s)
    BY <2>6, <2>7, ActiveExpireKept
  <2>9. DOMAIN stores' = Shards /\ \A r \in Shards : Kept(stores'[r], r)
    BY <2>2, <2>8, Zenon DEF StoresInv
  <2> HIDE DEF c
  <2>10. /\ DOMAIN checkpoints' = Clients
         /\ \A d \in Clients : \A r \in DOMAIN checkpoints'[d] :
               r \in Shards /\ Kept(checkpoints'[d][r], r)
         /\ \A d \in Clients : Copied(d) \subseteq DOMAIN checkpoints'[d]
    <3>1. CASE checkpoints' = checkpoints
      BY <3>1, Zenon DEF StoresInv
    <3>2. CASE checkpoints' = [checkpoints EXCEPT ![c] = Merge(@, [i \in {s} |-> stores[s]])]
      <4> DEFINE m == Merge(checkpoints[c], [i \in {s} |-> stores[s]])
      <4>1. DOMAIN m = Copied(c) \cup {s} /\ m[s] = stores[s]
            /\ \A r \in Copied(c) : r # s => m[r] = checkpoints[c][r]
        BY Zenon DEF Merge
      <4>2. checkpoints' = [checkpoints EXCEPT ![c] = m]
        BY <3>2, Zenon
      <4> HIDE DEF m
      <4>3. \A r \in DOMAIN m : r \in Shards /\ Kept(m[r], r)
        BY <2>4, <4>1, Zenon DEF StoresInv
      <4>4. checkpoints'[c] = m /\ \A d \in Clients : d # c => checkpoints'[d] = checkpoints[d]
        BY <2>4, <4>2, Zenon DEF StoresInv
      <4> QED
        BY <2>4, <4>1, <4>2, <4>3, <4>4, Zenon DEF StoresInv
    <3> QED
      BY <2>3, <3>1, <3>2, Zenon
  <2>11. ASSUME NEW d \in Clients
         PROVE  /\ AllRun(DOMAIN checkpoints'[d], posts[d])
                /\ \A i \in DOMAIN rounds[d] : AllRun(DOMAIN checkpoints'[d], rounds[d][i])
                /\ \A r, q : Runs(Copied(d), r, q) => Runs(DOMAIN checkpoints'[d], r, q)
    BY <2>10, RunsMore, Zenon DEF StoresInv
  <2>12. ASSUME NEW r \in Shards, NEW i \in DOMAIN tasks_'[r]
         PROVE  Runs(DOMAIN checkpoints'[tasks_'[r][i].client], r, tasks_'[r][i].request)
    <3>1. \E j \in DOMAIN tasks_[r] : tasks_'[r][i] = tasks_[r][j]
      <4>1. CASE r = s
        <5>1. tasks_'[r] = Tail(tasks_[r])
          BY <1>0, <2>3, <4>1, Zenon
        <5> QED
          BY <1>0, <2>3, <2>12, <4>1, <5>1, Popping
      <4>2. CASE r # s
        BY <1>0, <2>3, <2>12, <4>2, Zenon
      <4> QED
        BY <4>1, <4>2, Zenon
    <3>2. PICK j \in DOMAIN tasks_[r] : tasks_'[r][i] = tasks_[r][j]
      BY <3>1, Zenon
    <3>3. tasks_[r][j].client \in Clients
      BY <1>0, <2>4, Zenon
    <3> QED
      BY <2>11, <3>2, <3>3, Zenon DEF StoresInv
  <2> QED
    BY <2>3, <2>9, <2>10, <2>11, <2>12, Zenon DEF StoresInv
<1>7. ASSUME NEW s \in Shards, Sweep(s)
      PROVE  StoresInv'
  <2>1. PICK t \in ActiveExpire(stores[s], Samples, now) : stores' = [stores EXCEPT ![s] = t]
    BY <1>7, Zenon DEF Sweep
  <2>2. UNCHANGED <<tasks_, rounds, posts, checkpoints, now>>
    BY <1>7, Zenon DEF Sweep
  <2>3. Kept(t, s)
    BY <2>1, ActiveExpireKept DEF StoresInv
  <2>4. DOMAIN stores' = Shards /\ \A r \in Shards : Kept(stores'[r], r)
    BY <2>1, <2>3, Zenon DEF StoresInv
  <2> QED
    BY <2>2, <2>4, Zenon DEF StoresInv
<1>8. CASE Tick
  <2>1. UNCHANGED <<stores, tasks_, rounds, posts, checkpoints>> /\ now' \in Nat
    BY <1>8 DEF Tick, StoresInv
  <2> QED
    BY <2>1, Zenon DEF StoresInv
<1>9. CASE UNCHANGED vars
  <2>1. UNCHANGED <<stores, tasks_, rounds, posts, checkpoints, now>>
    BY <1>9, Zenon DEF vars
  <2> QED
    BY <2>1, Zenon DEF StoresInv
<1> QED
  BY <1>1, <1>2, <1>3, <1>4, <1>5, <1>6, <1>7, <1>8, <1>9, Zenon DEF Next, ClientStep

(* At the start the stores are empty and nobody has asked for anything. *)
LEMMA StoresInit == StoreFacts /\ Init => StoresInv
<1> SUFFICES ASSUME StoreFacts, Init
             PROVE  StoresInv
  BY Zenon
<1>1. IsSequence(<<>>) /\ DOMAIN <<>> = {}
  BY EmptySeq DEF IsSequence
<1>2. DOMAIN Restrict(<<>>, {}) = {}
  BY Zenon DEF Restrict
<1>3. \A s \in Shards : stores[s] = EmptyStore(Budget(s), Policy) /\ tasks_[s] = <<>>
  BY Zenon DEF Init
<1>4. \A s \in Shards : Kept(stores[s], s)
  BY <1>3, Zenon DEF Kept, StoreFacts, StartsSound
<1>5. DOMAIN stores = Shards /\ now \in Nat
  BY Zenon DEF Init
<1>6. /\ DOMAIN checkpoints = Clients /\ DOMAIN rounds = Clients
      /\ \A c \in Clients : DOMAIN checkpoints[c] = {} /\ posts[c] = <<>> /\ rounds[c] = <<>>
  BY <1>2, Zenon DEF Init
<1> QED
  BY <1>1, <1>3, <1>4, <1>5, <1>6, Zenon DEF StoresInv, AllRun

----------------------------------------------------------------------------
(* At time n, new is old without some entries that have expired. *)
Aged(old, new, n) ==
    /\ DOMAIN new.entries \subseteq DOMAIN old.entries
    /\ \A k \in DOMAIN new.entries : new.entries[k] = old.entries[k]
    /\ \A k \in DOMAIN old.entries \ DOMAIN new.entries : IsExpired(old.entries[k], n)

(* At time n, new is old with updates written to it, without some entries  *)
(* that have expired or, where the policy allows it, were evicted.         *)
Written(old, updates, new, n) ==
    /\ \A k \in DOMAIN updates : /\ k \in DOMAIN new.entries
                                 /\ new.entries[k].value = updates[k]
                                 /\ new.entries[k].expires_at = Never
    /\ \A k \in DOMAIN new.entries \ DOMAIN updates :
          k \in DOMAIN old.entries /\ new.entries[k] = old.entries[k]
    /\ Policy = "noeviction" =>
          \A k \in DOMAIN old.entries \ DOMAIN new.entries : IsExpired(old.entries[k], n)

(* shot has all of new and no more than old. *)
Shot(old, new, shot) ==
    /\ DOMAIN new.entries \subseteq DOMAIN shot
    /\ \A k \in DOMAIN shot : k \in DOMAIN old.entries /\ shot[k].value = old.entries[k].value

(* Entries that expire one after the other. *)
LEMMA AgedTwice ==
    ASSUME NEW a, NEW b, NEW n, Aged(a, b, n), NEW d, Aged(b, d, n)
    PROVE  Aged(a, d, n)
BY Zenon DEF Aged

(* What has expired has expired later. *)
LEMMA Later ==
    ASSUME NEW a, Sound(a), NEW b, NEW u, NEW n \in Int, NEW m \in Int, n <= m
    PROVE  /\ Aged(a, b, n) => Aged(a, b, m)
           /\ Written(a, u, b, n) => Written(a, u, b, m)
<1>1. \A k \in DOMAIN a.entries : IsExpired(a.entries[k], n) => IsExpired(a.entries[k], m)
  BY DEF IsExpired, Sound, IsStore, Entry
<1> QED
  BY <1>1, Zenon DEF Aged, Written

(* What was written, or shot, is not changed by entries that expire. *)
LEMMA ThenAged ==
    ASSUME NEW a, NEW b, NEW d, NEW n, Aged(b, d, n)
    PROVE  /\ \A u : Written(a, u, b, n) => Written(a, u, d, n)
           /\ \A shot : Shot(a, b, shot) => Shot(a, d, shot)
<1>1. ASSUME NEW u, Written(a, u, b, n)
      PROVE  Written(a, u, d, n)
  <2>1. ASSUME NEW k \in DOMAIN u
        PROVE  k \in DOMAIN d.entries /\ d.entries[k] = b.entries[k]
    <3>1. k \in DOMAIN b.entries /\ b.entries[k].expires_at = Never
      BY <1>1, Zenon DEF Written
    <3>2. ~IsExpired(b.entries[k], n)
      BY <3>1, Zenon DEF IsExpired
    <3> QED
      BY <3>1, <3>2, Zenon DEF Aged
  <2>2. ASSUME Policy = "noeviction", NEW k \in DOMAIN a.entries \ DOMAIN d.entries
        PROVE  IsExpired(a.entries[k], n)
    <3>1. CASE k \notin DOMAIN b.entries
      BY <1>1, <2>2, <3>1, Zenon DEF Written
    <3>2. CASE k \in DOMAIN b.entries
      <4>1. IsExpired(b.entries[k], n) /\ k \notin DOMAIN u
        BY <2>1, <2>2, <3>2, Zenon DEF Aged
      <4> QED
        BY <1>1, <3>2, <4>1, Zenon DEF Written
    <3> QED
      BY <3>1, <3>2, Zenon
  <2> QED
    BY <1>1, <2>1, <2>2, Zenon DEF Written, Aged
<1>2. ASSUME NEW shot, Shot(a, b, shot)
      PROVE  Shot(a, d, shot)
  BY <1>2, Zenon DEF Shot, Aged
<1> QED
  BY <1>1, <1>2, Zenon

(* What Erase leaves. *)
LEMMA ErasesThese ==
    ASSUME NEW s, Sound(s), NEW K \in SUBSET DOMAIN s.entries
    PROVE  Erase(s, K).entries = [k \in DOMAIN s.entries \ K |-> s.entries[k]]
BY Zenon DEF Erase, Restrict, Sound, IsStore

(* Background expiry lets a store age. *)
LEMMA ActiveExpireAges ==
    ASSUME NEW b, Sound(b), NEW n, NEW t \in ActiveExpire(b, Samples, n)
    PROVE  Aged(b, t, n)
<1>1. PICK E \in SUBSET DOMAIN b.entries : t = Erase(b, Expired(b, E, n))
  BY Zenon DEF ActiveExpire, kSubset
<1> DEFINE K == Expired(b, E, n)
<1>2. K \in SUBSET DOMAIN b.entries /\ \A k \in K : IsExpired(b.entries[k], n)
  BY Zenon DEF Expired
<1> HIDE DEF K
<1>3. t.entries = [k \in DOMAIN b.entries \ K |-> b.entries[k]]
  BY <1>1, <1>2, ErasesThese, Zenon DEF K
<1> QED
  BY <1>2, <1>3, Zenon DEF Aged

(* A shard's part of a batch write is written in full, or the store stays  *)
(* as it is.                                                               *)
LEMMA MSetWrites ==
    ASSUME StoreFacts, NEW old, NEW store, Sound(store), store.policy = Policy,
           NEW n, Aged(old, store, n), NEW updates, NEW K \in SUBSET Keys, K = DOMAIN updates, updates \in [K -> Text],
           NEW o \in MSet(store, updates)
    PROVE  \/ o.status = "kNoMemory" /\ o.store = store
           \/ o.status = "kOk" /\ Written(old, updates, o.store, n)
<1>1. CASE o = Outcome(store, "kNoMemory", Nothing)
  BY <1>1, Zenon DEF Outcome
<1>2. CASE o # Outcome(store, "kNoMemory", Nothing)
  <2> DEFINE new == o.store
  <2>0. Wrote(store, K, updates, o)
    BY <1>2, Zenon DEF StoreFacts, WritesWhole
  <2>1. /\ o.status = "kOk" /\ K \subseteq DOMAIN new.entries
        /\ DOMAIN new.entries \subseteq DOMAIN store.entries \cup K
        /\ Policy = "noeviction" => DOMAIN store.entries \subseteq DOMAIN new.entries
        /\ \A k \in K : new.entries[k].value = updates[k] /\ new.entries[k].expires_at = Never
        /\ \A k \in DOMAIN new.entries \ K : new.entries[k] = store.entries[k]
    BY <2>0, Zenon DEF Wrote
  <2> HIDE DEF new
  <2>2. \A k \in DOMAIN new.entries \ K : k \in DOMAIN old.entries /\ new.entries[k] = old.entries[k]
    BY <2>1, Zenon DEF Aged
  <2>3. Policy = "noeviction" =>
          \A k \in DOMAIN old.entries \ DOMAIN new.entries : IsExpired(old.entries[k], n)
    BY <2>1, Zenon DEF Aged
  <2>4. Written(old, updates, new, n)
    BY <2>1, <2>2, <2>3, Zenon DEF Written
  <2> QED
    BY <2>1, <2>4, Zenon DEF new
<1> QED
  BY <1>1, <1>2, Zenon

(* A shard's part of a snapshot. *)
LEMMA SnapshotShoots ==
    ASSUME NEW old, NEW store, Sound(store), NEW n, Aged(old, store, n)
    PROVE  LET o == Snapshot(store, n, n) IN
           Aged(old, o.store, n) /\ Shot(old, o.store, o.value.entries)
<1> DEFINE o == Snapshot(store, n, n)
           K == Expired(store, DOMAIN store.entries, n)
           t == Erase(store, K)
           e == o.value.entries
<1>1. K \in SUBSET DOMAIN store.entries /\ \A k \in K : IsExpired(store.entries[k], n)
  BY Zenon DEF Expired
<1>2. /\ o.store = t /\ DOMAIN e = DOMAIN t.entries
      /\ \A k \in DOMAIN t.entries : e[k].value = t.entries[k].value
  BY Zenon DEF Snapshot, Outcome
<1> HIDE DEF o, K, e
<1>3. t.entries = [k \in DOMAIN store.entries \ K |-> store.entries[k]]
  BY <1>1, ErasesThese, Zenon
<1> HIDE DEF t
<1>4. Aged(store, t, n)
  BY <1>1, <1>3, Zenon DEF Aged
<1>5. Aged(old, t, n)
  BY <1>4, AgedTwice, Zenon
<1>6. Shot(old, t, e)
  BY <1>2, <1>5, Zenon DEF Shot, Aged
<1> QED
  BY <1>2, <1>5, <1>6, Zenon DEF o, e

----------------------------------------------------------------------------
(* Shard s has yet to run a task of c's current round. *)
Pending(c, s) == tasks_[s] # <<>> \/ \E j \in DOMAIN posts[c] : posts[c][j].shard = s

OnlyOp(c, op) ==
    /\ \A j \in DOMAIN posts[c] : posts[c][j].request.op = op
    /\ \A s \in Shards : \A i \in DOMAIN tasks_[s] : tasks_[s][i].request.op = op

(* A snapshot, while its one round lasts. *)
Shooting(c) ==
    /\ rounds[c] = <<>> /\ OnlyOp(c, "Snapshot")
    /\ \A s \in Shards :
        /\ Aged(before[s], stores[s], now)
        /\ \/ Pending(c, s)
           \/ s \in DOMAIN results[c] /\ Shot(before[s], stores[s], results[c][s].value.entries)

(* A batch write that failed, while the copies go back. *)
Restoring(c) ==
    /\ rounds[c] = <<>> /\ OnlyOp(c, "Restore")
    /\ \A s \in DOMAIN checkpoints[c] : Aged(before[s], checkpoints[c][s], now)
    /\ \A s \in Shards : \/ Aged(before[s], stores[s], now)
                         \/ s \in DOMAIN checkpoints[c] /\ Pending(c, s)

(* A batch write that has not failed: the round it is in, and how many are *)
(* over.                                                                   *)
Round(c) == Len(Rounds(call[c])) - Len(rounds[c])
Busy(c) == posts[c] # <<>> \/ \E s \in Shards : tasks_[s] # <<>>
Ran(c) == IF Busy(c) THEN Round(c) - 1 ELSE Round(c)

InRound(c, R, i) ==
    /\ i \in 1..Len(R)
    /\ \A j \in 1..Len(rounds[c]) : rounds[c][j] = R[i + j]
    /\ posts[c] # <<>> => posts[c] = R[i] /\ \A s \in Shards : tasks_[s] = <<>>
    /\ \A s \in Shards : tasks_[s] # <<>> =>
          s = R[i][1].shard /\ tasks_[s] = <<[client |-> c, request |-> R[i][1].request]>>

(* Of its r first rounds n copied the shards touched, and the others wrote *)
(* to them.                                                                *)
HasRun(c, updates, touched, n, r) ==
    /\ \A s \in Shards : s \in DOMAIN checkpoints[c] <=> \E j \in 1..n : j <= r /\ s = touched[j]
    /\ \A s \in DOMAIN checkpoints[c] : Aged(before[s], checkpoints[c][s], now)
    /\ r <= n => \A s \in DOMAIN results[c] : results[c][s].status # "kNoMemory"
    /\ \A s \in Shards : \/ Aged(before[s], stores[s], now)
                         \/ \E j \in 1..n : n + j <= r /\ s = touched[j]
    /\ \A j \in 1..n : n + j <= r =>
          /\ touched[j] \in DOMAIN results[c]
          /\ \/ /\ results[c][touched[j]].status = "kNoMemory"
                /\ Aged(before[touched[j]], stores[touched[j]], now)
             \/ Written(before[touched[j]], Group(updates, touched[j]), stores[touched[j]], now)

Writing(c) ==
    LET touched == Touched(call[c].updates) IN
    /\ InRound(c, Rounds(call[c]), Round(c))
    /\ HasRun(c, call[c].updates, touched, Len(touched), Ran(c))

(* What a client that is not in a call leaves behind, and who is in one.   *)
CallsInv ==
    /\ DOMAIN results = Clients /\ DOMAIN failed = Clients
    /\ \A s \in Shards : Sound(before[s])
    /\ \A c \in Clients : call[c] = Idle \/ IsCall(call[c])
    /\ \A c \in Holders : call[c] # Idle
    /\ \A c \in Clients : call[c] = Idle =>
          DOMAIN results[c] = {} /\ DOMAIN checkpoints[c] = {} /\ ~failed[c]

(* The strengthening by which MSetAllOrNothing and SnapshotIsConsistent    *)
(* are proved.                                                             *)
TransactionInv ==
    \A c \in Clients :
        /\ call[c].op = "Snapshot" => Shooting(c)
        /\ call[c].op = "MSet" => IF failed[c] THEN Restoring(c) ELSE Writing(c)

(* A transaction has the mutex to itself. *)
LEMMA Exclusive ==
    ASSUME LockInv, NEW c \in Clients, Unique(call[c])
    PROVE  /\ writer = c /\ Holders = {c}
           /\ \A d \in Clients : d # c => call[d] = Idle /\ posts[d] = <<>>
           /\ \A s \in Shards : \A i \in DOMAIN tasks_[s] : tasks_[s][i].client = c
<1>1. writer = c /\ Holders = {c}
  BY ShardedAssumption, Zenon DEF LockInv, Holders
<1> QED
  BY <1>1, Zenon DEF LockInv

(* CallsInv at the start. *)
LEMMA CallsInit == StoreFacts /\ Init => CallsInv
<1> SUFFICES ASSUME StoreFacts, Init
             PROVE  CallsInv
  BY Zenon
<1>1. DOMAIN Restrict(<<>>, {}) = {}
  BY Zenon DEF Restrict
<1>2. \A s \in Shards : Sound(before[s])
  <2>1. \A s \in Shards : before[s] = EmptyStore(Budget(s), Policy)
    BY Zenon DEF Init
  <2> QED
    BY <2>1, Zenon DEF StoreFacts, StartsSound
<1>3. Holders = {}
  BY Zenon DEF Init, Holders
<1>4. /\ DOMAIN results = Clients /\ DOMAIN failed = Clients
      /\ \A c \in Clients : /\ call[c] = Idle /\ DOMAIN results[c] = {}
                            /\ DOMAIN checkpoints[c] = {} /\ ~failed[c]
  BY <1>1, Zenon DEF Init
<1> QED
  BY <1>2, <1>3, <1>4, Zenon DEF CallsInv

(* Who runs a task is in a call, and keeps nothing when it returns. *)
LEMMA CallsStep == LockInv /\ StoresInv /\ CallsInv /\ [Next]_vars => CallsInv'
<1> SUFFICES ASSUME LockInv, StoresInv, CallsInv, [Next]_vars
             PROVE  CallsInv'
  BY Zenon
<1> USE DEF lockVars, clientVars
<1>0. DOMAIN call = Clients /\ DOMAIN checkpoints = Clients /\ Holders \subseteq Clients
  BY Zenon DEF LockInv, StoresInv, Holders
<1>1. ASSUME NEW c \in Clients, NEW q \in Menu[c], Enter(c, q)
      PROVE  CallsInv'
  <2>1. IsCall(q) /\ q # Idle
    <3>1. IsCall(q)
      BY ShardedAssumption, Zenon
    <3>2. q.op # "idle"
      BY <3>1, Zenon DEF IsCall, IsRequest
    <3> QED
      BY <3>1, <3>2 DEF Idle
  <2>2. /\ UNCHANGED <<results, checkpoints, failed>> /\ writer = NoClient
        /\ call' = [call EXCEPT ![c] = q] /\ (before' = stores \/ before' = before)
        /\ writer' = IF Unique(q) THEN c ELSE NoClient
        /\ readers' = IF Unique(q) THEN {} ELSE readers \cup {c}
    BY <1>1, Zenon DEF Enter
  <2>3. \A d \in Holders' : d \in Holders \/ d = c
    BY <2>2, Zenon DEF Holders
  <2>4. call'[c] = q /\ \A d \in Clients : d # c => call'[d] = call[d]
    BY <1>0, <2>2, Zenon
  <2>5. \A s \in Shards : Sound(before'[s])
    BY <2>2, Zenon DEF CallsInv, StoresInv, Kept
  <2>6. \A d \in Clients : call'[d] = Idle \/ IsCall(call'[d])
    BY <2>1, <2>4, Zenon DEF CallsInv
  <2>7. \A d \in Holders' : call'[d] # Idle
    BY <1>0, <2>1, <2>3, <2>4, Zenon DEF CallsInv
  <2>8. \A d \in Clients : call'[d] = Idle => call[d] = Idle
    BY <2>1, <2>4, Zenon
  <2> QED
    BY <2>2, <2>5, <2>6, <2>7, <2>8, Zenon DEF CallsInv
<1>2. ASSUME NEW c \in Clients, Post(c) \/ NextRound(c)
      PROVE  CallsInv'
  <2>1. UNCHANGED <<call, results, checkpoints, failed, before>> /\ Holders' = Holders
    BY <1>2, Zenon DEF Post, NextRound, Holders
  <2> QED
    BY <2>1, Zenon DEF CallsInv
<1>3. ASSUME NEW c \in Clients, Rollback(c)
      PROVE  CallsInv'
  <2>1. /\ UNCHANGED <<call, results, checkpoints, before>> /\ Holders' = Holders
        /\ failed' = [failed EXCEPT ![c] = TRUE] /\ call[c] # Idle
    BY <1>3, Zenon DEF Rollback, Holders, RoundOver
  <2>2. DOMAIN failed' = Clients /\ \A d \in Clients : d # c => failed'[d] = failed[d]
    BY <2>1, Zenon DEF CallsInv
  <2> QED
    BY <2>1, <2>2, Zenon DEF CallsInv
<1>4. ASSUME NEW c \in Clients, Return(c)
      PROVE  CallsInv'
  <2>1. /\ before' = before
        /\ readers' = readers \ {c} /\ writer' = IF writer = c THEN NoClient ELSE writer
        /\ call' = [call EXCEPT ![c] = Idle]
        /\ results' = [results EXCEPT ![c] = Restrict(<<>>, {})]
        /\ checkpoints' = [checkpoints EXCEPT ![c] = Restrict(<<>>, {})]
        /\ failed' = [failed EXCEPT ![c] = FALSE]
    BY <1>4, Zenon DEF Return, Unlock
  <2>2. DOMAIN Restrict(<<>>, {}) = {}
    BY Zenon DEF Restrict
  <2>3. \A d \in Holders' : d \in Holders /\ d # c
    BY <2>1, ShardedAssumption, Zenon DEF Holders, LockInv
  <2>4. /\ call'[c] = Idle /\ DOMAIN results'[c] = {} /\ DOMAIN checkpoints'[c] = {} /\ ~failed'[c]
        /\ \A d \in Clients : d # c => /\ call'[d] = call[d] /\ results'[d] = results[d]
                                       /\ checkpoints'[d] = checkpoints[d] /\ failed'[d] = failed[d]
        /\ DOMAIN results' = Clients /\ DOMAIN failed' = Clients
    BY <1>0, <2>1, <2>2, Zenon DEF CallsInv
  <2>5. \A d \in Holders' : call'[d] # Idle
    BY <1>0, <2>3, <2>4, Zenon DEF CallsInv
  <2>6. \A d \in Clients : call'[d] = Idle \/ IsCall(call'[d])
    BY <2>4, Zenon DEF CallsInv
  <2>7. \A d \in Clients : call'[d] = Idle =>
          DOMAIN results'[d] = {} /\ DOMAIN checkpoints'[d] = {} /\ ~failed'[d]
    BY <2>4, Zenon DEF CallsInv
  <2> QED
    BY <2>1, <2>4, <2>5, <2>6, <2>7, Zenon DEF CallsInv
<1>5. ASSUME NEW s \in Shards, RunTask(s)
      PROVE  CallsInv'
  <2> DEFINE c == Head(tasks_[s]).client
  <2>1. /\ UNCHANGED <<call, failed, before>> /\ Holders' = Holders /\ tasks_[s] # <<>>
        /\ \E v : results' = [results EXCEPT ![c] = v]
        /\ \/ checkpoints' = checkpoints
           \/ \E v : checkpoints' = [checkpoints EXCEPT ![c] = v]
    BY <1>5, Zenon DEF RunTask, Holders
  <2>2. c \in Holders
    BY <2>1, SequenceParts DEF LockInv
  <2> HIDE DEF c
  <2>3. DOMAIN results' = Clients
    BY <2>1, Zenon DEF CallsInv
  <2>4. \A d \in Clients : d # c => results'[d] = results[d] /\ checkpoints'[d] = checkpoints[d]
    BY <1>0, <2>1, Zenon DEF CallsInv
  <2>5. call[c] # Idle
    BY <2>2, Zenon DEF CallsInv
  <2> QED
    BY <2>1, <2>3, <2>4, <2>5, Zenon DEF CallsInv
<1>6. CASE (\E s \in Shards : Sweep(s)) \/ Tick \/ UNCHANGED vars
  <2>1. UNCHANGED <<call, results, checkpoints, failed, before>> /\ Holders' = Holders
    BY <1>6, Zenon DEF Sweep, Tick, vars, Holders
  <2> QED
    BY <2>1, Zenon DEF CallsInv
<1> QED
  BY <1>1, <1>2, <1>3, <1>4, <1>5, <1>6 DEF Next, ClientStep

(* A step of the clock or of a worker that has nothing to do. *)
Quiet ==
    /\ UNCHANGED <<tasks_, call, rounds, posts, results, checkpoints, failed, before>>
    /\ now' \in Nat /\ now <= now'
    /\ \A s \in Shards : Aged(stores[s], stores'[s], now')

(* Shard s runs request q of client c, with outcome o. *)
TaskRun(c, s, q, o) ==
    /\ tasks_[s] # <<>> /\ tasks_[s][1].request = q
    /\ tasks_'[s] = Tail(tasks_[s]) /\ \A r \in Shards \ {s} : tasks_'[r] = tasks_[r]
    /\ UNCHANGED <<call, rounds, posts, failed, before, now>>
    /\ Aged(o.store, stores'[s], now) /\ \A r \in Shards \ {s} : stores'[r] = stores[r]
    /\ \A r : r \in DOMAIN results'[c] <=> r \in DOMAIN results[c] \/ r = s
    /\ results'[c][s].status = o.status /\ results'[c][s].value = o.value
    /\ \A r \in DOMAIN results[c] \ {s} : results'[c][r] = results[c][r]
    /\ q.op # "Copy" => checkpoints'[c] = checkpoints[c]
    /\ q.op = "Copy" =>
          /\ \A r : r \in DOMAIN checkpoints'[c] <=> r \in DOMAIN checkpoints[c] \/ r = s
          /\ checkpoints'[c][s] = stores[s]
          /\ \A r \in DOMAIN checkpoints[c] \ {s} : checkpoints'[c][r] = checkpoints[c][r]

(* A store that nothing happens to. *)
LEMMA NothingAges == ASSUME NEW a, NEW n PROVE Aged(a, a, n)
BY Zenon DEF Aged

Noted(f, s, x) == Merge(f, [i \in {s} |-> x])

(* A result, or a copy, that is noted for shard s. *)
LEMMA NotedParts ==
    ASSUME NEW f, NEW s, NEW x, NEW m, m = Noted(f, s, x)
    PROVE  /\ \A r : r \in DOMAIN m <=> r \in DOMAIN f \/ r = s
           /\ m[s] = x /\ \A r \in DOMAIN f \ {s} : m[r] = f[r]
BY ZenonT(40) DEF Noted, Merge

(* What a shard's worker does with the task at the head of its queue. *)
LEMMA TaskRuns ==
    ASSUME StoreFacts, LockInv, StoresInv, CallsInv, NEW s \in Shards, RunTask(s), NEW c \in Clients,
           \A i \in DOMAIN tasks_[s] : tasks_[s][i].client = c
    PROVE  LET task == tasks_[s][1]
               q == task.request
           IN  /\ Runs(DOMAIN checkpoints[c], s, q)
               /\ \E o \in Apply(s, stores[s], task) : TaskRun(c, s, q, o)
<1> DEFINE task == Head(tasks_[s])
           q == task.request
<1> USE DEF lockVars, clientVars
<1>1. /\ tasks_[s] # <<>> /\ IsSequence(tasks_[s]) /\ 1 \in DOMAIN tasks_[s]
      /\ task = tasks_[s][1] /\ task.client = c
  BY SequenceParts, Zenon DEF LockInv, RunTask
<1>2. PICK o \in Apply(s, stores[s], task) :
        /\ \E t \in ActiveExpire(o.store, Samples, now) : stores' = [stores EXCEPT ![s] = t]
        /\ results' = [results EXCEPT ![task.client] =
                          Merge(@, [i \in {s} |-> [status |-> o.status, value |-> o.value]])]
  BY Zenon DEF RunTask
<1>3. /\ checkpoints' = IF q.op = "Copy"
                        THEN [checkpoints EXCEPT ![c] = Merge(@, [i \in {s} |-> stores[s]])]
                        ELSE checkpoints
      /\ tasks_' = [tasks_ EXCEPT ![s] = Tail(@)]
      /\ UNCHANGED <<call, rounds, posts, failed, before, now>>
  BY <1>1, Zenon DEF RunTask
<1>4. Runs(DOMAIN checkpoints[c], s, q)
  BY <1>1, Zenon DEF StoresInv
<1>5. Kept(o.store, s)
  <2>1. s \in DOMAIN checkpoints[task.client] => Kept(checkpoints[task.client][s], s)
    BY <1>1, Zenon DEF StoresInv
  <2>2. Kept(stores[s], s) /\ now \in Nat
    BY Zenon DEF StoresInv
  <2> HIDE DEF task
  <2> QED
    BY <1>1, <1>2, <1>4, <2>1, <2>2, ApplyKept DEF q
<1>6. Aged(o.store, stores'[s], now) /\ \A r \in Shards \ {s} : stores'[r] = stores[r]
  <2>1. PICK t \in ActiveExpire(o.store, Samples, now) : stores' = [stores EXCEPT ![s] = t]
    BY <1>2, Zenon
  <2>2. Aged(o.store, t, now)
    BY <1>5, ActiveExpireAges, Zenon DEF Kept
  <2> QED
    BY <2>1, <2>2, Zenon DEF StoresInv
<1>8. /\ \A r : r \in DOMAIN results'[c] <=> r \in DOMAIN results[c] \/ r = s
      /\ results'[c][s] = [status |-> o.status, value |-> o.value]
      /\ \A r \in DOMAIN results[c] \ {s} : results'[c][r] = results[c][r]
  <2>1. results'[c] = Noted(results[c], s, [status |-> o.status, value |-> o.value])
    BY <1>1, <1>2, Zenon DEF CallsInv, Noted
  <2> QED
    BY <2>1, NotedParts
<1>9. ASSUME q.op = "Copy"
      PROVE  /\ \A r : r \in DOMAIN checkpoints'[c] <=> r \in DOMAIN checkpoints[c] \/ r = s
             /\ checkpoints'[c][s] = stores[s]
             /\ \A r \in DOMAIN checkpoints[c] \ {s} : checkpoints'[c][r] = checkpoints[c][r]
  <2>1. checkpoints'[c] = Noted(checkpoints[c], s, stores[s])
    BY <1>3, <1>9, Zenon DEF StoresInv, Noted
  <2> HIDE DEF task, q
  <2> QED
    BY <2>1, NotedParts, SMTT(30)
<1>10. tasks_'[s] = Tail(tasks_[s]) /\ \A r \in Shards \ {s} : tasks_'[r] = tasks_[r]
  BY <1>3, Zenon DEF LockInv
<1>11. results'[c][s].status = o.status /\ results'[c][s].value = o.value
  BY <1>8
<1> QED
  BY <1>1, <1>2, <1>3, <1>4, <1>6, <1>8, <1>9, <1>10, <1>11, ZenonT(40) DEF TaskRun

(* What can happen while c is in a transaction: it enters it, goes on with *)
(* it, a shard runs one of its tasks, or nothing that matters.             *)
LEMMA TransactionSteps ==
    ASSUME StoreFacts, LockInv, StoresInv, CallsInv, [Next]_vars, NEW c \in Clients, Unique(call'[c])
    PROVE  \/ \E q \in Menu[c] : Enter(c, q) /\ call'[c] = q
           \/ /\ Unique(call[c]) /\ call'[c] = call[c]
              /\ \/ Post(c) \/ NextRound(c) \/ Rollback(c)
                 \/ \E s \in Shards : RunTask(s)
                 \/ Quiet
<1> USE DEF lockVars, clientVars
<1>0. DOMAIN call = Clients /\ ~Unique(Idle) /\ NoClient \notin Clients
  BY ShardedAssumption, Zenon DEF LockInv, Unique, Idle
<1>1. ASSUME NEW d \in Clients, NEW q \in Menu[d], Enter(d, q), d # c
      PROVE  FALSE
  <2>1. call'[c] = call[c] /\ writer = NoClient
    BY <1>0, <1>1, Zenon DEF Enter
  <2> QED
    BY <1>0, <2>1, Zenon DEF LockInv
<1>2. ASSUME NEW q \in Menu[c], Enter(c, q)
      PROVE  call'[c] = q
  BY <1>0, <1>2, Zenon DEF Enter
<1>3. ASSUME NEW d \in Clients, Post(d) \/ NextRound(d) \/ Rollback(d)
      PROVE  d = c /\ Unique(call[c]) /\ call'[c] = call[c]
  <2>1. call' = call /\ (posts[d] # <<>> \/ call[d] # Idle)
    BY <1>3, Zenon DEF Post, NextRound, Rollback, RoundOver
  <2> QED
    BY <2>1, Exclusive, Zenon
<1>4. ASSUME NEW d \in Clients, Return(d)
      PROVE  FALSE
  <2>1. call' = [call EXCEPT ![d] = Idle] /\ call[d] # Idle
    BY <1>4, Zenon DEF Return, Done, RoundOver
  <2> QED
    BY <1>0, <2>1, Exclusive, Zenon
<1>5. ASSUME NEW s \in Shards, RunTask(s)
      PROVE  Unique(call[c]) /\ call'[c] = call[c]
  BY <1>5, Zenon DEF RunTask
<1>6. ASSUME NEW s \in Shards, Sweep(s)
      PROVE  Quiet /\ Unique(call[c]) /\ call'[c] = call[c]
  <2>1. PICK t \in ActiveExpire(stores[s], Samples, now) : stores' = [stores EXCEPT ![s] = t]
    BY <1>6, Zenon DEF Sweep
  <2>2. Aged(stores[s], t, now)
    BY ActiveExpireAges, Zenon DEF StoresInv, Kept
  <2>3. \A r \in Shards : Aged(stores[r], stores'[r], now)
    BY <2>1, <2>2, NothingAges, Zenon DEF StoresInv
  <2>4. now \in Nat
    BY Zenon DEF StoresInv
  <2> QED
    <3>1. UNCHANGED <<tasks_, call, rounds, posts, results, checkpoints, failed, before, now>>
      BY <1>6, Zenon DEF Sweep
    <3>2. now' \in Nat /\ now <= now' /\ \A r \in Shards : Aged(stores[r], stores'[r], now')
      BY <2>3, <2>4, <3>1
    <3> QED
      BY <3>1, <3>2, Zenon DEF Quiet
<1>7. ASSUME Tick \/ UNCHANGED vars
      PROVE  Quiet /\ Unique(call[c]) /\ call'[c] = call[c]
  <2>1. now \in Nat
    BY Zenon DEF StoresInv
  <2> QED
    BY <1>7, <2>1, NothingAges DEF Tick, vars, Quiet
<1> QED
  BY <1>1, <1>2, <1>3, <1>4, <1>5, <1>6, <1>7, Zenon DEF Next, ClientStep

(* A transaction begins with nothing under way. *)
LEMMA EnterAlone ==
    ASSUME LockInv, StoresInv, CallsInv, NEW c \in Clients, NEW q, Enter(c, q), Unique(q)
    PROVE  /\ before' = stores /\ UNCHANGED <<stores, tasks_, now>>
           /\ \A s \in Shards : tasks_[s] = <<>>
           /\ rounds'[c] = Tail(Rounds(q)) /\ posts'[c] = Head(Rounds(q))
           /\ DOMAIN results'[c] = {} /\ DOMAIN checkpoints'[c] = {} /\ ~failed'[c]
<1>1. /\ before' = stores /\ UNCHANGED <<stores, tasks_, now, results, checkpoints, failed>>
      /\ rounds' = [rounds EXCEPT ![c] = Tail(Rounds(q))]
      /\ posts' = [posts EXCEPT ![c] = Head(Rounds(q))]
      /\ call[c] = Idle /\ writer = NoClient /\ readers = {}
  BY Zenon DEF Enter
<1>2. Holders = {}
  BY <1>1, Zenon DEF Holders
<1>3. ASSUME NEW s \in Shards
      PROVE  tasks_[s] = <<>>
  <2>1. IsSequence(tasks_[s]) /\ \A i \in DOMAIN tasks_[s] : FALSE
    BY <1>2, Zenon DEF LockInv
  <2> QED
    BY <2>1, SequenceParts, Zenon
<1>4. rounds'[c] = Tail(Rounds(q)) /\ posts'[c] = Head(Rounds(q))
  BY <1>1, Zenon DEF LockInv, StoresInv
<1>5. DOMAIN results[c] = {} /\ DOMAIN checkpoints[c] = {} /\ ~failed[c]
  BY <1>1, Zenon DEF CallsInv
<1> QED
  BY <1>1, <1>3, <1>4, <1>5, Zenon

(* The queue of shard s after c posted to it. *)
LEMMA PostMoves ==
    ASSUME LockInv, StoresInv, NEW c \in Clients, Post(c)
    PROVE  LET task == posts[c][1] IN
           /\ UNCHANGED <<stores, call, rounds, results, checkpoints, failed, before, now>>
           /\ posts[c] # <<>> /\ posts'[c] = Tail(posts[c]) /\ task.shard \in Shards
           /\ tasks_'[task.shard] =
                 Append(tasks_[task.shard], [client |-> c, request |-> task.request])
           /\ \A s \in Shards : s # task.shard => tasks_'[s] = tasks_[s]
<1> DEFINE task == posts[c][1]
<1>1. /\ UNCHANGED <<stores, call, rounds, results, checkpoints, failed, before, now>>
      /\ posts[c] # <<>> /\ posts' = [posts EXCEPT ![c] = Tail(@)]
      /\ tasks_' = [tasks_ EXCEPT ![Head(posts[c]).shard] =
                      Append(@, [client |-> c, request |-> Head(posts[c]).request])]
  BY Zenon DEF Post
<1>2. /\ IsSequence(posts[c])
      /\ \A j \in DOMAIN posts[c] : Runs(DOMAIN checkpoints[c], posts[c][j].shard, posts[c][j].request)
  BY Zenon DEF StoresInv, AllRun
<1>3. Head(posts[c]) = task /\ task.shard \in Shards
  BY <1>1, <1>2, SequenceParts, Zenon DEF Runs
<1>4. tasks_' = [tasks_ EXCEPT ![task.shard] =
                   Append(@, [client |-> c, request |-> task.request])]
  BY <1>1, <1>3, Zenon
<1> HIDE DEF task
<1>5. posts'[c] = Tail(posts[c])
  BY <1>1, Zenon DEF LockInv
<1>6. /\ tasks_'[task.shard] =
            Append(tasks_[task.shard], [client |-> c, request |-> task.request])
      /\ \A s \in Shards : s # task.shard => tasks_'[s] = tasks_[s]
  BY <1>3, <1>4, Zenon DEF LockInv
<1> QED
  BY <1>1, <1>3, <1>5, <1>6, Zenon DEF task

(* A queue that has grown is not empty. *)
LEMMA AppendNotEmpty == ASSUME NEW q, IsSequence(q), NEW e PROVE Append(q, e) # <<>>
<1> DEFINE S == {q[i] : i \in DOMAIN q} \cup {e}
<1>1. q \in Seq(S) /\ e \in S
  <2>1. {q[i] : i \in DOMAIN q} \subseteq S
    BY Zenon
  <2> QED
    BY <2>1, SeqMonotonic, Zenon DEF IsSequence
<1> HIDE DEF S
<1>2. Append(q, e) \in Seq(S) /\ Len(Append(q, e)) = Len(q) + 1 /\ Len(q) \in Nat
  BY <1>1, AppendProperties, LenProperties, Zenon
<1> QED
  BY <1>2, EmptySeq

(* Posting a task leaves what is pending pending. *)
LEMMA PostKeeps ==
    ASSUME LockInv, StoresInv, NEW c \in Clients, Post(c)
    PROVE  /\ \A op : OnlyOp(c, op) => OnlyOp(c, op)'
           /\ \A s \in Shards : Pending(c, s) => Pending(c, s)'
<1> DEFINE task == posts[c][1]
           e == [client |-> c, request |-> task.request]
<1>1. /\ posts[c] # <<>> /\ posts'[c] = Tail(posts[c]) /\ task.shard \in Shards
      /\ tasks_'[task.shard] = Append(tasks_[task.shard], e)
      /\ \A s \in Shards : s # task.shard => tasks_'[s] = tasks_[s]
  BY PostMoves, Zenon
<1>2. IsSequence(posts[c]) /\ \A s \in Shards : IsSequence(tasks_[s])
  BY ZenonT(40) DEF StoresInv, AllRun, LockInv
<1>3. /\ 1 \in DOMAIN posts[c] /\ DOMAIN posts[c] = 1..Len(posts[c]) /\ Len(posts[c]) \in Nat
      /\ DOMAIN posts'[c] = 1..(Len(posts[c]) - 1)
      /\ \A i \in DOMAIN posts'[c] : i + 1 \in DOMAIN posts[c] /\ posts'[c][i] = posts[c][i + 1]
  BY <1>1, <1>2, SequenceParts
<1>4. e.request = task.request
  BY Zenon
<1> HIDE DEF task, e
<1>5. ASSUME NEW op, OnlyOp(c, op)
      PROVE  OnlyOp(c, op)'
  <2>1. \A j \in DOMAIN posts'[c] : posts'[c][j].request.op = op
    BY <1>3, <1>5 DEF OnlyOp
  <2>2. task.request.op = op
    BY <1>3, <1>5, Zenon DEF OnlyOp, task
  <2>3. ASSUME NEW s \in Shards, NEW i \in DOMAIN tasks_'[s]
        PROVE  tasks_'[s][i].request.op = op
    <3>1. CASE s = task.shard
      <4>1. tasks_'[s][i] = e \/ \E j \in DOMAIN tasks_[s] : tasks_'[s][i] = tasks_[s][j]
        BY <1>1, <1>2, <2>3, <3>1, Appending
      <4> QED
        BY <1>4, <1>5, <2>2, <4>1, Zenon DEF OnlyOp
    <3>2. CASE s # task.shard
      BY <1>1, <1>5, <2>3, <3>2 DEF OnlyOp
    <3> QED
      BY <3>1, <3>2, Zenon
  <2> QED
    BY <2>1, <2>3, Zenon DEF OnlyOp
<1>6. ASSUME NEW s \in Shards, Pending(c, s)
      PROVE  Pending(c, s)'
  <2>1. CASE s = task.shard
    <3>1. Append(tasks_[s], e) # <<>>
      BY <1>2, AppendNotEmpty, Zenon
    <3> QED
      BY <1>1, <2>1, <3>1 DEF Pending
  <2>2. CASE s # task.shard /\ tasks_[s] # <<>>
    BY <1>1, <2>2, Zenon DEF Pending
  <2>3. CASE s # task.shard /\ tasks_[s] = <<>>
    <3>1. PICK j \in DOMAIN posts[c] : posts[c][j].shard = s
      BY <1>6, <2>3, Zenon DEF Pending
    <3>2. j # 1
      BY <2>3, <3>1, Zenon DEF task
    <3>3. j - 1 \in DOMAIN posts'[c] /\ (j - 1) + 1 = j
      BY <1>3, <3>2
    <3>4. posts'[c][j - 1].shard = s
      BY <1>3, <3>1, <3>3
    <3> QED
      BY <3>3, <3>4, Zenon DEF Pending
  <2> QED
    BY <2>1, <2>2, <2>3, Zenon
<1> QED
  BY <1>5, <1>6, Zenon

(* Running a task leaves what is pending on other shards pending. *)
LEMMA TaskKeeps ==
    ASSUME LockInv, NEW c \in Clients, NEW s \in Shards, NEW q, NEW o, TaskRun(c, s, q, o)
    PROVE  /\ \A op : OnlyOp(c, op) => q.op = op /\ OnlyOp(c, op)'
           /\ \A r \in Shards \ {s} : Pending(c, r) => Pending(c, r)'
<1>1. /\ tasks_[s] # <<>> /\ tasks_[s][1].request = q /\ tasks_'[s] = Tail(tasks_[s])
      /\ \A r \in Shards \ {s} : tasks_'[r] = tasks_[r]
      /\ posts' = posts
  BY Zenon DEF TaskRun
<1>2. IsSequence(tasks_[s])
  BY Zenon DEF LockInv
<1>3. 1 \in DOMAIN tasks_[s] /\ \A i \in DOMAIN tasks_'[s] : \E j \in DOMAIN tasks_[s] : tasks_'[s][i] = tasks_[s][j]
  BY <1>1, <1>2, SequenceParts, Popping
<1>4. ASSUME NEW op, OnlyOp(c, op)
      PROVE  q.op = op /\ OnlyOp(c, op)'
  <2>1. q.op = op
    BY <1>1, <1>3, <1>4, Zenon DEF OnlyOp
  <2>2. ASSUME NEW r \in Shards, NEW i \in DOMAIN tasks_'[r]
        PROVE  tasks_'[r][i].request.op = op
    <3>1. CASE r = s
      BY <1>3, <1>4, <2>2, <3>1 DEF OnlyOp
    <3>2. CASE r # s
      BY <1>1, <1>4, <2>2, <3>2 DEF OnlyOp
    <3> QED
      BY <3>1, <3>2, Zenon
  <2> QED
    BY <1>1, <1>4, <2>1, <2>2, Zenon DEF OnlyOp
<1> QED
  BY <1>1, <1>4, Zenon DEF Pending

(* A snapshot goes on as Shooting says. *)
LEMMA ShootingStep ==
    ASSUME StoreFacts, LockInv, StoresInv, CallsInv, [Next]_vars, NEW c \in Clients,
           call[c].op = "Snapshot" => Shooting(c), call'[c].op = "Snapshot"
    PROVE  Shooting(c)'
<1>0. Unique(call'[c]) /\ now \in Nat
  BY Zenon DEF Unique, StoresInv
<1>1. ASSUME NEW q \in Menu[c], Enter(c, q), call'[c] = q
      PROVE  Shooting(c)'
  <2>1. q.op = "Snapshot" /\ Unique(q)
    BY <1>0, <1>1, Zenon
  <2>2. Rounds(q) = <<ToAll(q)>>
    BY <2>1, Zenon DEF Rounds
  <2>3. Head(Rounds(q)) = ToAll(q) /\ Tail(Rounds(q)) = <<>>
    <3>1. IsSequence(Rounds(q)) /\ Len(Rounds(q)) = 1 /\ Rounds(q) # <<>> /\ Rounds(q)[1] = ToAll(q)
      BY <2>2, Single, Zenon
    <3>2. IsSequence(Tail(Rounds(q))) /\ Len(Tail(Rounds(q))) = 0
      BY <3>1, SequenceParts, Popping
    <3> QED
      BY <3>1, <3>2, SequenceParts
  <2>4. /\ before' = stores /\ UNCHANGED <<stores, tasks_, now>>
        /\ \A s \in Shards : tasks_[s] = <<>>
        /\ rounds'[c] = <<>> /\ posts'[c] = ToAll(q)
    BY <1>1, <2>1, <2>3, EnterAlone, Zenon
  <2>5. DOMAIN <<>> = {}
    OBVIOUS
  <2>6. /\ DOMAIN ToAll(q) = 1..ShardCount
        /\ \A i \in 1..ShardCount : ToAll(q)[i].shard = i - 1 /\ ToAll(q)[i].request = q
    BY Zenon DEF ToAll, Task
  <2>7. OnlyOp(c, "Snapshot")'
    BY <2>1, <2>4, <2>5, <2>6 DEF OnlyOp
  <2>8. ASSUME NEW s \in Shards
        PROVE  Pending(c, s)' /\ Aged(before'[s], stores'[s], now')
    <3>1. s + 1 \in 1..ShardCount /\ (s + 1) - 1 = s
      BY ShardedAssumption DEF Shards
    <3>2. s + 1 \in DOMAIN posts'[c] /\ posts'[c][s + 1].shard = s
      BY <2>4, <2>6, <3>1, Zenon
    <3> QED
      BY <2>4, <3>2, NothingAges, Zenon DEF Pending
  <2> QED
    BY <2>4, <2>7, <2>8, Zenon DEF Shooting
<1>2. CASE Unique(call[c]) /\ call'[c] = call[c] /\ Post(c)
  <2>1. Shooting(c)
    BY <1>2, Zenon
  <2>2. UNCHANGED <<stores, call, rounds, results, checkpoints, failed, before, now>>
    BY <1>2, PostMoves, Zenon
  <2>3. OnlyOp(c, "Snapshot")' /\ \A s \in Shards : Pending(c, s) => Pending(c, s)'
    BY <1>2, <2>1, PostKeeps, Zenon DEF Shooting
  <2> QED
    BY <2>1, <2>2, <2>3, Zenon DEF Shooting
<1>3. CASE Unique(call[c]) /\ call'[c] = call[c] /\ NextRound(c)
  <2>1. rounds[c] # <<>> /\ Shooting(c)
    BY <1>3, Zenon DEF NextRound
  <2> QED
    BY <2>1, Zenon DEF Shooting
<1>4. CASE Unique(call[c]) /\ call'[c] = call[c] /\ Rollback(c)
  BY <1>4, Zenon DEF Rollback, Refused
<1>5. ASSUME NEW s \in Shards, RunTask(s), Unique(call[c]), call'[c] = call[c]
      PROVE  Shooting(c)'
  <2> DEFINE q == tasks_[s][1].request
  <2>1. Shooting(c) /\ \A i \in DOMAIN tasks_[s] : tasks_[s][i].client = c
    BY <1>5, Exclusive, Zenon
  <2>2. PICK o \in Apply(s, stores[s], tasks_[s][1]) : TaskRun(c, s, q, o)
    BY <1>5, <2>1, TaskRuns, ZenonT(40)
  <2>3. /\ OnlyOp(c, "Snapshot")' /\ q.op = "Snapshot"
        /\ \A r \in Shards \ {s} : Pending(c, r) => Pending(c, r)'
    BY <2>1, <2>2, TaskKeeps DEF Shooting
  <2>4. o = Snapshot(stores[s], now, now)
    BY <2>3, Zenon DEF Apply
  <2>5. /\ UNCHANGED <<call, rounds, failed, before, now>>
        /\ Aged(o.store, stores'[s], now) /\ \A r \in Shards \ {s} : stores'[r] = stores[r]
        /\ \A r : r \in DOMAIN results'[c] <=> r \in DOMAIN results[c] \/ r = s
        /\ results'[c][s].value = o.value
        /\ \A r \in DOMAIN results[c] \ {s} : results'[c][r] = results[c][r]
    BY <2>2, Zenon DEF TaskRun
  <2>6. Aged(before[s], o.store, now) /\ Shot(before[s], o.store, o.value.entries)
    BY <2>1, <2>4, SnapshotShoots, Zenon DEF Shooting, StoresInv, Kept
  <2>7. Aged(before[s], stores'[s], now) /\ Shot(before[s], stores'[s], results'[c][s].value.entries)
    <3>1. Aged(before[s], stores'[s], now)
      BY <2>5, <2>6, AgedTwice, Zenon
    <3>2. Shot(before[s], stores'[s], o.value.entries)
      BY <2>5, <2>6, ThenAged, Zenon
    <3> QED
      BY <2>5, <3>1, <3>2, Zenon
  <2>8. ASSUME NEW r \in Shards
        PROVE  /\ Aged(before[r], stores'[r], now)
               /\ \/ Pending(c, r)'
                  \/ r \in DOMAIN results'[c] /\ Shot(before[r], stores'[r], results'[c][r].value.entries)
    <3>1. CASE r = s
      BY <2>5, <2>7, <3>1, Zenon
    <3>2. CASE r # s
      BY <2>1, <2>3, <2>5, <3>2, Zenon DEF Shooting
    <3> QED
      BY <3>1, <3>2, Zenon
  <2>9. rounds[c] = <<>>
    BY <2>1, Zenon DEF Shooting
  <2> QED
    BY <2>3, <2>5, <2>8, <2>9, Zenon DEF Shooting
<1>6. CASE Unique(call[c]) /\ call'[c] = call[c] /\ Quiet
  <2>1. Shooting(c)
    BY <1>6, Zenon
  <2>2. /\ UNCHANGED <<tasks_, rounds, posts, results, before>>
        /\ now <= now' /\ now' \in Nat
        /\ \A s \in Shards : Aged(stores[s], stores'[s], now')
    BY <1>6, Zenon DEF Quiet
  <2>3. OnlyOp(c, "Snapshot")' /\ rounds'[c] = <<>> /\ \A s \in Shards : Pending(c, s) <=> Pending(c, s)'
    BY <2>1, <2>2, Zenon DEF Shooting, OnlyOp, Pending
  <2>4. ASSUME NEW s \in Shards
        PROVE  /\ Aged(before[s], stores'[s], now')
               /\ \A shot : Shot(before[s], stores[s], shot) => Shot(before[s], stores'[s], shot)
    <3>1. Sound(before[s]) /\ Aged(before[s], stores[s], now) /\ now \in Int /\ now' \in Int
      <4>1. Sound(before[s]) /\ now \in Int
        BY <1>0 DEF CallsInv
      <4>2. Aged(before[s], stores[s], now)
        BY <2>1, Zenon DEF Shooting
      <4> QED
        BY <2>2, <4>1, <4>2, SMTT(25)
    <3>2. Aged(before[s], stores[s], now')
      BY <2>2, <3>1, Later, Zenon
    <3> QED
      BY <2>2, <3>2, AgedTwice, ThenAged, Zenon
  <2> QED
    BY <2>1, <2>2, <2>3, <2>4, Zenon DEF Shooting
<1> QED
  BY <1>0, <1>1, <1>2, <1>3, <1>4, <1>5, <1>6, TransactionSteps

----------------------------------------------------------------------------
(***************************************************************************)
(* The transactions to their end: a batch write that fails puts every      *)
(* store back, and when MSet or Snapshot returns, the stores are as all or *)
(* none of the batch leaves them, or as the copies that were taken show    *)
(* them.                                                                   *)
(***************************************************************************)
(* The copies go back as Restoring says. *)
LEMMA RestoringStep ==
    ASSUME StoreFacts, LockInv, StoresInv, CallsInv, NEW c \in Clients, Unique(call[c]), Restoring(c),
           Post(c) \/ (\E s \in Shards : RunTask(s)) \/ Quiet
    PROVE  Restoring(c)'
<1>0. now \in Nat
  BY Zenon DEF StoresInv
<1>1. CASE Post(c)
  <2>1. UNCHANGED <<stores, rounds, checkpoints, before, now>>
    BY <1>1, PostMoves, Zenon
  <2>2. OnlyOp(c, "Restore")' /\ \A s \in Shards : Pending(c, s) => Pending(c, s)'
    BY <1>1, PostKeeps, Zenon DEF Restoring
  <2> QED
    BY <2>1, <2>2, Zenon DEF Restoring
<1>2. ASSUME NEW s \in Shards, RunTask(s)
      PROVE  Restoring(c)'
  <2> DEFINE q == tasks_[s][1].request
  <2>1. \A i \in DOMAIN tasks_[s] : tasks_[s][i].client = c
    BY Exclusive, Zenon
  <2>2. tasks_[s][1].client = c
    <3>1. IsSequence(tasks_[s]) /\ tasks_[s] # <<>>
      BY <1>2, Zenon DEF LockInv, RunTask
    <3> QED
      BY <2>1, <3>1, SequenceParts, Zenon
  <2>3. /\ Runs(DOMAIN checkpoints[c], s, q)
        /\ \E o \in Apply(s, stores[s], tasks_[s][1]) : TaskRun(c, s, q, o)
    BY <1>2, <2>1, TaskRuns, Zenon
  <2>4. PICK o \in Apply(s, stores[s], tasks_[s][1]) : TaskRun(c, s, q, o)
    BY <2>3, Zenon
  <2>5. /\ OnlyOp(c, "Restore")' /\ q.op = "Restore"
        /\ \A r \in Shards \ {s} : Pending(c, r) => Pending(c, r)'
    BY <2>4, TaskKeeps DEF Restoring
  <2>6. o.store = checkpoints[c][s]
    BY <2>2, <2>5 DEF Apply, Outcome
  <2>7. s \in DOMAIN checkpoints[c]
    BY <2>3, <2>5, Zenon DEF Runs, IsRequest
  <2>8. /\ UNCHANGED <<rounds, before, now>> /\ checkpoints'[c] = checkpoints[c]
        /\ Aged(o.store, stores'[s], now) /\ \A r \in Shards \ {s} : stores'[r] = stores[r]
    BY <2>4, <2>5, Zenon DEF TaskRun
  <2>9. Aged(before[s], stores'[s], now)
    BY <2>6, <2>7, <2>8, AgedTwice, Zenon DEF Restoring
  <2>10. ASSUME NEW r \in Shards
         PROVE  \/ Aged(before[r], stores'[r], now)
                \/ r \in DOMAIN checkpoints'[c] /\ Pending(c, r)'
    <3>1. CASE r = s
      BY <2>9, <3>1, Zenon
    <3>2. CASE r # s
      BY <2>5, <2>8, <3>2, Zenon DEF Restoring
    <3> QED
      BY <3>1, <3>2, Zenon
  <2> QED
    BY <2>5, <2>8, <2>10, Zenon DEF Restoring
<1>3. CASE Quiet
  <2>1. /\ UNCHANGED <<tasks_, rounds, posts, checkpoints, before>>
        /\ now <= now' /\ now' \in Int /\ now \in Int
        /\ \A s \in Shards : Aged(stores[s], stores'[s], now')
    BY <1>0, <1>3 DEF Quiet
  <2>2. OnlyOp(c, "Restore")' /\ rounds'[c] = <<>> /\ \A s \in Shards : Pending(c, s) <=> Pending(c, s)'
    BY <2>1, Zenon DEF Restoring, OnlyOp, Pending
  <2>3. \A s \in Shards : \A b : Aged(before[s], b, now) => Aged(before[s], b, now')
    BY <2>1, Later, Zenon DEF CallsInv
  <2>4. \A s \in Shards : Aged(before[s], stores[s], now) => Aged(before[s], stores'[s], now')
    BY <2>1, <2>3, AgedTwice, Zenon
  <2>5. \A s \in DOMAIN checkpoints[c] : s \in Shards
    BY Zenon DEF StoresInv
  <2> QED
    BY <2>1, <2>2, <2>3, <2>4, <2>5, Zenon DEF Restoring
<1> QED
  BY <1>1, <1>2, <1>3, Zenon

(* The queues are empty when a round of a transaction is over. *)
LEMMA QueuesEmpty ==
    ASSUME LockInv, NEW c \in Clients, Unique(call[c]), RoundOver(c)
    PROVE  posts[c] = <<>> /\ \A s \in Shards : tasks_[s] = <<>>
<1>1. posts[c] = <<>>
  BY Zenon DEF RoundOver
<1>2. ASSUME NEW s \in Shards
      PROVE  tasks_[s] = <<>>
  <2>1. IsSequence(tasks_[s]) /\ \A i \in DOMAIN tasks_[s] : FALSE
    BY Exclusive DEF LockInv, RoundOver, Waiting
  <2> QED
    BY <2>1, SequenceParts, Zenon
<1> QED
  BY <1>1, <1>2, Zenon

(* A batch write that a shard refused has copies of all it has written to, *)
(* and gives them back.                                                    *)
LEMMA RollbackRestores ==
    ASSUME StoreFacts, LockInv, StoresInv, NEW c \in Clients, Unique(call[c]), Rollback(c),
           NEW updates, NEW touched, NEW n \in Nat, NEW r \in Int,
           HasRun(c, updates, touched, n, r)
    PROVE  Restoring(c)'
<1> DEFINE C == DOMAIN checkpoints[c]
           list == Ascending(C)
           T(i) == Task(list[i], [op |-> "Restore"])
<1>1. /\ UNCHANGED <<stores, tasks_, checkpoints, before, now>>
      /\ rounds' = [rounds EXCEPT ![c] = <<>>]
      /\ posts' = [posts EXCEPT ![c] = [i \in DOMAIN list |-> T(i)]]
      /\ RoundOver(c) /\ Refused(c)
  BY Zenon DEF Rollback, Restored
<1>2. rounds'[c] = <<>> /\ posts'[c] = [i \in DOMAIN list |-> T(i)]
  BY <1>1, Zenon DEF LockInv, StoresInv
<1>3. \A s \in C : \E i \in DOMAIN list : list[i] = s
  <2>1. C \in SUBSET Shards
    BY Zenon DEF StoresInv
  <2>2. list = Ascending(C)
    BY Zenon
  <2> HIDE DEF C, list
  <2> QED
    BY <2>1, <2>2 DEF StoreFacts, ComesToEach
<1>4. \A i \in DOMAIN list : T(i).shard = list[i] /\ T(i).request.op = "Restore"
  BY Zenon DEF Task
<1> HIDE DEF list, T
<1>5. DOMAIN posts'[c] = DOMAIN list /\ \A i \in DOMAIN list : posts'[c][i] = T(i)
  BY <1>2, Zenon
<1>6. \A s \in Shards : tasks_'[s] = <<>>
  BY <1>1, QueuesEmpty, Zenon
<1>7. OnlyOp(c, "Restore")'
  <2>1. DOMAIN <<>> = {}
    OBVIOUS
  <2> QED
    BY <1>4, <1>5, <1>6, <2>1, Zenon DEF OnlyOp
<1>8. \A s \in C : Pending(c, s)'
  BY <1>3, <1>4, <1>5 DEF Pending
<1>9. n < r
  BY <1>1 DEF HasRun, Refused
<1>10. \A s \in Shards : Aged(before[s], stores[s], now) \/ s \in C
  BY <1>9 DEF HasRun
<1>11. \A s \in C : Aged(before[s], checkpoints[c][s], now)
  BY Zenon DEF HasRun
<1> QED
  BY <1>1, <1>2, <1>7, <1>8, <1>10, <1>11, Zenon DEF Restoring

(* The progress of a batch write of rounds R: it is in round i, and r      *)
(* rounds are over.                                                        *)
At(c, R, i, r) ==
    /\ InRound(c, R, i) /\ Len(rounds[c]) = Len(R) - i
    /\ r = IF Busy(c) THEN i - 1 ELSE i

OneByOne(R) ==
    IsSequence(R) /\ \A i \in 1..Len(R) : R[i] = <<R[i][1]>> /\ R[i][1].shard \in Shards

(* Posting the task of a round. *)
LEMMA AtPost ==
    ASSUME LockInv, StoresInv, NEW c \in Clients, Post(c),
           NEW R, OneByOne(R), NEW i, NEW r, At(c, R, i, r)
    PROVE  At(c, R, i, r)'
<1> DEFINE x == R[i][1]
           e == [client |-> c, request |-> x.request]
<1>1. posts[c] # <<>> /\ rounds' = rounds
  BY PostMoves, Zenon
<1>2. /\ posts[c] = R[i] /\ R[i] = <<x>> /\ x.shard \in Shards
      /\ \A s \in Shards : tasks_[s] = <<>>
  BY <1>1, Zenon DEF At, InRound, OneByOne
<1>3. posts[c][1] = x /\ Tail(posts[c]) = <<>>
  <2>1. \A y : <<y>>[1] = y /\ Tail(<<y>>) = <<>>
    OBVIOUS
  <2> QED
    BY <1>2, <2>1, Zenon
<1>4. /\ posts'[c] = <<>> /\ tasks_'[x.shard] = Append(tasks_[x.shard], e)
      /\ \A s \in Shards : s # x.shard => tasks_'[s] = tasks_[s]
  BY <1>3, PostMoves, ZenonT(40)
<1> HIDE DEF x, e
<1>5. tasks_'[x.shard] = <<e>> /\ <<e>> # <<>>
  <2>1. Append(<<>>, e) = <<e>>
    OBVIOUS
  <2> QED
    BY <1>2, <1>4, <2>1, Single, Zenon
<1>6. Busy(c) /\ Busy(c)'
  BY <1>1, <1>2, <1>5, Zenon DEF Busy
<1>7. \A s \in Shards : tasks_'[s] # <<>> => s = x.shard
  BY <1>2, <1>4, ZenonT(40)
<1>8. InRound(c, R, i)'
  BY <1>1, <1>4, <1>5, <1>7, ZenonT(40) DEF At, InRound, x, e
<1> QED
  BY <1>1, <1>6, <1>8, Zenon DEF At

(* The next round. *)
LEMMA AtNextRound ==
    ASSUME LockInv, StoresInv, NEW c \in Clients, Unique(call[c]), NextRound(c),
           NEW R, OneByOne(R), NEW i, NEW r, At(c, R, i, r)
    PROVE  At(c, R, i + 1, r)'
<1>1. /\ RoundOver(c) /\ rounds[c] # <<>> /\ tasks_' = tasks_
      /\ posts'[c] = Head(rounds[c]) /\ rounds'[c] = Tail(rounds[c])
  BY Zenon DEF NextRound, LockInv, StoresInv
<1>2. posts[c] = <<>> /\ \A s \in Shards : tasks_[s] = <<>>
  BY <1>1, QueuesEmpty, Zenon
<1>3. /\ Len(rounds[c]) \in Nat /\ Len(rounds[c]) # 0 /\ Head(rounds[c]) = rounds[c][1]
      /\ Len(rounds'[c]) = Len(rounds[c]) - 1
      /\ \A j \in 1..(Len(rounds[c]) - 1) : rounds'[c][j] = rounds[c][j + 1]
  <2>1. IsSequence(rounds[c])
    BY Zenon DEF StoresInv
  <2> QED
    BY <1>1, <2>1, SequenceParts, Zenon
<1>4. /\ i \in 1..Len(R) /\ Len(R) \in Nat /\ Len(rounds[c]) = Len(R) - i
      /\ \A j \in 1..Len(rounds[c]) : rounds[c][j] = R[i + j]
  BY SequenceParts, Zenon DEF At, InRound, OneByOne
<1>5. i + 1 \in 1..Len(R) /\ posts'[c] = R[i + 1]
  BY <1>1, <1>3, <1>4
<1>6. \A j \in 1..Len(rounds'[c]) : rounds'[c][j] = R[(i + 1) + j]
  <2> TAKE j \in 1..Len(rounds'[c])
  <2>1. /\ j \in 1..(Len(rounds[c]) - 1) /\ j + 1 \in 1..Len(rounds[c])
        /\ i + (j + 1) = (i + 1) + j
    BY <1>3, <1>4
  <2> QED
    BY <1>3, <1>4, <2>1, Zenon
<1>7. posts'[c] # <<>>
  <2>1. R[i + 1] = <<R[i + 1][1]>>
    BY <1>5, Zenon DEF OneByOne
  <2> QED
    BY <1>5, <2>1, Single, Zenon
<1>8. Busy(c)' /\ ~Busy(c)
  BY <1>2, <1>7, Zenon DEF Busy
<1>9. r = i /\ (i + 1) - 1 = i
  BY <1>4, <1>8 DEF At
<1>10. InRound(c, R, i + 1)'
  BY <1>1, <1>2, <1>5, <1>6, Zenon DEF InRound
<1>11. Len(rounds'[c]) = Len(R) - (i + 1)
  BY <1>3, <1>4
<1> QED
  BY <1>8, <1>9, <1>10, <1>11 DEF At

(* A shard runs the task of a round, and the round is over. *)
LEMMA AtTask ==
    ASSUME LockInv, NEW c \in Clients, NEW s \in Shards, NEW q, NEW o, TaskRun(c, s, q, o),
           NEW R, OneByOne(R), NEW i, NEW r, At(c, R, i, r)
    PROVE  /\ r = i - 1 /\ At(c, R, i, i)' /\ i \in 1..Len(R)
           /\ s = R[i][1].shard /\ q = R[i][1].request
<1> DEFINE e == [client |-> c, request |-> R[i][1].request]
<1>1. /\ tasks_[s] # <<>> /\ tasks_[s][1].request = q /\ tasks_'[s] = Tail(tasks_[s])
      /\ \A t \in Shards \ {s} : tasks_'[t] = tasks_[t]
      /\ UNCHANGED <<posts, rounds>>
  BY Zenon DEF TaskRun
<1>2. /\ i \in 1..Len(R) /\ s = R[i][1].shard /\ tasks_[s] = <<e>> /\ posts[c] = <<>>
      /\ \A t \in Shards : tasks_[t] # <<>> => t = s
  BY <1>1, Zenon DEF At, InRound
<1>3. e.request = R[i][1].request
  BY Zenon
<1> HIDE DEF e
<1>4. tasks_[s][1] = e /\ Tail(tasks_[s]) = <<>>
  BY <1>2
<1>5. \A t \in Shards : tasks_'[t] = <<>>
  BY <1>1, <1>2, <1>4, Zenon
<1>6. Busy(c) /\ ~Busy(c)'
  BY <1>1, <1>2, <1>5, Zenon DEF Busy
<1>7. InRound(c, R, i)'
  BY <1>1, <1>2, <1>5, Zenon DEF At, InRound
<1> QED
  BY <1>1, <1>2, <1>3, <1>4, <1>6, <1>7, Zenon DEF At

(* The copy of shard touched[i] is taken in round i. *)
LEMMA CopyRuns ==
    ASSUME StoresInv, NEW c \in Clients, NEW updates, NEW touched, NEW n \in Nat, NEW i \in 1..n,
           touched[i] \in Shards,
           HasRun(c, updates, touched, n, i - 1),
           NEW q, q.op = "Copy", NEW o \in Apply(touched[i], stores[touched[i]], tasks_[touched[i]][1]),
           TaskRun(c, touched[i], q, o)
    PROVE  HasRun(c, updates, touched, n, i)'
<1> DEFINE s == touched[i]
<1>1. o.store = stores[s] /\ o.status = "kOk"
  BY DEF TaskRun, Apply, Outcome
<1>2. /\ UNCHANGED <<before, now>>
      /\ Aged(o.store, stores'[s], now) /\ \A t \in Shards \ {s} : stores'[t] = stores[t]
      /\ \A t : t \in DOMAIN results'[c] <=> t \in DOMAIN results[c] \/ t = s
      /\ results'[c][s].status = o.status
      /\ \A t \in DOMAIN results[c] \ {s} : results'[c][t] = results[c][t]
      /\ \A t : t \in DOMAIN checkpoints'[c] <=> t \in DOMAIN checkpoints[c] \/ t = s
      /\ checkpoints'[c][s] = stores[s]
      /\ \A t \in DOMAIN checkpoints[c] \ {s} : checkpoints'[c][t] = checkpoints[c][t]
  BY Zenon DEF TaskRun
<1>3. ASSUME NEW j \in 1..n
      PROVE  /\ ~(n + j <= i - 1) /\ ~(n + j <= i)
             /\ j <= i <=> j <= i - 1 \/ j = i
  OBVIOUS
<1>4. i - 1 <= n /\ i <= n
  OBVIOUS
<1>5. \A t \in Shards : Aged(before[t], stores[t], now)
  BY <1>3, Zenon DEF HasRun
<1>6. \A t \in Shards : Aged(before[t], stores'[t], now)
  BY <1>1, <1>2, <1>5, AgedTwice, ZenonT(40)
<1>7. \A t \in Shards : t \in DOMAIN checkpoints'[c] <=> \E j \in 1..n : j <= i /\ t = touched[j]
  <2>1. \A t \in Shards : t \in DOMAIN checkpoints[c] <=> \E j \in 1..n : j <= i - 1 /\ t = touched[j]
    BY Zenon DEF HasRun
  <2> QED
    BY <1>2, <1>3, <2>1
<1>8. \A t \in DOMAIN checkpoints'[c] : Aged(before[t], checkpoints'[c][t], now)
  <2> SUFFICES ASSUME NEW t \in DOMAIN checkpoints'[c]
               PROVE  Aged(before[t], checkpoints'[c][t], now)
    BY Zenon
  <2>1. CASE t = s
    BY <1>2, <1>5, <2>1, Zenon
  <2>2. CASE t # s
    BY <1>2, <2>2, Zenon DEF HasRun
  <2> QED
    BY <2>1, <2>2, Zenon
<1>9. \A t \in DOMAIN results'[c] : results'[c][t].status # "kNoMemory"
  <2> SUFFICES ASSUME NEW t \in DOMAIN results'[c]
               PROVE  results'[c][t].status # "kNoMemory"
    BY Zenon
  <2>1. CASE t = s
    BY <1>1, <1>2, <2>1, Zenon
  <2>2. CASE t # s
    BY <1>2, <1>4, <2>2, Zenon DEF HasRun
  <2> QED
    BY <2>1, <2>2, Zenon
<1> HIDE DEF s
<1> QED
  BY <1>2, <1>3, <1>6, <1>7, <1>8, <1>9, Zenon DEF HasRun

(* The part of shard touched[m] is written, or refused, in round n + m. *)
LEMMA PartRuns ==
    ASSUME StoreFacts, StoresInv, NEW c \in Clients, NEW updates, NEW touched, NEW n \in Nat, NEW m \in 1..n,
           \A j \in 1..n : touched[j] \in Shards,
           \A j, k \in 1..n : touched[j] = touched[k] => j = k,
           HasRun(c, updates, touched, n, (n + m) - 1),
           NEW q, q.op = "MSet", IsRequest(q), q.updates = Group(updates, touched[m]),
           NEW o \in Apply(touched[m], stores[touched[m]], tasks_[touched[m]][1]),
           TaskRun(c, touched[m], q, o)
    PROVE  HasRun(c, updates, touched, n, n + m)'
<1> DEFINE s == touched[m]
           part == Group(updates, s)
<1>1. o \in MSet(stores[s], part)
  BY Zenon DEF TaskRun, Apply
<1>2. /\ UNCHANGED <<before, now>>
      /\ Aged(o.store, stores'[s], now) /\ \A t \in Shards \ {s} : stores'[t] = stores[t]
      /\ \A t : t \in DOMAIN results'[c] <=> t \in DOMAIN results[c] \/ t = s
      /\ results'[c][s].status = o.status
      /\ \A t \in DOMAIN results[c] \ {s} : results'[c][t] = results[c][t]
      /\ checkpoints'[c] = checkpoints[c]
  BY Zenon DEF TaskRun
<1>3. ASSUME NEW j \in 1..n
      PROVE  /\ j <= n + m /\ j <= (n + m) - 1
             /\ n + j <= n + m <=> n + j <= (n + m) - 1 \/ j = m
             /\ j = m => ~(n + j <= (n + m) - 1)
  OBVIOUS
<1>4. ~(n + m <= n)
  OBVIOUS
<1>5. s \in Shards
  BY Zenon
<1>6. Aged(before[s], stores[s], now)
  BY <1>3, <1>5, Zenon DEF HasRun
<1>7. \/ o.status = "kNoMemory" /\ o.store = stores[s]
      \/ o.status = "kOk" /\ Written(before[s], part, o.store, now)
  <2>1. Sound(stores[s]) /\ stores[s].policy = Policy
    BY <1>5, Zenon DEF StoresInv, Kept
  <2>2. DOMAIN part \in SUBSET Keys /\ part \in [DOMAIN part -> Text]
    BY Zenon DEF IsRequest
  <2> HIDE DEF s, part
  <2> QED
    BY <1>1, <1>6, <2>1, <2>2, MSetWrites, Zenon
<1>8. \/ results'[c][s].status = "kNoMemory" /\ Aged(before[s], stores'[s], now)
      \/ Written(before[s], part, stores'[s], now)
  BY <1>2, <1>6, <1>7, AgedTwice, ThenAged, Zenon
<1>9. \A t \in Shards : t \in DOMAIN checkpoints'[c] <=> \E j \in 1..n : j <= n + m /\ t = touched[j]
  <2>1. \A t \in Shards : t \in DOMAIN checkpoints[c] <=> \E j \in 1..n : j <= (n + m) - 1 /\ t = touched[j]
    BY Zenon DEF HasRun
  <2> QED
    BY <1>2, <1>3, <2>1, Zenon
<1>10. \A t \in DOMAIN checkpoints'[c] : Aged(before[t], checkpoints'[c][t], now)
  BY <1>2, Zenon DEF HasRun
<1>11. ASSUME NEW t \in Shards
       PROVE  \/ Aged(before[t], stores'[t], now)
              \/ \E j \in 1..n : n + j <= n + m /\ t = touched[j]
  <2>1. CASE t = s
    BY <1>3, <2>1, Zenon
  <2>2. CASE t # s
    <3>1. \/ Aged(before[t], stores[t], now)
          \/ \E j \in 1..n : n + j <= (n + m) - 1 /\ t = touched[j]
      BY Zenon DEF HasRun
    <3> QED
      BY <1>2, <1>3, <2>2, <3>1, Zenon
  <2> QED
    BY <2>1, <2>2, Zenon
<1>12. ASSUME NEW j \in 1..n, n + j <= n + m
       PROVE  /\ touched[j] \in DOMAIN results'[c]
              /\ \/ /\ results'[c][touched[j]].status = "kNoMemory"
                    /\ Aged(before[touched[j]], stores'[touched[j]], now)
                 \/ Written(before[touched[j]], Group(updates, touched[j]), stores'[touched[j]], now)
  <2>1. CASE j = m
    BY <1>2, <1>8, <2>1, Zenon
  <2>2. CASE j # m
    <3>1. touched[j] # s /\ touched[j] \in Shards
      BY <2>2, Zenon
    <3>2. n + j <= (n + m) - 1
      BY <1>3, <1>12, <2>2, Zenon
    <3>3. /\ touched[j] \in DOMAIN results[c]
          /\ \/ /\ results[c][touched[j]].status = "kNoMemory"
                /\ Aged(before[touched[j]], stores[touched[j]], now)
             \/ Written(before[touched[j]], Group(updates, touched[j]), stores[touched[j]], now)
      BY <3>2, Zenon DEF HasRun
    <3>4. stores'[touched[j]] = stores[touched[j]] /\ results'[c][touched[j]] = results[c][touched[j]]
      BY <1>2, <3>1, <3>3, Zenon
    <3> QED
      BY <1>2, <3>3, <3>4, Zenon
  <2> QED
    BY <2>1, <2>2, Zenon
<1> HIDE DEF s, part
<1> QED
  BY <1>2, <1>4, <1>9, <1>10, <1>11, <1>12, Zenon DEF HasRun

(* Time passes between the rounds. *)
LEMMA RunsQuietly ==
    ASSUME StoresInv, CallsInv, NEW c \in Clients, NEW updates, NEW touched, NEW n \in Nat, NEW r,
           \A j \in 1..n : touched[j] \in Shards,
           HasRun(c, updates, touched, n, r), Quiet
    PROVE  HasRun(c, updates, touched, n, r)'
<1>1. /\ UNCHANGED <<results, checkpoints, before>>
      /\ now <= now' /\ now' \in Int /\ now \in Int
      /\ \A s \in Shards : Aged(stores[s], stores'[s], now')
  BY DEF Quiet, StoresInv
<1>2. \A s \in Shards : \A b : Aged(before[s], b, now) => Aged(before[s], b, now')
  BY <1>1, Later, Zenon DEF CallsInv
<1>3. \A s \in Shards : \A u, b : Written(before[s], u, b, now) => Written(before[s], u, b, now')
  BY <1>1, Later, Zenon DEF CallsInv
<1>4. \A s \in Shards : Aged(before[s], stores[s], now) => Aged(before[s], stores'[s], now')
  BY <1>1, <1>2, AgedTwice, Zenon
<1>5. \A s \in Shards : \A u : Written(before[s], u, stores[s], now) => Written(before[s], u, stores'[s], now')
  BY <1>1, <1>3, ThenAged, Zenon
<1>6. \A s \in DOMAIN checkpoints[c] : s \in Shards
  BY Zenon DEF StoresInv
<1> QED
  BY <1>1, <1>2, <1>4, <1>5, <1>6, Zenon DEF HasRun
=============================================================================
