----------------------- MODULE ShardedDatabaseProofs -----------------------
(***************************************************************************)
(* The sharded database.  TransactionInv is kept by a batch write and says *)
(* what clients get when a transaction returns.  What the protocol takes   *)
(* from the stores and from the order of the shards holds.  So             *)
(* transactions are isolated, batch writes are all or nothing, snapshots   *)
(* are of one moment, and the memory of the shards together is bounded.    *)
(***************************************************************************)
EXTENDS TransactionProofs, KvStoreProofs

(* The rounds of a batch write, task by task: the shards touched are       *)
(* copied, and then written to, one in each round.                         *)
MSetTasks(q, touched, n, R) ==
    /\ n \in Nat \ {0} /\ OneByOne(R) /\ Len(R) = 2 * n
    /\ \A j \in 1..n : touched[j] \in Shards
    /\ \A j, k \in 1..n : touched[j] = touched[k] => j = k
    /\ \A k \in DOMAIN q.updates : \E j \in 1..n : touched[j] = ShardForKey[k]
    /\ \A j \in 1..n : /\ R[j][1].shard = touched[j] /\ R[j][1].request.op = "Copy"
                       /\ R[n + j][1].shard = touched[j] /\ R[n + j][1].request.op = "MSet"
                       /\ R[n + j][1].request.updates = Group(q.updates, touched[j])

(* The rounds of a batch write have one task each. *)
LEMMA MSetOneByOne ==
    ASSUME StoreFacts, NEW q, q.op = "MSet", IsRequest(q),
           NEW touched, touched = Touched(q.updates), NEW n, n = Len(touched),
           NEW R, R = Rounds(q)
    PROVE  MSetTasks(q, touched, n, R)
<1>1. PICK S : S = TouchedSet(q.updates)
  BY Zenon
<1>2. /\ S \in SUBSET Shards /\ n \in Nat \ {0}
      /\ \A i \in 1..n : touched[i] \in S
      /\ \A s \in S : \E i \in 1..n : touched[i] = s
      /\ \A i, j \in 1..n : touched[i] = touched[j] => i = j
      /\ IsSequence(R) /\ Len(R) = 2 * n
      /\ \A i \in 1..n : R[i] = CopyRound(touched[i])
      /\ \A i \in 1..n : R[n + i] = PartRound(q.updates, touched[i])
  <2>1. MSetShape(q, S, touched, n, R)
    BY <1>1, MSetRounds, Zenon
  <2> QED
    BY <2>1, Zenon DEF MSetShape
<1>5. \A i \in 1..Len(R) : i \in 1..n \/ (i - n \in 1..n /\ n + (i - n) = i)
  BY <1>2
<1>6. ASSUME NEW i \in 1..Len(R)
      PROVE  R[i] = <<R[i][1]>> /\ R[i][1].shard \in Shards
  <2>1. CASE i \in 1..n
    <3>1. R[i] = CopyRound(touched[i]) /\ touched[i] \in Shards
      BY <1>2, <2>1, Zenon
    <3> QED
      BY <3>1 DEF CopyRound, Task
  <2>2. CASE i - n \in 1..n /\ n + (i - n) = i
    <3>1. R[i] = PartRound(q.updates, touched[i - n]) /\ touched[i - n] \in Shards
      BY <1>2, <2>2, ZenonT(30)
    <3> QED
      BY <3>1 DEF PartRound, Task
  <2> QED
    BY <1>5, <2>1, <2>2, Zenon
<1>7. \A k \in DOMAIN q.updates : ShardForKey[k] \in S
  BY <1>1, Zenon DEF TouchedSet
<1>8. \A j \in 1..n : touched[j] \in Shards
  BY <1>2, Zenon
<1>9. ASSUME NEW j \in 1..n
      PROVE  /\ R[j][1].shard = touched[j] /\ R[j][1].request.op = "Copy"
             /\ R[n + j][1].shard = touched[j]
             /\ R[n + j][1].request.op = "MSet"
             /\ R[n + j][1].request.updates = Group(q.updates, touched[j])
  <2>1. R[j] = CopyRound(touched[j]) /\ R[n + j] = PartRound(q.updates, touched[j])
    BY <1>2, Zenon
  <2> QED
    BY <2>1 DEF CopyRound, PartRound, Task
<1>10. \A k \in DOMAIN q.updates : \E j \in 1..n : touched[j] = ShardForKey[k]
  BY <1>2, <1>7, Zenon
<1>11. OneByOne(R)
  BY <1>2, <1>6, Zenon DEF OneByOne
<1>12. n \in Nat \ {0} /\ Len(R) = 2 * n /\ \A j, k \in 1..n : touched[j] = touched[k] => j = k
  BY <1>2, Zenon
<1> QED
  BY <1>8, <1>9, <1>10, <1>11, <1>12, ZenonT(40) DEF MSetTasks

(* A batch write goes on as Writing and Restoring say. *)
LEMMA WritingStep ==
    ASSUME StoreFacts, LockInv, StoresInv, CallsInv, [Next]_vars, NEW c \in Clients,
           call[c].op = "MSet" => IF failed[c] THEN Restoring(c) ELSE Writing(c),
           call'[c].op = "MSet"
    PROVE  IF failed'[c] THEN Restoring(c)' ELSE Writing(c)'
<1>1. PICK q : q = call'[c]
  BY Zenon
<1>2. q.op = "MSet" /\ IsRequest(q) /\ Unique(q) /\ Unique(call'[c])
  <2>1. CallsInv'
    BY CallsStep, Zenon
  <2>2. q # Idle
    BY <1>1 DEF Idle
  <2>3. IsCall(q)
    BY <1>1, <2>1, <2>2, Zenon DEF CallsInv
  <2> QED
    BY <1>1, <2>3, Zenon DEF IsCall, Unique
<1>3. PICK touched : touched = Touched(q.updates)
  BY Zenon
<1>4. PICK n : n = Len(touched)
  BY Zenon
<1>5. PICK R : R = Rounds(q)
  BY Zenon
<1>6. /\ n \in Nat \ {0} /\ OneByOne(R) /\ Len(R) = 2 * n
      /\ \A j \in 1..n : touched[j] \in Shards
      /\ \A j, k \in 1..n : touched[j] = touched[k] => j = k
      /\ \A j \in 1..n : /\ R[j][1].shard = touched[j] /\ R[j][1].request.op = "Copy"
                         /\ R[n + j][1].shard = touched[j]
                         /\ R[n + j][1].request.op = "MSet"
                         /\ R[n + j][1].request.updates = Group(q.updates, touched[j])
  <2>1. MSetTasks(q, touched, n, R)
    BY <1>2, <1>3, <1>4, <1>5, MSetOneByOne, Zenon
  <2> QED
    BY <2>1, Zenon DEF MSetTasks
<1> DEFINE Past(r) == HasRun(c, q.updates, touched, n, r)
<1>7. /\ \A i : i \in 1..Len(R) => i \in Int
      /\ Len(rounds[c]) \in Nat
  BY <1>6, SequenceParts DEF StoresInv
<1>8. ASSUME NEW i \in Int, NEW r, At(c, R, i, r)', Past(r)'
      PROVE  Writing(c)'
  <2>1. Len(rounds'[c]) = Len(R) - i /\ Len(R) \in Int
    BY <1>6, <1>8 DEF At
  <2>2. Round(c)' = i
    <3>1. Round(c)' = Len(R) - Len(rounds'[c])
      BY <1>1, <1>5, Zenon DEF Round
    <3> QED
      BY <2>1, <3>1
  <2>3. Ran(c)' = r /\ InRound(c, R, i)'
    BY <1>8, <2>2, Zenon DEF Ran, At
  <2> QED
    BY <1>1, <1>3, <1>4, <1>5, <1>8, <2>2, <2>3, ZenonT(40) DEF Writing
<1>9. ASSUME call[c] = q, ~failed[c]
      PROVE  \E i \in 1..Len(R), r \in Int : At(c, R, i, r) /\ Past(r)
  <2>1. Writing(c)
    BY <1>2, <1>9, Zenon
  <2>2. /\ InRound(c, R, Round(c)) /\ Past(Ran(c))
        /\ Round(c) = Len(R) - Len(rounds[c])
    BY <1>3, <1>4, <1>5, <1>9, <2>1, Zenon DEF Writing, Round
  <2>3. Round(c) \in 1..Len(R) /\ Ran(c) \in Int
    BY <2>2, <1>7 DEF InRound, Ran
  <2>4. Len(rounds[c]) = Len(R) - Round(c)
    BY <1>6, <1>7, <2>2
  <2>5. At(c, R, Round(c), Ran(c))
    BY <2>2, <2>4, Zenon DEF At, Ran
  <2> QED
    BY <2>2, <2>3, <2>5, Zenon
<1> HIDE DEF Past
<1>10. ASSUME Enter(c, q)
       PROVE  ~failed'[c] /\ Writing(c)'
  <2>1. /\ before' = stores /\ UNCHANGED <<stores, tasks_, now>>
        /\ \A s \in Shards : tasks_[s] = <<>>
        /\ rounds'[c] = Tail(R) /\ posts'[c] = Head(R)
        /\ DOMAIN results'[c] = {} /\ DOMAIN checkpoints'[c] = {} /\ ~failed'[c]
    BY <1>2, <1>5, <1>10, EnterAlone, ZenonT(40)
  <2>2. Len(R) \in Nat \ {0} /\ IsSequence(R)
    BY <1>6 DEF OneByOne
  <2>3. /\ Head(R) = R[1] /\ Len(Tail(R)) = Len(R) - 1
        /\ \A j \in 1..(Len(R) - 1) : Tail(R)[j] = R[j + 1]
    BY <2>2, SequenceParts, Zenon
  <2>4. R[1] # <<>>
    <3>1. R[1] = <<R[1][1]>>
      BY <1>6, <2>2 DEF OneByOne
    <3> QED
      BY <3>1, Single, ZenonT(40)
  <2>5. InRound(c, R, 1)'
    <3>1. \A j \in 1..Len(rounds'[c]) : rounds'[c][j] = R[1 + j]
      BY <2>1, <2>2, <2>3
    <3> QED
      BY <2>1, <2>2, <2>3, <3>1, SMTT(30) DEF InRound
  <2>6. At(c, R, 1, 0)'
    BY <2>1, <2>3, <2>4, <2>5 DEF At, Busy
  <2>7. Past(0)'
    <3>1. \A j \in 1..n : ~(j <= 0) /\ ~(n + j <= 0)
      BY <1>6
    <3>2. \A s \in Shards : Aged(before'[s], stores'[s], now')
      BY <2>1, NothingAges, Zenon
    <3> QED
      BY <2>1, <3>1, <3>2, Zenon DEF Past, HasRun
  <2> QED
    BY <1>8, <2>1, <2>6, <2>7
<1>11. ASSUME call[c] = q, Post(c) \/ NextRound(c) \/ Rollback(c) \/ (\E s \in Shards : RunTask(s)) \/ Quiet
       PROVE  IF failed'[c] THEN Restoring(c)' ELSE Writing(c)'
  <2>0. Unique(call[c])
    BY <1>2, <1>11, Zenon
  <2>1. CASE failed[c]
    <3>1. Restoring(c)
      BY <1>2, <1>11, <2>1, Zenon
    <3>2. ~NextRound(c) /\ ~Rollback(c)
      BY <2>1, <3>1, Zenon DEF NextRound, Rollback, Refused, Restoring
    <3>3. failed' = failed
      BY <1>11, <3>2, PostMoves, Zenon DEF RunTask, Quiet, clientVars
    <3> QED
      BY <1>11, <2>0, <2>1, <3>1, <3>2, <3>3, RestoringStep, Zenon
  <2>2. CASE ~failed[c]
    <3>1. PICK i \in 1..Len(R), r \in Int : At(c, R, i, r) /\ Past(r)
      BY <1>9, <1>11, <2>2, Zenon
    <3>2. i \in Int
      BY <1>7, Zenon
    <3>3. CASE Rollback(c)
      <4>1. Restoring(c)'
        BY <1>6, <2>0, <3>1, <3>3, RollbackRestores DEF Past
      <4>2. failed'[c]
        BY <3>3, Zenon DEF Rollback, CallsInv
      <4> QED
        BY <4>1, <4>2, Zenon
    <3>4. CASE Post(c) \/ NextRound(c)
      <4>1. UNCHANGED <<stores, results, checkpoints, before, now, failed>>
        BY <3>4, Zenon DEF Post, NextRound
      <4>2. Past(r)'
        BY <3>1, <4>1, Zenon DEF Past, HasRun
      <4>3. At(c, R, i, r)' \/ At(c, R, i + 1, r)'
        BY <1>6, <2>0, <3>1, <3>4, AtPost, AtNextRound, Zenon
      <4>4. i + 1 \in Int
        BY <3>2
      <4> QED
        BY <1>8, <2>2, <3>2, <4>1, <4>2, <4>3, <4>4
    <3>5. ASSUME NEW s \in Shards, RunTask(s)
          PROVE  ~failed'[c] /\ Writing(c)'
      <4> DEFINE x == tasks_[s][1].request
      <4>1. \A j \in DOMAIN tasks_[s] : tasks_[s][j].client = c
        BY <2>0, Exclusive, Zenon
      <4>2. /\ Runs(DOMAIN checkpoints[c], s, x)
            /\ \E o \in Apply(s, stores[s], tasks_[s][1]) : TaskRun(c, s, x, o)
        BY <3>5, <4>1, TaskRuns, Zenon
      <4>3. PICK o \in Apply(s, stores[s], tasks_[s][1]) : TaskRun(c, s, x, o)
        BY <4>2, Zenon
      <4>4. failed' = failed
        BY <4>3, Zenon DEF TaskRun
      <4>5. PICK y : y = x
        BY Zenon
      <4> HIDE DEF x
      <4>6. TaskRun(c, s, y, o)
        BY <4>3, <4>5
      <4>7. /\ r = i - 1 /\ At(c, R, i, i)'
            /\ s = R[i][1].shard /\ y = R[i][1].request
        BY <1>6, <3>1, <4>6, AtTask, SMTT(30)
      <4>8. Past(i)'
        <5>1. CASE i <= n
          <6>1. i \in 1..n /\ s = touched[i] /\ y.op = "Copy"
            BY <1>6, <4>7, <5>1
          <6> QED
            BY <1>6, <3>1, <4>3, <4>6, <4>7, <6>1, CopyRuns, ZenonT(40) DEF Past
        <5>2. CASE ~(i <= n)
          <6>1. PICK m \in 1..n : i = n + m
            <7>1. i - n \in 1..n /\ i = n + (i - n)
              BY <1>6, <3>2, <5>2
            <7> QED
              BY <7>1, ZenonT(40)
          <6>2. s = touched[m] /\ y.op = "MSet" /\ y.updates = Group(q.updates, touched[m])
            BY <1>6, <4>7, <6>1, Zenon
          <6>3. IsRequest(y)
            BY <4>2, <4>5, <6>2, ZenonT(40) DEF Runs
          <6>4. HasRun(c, q.updates, touched, n, (n + m) - 1)
            BY <3>1, <4>7, <6>1, SMTT(30) DEF Past
          <6>5. HasRun(c, q.updates, touched, n, n + m)'
            BY <1>6, <4>3, <4>6, <6>2, <6>3, <6>4, PartRuns, ZenonT(40)
          <6> QED
            BY <6>1, <6>5, Zenon DEF Past
        <5> QED
          BY <5>1, <5>2, SMTT(30)
      <4> QED
        BY <1>8, <2>2, <3>2, <4>4, <4>7, <4>8
    <3>6. CASE Quiet
      <4>1. UNCHANGED <<tasks_, posts, rounds, failed>>
        BY <3>6, Zenon DEF Quiet
      <4>2. At(c, R, i, r)'
        BY <3>1, <4>1, Zenon DEF At, InRound, Busy
      <4>3. Past(r)'
        BY <1>6, <3>1, <3>6, RunsQuietly, Zenon DEF Past
      <4> QED
        BY <1>8, <2>2, <3>2, <4>1, <4>2, <4>3
    <3> QED
      BY <1>11, <3>3, <3>4, <3>5, <3>6
  <2> QED
    BY <2>1, <2>2, Zenon
<1> QED
  BY <1>1, <1>2, <1>10, <1>11, TransactionSteps

(* Every step of a transaction is one that TransactionInv allows. *)
LEMMA TransactionStep ==
    StoreFacts /\ LockInv /\ StoresInv /\ CallsInv /\ TransactionInv /\ [Next]_vars
    => TransactionInv'
<1> SUFFICES ASSUME StoreFacts, LockInv, StoresInv, CallsInv, TransactionInv, [Next]_vars,
                    NEW c \in Clients
             PROVE  /\ call'[c].op = "Snapshot" => Shooting(c)'
                    /\ call'[c].op = "MSet" => IF failed'[c] THEN Restoring(c)' ELSE Writing(c)'
  BY Zenon DEF TransactionInv
<1>1. /\ call[c].op = "Snapshot" => Shooting(c)
      /\ call[c].op = "MSet" => IF failed[c] THEN Restoring(c) ELSE Writing(c)
  BY Zenon DEF TransactionInv
<1> QED
  BY <1>1, ShootingStep, WritingStep, Zenon

(* At the start nobody is in one. *)
LEMMA TransactionInit == Init => TransactionInv
<1> SUFFICES ASSUME Init, NEW c \in Clients
             PROVE  call[c].op = "idle"
  BY Zenon DEF TransactionInv
<1> QED
  BY Zenon DEF Init, Idle

(* What clients see of the stores ss: the entries that have not expired. *)
LEMMA ViewParts ==
    ASSUME NEW ss, NEW v, v = View(ss)
    PROVE  /\ v = [k \in DOMAIN v |-> v[k]]
           /\ \A k : k \in DOMAIN v <=> /\ k \in Keys /\ k \in DOMAIN ss[ShardForKey[k]].entries
                                        /\ ~IsExpired(ss[ShardForKey[k]].entries[k], now)
           /\ \A k \in DOMAIN v : LET e == ss[ShardForKey[k]].entries[k] IN
                                  v[k] = [value |-> e.value, expires_at |-> e.expires_at]
<1> DEFINE E(k) == ss[ShardForKey[k]].entries
           Seen(k) == Visible(ss[ShardForKey[k]], now)
           seen == [k \in Keys |-> Seen(k)]
           D == {j \in Keys : j \in DOMAIN seen[j]}
<1>1. v = [k \in D |-> seen[k][k]]
  BY Zenon DEF View
<1>2. \A k \in Keys : seen[k] = Seen(k)
  BY Zenon
<1>3. ASSUME NEW k \in Keys
      PROVE  /\ k \in DOMAIN Seen(k) <=> k \in DOMAIN E(k) /\ ~IsExpired(E(k)[k], now)
             /\ k \in DOMAIN Seen(k) =>
                   Seen(k)[k] = [value |-> E(k)[k].value, expires_at |-> E(k)[k].expires_at]
  BY Zenon DEF Visible, Expired
<1> HIDE DEF Seen, seen, E
<1>4. \A k : k \in DOMAIN v <=> k \in Keys /\ k \in DOMAIN Seen(k)
  BY <1>1, <1>2, Zenon
<1>5. \A k \in DOMAIN v : v[k] = Seen(k)[k]
  BY <1>1, <1>2, Zenon
<1>6. v = [k \in DOMAIN v |-> v[k]]
  BY <1>1, Zenon
<1> QED
  BY <1>3, <1>4, <1>5, <1>6, ZenonT(30) DEF E

(* What clients see when the stores have only aged. *)
LEMMA AgedViews ==
    ASSUME \A s \in Shards : Aged(before[s], stores[s], now)
    PROVE  View(stores) = View(before)
<1>1. PICK old : old = View(before)
  BY Zenon
<1>2. PICK new : new = View(stores)
  BY Zenon
<1> DEFINE e(k) == before[ShardForKey[k]].entries
           f(k) == stores[ShardForKey[k]].entries
<1>3. /\ old = [k \in DOMAIN old |-> old[k]] /\ new = [k \in DOMAIN new |-> new[k]]
      /\ \A k : k \in DOMAIN old <=> k \in Keys /\ k \in DOMAIN e(k) /\ ~IsExpired(e(k)[k], now)
      /\ \A k : k \in DOMAIN new <=> k \in Keys /\ k \in DOMAIN f(k) /\ ~IsExpired(f(k)[k], now)
      /\ \A k \in DOMAIN old : old[k] = [value |-> e(k)[k].value, expires_at |-> e(k)[k].expires_at]
      /\ \A k \in DOMAIN new : new[k] = [value |-> f(k)[k].value, expires_at |-> f(k)[k].expires_at]
  BY <1>1, <1>2, ViewParts
<1>4. \A k \in Keys : /\ k \in DOMAIN f(k) => k \in DOMAIN e(k) /\ f(k)[k] = e(k)[k]
                      /\ k \in DOMAIN e(k) /\ k \notin DOMAIN f(k) => IsExpired(e(k)[k], now)
  BY ShardedAssumption, Zenon DEF Aged
<1> HIDE DEF e, f
<1>5. \A k : k \in DOMAIN old <=> k \in DOMAIN new
  BY <1>3, <1>4, Zenon
<1>6. \A k \in DOMAIN old : old[k] = new[k]
  BY <1>3, <1>4, <1>5
<1>7. DOMAIN old = DOMAIN new
  BY <1>5, Zenon
<1>8. old = new
  BY <1>3, <1>6, <1>7, Zenon
<1> QED
  BY <1>1, <1>2, <1>8

(* What clients see when every store has aged or has its part of updates. *)
LEMMA WrittenViews ==
    ASSUME NEW updates, DOMAIN updates \subseteq Keys,
           \A s \in Shards : \/ Aged(before[s], stores[s], now)
                             \/ Written(before[s], Group(updates, s), stores[s], now),
           \A k \in DOMAIN updates :
              LET s == ShardForKey[k] IN Written(before[s], Group(updates, s), stores[s], now),
           NEW old, old = View(before), NEW new, new = View(stores)
    PROVE  /\ \A k \in DOMAIN updates : k \in DOMAIN new /\ new[k].value = updates[k]
           /\ \A k \in DOMAIN new \ DOMAIN updates : k \in DOMAIN old /\ new[k] = old[k]
           /\ Policy = "noeviction" => DOMAIN old \subseteq DOMAIN new
<1> DEFINE e(k) == before[ShardForKey[k]].entries
           f(k) == stores[ShardForKey[k]].entries
           u(k) == Group(updates, ShardForKey[k])
<1>1. /\ \A k : k \in DOMAIN old <=> k \in Keys /\ k \in DOMAIN e(k) /\ ~IsExpired(e(k)[k], now)
      /\ \A k : k \in DOMAIN new <=> k \in Keys /\ k \in DOMAIN f(k) /\ ~IsExpired(f(k)[k], now)
      /\ \A k \in DOMAIN old : old[k] = [value |-> e(k)[k].value, expires_at |-> e(k)[k].expires_at]
      /\ \A k \in DOMAIN new : new[k] = [value |-> f(k)[k].value, expires_at |-> f(k)[k].expires_at]
  BY ViewParts
<1>2. \A k : k \in DOMAIN u(k) <=> k \in DOMAIN updates
  BY Zenon DEF Group, Restrict
<1>3. \A k \in DOMAIN updates : u(k)[k] = updates[k]
  BY Zenon DEF Group, Restrict
<1>4. \A k \in DOMAIN updates : k \in DOMAIN f(k) /\ f(k)[k].value = updates[k] /\ f(k)[k].expires_at = Never
  BY <1>2, <1>3 DEF Written
<1>5. \A k \in Keys \ DOMAIN updates : k \in DOMAIN f(k) => k \in DOMAIN e(k) /\ f(k)[k] = e(k)[k]
  BY <1>2, ShardedAssumption DEF Written, Aged
<1>6. Policy = "noeviction" =>
        \A k \in Keys : k \in DOMAIN e(k) /\ k \notin DOMAIN f(k) => IsExpired(e(k)[k], now)
  BY ShardedAssumption, Zenon DEF Written, Aged
<1> HIDE DEF e, f, u
<1>7. \A x : x.expires_at = Never => ~IsExpired(x, now)
  BY Zenon DEF IsExpired
<1>8. ASSUME NEW k \in DOMAIN updates
      PROVE  k \in DOMAIN new /\ new[k].value = updates[k]
  BY <1>1, <1>4, <1>7
<1>9. ASSUME NEW k \in DOMAIN new \ DOMAIN updates
      PROVE  k \in DOMAIN old /\ new[k] = old[k]
  <2>1. k \in Keys /\ k \in DOMAIN f(k) /\ ~IsExpired(f(k)[k], now)
    BY <1>1, Zenon
  <2>2. k \in DOMAIN e(k) /\ f(k)[k] = e(k)[k]
    BY <1>5, <2>1, Zenon
  <2> QED
    BY <1>1, <2>1, <2>2
<1>10. ASSUME Policy = "noeviction", NEW k \in DOMAIN old
       PROVE  k \in DOMAIN new
  <2>1. k \in Keys /\ k \in DOMAIN e(k) /\ ~IsExpired(e(k)[k], now)
    BY <1>1
  <2>2. k \in DOMAIN f(k)
    BY <1>6, <1>10, <2>1
  <2>3. ~IsExpired(f(k)[k], now)
    BY <1>4, <1>5, <1>7, <2>1, <2>2
  <2> QED
    BY <1>1, <2>1, <2>2, <2>3, SMTT(25)
<1> QED
  BY <1>8, <1>9, <1>10, ZenonT(40)

(* A batch write that is about to return. *)
LEMMA MSetReturns ==
    StoreFacts /\ LockInv /\ StoresInv /\ CallsInv /\ TransactionInv => MSetAllOrNothing
<1> SUFFICES ASSUME StoreFacts, LockInv, StoresInv, CallsInv, TransactionInv,
                    NEW c \in Clients, call[c].op = "MSet", Done(c)
             PROVE  LET u == call[c].updates
                        old == View(before)
                        new == View(stores)
                    IN  IF failed[c] THEN new = old
                        ELSE /\ \A k \in DOMAIN u : k \in DOMAIN new /\ new[k].value = u[k]
                             /\ \A k \in DOMAIN new \ DOMAIN u : k \in DOMAIN old /\ new[k] = old[k]
                             /\ Policy = "noeviction" => DOMAIN old \subseteq DOMAIN new
  BY Zenon DEF MSetAllOrNothing
<1> DEFINE q == call[c]
<1>1. /\ Unique(q) /\ posts[c] = <<>> /\ \A s \in Shards : tasks_[s] = <<>>
      /\ rounds[c] = <<>> /\ ~Refused(c)
  BY QueuesEmpty, Zenon DEF Unique, Done
<1>2. DOMAIN <<>> = {} /\ Len(<<>>) = 0
  OBVIOUS
<1>3. CASE failed[c]
  <2>1. Restoring(c)
    BY <1>3, Zenon DEF TransactionInv
  <2>2. \A s \in Shards : ~Pending(c, s)
    BY <1>1, <1>2, Zenon DEF Pending
  <2>3. \A s \in Shards : Aged(before[s], stores[s], now)
    BY <2>1, <2>2, Zenon DEF Restoring
  <2> QED
    BY <1>3, <2>3, AgedViews, Zenon
<1>4. CASE ~failed[c]
  <2>1. Writing(c)
    BY <1>4, Zenon DEF TransactionInv
  <2>2. IsRequest(q)
    BY DEF CallsInv, IsCall, Idle
  <2> DEFINE touched == Touched(q.updates)
             n == Len(touched)
             R == Rounds(q)
  <2>3. MSetTasks(q, touched, n, R)
    <3>1. q.op = "MSet"
      BY Zenon
    <3> HIDE DEF q
    <3> QED
      BY <2>2, <3>1, MSetOneByOne, Zenon
  <2>4. Ran(c) = Len(R) - 0
    BY <1>1, <1>2, Zenon DEF Ran, Busy, Round
  <2>5. HasRun(c, q.updates, touched, n, Ran(c))
    BY <2>1, Zenon DEF Writing
  <2> HIDE DEF touched, R, n
  <2>6. n \in Nat /\ \A j \in 1..n : n + j <= Ran(c)
    BY <2>3, <2>4 DEF MSetTasks
  <2>7. \A j \in 1..n : Written(before[touched[j]], Group(q.updates, touched[j]), stores[touched[j]], now)
    <3>1. \A s \in DOMAIN results[c] : results[c][s].status # "kNoMemory"
      BY <1>1, <1>4, Zenon DEF Refused
    <3> QED
      BY <2>5, <2>6, <3>1, Zenon DEF HasRun
  <2>8. \A s \in Shards : \/ Aged(before[s], stores[s], now)
                          \/ Written(before[s], Group(q.updates, s), stores[s], now)
    BY <2>5, <2>7, Zenon DEF HasRun
  <2>9. \A k \in DOMAIN q.updates :
          LET s == ShardForKey[k] IN Written(before[s], Group(q.updates, s), stores[s], now)
    BY <2>3, <2>7 DEF MSetTasks
  <2>10. DOMAIN q.updates \subseteq Keys
    BY <2>2, Zenon DEF IsRequest
  <2> HIDE DEF q
  <2>11. /\ \A k \in DOMAIN q.updates : k \in DOMAIN View(stores) /\ View(stores)[k].value = q.updates[k]
         /\ \A k \in DOMAIN View(stores) \ DOMAIN q.updates :
               k \in DOMAIN View(before) /\ View(stores)[k] = View(before)[k]
         /\ Policy = "noeviction" => DOMAIN View(before) \subseteq DOMAIN View(stores)
    BY <2>8, <2>9, <2>10, WrittenViews, Zenon
  <2> QED
    BY <1>4, <2>11, Zenon DEF q
<1> QED
  BY <1>3, <1>4, Zenon

(* A snapshot that is about to return. *)
LEMMA SnapshotReturns ==
    LockInv /\ StoresInv /\ CallsInv /\ TransactionInv => SnapshotIsConsistent
<1> SUFFICES ASSUME LockInv, StoresInv, CallsInv, TransactionInv,
                    NEW c \in Clients, call[c].op = "Snapshot", Done(c)
             PROVE  LET new == View(stores)
                        S(k) == results[c][ShardForKey[k]].value.entries
                    IN  /\ \A k \in DOMAIN new : k \in DOMAIN S(k) /\ S(k)[k].value = new[k].value
                        /\ \A k \in Keys : k \in DOMAIN S(k) =>
                              LET old == before[ShardForKey[k]].entries IN
                              k \in DOMAIN old /\ S(k)[k].value = old[k].value
  BY Zenon DEF SnapshotIsConsistent
<1> DEFINE S(k) == results[c][ShardForKey[k]].value.entries
           f(k) == stores[ShardForKey[k]].entries
           e(k) == before[ShardForKey[k]].entries
<1>1. PICK new : new = View(stores)
  BY Zenon
<1>2. posts[c] = <<>> /\ \A s \in Shards : tasks_[s] = <<>>
  BY QueuesEmpty, Zenon DEF Unique, Done
<1>3. DOMAIN <<>> = {}
  OBVIOUS
<1>4. \A s \in Shards : ~Pending(c, s)
  BY <1>2, <1>3, Zenon DEF Pending
<1>5. \A s \in Shards : /\ Aged(before[s], stores[s], now)
                        /\ Shot(before[s], stores[s], results[c][s].value.entries)
  BY <1>4, Zenon DEF TransactionInv, Shooting
<1>6. \A k \in Keys : ShardForKey[k] \in Shards
  BY ShardedAssumption, Zenon
<1>7. \A k \in Keys : k \in DOMAIN f(k) => k \in DOMAIN S(k) /\ f(k)[k] = e(k)[k]
  BY <1>5, <1>6, Zenon DEF Shot, Aged
<1>8. \A k \in Keys : k \in DOMAIN S(k) => k \in DOMAIN e(k) /\ S(k)[k].value = e(k)[k].value
  BY <1>5, <1>6, ZenonT(40) DEF Shot
<1>9. /\ \A k : k \in DOMAIN new <=> k \in Keys /\ k \in DOMAIN f(k) /\ ~IsExpired(f(k)[k], now)
      /\ \A k \in DOMAIN new : new[k] = [value |-> f(k)[k].value, expires_at |-> f(k)[k].expires_at]
  BY <1>1, ViewParts
<1> HIDE DEF S, f, e
<1>10. \A k \in DOMAIN new : k \in DOMAIN S(k) /\ S(k)[k].value = new[k].value
  BY <1>7, <1>8, <1>9
<1> QED
  BY <1>1, <1>8, <1>10, Zenon DEF S, e

----------------------------------------------------------------------------
(* The loops of the facade come to every shard of S once, smallest first.  *)
LEMMA AscendingOrder ==
    ASSUME NEW S \in SUBSET Shards, NEW q, q = Ascending(S)
    PROVE  /\ IsSequence(q) /\ Len(q) = Cardinality(S) /\ Len(q) \in Nat
           /\ DOMAIN q = 1..Len(q)
           /\ \A i \in 1..Len(q) : q[i] \in S
           /\ \A s \in S : \E i \in 1..Len(q) : q[i] = s
           /\ \A i, j \in 1..Len(q) : q[i] = q[j] => i = j
<1> DEFINE n == Cardinality(S)
           Below(s) == {t \in S : t < s}
           rank == [s \in S |-> Cardinality(Below(s)) + 1]
<1>1. IsFiniteSet(S) /\ n \in Nat /\ \A s \in S : s \in Nat
  <2>1. IsFiniteSet(Shards) /\ Shards \subseteq Nat
    BY ShardedAssumption, FS_Interval DEF Shards
  <2> QED
    BY <2>1, FS_Subset, FS_CardinalityType, ZenonT(40)
<1>2. ASSUME NEW s \in S
      PROVE  Cardinality(Below(s)) \in 0..(n - 1)
  <2>1. IsFiniteSet(S \ {s}) /\ Cardinality(S \ {s}) = n - 1
    BY <1>1, FS_RemoveElement
  <2>2. Below(s) \in SUBSET (S \ {s})
    BY <1>1
  <2> HIDE DEF Below
  <2>3. IsFiniteSet(Below(s)) /\ Cardinality(Below(s)) <= Cardinality(S \ {s})
    BY <2>1, <2>2, FS_Subset, ZenonT(40)
  <2>4. Cardinality(Below(s)) \in Nat
    BY <2>3, FS_CardinalityType, Zenon
  <2> QED
    BY <1>1, <2>1, <2>3, <2>4, SMTT(25)
<1>3. ASSUME NEW s \in S, NEW t \in S, s < t
      PROVE  Cardinality(Below(s)) < Cardinality(Below(t))
  <2>1. IsFiniteSet(Below(t))
    BY <1>1, FS_Subset, Zenon
  <2>2. s \in Below(t)
    BY <1>3, Zenon
  <2>3. Below(s) \in SUBSET (Below(t) \ {s})
    BY <1>1, <1>3
  <2> HIDE DEF Below
  <2>4. IsFiniteSet(Below(t) \ {s}) /\ Cardinality(Below(t) \ {s}) = Cardinality(Below(t)) - 1
    BY <2>1, <2>2, FS_RemoveElement, Zenon
  <2>5. Cardinality(Below(s)) <= Cardinality(Below(t) \ {s})
    BY <2>3, <2>4, FS_Subset, Zenon
  <2> QED
    BY <1>2, <2>4, <2>5
<1> HIDE DEF n, Below
<1>4. rank \in [S -> 1..n]
  BY <1>1, <1>2
<1>5. \A s, t \in S : rank[s] = rank[t] => s = t
  <2> SUFFICES ASSUME NEW s \in S, NEW t \in S, rank[s] = rank[t], s # t
               PROVE  FALSE
    BY Zenon
  <2>1. s < t \/ t < s
    BY <1>1
  <2> QED
    BY <1>2, <1>3, <2>1
<1>6. rank \in Surjection(S, 1..n)
  <2>1. rank \in Injection(S, 1..n)
    BY <1>4, <1>5, Zenon DEF Injection, IsInjective
  <2>2. IsFiniteSet(1..n) /\ Cardinality(1..n) = n
    BY <1>1, FS_Interval
  <2> HIDE DEF rank
  <2> QED
    BY <2>1, <2>2, FS_Injection DEF n
<1>7. \A i \in 1..n : \E s \in S : rank[s] = i
  BY <1>6, Zenon DEF Surjection
<1>8. \A i \in 1..n : q[i] = CHOOSE s \in S : Cardinality(Below(s)) = i - 1
  BY Zenon DEF Ascending, n, Below
<1>9. \A i \in 1..n : q[i] \in S /\ rank[q[i]] = i
  <2> SUFFICES ASSUME NEW i \in 1..n
               PROVE  q[i] \in S /\ rank[q[i]] = i
    BY Zenon
  <2>1. PICK s \in S : rank[s] = i
    BY <1>7, Zenon
  <2>2. Cardinality(Below(s)) = i - 1
    BY <1>2, <2>1
  <2>3. q[i] \in S /\ Cardinality(Below(q[i])) = i - 1
    BY <1>8, <2>2
  <2> QED
    BY <1>1, <2>3
<1>10. q = [i \in 1..n |-> q[i]]
  <2> DEFINE Ranked(i) == CHOOSE s \in S : Cardinality(Below(s)) = i - 1
  <2>1. q = [i \in 1..n |-> Ranked(i)]
    BY Zenon DEF Ascending, n, Below
  <2> HIDE DEF Ranked
  <2> QED
    BY <2>1, Zenon
<1>11. IsSequence(q) /\ Len(q) = n /\ DOMAIN q = 1..n
  BY <1>1, <1>10, FunctionIsSequence
<1>12. \A s \in S : \E i \in 1..n : q[i] = s
  <2> SUFFICES ASSUME NEW s \in S
               PROVE  \E i \in 1..n : q[i] = s
    BY Zenon
  <2>1. rank[s] \in 1..n
    BY <1>4, Zenon
  <2> HIDE DEF rank
  <2>2. q[rank[s]] = s
    BY <1>5, <1>9, <2>1
  <2> QED
    BY <2>1, <2>2, Zenon
<1>13. \A i, j \in 1..n : q[i] = q[j] => i = j
  BY <1>9, Zenon
<1> QED
  BY <1>1, <1>9, <1>11, <1>12, <1>13, ZenonT(40) DEF n

(* The budgets of the shards add up to maxmemory: the first few get one    *)
(* byte of the remainder each.                                             *)
LEMMA BudgetsAddUp ==
    /\ IsFiniteSet(Shards)
    /\ \A s \in Shards : Budget(s) \in Nat
    /\ SumFunctionOnSet([s \in Shards |-> Budget(s)], Shards) = MaxMemory
<1> DEFINE share == MaxMemory \div ShardCount
           odd == MaxMemory % ShardCount
           f == [s \in Shards |-> Budget(s)]
           Sum(K) == SumFunctionOnSet(f, K)
           Odd(K) == {s \in K : s < odd}
           Q == {K \in SUBSET Shards : Sum(K) = Cardinality(K) * share + Cardinality(Odd(K))}
<1>1. /\ share \in Nat /\ odd \in 0..(ShardCount - 1)
      /\ MaxMemory = ShardCount * share + odd
  BY ShardedAssumption
<1> HIDE DEF share, odd
<1>2. IsFiniteSet(Shards) /\ Cardinality(Shards) = ShardCount /\ Shards \subseteq Nat
  BY ShardedAssumption, FS_Interval, SMTT(25) DEF Shards
<1>3. \A s \in Shards : /\ Budget(s) \in Nat /\ f[s] \in Int
                        /\ f[s] = share + (IF s < odd THEN 1 ELSE 0)
  <2>1. \A s \in Shards : Budget(s) = share + (IF s < odd THEN 1 ELSE 0)
    BY Zenon DEF Budget, share, odd
  <2> QED
    BY <1>1, <2>1, SMTT(25)
<1> HIDE DEF f
<1>4. ASSUME NEW K \in SUBSET Shards, \A r \in SUBSET K : r # K => r \in Q
      PROVE  K \in Q
  <2>1. IsFiniteSet(K) /\ Cardinality(K) \in Nat
    BY <1>2, FS_Subset, FS_CardinalityType, ZenonT(40)
  <2>2. CASE K = {}
    <3>1. Sum({}) = 0
      BY SumStep, FS_EmptySet, ZenonT(40)
    <3>2. Odd({}) = {} /\ Cardinality({}) = 0
      BY FS_EmptySet, Zenon
    <3>3. 0 * share = 0
      BY <1>1
    <3> HIDE DEF Sum, Odd
    <3> QED
      BY <2>2, <3>1, <3>2, <3>3
  <2>3. CASE K # {}
    <3>1. PICK a \in K : TRUE
      BY <2>3, ZenonT(40)
    <3> DEFINE L == K \ {a}
    <3>2. Sum(K) = f[a] + Sum(L)
      BY <1>3, <2>1, SumRemove, SMTT(25)
    <3>3. L \in Q
      BY <1>4, Zenon
    <3>4. Sum(L) = Cardinality(L) * share + Cardinality(Odd(L))
      BY <3>3, Zenon
    <3>5. Cardinality(L) = Cardinality(K) - 1 /\ IsFiniteSet(L)
      BY <2>1, FS_RemoveElement, ZenonT(40)
    <3>6. IsFiniteSet(Odd(L)) /\ Cardinality(Odd(L)) \in Nat
      BY <3>5, FS_Subset, FS_CardinalityType, SMTT(25)
    <3>7. Cardinality(Odd(K)) = Cardinality(Odd(L)) + (IF a < odd THEN 1 ELSE 0)
      <4>1. CASE a < odd
        <5>1. Odd(K) = Odd(L) \cup {a} /\ a \notin Odd(L)
          BY <4>1, Zenon
        <5> HIDE DEF Odd
        <5> QED
          BY <3>6, <4>1, <5>1, FS_AddElement, ZenonT(40)
      <4>2. CASE ~(a < odd)
        <5>1. Odd(K) = Odd(L)
          BY <4>2, Zenon
        <5> HIDE DEF Odd
        <5> QED
          BY <3>6, <4>2, <5>1, SMTT(25)
      <4> QED
        BY <4>1, <4>2, Zenon
    <3>8. Cardinality(K) * share = (Cardinality(K) - 1) * share + share
      BY <1>1, <2>1, SMTT(25)
    <3>9. f[a] = share + (IF a < odd THEN 1 ELSE 0)
      BY <1>3, ZenonT(40)
    <3>10. (Cardinality(K) - 1) * share \in Int
      BY <1>1, <2>1, SMTT(25)
    <3> HIDE DEF Sum, Odd, L
    <3>11. Sum(K) = Cardinality(K) * share + Cardinality(Odd(K))
      BY <1>1, <3>2, <3>4, <3>5, <3>6, <3>7, <3>8, <3>9, <3>10, SMTT(25)
    <3> QED
      BY <3>11, ZenonT(40)
  <2> QED
    BY <2>2, <2>3, ZenonT(40)
<1>5. Shards \in Q
  <2> HIDE DEF Q
  <2>1. \A K \in SUBSET Shards : K \in Q
    BY <1>2, <1>4, SubsetInduction, ZenonT(40)
  <2> QED
    BY <2>1, Zenon
<1>6. Sum(Shards) = ShardCount * share + Cardinality(Odd(Shards))
  BY <1>2, <1>5, Zenon
<1>7. Cardinality(Odd(Shards)) = odd
  <2>1. Odd(Shards) = 0..(odd - 1)
    BY <1>1, ShardedAssumption DEF Shards
  <2>2. Cardinality(0..(odd - 1)) = odd
    BY <1>1, FS_Interval
  <2> QED
    BY <2>1, <2>2, ZenonT(40)
<1> QED
  BY <1>1, <1>2, <1>3, <1>6, <1>7, SMTT(25) DEF f
----------------------------------------------------------------------------
(* The methods of a store leave it sound. *)
LEMMA MethodsDoFollow == MethodsFollow
<1> SUFFICES ASSUME NEW s, Sound(s), NEW n \in Int, NEW o
             PROVE  /\ \A key \in Keys :
                        /\ o \in Get(s, key, n) => Follows(s, o.store)
                        /\ o \in Delete(s, key, n) => Follows(s, o.store)
                        /\ o \in Exists(s, key, n) => Follows(s, o.store)
                        /\ o \in TtlSeconds(s, key, n) => Follows(s, o.store)
                        /\ \A ttl \in Int : o \in Expire(s, key, ttl, n) => Follows(s, o.store)
                        /\ \A delta \in Int :
                              o \in Increment(s, key, delta, n, n) => Follows(s, o.store)
                    /\ \A r : /\ r.key \in Keys /\ r.value \in Text /\ r.ttl \in Int \cup {Never}
                              /\ o \in Set(s, r, n)
                              => Follows(s, o.store)
                    /\ o = Snapshot(s, n, n) => Follows(s, o.store)
                    /\ o = Clear(s) => Follows(s, o)
                    /\ o \in ActiveExpire(s, Samples, n) => Follows(s, o)
  BY Zenon DEF MethodsFollow
<1>1. \A x, status, value : Outcome(x, status, value).store = x
  BY Zenon DEF Outcome
<1>2. ASSUME NEW key \in Keys
      PROVE  /\ o \in Get(s, key, n) => Follows(s, o.store)
             /\ o \in Delete(s, key, n) => Follows(s, o.store)
  BY GetOutcome, DeleteOutcome
<1>3. ASSUME NEW key \in Keys
      PROVE  /\ o \in Exists(s, key, n) => Follows(s, o.store)
             /\ o \in TtlSeconds(s, key, n) => Follows(s, o.store)
  BY <1>1, ExistsOutcome, TtlSecondsOutcome, SMTT(25)
<1>4. ASSUME NEW key \in Keys
      PROVE  /\ \A ttl \in Int : o \in Expire(s, key, ttl, n) => Follows(s, o.store)
             /\ \A delta \in Int : o \in Increment(s, key, delta, n, n) => Follows(s, o.store)
  BY ExpireOutcome, IncrementOutcome
<1>5. ASSUME NEW r, r.key \in Keys, r.value \in Text, r.ttl \in Int \cup {Never}, o \in Set(s, r, n)
      PROVE  Follows(s, o.store)
  BY <1>5, SetFollows, Zenon
<1>6. /\ o = Snapshot(s, n, n) => Follows(s, o.store)
      /\ o = Clear(s) => Follows(s, o)
      /\ o \in ActiveExpire(s, Samples, n) => Follows(s, o)
  BY SnapshotFollows, ClearFollows, ActiveExpireFollows, ZenonT(40)
<1> QED
  BY <1>2, <1>3, <1>4, <1>5, <1>6, ZenonT(40)

(* A batch write is written in full or refused. *)
LEMMA BatchesAreWhole == WritesWhole
<1> SUFFICES ASSUME NEW s, Sound(s), NEW K \in SUBSET Keys, NEW u \in [K -> Text],
                    NEW o \in MSet(s, u), o # Outcome(s, "kNoMemory", Nothing)
             PROVE  Wrote(s, K, u, o)
  BY Zenon DEF WritesWhole
<1>1. K = DOMAIN u
  BY Zenon
<1> QED
  BY <1>1, MSetOutcome DEF Wrote

(* What TransactionProofs takes for granted. *)
LEMMA StoreFactsHold == StoreFacts
<1>1. StartsSound
  BY BudgetsAddUp, EmptyStoreSound, ShardedAssumption DEF StartsSound
<1>2. ComesToEach
  BY AscendingOrder, Zenon DEF ComesToEach
<1> QED
  BY <1>1, <1>2, MethodsDoFollow, BatchesAreWhole, ZenonT(40) DEF StoreFacts

(* The invariants of the protocol hold in every reachable state. *)
LEMMA InvariantsHold == Spec => [](LockInv /\ StoresInv /\ CallsInv /\ TransactionInv)
<1>1. Init => LockInv /\ StoresInv /\ CallsInv /\ TransactionInv
  BY StoreFactsHold, LockInit, StoresInit, CallsInit, TransactionInit, SMTT(25)
<1>2. LockInv /\ StoresInv /\ CallsInv /\ TransactionInv /\ [Next]_vars
      => (LockInv /\ StoresInv /\ CallsInv /\ TransactionInv)'
  BY StoreFactsHold, LockStep, StoresStep, CallsStep, TransactionStep
<1> QED
  BY <1>1, <1>2, PTL DEF Spec

(* Transactions are isolated: while a client is in MSET, a snapshot or a   *)
(* clear, nobody else is in a call and every queued task is its own.       *)
THEOREM Isolation == Spec => []TransactionIsolation
<1>1. LockInv => TransactionIsolation
  <2> SUFFICES ASSUME LockInv, NEW c \in Clients, Unique(call[c])
               PROVE  /\ \A d \in Clients \ {c} : call[d] = Idle
                      /\ \A s \in Shards : \A i \in DOMAIN tasks_[s] : tasks_[s][i].client = c
    BY Zenon DEF TransactionIsolation, Unique
  <2>1. Holders = {c}
    BY ShardedAssumption, Zenon DEF LockInv, Holders
  <2> QED
    BY <2>1, ZenonT(40) DEF LockInv
<1> QED
    BY <1>1, LockInit, LockStep, PTL DEF Spec

(* The shards together never use more than maxmemory, in whatever order    *)
(* writes, evictions, batch writes and their rollbacks meet: every store   *)
(* is within its budget, and the budgets add up.                           *)
THEOREM MemoryIsBounded == Spec => []TotalMemoryBounded
<1>1. StoresInv => TotalMemoryBounded
  <2> SUFFICES ASSUME StoresInv
               PROVE  TotalMemoryBounded
    BY Zenon
  <2> DEFINE f == [s \in Shards |-> stores[s].memory_usage]
             g == [s \in Shards |-> Budget(s)]
  <2>1. ASSUME NEW s \in Shards
        PROVE  f[s] \in Int /\ g[s] \in Int /\ f[s] <= g[s]
    <3>1. Sound(stores[s]) /\ stores[s].maxmemory = Budget(s) /\ Budget(s) \in Int
      BY BudgetsAddUp DEF StoresInv, Kept
    <3>2. stores[s].memory_usage \in Int
      BY <3>1, Zenon DEF Sound, IsStore
    <3>3. stores[s].memory_usage <= stores[s].maxmemory
      BY <3>1, Zenon DEF Sound
    <3> QED
      BY <3>1, <3>2, <3>3
  <2>2. SumFunction(f) = SumFunctionOnSet(f, Shards)
    BY Zenon DEF SumFunction
  <2> HIDE DEF f
  <2>3. SumFunctionOnSet(g, Shards) = MaxMemory /\ IsFiniteSet(Shards)
    BY BudgetsAddUp, Zenon
  <2> HIDE DEF g
  <2>4. SumFunctionOnSet(f, Shards) <= SumFunctionOnSet(g, Shards)
    BY <2>1, <2>3, SumBound
  <2> QED
    BY <2>2, <2>3, <2>4, SMTT(25) DEF TotalMemoryBounded, f
<1> QED
  BY <1>1, InvariantsHold, PTL

(* An MSET over any number of shards happens in full or not at all,        *)
(* whatever the other clients, the workers and the clock do: if a shard    *)
(* refuses its part, the copies that sharded_database.cpp puts back show   *)
(* clients just what they saw before it.                                   *)
THEOREM MSetIsAtomic == Spec => []MSetAllOrNothing
<1>1. LockInv /\ StoresInv /\ CallsInv /\ TransactionInv => MSetAllOrNothing
  BY StoreFactsHold, MSetReturns, SMTT(25)
<1> QED
  BY <1>1, InvariantsHold, PTL

(* A snapshot is the database at one moment, although every shard answers  *)
(* when it comes to it.                                                    *)
THEOREM SnapshotsAreConsistent == Spec => []SnapshotIsConsistent
<1>1. LockInv /\ StoresInv /\ CallsInv /\ TransactionInv => SnapshotIsConsistent
  BY SnapshotReturns, Zenon
<1> QED
  BY <1>1, InvariantsHold, PTL
=============================================================================
