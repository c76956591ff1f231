----------------------------- MODULE AofProofs -----------------------------
(***************************************************************************)
(* What Aof's runs check on a small instance, for any number of workers,   *)
(* mutations, faults and restarts: the log can always be read, what it     *)
(* acknowledged under appendfsync always survives, the log keeps the order *)
(* of every client, and a stop loses nothing.                              *)
(***************************************************************************)
EXTENDS Aof, SequenceTheorems, TLAPS

Places == {"idle", "guarded", "appending", "waiting"}
Promises == {"none", "pending", "value", "exception"}
Records == [id : Mutations, whole : BOOLEAN]

(* The types, and who has a mutation in hand. *)
AofTypes ==
    /\ policy_ \in {"always", "everysec", "no"}
    /\ mode \in {"up", "stopping", "down"}
    /\ applied \in Seq(Mutations)
    /\ pc \in [Workers -> Places]
    /\ mutation \in [Workers -> 0..MaxMutations]
    /\ requested \in 0..MaxMutations
    /\ prior \in [Mutations -> SUBSET Mutations]
    /\ promise \in [Mutations -> Promises]
    /\ acked \subseteq Mutations
    /\ queue_ \in Seq(Mutations) /\ failure_ \in BOOLEAN
    /\ at \in {"waiting", "writing", "syncing", "failing", "checking", "left", "crashed"}
    /\ record \in 0..MaxMutations
    /\ dirty \in BOOLEAN /\ due \in BOOLEAN
    /\ file \in Seq(Records) /\ synced \in 0..Len(file)
    /\ faults \in Nat /\ restarts \in Nat
    /\ \A w \in Workers : pc[w] # "idle" => mutation[w] \in Mutations
    /\ at \in {"writing", "syncing", "failing"} => record \in Mutations

(* Only the last record is torn, and with a torn one nothing is written    *)
(* any more: the writer has failed, or the process has ended.              *)
TailInv ==
    /\ \A i \in 1..Len(file) : ~file[i].whole =>
          i = Len(file) /\ (failure_ \/ at \in {"failing", "crashed"})
    /\ failure_ => queue_ = <<>> /\ at \notin {"writing", "syncing", "failing"}

LEMMA TypesInit == Init => AofTypes
<1> SUFFICES ASSUME Init PROVE AofTypes
  BY Zenon
<1>1. MaxMutations \in Nat
  BY AofAssumption, Zenon
<1>2. failure_ \in BOOLEAN /\ dirty \in BOOLEAN /\ due \in BOOLEAN
  BY Zenon DEF Init
<1>3. /\ pc \in [Workers -> Places]
      /\ promise \in [Mutations -> Promises]
      /\ prior \in [Mutations -> SUBSET Mutations]
  BY Zenon DEF Init, Places, Promises
<1>4. mutation \in [Workers -> 0..MaxMutations] /\ \A w \in Workers : pc[w] = "idle"
  BY <1>1 DEF Init
<1> QED
  BY <1>1, <1>2, <1>3, <1>4, AofAssumption DEF Init, AofTypes

----------------------------------------------------------------------------
(***************************************************************************)
(* What a crash leaves of the file.                                        *)
(***************************************************************************)
LEMMA TornIs == \A m \in Mutations : Torn(m) \in Records /\ Torn(m).id = m /\ ~Torn(m).whole
BY Zenon DEF Torn, Records

LEMMA WholeIs == \A m \in Mutations : Whole(m) \in Records /\ Whole(m).id = m /\ Whole(m).whole
BY Zenon DEF Whole, Records

LEMMA AppendIs ==
    ASSUME NEW S, NEW s \in Seq(S), NEW x \in S
    PROVE  /\ Append(s, x) \in Seq(S) /\ Len(Append(s, x)) = Len(s) + 1
           /\ Append(s, x)[Len(s) + 1] = x
           /\ \A i \in 1..Len(s) : Append(s, x)[i] = s[i]
OBVIOUS

LEMMA PrefixIs ==
    ASSUME NEW S, NEW s \in Seq(S), NEW n \in 0..Len(s)
    PROVE  /\ SubSeq(s, 1, n) \in Seq(S) /\ Len(SubSeq(s, 1, n)) = n
           /\ \A i \in 1..n : SubSeq(s, 1, n)[i] = s[i]
BY ElementOfSeq

(* What Written and Remains have in common. *)
Left(f) ==
    /\ f \in Seq(Records) /\ synced <= Len(f)
    /\ \A i \in 1..synced : f[i] = file[i]
    /\ \A i \in 1..Len(f) : f[i].id = IF i <= Len(file) THEN file[i].id ELSE record
    /\ \A i \in 1..Len(f) : i > Len(file) => i = Len(file) + 1 /\ at = "writing"
    /\ \A i \in 1..Len(f) : ~f[i].whole => i = Len(f)

LEMMA WrittenIs ==
    ASSUME AofTypes, TailInv, NEW f \in Written
    PROVE  Left(f) /\ Len(file) <= Len(f)
<1>1. file \in Seq(Records) /\ Len(file) \in Nat /\ synced \in 0..Len(file)
  BY DEF AofTypes
<1>2. CASE f = file
  BY <1>1, <1>2 DEF Left, TailInv
<1>3. CASE at = "writing" /\ f = Append(file, Torn(record))
  <2>1. record \in Mutations
    BY <1>3, Zenon DEF AofTypes
  <2>2. Torn(record) \in Records /\ Torn(record).id = record
    BY <2>1, TornIs, Zenon
  <2>3. /\ f \in Seq(Records) /\ Len(f) = Len(file) + 1 /\ f[Len(file) + 1] = Torn(record)
        /\ \A i \in 1..Len(file) : f[i] = file[i]
    BY <1>1, <1>3, <2>2, AppendIs
  <2>4. \A i \in 1..Len(file) : file[i].whole
    BY <1>3, Zenon DEF TailInv
  <2>5. \A i \in 1..Len(f) : i \in 1..Len(file) \/ i = Len(file) + 1
    BY <1>1, <2>3
  <2> QED
    BY <1>1, <1>3, <2>2, <2>3, <2>4, <2>5 DEF Left
<1> QED
  BY <1>2, <1>3, Zenon DEF Written

LEMMA RemainsIs ==
    ASSUME AofTypes, TailInv, NEW g \in Remains
    PROVE  Left(g)
<1>1. file \in Seq(Records) /\ Len(file) \in Nat /\ synced \in 0..Len(file)
  BY DEF AofTypes
<1>2. PICK f \in Written :
          \/ \E n \in synced..Len(f) : g = SubSeq(f, 1, n)
          \/ \E n \in synced..(Len(f) - 1) : g = Append(SubSeq(f, 1, n), Torn(f[n + 1].id))
  BY Zenon DEF Remains
<1>3. Left(f) /\ Len(file) <= Len(f) /\ f \in Seq(Records) /\ Len(f) \in Nat
  BY WrittenIs DEF Left
<1>4. CASE \E n \in synced..Len(f) : g = SubSeq(f, 1, n)
  <2>1. PICK n \in synced..Len(f) : g = SubSeq(f, 1, n)
    BY <1>4, Zenon
  <2>2. n \in 0..Len(f)
    BY <1>1, <1>3
  <2>3. g \in Seq(Records) /\ Len(g) = n /\ \A i \in 1..n : g[i] = f[i]
    BY <1>3, <2>1, <2>2, PrefixIs, Zenon
  <2>4. \A i \in 1..n : i \in 1..Len(f) /\ (i = Len(f) => i = n)
    BY <1>3, <2>2
  <2>5. \A i \in 1..synced : i \in 1..n
    BY <1>1, <2>2
  <2> QED
    BY <1>1, <1>3, <2>3, <2>4, <2>5 DEF Left
<1>5. CASE \E n \in synced..(Len(f) - 1) : g = Append(SubSeq(f, 1, n), Torn(f[n + 1].id))
  <2>1. PICK n \in synced..(Len(f) - 1) : g = Append(SubSeq(f, 1, n), Torn(f[n + 1].id))
    BY <1>5, Zenon
  <2>2. n \in 0..Len(f) /\ n + 1 \in 1..Len(f) /\ synced <= n
    BY <1>1, <1>3
  <2> DEFINE p == SubSeq(f, 1, n)
             m == f[n + 1].id
  <2>3. p \in Seq(Records) /\ Len(p) = n /\ \A i \in 1..n : p[i] = f[i]
    BY <1>3, <2>2, PrefixIs, Zenon
  <2>4. m \in Mutations
    <3>1. f[n + 1] \in Records
      BY <1>3, <2>2, ElementOfSeq, Zenon
    <3> QED
      BY <3>1, Zenon DEF Records
  <2>5. Torn(m) \in Records /\ Torn(m).id = m
    BY <2>4, TornIs, Zenon
  <2>6. g = Append(p, Torn(m))
    BY <2>1, Zenon
  <2> HIDE DEF p
  <2>7. /\ g \in Seq(Records) /\ Len(g) = n + 1 /\ g[n + 1] = Torn(m)
        /\ \A i \in 1..n : g[i] = f[i]
    BY <2>3, <2>5, <2>6, AppendIs
  <2> HIDE DEF m
  <2>8. \A i \in 1..(n + 1) : i \in 1..Len(f) /\ (i \in 1..n \/ i = n + 1)
    BY <1>3, <2>2
  <2>9. \A i \in 1..n : f[i].whole
    <3>1. \A i \in 1..n : i # Len(f) /\ i \in 1..Len(f)
      BY <1>3, <2>2
    <3> QED
      BY <1>3, <3>1, Zenon DEF Left
  <2>10. \A i \in 1..synced : i \in 1..n
    BY <1>1, <2>2
  <2>11. \A i \in 1..Len(g) : g[i].id = f[i].id
    BY <2>5, <2>7, <2>8, Zenon DEF m
  <2>12. \A i \in 1..Len(g) : ~g[i].whole => i = Len(g)
    BY <2>7, <2>8, <2>9, Zenon
  <2> QED
    BY <1>1, <1>3, <2>2, <2>7, <2>8, <2>10, <2>11, <2>12 DEF Left
<1> QED
  BY <1>2, <1>4, <1>5, Zenon

(* Of a file that only its last record spoils, recovery keeps the whole    *)
(* records.                                                                *)
LEMMA IntactIs ==
    ASSUME AofTypes, OnlyTailTorn
    PROVE  /\ Intact \in Seq(Records) /\ Len(Intact) <= Len(file)
           /\ \A i \in 1..Len(Intact) : Intact[i] = file[i] /\ file[i].whole
           /\ \A i \in 1..Len(file) : file[i].whole => i <= Len(Intact)
<1> DEFINE n == Len(file)
<1>1. file \in Seq(Records) /\ n \in Nat /\ DOMAIN file = 1..n
  BY DEF AofTypes
<1> HIDE DEF n
<1>2. \A i \in 1..n : i \in TornAt <=> ~file[i].whole
  BY <1>1, Zenon DEF TornAt
<1>3. CASE TornAt = {}
  <2>1. Intact = file /\ \A i \in 1..n : file[i].whole
    BY <1>2, <1>3, Zenon DEF Intact
  <2> QED
    BY <1>1, <2>1 DEF n
<1>4. CASE TornAt # {}
  <2>1. TornAt = {n}
    BY <1>4, Zenon DEF OnlyTailTorn, n
  <2>2. n \in 1..n
    BY <1>1, <2>1, Zenon DEF TornAt
  <2>3. n - 1 \in 0..n /\ \A i \in 1..(n - 1) : i \in 1..n /\ i # n
    BY <1>1, <2>2
  <2>4. Intact = SubSeq(file, 1, n - 1)
    BY <1>4, Zenon DEF Intact, n
  <2>5. /\ Intact \in Seq(Records) /\ Len(Intact) = n - 1
        /\ \A i \in 1..(n - 1) : Intact[i] = file[i]
    BY <1>1, <2>3, <2>4, PrefixIs, Zenon DEF n
  <2>6. \A i \in 1..n : file[i].whole => i <= n - 1
    <3> SUFFICES ASSUME NEW i \in 1..n, i # n PROVE i <= n - 1
      BY <1>2, <2>1, Zenon
    <3> QED
      BY <1>1
  <2>7. \A i \in 1..(n - 1) : file[i].whole
    BY <1>2, <2>1, <2>3, Zenon
  <2>8. n - 1 <= n
    BY <1>1
  <2> QED
    BY <2>5, <2>6, <2>7, <2>8, Zenon DEF n
<1> QED
  BY <1>3, <1>4, Zenon

----------------------------------------------------------------------------
LEMMA ResolveIs ==
    ASSUME AofTypes, NEW v \in {"value", "exception"}, Resolve(v), record \in Mutations
    PROVE  /\ promise' \in [Mutations -> Promises]
           /\ \A m \in Mutations : promise'[m] = "value" => promise[m] = "value" \/ (m = record /\ v = "value")
<1>1. promise \in [Mutations -> Promises]
  BY Zenon DEF AofTypes
<1> QED
  <2>1. CASE promise[record] = "pending"
    <3>1. promise' = [promise EXCEPT ![record] = v] /\ v \in Promises
      BY <2>1, Zenon DEF Resolve, Promises
    <3> QED
      BY <1>1, <3>1, Zenon
  <2>2. CASE promise[record] # "pending"
    BY <1>1, <2>2, Zenon DEF Resolve
  <2> QED
    BY <2>1, <2>2, Zenon

LEMMA SetFailureIs ==
    ASSUME AofTypes, SetFailure
    PROVE  /\ promise' \in [Mutations -> Promises]
           /\ \A m \in Mutations : promise'[m] = "value" => promise[m] = "value"
           /\ queue_' = <<>> /\ failure_'
<1>1. promise \in [Mutations -> Promises]
  BY Zenon DEF AofTypes
<1>2. failure_' /\ queue_' = <<>>
  BY Zenon DEF SetFailure
<1> QED
  BY <1>1, <1>2, Zenon DEF SetFailure, Promises

LEMMA TypesStep ==
    ASSUME AofTypes, TailInv, [Next]_vars
    PROVE  AofTypes'
<1> USE DEF workerVars, writerVars, fileVars, bounds
<1>0. MaxMutations \in Nat /\ Mutations = 1..MaxMutations
  BY AofAssumption, Zenon DEF Mutations
<1>1. CASE UNCHANGED vars
  BY <1>1, ZenonT(40) DEF vars, AofTypes
<1>2. ASSUME NEW w \in Workers, Guard(w) PROVE AofTypes'
  <2>1. requested + 1 \in Mutations /\ requested' = requested + 1
    BY <1>0, <1>2 DEF Guard, AofTypes
  <2>2. prior' \in [Mutations -> SUBSET Mutations]
    BY <1>2, <2>1, Zenon DEF Guard, AofTypes
  <2>3. /\ pc' \in [Workers -> Places]
        /\ mutation' \in [Workers -> 0..MaxMutations]
        /\ \A v \in Workers : pc'[v] # "idle" => mutation'[v] \in Mutations
    <3>1. /\ pc \in [Workers -> Places] /\ mutation \in [Workers -> 0..MaxMutations]
          /\ \A v \in Workers : pc[v] # "idle" => mutation[v] \in Mutations
      BY Zenon DEF AofTypes
    <3>2. CASE UNCHANGED <<pc, mutation>>
      BY <3>1, <3>2, Zenon
    <3>3. CASE Moves(w, "guarded") /\ mutation' = [mutation EXCEPT ![w] = requested + 1]
      BY <1>0, <2>1, <3>1, <3>3 DEF Moves, Places
    <3> QED
      BY <1>2, <3>2, <3>3, Zenon DEF Guard
  <2> QED
    BY <1>0, <1>2, <2>1, <2>2, <2>3 DEF Guard, AofTypes
<1>3. ASSUME NEW w \in Workers, Handle(w) PROVE AofTypes'
  <2>1. /\ pc' \in [Workers -> Places]
        /\ \A v \in Workers : pc'[v] # "idle" => mutation[v] \in Mutations
    BY <1>3, Zenon DEF Handle, Moves, AofTypes, Places
  <2>2. applied' \in Seq(Mutations)
    <3>1. applied \in Seq(Mutations) /\ mutation[w] \in Mutations
      BY <1>3, Zenon DEF Handle, AofTypes
    <3>2. applied' = applied \/ applied' = Append(applied, mutation[w])
      BY <1>3, Zenon DEF Handle
    <3> QED
      BY <3>1, <3>2
  <2> QED
    BY <1>3, <2>1, <2>2 DEF Handle, AofTypes
<1>4. ASSUME NEW w \in Workers, AppendRecord(w) PROVE AofTypes'
  <2>1. mutation[w] \in Mutations
    BY <1>4, Zenon DEF AppendRecord, AofTypes
  <2>2. /\ pc' \in [Workers -> Places]
        /\ \A v \in Workers : pc'[v] # "idle" => mutation[v] \in Mutations
    BY <1>4, <2>1, Zenon DEF AppendRecord, Moves, AofTypes, Places
  <2>3. /\ queue_' \in Seq(Mutations) /\ acked' \subseteq Mutations
        /\ promise' \in [Mutations -> Promises]
    <3>1. queue_ \in Seq(Mutations) /\ acked \subseteq Mutations /\ promise \in [Mutations -> Promises]
      BY Zenon DEF AofTypes
    <3>2. CASE failure_
      BY <1>4, <3>1, <3>2, Zenon DEF AppendRecord
    <3>3. CASE ~failure_
      <4>1. queue_' = Append(queue_, mutation[w]) /\ acked' \subseteq acked \cup {mutation[w]}
        BY <1>4, <3>3, Zenon DEF AppendRecord
      <4>2. promise' = [promise EXCEPT ![mutation[w]] = IF AppendWaits THEN "pending" ELSE "none"]
        BY <1>4, <3>3, Zenon DEF AppendRecord
      <4>3. queue_' \in Seq(Mutations) /\ acked' \subseteq Mutations
        BY <2>1, <3>1, <4>1
      <4>4. (IF AppendWaits THEN "pending" ELSE "none") \in Promises
        BY Zenon DEF Promises
      <4> QED
        BY <2>1, <3>1, <4>2, <4>3, <4>4, Zenon
    <3> QED
      BY <3>2, <3>3, Zenon
  <2> QED
    BY <1>4, <2>2, <2>3 DEF AppendRecord, AofTypes
<1>5. ASSUME NEW w \in Workers, Durable(w) PROVE AofTypes'
  <2>1. /\ pc' \in [Workers -> Places]
        /\ \A v \in Workers : pc'[v] # "idle" => mutation[v] \in Mutations
        /\ acked' \subseteq Mutations
    BY <1>5, Zenon DEF Durable, Moves, AofTypes, Places
  <2> QED
    BY <1>5, <2>1 DEF Durable, AofTypes
<1>6. CASE TakeRecord
  <2>1. record' \in Mutations /\ queue_' \in Seq(Mutations)
    BY <1>6 DEF TakeRecord, Pop, AofTypes
  <2> QED
    BY <1>0, <1>6, <2>1 DEF TakeRecord, AofTypes
<1>7. CASE TimeOut \/ Elapse \/ Stop
  BY <1>7, ZenonT(40) DEF TimeOut, Elapse, Stop, AofTypes
<1>8. CASE Write
  <2>1. Whole(record) \in Records /\ file \in Seq(Records) /\ synced \in 0..Len(file)
    BY <1>8, WholeIs, Zenon DEF Write, AofTypes
  <2>2. file' \in Seq(Records) /\ synced' \in 0..Len(file')
    BY <1>8, <2>1 DEF Write
  <2> QED
    BY <1>8, <2>2, Zenon DEF Write, AofTypes
<1>9. CASE SyncRecord
  <2>1. promise' \in [Mutations -> Promises]
    BY <1>9, ResolveIs, Zenon DEF SyncRecord, AofTypes
  <2> QED
    <3>1. dirty' \in BOOLEAN /\ at' = "checking"
      BY <1>9, Zenon DEF SyncRecord
    <3>2. file' \in Seq(Records) /\ synced' \in 0..Len(file')
      BY <1>9 DEF SyncRecord, AofTypes
    <3> QED
      BY <1>9, <2>1, <3>1, <3>2, Zenon DEF SyncRecord, AofTypes
<1>10. CASE WriteFails
  <2>1. promise' \in [Mutations -> Promises]
    BY <1>10, ResolveIs, Zenon DEF WriteFails, AofTypes
  <2>2. Torn(record) \in Records /\ file \in Seq(Records) /\ synced \in 0..Len(file)
    BY <1>10, TornIs, Zenon DEF WriteFails, AofTypes
  <2>3. file' \in Seq(Records) /\ synced' \in 0..Len(file')
    BY <1>10, <2>2 DEF WriteFails
  <2> QED
    BY <1>10, <2>1, <2>3 DEF WriteFails, AofTypes
<1>11. CASE EnterFailure
  <2>1. /\ promise' \in [Mutations -> Promises]
        /\ queue_' = <<>> /\ failure_' \in BOOLEAN
    BY <1>11, SetFailureIs, Zenon DEF EnterFailure, SetFailure
  <2> QED
    BY <1>11, <2>1 DEF EnterFailure, AofTypes
<1>12. CASE EndIteration
  <2>1. /\ promise' \in [Mutations -> Promises]
        /\ queue_' \in Seq(Mutations) /\ failure_' \in BOOLEAN
    <3>1. CASE SetFailure
      BY <3>1, SetFailureIs DEF SetFailure
    <3>2. CASE UNCHANGED <<failure_, queue_, promise>>
      BY <3>2, Zenon DEF AofTypes
    <3> QED
      BY <1>12, <3>1, <3>2, Zenon DEF EndIteration
  <2>2. dirty' \in BOOLEAN /\ due' \in BOOLEAN /\ at' = "waiting"
    BY <1>12, Zenon DEF EndIteration, AofTypes
  <2>3. file' \in Seq(Records) /\ synced' \in 0..Len(file')
    BY <1>12 DEF EndIteration, AofTypes
  <2>4. faults' \in Nat
    BY <1>12 DEF EndIteration, AofTypes
  <2> QED
    BY <1>12, <2>1, <2>2, <2>3, <2>4, Zenon DEF EndIteration, AofTypes
<1>13. CASE Leave
  BY <1>13 DEF Leave, AofTypes
<1>14. CASE Crash
  <2>1. Left(file') /\ (synced' = synced \/ synced' = Len(file'))
    BY <1>14, WrittenIs, RemainsIs, Zenon DEF Crash
  <2>2. file' \in Seq(Records) /\ synced' \in 0..Len(file')
    BY <2>1 DEF Left, AofTypes
  <2> QED
    BY <1>14, <2>2, Zenon DEF Crash, AofTypes, Places
<1>15. CASE Restart
  <2>1. Intact \in Seq(Records) /\ Len(Intact) \in Nat
    BY <1>15, IntactIs DEF Restart, OnlyTailTorn
  <2>2. file' \in Seq(Records) /\ synced' \in 0..Len(file')
    BY <1>15, <2>1 DEF Restart, Truncated, AofTypes
  <2>3. applied' \in Seq(Mutations)
    <3>1. \A i \in DOMAIN Intact : Intact[i].id \in Mutations
      <4>1. \A i \in DOMAIN Intact : Intact[i] \in Records
        BY <2>1, ElementOfSeq
      <4> QED
        BY <4>1, Zenon DEF Records
    <3> QED
      BY <1>15, <2>1, <3>1 DEF Restart
  <2> QED
    <3>1. /\ pc' \in [Workers -> Places] /\ \A w \in Workers : pc'[w] = "idle"
          /\ promise' \in [Mutations -> Promises]
      BY <1>15, Zenon DEF Restart, Places, Promises
    <3>2. mutation' \in [Workers -> 0..MaxMutations]
      BY <1>0, <1>15 DEF Restart
    <3>3. failure_' \in BOOLEAN /\ dirty' \in BOOLEAN /\ due' \in BOOLEAN
      BY <1>15, Zenon DEF Restart
    <3>4. queue_' \in Seq(Mutations) /\ at' = "waiting" /\ record' \in 0..MaxMutations /\ restarts' \in Nat /\ mode' = "up"
      BY <1>0, <1>15 DEF Restart, AofTypes
    <3> QED
      BY <1>15, <2>2, <2>3, <3>1, <3>2, <3>3, <3>4, Zenon DEF Restart, AofTypes
<1> QED
  BY <1>1, <1>2, <1>3, <1>4, <1>5, <1>6, <1>7, <1>8, <1>9, <1>10, <1>11, <1>12, <1>13, <1>14,
     <1>15, Zenon
     DEF Next, WorkerStep, WriterStep, Terminated

----------------------------------------------------------------------------
LEMMA TailStep ==
    ASSUME AofTypes, TailInv, [Next]_vars
    PROVE  TailInv'
<1> USE DEF workerVars, writerVars, fileVars, bounds
<1>0. file \in Seq(Records) /\ Len(file) \in Nat
  BY DEF AofTypes
<1>1. ASSUME UNCHANGED <<file, queue_, failure_>>,
             at' = at \/ (at' = "checking" /\ at = "waiting")
      PROVE  TailInv'
  BY <1>1, Zenon DEF TailInv
<1>2. CASE \/ UNCHANGED vars \/ TimeOut \/ Elapse \/ Stop
           \/ \E w \in Workers : Guard(w) \/ Handle(w) \/ Durable(w)
  BY <1>1, <1>2, Zenon DEF vars, TimeOut, Elapse, Stop, Guard, Handle, Durable
<1>3. ASSUME NEW w \in Workers, AppendRecord(w) PROVE TailInv'
  <2>1. UNCHANGED <<file, failure_, at>> /\ (failure_ => queue_' = queue_)
    BY <1>3, Zenon DEF AppendRecord
  <2> QED
    BY <2>1, Zenon DEF TailInv
<1>4. CASE TakeRecord
  <2>1. ~failure_ /\ UNCHANGED <<file, failure_>> /\ at \notin {"failing", "crashed"}
    BY <1>4, Zenon DEF TakeRecord, TailInv
  <2> QED
    BY <2>1, Zenon DEF TailInv
<1>5. CASE Write
  <2>1. ~failure_ /\ UNCHANGED failure_ /\ \A i \in 1..Len(file) : file[i].whole
    BY <1>5, Zenon DEF Write, TailInv
  <2>2. file' = Append(file, Whole(record)) /\ Whole(record) \in Records /\ Whole(record).whole
    BY <1>5, WholeIs, Zenon DEF Write, AofTypes
  <2>3. /\ Len(file') = Len(file) + 1 /\ file'[Len(file) + 1] = Whole(record)
        /\ \A i \in 1..Len(file) : file'[i] = file[i]
    BY <1>0, <2>2, AppendIs
  <2>4. \A i \in 1..Len(file') : i \in 1..Len(file) \/ i = Len(file) + 1
    BY <1>0, <2>3
  <2>5. \A i \in 1..Len(file') : file'[i].whole
    BY <2>1, <2>2, <2>3, <2>4, Zenon
  <2> QED
    BY <2>1, <2>5, Zenon DEF TailInv
<1>6. CASE SyncRecord
  <2>1. ~failure_ /\ UNCHANGED <<file, failure_>> /\ \A i \in 1..Len(file) : file[i].whole
    BY <1>6, Zenon DEF SyncRecord, TailInv
  <2> QED
    BY <2>1, Zenon DEF TailInv
<1>7. CASE WriteFails
  <2>1. /\ ~failure_ /\ UNCHANGED failure_ /\ at' = "failing"
        /\ \A i \in 1..Len(file) : file[i].whole
    BY <1>7, Zenon DEF WriteFails, TailInv
  <2>2. CASE file' = file
    BY <2>1, <2>2, Zenon DEF TailInv
  <2>3. CASE file' = Append(file, Torn(record)) /\ at = "writing"
    <3>1. Torn(record) \in Records
      BY <2>3, TornIs, Zenon DEF AofTypes
    <3>2. /\ Len(file') = Len(file) + 1
          /\ \A i \in 1..Len(file) : file'[i] = file[i]
      BY <1>0, <2>3, <3>1, AppendIs
    <3>3. \A i \in 1..Len(file') : i \in 1..Len(file) \/ i = Len(file')
      BY <1>0, <3>2
    <3> QED
      BY <2>1, <3>2, <3>3, Zenon DEF TailInv
  <2> QED
    BY <1>7, <2>2, <2>3, Zenon DEF WriteFails
<1>8. CASE EnterFailure
  <2>1. failure_' /\ queue_' = <<>> /\ file' = file /\ at' = "checking"
    BY <1>8, SetFailureIs, Zenon DEF EnterFailure
  <2> QED
    BY <2>1, Zenon DEF TailInv
<1>9. CASE EndIteration
  <2>1. at = "checking" /\ at' = "waiting" /\ file' = file
    BY <1>9, Zenon DEF EndIteration
  <2>2. CASE UNCHANGED <<failure_, queue_>>
    BY <2>1, <2>2, Zenon DEF TailInv
  <2>3. CASE SetFailure
    <3>1. failure_' /\ queue_' = <<>>
      BY <2>3, SetFailureIs, Zenon
    <3> QED
      BY <2>1, <3>1, Zenon DEF TailInv
  <2> QED
    BY <1>9, <2>2, <2>3, Zenon DEF EndIteration
<1>10. CASE Leave
  BY <1>10, Zenon DEF Leave, TailInv
<1>11. CASE Crash
  <2>1. Left(file') /\ at' = "crashed" /\ UNCHANGED <<failure_, queue_>>
    BY <1>11, WrittenIs, RemainsIs, Zenon DEF Crash
  <2> QED
    BY <2>1, Zenon DEF Left, TailInv
<1>12. CASE Restart
  <2>1. OnlyTailTorn /\ file' = Intact /\ ~failure_'
    BY <1>12, Zenon DEF Restart, OnlyTailTorn, Truncated
  <2>2. \A i \in 1..Len(Intact) : Intact[i].whole
    BY <2>1, IntactIs, Zenon
  <2> QED
    BY <2>1, <2>2, Zenon DEF TailInv
<1> QED
  BY <1>2, <1>3, <1>4, <1>5, <1>6, <1>7, <1>8, <1>9, <1>10, <1>11, <1>12, Zenon
     DEF Next, WorkerStep, WriterStep, Terminated

(* Only the last record of the file can be torn, whatever writes fail and  *)
(* whenever the process or the machine stops: recovery never finds its own *)
(* log corrupt.                                                            *)
THEOREM TailTornAlways == Spec => []OnlyTailTorn
<1>1. Init => AofTypes /\ TailInv
  <2>1. Init => TailInv
    BY DEF Init, TailInv
  <2> QED
    BY <2>1, TypesInit, Zenon
<1>2. AofTypes /\ TailInv /\ [Next]_vars => (AofTypes /\ TailInv)'
  BY TypesStep, TailStep, Zenon
<1>3. AofTypes /\ TailInv => OnlyTailTorn
  BY DEF AofTypes, TailInv, OnlyTailTorn, TornAt
<1> QED
  BY <1>1, <1>2, <1>3, PTL DEF Spec

----------------------------------------------------------------------------
(***************************************************************************)
(* appendfsync always.  A promise is kept only after the sync of its       *)
(* record, so what is acknowledged is among the synced records; those no   *)
(* crash takes away, and recovery reads them back.                         *)
(***************************************************************************)
Stored(m) == \E i \in 1..synced : file[i] = Whole(m)
InDatabase(m) == \E i \in DOMAIN applied : applied[i] = m

OutOfWork == mode # "up" => \A w \in Workers : pc[w] = "idle"

SyncingLast == at = "syncing" => Len(file) \in 1..Len(file) /\ file[Len(file)] = Whole(record)

DurableInv ==
    policy_ = "always" =>
        /\ \A m \in acked : Stored(m) /\ (mode # "down" => InDatabase(m))
        /\ \A m \in Mutations : promise[m] = "value" => Stored(m)
        /\ \A w \in Workers : pc[w] \in {"appending", "waiting"} => InDatabase(mutation[w])

LEMMA StoredKept ==
    ASSUME AofTypes, TailInv, [Next]_vars, NEW m \in Mutations, Stored(m)
    PROVE  Stored(m)'
<1> USE DEF workerVars, writerVars, fileVars, bounds
<1>0. file \in Seq(Records) /\ Len(file) \in Nat /\ synced \in 0..Len(file)
  BY DEF AofTypes
<1>1. PICK i \in 1..synced : file[i] = Whole(m)
  BY Zenon DEF Stored
<1>2. i \in 1..Len(file) /\ i \in 1..synced
  BY <1>0
<1>3. SUFFICES i \in 1..synced' /\ file'[i] = Whole(m)
  BY Zenon DEF Stored
<1>4. ASSUME file' = file, synced' = synced \/ synced' = Len(file)
      PROVE  i \in 1..synced' /\ file'[i] = Whole(m)
  BY <1>1, <1>2, <1>4, Zenon
<1>5. CASE UNCHANGED vars \/ (\E w \in Workers : Guard(w) \/ WorkerStep(w)) \/ Elapse \/ Stop
  BY <1>4, <1>5, Zenon DEF vars, Guard, WorkerStep, Handle, AppendRecord, Durable, Elapse, Stop
<1>6. CASE TakeRecord \/ TimeOut \/ SyncRecord \/ EnterFailure \/ EndIteration \/ Leave
  BY <1>4, <1>6, Zenon DEF TakeRecord, TimeOut, SyncRecord, EnterFailure, EndIteration, Leave
<1>7. ASSUME NEW x \in Records, file' = Append(file, x), synced' = synced
      PROVE  i \in 1..synced' /\ file'[i] = Whole(m)
  BY <1>0, <1>1, <1>2, <1>7, AppendIs
<1>8. CASE Write
  <2>1. Whole(record) \in Records
    BY <1>8, WholeIs, Zenon DEF Write, AofTypes
  <2> QED
    BY <1>7, <1>8, <2>1, Zenon DEF Write
<1>9. CASE WriteFails
  <2>1. Torn(record) \in Records
    BY <1>9, TornIs, Zenon DEF WriteFails, AofTypes
  <2> QED
    BY <1>4, <1>7, <1>9, <2>1, Zenon DEF WriteFails
<1>10. CASE Crash
  <2>1. Left(file') /\ (synced' = synced \/ synced' = Len(file'))
    BY <1>10, WrittenIs, RemainsIs, Zenon DEF Crash
  <2> QED
    BY <1>0, <1>1, <1>2, <2>1 DEF Left
<1>11. CASE Restart
  <2>1. /\ OnlyTailTorn /\ file' = Intact
        /\ synced' = IF synced < Len(Intact) THEN synced ELSE Len(Intact)
    BY <1>11, Zenon DEF Restart, OnlyTailTorn, Truncated
  <2>2. file[i].whole
    BY <1>1, WholeIs, Zenon
  <2>3. i <= Len(Intact) /\ i \in 1..Len(Intact) /\ Intact[i] = file[i] /\ Len(Intact) \in Nat
    BY <1>2, <2>1, <2>2, IntactIs
  <2> QED
    BY <1>0, <1>1, <1>2, <2>1, <2>3, Zenon
<1> QED
  BY <1>5, <1>6, <1>8, <1>9, <1>10, <1>11, Zenon DEF Next, WriterStep, Terminated

LEMMA DatabaseKept ==
    ASSUME AofTypes, [Next]_vars, ~Restart, NEW m \in Mutations, InDatabase(m)
    PROVE  InDatabase(m)'
<1> USE DEF workerVars, writerVars, fileVars, bounds
<1>1. CASE applied' = applied
  BY <1>1, Zenon DEF InDatabase
<1>2. ASSUME NEW w \in Workers, Handle(w) PROVE InDatabase(m)'
  <2>1. applied \in Seq(Mutations) /\ mutation[w] \in Mutations
    BY <1>2, Zenon DEF Handle, AofTypes
  <2>2. CASE applied' = Append(applied, mutation[w])
    BY <2>1, <2>2 DEF InDatabase
  <2> QED
    BY <1>1, <1>2, <2>2, Zenon DEF Handle
<1>3. CASE UNCHANGED vars \/ Elapse \/ Stop \/ WriterStep \/ Crash
  BY <1>1, <1>3, Zenon
     DEF vars, Elapse, Stop, WriterStep, TakeRecord, TimeOut, Write, SyncRecord, WriteFails,
                    EnterFailure, EndIteration, Leave, Crash
<1>4. ASSUME NEW w \in Workers, Guard(w) \/ AppendRecord(w) \/ Durable(w) PROVE InDatabase(m)'
  BY <1>1, <1>4, Zenon DEF Guard, AppendRecord, Durable
<1> QED
  BY <1>2, <1>3, <1>4, Zenon DEF Next, WorkerStep, Terminated

LEMMA OutOfWorkStep ==
    ASSUME AofTypes, OutOfWork, [Next]_vars
    PROVE  OutOfWork'
<1> USE DEF workerVars, writerVars, fileVars, bounds
<1>1. CASE UNCHANGED <<mode, pc>>
  BY <1>1, Zenon DEF OutOfWork
<1>2. ASSUME NEW w \in Workers, Guard(w) \/ WorkerStep(w) PROVE OutOfWork'
  <2>1. mode = "up" /\ mode' = mode
    BY <1>2, Zenon DEF OutOfWork, Guard, WorkerStep, Handle, AppendRecord, Durable
  <2> QED
    BY <2>1, Zenon DEF OutOfWork
<1>3. CASE Stop
  BY <1>3, Zenon DEF Stop, OutOfWork
<1>4. CASE Leave
  BY <1>4, Zenon DEF Leave, MayLeave, OutOfWork
<1>5. CASE Crash \/ Restart
  BY <1>5, Zenon DEF Crash, Restart, OutOfWork
<1> QED
  BY <1>1, <1>2, <1>3, <1>4, <1>5, Zenon
     DEF Next, vars, WriterStep, TakeRecord, TimeOut, Write, SyncRecord, WriteFails, EnterFailure,
         EndIteration, Elapse, Terminated

LEMMA SyncingStep ==
    ASSUME AofTypes, SyncingLast, [Next]_vars
    PROVE  SyncingLast'
<1> USE DEF workerVars, writerVars, fileVars, bounds
<1>1. CASE UNCHANGED <<at, file, record>>
  BY <1>1, Zenon DEF SyncingLast
<1>2. CASE at' # "syncing"
  BY <1>2, Zenon DEF SyncingLast
<1>3. CASE Write
  <2>1. Whole(record) \in Records /\ file \in Seq(Records) /\ Len(file) \in Nat
    BY <1>3, WholeIs DEF Write, AofTypes
  <2>2. file' = Append(file, Whole(record)) /\ record' = record
    BY <1>3, Zenon DEF Write
  <2>3. Len(file') = Len(file) + 1 /\ file'[Len(file) + 1] = Whole(record)
    BY <2>1, <2>2, AppendIs, Zenon
  <2> QED
    BY <2>1, <2>2, <2>3 DEF SyncingLast, Whole
<1>4. CASE UNCHANGED vars \/ \E w \in Workers : Guard(w) \/ WorkerStep(w)
  BY <1>1, <1>4, Zenon DEF vars, Guard, WorkerStep, Handle, AppendRecord, Durable
<1>5. CASE Elapse \/ Stop
  BY <1>1, <1>5, Zenon DEF Elapse, Stop
<1>6. CASE \/ TakeRecord \/ TimeOut \/ SyncRecord \/ WriteFails \/ EnterFailure \/ EndIteration
           \/ Leave \/ Crash \/ Restart
  BY <1>2, <1>6, Zenon
     DEF TakeRecord, TimeOut, SyncRecord, WriteFails, EnterFailure, EndIteration, Leave, Crash,
                    Restart
<1> QED
  BY <1>3, <1>4, <1>5, <1>6, Zenon DEF Next, WriterStep, Terminated

LEMMA DurableStep ==
    ASSUME AofTypes, TailInv, OutOfWork, SyncingLast, DurableInv, [Next]_vars
    PROVE  DurableInv'
<1> USE DEF workerVars, writerVars, fileVars, bounds
<1>1. policy_' = policy_
  BY Zenon
     DEF Next, vars, Guard, WorkerStep, Handle, AppendRecord, Durable, Elapse, Stop,
         WriterStep, TakeRecord,
         TimeOut, Write, SyncRecord, WriteFails, EnterFailure, EndIteration, Leave, Crash, Restart, Terminated
<1>2. SUFFICES ASSUME policy_ = "always"
               PROVE  /\ (\A m \in acked : Stored(m) /\ (mode # "down" => InDatabase(m)))'
                      /\ (\A m \in Mutations : promise[m] = "value" => Stored(m))'
                      /\ (\A w \in Workers :
                             pc[w] \in {"appending", "waiting"} => InDatabase(mutation[w]))'
  BY <1>1, Zenon DEF DurableInv
<1>3. /\ \A m \in acked : Stored(m) /\ (mode # "down" => InDatabase(m))
      /\ \A m \in Mutations : promise[m] = "value" => Stored(m)
      /\ \A w \in Workers : pc[w] \in {"appending", "waiting"} => InDatabase(mutation[w])
  BY <1>2, Zenon DEF DurableInv
<1>4. /\ acked \subseteq Mutations
      /\ \A w \in Workers : pc[w] # "idle" => mutation[w] \in Mutations
      /\ pc \in [Workers -> Places] /\ promise \in [Mutations -> Promises]
  BY Zenon DEF AofTypes
<1>5. \A m \in Mutations : Stored(m) => Stored(m)'
  BY StoredKept, Zenon
<1>6. ~Restart => \A m \in Mutations : InDatabase(m) => InDatabase(m)'
  BY DatabaseKept, SMTT(30)
<1> DEFINE Acked == (\A m \in acked : Stored(m) /\ (mode # "down" => InDatabase(m)))'
           Kept == (\A m \in Mutations : promise[m] = "value" => Stored(m))'
           Working == (\A w \in Workers : pc[w] \in {"appending", "waiting"} => InDatabase(mutation[w]))'
<1>7. SUFFICES Acked /\ Kept /\ Working
  BY Zenon
<1>8. ASSUME ~Restart, acked' = acked, mode' # "down" => mode # "down" PROVE Acked
  BY <1>3, <1>4, <1>5, <1>6, <1>8, Zenon
<1>9. ASSUME \A m \in Mutations : promise'[m] = "value" => promise[m] = "value" PROVE Kept
  BY <1>3, <1>5, <1>9, Zenon
<1>10. ASSUME ~Restart, mutation' = mutation, pc' = pc PROVE Working
  BY <1>3, <1>4, <1>6, <1>10, Zenon
<1>11. Restart \/ ~Restart
  BY Zenon
<1> HIDE DEF Acked, Kept, Working
<1>12. ASSUME NEW w \in Workers, Guard(w), ~Restart PROVE Acked /\ Kept /\ Working
  <2>1. Acked /\ Kept
    BY <1>8, <1>9, <1>12, Zenon DEF Guard
  <2>2. ASSUME NEW v \in Workers, pc'[v] \in {"appending", "waiting"}
        PROVE  pc[v] = pc'[v] /\ mutation'[v] = mutation[v]
    BY <1>4, <1>12, <2>2, Zenon DEF Guard, Moves, AofTypes
  <2>3. Working
    BY <1>3, <1>4, <1>6, <1>12, <2>2, Zenon DEF Working
  <2> QED
    BY <2>1, <2>3, Zenon
<1>13. ASSUME NEW w \in Workers, Handle(w), ~Restart PROVE Acked /\ Kept /\ Working
  <2>1. Acked /\ Kept
    BY <1>8, <1>9, <1>13, Zenon DEF Handle
  <2>2. mutation' = mutation
    BY <1>13, Zenon DEF Handle
  <2>3. pc'[w] = "appending" => InDatabase(mutation[w])'
    <3>1. applied \in Seq(Mutations) /\ mutation[w] \in Mutations
      BY <1>13, Zenon DEF Handle, AofTypes
    <3>2. CASE applied' = Append(applied, mutation[w])
      <4>1. Len(applied) + 1 \in DOMAIN applied' /\ applied'[Len(applied) + 1] = mutation[w]
        BY <3>1, <3>2
      <4> QED
        BY <2>2, <4>1, Zenon DEF InDatabase
    <3>3. CASE Moves(w, "idle")
      BY <1>4, <3>3, Zenon DEF Moves
    <3> QED
      BY <1>13, <3>2, <3>3, Zenon DEF Handle
  <2>4. \A v \in Workers : v # w => pc'[v] = pc[v]
    BY <1>4, <1>13, Zenon DEF Handle, Moves
  <2>5. pc'[w] # "waiting"
    BY <1>4, <1>13, Zenon DEF Handle, Moves
  <2>6. ASSUME NEW v \in Workers, pc'[v] \in {"appending", "waiting"} PROVE InDatabase(mutation[v])'
    <3>1. CASE v = w
      BY <2>3, <2>5, <2>6, <3>1, Zenon
    <3>2. CASE v # w
      BY <1>3, <1>4, <1>6, <1>13, <2>2, <2>4, <2>6, <3>2, Zenon
    <3> QED
      BY <3>1, <3>2, Zenon
  <2>7. Working
    BY <2>6, Zenon DEF Working
  <2> QED
    BY <2>1, <2>7, Zenon
<1>14. ASSUME NEW w \in Workers, AppendRecord(w), ~Restart PROVE Acked /\ Kept /\ Working
  <2>1. acked' = acked /\ mode' = mode /\ mutation' = mutation
    BY <1>2, <1>14, Zenon DEF AppendRecord, AppendWaits
  <2>2. \A m \in Mutations : promise'[m] = "value" => promise[m] = "value"
    <3>1. CASE failure_
      BY <1>14, <3>1, Zenon DEF AppendRecord
    <3>2. CASE ~failure_
      <4>1. promise' = [promise EXCEPT ![mutation[w]] = "pending"]
        BY <1>2, <1>14, <3>2, Zenon DEF AppendRecord, AppendWaits
      <4> QED
        BY <1>4, <4>1, Zenon
    <3> QED
      BY <3>1, <3>2, Zenon
  <2>3. \A v \in Workers : pc'[v] \in {"appending", "waiting"} => pc[v] \in {"appending", "waiting"}
    BY <1>4, <1>14, Zenon DEF AppendRecord, Moves
  <2>4. Working
    BY <1>3, <1>4, <1>6, <1>14, <2>1, <2>3, Zenon DEF Working
  <2> QED
    BY <1>8, <1>9, <1>14, <2>1, <2>2, <2>4, Zenon
<1>15. ASSUME NEW w \in Workers, Durable(w), ~Restart PROVE Acked /\ Kept /\ Working
  <2>1. promise' = promise /\ mode' = mode /\ mutation' = mutation /\ pc[w] = "waiting"
    BY <1>15, Zenon DEF Durable
  <2>2. \A v \in Workers : pc'[v] \in {"appending", "waiting"} => pc[v] \in {"appending", "waiting"}
    BY <1>4, <1>15, Zenon DEF Durable, Moves
  <2>3. \A m \in acked' : m \in acked \/ (m = mutation[w] /\ promise[m] = "value")
    BY <1>15, Zenon DEF Durable
  <2>4. Acked
    BY <1>3, <1>4, <1>5, <1>6, <1>15, <2>1, <2>3, Zenon DEF Acked
  <2>5. Working
    BY <1>3, <1>4, <1>6, <1>15, <2>1, <2>2, Zenon DEF Working
  <2> QED
    BY <1>9, <2>1, <2>4, <2>5, Zenon
<1>16. CASE SyncRecord /\ ~Restart
  <2>1. record \in Mutations /\ record' = record
    BY <1>16, Zenon DEF SyncRecord, AofTypes
  <2>2. \A m \in Mutations : promise'[m] = "value" => promise[m] = "value" \/ m = record
    BY <1>16, <2>1, ResolveIs, Zenon DEF SyncRecord
  <2>3. Stored(record)'
    <3>1. /\ Len(file) \in 1..Len(file) /\ file[Len(file)] = Whole(record)
          /\ synced' = Len(file) /\ file' = file
      BY <1>16, Zenon DEF SyncRecord, SyncingLast
    <3> QED
      BY <2>1, <3>1, Zenon DEF Stored, Whole
  <2>4. \A m \in Mutations : promise'[m] = "value" => Stored(m)'
    BY <1>3, <1>5, <2>1, <2>2, <2>3, Zenon
  <2>5. Kept
    BY <2>4, Zenon DEF Kept
  <2> QED
    BY <1>8, <1>10, <1>16, <2>5, Zenon DEF SyncRecord
<1>17. CASE WriteFails /\ ~Restart
  <2>1. \A m \in Mutations : promise'[m] = "value" => promise[m] = "value"
    BY <1>17, ResolveIs, Zenon DEF WriteFails, AofTypes
  <2> QED
    BY <1>8, <1>9, <1>10, <1>17, <2>1, Zenon DEF WriteFails
<1>18. CASE (EnterFailure \/ EndIteration) /\ ~Restart
  <2>1. SetFailure \/ promise' = promise
    BY <1>18, Zenon DEF EnterFailure, EndIteration
  <2>2. \A m \in Mutations : promise'[m] = "value" => promise[m] = "value"
    BY <2>1, SetFailureIs, Zenon
  <2>3. acked' = acked /\ mode' = mode /\ mutation' = mutation /\ pc' = pc
    BY <1>18, Zenon DEF EnterFailure, EndIteration
  <2> QED
    BY <1>8, <1>9, <1>10, <1>18, <2>2, <2>3, Zenon
<1>19. CASE (UNCHANGED vars \/ Elapse \/ TakeRecord \/ TimeOut \/ Write \/ Stop \/ Leave) /\ ~Restart
  <2>1. acked' = acked /\ promise' = promise /\ mutation' = mutation /\ pc' = pc
    BY <1>19, Zenon DEF vars, Elapse, TakeRecord, TimeOut, Write, Stop, Leave
  <2>2. mode' # "down" => mode # "down"
    BY <1>19, Zenon DEF vars, Elapse, TakeRecord, TimeOut, Write, Stop, Leave
  <2> QED
    BY <1>8, <1>9, <1>10, <1>19, <2>1, <2>2, SMTT(30)
<1>20. CASE Crash /\ ~Restart
  <2>1. Working
    BY <1>20, Zenon DEF Crash, Working
  <2> QED
    BY <1>8, <1>9, <1>20, <2>1, Zenon DEF Crash
<1>21. CASE Restart
  <2>1. acked' = acked /\ mode' = "up"
    BY <1>21, Zenon DEF Restart
  <2>2. /\ OnlyTailTorn /\ file' = Intact /\ applied' = [i \in DOMAIN Intact |-> Intact[i].id]
        /\ synced' = IF synced < Len(Intact) THEN synced ELSE Len(Intact)
    BY <1>21, Zenon DEF Restart, OnlyTailTorn, Truncated
  <2>3. Intact \in Seq(Records) /\ Len(Intact) \in Nat /\ synced \in Nat
    BY <2>2, IntactIs DEF AofTypes
  <2>4. ASSUME NEW m \in Mutations, Stored(m)' PROVE InDatabase(m)'
    <3>1. PICK i \in 1..synced' : Intact[i] = Whole(m)
      BY <2>2, <2>4, Zenon DEF Stored, Whole
    <3>2. i \in DOMAIN Intact
      BY <2>2, <2>3
    <3>3. applied'[i] = m /\ i \in DOMAIN applied'
      BY <2>2, <3>1, <3>2 DEF Whole
    <3> QED
      BY <3>3, Zenon DEF InDatabase
  <2>5. Acked
    BY <1>3, <1>4, <1>5, <2>1, <2>4, Zenon DEF Acked
  <2>6. Kept /\ Working
    BY <1>21, Zenon DEF Restart, Kept, Working
  <2> QED
    BY <2>5, <2>6, Zenon
<1> QED
  BY <1>11, <1>12, <1>13, <1>14, <1>15, <1>16, <1>17, <1>18, <1>19, <1>20, <1>21, Zenon
     DEF Next, WorkerStep, WriterStep, Terminated

(* With appendfsync always, every mutation that was answered with success  *)
(* is in the database of every later process, whatever the number of       *)
(* workers, of crashes of the process or the machine and of failed writes. *)
THEOREM AckedSurvivesAlways == Spec => []AckedSurvives
<1> DEFINE IInv == AofTypes /\ TailInv /\ OutOfWork /\ SyncingLast /\ DurableInv
<1>1. Init => IInv
  <2>1. Init => TailInv /\ OutOfWork /\ SyncingLast
    BY DEF Init, TailInv, OutOfWork, SyncingLast
  <2>2. Init => DurableInv
    BY Zenon DEF Init, DurableInv
  <2> QED
    BY <2>1, <2>2, TypesInit, Zenon
<1>2. IInv /\ [Next]_vars => IInv'
  BY TypesStep, TailStep, OutOfWorkStep, SyncingStep, DurableStep, SMTT(30)
<1>3. IInv => AckedSurvives
  BY Zenon DEF DurableInv, AckedSurvives, InDatabase
<1> QED
  BY <1>1, <1>2, <1>3, PTL DEF Spec


----------------------------------------------------------------------------
(***************************************************************************)
(* The order of one client.  A mutation is acknowledged only after it has  *)
(* been queued, so one that is still on its way to the queue precedes no   *)
(* other; the writer takes and writes in the order of the queue.           *)
(***************************************************************************)
OwnMutation ==
    /\ acked \subseteq 1..requested
    /\ \A m \in Mutations : prior[m] \subseteq acked
    /\ \A w \in Workers : pc[w] # "idle" => mutation[w] \in 1..requested
    /\ \A w \in Workers : pc[w] \in {"guarded", "appending"} => mutation[w] \notin acked
    /\ \A v, w \in Workers : v # w /\ pc[v] # "idle" /\ pc[w] # "idle" => mutation[v] # mutation[w]

(* Everything on its way to the disk has been requested. *)
Requested ==
    /\ \A i \in 1..Len(file) : file[i].id \in 1..requested
    /\ \A i \in 1..Len(queue_) : queue_[i] \in 1..requested
    /\ at = "writing" => record \in 1..requested

(* What is in the file, then the record being written, then the queue: no  *)
(* mutation is ahead of one that was acknowledged before it was requested. *)
WriteOrder ==
    /\ AckedOrderKept
    /\ \A i \in 1..Len(queue_), j \in 1..Len(file) : queue_[i] \notin prior[file[j].id]
    /\ \A i, j \in 1..Len(queue_) : queue_[i] \in prior[queue_[j]] => i < j
    /\ at = "writing" =>
          /\ record \notin prior[record]
          /\ \A j \in 1..Len(file) : record \notin prior[file[j].id]
          /\ \A i \in 1..Len(queue_) : queue_[i] \notin prior[record]

LEMMA OwnStep ==
    ASSUME AofTypes, OwnMutation, [Next]_vars
    PROVE  OwnMutation'
<1> USE DEF workerVars, writerVars, fileVars, bounds
<1>0. /\ requested \in Nat /\ acked \subseteq Mutations /\ pc \in [Workers -> Places]
      /\ mutation \in [Workers -> 0..MaxMutations] /\ prior \in [Mutations -> SUBSET Mutations]
      /\ Mutations = 1..MaxMutations /\ MaxMutations \in Nat
  BY AofAssumption DEF AofTypes, Mutations
<1>1. ASSUME UNCHANGED <<requested, acked, prior, mutation>>,
             \A w \in Workers : pc'[w] # "idle" => pc[w] # "idle",
             \A w \in Workers : pc'[w] \in {"guarded", "appending"} => pc[w] \in {"guarded", "appending"}
      PROVE  OwnMutation'
  BY <1>1, Zenon DEF OwnMutation
<1>2. ASSUME NEW w \in Workers, Guard(w) PROVE OwnMutation'
  <2>1. requested' = requested + 1 /\ acked' = acked /\ requested + 1 \in Mutations
    BY <1>0, <1>2 DEF Guard
  <2>2. 1..requested \subseteq 1..requested' /\ requested + 1 \notin 1..requested /\ requested + 1 \in 1..requested'
    BY <1>0, <2>1
  <2>3. \A m \in Mutations : prior'[m] \subseteq acked
    BY <1>0, <1>2, <2>1, Zenon DEF Guard, OwnMutation
  <2>4. CASE UNCHANGED <<pc, mutation>>
    BY <2>1, <2>2, <2>3, <2>4, Zenon DEF OwnMutation
  <2>5. CASE Moves(w, "guarded") /\ mutation' = [mutation EXCEPT ![w] = requested + 1]
    <3>1. \A v \in Workers : v # w => pc'[v] = pc[v] /\ mutation'[v] = mutation[v]
      BY <1>0, <2>5, Zenon DEF Moves
    <3>2. mutation'[w] = requested + 1
      BY <1>0, <2>5, Zenon
    <3>3. requested + 1 \notin acked /\ \A v \in Workers : pc[v] # "idle" => mutation[v] # requested + 1
      BY <2>2, Zenon DEF OwnMutation
    <3> QED
      BY <2>1, <2>2, <2>3, <3>1, <3>2, <3>3 DEF OwnMutation
  <2> QED
    BY <1>2, <2>4, <2>5, Zenon DEF Guard
<1>3. ASSUME NEW w \in Workers, Handle(w) PROVE OwnMutation'
  <2>1. \A v \in Workers : v # w => pc'[v] = pc[v]
    BY <1>0, <1>3, Zenon DEF Handle, Moves
  <2>2. UNCHANGED <<requested, acked, prior, mutation>> /\ pc[w] = "guarded"
    BY <1>3, Zenon DEF Handle
  <2> QED
    BY <1>1, <2>1, <2>2, Zenon
<1>4. ASSUME NEW w \in Workers, AppendRecord(w) \/ Durable(w) PROVE OwnMutation'
  <2>1. \A v \in Workers : v # w => pc'[v] = pc[v]
    BY <1>0, <1>4, Zenon DEF AppendRecord, Durable, Moves
  <2>2. UNCHANGED <<requested, prior, mutation>> /\ pc[w] # "idle"
    BY <1>4, Zenon DEF AppendRecord, Durable
  <2>3. acked' \subseteq acked \cup {mutation[w]} /\ acked \subseteq acked'
    BY <1>4, Zenon DEF AppendRecord, Durable
  <2>4. pc'[w] \notin {"guarded", "appending"}
    BY <1>0, <1>4, Zenon DEF AppendRecord, Durable, Moves
  <2>5. \A v \in Workers : pc'[v] # "idle" => pc[v] # "idle"
    BY <2>1, <2>2, Zenon
  <2>6. \A v \in Workers : pc'[v] \in {"guarded", "appending"} => mutation[v] \notin acked'
    BY <2>1, <2>2, <2>3, <2>4, Zenon DEF OwnMutation
  <2>7. \A m \in Mutations : prior[m] \subseteq acked'
    BY <2>3, Zenon DEF OwnMutation
  <2>8. acked' \subseteq 1..requested
    BY <2>2, <2>3, Zenon DEF OwnMutation
  <2> QED
    BY <2>2, <2>5, <2>6, <2>7, <2>8, Zenon DEF OwnMutation
<1>5. CASE UNCHANGED vars \/ WriterStep \/ Elapse \/ Stop
  <2>1. UNCHANGED <<requested, acked, prior, mutation, pc>>
    BY <1>5, Zenon
       DEF vars, WriterStep, TakeRecord, TimeOut, Write, SyncRecord, WriteFails, EnterFailure,
                EndIteration, Leave, Elapse, Stop
  <2> QED
    BY <1>1, <2>1, Zenon
<1>6. CASE Crash \/ Restart
  <2>1. UNCHANGED <<requested, acked, prior>> /\ \A w \in Workers : pc'[w] = "idle"
    BY <1>6, Zenon DEF Crash, Restart
  <2> QED
    BY <2>1, Zenon DEF OwnMutation
<1> QED
  BY <1>2, <1>3, <1>4, <1>5, <1>6, Zenon DEF Next, WorkerStep, Terminated

LEMMA OrderStep ==
    ASSUME AofTypes, TailInv, OwnMutation, Requested, WriteOrder, [Next]_vars
    PROVE  Requested' /\ WriteOrder'
<1> USE DEF workerVars, writerVars, fileVars, bounds
<1>0. /\ file \in Seq(Records) /\ Len(file) \in Nat /\ DOMAIN file = 1..Len(file)
      /\ queue_ \in Seq(Mutations) /\ Len(queue_) \in Nat /\ requested \in Nat
      /\ prior \in [Mutations -> SUBSET Mutations]
  BY DEF AofTypes
<1>1. ASSUME UNCHANGED <<requested, prior, file>>,
             queue_' = queue_ \/ queue_' = <<>>,
             at' # "writing" \/ UNCHANGED <<at, record>>
      PROVE  Requested' /\ WriteOrder'
  <2>1. CASE queue_' = queue_
    BY <1>1, <2>1, Zenon DEF Requested, WriteOrder, AckedOrderKept
  <2>2. CASE queue_' = <<>>
    <3>1. \A i : i \notin 1..Len(queue_')
      BY <2>2
    <3> QED
      BY <1>1, <3>1, Zenon DEF Requested, WriteOrder, AckedOrderKept
  <2> QED
    BY <1>1, <2>1, <2>2, Zenon
<1>2. ASSUME NEW w \in Workers, Guard(w) PROVE Requested' /\ WriteOrder'
  <2>1. UNCHANGED <<file, queue_, at, record>> /\ requested' = requested + 1
    BY <1>2, Zenon DEF Guard
  <2>2. \A m \in 1..requested : m \in 1..requested' /\ prior'[m] = prior[m]
    <3>1. \A m \in 1..requested : m \in 1..requested' /\ m \in Mutations /\ m # requested + 1
      BY <1>0, <2>1, AofAssumption DEF AofTypes, Mutations
    <3> QED
      BY <1>0, <1>2, <3>1, Zenon DEF Guard
  <2>3. Requested'
    BY <2>1, <2>2, Zenon DEF Requested
  <2>4. AckedOrderKept'
    BY <1>0, <2>1, <2>2, Zenon DEF Requested, WriteOrder, AckedOrderKept
  <2> QED
    BY <2>1, <2>2, <2>3, <2>4, Zenon DEF Requested, WriteOrder
<1>3. ASSUME NEW w \in Workers, Handle(w) \/ Durable(w) PROVE Requested' /\ WriteOrder'
  BY <1>1, <1>3, Zenon DEF Handle, Durable
<1>4. ASSUME NEW w \in Workers, AppendRecord(w) PROVE Requested' /\ WriteOrder'
  <2>1. UNCHANGED <<requested, prior, file, at, record>>
    BY <1>4, Zenon DEF AppendRecord
  <2> DEFINE m == mutation[w]
  <2>2. m \in Mutations /\ m \in 1..requested /\ m \notin acked
    BY <1>4, Zenon DEF AppendRecord, OwnMutation, AofTypes
  <2>3. \A x \in Mutations : m \notin prior[x]
    BY <2>2, Zenon DEF OwnMutation
  <2>4. CASE queue_' = queue_
    BY <1>1, <2>1, <2>4, Zenon
  <2>5. CASE queue_' = Append(queue_, m)
    <3> HIDE DEF m
    <3>1. /\ Len(queue_') = Len(queue_) + 1 /\ queue_'[Len(queue_) + 1] = m
          /\ \A i \in 1..Len(queue_) : queue_'[i] = queue_[i]
      BY <1>0, <2>2, <2>5, AppendIs
    <3>2. \A i \in 1..Len(queue_') : i \in 1..Len(queue_) \/ i = Len(queue_) + 1
      BY <1>0, <3>1
    <3>3. \A i \in 1..Len(queue_') : i \in 1..Len(queue_) \/ queue_'[i] = m
      BY <3>1, <3>2, Zenon
    <3>4. (\A j \in 1..Len(file) : file[j].id \in Mutations) /\ (at = "writing" => record \in Mutations)
      <4>1. \A j \in 1..Len(file) : file[j] \in Records
        BY <1>0, ElementOfSeq, Zenon
      <4> QED
        BY <4>1, Zenon DEF Records, AofTypes
    <3>5. \A i \in 1..Len(queue_) : queue_[i] \in Mutations
      BY <1>0, ElementOfSeq, Zenon
    <3>6. Requested'
      BY <2>1, <2>2, <3>1, <3>3, Zenon DEF Requested
    <3>7. AckedOrderKept'
      BY <2>1, Zenon DEF WriteOrder, AckedOrderKept
    <3>8. \A i \in 1..Len(queue_'), j \in 1..Len(file) : queue_'[i] \notin prior[file[j].id]
      BY <2>3, <3>1, <3>3, <3>4, Zenon DEF WriteOrder
    <3>9. ASSUME NEW i \in 1..Len(queue_'), NEW j \in 1..Len(queue_'), queue_'[i] \in prior[queue_'[j]]
          PROVE  i < j
      <4>1. queue_'[j] \in Mutations
        BY <2>2, <3>1, <3>3, <3>5, Zenon
      <4>2. i \in 1..Len(queue_)
        BY <2>3, <3>3, <3>9, <4>1, Zenon
      <4>3. CASE j \in 1..Len(queue_)
        BY <3>1, <3>9, <4>2, <4>3, Zenon DEF WriteOrder
      <4>4. CASE j = Len(queue_) + 1
        BY <1>0, <4>2, <4>4
      <4> QED
        BY <3>2, <4>3, <4>4, Zenon
    <3>10. at = "writing" => \A i \in 1..Len(queue_') : queue_'[i] \notin prior[record]
      BY <2>3, <3>1, <3>3, <3>4, Zenon DEF WriteOrder
    <3> QED
      BY <2>1, <3>6, <3>7, <3>8, <3>9, <3>10, Zenon DEF WriteOrder
  <2> QED
    BY <1>4, <2>4, <2>5, Zenon DEF AppendRecord
<1>5. CASE TakeRecord
  <2>1. /\ UNCHANGED <<requested, prior, file>> /\ record' = Head(queue_) /\ queue_' = Tail(queue_)
        /\ queue_ # <<>>
    BY <1>5, Zenon DEF TakeRecord, Pop
  <2>2. /\ 1 \in 1..Len(queue_) /\ record' = queue_[1] /\ Len(queue_') = Len(queue_) - 1
        /\ \A i \in 1..Len(queue_') : i + 1 \in 1..Len(queue_) /\ queue_'[i] = queue_[i + 1]
    BY <1>0, <2>1
  <2>3. Requested'
    BY <2>1, <2>2, Zenon DEF Requested
  <2>4. AckedOrderKept'
    BY <2>1, Zenon DEF WriteOrder, AckedOrderKept
  <2>5. \A i \in 1..Len(queue_'), j \in 1..Len(file) : queue_'[i] \notin prior[file[j].id]
    BY <2>2, Zenon DEF WriteOrder
  <2>6. \A i, j \in 1..Len(queue_') : queue_'[i] \in prior[queue_'[j]] => i < j
    <3>1. \A i, j \in 1..Len(queue_') : queue_'[i] \in prior[queue_'[j]] => i + 1 < j + 1
      BY <2>2, Zenon DEF WriteOrder
    <3>2. \A i, j \in 1..Len(queue_') : i + 1 < j + 1 => i < j
      <4>1. Len(queue_') \in Int
        BY <1>0, <2>2
      <4> HIDE DEF workerVars, writerVars, fileVars, bounds
      <4> QED
        BY <4>1
    <3> QED
      BY <3>1, <3>2, Zenon
  <2>7. record' \notin prior[record']
    BY <2>2 DEF WriteOrder
  <2>8. \A j \in 1..Len(file) : record' \notin prior[file[j].id]
    BY <2>2, Zenon DEF WriteOrder
  <2>9. \A i \in 1..Len(queue_') : queue_'[i] \notin prior[record']
    <3>1. \A i \in 1..Len(queue_') : queue_'[i] \in prior[record'] => i + 1 < 1
      BY <2>2, Zenon DEF WriteOrder
    <3> QED
      BY <1>0, <2>2, <3>1
  <2> QED
    BY <2>1, <2>3, <2>4, <2>5, <2>6, <2>7, <2>8, <2>9, Zenon DEF WriteOrder
<1>6. ASSUME UNCHANGED <<requested, prior, queue_>>, at' # "writing",
             file' \in Seq(Records),
             \A i \in 1..Len(file') : i \in 1..Len(file) \/ (i = Len(file) + 1 /\ at = "writing"),
             \A i \in 1..Len(file') : file'[i].id = IF i \in 1..Len(file) THEN file[i].id ELSE record
      PROVE  Requested' /\ WriteOrder'
  <2>1. Requested'
    BY <1>6, Zenon DEF Requested
  <2>2. \A i \in 1..Len(queue_), j \in 1..Len(file') : queue_[i] \notin prior[file'[j].id]
    BY <1>6, Zenon DEF WriteOrder
  <2>3. ASSUME NEW i \in 1..Len(file'), NEW j \in 1..Len(file'), file'[i].id \in prior[file'[j].id]
        PROVE  i < j
    <3>1. CASE i \in 1..Len(file) /\ j \in 1..Len(file)
      BY <1>0, <1>6, <2>3, <3>1, Zenon DEF WriteOrder, AckedOrderKept
    <3>2. CASE i \in 1..Len(file) /\ j = Len(file) + 1
      BY <1>0, <3>2
    <3>3. CASE i = Len(file) + 1 /\ i \notin 1..Len(file) /\ at = "writing"
      BY <1>6, <2>3, <3>3, Zenon DEF WriteOrder
    <3> QED
      BY <1>6, <3>1, <3>2, <3>3, Zenon
  <2>4. DOMAIN file' = 1..Len(file')
    BY <1>6
  <2>5. AckedOrderKept'
    BY <1>6, <2>3, <2>4, Zenon DEF AckedOrderKept
  <2> QED
    BY <1>6, <2>1, <2>2, <2>5, Zenon DEF WriteOrder
<1>7. ASSUME NEW x \in Records, x.id = record, file' = Append(file, x), at = "writing", at' # "writing",
             UNCHANGED <<requested, prior, queue_>>
      PROVE  Requested' /\ WriteOrder'
  <2>1. /\ file' \in Seq(Records) /\ Len(file') = Len(file) + 1 /\ file'[Len(file) + 1] = x
        /\ \A i \in 1..Len(file) : file'[i] = file[i]
    BY <1>0, <1>7, AppendIs
  <2>2. \A i \in 1..Len(file') : i \in 1..Len(file) \/ (i = Len(file) + 1 /\ i \notin 1..Len(file))
    BY <1>0, <2>1
  <2>3. \A i \in 1..Len(file') : file'[i].id = IF i \in 1..Len(file) THEN file[i].id ELSE record
    BY <1>7, <2>1, <2>2, Zenon
  <2> QED
    BY <1>6, <1>7, <2>1, <2>2, <2>3, Zenon
<1>8. CASE Write
  <2>1. Whole(record) \in Records /\ Whole(record).id = record
    BY <1>8, WholeIs, Zenon DEF Write, AofTypes
  <2> QED
    BY <1>7, <1>8, <2>1, Zenon DEF Write
<1>9. CASE WriteFails
  <2>1. Torn(record) \in Records /\ Torn(record).id = record
    BY <1>9, TornIs, Zenon DEF WriteFails, AofTypes
  <2> QED
    BY <1>1, <1>7, <1>9, <2>1, Zenon DEF WriteFails
<1>10. CASE UNCHANGED vars \/ TimeOut \/ SyncRecord \/ Leave \/ Elapse \/ Stop
  BY <1>1, <1>10, Zenon DEF vars, TimeOut, SyncRecord, Leave, Elapse, Stop
<1>11. CASE EnterFailure \/ EndIteration
  <2>1. queue_' = queue_ \/ queue_' = <<>>
    BY <1>11, Zenon DEF EnterFailure, EndIteration, SetFailure
  <2> QED
    BY <1>1, <1>11, <2>1, Zenon DEF EnterFailure, EndIteration
<1>12. CASE Crash
  <2>1. Left(file') /\ UNCHANGED <<requested, prior, queue_>> /\ at' = "crashed"
    BY <1>12, WrittenIs, RemainsIs, Zenon DEF Crash
  <2>2. /\ file' \in Seq(Records) /\ Len(file') \in Nat
        /\ \A i \in 1..Len(file') : file'[i].id = IF i <= Len(file) THEN file[i].id ELSE record
        /\ \A i \in 1..Len(file') : i > Len(file) => i = Len(file) + 1 /\ at = "writing"
    <3>1. /\ file' \in Seq(Records)
          /\ \A i \in 1..Len(file') : file'[i].id = IF i <= Len(file) THEN file[i].id ELSE record
          /\ \A i \in 1..Len(file') : i > Len(file) => i = Len(file) + 1 /\ at = "writing"
      BY <2>1, Zenon DEF Left
    <3>2. Len(file') \in Nat
      BY <3>1
    <3> QED
      BY <3>1, <3>2, Zenon
  <2>3. \A i \in 1..Len(file') : i <= Len(file) <=> i \in 1..Len(file)
    BY <1>0, <2>2
  <2>4. \A i \in 1..Len(file') : i \in 1..Len(file) \/ (i = Len(file) + 1 /\ at = "writing")
    BY <1>0, <2>2
  <2> QED
    BY <1>6, <2>1, <2>2, <2>3, <2>4, Zenon
<1>13. CASE Restart
  <2>1. /\ OnlyTailTorn /\ file' = Intact /\ queue_' = <<>> /\ at' = "waiting"
        /\ UNCHANGED <<requested, prior>>
    BY <1>13, Zenon DEF Restart, OnlyTailTorn, Truncated
  <2>2. /\ Intact \in Seq(Records) /\ DOMAIN Intact = 1..Len(Intact)
        /\ \A i \in 1..Len(Intact) : i \in 1..Len(file) /\ Intact[i] = file[i]
    BY <1>0, <2>1, IntactIs
  <2> QED
    BY <1>0, <2>1, <2>2 DEF Requested, WriteOrder, AckedOrderKept
<1> QED
  BY <1>2, <1>3, <1>4, <1>5, <1>8, <1>9, <1>10, <1>11, <1>12, <1>13, Zenon
     DEF Next, WorkerStep, WriterStep, Terminated

(* Of two mutations that a client did one after the other the log holds    *)
(* the earlier one first, for any number of workers, crashes and failed    *)
(* writes: replay applies them in the client's order.                      *)
THEOREM AckedOrderAlways == Spec => []AckedOrderKept
<1> DEFINE IInv == AofTypes /\ TailInv /\ OwnMutation /\ Requested /\ WriteOrder
<1>1. Init => IInv
  <2>1. Init => TailInv /\ OwnMutation
    BY DEF Init, TailInv, OwnMutation
  <2>2. Init => Requested /\ WriteOrder
    BY DEF Init, Requested, WriteOrder, AckedOrderKept
  <2> QED
    BY <2>1, <2>2, TypesInit, Zenon
<1>2. IInv /\ [Next]_vars => IInv'
  BY TypesStep, TailStep, OwnStep, OrderStep, Zenon
<1>3. IInv => AckedOrderKept
  BY Zenon DEF WriteOrder
<1> QED
  BY <1>1, <1>2, <1>3, PTL DEF Spec

----------------------------------------------------------------------------
(***************************************************************************)
(* A stop.  Until a failure, every mutation of the database is in the file *)
(* or on its way there, and nothing else is.                               *)
(***************************************************************************)
InFile(m) == \E i \in 1..Len(file) : file[i].whole /\ file[i].id = m
InQueue(m) == \E i \in 1..Len(queue_) : queue_[i] = m
InHand(m) == at = "writing" /\ record = m
Appending(m) == \E w \in Workers : pc[w] = "appending" /\ mutation[w] = m
OnTheWay(m) == InFile(m) \/ InQueue(m) \/ InHand(m) \/ Appending(m)

NothingLost ==
    ~failure_ /\ at \notin {"failing", "crashed"} =>
        \A m \in Mutations : InDatabase(m) <=> OnTheWay(m)

LeftDone == at = "left" => mode = "down" /\ queue_ = <<>>

(* dirty says whether there is anything to sync. *)
DirtyTells ==
    /\ faults = 0 /\ record # 0 /\ ~dirty => at \in {"writing", "crashed"} \/ synced = Len(file)
    /\ at = "left" /\ policy_ # "no" /\ faults = 0 /\ record # 0 /\ ~failure_ => synced = Len(file)

LEMMA LeftStep ==
    ASSUME AofTypes, OutOfWork, LeftDone, [Next]_vars
    PROVE  LeftDone'
<1> USE DEF workerVars, writerVars, fileVars, bounds
<1>1. CASE UNCHANGED <<at, mode, queue_>>
  BY <1>1, Zenon DEF LeftDone
<1>2. CASE at' # "left"
  BY <1>2, Zenon DEF LeftDone
<1>3. CASE Leave
  BY <1>3, Zenon DEF Leave, MayLeave, LeftDone
<1>4. ASSUME NEW w \in Workers, AppendRecord(w) PROVE LeftDone'
  <2>1. mode = "up" /\ at' = at
    BY <1>4, Zenon DEF AppendRecord, OutOfWork
  <2> QED
    BY <2>1, Zenon DEF LeftDone
<1>5. ASSUME NEW w \in Workers, Guard(w) \/ Handle(w) \/ Durable(w) PROVE LeftDone'
  BY <1>1, <1>5, Zenon DEF Guard, Handle, Durable
<1>6. CASE UNCHANGED vars \/ Elapse
  BY <1>1, <1>6, Zenon DEF vars, Elapse
<1>7. CASE Stop
  BY <1>7, Zenon DEF Stop, LeftDone
<1>8. CASE \/ TakeRecord \/ TimeOut \/ Write \/ SyncRecord \/ WriteFails \/ EnterFailure \/ EndIteration
           \/ Crash \/ Restart
  BY <1>2, <1>8, Zenon
     DEF TakeRecord, TimeOut, Write, SyncRecord, WriteFails, EnterFailure, EndIteration, Crash,
                    Restart
<1> QED
  BY <1>3, <1>4, <1>5, <1>6, <1>7, <1>8, Zenon DEF Next, WorkerStep, WriterStep, Terminated

LEMMA DirtyStep ==
    ASSUME AofTypes, DirtyTells, [Next]_vars
    PROVE  DirtyTells'
<1> USE DEF workerVars, writerVars, fileVars, bounds
<1>0. faults \in Nat /\ dirty \in BOOLEAN
  BY Zenon DEF AofTypes
<1>1. CASE UNCHANGED <<at, policy_, record, faults, failure_, dirty, file, synced>>
  BY <1>1, Zenon DEF DirtyTells
<1>2. ASSUME at' # "left", faults' # 0 \/ record' = 0 \/ dirty' \/ at' \in {"writing", "crashed"} \/ synced' = Len(file')
      PROVE  DirtyTells'
  BY <1>2, Zenon DEF DirtyTells
<1>3. CASE UNCHANGED vars \/ Elapse \/ Stop \/ \E w \in Workers : Guard(w) \/ WorkerStep(w)
  BY <1>1, <1>3, Zenon DEF vars, Elapse, Stop, Guard, WorkerStep, Handle, AppendRecord, Durable
<1>4. CASE TimeOut \/ EnterFailure
  <2>1. UNCHANGED <<record, faults, dirty, file, synced>> /\ at' = "checking" /\ at \in {"waiting", "failing"}
    BY <1>4, Zenon DEF TimeOut, EnterFailure
  <2> QED
    BY <1>2, <2>1, Zenon DEF DirtyTells
<1>5. CASE TakeRecord \/ Crash \/ Restart
  BY <1>2, <1>5, Zenon DEF TakeRecord, Crash, Restart
<1>6. CASE Write
  <2>1. dirty' /\ at' # "left"
    BY <1>6, Zenon DEF Write
  <2> QED
    BY <1>2, <2>1, Zenon
<1>7. CASE SyncRecord
  BY <1>2, <1>7, Zenon DEF SyncRecord
<1>8. CASE WriteFails
  BY <1>0, <1>2, <1>8 DEF WriteFails
<1>9. CASE EndIteration
  <2>1. at = "checking" /\ at' = "waiting" /\ UNCHANGED <<record, file>>
    BY <1>9, Zenon DEF EndIteration
  <2>2. CASE UNCHANGED <<dirty, synced, faults>>
    BY <1>2, <2>1, <2>2, Zenon DEF DirtyTells
  <2>3. CASE synced' = Len(file)
    BY <1>2, <2>1, <2>3, Zenon
  <2>4. CASE faults' = faults + 1
    BY <1>0, <1>2, <2>1, <2>4
  <2> QED
    BY <1>9, <2>2, <2>3, <2>4, Zenon DEF EndIteration
<1>10. CASE Leave
  <2>1. at = "waiting" /\ at' = "left" /\ UNCHANGED <<policy_, record, file, failure_, dirty>>
    BY <1>10, Zenon DEF Leave
  <2>2. CASE ~(dirty /\ policy_ # "no") /\ UNCHANGED <<synced, faults>>
    BY <2>1, <2>2, Zenon DEF DirtyTells
  <2>3. CASE dirty /\ policy_ # "no" /\ synced' = Len(file)
    BY <2>1, <2>3, Zenon DEF DirtyTells
  <2>4. CASE dirty /\ policy_ # "no" /\ (failure_ \/ faults' = faults + 1)
    <3>1. failure_' \/ faults' # 0
      BY <1>0, <2>1, <2>4
    <3> QED
      BY <2>1, <2>4, <3>1, Zenon DEF DirtyTells
  <2> QED
    BY <1>10, <2>2, <2>3, <2>4, Zenon DEF Leave
<1> QED
  BY <1>3, <1>4, <1>5, <1>6, <1>7, <1>8, <1>9, <1>10, Zenon DEF Next, WriterStep, Terminated

LEMMA LostStep ==
    ASSUME AofTypes, NothingLost, [Next]_vars
    PROVE  NothingLost'
<1> USE DEF workerVars, writerVars, fileVars, bounds
<1>0. /\ file \in Seq(Records) /\ Len(file) \in Nat /\ queue_ \in Seq(Mutations) /\ Len(queue_) \in Nat
      /\ applied \in Seq(Mutations) /\ pc \in [Workers -> Places] /\ mutation \in [Workers -> 0..MaxMutations]
  BY DEF AofTypes
<1>1. ASSUME NEW m \in Mutations, applied' = applied
      PROVE  InDatabase(m)' <=> InDatabase(m)
  BY <1>1, Zenon DEF InDatabase
<1>2. ASSUME NEW m \in Mutations, file' = file
      PROVE  InFile(m)' <=> InFile(m)
  BY <1>2, Zenon DEF InFile
<1>3. ASSUME NEW m \in Mutations, queue_' = queue_
      PROVE  InQueue(m)' <=> InQueue(m)
  BY <1>3, Zenon DEF InQueue
<1>4. ASSUME NEW m \in Mutations, pc' = pc, mutation' = mutation
      PROVE  Appending(m)' <=> Appending(m)
  BY <1>4, Zenon DEF Appending
<1>5. ASSUME UNCHANGED <<failure_, applied, file, queue_>>,
             UNCHANGED <<at, record>> \/ (at \notin {"writing", "failing", "crashed"} /\ at' # "writing"),
             \A m \in Mutations : Appending(m)' <=> Appending(m)
      PROVE  NothingLost'
  BY <1>1, <1>2, <1>3, <1>5, Zenon DEF NothingLost, OnTheWay, InHand
<1>6. CASE failure_' \/ at' \in {"failing", "crashed"}
  BY <1>6, Zenon DEF NothingLost
<1>7. CASE UNCHANGED vars \/ TimeOut \/ SyncRecord \/ Leave \/ Elapse \/ Stop
  <2>1. /\ UNCHANGED <<failure_, applied, file, queue_, pc, mutation>>
        /\ UNCHANGED <<at, record>> \/ (at \notin {"writing", "failing", "crashed"} /\ at' # "writing")
    BY <1>7, Zenon DEF vars, TimeOut, SyncRecord, Leave, Elapse, Stop
  <2> QED
    BY <1>4, <1>5, <2>1, Zenon
<1>8. ASSUME NEW w \in Workers, Guard(w) \/ Durable(w) PROVE NothingLost'
  <2>1. UNCHANGED <<failure_, applied, file, queue_, at, record>>
    BY <1>8, Zenon DEF Guard, Durable
  <2>2. pc[w] # "appending" /\ pc'[w] # "appending"
    BY <1>0, <1>8, Zenon DEF Guard, Durable, Moves
  <2>3. \A v \in Workers : v # w => pc'[v] = pc[v] /\ mutation'[v] = mutation[v]
    BY <1>0, <1>8, Zenon DEF Guard, Durable, Moves
  <2>4. \A m \in Mutations : Appending(m)' <=> Appending(m)
    BY <2>2, <2>3, Zenon DEF Appending
  <2> QED
    BY <1>5, <2>1, <2>4, Zenon
<1>9. ASSUME NEW w \in Workers, Handle(w) PROVE NothingLost'
  <2>1. UNCHANGED <<failure_, file, queue_, at, record, mutation>> /\ pc[w] = "guarded"
    BY <1>9, Zenon DEF Handle
  <2>2. \A v \in Workers : v # w => pc'[v] = pc[v]
    BY <1>0, <1>9, Zenon DEF Handle, Moves
  <2>3. CASE applied' = applied /\ Moves(w, "idle")
    <3>1. pc'[w] = "idle"
      BY <1>0, <2>3, Zenon DEF Moves
    <3>2. \A m \in Mutations : Appending(m)' <=> Appending(m)
      BY <2>1, <2>2, <3>1, Zenon DEF Appending
    <3> QED
      BY <1>5, <2>1, <2>3, <3>2, Zenon
  <2>4. CASE applied' = Append(applied, mutation[w]) /\ Moves(w, "appending")
    <3>1. pc'[w] = "appending" /\ mutation[w] \in Mutations
      BY <1>0, <2>1, <2>4, Zenon DEF Moves, AofTypes
    <3>2. \A m \in Mutations : Appending(m)' <=> Appending(m) \/ m = mutation[w]
      BY <2>1, <2>2, <3>1, Zenon DEF Appending
    <3>3. \A m \in Mutations : InDatabase(m)' <=> InDatabase(m) \/ m = mutation[w]
      <4>1. /\ DOMAIN applied = 1..Len(applied) /\ DOMAIN applied' = 1..(Len(applied) + 1)
            /\ Len(applied) \in Nat /\ applied'[Len(applied) + 1] = mutation[w]
            /\ \A i \in 1..Len(applied) : applied'[i] = applied[i]
        BY <1>0, <2>4, <3>1, AppendIs
      <4>2. /\ \A i \in DOMAIN applied' : i \in DOMAIN applied \/ i = Len(applied) + 1
            /\ \A i \in DOMAIN applied : i \in DOMAIN applied'
            /\ Len(applied) + 1 \in DOMAIN applied'
        BY <4>1
      <4> QED
        BY <4>1, <4>2, Zenon DEF InDatabase
    <3> QED
      BY <1>2, <1>3, <2>1, <3>2, <3>3, Zenon DEF NothingLost, OnTheWay, InHand
  <2> QED
    BY <1>9, <2>3, <2>4, Zenon DEF Handle
<1>10. ASSUME NEW w \in Workers, AppendRecord(w) PROVE NothingLost'
  <2>1. UNCHANGED <<failure_, applied, file, at, record, mutation>> /\ pc[w] = "appending"
    BY <1>10, Zenon DEF AppendRecord
  <2>2. CASE failure_
    BY <1>6, <2>1, <2>2, Zenon
  <2>3. CASE ~failure_
    <3>1. mutation[w] \in Mutations
      BY <2>1, Zenon DEF AofTypes
    <3>2. queue_' = Append(queue_, mutation[w])
      BY <1>10, <2>3, Zenon DEF AppendRecord
    <3>3. \A v \in Workers : v # w => pc'[v] = pc[v]
      BY <1>0, <1>10, Zenon DEF AppendRecord, Moves
    <3>4. pc'[w] # "appending"
      BY <1>0, <1>10, Zenon DEF AppendRecord, Moves
    <3>5. \A m \in Mutations : InQueue(m)' <=> InQueue(m) \/ m = mutation[w]
      BY <1>0, <3>1, <3>2, SMTT(30) DEF InQueue
    <3>6. \A m \in Mutations : Appending(m) <=> Appending(m)' \/ (m = mutation[w] /\ Appending(m))
      BY <2>1, <3>3, <3>4, Zenon DEF Appending
    <3>7. Appending(mutation[w])
      BY <2>1, Zenon DEF Appending
    <3> QED
      BY <1>1, <1>2, <2>1, <3>5, <3>6, <3>7, Zenon DEF NothingLost, OnTheWay, InHand
  <2> QED
    BY <2>2, <2>3, Zenon
<1>11. CASE TakeRecord
  <2>1. /\ UNCHANGED <<failure_, applied, file, pc, mutation>> /\ at = "waiting" /\ at' = "writing"
        /\ record' = Head(queue_) /\ queue_' = Tail(queue_) /\ queue_ # <<>>
    BY <1>11, Zenon DEF TakeRecord, Pop
  <2>2. \A m \in Mutations : InQueue(m) <=> InQueue(m)' \/ m = record'
    <3>1. /\ 1 \in 1..Len(queue_) /\ record' = queue_[1] /\ Len(queue_') = Len(queue_) - 1
          /\ \A i \in 1..Len(queue_') : i + 1 \in 1..Len(queue_) /\ queue_'[i] = queue_[i + 1]
      BY <1>0, <2>1
    <3>2. \A i \in 1..Len(queue_) : i = 1 \/ (i - 1 \in 1..Len(queue_') /\ queue_'[i - 1] = queue_[i])
      BY <1>0, <3>1
    <3> QED
      BY <3>1, <3>2, Zenon DEF InQueue
  <2> QED
    BY <1>1, <1>2, <1>4, <2>1, <2>2, Zenon DEF NothingLost, OnTheWay, InHand
<1>12. CASE Write
  <2>1. /\ UNCHANGED <<failure_, applied, queue_, pc, mutation>> /\ at = "writing" /\ at' # "writing"
        /\ file' = Append(file, Whole(record)) /\ record \in Mutations
    BY <1>12, Zenon DEF Write, AofTypes
  <2>2. Whole(record) \in Records /\ Whole(record).id = record /\ Whole(record).whole
    BY <2>1, WholeIs, Zenon
  <2>3. /\ Len(file') = Len(file) + 1 /\ file'[Len(file) + 1] = Whole(record)
        /\ \A i \in 1..Len(file) : file'[i] = file[i]
    BY <1>0, <2>1, <2>2, AppendIs
  <2>4. /\ \A i \in 1..Len(file') : i \in 1..Len(file) \/ i = Len(file) + 1
        /\ \A i \in 1..Len(file) : i \in 1..Len(file')
        /\ Len(file) + 1 \in 1..Len(file')
    BY <1>0, <2>3
  <2>5. \A m \in Mutations : InFile(m)' <=> InFile(m) \/ m = record
    BY <2>2, <2>3, <2>4, Zenon DEF InFile
  <2> QED
    BY <1>1, <1>3, <1>4, <2>1, <2>5, Zenon DEF NothingLost, OnTheWay, InHand
<1>13. CASE WriteFails \/ Crash
  BY <1>6, <1>13, Zenon DEF WriteFails, Crash
<1>14. CASE EnterFailure
  BY <1>6, <1>14, SetFailureIs, Zenon DEF EnterFailure
<1>15. CASE EndIteration
  <2>1. CASE SetFailure
    BY <1>6, <2>1, SetFailureIs, Zenon
  <2>2. CASE UNCHANGED <<failure_, queue_>>
    BY <1>4, <1>5, <1>15, <2>2, Zenon DEF EndIteration
  <2> QED
    BY <1>15, <2>1, <2>2, Zenon DEF EndIteration
<1>16. CASE Restart
  <2>1. /\ OnlyTailTorn /\ file' = Intact /\ applied' = [i \in DOMAIN Intact |-> Intact[i].id]
        /\ queue_' = <<>> /\ at' = "waiting" /\ \A w \in Workers : pc'[w] = "idle"
    BY <1>16, Zenon DEF Restart, OnlyTailTorn, Truncated
  <2>2. /\ Intact \in Seq(Records) /\ DOMAIN Intact = 1..Len(Intact)
        /\ \A i \in 1..Len(Intact) : Intact[i].whole
    BY <2>1, IntactIs
  <2>3. \A m \in Mutations : InDatabase(m)' <=> InFile(m)'
    BY <2>1, <2>2, Zenon DEF InDatabase, InFile
  <2>4. \A m \in Mutations : ~InQueue(m)' /\ ~InHand(m)' /\ ~Appending(m)'
    BY <2>1 DEF InQueue, InHand, Appending
  <2> QED
    BY <2>3, <2>4, Zenon DEF NothingLost, OnTheWay
<1> QED
  BY <1>7, <1>8, <1>9, <1>10, <1>11, <1>12, <1>13, <1>14, <1>15, <1>16, Zenon
     DEF Next, WorkerStep, WriterStep, Terminated

(* A stop without failures loses nothing: the file then holds exactly the  *)
(* mutations of the database, however many workers fed the queue, and, if  *)
(* this process wrote to it and the policy is not no, it is on the disk.   *)
THEOREM StopLosesNothingAlways == Spec => []StopLosesNothing
<1> DEFINE IInv == AofTypes /\ TailInv /\ OutOfWork /\ LeftDone /\ DirtyTells /\ NothingLost
<1>1. Init => IInv
  <2>1. Init => TailInv /\ OutOfWork /\ LeftDone /\ DirtyTells
    BY DEF Init, TailInv, OutOfWork, LeftDone, DirtyTells
  <2>2. Init => NothingLost
    BY DEF Init, NothingLost, InDatabase, OnTheWay, InFile, InQueue, InHand, Appending
  <2> QED
    BY <2>1, <2>2, TypesInit, Zenon
<1>2. IInv /\ [Next]_vars => IInv'
  BY TypesStep, TailStep, OutOfWorkStep, LeftStep, DirtyStep, LostStep, Zenon
<1>3. IInv => StopLosesNothing
  <2> SUFFICES ASSUME IInv, at = "left", ~failure_
               PROVE  /\ Logged = {applied[i] : i \in DOMAIN applied}
                      /\ policy_ # "no" /\ faults = 0 /\ record # 0 => synced = Len(file)
    BY Zenon DEF StopLosesNothing
  <2>1. policy_ # "no" /\ faults = 0 /\ record # 0 => synced = Len(file)
    BY Zenon DEF DirtyTells
  <2>2. ASSUME NEW m \in Mutations PROVE InDatabase(m) <=> InFile(m)
    <3>1. queue_ = <<>> /\ \A w \in Workers : pc[w] = "idle"
      BY Zenon DEF LeftDone, OutOfWork
    <3>2. ~InQueue(m) /\ ~InHand(m) /\ ~Appending(m)
      BY <3>1 DEF InQueue, InHand, Appending
    <3> QED
      BY <3>2, Zenon DEF NothingLost, OnTheWay
  <2>3. \A m : m \in Logged <=> m \in Mutations /\ InFile(m)
    <3>1. file \in Seq(Records) /\ DOMAIN file = 1..Len(file) /\ \A i \in 1..Len(file) : file[i].id \in Mutations
      <4>1. file \in Seq(Records) /\ DOMAIN file = 1..Len(file)
        BY DEF AofTypes
      <4>2. \A i \in 1..Len(file) : file[i] \in Records
        BY <4>1, ElementOfSeq, Zenon
      <4> QED
        BY <4>1, <4>2, Zenon DEF Records
    <3> QED
      BY <3>1, Zenon DEF Logged, InFile
  <2>4. \A m : m \in {applied[i] : i \in DOMAIN applied} <=> m \in Mutations /\ InDatabase(m)
    <3>1. \A i \in DOMAIN applied : applied[i] \in Mutations
      BY ElementOfSeq DEF AofTypes
    <3> QED
      BY <3>1, Zenon DEF InDatabase
  <2>5. Logged = {applied[i] : i \in DOMAIN applied}
    <3>1. \A m : m \in Logged <=> m \in {applied[i] : i \in DOMAIN applied}
      BY <2>2, <2>3, <2>4, Zenon
    <3> QED
      BY <3>1, Zenon
  <2> QED
    BY <2>1, <2>5, Zenon
<1> QED
  BY <1>1, <1>2, <1>3, PTL DEF Spec
=============================================================================
