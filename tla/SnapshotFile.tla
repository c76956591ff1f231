---------------------------- MODULE SnapshotFile ----------------------------
(***************************************************************************)
(* The snapshot file: Snapshot::Save at a clean stop (snapshot.cpp),       *)
(* Snapshot::Load at the next start (snapshot_impl.h, aof_impl.h), and     *)
(* what main does around them when appendonly is off.                      *)
(*                                                                         *)
(* A file has contents that processes see and, until it is synced, other   *)
(* contents that a loss of power may leave.  A directory has the states    *)
(* since its last sync, and a loss of power leaves any one of them.  An    *)
(* optional value is a sequence of at most one element.                    *)
(***************************************************************************)
EXTENDS Naturals, FiniteSets, Sequences

CONSTANTS
    Keys, Values,
    Lives,          \* remaining times to live of a key, in half milliseconds
    MaxSaves,       \* bound: saves begun
    MaxFaults,      \* bound: system calls that fail
    MaxLosses       \* bound: losses of power

ASSUME SnapshotAssumption ==
    /\ IsFiniteSet(Keys)
    /\ Lives \subseteq Nat \ {0}
    /\ {MaxSaves, MaxFaults, MaxLosses} \subseteq Nat

VARIABLES
    mode,           \* "up", "saving", "down", or "refused": recovery threw
    db,             \* the database: key -> [value, life]
    \* Snapshot::Save
    step,           \* the call it makes next
    entries,        \* its argument
    written,        \* how many entries are in the file
    \* the file system
    dirs,           \* states of the directory since its last sync
    cached,         \* file -> the contents processes see
    dirty,          \* the files not synced since they were changed
    before,         \* file -> its contents when it was last clean
    \* history
    saved,          \* what the last Save that returned would restore
    attempts,       \* the same of the saves after it that did not return
    saves, faults, losses

saveVars == <<step, entries, written>>
fileVars == <<dirs, cached, dirty, before>>
history == <<saved, attempts>>
bounds == <<saves, faults, losses>>
snapshotVars == <<mode, db, saveVars, fileVars, history, bounds>>

Files == 1..MaxSaves
NoFile == 0
Some(x) == <<x>>
None == <<>>

Entry == [value : Values, life : {None} \cup {Some(l) : l \in Lives}]
Databases == UNION {[K -> Entry] : K \in SUBSET Keys}
EmptyDb == [k \in {} |-> None]

(* The contents of a file: its whole records, and how it ends.             *)
Contents(records, end) == [records |-> records, end |-> end]
NoContents == Contents(<<>>, "clean")

SnapshotInit ==
    /\ mode = "down" /\ db = EmptyDb
    /\ step = "none" /\ entries = <<>> /\ written = 0
    /\ dirs = <<[path |-> NoFile, tmp |-> NoFile]>>
    /\ cached = [f \in Files |-> NoContents]
    /\ dirty = {}
    /\ before = [f \in Files |-> NoContents]
    /\ saved = EmptyDb /\ attempts = {}
    /\ saves = 0 /\ faults = 0 /\ losses = 0

(* The process is gone, and its memory with it. *)
Ends == mode' = "down" /\ db' = EmptyDb /\ step' = "none" /\ entries' = <<>> /\ written' = 0

----------------------------------------------------------------------------
(***************************************************************************)
(* Recovery: the records of a file are replayed as SET commands.           *)
(***************************************************************************)
(* SET refuses PX 0, and a refused command ends the start.                 *)
Accepted(records) == \A i \in DOMAIN records : records[i].px # Some(0)

Replayed(records) ==
    [k \in {records[i].key : i \in DOMAIN records} |->
        LET last == CHOOSE i \in DOMAIN records :
                       /\ records[i].key = k
                       /\ \A j \in DOMAIN records : records[j].key = k => j <= i
        IN [value |-> records[last].value,
            life |-> IF records[last].px = None THEN None ELSE Some(2 * records[last].px[1])]]

(* The database that Load builds: none when it throws.  Contents that end  *)
(* in a part of a record are read up to there; bytes that are no record    *)
(* are an error.                                                           *)
Load(contents) ==
    IF contents.end = "garbage" \/ ~Accepted(contents.records) THEN {}
    ELSE {Replayed(contents.records)}

Directory == dirs[Len(dirs)]

(* A file that is not there is recovered as an empty database. *)
At(directory, contents) ==
    IF directory.path = NoFile THEN NoContents ELSE contents[directory.path]

Start ==
    LET found == Load(At(Directory, cached)) IN
    /\ mode = "down"
    /\ mode' = IF found = {} THEN "refused" ELSE "up"
    /\ db' \in IF found = {} THEN {db} ELSE found
    /\ UNCHANGED <<saveVars, fileVars, history, bounds>>

(* All that clients do between the start and the stop. *)
Serve ==
    /\ mode = "up"
    /\ db' \in Databases
    /\ UNCHANGED <<mode, saveVars, fileVars, history, bounds>>

----------------------------------------------------------------------------
(***************************************************************************)
(* Snapshot::Save.                                                         *)
(***************************************************************************)
(* KvStore::Snapshot gives the remaining life in whole milliseconds, which *)
(* are none for a key about to expire.                                     *)
SnapshotEntry(k) ==
    [key |-> k, value |-> db[k].value,
     ttl |-> IF db[k].life = None THEN None ELSE Some(db[k].life[1] \div 2)]

(* Fault: the time to live is written as it is. *)
Milliseconds_Plain(ttl) == ttl

Milliseconds(ttl) == IF ttl = 0 THEN 1 ELSE ttl

Encoded(entry) ==
    [key |-> entry.key, value |-> entry.value,
     px |-> IF entry.ttl = None THEN None ELSE Some(Milliseconds(entry.ttl[1]))]

(* What a snapshot of d has to restore: every key with its value, and with *)
(* its life rounded down to a millisecond but never to nothing.            *)
Restorable(d) ==
    LET Rounded(life) == IF life < 2 THEN 2 ELSE 2 * (life \div 2) IN
    [k \in DOMAIN d |->
        [value |-> d[k].value,
         life |-> IF d[k].life = None THEN None ELSE Some(Rounded(d[k].life[1]))]]

(* The orders in which the hash table may give its keys, each of them once. *)
Orders(K) ==
    {order \in [1..Cardinality(K) -> K] :
        \A k \in K : \E i \in DOMAIN order : \A j \in DOMAIN order : order[j] = k <=> j = i}

(* The loop has ended and the dispatcher is stopped. *)
BeginSave ==
    /\ mode = "up" /\ saves < MaxSaves
    /\ mode' = "saving" /\ step' = "open"
    /\ \E order \in Orders(DOMAIN db) :
        entries' = [i \in 1..Cardinality(DOMAIN db) |-> SnapshotEntry(order[i])]
    /\ written' = 0
    /\ saves' = saves + 1
    /\ attempts' = attempts \cup {Restorable(db)}
    /\ UNCHANGED <<db, fileVars, saved, faults, losses>>

(* O_CREAT | O_TRUNC: a temporary file that a crash has left is emptied, a *)
(* new one has the number of the save.                                     *)
Open ==
    LET f == IF Directory.tmp # NoFile THEN Directory.tmp ELSE saves IN
    /\ step = "open" /\ step' = "write"
    /\ dirs' = IF Directory.tmp # NoFile THEN dirs ELSE Append(dirs, [Directory EXCEPT !.tmp = f])
    /\ cached' = [cached EXCEPT ![f] = NoContents]
    /\ before' = [before EXCEPT ![f] = IF f = Directory.tmp /\ f \notin dirty THEN cached[f]
                                       ELSE IF f = Directory.tmp THEN @ ELSE NoContents]
    /\ dirty' = dirty \cup {f}
    /\ UNCHANGED <<mode, db, entries, written, history, bounds>>

WriteEntry ==
    /\ step = "write" /\ written < Len(entries)
    /\ written' = written + 1
    /\ cached' = [cached EXCEPT ![Directory.tmp].records = Append(@, Encoded(entries[written + 1]))]
    /\ UNCHANGED <<mode, db, step, entries, dirs, dirty, before, history, bounds>>

(* Fault: fdatasync is left out. *)
SyncedBy_Nothing(f) == {}

SyncedBy(f) == {f}

SyncFile ==
    /\ step = "write" /\ written = Len(entries)
    /\ dirty' = dirty \ SyncedBy(Directory.tmp)
    /\ step' = "sync directory"
    /\ UNCHANGED <<mode, db, entries, written, dirs, cached, before, history, bounds>>

SyncDirectory ==
    /\ step = "sync directory"
    /\ dirs' = <<Directory>>
    /\ step' = "rename"
    /\ UNCHANGED <<mode, db, entries, written, cached, dirty, before, history, bounds>>

Rename ==
    /\ step = "rename"
    /\ dirs' = Append(dirs, [path |-> Directory.tmp, tmp |-> NoFile])
    /\ step' = "sync replaced"
    /\ UNCHANGED <<mode, db, entries, written, cached, dirty, before, history, bounds>>

SyncReplaced ==
    /\ step = "sync replaced"
    /\ dirs' = <<Directory>>
    /\ Ends
    /\ saved' = Restorable(db) /\ attempts' = {}
    /\ UNCHANGED <<cached, dirty, before, bounds>>

(* What is left of a record when its write is cut short. *)
CutShort ==
    {cached} \cup (IF step = "write" /\ written < Len(entries)
                   THEN {[cached EXCEPT ![Directory.tmp].end = "torn"]} ELSE {})

(* A system call fails, a write perhaps after some bytes. *)
Fail ==
    /\ step \in {"open", "write", "sync directory", "rename", "sync replaced"} /\ faults < MaxFaults
    /\ faults' = faults + 1
    /\ cached' \in CutShort
    /\ step' = "remove"
    /\ UNCHANGED <<mode, db, entries, written, dirs, dirty, before, history, saves, losses>>

(* The catch block, whose own errors are ignored; then main ends. *)
RemoveTemporary ==
    /\ step = "remove"
    /\ \/ dirs' = Append(dirs, [Directory EXCEPT !.tmp = NoFile]) /\ Directory.tmp # NoFile
       \/ UNCHANGED dirs
    /\ Ends
    /\ UNCHANGED <<cached, dirty, before, history, bounds>>

----------------------------------------------------------------------------
(***************************************************************************)
(* Crashes.                                                                *)
(***************************************************************************)
(* The process alone: the page cache stays. *)
Kill ==
    /\ mode \in {"up", "saving"}
    /\ cached' \in CutShort
    /\ Ends
    /\ UNCHANGED <<dirs, dirty, before, history, bounds>>

(* What the disk has of a file: all of it once it is synced; else the old  *)
(* contents, or some of the new, perhaps with bytes that were never        *)
(* written.                                                                *)
Left(f) ==
    IF f \notin dirty THEN {cached[f]}
    ELSE {before[f], cached[f]} \cup
         {Contents(SubSeq(cached[f].records, 1, n), end) :
             n \in 0..Len(cached[f].records), end \in {"clean", "torn", "garbage"}}

(* What a restart may find at the path: now, or after a loss of power. *)
Outcomes ==
    {At(Directory, cached)} \cup
    UNION {IF dirs[i].path = NoFile THEN {NoContents} ELSE Left(dirs[i].path) : i \in DOMAIN dirs}

PowerLoss ==
    /\ mode # "refused" /\ losses < MaxLosses
    /\ losses' = losses + 1
    /\ \E i \in DOMAIN dirs :
        /\ dirs' = <<dirs[i]>>
        /\ cached' \in {[f \in Files |-> IF f = dirs[i].path THEN p
                                         ELSE IF f = dirs[i].tmp THEN t ELSE NoContents] :
                            p \in IF dirs[i].path = NoFile THEN {NoContents} ELSE Left(dirs[i].path),
                            t \in IF dirs[i].tmp = NoFile THEN {NoContents} ELSE Left(dirs[i].tmp)}
    /\ dirty' = {} /\ before' = cached'
    \* the loss has settled which snapshot there is
    /\ saved' \in {d \in {saved} \cup attempts : Load(At(dirs'[1], cached')) = {d}}
    /\ attempts' = {}
    /\ Ends
    /\ UNCHANGED <<saves, faults>>

SnapshotNext ==
    \/ Start \/ Serve \/ BeginSave
    \/ Open \/ WriteEntry \/ SyncFile \/ SyncDirectory \/ Rename \/ SyncReplaced
    \/ Fail \/ RemoveTemporary
    \/ Kill \/ PowerLoss

SnapshotSpec == SnapshotInit /\ [][SnapshotNext]_snapshotVars

----------------------------------------------------------------------------
(* At every moment, were the process killed or the power lost now, the     *)
(* next start would restore exactly what the last Save that returned was   *)
(* given, or exactly what a later, unfinished one was: never a mixture or  *)
(* a part of them, and never a file it refuses.  The temporary file, the   *)
(* two syncs before the rename and the one after it are for this.          *)
AtomicReplacement ==
    \A contents \in Outcomes :
        \E d \in {saved} \cup attempts : Load(contents) = {d}
=============================================================================
