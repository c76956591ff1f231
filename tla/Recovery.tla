------------------------------ MODULE Recovery ------------------------------
(***************************************************************************)
(* From a command to the log and back: CommandExecutor with the commands   *)
(* that mutate, the record it appends after each, and the replay of all    *)
(* records at the next start (main.cpp).  How records reach the file is in *)
(* Aof; here no write fails, every stop is clean, and the file holds the   *)
(* records in the order of Append.  Arguments are parsed as far as they    *)
(* decide anything: an option of SET is a word, with the integer           *)
(* std::from_chars makes of it.                                            *)
(***************************************************************************)
EXTENDS KvStore, Sequences

CONSTANTS
    Workers,        \* command workers
    Commands,       \* what clients may send: [name, key, ...]
    MaxMemory, Policy,
    MaxNow,         \* bound: the last tick of the clock
    MaxCommands     \* bound: commands sent

VARIABLES store, now, log, worker, sent,
    mode,           \* "up", "down", "replaying" or "refused"
    replayed        \* records replayed so far

vars == <<store, now, log, worker, sent, mode, replayed>>

Idle == <<>>

Init ==
    /\ store = EmptyStore(MaxMemory, Policy) /\ now = 0
    /\ log = <<>>
    /\ worker = [w \in Workers |-> Idle] /\ sent = 0
    /\ mode = "up" /\ replayed = 0

----------------------------------------------------------------------------
(***************************************************************************)
(* The handlers.  A reply is known by its type.                            *)
(***************************************************************************)
Reply(s, type) == [store |-> s, type |-> type]

(* The options of SET from index i on, added to request; <<>> is an error. *)
RECURSIVE SetRequest(_, _, _)
SetRequest(options, i, request) ==
    LET option == options[i].word
        amount == options[i + 1].int
        unit == IF option = "EX" THEN MsPerSecond ELSE 1
    IN
    IF i > Len(options) THEN <<request>>
    ELSE IF option \in {"EX", "PX"} /\ i < Len(options) /\ request.ttl = Never
    THEN IF amount = NotInteger \/ amount <= 0 \/ amount > IntMax \div unit THEN <<>>
         ELSE SetRequest(options, i + 2, [request EXCEPT !.ttl = amount * unit])
    ELSE IF option \in {"NX", "XX"} /\ request.condition = "kNone"
    THEN SetRequest(options, i + 1, [request EXCEPT !.condition =
                                        IF option = "NX" THEN "kIfAbsent" ELSE "kIfPresent"])
    ELSE <<>>

WriteReply(outcomes) ==
    {Reply(o.store, CASE o.status = "kOk" -> "kSimple"
                      [] o.status = "kConditionFailed" -> "kNull"
                      [] OTHER -> "kError") : o \in outcomes}

SetCommand(s, command) ==
    LET request == SetRequest(command.options, 1,
                       [key |-> command.key, value |-> command.value, ttl |-> Never,
                        condition |-> "kNone"])
    IN IF request = <<>> THEN {Reply(s, "kError")} ELSE WriteReply(Set(s, request[1], now))

ExpireCommand(s, command) ==
    IF command.seconds = NotInteger \/ command.seconds > IntMax \div MsPerSecond
    THEN {Reply(s, "kError")}
    ELSE {Reply(o.store, "kInteger") :
             o \in Expire(s, command.key,
                          IF command.seconds <= 0 THEN 0 ELSE command.seconds * MsPerSecond, now)}

DelCommand(s, command) == {Reply(o.store, "kInteger") : o \in Delete(s, command.key, now)}

MSetCommand(s, command) == WriteReply(MSet(s, command.updates))

IncrementCommand(s, command) ==
    {Reply(o.store, IF o.status = "kOk" THEN "kInteger" ELSE "kError") :
        o \in Increment(s, command.key, IF command.name = "INCR" THEN 1 ELSE -1, now, now)}

(* The registry: an unknown name has no handler. *)
Handler(s, command) ==
    CASE command.name = "SET" -> SetCommand(s, command)
      [] command.name = "DEL" -> DelCommand(s, command)
      [] command.name = "EXPIRE" -> ExpireCommand(s, command)
      [] command.name = "MSET" -> MSetCommand(s, command)
      [] command.name \in {"INCR", "DECR"} -> IncrementCommand(s, command)
      [] OTHER -> {Reply(s, "kError")}

----------------------------------------------------------------------------
(* Execute up to the mutation callback. *)
Execute(w) ==
    /\ mode = "up" /\ worker[w] = Idle /\ sent < MaxCommands
    /\ \E command \in Commands : \E reply \in Handler(store, command) :
        /\ store' = reply.store
        /\ worker' = [worker EXCEPT ![w] = IF reply.type \in {"kError", "kNull"} THEN Idle
                                           ELSE <<command>>]
    /\ sent' = sent + 1
    /\ UNCHANGED <<now, log, mode, replayed>>

(* The mutation callback: AofWriter::Append. *)
AppendRecord(w) ==
    /\ worker[w] # Idle
    /\ log' = log \o worker[w]
    /\ worker' = [worker EXCEPT ![w] = Idle]
    /\ UNCHANGED <<store, now, sent, mode, replayed>>

Tick ==
    /\ now < MaxNow
    /\ now' = now + 1
    /\ UNCHANGED <<store, log, worker, sent, mode, replayed>>

(* The dispatcher has drained, then the writer; the process ends. *)
Stop ==
    /\ mode = "up" /\ \A w \in Workers : worker[w] = Idle
    /\ mode' = "down"
    /\ UNCHANGED <<store, now, log, worker, sent, replayed>>

Start ==
    /\ mode = "down"
    /\ mode' = "replaying" /\ replayed' = 0
    /\ store' = EmptyStore(MaxMemory, Policy)
    /\ UNCHANGED <<now, log, worker, sent>>

(* An error reply to a record is a fatal error of the start. *)
Replay ==
    /\ mode = "replaying" /\ replayed < Len(log)
    /\ \E reply \in Handler(store, log[replayed + 1]) :
        /\ store' = reply.store
        /\ mode' = IF reply.type = "kError" THEN "refused" ELSE mode
    /\ replayed' = replayed + 1
    /\ UNCHANGED <<now, log, worker, sent>>

Ready ==
    /\ mode = "replaying" /\ replayed = Len(log)
    /\ mode' = "up"
    /\ UNCHANGED <<store, now, log, worker, sent, replayed>>

Next ==
    \/ \E w \in Workers : Execute(w) \/ AppendRecord(w)
    \/ Tick \/ Stop \/ Start \/ Replay \/ Ready

Spec == Init /\ [][Next]_vars

----------------------------------------------------------------------------
(* A restart after a clean stop succeeds: every record was written for a   *)
(* command that was answered without an error, and is accepted again.      *)
OwnLogIsAccepted == mode # "refused"
=============================================================================
