# A TLA+ model of cachefly

cachefly is a cache server that speaks RESP2. One reactor thread accepts
connections, parses requests and does all socket I/O; a pool of command workers
executes commands; each shard has a thread that alone touches its key-value
store; one more thread writes the append-only file (AOF). This directory models
the parts of it that several threads share or that must survive a crash, checks
them with TLC on small instances, and proves some of the results with TLAPS for
every instance.

## The system and its parts

```
 client -> TcpServer/TcpConnection -> RESP parser -> AsyncDispatcher (reactor thread)
                ^                                         |
                | tasks of EventLoop                      v
                +---------------- reply ---------- command workers -> CommandExecutor
                                                          |                |
                                          ShardedDatabase: shard threads   AofWriter
                                                 KvStore per shard         (own thread)
```

| Part | Source | Module | State |
| --- | --- | --- | --- |
| reactor loop | `net/event_loop.cpp` | `EventLoop`, with its epoll set in `Server` | modelled |
| TcpServer, lifetime of connections, callbacks and stop of `main` | `net/tcp_server.cpp`, `tcp_connection.cpp`, `channel.cpp`, `main.cpp` | `Server` | modelled, but for an `accept4` that fails for want of descriptors |
| connection output | `net/tcp_connection.cpp`, callbacks of `main.cpp` | `TcpConnection` | modelled |
| connection input | `net/tcp_connection.cpp`, `main.cpp` | `RequestReader` | modelled |
| byte buffer | `net/buffer.cpp` | `Buffer` | modelled |
| RESP parser | `resp/resp_parser.cpp`, `resp_value.cpp` | `RespParser` | partly: replies are not encoded |
| command dispatch, thread pool | `command/async_dispatcher.cpp` | `AsyncDispatcher` | modelled |
| mutating commands | `command/command_executor.cpp` | `Recovery`; their way to the log in `Aof` | partly: no reading commands |
| shards, cross-shard MSET, snapshot, stats | `shard/sharded_database.cpp` | `ShardedDatabase` | partly: not the shutdown of a shard |
| key-value store | `storage/kv_store.cpp` | `KvStore`, `KvStoreMachine`, `StoreLoops`; abstract: `CacheContract` | modelled |
| append-only file | `persist/aof.cpp`, `aof_impl.h` | `Aof` | partly: records are whole or torn |
| replay at a start | `main.cpp`, `command_executor.cpp` | `Recovery` | partly: one store, not the shards |
| snapshot file, save at a clean stop and recovery | `persist/snapshot.cpp`, `snapshot_impl.h`, `main.cpp` | `SnapshotFile` | modelled |
| /status | `http/admin_server.cpp`, `main.cpp` | a client of `ShardedDatabase` | partly |
| Metrics, Channel and Socket | | what of them decides anything is in `Server` | partly |
| Config, Logger | | | not modelled |

`PROJECT.json` holds the same inventory in detail, the lines each definition
models, and the hazards the properties are aimed at.

## The modules

**AsyncDispatcher.** The reactor opens, closes and submits to sessions; workers
run them. A step is one critical section or one call outside any lock: `Submit`
(both sections; only the reactor touches `sessions_`), `Post`, `TakeTask`,
`PopCommand`/`FinishSession` (the lock at the head of `RunSession`), `Execute`,
`KeepReply`/`DropReply` (the second lock), `Reply`, `Exit`, `Stop`, `Joined`.
Commands are numbers; `executed` and `replied` record history. Session objects
and session ids differ, because the id is a descriptor that the kernel reuses.

**KvStore** has the methods of the store as operators from a store and the clock
readings to the set of possible outcomes. Hash order and the pseudo-random
generator become choices; the clock wraps as 64-bit time points do; texts are
records of integer value and size. Eviction is described by the sets of victims
it may take. **KvStoreMachine** calls the operators in any order while the clock
moves on. **CacheContract** is the abstract specification: a map with deadlines,
without lazy deletion, memory limit or access record. `ImplementsContract` is
the refinement, with `data` the entries not yet expired. **StoreLoops** has the
two loops, of `MakeRoom` and of `ActiveExpire`, one iteration a step, on a map
that is iterated over in any order, which an insert may change altogether (a
rehash) and an erase does not; it compares what they do with the
declarative operators of `KvStore`, and follows `expire_scan_offset_` from scan
to scan while keys are written in between.

**ShardedDatabase** composes `KvStore` instances with shard queues and the
`transaction_mutex_`. A call is a sequence of rounds of tasks; a caller waits for
a round's futures before the next. MSET is copy round(s), write rounds and, when
a shard refuses, the restore round.

**Aof** is the mutating path of `Execute` (`Guard`, `Handle`, `AppendRecord`,
`Durable`), the writer thread, stop, crash and restart. All mutations write the
same key, so the database is the sequence of mutations applied. A crash of the
process keeps the page cache; a crash of the machine keeps what was synced and
any prefix of the rest, perhaps with a torn record. It is assumed that an
appending write after a truncation reaches the disk together with it.

**SnapshotFile** is `Snapshot::Save` at a clean stop, one step per system call,
and `Snapshot::Load` at the next start. The file system is modelled as the code
relies on it: a file that is not synced may have its old contents, a part of the
new ones or bytes never written after a loss of power; the directory is in any
of its states since its last sync; `rename` is atomic. A kill keeps the page
cache. Times to live are in half milliseconds, so that rounding to whole ones
happens. A replayed SET is taken to fit the memory limit, as it does when the
shard count and `maxmemory` are those of the saving process.

**Recovery** is what the log says: `CommandExecutor` for SET with its options,
DEL, INCR, DECR, EXPIRE and MSET on a `KvStore`, which replies are logged and as
what, and the replay of the whole log after a clean stop. Handler and append are
two steps of a worker.

**EventLoop** has the push and the wake-up of `QueueInLoop` as two steps, `Quit`
the same, and the loop's test, poll, event handling, swap and tasks. The timeout
of `epoll_wait` is left out, so nothing shown here depends on it.

**Server** extends it with what the loop runs in `main`: accept against
`max_clients`, the tables by descriptor (`connections_`, the sessions of the
dispatcher, the epoll set), the events that `epoll_wait` returned, the workers
that execute commands and send, and the stop (`Quit`, the dispatcher, the
destructors). Events are dispatched one at a time (`event`): `HandleRead` accepts,
reads commands, fails or closes, and returns into `Channel::HandleEvent`, which
then looks for output (`WriteEvent`). What `Send` does in a worker, the look at
`Connected` and the push, is one step here; `TcpConnection` has them apart. A connection lives while it is in
`connections_`, in a task or in the hands of a sending worker; its destructor
frees the descriptor, and the next client gets the lowest one. Every step of
`Server` is a step or a stutter of `EventLoop`. The queue inside the dispatcher
is a set here: its protocol is `AsyncDispatcher`.

**TcpConnection** is one connection: the reactor reads requests and answers
malformed ones; a worker answers the others in order, with `Connected`,
`ReserveOutput` and `QueueInLoop` as separate steps; the kernel takes any number
of bytes of a write. `handler` and `sender` say where the reactor and the worker are.

**RequestReader** is the input side: bytes arrive in pieces of any length, are
read into a **Buffer** (storage, two indices, compaction, growth, the second
vector of `readv`) and parsed by **RespParser**, the parser as functions of byte
sequences. The decimal text of a number is one symbol of the alphabet.

Definitions named `X_Y` directly before `X` are faulty variants of `X`. Nothing
uses them; each stands for a plausible mistake at that place of the code that one
of the properties detects.

## What TLC checks

| Run | What it shows | Bounds |
| --- | --- | --- |
| `dispatcher` | commands of a session run serially, in order, at most once; no lost wake-up; Stop drains and returns; every command is answered | 2 sessions on 2 ids (so an id can be reused), 2 workers, 3 commands each |
| `store` | memory count exact and bounded, refused writes lose nothing, refinement of the contract | noeviction with room for two and lru with less; 3 keys (symmetric), a number and a word, half-millisecond ticks, integers -1..1, 3 counted accesses |
| `store_loops` | both loops do what their declarative versions allow; every expired entry is removed in the end | all stores over 3 keys of two sizes with each policy, all deadlines over 4 keys, a scan of 2 entries, one write in between |
| `shards` | isolation and atomicity of MSET, consistent snapshots, total memory, mutex given back | 2 shards with budgets 5 and 4, 2 workers and the reactor, 3 calls from a menu of all operations, 2 ticks |
| `aof` | acknowledged mutations survive (always), readable log, client order, clean stop, no stuck worker, timed sync (everysec) | every policy, 2 workers, 2 mutations, 1 fault, 2 restarts |
| `snapshot` | a start restores exactly one saved database, and never refuses the file | 2 keys, lives of 0.5 and 1.5 ms, 2 saves, 1 failing call, 1 loss of power, any number of kills |
| `server` | tables agree, the loop comes to live connections only, no lost wake-up, task order; tasks run, closed connections are destroyed, a stop ends | `max_clients` 1 and 2, 2 connections, 2 workers, 2 tasks |
| `connection` | exact and bounded byte count, whole replies, output drains, closed connections release all | 5 replies of 1 or 2 bytes, limit 4 |
| `reader` | commands reach the dispatcher whole and in order, the buffer loses nothing, input and storage stay bounded | up to 2 commands and 17 continuations, every cut; storage of 12, limit of 20, second vector of 8 |

The bounds are the smallest with which the cases of interest happen: an id or a
descriptor reused under a running worker; a client turned away and one accepted
after a close; two victims; a batch that fits the first shard after an eviction
and is refused by the second; a second record queued behind a failing one, a
crash after a restart; a second save into the temporary file that a killed one
left; a task queued while another is run; a limit that two replies fit and three
do not; a scan that wraps; a buffer that compacts, grows, and overflows into the
second vector. Symmetry is used only in `store`, which has no liveness property.
Deadlock is checked except in `store_loops`, `connection` and `reader`, where an
empty store and a closed connection have nothing left to do. `Aof`, `Server` and
`AsyncDispatcher` have an explicit step for the stopped process instead.

### Fairness

Threads are scheduled (weak fairness of each worker, shard, writer and of the
steps of the reactor), and time passes. Clients, operators, faults and crashes
are under no obligation. Two assumptions are stronger. `Server`: `epoll_wait` on
a readable eventfd is not interrupted for ever. `TcpConnection`: the client
reads, so a socket that is watched becomes writable again and again. In
`StoreLoops` the shard's worker starts its next scan and ends a loop it has
begun. Nothing is assumed about acquiring `transaction_mutex_`; `LockIsReleased`
is about giving it back.

### Where code and documentation disagree

Three runs expect a violation.

- `store_overflow`: SET accepts any positive PX, and `now + ttl` overflows. With
  the wrap-around of the machine the key is expired when OK is sent.
- `recovery`: a mutation is appended after its handler, outside any lock. Two
  workers that write one key may append in the other order than the shard
  executed. Replay then applies them in the order of the log, and an INCR that
  meets the word of the SET it had preceded is an error, which `main` takes for
  a corrupt log: the server does not start after a clean stop. One worker is
  enough with relative times to live: SET of a word with PX, expiry, INCR, and a
  restart whose replay is quicker than the PX.
- `connection_order`: the reactor answers a malformed request at once, before
  the replies of the commands pipelined in front of it.

Observations without a run:

- `/status` makes the reactor wait for shard futures (`main.cpp:153`), which the
  README of the repository says the worker pool avoids.
- A mutation that passed the guard before the writer failed changes memory after
  the failure (`command_executor.cpp:82-92`), before it is answered with an
  error.
- With everysec a failing sync drops queued records that were already
  acknowledged; the policy allows it, and `/status` tells of the failure.
- `Channel::HandleEvent` reads its own members once more (`channel.cpp:27`) after
  the read callback. When the peer has closed, and no worker or task has a
  reference to the connection, the guard of `HandleRead` (`tcp_connection.cpp:78`)
  is the last one: connection and channel are destroyed when it returns, and
  `HandleEvent` reads freed memory. `Server` has this state: `ReadClose` is followed
  by `WriteEvent` of a connection that is not `Alive`. What the read finds is
  undefined; the model goes on as if there was nothing to write. `EventsAreLive`
  therefore speaks of the epoll set, of the events of the round still to come and
  of the one that is being read, and not of the rest of that `HandleEvent`. No
  document of the repository speaks of these lifetimes, so there is no run for it.
- `Buffer::WriteFd` (`buffer.cpp:63`) uses `write`, and `main` does not ignore
  SIGPIPE: a write of buffered output that fails with EPIPE ends the process.
  `TcpConnection` has a close there, as for every other error. The
  direct send (`tcp_connection.cpp:159`) has MSG_NOSIGNAL.
- After a protocol error the rest of the bytes read with it is dropped, while
  bytes that arrive later are still parsed and dispatched until the peer closes
  (`RequestReader` has this; `CommandsArriveWhole` speaks of what was sent before
  the error).

## What is proved

For any constants that satisfy the named assumptions:

- `RequestProofs`, of the dispatcher (`DispatcherAssumption`, and for `StopDrains`
  that the pool is not empty, `PoolAssumption`): type correctness, `SerialExecution`,
  `NoStrandedCommand`, `PipelineOrder`, `StopDrains`. Type correctness apart, none
  is inductive. `IInv` adds that
  there is at most one permission to run a session (held by a worker, a queued
  task or the reactor on its way to `Post`), that `running` records it except for
  a closed session whose last reply was dropped, and where each submitted command
  is.
- `RequestProofs`, of a connection (`ConnectionAssumption`), for any replies, sizes
  and limit. `OutputAccounting` and `OutputBounded` are inductive together with the
  types (`AccountingInv`); the work is in what a step does to the sum over the
  queue of the loop. `RepliesAreWhole` is not: `ReplyInv` adds that every reply is in
  one place only, sent, in a task of the loop or in the hands of the worker or
  the reactor (`SentOnce`), and that all replies that have gone out are complete
  as long as the connection is not disconnected (`OrderlyOutput`), so that the
  next one begins behind a complete one.
- `KvStoreProofs` (`KvStoreAssumption`) has what each method of a store does, for
  any finite set of keys and any sizes: `Follows`, that a sound store (`Sound`:
  well-formed entries, an exact count of bytes, within the budget) becomes a sound
  store with the same options; and what the outcome is. Bytes are a sum over the
  entries; the facts about sums come from induction over the subsets of a finite
  set, stated for a set of subsets so that no operator has to be instantiated.
- `KvStoreMachineProofs` (`OptionsAssumption`, `CallsAssumption`):
  `MemoryAccounting` and `MemoryBounded`, whose inductive invariant is `Sound`;
  `RefusedWriteKeepsData`; and `ImplementsContract`, that every call on the store
  is the step of `CacheContract` with the same answer, and expiry and lazy
  deletion are invisible there. The last one has the hypothesis `DeadlinesFit`:
  no time to live that is asked for makes a deadline overflow. The run
  `store_overflow` shows that it is needed. `DeadlineInv` carries it from the
  requests to the deadlines in the store.
- `StoreLoopsProofs` (`LoopsAssumption`), for any sound stores, orders of iteration,
  numbers of samples and writes: `LoopIsMakeRoom` and `ScanIsActiveExpire`, both from
  `LoopsInv`. `order` has every key of the table once (`IsOrder`). While `MakeRoom`
  runs, the table is the original without the entries taken, none of which ranks
  above one that stays, `projected` is what is left with the new entry, and the
  last entry taken was needed (`Evicting`). While a scan runs, the table is the
  original without the expired entries among the set `E` of those examined, as
  many as `examined` counts (`Scanned`). The entries of `E` that stay are the places
  just before the iterator, around the end of the order if need be (`Window`); this
  is why no entry is examined twice although an erase moves the places behind it.
- The sharded database (`ShardedAssumption`) has two modules. `TransactionProofs`
  is about the protocol and takes what it needs of a store as named facts;
  `ShardedDatabaseProofs` has the steps of a batch write, shows those facts of
  `KvStore`, and has the theorems. `TransactionIsolation` comes from `LockInv`: only a holder of the mutex
  is in a call, has something to post or a task in a queue, and who is in a
  transaction holds it alone. `TotalMemoryBounded` comes from `StoresInv`: every
  store, and every copy a batch write has taken, is sound and has the budget of
  its shard, and what is on its way to a shard is something that shard can run
  (a restore has a copy to put back). The budgets add up to `maxmemory`.
  `MSetAllOrNothing` and `SnapshotIsConsistent` come from `CallsInv` and
  `TransactionInv`. While a transaction lasts its client alone has tasks, so what
  has become of each store since the mutex was acquired is known: it has lost
  only entries that have expired (`Aged`), or it has its part of the batch
  (`Written`), or a copy of it that has only aged is on its way back. The
  invariant says which, by the round the call is in; the rounds of a batch write
  are first a copy of each shard touched, in ascending order, then the parts.
- `ServerProofs`, of the reactor (`EventLoopAssumption`, `ServerAssumption`): of the
  event loop alone `NoLostWakeup`, with the type invariant, and `TasksInOrder`, from
  `OrderInv`, which adds that a batch is finished before the next one is taken.
  `SpecServer => Spec`, the server implements
  the event loop, so that the two results hold of the server; and
  `TablesAgree` and `EventsAreLive`, from `ServerInv`. That adds the types of the
  tables, that sessions, workers and tasks name only connections that were made
  (`References`), and that events are pending only while the loop handles them,
  once each, and are of channels in the epoll set, but for the one whose own
  handler has closed it (`Round`). The heart is
  `CloseFindsItsOwn`: a close goes by the descriptor and still removes exactly
  its own connection, because a descriptor is not free before that.
- `AofProofs` (`AofAssumption`), for any number of workers, mutations, faults and
  restarts. `OnlyTailTorn` needs that with a torn record the writer has failed
  or the process has ended (`TailInv`): then nothing more is taken from the
  queue. `AckedSurvives` rests on `DurableInv`: under always a kept promise, and
  with it an acknowledged mutation, is among the synced records, and no step
  takes one of those away (`StoredKept`). `AckedOrderKept` rests on `WriteOrder`:
  file, record in hand and queue, read as one sequence, never have a mutation
  ahead of one acknowledged before it was requested. `StopLosesNothing` rests on
  `NothingLost`: until a failure the database and what is in the file or on its
  way there are the same mutations.
- `ServerProofs`, of `Buffer` (`BufferAssumption`), for every storage size and content: a
  `Buffer` is a queue of bytes. `EnsureWritable` does not change the readable
  bytes, `Append` and `ReadFd` add behind them, with or without the second
  vector, and `Retrieve` takes from the front. `TcpConnection` takes its buffers
  for such queues.
- `ServerProofs`, of `SnapshotFile` (`SnapshotAssumption`), for any keys and any
  number of saves, kills, losses of power and failing calls: `AtomicReplacement`.
  A loss of power may bring back any state of the directory since its last sync,
  so `SnapshotInv` speaks of all of them (`SoundStates`): whatever file has the name
  of the snapshot in one of them is synced and restores a database that counts,
  and the temporary file has that name in none, so that writing it disturbs no
  state. `SaveProgress` says what a save has done by each step: it renames only
  what has all records and is synced.

Of the assumptions, that `Keys` is finite stands for the largest size of a
string, and the last conjunct of `ShardedAssumption` says that callers use the
`Database` facade as its types have it.

Only model-checked: everything about liveness and fairness, which is out of the
prover's reach; `RequestReader`, since `RespParser` is recursive over its input.
The one property of `Recovery` fails.

## Not modelled

- `Config`: text is parsed into constants before anything else runs. What
  `Validate` lets through is what the modules assume of their constants.
- `Logger`, the counters of `Metrics` other than the gauge of connections, the
  HTTP text of `AdminServer`, the encoding of replies, the reading commands and
  the table of arities: nothing depends on them, or they change nothing.
- The destructor of a `Shard`, which `main` runs when every caller is gone.
- `accept4` that fails for want of descriptors, which throws out of the loop.
- Exceptions for want of memory: the rollback that MSET does on one
  (`sharded_database.cpp:122-125`), and one out of the reply callback of a command.
- In `Recovery`: several shards, DEL of several keys, the periodic expiry, and a
  second reading of the clock inside INCR, which `KvStoreMachine` has.
