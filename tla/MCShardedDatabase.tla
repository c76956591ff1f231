------------------------- MODULE MCShardedDatabase -------------------------
(* Instances of ShardedDatabase for TLC: two shards of budgets 5 and 4, so  *)
(* that "long" fits into the first and not the second, and the first has   *)
(* to evict k3 to store k1.                                                 *)
EXTENDS ShardedDatabase

CONSTANTS k1, k2, k3, w1, w2, reactor

MCIntMin == -1
MCKeySize == k1 :> 1 @@ k2 :> 1 @@ k3 :> 1
MCShardForKey == k1 :> 0 @@ k2 :> 1 @@ k3 :> 0

short == [int |-> NotInteger, size |-> 1]
long == [int |-> NotInteger, size |-> 2]
one == [int |-> 1, size |-> 1]

Write(k, text, ttl, condition) ==
    [op |-> "Set", key |-> k,
     set |-> [key |-> k, value |-> text, ttl |-> ttl, condition |-> condition]]
Batch(x, y) == [op |-> "MSet", updates |-> k1 :> x @@ k2 :> y]

(* Batch writes that the second shard refuses or accepts, against single   *)
(* writes, reads and snapshots, and /status.                               *)
MCMenu ==
    w1 :> {Batch(short, long), Batch(long, short),
           [op |-> "MSet", updates |-> k2 :> short],
           [op |-> "Snapshot"], [op |-> "Clear"]} @@
    w2 :> {Write(k1, one, 1, "kNone"), Write(k3, short, Never, "kIfAbsent"),
           [op |-> "Delete", keys |-> <<k2, k1>>], [op |-> "Increment", key |-> k1, delta |-> -1],
           [op |-> "Expire", key |-> k2, ttl |-> 1], [op |-> "Get", key |-> k1],
           [op |-> "Exists", keys |-> <<k1, k2>>], [op |-> "TtlSeconds", key |-> k1]} @@
    reactor :> {[op |-> "Stats"]}
=============================================================================
