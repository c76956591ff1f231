--------------------------- MODULE MCSnapshotFile ---------------------------
(* An instance of SnapshotFile for TLC: lives of half a millisecond, which *)
(* rounds to none, and of one and a half.                                  *)
EXTENDS SnapshotFile
=============================================================================
