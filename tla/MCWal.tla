------------------------------- MODULE MCWal -------------------------------
(* The SQL log on small instances.                                         *)
EXTENDS Wal
=============================================================================
