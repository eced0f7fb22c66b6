----------------------------- MODULE Statements -----------------------------
(***************************************************************************)
(* What a statement does to the engine, as far as several clients of one   *)
(* engine can tell: the rows of each table and the one open transaction.   *)
(* crates/engine/src/lib.rs; Transactions and Ingest look inside.          *)
(***************************************************************************)
CONSTANTS
    Tables,     \* table names
    Rows,       \* rows
    Absent      \* a table, or a backup, that does not exist

ASSUME StatementConstants ==
    /\ Rows # {}
    /\ Absent \notin Tables
    /\ \A rows \in SUBSET Rows : Absent # rows

Contents == (SUBSET Rows) \cup {Absent}
Nothing == [t \in Tables |-> Absent]

(* The engine: the tables; active_txn, with the file snapshot of BEGIN and  *)
(* the first-rewrite backups.                                               *)
Engines == [table : [Tables -> Contents], txn : BOOLEAN,
            saved : [Tables -> Contents], backup : [Tables -> Contents]]
Opened(files) == [table |-> files, txn |-> FALSE, saved |-> Nothing, backup |-> Nothing]

OnTable == {"select", "insert", "delete", "vacuum", "drop"}
Transactional == {"begin", "commit", "rollback"}
Statement == [op : OnTable \cup Transactional, t : Tables, r : Rows]

-----------------------------------------------------------------------------
(* When the handler returns no error.                                       *)
Succeeds(q, d) ==
    CASE q.op \in OnTable -> d.table[q.t] # Absent
      [] q.op = "begin"   -> ~d.txn
      [] q.op \in {"commit", "rollback"} -> d.txn

HandleBegin(d) == [d EXCEPT !.txn = TRUE, !.saved = d.table, !.backup = Nothing]
HandleCommit(d) == Opened(d.table)

(* handle_rollback: files that are not in the snapshot are deleted, a table *)
(* that was rewritten gets its backup, a table that is new is removed.      *)
HandleRollback(d) ==
    Opened([t \in Tables |-> IF d.saved[t] # Absent /\ d.backup[t] # Absent
                             THEN d.backup[t] ELSE d.saved[t]])

(* A rewrite of t with what the statement has read: backup_table_for_txn,   *)
(* then rewrite_table.                                                      *)
Rewrite(t, seen, rows, d) ==
    [d EXCEPT !.table[t] = rows,
              !.backup[t] = IF d.txn /\ @ = Absent THEN seen ELSE @]

(* The effect of q, which read the contents seen of its table when it       *)
(* began. INSERT appends a file; DELETE and VACUUM write back what they     *)
(* read.                                                                    *)
Effect(q, seen, d) ==
    CASE ~Succeeds(q, d)     -> d
      [] Succeeds(q, d) /\ q.op = "select"   -> d
      [] Succeeds(q, d) /\ q.op = "insert"   -> [d EXCEPT !.table[q.t] = @ \cup {q.r}]
      [] Succeeds(q, d) /\ q.op = "delete"   -> Rewrite(q.t, seen, seen \ {q.r}, d)
      [] Succeeds(q, d) /\ q.op = "vacuum"   -> Rewrite(q.t, seen, seen, d)
      [] Succeeds(q, d) /\ q.op = "drop"     -> [d EXCEPT !.table[q.t] = Absent]
      [] Succeeds(q, d) /\ q.op = "begin"    -> HandleBegin(d)
      [] Succeeds(q, d) /\ q.op = "commit"   -> HandleCommit(d)
      [] Succeeds(q, d) /\ q.op = "rollback" -> HandleRollback(d)

(* What the client is answered: the rows it read, or whether it succeeded.  *)
Answer(q, seen, d) ==
    [ok |-> Succeeds(q, d), rows |-> IF q.op = "select" THEN seen ELSE Absent]
Answers == [ok : BOOLEAN, rows : Contents]
=============================================================================
