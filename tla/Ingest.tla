------------------------------- MODULE Ingest -------------------------------
(***************************************************************************)
(* The way of a row from INSERT to Parquet and back after a restart:       *)
(* the write buffer, the Arrow log that backs it (crates/wal/src/          *)
(* arrow_wal.rs), flush_table, and the two recoveries of PotatoDB::new,    *)
(* Arrow files first and the SQL log after them.                           *)
(*                                                                         *)
(* One process runs one statement at a time, so the steps of a statement   *)
(* never interleave with another's; a crash falls between any two of them. *)
(* The SQL log is reduced to what recovery replays from it (Wal.tla has    *)
(* its own model), and transactions to INSERTs (Transactions.tla).         *)
(***************************************************************************)
EXTENDS Integers, Sequences

CONSTANTS
    Tables,           \* table names
    Rows,             \* row values, each inserted at most once in a behaviour
    Home,             \* the table a row belongs to
    Partial,          \* rows whose INSERT names fewer columns than the table has
    Unique,           \* tables with a PRIMARY KEY or UNIQUE constraint
    Selects,          \* <<tables its text names, tables it reads>> of SELECTs
    CheckpointNames,  \* tables whose names occur in the word CHECKPOINT
    Ops,              \* the statements and failures of the workload
    NoTable,          \* flush_table is not between its write and its clean-up
    MaxLog,           \* bound: entries in the SQL log
    MaxStops          \* bound: crashes and shutdowns

ASSUME IngestConstants ==
    /\ Home \in [Rows -> Tables]
    /\ Partial \subseteq Rows
    /\ Unique \subseteq Tables
    /\ Selects \subseteq (SUBSET Tables) \X (SUBSET Tables)
    /\ CheckpointNames \subseteq Tables
    /\ NoTable \notin Tables
    /\ MaxLog \in Nat
    /\ MaxStops \in Nat

VARIABLES
    mode,    \* "down", "recovering" (Arrow files), "replaying" (SQL log), "open"
    pc,      \* where the statement is: see Points
    stmt,    \* the statement
    todo,    \* tables that flush_table has still to be called for
    cur,     \* table written to Parquet whose Arrow files still exist
    buf,     \* write_buffer: the rows in it
    arrow,   \* rows in the files of _arrow_wal
    torn,    \* one of those files is incomplete
    pq,      \* how many times each row is in the Parquet files of its table
    sql,     \* the entries of wal.log that a marker may bring back
    queue,   \* positions in sql of the entries still to be replayed
    inTxn,   \* active_txn.is_some()
    snap,    \* pq as the file_snapshot of BEGIN fixed it
    fate,    \* what the client was told of each row: see Fates (ghost)
    split,   \* a crash fell between a flush's write and its clean-up (ghost)
    stops    \* crashes and shutdowns so far

vars == <<mode, pc, stmt, todo, cur, buf, arrow, torn, pq, sql, queue, inTxn,
          snap, fate, split, stops>>

Modes == {"down", "recovering", "replaying", "open"}
Points == { "idle",       \* between two statements
            "flush",      \* flushing buffered tables first (or, INSERT, last)
            "apply",      \* its log entry is written
            "rewrite",    \* rewrite_table has deleted the old files
            "finish",     \* wal_finish_autocommit is next
            "truncate" }  \* COMMIT's marker is written, the truncation is next
Fates == { "new",         \* never inserted
           "tried",       \* its statement has not returned, or has failed
           "pending",     \* acknowledged in the running transaction
           "acked",       \* acknowledged, transaction included
           "deleting",    \* found by a DELETE that has not returned
           "deleted",     \* an acknowledged DELETE or ROLLBACK took it
           "aborted" }    \* its transaction was running when the process died

Stmt == [op : {"none", "insert", "direct", "delete", "select", "checkpoint",
               "begin", "commit", "rollback"},
         rows : SUBSET Rows,      \* inserted, or matched by the WHERE clause
         tab : Tables \cup {NoTable},
         reads : SUBSET Tables,
         kept : [Rows -> Nat]]    \* what a DELETE has read and writes back
NoStmt == [op |-> "none", rows |-> {}, tab |-> NoTable, reads |-> {},
           kept |-> [r \in Rows |-> 0]]

(* An entry of the SQL log; live once recovery would replay it: at once for *)
(* an autocommit statement, with the commit marker in a transaction.        *)
LogEntry == [op : {"direct", "delete"}, tab : Tables, rows : SUBSET Rows, live : BOOLEAN]

-----------------------------------------------------------------------------
Of(t) == {r \in Rows : Home[r] = t}
TablesOf(R) == {Home[r] : r \in R}
Added(R) == [r \in Rows |-> IF r \in R THEN pq[r] + 1 ELSE pq[r]]
Here(r) == pq[r] > 0 \/ r \in buf
Set(R, f) == [r \in Rows |-> IF r \in R THEN f ELSE fate[r]]

(* Mutant: no fallback to flush_all.                                        *)
ToFlushNamed(named) == named \cap TablesOf(buf)

(* flush_buffered_for_sql: the buffered tables the text names, or all.      *)
ToFlush(named) ==
    IF named \cap TablesOf(buf) # {} THEN named \cap TablesOf(buf) ELSE TablesOf(buf)

(* Mutant: uniqueness is checked on every table.                            *)
AcceptsOnlyNew(t, R) ==
    /\ R \cap Partial = {}
    /\ \A r \in R : pq[r] = 0

(* Mutant: recovery does not check uniqueness.                              *)
AcceptsTwice(t, R) == R \cap Partial = {}

(* What validate_constraints_batch and the INSERT of a flush accept when    *)
(* the Arrow rows R of t are recovered: buffer_insert_batches is called     *)
(* without the column list, and a unique key may not be there already.      *)
Accepts(t, R) ==
    /\ R \cap Partial = {}
    /\ t \in Unique => \A r \in R : pq[r] = 0

Init ==
    /\ mode = "down" /\ pc = "idle" /\ stmt = NoStmt
    /\ todo = {} /\ cur = NoTable
    /\ buf = {} /\ arrow = {} /\ torn = FALSE
    /\ pq = [r \in Rows |-> 0] /\ snap = [r \in Rows |-> 0]
    /\ sql = <<>> /\ queue = {}
    /\ inTxn = FALSE
    /\ fate = [r \in Rows |-> "new"]
    /\ split = FALSE /\ stops = 0

-----------------------------------------------------------------------------
(* PotatoDB::new up to and including ArrowWal::recover.                     *)
Open ==
    /\ mode = "down"
    /\ ~torn
    /\ mode' = "recovering"
    /\ todo' = TablesOf(arrow)
    /\ queue' = {i \in DOMAIN sql : sql[i].live}
    /\ UNCHANGED <<pc, stmt, cur, buf, arrow, torn, pq, sql, inTxn, snap, fate, split, stops>>

(* ArrowWal::recover meets an incomplete file: new fails, and the Drop of   *)
(* the half-built database truncates the SQL log.                           *)
OpenFails ==
    /\ mode = "down"
    /\ torn
    /\ sql' = <<>>
    /\ UNCHANGED <<mode, pc, stmt, todo, cur, buf, arrow, torn, pq, queue, inTxn, snap,
                   fate, split, stops>>

(* The recovered rows of one table are buffered and flushed.                *)
RecoverTable(t) ==
    /\ mode = "recovering" /\ cur = NoTable
    /\ t \in todo
    /\ Accepts(t, arrow \cap Of(t))
    /\ pq' = Added(arrow \cap Of(t))
    /\ cur' = t
    /\ UNCHANGED <<mode, pc, stmt, todo, buf, arrow, torn, sql, queue, inTxn, snap,
                   fate, split, stops>>

(* Mutant: files that were read are erased even when new fails.             *)
RefusedErases(t) ==
    /\ mode = "recovering" /\ cur = NoTable
    /\ t \in todo
    /\ ~Accepts(t, arrow \cap Of(t))
    /\ mode' = "down"
    /\ arrow' = arrow \ Of(t)
    /\ todo' = {}
    /\ queue' = {}
    /\ UNCHANGED <<pc, stmt, cur, buf, torn, pq, sql, inTxn, snap, fate, split, stops>>

(* They are refused: new fails; replaying_wal keeps Drop from truncating.   *)
RecoverFails(t) ==
    /\ mode = "recovering" /\ cur = NoTable
    /\ t \in todo
    /\ ~Accepts(t, arrow \cap Of(t))
    /\ mode' = "down"
    /\ todo' = {}
    /\ queue' = {}
    /\ UNCHANGED <<pc, stmt, cur, buf, arrow, torn, pq, sql, inTxn, snap, fate, split, stops>>

(* Mutant: checkpoint_all instead of checkpoint_table.                      *)
CheckpointAllTables ==
    /\ cur # NoTable
    /\ arrow' = {}
    /\ todo' = todo \ {cur}
    /\ cur' = NoTable
    /\ UNCHANGED <<mode, pc, stmt, buf, torn, pq, sql, queue, inTxn, snap, fate, split, stops>>

(* flush_table, last part: ArrowWal::checkpoint_table.                      *)
CheckpointTable ==
    /\ cur # NoTable
    /\ arrow' = arrow \ Of(cur)
    /\ todo' = todo \ {cur}
    /\ cur' = NoTable
    /\ UNCHANGED <<mode, pc, stmt, buf, torn, pq, sql, queue, inTxn, snap, fate, split, stops>>

(* Every Arrow file is flushed; without replay entries new is done.         *)
StartReplay ==
    /\ mode = "recovering" /\ cur = NoTable /\ todo = {}
    /\ mode' = IF queue = {} THEN "open" ELSE "replaying"
    /\ UNCHANGED <<pc, stmt, todo, cur, buf, arrow, torn, pq, sql, queue, inTxn, snap,
                   fate, split, stops>>

(* execute(&entry.sql) under replaying_wal: an INSERT is direct, nothing is *)
(* logged.                                                                  *)
ReplayEntry ==
    /\ mode = "replaying" /\ pc = "idle" /\ queue # {}
    /\ \E i \in queue :
         /\ \A j \in queue : i <= j
         /\ stmt' = [NoStmt EXCEPT !.op = sql[i].op, !.tab = sql[i].tab, !.rows = sql[i].rows]
         /\ queue' = queue \ {i}
    /\ pc' = "apply"
    /\ UNCHANGED <<mode, todo, cur, buf, arrow, torn, pq, sql, inTxn, snap, fate, split, stops>>

ReplayDone ==
    /\ mode = "replaying" /\ pc = "idle" /\ queue = {}
    /\ sql' = <<>>
    /\ mode' = "open"
    /\ UNCHANGED <<pc, stmt, todo, cur, buf, arrow, torn, pq, queue, inTxn, snap,
                   fate, split, stops>>

-----------------------------------------------------------------------------
Ready(op) == op \in Ops /\ mode = "open" /\ pc = "idle"

(* handle_insert, buffered: buffer_insert_batches up to its threshold test. *)
(* A buffer with another column list is flushed first, which is a SELECT    *)
(* that names the table in this model.                                      *)
HandleInsert(r, full) ==
    /\ Ready("insert")
    /\ fate[r] = "new"
    /\ \A q \in buf : Home[q] = Home[r] => (q \in Partial <=> r \in Partial)
    /\ buf' = buf \cup {r}
    /\ arrow' = arrow \cup {r}
    /\ fate' = Set({r}, "tried")
    /\ stmt' = [NoStmt EXCEPT !.op = "insert", !.rows = {r}, !.tab = Home[r]]
    /\ pc' = "flush"
    /\ todo' = IF full THEN {Home[r]} ELSE {}
    /\ UNCHANGED <<mode, cur, torn, pq, sql, queue, inTxn, snap, split, stops>>

(* Any other statement: execute flushes what its text names and goes on. An *)
(* INSERT that must be written at once (RETURNING, FOREIGN KEY) flushes     *)
(* nothing.                                                                 *)
Start(st, flush) ==
    /\ Ready(st.op)
    /\ stmt' = st
    /\ pc' = "flush"
    /\ todo' = flush
    /\ UNCHANGED <<mode, cur, buf, arrow, torn, pq, sql, queue, inTxn, snap, split, stops>>

StartDirect(r) ==
    /\ fate[r] = "new"
    /\ Len(sql) < MaxLog
    /\ Start([NoStmt EXCEPT !.op = "direct", !.rows = {r}, !.tab = Home[r]], {})
    /\ fate' = Set({r}, "tried")

(* Mutant: DELETE does not flush the buffer first.                          *)
DeleteWithoutFlush(t, match) ==
    /\ ~inTxn
    /\ match # {} /\ match \subseteq Of(t)
    /\ Start([NoStmt EXCEPT !.op = "delete", !.rows = match, !.tab = t], {})
    /\ Len(sql) < MaxLog
    /\ UNCHANGED fate

(* match is what the WHERE clause selects. DELETE in a transaction is left  *)
(* to Transactions.tla.                                                     *)
StartDelete(t, match) ==
    /\ ~inTxn
    /\ match # {} /\ match \subseteq Of(t)
    /\ Start([NoStmt EXCEPT !.op = "delete", !.rows = match, !.tab = t], ToFlush({t}))
    /\ Len(sql) < MaxLog
    /\ UNCHANGED fate

StartSelect(named, reads) ==
    /\ <<named, reads>> \in Selects
    /\ Start([NoStmt EXCEPT !.op = "select", !.reads = reads], ToFlush(named))
    /\ UNCHANGED fate

StartCheckpoint ==
    /\ Start([NoStmt EXCEPT !.op = "checkpoint"], ToFlush(CheckpointNames))
    /\ UNCHANGED fate

StartTxn(op) ==
    /\ inTxn <=> op # "begin"
    /\ Start([NoStmt EXCEPT !.op = op], ToFlush({}))
    /\ UNCHANGED fate

-----------------------------------------------------------------------------
(* Mutant: the buffer entry is read, not taken.                             *)
FlushKeepsBuffer(t) ==
    /\ pc = "flush" /\ cur = NoTable
    /\ t \in todo
    /\ pq' = Added(buf \cap Of(t))
    /\ cur' = t
    /\ UNCHANGED <<mode, pc, stmt, todo, buf, arrow, torn, sql, queue, inTxn, snap, fate,
                   split, stops>>

(* flush_table, first part: the buffer entry is taken and written.          *)
FlushTable(t) ==
    /\ pc = "flush" /\ cur = NoTable
    /\ t \in todo
    /\ pq' = Added(buf \cap Of(t))
    /\ buf' = buf \ Of(t)
    /\ cur' = t
    /\ UNCHANGED <<mode, pc, stmt, todo, arrow, torn, sql, queue, inTxn, snap, fate, split, stops>>

(* The write fails: the entry is already out of the buffer, the statement   *)
(* returns the error.                                                       *)
FlushError(t) ==
    /\ "flushError" \in Ops
    /\ pc = "flush" /\ cur = NoTable
    /\ t \in todo
    /\ buf' = buf \ Of(t)
    /\ pc' = "idle"
    /\ stmt' = NoStmt
    /\ todo' = {}
    /\ UNCHANGED <<mode, cur, arrow, torn, pq, sql, queue, inTxn, snap, fate, split, stops>>

Flushed(op) == pc = "flush" /\ cur = NoTable /\ todo = {} /\ stmt.op = op

RunInsert ==
    /\ Flushed("insert")
    /\ pc' = "finish"
    /\ UNCHANGED <<mode, stmt, todo, cur, buf, arrow, torn, pq, sql, queue, inTxn, snap,
                   fate, split, stops>>

RunSelect ==
    /\ Flushed("select")
    /\ pc' = "idle"
    /\ stmt' = NoStmt
    /\ UNCHANGED <<mode, todo, cur, buf, arrow, torn, pq, sql, queue, inTxn, snap,
                   fate, split, stops>>

(* handle_checkpoint: both logs are emptied, or an error in a transaction.  *)
HandleCheckpoint ==
    /\ Flushed("checkpoint")
    /\ pc' = "idle"
    /\ stmt' = NoStmt
    /\ IF inTxn THEN UNCHANGED <<sql, arrow>>
                ELSE sql' = <<>> /\ arrow' = {}
    /\ UNCHANGED <<mode, todo, cur, buf, torn, pq, queue, inTxn, snap, fate, split, stops>>

(* wal_append_pending of a direct INSERT or a DELETE. From here on the rows *)
(* a DELETE finds may be gone.                                              *)
WalAppendPending ==
    /\ Flushed("direct") \/ Flushed("delete")
    /\ fate' = Set({r \in stmt.rows : stmt.op = "delete" /\ Here(r)}, "deleting")
    /\ sql' = Append(sql, [op |-> stmt.op, tab |-> stmt.tab, rows |-> stmt.rows,
                           live |-> ~inTxn])
    /\ pc' = "apply"
    /\ UNCHANGED <<mode, stmt, todo, cur, buf, arrow, torn, pq, queue, inTxn, snap,
                   split, stops>>

(* The direct INSERT writes its rows; a constraint refuses them only when   *)
(* they are there already.                                                  *)
ApplyDirect ==
    /\ pc = "apply" /\ stmt.op = "direct"
    /\ stmt.tab \in Unique => \A r \in stmt.rows : pq[r] = 0
    /\ pq' = Added(stmt.rows)
    /\ pc' = "finish"
    /\ UNCHANGED <<mode, stmt, todo, cur, buf, arrow, torn, sql, queue, inTxn, snap,
                   fate, split, stops>>

(* A replayed entry fails: new returns the error.                           *)
ReplayFails ==
    /\ mode = "replaying" /\ pc = "apply" /\ stmt.op = "direct"
    /\ stmt.tab \in Unique /\ \E r \in stmt.rows : pq[r] > 0
    /\ mode' = "down" /\ pc' = "idle" /\ stmt' = NoStmt /\ queue' = {}
    /\ UNCHANGED <<todo, cur, buf, arrow, torn, pq, sql, inTxn, snap, fate, split, stops>>

(* handle_delete: the survivors are read, the files deleted ...             *)
ApplyDelete ==
    /\ pc = "apply" /\ stmt.op = "delete"
    /\ stmt' = [stmt EXCEPT !.kept = [r \in Rows |->
                    IF r \in Of(stmt.tab) \ stmt.rows THEN pq[r] ELSE 0]]
    /\ pq' = [r \in Rows |-> IF r \in Of(stmt.tab) THEN 0 ELSE pq[r]]
    /\ pc' = "rewrite"
    /\ UNCHANGED <<mode, todo, cur, buf, arrow, torn, sql, queue, inTxn, snap,
                   fate, split, stops>>

(* ... and the survivors written (rewrite_table).                           *)
RewriteTable ==
    /\ pc = "rewrite"
    /\ pq' = [r \in Rows |-> IF r \in Of(stmt.tab) THEN stmt.kept[r] ELSE pq[r]]
    /\ pc' = "finish"
    /\ UNCHANGED <<mode, stmt, todo, cur, buf, arrow, torn, sql, queue, inTxn, snap,
                   fate, split, stops>>

(* wal_finish_autocommit (its policy may truncate the log) and the answer   *)
(* to the client; a replayed statement has neither.                         *)
Finish(truncate) ==
    /\ pc = "finish"
    /\ pc' = "idle"
    /\ stmt' = NoStmt
    /\ IF mode = "open"
         THEN /\ fate' = IF stmt.op = "delete"
                         THEN Set({r \in stmt.rows : fate[r] = "deleting"}, "deleted")
                         ELSE Set(stmt.rows, IF inTxn THEN "pending" ELSE "acked")
              /\ truncate => ~inTxn
              /\ sql' = IF truncate THEN <<>> ELSE sql
         ELSE ~truncate /\ UNCHANGED <<fate, sql>>
    /\ UNCHANGED <<mode, todo, cur, buf, arrow, torn, pq, queue, inTxn, snap, split, stops>>

-----------------------------------------------------------------------------
HandleBegin ==
    /\ Flushed("begin")
    /\ inTxn' = TRUE
    /\ snap' = pq
    /\ pc' = "idle" /\ stmt' = NoStmt
    /\ UNCHANGED <<mode, todo, cur, buf, arrow, torn, pq, sql, queue, fate, split, stops>>

(* handle_commit up to the marker, then the truncation.                     *)
HandleCommit ==
    /\ Flushed("commit")
    /\ inTxn' = FALSE
    /\ sql' = [i \in DOMAIN sql |-> [sql[i] EXCEPT !.live = TRUE]]
    /\ fate' = Set({r \in Rows : fate[r] = "pending"}, "acked")
    /\ pc' = "truncate" /\ stmt' = NoStmt
    /\ UNCHANGED <<mode, todo, cur, buf, arrow, torn, pq, queue, snap, split, stops>>

TruncateAfterCommit ==
    /\ pc = "truncate"
    /\ sql' = <<>>
    /\ pc' = "idle"
    /\ UNCHANGED <<mode, stmt, todo, cur, buf, arrow, torn, pq, queue, inTxn, snap,
                   fate, split, stops>>

(* Mutant: ROLLBACK takes away what BEGIN saw instead of what came after.   *)
RollbackSubtracts ==
    /\ Flushed("rollback")
    /\ inTxn' = FALSE
    /\ pq' = [r \in Rows |-> pq[r] - (1 - snap[r])]
    /\ sql' = <<>>
    /\ fate' = Set({r \in Rows : fate[r] = "pending"}, "deleted")
    /\ pc' = "idle" /\ stmt' = NoStmt
    /\ UNCHANGED <<mode, todo, cur, buf, arrow, torn, queue, snap, split, stops>>

(* handle_rollback: the files written since BEGIN are deleted.              *)
HandleRollback ==
    /\ Flushed("rollback")
    /\ inTxn' = FALSE
    /\ pq' = snap
    /\ sql' = <<>>
    /\ fate' = Set({r \in Rows : fate[r] = "pending"}, "deleted")
    /\ pc' = "idle" /\ stmt' = NoStmt
    /\ UNCHANGED <<mode, todo, cur, buf, arrow, torn, queue, snap, split, stops>>

-----------------------------------------------------------------------------
(* The process ends, with nothing of its memory left.                       *)
Stop ==
    /\ stops < MaxStops
    /\ stops' = stops + 1
    /\ mode' = "down" /\ pc' = "idle" /\ stmt' = NoStmt
    /\ todo' = {} /\ cur' = NoTable
    /\ buf' = {} /\ queue' = {}
    /\ inTxn' = FALSE

Lose(R) == [r \in Rows |-> IF fate[r] = "pending" THEN "aborted"
                           ELSE IF r \in R THEN "tried" ELSE fate[r]]

Crash ==
    /\ "crash" \in Ops
    /\ mode # "down"
    /\ Stop
    /\ split' = (split \/ cur # NoTable)
    /\ fate' = Lose({})
    /\ UNCHANGED <<arrow, torn, pq, sql, snap>>

(* A crash in the middle of ArrowWal::append leaves part of a file.         *)
CrashInAppend(r) ==
    /\ "torn" \in Ops
    /\ Ready("insert")
    /\ fate[r] = "new"
    /\ Stop
    /\ torn' = TRUE
    /\ fate' = Lose({r})
    /\ UNCHANGED <<arrow, pq, sql, snap, split>>

(* Drop: the SQL log is truncated unless rows are still buffered.           *)
Close ==
    /\ mode = "open" /\ pc = "idle"
    /\ Stop
    /\ sql' = IF buf = {} THEN <<>> ELSE sql
    /\ fate' = Lose({})
    /\ UNCHANGED <<arrow, torn, pq, snap, split>>

-----------------------------------------------------------------------------
Recovery ==
    \/ Open \/ OpenFails
    \/ \E t \in Tables : RecoverTable(t) \/ RecoverFails(t)
    \/ StartReplay \/ ReplayEntry \/ ReplayDone \/ ReplayFails

Execution ==
    \/ CheckpointTable
    \/ \E t \in Tables : FlushTable(t) \/ FlushError(t)
    \/ RunInsert \/ RunSelect \/ HandleCheckpoint
    \/ WalAppendPending \/ ApplyDirect \/ ApplyDelete \/ RewriteTable
    \/ \E truncate \in BOOLEAN : Finish(truncate)
    \/ HandleBegin \/ HandleCommit \/ TruncateAfterCommit \/ HandleRollback

Client ==
    \/ \E r \in Rows, full \in BOOLEAN : HandleInsert(r, full)
    \/ \E r \in Rows : StartDirect(r)
    \/ \E t \in Tables, match \in SUBSET Rows : StartDelete(t, match)
    \/ \E sel \in Selects : StartSelect(sel[1], sel[2])
    \/ StartCheckpoint
    \/ \E op \in {"begin", "commit", "rollback"} : StartTxn(op)
    \/ Close

Next == Recovery \/ Execution \/ Client \/ Crash \/ \E r \in Rows : CrashInAppend(r)

(* A process that runs goes on with what it has started, and someone starts *)
(* it again after it stopped. Nothing is assumed of clients or crashes.     *)
Spec == Init /\ [][Next]_vars /\ WF_vars(Recovery) /\ WF_vars(Execution)

-----------------------------------------------------------------------------
(* Type invariant of the buffer, the logs and the statement.                *)
TypeOK ==
    /\ mode \in Modes /\ pc \in Points /\ stmt \in Stmt
    /\ todo \subseteq Tables /\ cur \in Tables \cup {NoTable}
    /\ buf \subseteq Rows /\ arrow \subseteq Rows /\ torn \in BOOLEAN
    /\ pq \in [Rows -> Nat] /\ snap \in [Rows -> Nat]
    /\ sql \in Seq(LogEntry) /\ queue \in SUBSET DOMAIN sql
    /\ inTxn \in BOOLEAN
    /\ fate \in [Rows -> Fates]
    /\ split \in BOOLEAN /\ stops \in Nat

Settled == mode = "open" /\ pc = "idle"

(* Between two statements every acknowledged row is in its table or in the  *)
(* buffer, however the process was stopped since: flush_table, CHECKPOINT   *)
(* and recovery drop an Arrow file only when its rows are in Parquet. It is *)
(* what arrow_wal.rs promises: "buffered rows survive crashes".             *)
NoLoss == Settled => \A r \in Rows : fate[r] \in {"pending", "acked"} => Here(r)

(* A row that was acknowledged is in Parquet, in the buffer or in an Arrow  *)
(* file at every moment, also while the database is down and however often  *)
(* PotatoDB::new fails: a refused recovery erases nothing it has not        *)
(* written.                                                                 *)
KeptOnDisk ==
    \A r \in Rows : fate[r] \in {"pending", "acked"} => Here(r) \/ r \in arrow

(* A row is stored once, unless a crash fell between a flush's Parquet file *)
(* and its checkpoint_table.                                                *)
OnceUnlessSplit ==
    ~split => \A r \in Rows : pq[r] <= 1 /\ (r \in buf => pq[r] = 0)

(* What DELETE or ROLLBACK removed stays removed, across flushes, restarts  *)
(* and replays of the log.                                                  *)
RemovedStaysRemoved == Settled => \A r \in Rows : fate[r] = "deleted" => ~Here(r)

(* After a crash the database opens again when the Arrow files are whole and  *)
(* hold no rows of a partial INSERT: recovery comes to an end and the batches *)
(* are "read back and flushed to Parquet" (arrow_wal.rs), also where a crash  *)
(* in the middle of a flush left them in Parquet already.                     *)
Reopens == (mode = "down" /\ ~torn /\ arrow \cap Partial = {}) ~> (mode = "open")

(* DESIGN.md, Flush-before-read guarantee: "a SELECT immediately after      *)
(* INSERT always sees the inserted rows".                                   *)
ReadsSeeInserts ==
    Flushed("select") => \A r \in Rows :
        Home[r] \in stmt.reads /\ fate[r] \in {"pending", "acked"} => pq[r] > 0

(* No row is stored twice. DESIGN.md, Write-ahead log: the log replays a    *)
(* statement if the process crashes "before the Parquet file is fully       *)
(* written". It holds where every table has a unique key, which recovery    *)
(* checks, and is violated where none has.                                  *)
AppliedOnce == \A r \in Rows : pq[r] <= 1

(* README.md: BEGIN / COMMIT / ROLLBACK "provide atomic multi-statement     *)
(* transactions".                                                           *)
UncommittedGone == Settled => \A r \in Rows : fate[r] = "aborted" => ~Here(r)
=============================================================================
