----------------------------- MODULE TimeTravel -----------------------------
(***************************************************************************)
(* AS OF TIMESTAMP over captured snapshots, and the change log (CDC).      *)
(* crates/engine/src/lib.rs, sql_helpers.rs.                               *)
(*                                                                         *)
(* One table whose rows are versions, numbered in the order they come to   *)
(* be; Ingest and Transactions model how they get into the files.          *)
(***************************************************************************)
EXTENDS Integers, Sequences, FiniteSetsExt

CONSTANTS
    Changes,     \* bound: versions of the table
    Clock,       \* bound: the last moment
    Captures,    \* bound: snapshots kept when a transaction begins
    Retention,   \* snapshot_retention_ms
    Capacity,    \* cdc_capacity
    None         \* no plan, no transaction, no backup

ASSUME TimeConstants ==
    /\ Changes \in Nat /\ Clock \in Nat /\ Captures \in Nat
    /\ Retention \in Nat /\ Capacity \in Nat \ {0}
    /\ None \notin Int

VARIABLES
    disk,        \* the rows in the files of the table
    total,       \* and with the buffered rows
    fresh,       \* versions handed out so far
    txn,         \* active_txn
    snapshots,   \* snapshots
    enabled,     \* snapshots_enabled
    plan,        \* plan_cache, under the text that AS OF leaves: the rows it scans
    now,         \* Utc::now
    cdc,         \* cdc_log
    cdcFile,     \* _cdc_log.jsonl
    history      \* ghost: the rows on disk at each moment, None if not captured

rows == <<disk, total, fresh>>
captures == <<snapshots, enabled, history>>
changelog == <<cdc, cdcFile>>
vars == <<rows, txn, captures, plan, now, changelog>>

Moments == 0..Clock
Versions == 0..Changes
Snapshot == [ts : Moments, rows : Versions]
Operations == {"INSERT", "UPDATE", "COPY_FROM", "TRUNCATE"}

TypeOK ==
    /\ disk \in Versions /\ total \in Versions /\ fresh \in Versions
    /\ txn \in {None} \cup [files : Versions, backup : Versions \cup {None}]
    /\ snapshots \in Seq(Snapshot)
    /\ enabled \in BOOLEAN
    /\ plan \in Versions \cup {None}
    /\ now \in Moments
    /\ cdc \in Seq(Operations) /\ cdcFile \in Seq(Operations)
    /\ Len(cdc) <= Capacity
    /\ history \in [Moments -> Versions \cup {None}]

Init ==
    /\ disk = 0 /\ total = 0 /\ fresh = 0 /\ now = 0
    /\ txn = None
    /\ snapshots = <<[ts |-> 0, rows |-> 0]>> /\ enabled = FALSE
    /\ plan = None
    /\ cdc = << >> /\ cdcFile = << >>
    /\ history = [m \in Moments |-> None]

-----------------------------------------------------------------------------
(* capture_snapshot: the rows in the files, with the time; then the front   *)
(* is taken away up to the first that is not too old.                       *)
Capture(r) ==
    LET all == Append(snapshots, [ts |-> now, rows |-> r])
        young == {i \in DOMAIN all : now - all[i].ts <= Retention}
    IN  SubSeq(all, Min(young), Len(all))

(* What a statement leaves to the snapshots: one is taken after every       *)
(* mutating statement of the main path and by COMMIT, once they are enabled.*)
Captured(r) ==
    /\ snapshots' = IF enabled THEN Capture(r) ELSE snapshots
    /\ history' = [history EXCEPT ![now] = IF enabled THEN r ELSE None]
    /\ UNCHANGED enabled
NotCaptured(r) ==
    /\ history' = [history EXCEPT ![now] = IF r = disk THEN @ ELSE None]
    /\ UNCHANGED <<snapshots, enabled>>

(* Mutant: the log in memory has no limit.                                  *)
KeepAll(log) == log

(* record_cdc_event: into memory, the oldest out when full, and to the file.*)
Keep(log) == IF Len(log) > Capacity THEN Tail(log) ELSE log
RecordCdc(op) ==
    /\ cdc' = Keep(Append(cdc, op))
    /\ cdcFile' = Append(cdcFile, op)

(* Mutant: reading stops once the log is full.                              *)
RereadFirst(file) == SubSeq(file, 1, Min({Len(file), Capacity}))

(* open: every line of the file, then the oldest out while there are too    *)
(* many.                                                                    *)
Reread(file) == SubSeq(file, Max({1, Len(file) - Capacity + 1}), Len(file))

-----------------------------------------------------------------------------
(* handle_insert, buffered: the rows are acknowledged and not in a file,    *)
(* and not in the snapshot.                                                 *)
Insert ==
    /\ fresh < Changes
    /\ fresh' = fresh + 1 /\ total' = fresh + 1
    /\ plan' = None
    /\ Captured(disk) /\ RecordCdc("INSERT")
    /\ UNCHANGED <<disk, txn, now>>

(* UPDATE and DELETE: the buffer is flushed, the first one of a transaction *)
(* backs the table up, the table is rewritten. COPY appends a file.         *)
Write(op) ==
    /\ fresh < Changes
    /\ fresh' = fresh + 1 /\ total' = fresh + 1 /\ disk' = fresh + 1
    /\ txn' = IF op = "UPDATE" /\ txn # None /\ txn.backup = None
              THEN [txn EXCEPT !.backup = total] ELSE txn
    /\ plan' = None
    /\ Captured(fresh + 1) /\ RecordCdc(op)
    /\ UNCHANGED now

(* TRUNCATE is dispatched by its text: no plan is evicted, no snapshot      *)
(* taken, and the files that BEGIN listed are gone.                         *)
HandleTruncate ==
    /\ fresh < Changes
    /\ fresh' = fresh + 1 /\ total' = fresh + 1 /\ disk' = fresh + 1
    /\ txn' = IF txn # None THEN [txn EXCEPT !.files = fresh + 1] ELSE txn
    /\ NotCaptured(fresh + 1) /\ RecordCdc("TRUNCATE")
    /\ UNCHANGED <<plan, now>>

(* FLUSH, and a SELECT of the table: the buffered rows go into a file.      *)
Flush ==
    /\ disk # total
    /\ disk' = total
    /\ NotCaptured(total)
    /\ UNCHANGED <<total, fresh, txn, plan, now, changelog>>

-----------------------------------------------------------------------------
(* The snapshots that are not later than ts.                                *)
Found(snaps, ts) == {i \in DOMAIN snaps : snaps[i].ts <= ts}

(* Mutant: of several with one timestamp the first.                         *)
FirstNewestAt(snaps, ts) ==
    snaps[Min({i \in Found(snaps, ts) :
                 \A j \in Found(snaps, ts) : snaps[j].ts <= snaps[i].ts})].rows

(* The newest snapshot that is not later than ts; of several with one       *)
(* timestamp the last (max_by_key).                                         *)
NewestAt(snaps, ts) ==
    snaps[Max({i \in Found(snaps, ts) :
                 \A j \in Found(snaps, ts) : snaps[j].ts <= snaps[i].ts})].rows

(* The rows AS OF answers: those of the plan in the cache if there is one.  *)
AsOfAnswer(snaps, ts) == IF plan = None THEN NewestAt(snaps, ts) ELSE plan

(* execute_as_of_timestamp: the first one enables snapshots and takes one.  *)
(* The plan, over the rows of the snapshot, is cached under the text with   *)
(* the timestamp taken out. The statement returns before any flush.         *)
ExecuteAsOf(ts) ==
    LET snaps == IF enabled THEN snapshots ELSE Capture(disk) IN
    /\ enabled' = TRUE
    /\ snapshots' = snaps
    /\ history' = IF enabled THEN history ELSE [history EXCEPT ![now] = disk]
    /\ plan' = IF Found(snaps, ts) = {} THEN plan ELSE AsOfAnswer(snaps, ts)
    /\ UNCHANGED <<rows, txn, now, changelog>>

-----------------------------------------------------------------------------
HandleBegin ==
    /\ Len(snapshots) < Captures
    /\ txn = None
    /\ txn' = [files |-> total, backup |-> None]
    /\ disk' = total
    /\ NotCaptured(total)
    /\ UNCHANGED <<total, fresh, plan, now, changelog>>

HandleCommit ==
    /\ txn # None
    /\ txn' = None /\ disk' = total
    /\ Captured(total)
    /\ UNCHANGED <<total, fresh, plan, now, changelog>>

(* handle_rollback: the files of BEGIN, or the backup of a rewritten table. *)
(* No snapshot is taken, no plan evicted, no event taken back.              *)
HandleRollback ==
    LET r == IF txn.backup = None THEN txn.files ELSE txn.backup IN
    /\ txn # None
    /\ txn' = None
    /\ disk' = r /\ total' = r
    /\ NotCaptured(r)
    /\ UNCHANGED <<fresh, plan, now, changelog>>

(* The process ends outside a transaction and the database is opened again: *)
(* the events are read back, a snapshot is taken of the files as they are,  *)
(* then the buffered rows are recovered.                                    *)
Reopen ==
    /\ txn = None
    /\ plan' = None /\ enabled' = FALSE
    /\ cdc' = Reread(cdcFile)
    /\ snapshots' = <<[ts |-> now, rows |-> disk]>>
    /\ history' = [m \in Moments |-> None]
    /\ disk' = total
    /\ UNCHANGED <<total, fresh, txn, now, cdcFile>>

Tick ==
    /\ now < Clock
    /\ now' = now + 1
    /\ history' = [history EXCEPT ![now + 1] = history[now]]
    /\ UNCHANGED <<rows, txn, snapshots, enabled, plan, changelog>>

Next ==
    \/ Insert \/ HandleTruncate \/ Flush
    \/ \E op \in {"UPDATE", "COPY_FROM"} : Write(op)
    \/ \E ts \in Moments : ExecuteAsOf(ts)
    \/ HandleBegin \/ HandleCommit \/ HandleRollback
    \/ Reopen \/ Tick

Spec == Init /\ [][Next]_vars

-----------------------------------------------------------------------------
(* By the snapshots alone, AS OF TIMESTAMP ts finds the rows that were on   *)
(* disk at the end of moment ts, if they were captured: a later capture in  *)
(* the same moment wins, one of a later moment does not, and the retention  *)
(* window takes nothing that hides a newer state.                           *)
AsOfTruth ==
    \A ts \in 0..(now - 1) :
        history[ts] # None /\ Found(snapshots, ts) # {}
            => NewestAt(snapshots, ts) = history[ts]

(* The change log in memory, which SELECT FROM potatodb_cdc shows, is the   *)
(* end of the file, at its limit and after a restart.                       *)
CdcTail ==
    /\ Len(cdc) = Min({Len(cdcFile), Capacity})
    /\ cdc = SubSeq(cdcFile, Len(cdcFile) - Len(cdc) + 1, Len(cdcFile))

-----------------------------------------------------------------------------
(* README.md:14: "`AS OF TIMESTAMP` reads from captured snapshots". Of two  *)
(* AS OF queries of one text with two timestamps the second runs the plan   *)
(* of the first, over the snapshot of the first.                            *)
AsOfExact ==
    enabled => \A ts \in Moments :
        Found(snapshots, ts) # {} => AsOfAnswer(snapshots, ts) = NewestAt(snapshots, ts)

(* A snapshot holds committed rows. Not so: statements of a transaction are *)
(* captured one by one, and ROLLBACK takes no snapshot back.                *)
SnapshotsCommitted ==
    txn = None /\ enabled /\ disk = total => snapshots[Len(snapshots)].rows = disk
=============================================================================
