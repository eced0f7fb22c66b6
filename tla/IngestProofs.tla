---------------------------- MODULE IngestProofs ----------------------------
(***************************************************************************)
(* Proofs about the way of a row from INSERT to Parquet: types for every   *)
(* workload, and for buffered INSERTs, SELECTs, CHECKPOINTs, transactions, *)
(* crashes and failing recoveries that acknowledged rows are never lost,   *)
(* are stored once and are seen, and that those of a ROLLBACK stay away.   *)
(***************************************************************************)
EXTENDS Ingest, TLAPS

(* Where a statement may be in each mode; entries wait for their replay in  *)
(* two of them only, and the log does not change there.                     *)
Phases ==
    /\ mode \in {"down", "open"} => queue = {}
    /\ mode \in {"down", "recovering"} => pc = "idle"
    /\ mode = "replaying" => pc \in {"idle", "apply", "rewrite", "finish"}
    /\ cur # NoTable => mode = "recovering" \/ (mode = "open" /\ pc = "flush")
    /\ stmt.op \in {"direct", "delete"} => stmt.tab \in Tables
Typed == TypeOK /\ Phases

-----------------------------------------------------------------------------
(* Types.                                                                   *)
LEMMA NoStmtType == NoStmt \in Stmt /\ NoStmt.op = "none"
  BY DEF NoStmt, Stmt

LEMMA AddedType ==
    ASSUME TypeOK, NEW R PROVE Added(R) \in [Rows -> Nat]
  BY DEF TypeOK, Added

LEMMA SetType ==
    ASSUME TypeOK, NEW R, NEW f \in Fates PROVE Set(R, f) \in [Rows -> Fates]
  BY DEF TypeOK, Set

LEMMA LoseType ==
    ASSUME TypeOK, NEW R PROVE Lose(R) \in [Rows -> Fates]
  BY DEF TypeOK, Lose, Fates

LEMMA TablesOfType ==
    ASSUME NEW R \in SUBSET Rows PROVE TablesOf(R) \in SUBSET Tables
  BY IngestConstants DEF TablesOf

LEMMA ToFlushType ==
    ASSUME TypeOK, NEW named PROVE ToFlush(named) \in SUBSET Tables
  BY TablesOfType DEF TypeOK, ToFlush

LEMMA EmptyLog == <<>> \in Seq(LogEntry) /\ DOMAIN <<>> = {}
  OBVIOUS

LEMMA InitType == Init => Typed
  <1> SUFFICES ASSUME Init PROVE Typed
    OBVIOUS
  <1>1. sql \in Seq(LogEntry) /\ DOMAIN sql = {}
    BY DEF Init
  <1>2. pq \in [Rows -> Nat] /\ snap \in [Rows -> Nat] /\ fate \in [Rows -> Fates]
    BY DEF Init, Fates
  <1>3. Phases
    BY NoStmtType DEF Init, Phases
  <1> QED
    BY <1>1, <1>2, <1>3, NoStmtType DEF Init, Typed, TypeOK, Modes, Points

LEMMA RecoveryType == Typed /\ Recovery => Typed'
  <1> SUFFICES ASSUME Typed, Recovery PROVE Typed'
    OBVIOUS
  <1>1. CASE Open
    BY <1>1, TablesOfType DEF Open, Typed, TypeOK, Phases, Flushed, Ready, Modes
  <1>2. CASE OpenFails
    BY <1>2 DEF OpenFails, Typed, TypeOK, Phases, Flushed, Ready
  <1>3. ASSUME NEW t \in Tables, RecoverTable(t) PROVE Typed'
    BY <1>3, AddedType DEF RecoverTable, Typed, TypeOK, Phases, Flushed, Ready
  <1>4. ASSUME NEW t \in Tables, RecoverFails(t) PROVE Typed'
    BY <1>4 DEF RecoverFails, Typed, TypeOK, Phases, Flushed, Ready, Modes
  <1>5. CASE StartReplay
    BY <1>5 DEF StartReplay, Typed, TypeOK, Phases, Flushed, Ready, Modes
  <1>6. CASE ReplayEntry
    <2>1. PICK i \in queue :
            /\ stmt' = [NoStmt EXCEPT !.op = sql[i].op, !.tab = sql[i].tab, !.rows = sql[i].rows]
            /\ queue' = queue \ {i}
      BY <1>6 DEF ReplayEntry
    <2>2. sql[i] \in LogEntry
      BY <2>1 DEF Typed, TypeOK
    <2>3. stmt' \in Stmt /\ stmt'.tab \in Tables /\ queue' \in SUBSET DOMAIN sql
      BY <2>1, <2>2, NoStmtType DEF Typed, TypeOK, NoStmt, Stmt, LogEntry
    <2> QED
      BY <1>6, <2>3 DEF ReplayEntry, Typed, TypeOK, Phases, Points
  <1>7. CASE ReplayDone
    BY <1>7 DEF ReplayDone, Typed, TypeOK, Phases, Flushed, Ready, Modes
  <1>8. CASE ReplayFails
    BY <1>8, NoStmtType DEF ReplayFails, Typed, TypeOK, Phases, Flushed, Ready, Modes, Points
  <1> QED
    BY <1>1, <1>2, <1>3, <1>4, <1>5, <1>6, <1>7, <1>8 DEF Recovery

LEMMA ExecutionType == Typed /\ Execution => Typed'
  <1> SUFFICES ASSUME Typed, Execution PROVE Typed'
    OBVIOUS
  <1>1. CASE CheckpointTable
    BY <1>1 DEF CheckpointTable, Typed, TypeOK, Phases, Flushed, Ready
  <1>2. ASSUME NEW t \in Tables, FlushTable(t) PROVE Typed'
    BY <1>2, AddedType DEF FlushTable, Typed, TypeOK, Phases, Modes
  <1>3. ASSUME NEW t \in Tables, FlushError(t) PROVE Typed'
    BY <1>3, NoStmtType DEF FlushError, Typed, TypeOK, Phases, Flushed, Ready, Modes, Points
  <1>4. CASE RunInsert \/ RunSelect
    BY <1>4, NoStmtType DEF RunInsert, RunSelect, Typed, TypeOK, Phases, Flushed, Ready, Modes, Points
  <1>5. CASE HandleCheckpoint
    BY <1>5, NoStmtType, EmptyLog DEF HandleCheckpoint, Typed, TypeOK, Phases, Flushed, Modes, Points
  <1>6. CASE WalAppendPending
    <2>1. fate' \in [Rows -> Fates]
      BY <1>6, SetType DEF WalAppendPending, Typed, Fates
    <2>2. stmt.tab \in Tables
      BY <1>6 DEF WalAppendPending, Flushed, Typed, Phases
    <2>3. [op |-> stmt.op, tab |-> stmt.tab, rows |-> stmt.rows, live |-> ~inTxn] \in LogEntry
      BY <1>6, <2>2 DEF WalAppendPending, Flushed, Typed, TypeOK, Stmt, LogEntry
    <2>4. sql' \in Seq(LogEntry) /\ DOMAIN sql \subseteq DOMAIN sql'
      BY <1>6, <2>3 DEF WalAppendPending, Typed, TypeOK
    <2> QED
      BY <1>6, <2>1, <2>4 DEF WalAppendPending, Typed, TypeOK, Phases, Flushed, Modes, Points
  <1>7. CASE ApplyDirect
    <2>1. pq' \in [Rows -> Nat]
      BY <1>7, AddedType DEF ApplyDirect, Typed
    <2>2. Phases'
      BY <1>7 DEF ApplyDirect, Typed, Phases
    <2>3. TypeOK'
      BY <1>7, <2>1 DEF ApplyDirect, Typed, TypeOK, Points
    <2> QED
      BY <2>2, <2>3 DEF Typed
  <1>8. CASE ApplyDelete
    BY <1>8 DEF ApplyDelete, Typed, TypeOK, Phases, Flushed, Ready, Modes, Points, Stmt
  <1>9. CASE RewriteTable
    BY <1>9 DEF RewriteTable, Typed, TypeOK, Phases, Flushed, Ready, Modes, Points, Stmt
  <1>10. ASSUME NEW truncate \in BOOLEAN, Finish(truncate) PROVE Typed'
    <2>1. fate' \in [Rows -> Fates]
      BY <1>10, SetType DEF Finish, Typed, TypeOK, Fates
    <2>2. sql' \in Seq(LogEntry) /\ queue' \in SUBSET DOMAIN sql'
      BY <1>10, EmptyLog DEF Finish, Typed, TypeOK, Phases
    <2>3. Phases'
      BY <1>10, NoStmtType DEF Finish, Typed, TypeOK, Phases
    <2> QED
      BY <1>10, <2>1, <2>2, <2>3, NoStmtType DEF Finish, Typed, TypeOK, Points
  <1>11. CASE HandleBegin
    BY <1>11, NoStmtType DEF HandleBegin, Typed, TypeOK, Phases, Flushed, Ready, Modes, Points
  <1>12. CASE HandleCommit
    <2>1. fate' \in [Rows -> Fates]
      BY <1>12, SetType DEF HandleCommit, Typed, Fates
    <2>2. sql' \in Seq(LogEntry) /\ DOMAIN sql' = DOMAIN sql
      <3>1. \A i \in DOMAIN sql : [sql[i] EXCEPT !.live = TRUE] \in LogEntry
        <4>1. \A i \in DOMAIN sql : sql[i] \in LogEntry
          BY DEF Typed, TypeOK
        <4> QED
          BY <4>1 DEF LogEntry
      <3>2. DOMAIN sql = 1..Len(sql) /\ Len(sql) \in Nat
        BY DEF Typed, TypeOK
      <3>3. sql' = [i \in 1..Len(sql) |-> [sql[i] EXCEPT !.live = TRUE]]
        BY <1>12, <3>2 DEF HandleCommit
      <3> QED
        BY <3>1, <3>2, <3>3
    <2> QED
      BY <1>12, <2>1, <2>2, NoStmtType
         DEF HandleCommit, Typed, TypeOK, Phases, Flushed, Modes, Points
  <1>13. CASE TruncateAfterCommit
    BY <1>13, EmptyLog DEF TruncateAfterCommit, Typed, TypeOK, Phases, Modes, Points
  <1>14. CASE HandleRollback
    <2>1. fate' \in [Rows -> Fates]
      BY <1>14, SetType DEF HandleRollback, Typed, Fates
    <2> QED
      BY <1>14, <2>1, NoStmtType, EmptyLog
         DEF HandleRollback, Typed, TypeOK, Phases, Flushed, Modes, Points
  <1> QED
    BY <1>1, <1>2, <1>3, <1>4, <1>5, <1>6, <1>7, <1>8, <1>9, <1>10, <1>11, <1>12, <1>13, <1>14
       DEF Execution

LEMMA StartType ==
    ASSUME Typed, NEW st \in Stmt, NEW flush \in SUBSET Tables,
           Start(st, flush), fate' \in [Rows -> Fates],
           st.op \in {"direct", "delete"} => st.tab \in Tables
    PROVE  Typed'
  BY DEF Start, Typed, TypeOK, Phases, Flushed, Ready, Modes, Points

LEMMA StopType ==
    ASSUME Typed, Stop, fate' \in [Rows -> Fates], sql' \in Seq(LogEntry),
           arrow' = arrow, torn' \in BOOLEAN, pq' = pq, snap' = snap, split' \in BOOLEAN
    PROVE  Typed'
  <1>1. Phases'
    BY NoStmtType DEF Stop, Phases
  <1>2. stops' \in Nat
    BY DEF Stop, Typed, TypeOK
  <1>3. mode' \in Modes /\ pc' \in Points /\ stmt' \in Stmt
    BY NoStmtType DEF Stop, Modes, Points
  <1> QED
    BY <1>1, <1>2, <1>3 DEF Stop, Typed, TypeOK

LEMMA ClientType == Typed /\ Client => Typed'
  <1> SUFFICES ASSUME Typed, Client PROVE Typed'
    OBVIOUS
  <1>1. ASSUME NEW r \in Rows, NEW full \in BOOLEAN, HandleInsert(r, full) PROVE Typed'
    <2>1. fate' \in [Rows -> Fates]
      BY <1>1, SetType DEF HandleInsert, Fates, Typed
    <2>2. stmt' \in Stmt /\ stmt'.op = "insert" /\ todo' \in SUBSET Tables
      BY <1>1, IngestConstants DEF HandleInsert, NoStmt, Stmt
    <2> QED
      BY <1>1, <2>1, <2>2 DEF HandleInsert, Typed, TypeOK, Phases, Flushed, Ready, Modes, Points
  <1>2. ASSUME NEW r \in Rows, StartDirect(r) PROVE Typed'
    <2>1. fate' \in [Rows -> Fates]
      BY <1>2, SetType DEF StartDirect, Fates, Typed
    <2> DEFINE st == [NoStmt EXCEPT !.op = "direct", !.rows = {r}, !.tab = Home[r]]
    <2>2. st \in Stmt /\ st.tab \in Tables
      BY IngestConstants DEF NoStmt, Stmt
    <2>3. Start(st, {}) /\ {} \in SUBSET Tables
      BY <1>2 DEF StartDirect
    <2> HIDE DEF st
    <2> QED
      BY <2>1, <2>2, <2>3, StartType
  <1>3. ASSUME NEW t \in Tables, NEW match \in SUBSET Rows, StartDelete(t, match) PROVE Typed'
    <2>1. /\ [NoStmt EXCEPT !.op = "delete", !.rows = match, !.tab = t] \in Stmt
          /\ [NoStmt EXCEPT !.op = "delete", !.rows = match, !.tab = t].tab = t
      BY DEF NoStmt, Stmt
    <2> QED
      BY <1>3, <2>1, StartType, ToFlushType DEF StartDelete, Typed, TypeOK
  <1>4. ASSUME NEW sel \in Selects, StartSelect(sel[1], sel[2]) PROVE Typed'
    <2>1. /\ [NoStmt EXCEPT !.op = "select", !.reads = sel[2]] \in Stmt
          /\ [NoStmt EXCEPT !.op = "select", !.reads = sel[2]].op = "select"
      BY IngestConstants DEF NoStmt, Stmt
    <2> QED
      BY <1>4, <2>1, StartType, ToFlushType DEF StartSelect, Typed, TypeOK
  <1>5. CASE StartCheckpoint
    <2>1. /\ [NoStmt EXCEPT !.op = "checkpoint"] \in Stmt
          /\ [NoStmt EXCEPT !.op = "checkpoint"].op = "checkpoint"
      BY DEF NoStmt, Stmt
    <2> QED
      BY <1>5, <2>1, StartType, ToFlushType DEF StartCheckpoint, Typed, TypeOK
  <1>6. ASSUME NEW op \in {"begin", "commit", "rollback"}, StartTxn(op) PROVE Typed'
    <2>1. /\ [NoStmt EXCEPT !.op = op] \in Stmt
          /\ [NoStmt EXCEPT !.op = op].op = op
      BY DEF NoStmt, Stmt
    <2> QED
      BY <1>6, <2>1, StartType, ToFlushType DEF StartTxn, Typed, TypeOK
  <1>7. CASE Close
    <2>1. fate' \in [Rows -> Fates]
      BY <1>7, LoseType DEF Close, Typed
    <2>2. sql' \in Seq(LogEntry)
      BY <1>7, EmptyLog DEF Close, Typed, TypeOK
    <2> QED
      BY <1>7, <2>1, <2>2, StopType DEF Close, Typed, TypeOK
  <1> QED
    BY <1>1, <1>2, <1>3, <1>4, <1>5, <1>6, <1>7 DEF Client

LEMMA CrashType ==
    ASSUME Typed, Crash \/ \E r \in Rows : CrashInAppend(r) PROVE Typed'
  <1>1. fate' \in [Rows -> Fates]
    BY LoseType DEF Crash, CrashInAppend, Typed
  <1>2. split' \in BOOLEAN /\ torn' \in BOOLEAN
    BY DEF Crash, CrashInAppend, Typed, TypeOK
  <1> QED
    BY <1>1, <1>2, StopType DEF Crash, CrashInAppend, Typed, TypeOK

LEMMA NextType == Typed /\ [Next]_vars => Typed'
  <1>1. ASSUME Typed, UNCHANGED vars PROVE Typed'
    BY <1>1 DEF Typed, TypeOK, Phases, Flushed, Ready, vars
  <1> QED
    BY <1>1, RecoveryType, ExecutionType, ClientType, CrashType DEF Next

(* The buffer, both logs, the statement and what the client knows have      *)
(* their types for every set of tables, rows and statements.                *)
THEOREM TypeCorrect == Spec => []TypeOK
  <1>1. Typed => TypeOK
    BY DEF Typed
  <1> QED
    BY InitType, NextType, <1>1, PTL DEF Spec

-----------------------------------------------------------------------------
(* Durability. A DELETE rewrites its table in two steps, a failing flush    *)
(* drops rows from the buffer, and a table called CHECK keeps CHECKPOINT    *)
(* from flushing the others; without these the following is inductive.      *)
Undisturbed ==
    /\ Ops \cap {"delete", "flushError"} = {}
    /\ CheckpointNames = {}

(* A SELECT names every table it reads, or names none (it reads views).     *)
NamedReads == \A sel \in Selects : sel[1] = {} \/ sel[2] \subseteq sel[1]

(* Which statements there are, and where.                                   *)
Flow ==
    /\ stmt.op # "delete" /\ pc # "rewrite"
    /\ pc = "apply" => stmt.op = "direct"
    /\ pc = "finish" => stmt.op \in {"insert", "direct"}
    /\ pc = "flush" /\ stmt.op \in {"begin", "commit", "rollback"} =>
            (inTxn <=> stmt.op # "begin")
    /\ \A i \in DOMAIN sql : sql[i].op = "direct"
    /\ mode # "open" => buf = {} /\ ~inTxn
    /\ cur # NoTable => cur \in todo
    /\ "direct" \notin Ops => sql = <<>> /\ stmt.op # "direct"

(* An Arrow file holds rows that are still in the buffer, or whose table    *)
(* has just been written to Parquet, or that recovery still has to flush.   *)
Backed ==
    /\ mode = "open" => /\ buf \subseteq arrow
                        /\ \A r \in arrow \ buf : Home[r] = cur
    /\ mode = "recovering" => TablesOf(arrow) \subseteq todo
    /\ mode = "replaying" => arrow = {}
    /\ cur # NoTable => /\ \A r \in arrow : Home[r] = cur => pq[r] > 0
                        /\ \A r \in buf : Home[r] # cur

(* What the statement has to flush first, and where its rows are.           *)
InFlight ==
    /\ pc = "flush" /\ stmt.op \in {"begin", "commit", "rollback", "checkpoint"} =>
            TablesOf(buf) \subseteq todo
    /\ pc = "flush" /\ stmt.op = "select" /\ NamedReads =>
            TablesOf(buf) \cap stmt.reads \subseteq todo
    /\ \A r \in stmt.rows :
            /\ fate[r] \notin {"new", "deleted"}
            /\ inTxn => snap[r] = 0
            /\ stmt.op = "insert" \/ pc = "finish" => pq[r] > 0 \/ r \in arrow

(* Where the rows are that the client was told of, or was told are gone.    *)
Told ==
    \A r \in Rows :
        /\ fate[r] \in {"pending", "acked"} => pq[r] > 0 \/ r \in arrow
        /\ fate[r] = "pending" => inTxn /\ snap[r] = 0
        /\ fate[r] = "acked" /\ inTxn => snap[r] > 0
        /\ fate[r] \in {"new", "deleted"} =>
               /\ pq[r] = 0 /\ r \notin arrow
               /\ inTxn => snap[r] = 0
               /\ \A i \in DOMAIN sql : r \notin sql[i].rows

(* Without direct INSERTs a row of an Arrow file is not in Parquet yet, but *)
(* for the table between its write and its clean-up.                        *)
Once ==
    "direct" \notin Ops /\ ~split =>
        \A r \in Rows : /\ pq[r] <= 1
                        /\ r \in arrow /\ Home[r] # cur => pq[r] = 0
                        /\ inTxn => snap[r] <= 1

IInv == Typed /\ Flow /\ Backed /\ InFlight /\ Told /\ Once

(* IInv without its types.                                                  *)
Durable == Flow /\ Backed /\ InFlight /\ Told /\ Once

LEMMA AllFlushed ==
    ASSUME IInv, Undisturbed, mode = "open", pc = "flush", cur = NoTable, todo = {},
           stmt.op \in {"begin", "commit", "rollback", "checkpoint"}
    PROVE  buf = {} /\ arrow = {}
  <1>1. TablesOf(buf) = {}
    BY DEF IInv, InFlight
  <1>2. buf = {}
    BY <1>1 DEF TablesOf, IInv, Typed, TypeOK
  <1>3. \A r \in arrow : Home[r] \in Tables
    BY IngestConstants DEF IInv, Typed, TypeOK
  <1> QED
    BY <1>2, <1>3, IngestConstants DEF IInv, Backed

LEMMA RecoveryDurable ==
    ASSUME Undisturbed, IInv, Typed', Recovery PROVE Durable'
  <1>1. CASE Open
    BY <1>1, IngestConstants, SMTT(30) DEF Open, Durable, IInv, Typed, TypeOK, Phases, Flow, Backed, InFlight, Told, Once, Undisturbed, Stmt
  <1>2. CASE OpenFails
    BY <1>2, IngestConstants, SMTT(30) DEF OpenFails, Durable, IInv, Typed, TypeOK, Phases, Flow, Backed, InFlight, Told, Once, Undisturbed, Stmt
  <1>3. ASSUME NEW t \in Tables, RecoverTable(t) PROVE Durable'
    <2>1. Flow'
      BY <1>3, IngestConstants DEF RecoverTable, Added, Of, IInv, Typed, TypeOK, Phases, Flow, Backed, InFlight, Told, Once, Stmt
    <2>2. Backed'
      BY <1>3, IngestConstants DEF RecoverTable, Added, Of, IInv, Typed, TypeOK, Phases, Flow, Backed, InFlight, Told, Once, Stmt
    <2>3. InFlight'
      BY <1>3, IngestConstants DEF RecoverTable, Added, Of, IInv, Typed, TypeOK, Phases, Flow, Backed, InFlight, Told, Once, Stmt
    <2>4. Told'
      BY <1>3, IngestConstants DEF RecoverTable, Added, Of, IInv, Typed, TypeOK, Phases, Flow, Backed, InFlight, Told, Once, Stmt
    <2>5. Once'
      BY <1>3, IngestConstants DEF RecoverTable, Added, Of, IInv, Typed, TypeOK, Phases, Flow, Backed, InFlight, Told, Once, Stmt
    <2> QED
      BY <2>1, <2>2, <2>3, <2>4, <2>5 DEF Durable
  <1>4. ASSUME NEW t \in Tables, RecoverFails(t) PROVE Durable'
    BY <1>4, IngestConstants, SMTT(30) DEF RecoverFails, Durable, IInv, Typed, TypeOK, Phases, Flow, Backed, InFlight, Told, Once, Undisturbed, Stmt
  <1>5. CASE StartReplay
    <2>1. arrow = {}
      BY <1>5 DEF StartReplay, TablesOf, IInv, Typed, TypeOK, Backed
    <2> QED
      BY <1>5, <2>1, IngestConstants, SMTT(30) DEF StartReplay, TablesOf, Durable, IInv, Typed, TypeOK, Phases, Flow, Backed, InFlight, Told, Once, Undisturbed, Stmt
  <1>6. CASE ReplayEntry
    <2>1. PICK i \in DOMAIN sql : stmt'.rows = sql[i].rows /\ stmt'.op = sql[i].op
      BY <1>6 DEF ReplayEntry, NoStmt, IInv, Typed, TypeOK
    <2>2. sql[i] \in LogEntry
      BY DEF IInv, Typed, TypeOK
    <2>4. sql[i].rows \subseteq Rows /\ sql[i].op = "direct"
      BY <2>2 DEF LogEntry, IInv, Flow
    <2>3. \A r \in stmt'.rows : fate[r] \notin {"new", "deleted"}
      BY <2>1, <2>4 DEF IInv, Told
    <2> QED
      BY <1>6, <2>1, <2>3, <2>4, IngestConstants, SMTT(30) DEF ReplayEntry, Durable, IInv, Typed, TypeOK, Phases, Flow, Backed, InFlight, Told, Once, Undisturbed, Stmt
  <1>7. CASE ReplayDone
    BY <1>7, IngestConstants, SMTT(30) DEF ReplayDone, Durable, IInv, Typed, TypeOK, Phases, Flow, Backed, InFlight, Told, Once, Undisturbed, Stmt
  <1>8. CASE ReplayFails
    BY <1>8, IngestConstants, SMTT(30) DEF ReplayFails, NoStmt, Durable, IInv, Typed, TypeOK, Phases, Flow, Backed, InFlight, Told, Once, Undisturbed, Stmt
  <1> QED
    BY <1>1, <1>2, <1>3, <1>4, <1>5, <1>6, <1>7, <1>8 DEF Recovery

LEMMA ExecutionDurable ==
    ASSUME Undisturbed, IInv, Typed', Execution PROVE Durable'
  <1>1. CASE CheckpointTable
    BY <1>1, IngestConstants, SMTT(30) DEF CheckpointTable, Of, TablesOf, Durable, IInv, Typed, TypeOK, Phases, Flow, Backed, InFlight, Told, Once, Undisturbed, Stmt
  <1>2. ASSUME NEW t \in Tables, FlushTable(t) PROVE Durable'
    BY <1>2, IngestConstants, SMTT(30) DEF FlushTable, Added, Of, TablesOf, Durable, IInv, Typed, TypeOK, Phases, Flow, Backed, InFlight, Told, Once, Undisturbed, Stmt
  <1>3. CASE RunInsert
    BY <1>3, IngestConstants, SMTT(30) DEF RunInsert, Flushed, Durable, IInv, Typed, TypeOK, Phases, Flow, Backed, InFlight, Told, Once, Undisturbed, Stmt
  <1>4. CASE RunSelect
    BY <1>4, IngestConstants, SMTT(30) DEF RunSelect, Flushed, NoStmt, Durable, IInv, Typed, TypeOK, Phases, Flow, Backed, InFlight, Told, Once, Undisturbed, Stmt
  <1>5. CASE HandleCheckpoint
    <2>1. buf = {} /\ arrow = {} /\ mode = "open"
      BY <1>5, AllFlushed DEF HandleCheckpoint, Flushed, IInv, Typed, TypeOK, Phases, Modes
    <2> QED
      BY <1>5, <2>1, IngestConstants, SMTT(30) DEF HandleCheckpoint, Flushed, NoStmt, Durable, IInv, Typed, TypeOK, Phases, Flow, Backed, InFlight, Told, Once, Undisturbed, Stmt
  <1>6. CASE WalAppendPending
    BY <1>6, IngestConstants, SMTT(30) DEF WalAppendPending, Flushed, Set, Durable, IInv, Typed, TypeOK, Phases, Flow, Backed, InFlight, Told, Once, Undisturbed, Stmt
  <1>7. CASE ApplyDirect
    BY <1>7, IngestConstants, SMTT(30) DEF ApplyDirect, Added, Durable, IInv, Typed, TypeOK, Phases, Flow, Backed, InFlight, Told, Once, Undisturbed, Stmt
  <1>8. ASSUME NEW truncate \in BOOLEAN, Finish(truncate) PROVE Durable'
    BY <1>8, IngestConstants, SMTT(30) DEF Finish, Set, NoStmt, Durable, IInv, Typed, TypeOK, Phases, Flow, Backed, InFlight, Told, Once, Undisturbed, Stmt
  <1>9. CASE HandleBegin
    <2>1. buf = {} /\ arrow = {} /\ mode = "open"
      BY <1>9, AllFlushed DEF HandleBegin, Flushed, IInv, Typed, TypeOK, Phases, Modes
    <2>2. Flow'
      BY <1>9, <2>1 DEF HandleBegin, Flushed, NoStmt, IInv, Typed, TypeOK, Phases, Flow, Backed, InFlight, Told, Once
    <2>3. Backed'
      BY <1>9, <2>1 DEF HandleBegin, Flushed, NoStmt, IInv, Typed, TypeOK, Phases, Flow, Backed, InFlight, Told, Once
    <2>4. InFlight'
      BY <1>9, <2>1 DEF HandleBegin, Flushed, NoStmt, IInv, Typed, TypeOK, Phases, Flow, Backed, InFlight, Told, Once
    <2>5. Told'
      BY <1>9, <2>1 DEF HandleBegin, Flushed, NoStmt, IInv, Typed, TypeOK, Phases, Flow, Backed, InFlight, Told, Once
    <2>6. Once'
      BY <1>9, <2>1 DEF HandleBegin, Flushed, NoStmt, IInv, Typed, TypeOK, Phases, Flow, Backed, InFlight, Told, Once
    <2> QED
      BY <2>2, <2>3, <2>4, <2>5, <2>6 DEF Durable
  <1>10. CASE HandleCommit
    <2>1. DOMAIN sql' = DOMAIN sql /\ \A i \in DOMAIN sql : sql'[i].op = sql[i].op /\ sql'[i].rows = sql[i].rows
      <3>1. \A i \in DOMAIN sql : sql[i] \in LogEntry
        BY DEF IInv, Typed, TypeOK
      <3>2. sql' = [i \in DOMAIN sql |-> [sql[i] EXCEPT !.live = TRUE]]
        BY <1>10 DEF HandleCommit
      <3> QED
        BY <3>1, <3>2 DEF LogEntry
    <2>2. Flow'
      BY <1>10, <2>1 DEF HandleCommit, Flushed, NoStmt, Set, IInv, Typed, TypeOK, Phases, Flow, Backed, InFlight, Told, Once
    <2>3. Backed'
      BY <1>10, <2>1 DEF HandleCommit, Flushed, NoStmt, Set, IInv, Typed, TypeOK, Phases, Flow, Backed, InFlight, Told, Once
    <2>4. InFlight'
      BY <1>10, <2>1 DEF HandleCommit, Flushed, NoStmt, Set, IInv, Typed, TypeOK, Phases, Flow, Backed, InFlight, Told, Once
    <2>5. Told'
      BY <1>10, <2>1 DEF HandleCommit, Flushed, NoStmt, Set, IInv, Typed, TypeOK, Phases, Flow, Backed, InFlight, Told, Once
    <2>6. Once'
      BY <1>10, <2>1 DEF HandleCommit, Flushed, NoStmt, Set, IInv, Typed, TypeOK, Phases, Flow, Backed, InFlight, Told, Once
    <2> QED
      BY <2>2, <2>3, <2>4, <2>5, <2>6 DEF Durable
  <1>11. CASE TruncateAfterCommit
    BY <1>11, IngestConstants, SMTT(30) DEF TruncateAfterCommit, Durable, IInv, Typed, TypeOK, Phases, Flow, Backed, InFlight, Told, Once, Undisturbed, Stmt
  <1>12. CASE HandleRollback
    <2>1. buf = {} /\ arrow = {} /\ mode = "open"
      BY <1>12, AllFlushed DEF HandleRollback, Flushed, IInv, Typed, TypeOK, Phases, Modes
    <2> QED
      BY <1>12, <2>1, IngestConstants, SMTT(30) DEF HandleRollback, Flushed, NoStmt, Set, Durable, IInv, Typed, TypeOK, Phases, Flow, Backed, InFlight, Told, Once, Undisturbed, Stmt
  <1>13. ASSUME NEW t \in Tables PROVE ~FlushError(t) /\ ~ApplyDelete /\ ~RewriteTable
    BY DEF FlushError, ApplyDelete, RewriteTable, Undisturbed, IInv, Flow
  <1> QED
    BY <1>1, <1>2, <1>3, <1>4, <1>5, <1>6, <1>7, <1>8, <1>9, <1>10, <1>11, <1>12, <1>13 DEF Execution, ApplyDelete, RewriteTable, IInv, Flow

LEMMA ClientDurable ==
    ASSUME Undisturbed, IInv, Typed', Client PROVE Durable'
  <1>1. ASSUME NEW r \in Rows, NEW full \in BOOLEAN, HandleInsert(r, full) PROVE Durable'
    BY <1>1, IngestConstants, SMTT(30) DEF HandleInsert, Ready, Set, NoStmt, Durable, IInv, Typed, TypeOK, Phases, Flow, Backed, InFlight, Told, Once, Undisturbed, Stmt
  <1>2. ASSUME NEW r \in Rows, StartDirect(r) PROVE Durable'
    BY <1>2, IngestConstants, SMTT(30) DEF StartDirect, Start, Ready, Set, NoStmt, Durable, IInv, Typed, TypeOK, Phases, Flow, Backed, InFlight, Told, Once, Undisturbed, Stmt
  <1>3. ASSUME NEW sel \in Selects, StartSelect(sel[1], sel[2]) PROVE Durable'
    <2>1. todo' = ToFlush(sel[1]) /\ stmt'.reads = sel[2] /\ buf' = buf
      BY <1>3 DEF StartSelect, Start, NoStmt
    <2>2. NamedReads => TablesOf(buf) \cap sel[2] \subseteq ToFlush(sel[1])
      BY DEF NamedReads, ToFlush
    <2>3. stmt'.rows = {} /\ stmt'.op = "select" /\ TablesOf(buf)' = TablesOf(buf)
      BY <1>3 DEF StartSelect, Start, NoStmt, TablesOf
    <2> QED
      BY <1>3, <2>1, <2>2, <2>3, IngestConstants, SMTT(30) DEF StartSelect, Start, Ready, Durable, IInv, Typed, TypeOK, Phases, Flow, Backed, InFlight, Told, Once, Undisturbed, Stmt
  <1>4. CASE StartCheckpoint
    BY <1>4, IngestConstants, SMTT(30) DEF StartCheckpoint, Start, Ready, NoStmt, ToFlush, Durable, IInv, Typed, TypeOK, Phases, Flow, Backed, InFlight, Told, Once, Undisturbed, Stmt
  <1>5. ASSUME NEW op \in {"begin", "commit", "rollback"}, StartTxn(op) PROVE Durable'
    BY <1>5, IngestConstants, SMTT(30) DEF StartTxn, Start, Ready, NoStmt, ToFlush, Durable, IInv, Typed, TypeOK, Phases, Flow, Backed, InFlight, Told, Once, Undisturbed, Stmt
  <1>6. CASE Close
    BY <1>6, IngestConstants, SMTT(30) DEF Close, Stop, Lose, NoStmt, Durable, IInv, Typed, TypeOK, Phases, Flow, Backed, InFlight, Told, Once, Undisturbed, Stmt
  <1>7. ASSUME NEW t \in Tables, NEW match \in SUBSET Rows PROVE ~StartDelete(t, match)
    BY DEF StartDelete, Start, Ready, NoStmt, Undisturbed
  <1> QED
    BY <1>1, <1>2, <1>3, <1>4, <1>5, <1>6, <1>7 DEF Client

LEMMA CrashDurable ==
    ASSUME Undisturbed, IInv, Typed', Crash \/ \E r \in Rows : CrashInAppend(r) PROVE Durable'
  <1>1. CASE Crash
    <2>1. ~split' => ~split /\ cur = NoTable
      BY <1>1 DEF Crash, IInv, Typed, TypeOK
    <2> QED
      BY <1>1, <2>1, IngestConstants, SMTT(30) DEF Crash, Stop, Lose, NoStmt, Durable, IInv, Typed, TypeOK, Phases, Flow, Backed, InFlight, Told, Once, Undisturbed, Stmt
  <1>2. ASSUME NEW r \in Rows, CrashInAppend(r) PROVE Durable'
    BY <1>2, IngestConstants, SMTT(30) DEF CrashInAppend, Stop, Lose, NoStmt, Ready, Durable, IInv, Typed, TypeOK, Phases, Flow, Backed, InFlight, Told, Once, Undisturbed, Stmt
  <1> QED
    BY <1>1, <1>2

LEMMA InitDurable == Init => IInv
  <1> SUFFICES ASSUME Init PROVE IInv
    OBVIOUS
  <1>1. stmt.op = "none" /\ stmt.rows = {}
    BY DEF Init, NoStmt
  <1>2. DOMAIN sql = {} /\ TablesOf(arrow) = {}
    BY DEF Init, TablesOf
  <1> QED
    BY <1>1, <1>2, InitType DEF Init, IInv, Flow, Backed, InFlight, Told, Once

LEMMA NextDurable ==
    ASSUME Undisturbed PROVE IInv /\ [Next]_vars => IInv'
  <1> SUFFICES ASSUME IInv, [Next]_vars PROVE IInv'
    OBVIOUS
  <1>1. Typed'
    BY NextType DEF IInv
  <1>2. CASE UNCHANGED vars
    BY <1>1, <1>2 DEF vars, IInv, Flow, Backed, InFlight, Told, Once, TablesOf
  <1>3. CASE Next
    <2>1. Durable'
      BY <1>1, <1>3, RecoveryDurable, ExecutionDurable, ClientDurable, CrashDurable DEF Next
    <2> QED
      BY <1>1, <2>1 DEF IInv, Durable
  <1> QED
    BY <1>2, <1>3

LEMMA Inductive == ASSUME Undisturbed PROVE Spec => []IInv
  BY InitDurable, NextDurable, PTL DEF Spec

(* Whatever the crashes, incomplete files and refused recoveries, a row the *)
(* client was told of is in Parquet, in the buffer or in an Arrow file.     *)
THEOREM AcknowledgedKept == ASSUME Undisturbed PROVE Spec => []KeptOnDisk
  <1>1. IInv => KeptOnDisk
    BY DEF IInv, Told, KeptOnDisk, Here
  <1> QED
    BY <1>1, Inductive, PTL

(* ... and where the next statement finds it once the database is open.     *)
THEOREM AcknowledgedFound == ASSUME Undisturbed PROVE Spec => []NoLoss
  <1>1. IInv => NoLoss
    <2> SUFFICES ASSUME IInv, Settled, NEW r \in Rows, fate[r] \in {"pending", "acked"}
                 PROVE  Here(r)
      BY DEF NoLoss
    <2>1. cur = NoTable
      BY DEF IInv, Typed, Phases, Settled
    <2>2. arrow \subseteq buf
      BY <2>1, IngestConstants DEF IInv, Typed, TypeOK, Backed, Settled
    <2> QED
      BY <2>2 DEF IInv, Told, Here
  <1> QED
    BY <1>1, Inductive, PTL

(* Rows of a rolled back transaction never come back, from the buffer, an   *)
(* Arrow file or the log.                                                   *)
THEOREM RolledBackGone == ASSUME Undisturbed PROVE Spec => []RemovedStaysRemoved
  <1>1. IInv => RemovedStaysRemoved
    BY DEF IInv, Typed, TypeOK, Told, Backed, RemovedStaysRemoved, Settled, Here
  <1> QED
    BY <1>1, Inductive, PTL

(* A SELECT whose text names the tables it reads, or none of them, finds    *)
(* every row that was acknowledged before it.                               *)
THEOREM SelectsSee ==
    ASSUME Undisturbed, NamedReads PROVE Spec => []ReadsSeeInserts
  <1>1. IInv => ReadsSeeInserts
    <2> SUFFICES ASSUME IInv, Flushed("select"), NEW r \in Rows, Home[r] \in stmt.reads,
                        fate[r] \in {"pending", "acked"}
                 PROVE  pq[r] > 0
      BY DEF ReadsSeeInserts
    <2>1. r \notin buf
      BY DEF IInv, InFlight, Flushed, TablesOf
    <2>2. mode = "open" /\ cur = NoTable /\ Home[r] # NoTable
      BY IngestConstants DEF IInv, Typed, TypeOK, Phases, Modes, Flushed
    <2> QED
      BY <2>1, <2>2 DEF IInv, Told, Backed
  <1> QED
    BY <1>1, Inductive, PTL

(* Buffered INSERTs are stored once, but for a crash between a flush's      *)
(* Parquet file and checkpoint_table; a failed recovery repeats none.       *)
THEOREM StoredOnce ==
    ASSUME Undisturbed, "direct" \notin Ops PROVE Spec => []OnceUnlessSplit
  <1>1. IInv => OnceUnlessSplit
    BY IngestConstants DEF IInv, Typed, TypeOK, Phases, Modes, Backed, Once, Flow, OnceUnlessSplit
  <1> QED
    BY <1>1, Inductive, PTL

-----------------------------------------------------------------------------
(* Rows are stored once, with every statement and failure of the module,    *)
(* where every table has a unique key. Recovery and a replayed INSERT ask   *)
(* the table before they write; a flush and a new INSERT do not, so a row   *)
(* in the buffer must not be anywhere that could be written, and a row that *)
(* was never inserted must not be anywhere at all.                          *)
Unstored(r) == pq[r] = 0 /\ (pc = "rewrite" => stmt.kept[r] = 0)

Unseen(r) ==
    /\ Unstored(r) /\ r \notin buf /\ r \notin arrow
    /\ inTxn => snap[r] = 0
    /\ r \in stmt.rows => stmt.op = "delete"
    /\ \A i \in DOMAIN sql : r \in sql[i].rows => sql[i].op = "delete"

Single ==
    \A r \in Rows :
        /\ pq[r] <= 1
        /\ inTxn => snap[r] <= 1
        /\ pc = "rewrite" => stmt.kept[r] <= 1
        /\ fate[r] = "new" => Unseen(r)
        /\ r \in buf => Unstored(r) /\ (r \in stmt.rows => stmt.op # "direct")

(* ROLLBACK restores the files of BEGIN when nothing is buffered any more.  *)
Steps ==
    /\ mode # "open" => buf = {} /\ ~inTxn
    /\ pc = "rewrite" => stmt.op = "delete"
    /\ cur # NoTable => \A r \in buf : Home[r] # cur
    /\ pc = "flush" /\ stmt.op = "rollback" => inTxn /\ TablesOf(buf) \subseteq todo

OnceInv == Typed /\ Steps /\ Single

LEMMA NoTables == ASSUME NEW S, TablesOf(S) = {} PROVE S = {}
  <1>1. \A r \in S : Home[r] \in TablesOf(S)
    BY DEF TablesOf
  <1> QED
    BY <1>1

LEMMA RecoveryOnce ==
    ASSUME Tables \subseteq Unique, OnceInv, Typed', Recovery PROVE Steps' /\ Single'
  <1> USE DEF OnceInv, Typed, TypeOK, Phases, Steps, Single, Unseen, Unstored
  <1>1. CASE Open
    BY <1>1 DEF Open
  <1>2. CASE OpenFails
    BY <1>2, EmptyLog DEF OpenFails
  <1>3. ASSUME NEW t \in Tables, RecoverTable(t) PROVE Steps' /\ Single'
    <2>1. \A r \in arrow \cap Of(t) : pq[r] = 0
      BY <1>3 DEF RecoverTable, Accepts
    <2>2. \A r \in Rows : pq'[r] = IF r \in arrow \cap Of(t) THEN pq[r] + 1 ELSE pq[r]
      BY <1>3 DEF RecoverTable, Added
    <2>3. Steps'
      BY <1>3 DEF RecoverTable
    <2>4. UNCHANGED <<pc, stmt, buf, arrow, sql, inTxn, snap, fate>> /\ buf = {}
      BY <1>3 DEF RecoverTable
    <2>5. \A r \in Rows : pq'[r] <= 1 /\ (r \notin arrow => pq'[r] = pq[r])
      BY <2>1, <2>2
    <2>6. Single'
      BY <2>4, <2>5
    <2> QED
      BY <2>3, <2>6
  <1>4. ASSUME NEW t \in Tables, RecoverFails(t) PROVE Steps' /\ Single'
    BY <1>4 DEF RecoverFails
  <1>5. CASE StartReplay
    BY <1>5 DEF StartReplay
  <1>6. CASE ReplayEntry
    <2>1. PICK i \in DOMAIN sql : stmt'.rows = sql[i].rows /\ stmt'.op = sql[i].op
      BY <1>6 DEF ReplayEntry, NoStmt
    <2> QED
      BY <1>6, <2>1 DEF ReplayEntry
  <1>7. CASE ReplayDone
    BY <1>7, EmptyLog DEF ReplayDone
  <1>8. CASE ReplayFails
    BY <1>8 DEF ReplayFails, NoStmt
  <1> QED
    BY <1>1, <1>2, <1>3, <1>4, <1>5, <1>6, <1>7, <1>8 DEF Recovery

LEMMA ExecutionOnce ==
    ASSUME Tables \subseteq Unique, OnceInv, Typed', Execution PROVE Steps' /\ Single'
  <1> USE DEF OnceInv, Typed, TypeOK, Phases, Steps, Single, Unseen, Unstored
  <1>1. CASE CheckpointTable
    BY <1>1, IngestConstants DEF CheckpointTable, TablesOf
  <1>2. ASSUME NEW t \in Tables, FlushTable(t) PROVE Steps' /\ Single'
    <2>1. \A r \in Rows : pq'[r] = IF r \in buf \cap Of(t) THEN pq[r] + 1 ELSE pq[r]
      BY <1>2 DEF FlushTable, Added
    <2>2. buf' = buf \ Of(t) /\ TablesOf(buf') \subseteq TablesOf(buf)
      BY <1>2 DEF FlushTable, TablesOf
    <2>3. TablesOf(buf)' = TablesOf(buf')
      BY DEF TablesOf
    <2>4. Steps'
      BY <1>2, <2>2, <2>3 DEF FlushTable, Of
    <2>5. UNCHANGED <<pc, stmt, arrow, sql, inTxn, snap, fate>>
      BY <1>2 DEF FlushTable
    <2>6. \A r \in Rows : /\ pq'[r] <= 1
                          /\ r \notin buf \/ r \in buf' => pq'[r] = pq[r]
      BY <2>1, <2>2
    <2>7. Single'
      BY <2>2, <2>5, <2>6
    <2> QED
      BY <2>4, <2>7
  <1>3. ASSUME NEW t \in Tables, FlushError(t) PROVE Steps' /\ Single'
    BY <1>3 DEF FlushError, NoStmt
  <1>4. CASE RunInsert
    BY <1>4 DEF RunInsert, Flushed
  <1>5. CASE RunSelect
    BY <1>5 DEF RunSelect, Flushed, NoStmt
  <1>6. CASE HandleCheckpoint
    BY <1>6, EmptyLog DEF HandleCheckpoint, Flushed, NoStmt
  <1>7. CASE WalAppendPending
    <2>1. \A i \in DOMAIN sql' :
            \/ i \in DOMAIN sql /\ sql'[i] = sql[i]
            \/ sql'[i].op = stmt.op /\ sql'[i].rows = stmt.rows
      BY <1>7 DEF WalAppendPending
    <2>2. \A r \in Rows : fate'[r] = "new" => fate[r] = "new"
      BY <1>7 DEF WalAppendPending, Set
    <2> QED
      BY <1>7, <2>1, <2>2 DEF WalAppendPending
  <1>8. CASE ApplyDirect
    <2>1. \A r \in Rows : pq'[r] = IF r \in stmt.rows THEN pq[r] + 1 ELSE pq[r]
      BY <1>8 DEF ApplyDirect, Added
    <2>2. \A r \in stmt.rows : pq[r] = 0
      BY <1>8 DEF ApplyDirect
    <2> QED
      BY <1>8, <2>1, <2>2 DEF ApplyDirect
  <1>9. CASE ApplyDelete
    <2>1. /\ stmt'.op = stmt.op /\ stmt'.rows = stmt.rows
          /\ \A r \in Rows : stmt'.kept[r] \in {pq[r], 0} /\ pq'[r] \in {pq[r], 0}
      BY <1>9 DEF ApplyDelete, Stmt
    <2> QED
      BY <1>9, <2>1 DEF ApplyDelete
  <1>10. CASE RewriteTable
    <2>1. \A r \in Rows : pq'[r] \in {pq[r], stmt.kept[r]}
      BY <1>10 DEF RewriteTable
    <2> QED
      BY <1>10, <2>1 DEF RewriteTable
  <1>11. ASSUME NEW truncate \in BOOLEAN, Finish(truncate) PROVE Steps' /\ Single'
    <2>1. \A r \in Rows : fate'[r] = "new" => fate[r] = "new"
      BY <1>11 DEF Finish, Set
    <2>2. sql' = sql \/ DOMAIN sql' = {}
      BY <1>11, EmptyLog DEF Finish
    <2> QED
      BY <1>11, <2>1, <2>2 DEF Finish, NoStmt
  <1>12. CASE HandleBegin
    <2>1. Steps'
      BY <1>12 DEF HandleBegin, Flushed, NoStmt, Modes
    <2>2. Single'
      BY <1>12 DEF HandleBegin, Flushed, NoStmt
    <2> QED
      BY <2>1, <2>2
  <1>13. CASE HandleCommit
    <2>1. \A r \in Rows : fate'[r] = "new" => fate[r] = "new"
      BY <1>13 DEF HandleCommit, Set
    <2>2. /\ DOMAIN sql' = DOMAIN sql
          /\ \A i \in DOMAIN sql : sql'[i].op = sql[i].op /\ sql'[i].rows = sql[i].rows
      <3>1. \A i \in DOMAIN sql : sql[i] \in LogEntry
        OBVIOUS
      <3>2. sql' = [i \in DOMAIN sql |-> [sql[i] EXCEPT !.live = TRUE]]
        BY <1>13 DEF HandleCommit
      <3> QED
        BY <3>1, <3>2 DEF LogEntry
    <2> QED
      BY <1>13, <2>1, <2>2 DEF HandleCommit, Flushed, NoStmt
  <1>14. CASE TruncateAfterCommit
    BY <1>14, EmptyLog DEF TruncateAfterCommit
  <1>15. CASE HandleRollback
    <2>1. \A r \in Rows : fate'[r] = "new" => fate[r] = "new"
      BY <1>15 DEF HandleRollback, Set
    <2>2. inTxn /\ TablesOf(buf) = {}
      BY <1>15 DEF HandleRollback, Flushed
    <2>3. buf = {}
      BY <2>2, NoTables
    <2> QED
      BY <1>15, <2>1, <2>2, <2>3, EmptyLog DEF HandleRollback, Flushed, NoStmt
  <1> QED
    BY <1>1, <1>2, <1>3, <1>4, <1>5, <1>6, <1>7, <1>8, <1>9, <1>10, <1>11, <1>12,
       <1>13, <1>14, <1>15 DEF Execution

(* Statements that start: what they bring, and what stays.                  *)
LEMMA StartOnce ==
    ASSUME OnceInv, NEW st \in Stmt, NEW flush, Start(st, flush),
           fate' \in [Rows -> Fates], st.op # "direct", st.rows = {} \/ st.op = "delete",
           st.op = "rollback" => inTxn /\ TablesOf(buf) \subseteq flush, fate' = fate
    PROVE  Steps' /\ Single'
  BY DEF Start, Ready, OnceInv, Typed, TypeOK, Phases, Steps, Single, Unseen, Unstored

LEMMA ClientOnce ==
    ASSUME OnceInv, Typed', Client PROVE Steps' /\ Single'
  <1> USE DEF OnceInv
  <1>1. ASSUME NEW r \in Rows, NEW full \in BOOLEAN, HandleInsert(r, full) PROVE Steps' /\ Single'
    <2>1. \A q \in Rows : fate'[q] = "new" => fate[q] = "new" /\ q # r
      BY <1>1 DEF HandleInsert, Set
    <2> QED
      BY <1>1, <2>1 DEF HandleInsert, Ready, NoStmt, Typed, TypeOK, Phases, Steps,
                        Single, Unseen, Unstored
  <1>2. ASSUME NEW r \in Rows, StartDirect(r) PROVE Steps' /\ Single'
    <2>1. \A q \in Rows : fate'[q] = "new" => fate[q] = "new" /\ q # r
      BY <1>2 DEF StartDirect, Set
    <2>2. stmt'.op = "direct" /\ stmt'.rows = {r}
      BY <1>2 DEF StartDirect, Start, NoStmt
    <2> QED
      BY <1>2, <2>1, <2>2 DEF StartDirect, Start, Ready, Typed, TypeOK, Phases, Steps,
                              Single, Unseen, Unstored
  <1>3. ASSUME NEW t \in Tables, NEW match \in SUBSET Rows, StartDelete(t, match)
        PROVE  Steps' /\ Single'
    <2> DEFINE st == [NoStmt EXCEPT !.op = "delete", !.rows = match, !.tab = t]
    <2>1. st \in Stmt /\ st.op = "delete"
      BY DEF NoStmt, Stmt
    <2>2. Start(st, ToFlush({t})) /\ fate' = fate /\ fate' \in [Rows -> Fates]
      BY <1>3 DEF StartDelete, Typed, TypeOK
    <2> HIDE DEF st
    <2> QED
      BY <2>1, <2>2, StartOnce
  <1>4. ASSUME NEW sel \in Selects, StartSelect(sel[1], sel[2]) PROVE Steps' /\ Single'
    <2> DEFINE st == [NoStmt EXCEPT !.op = "select", !.reads = sel[2]]
    <2>1. st \in Stmt /\ st.op = "select" /\ st.rows = {}
      BY IngestConstants DEF NoStmt, Stmt
    <2>2. Start(st, ToFlush(sel[1])) /\ fate' = fate /\ fate' \in [Rows -> Fates]
      BY <1>4 DEF StartSelect, Typed, TypeOK
    <2> HIDE DEF st
    <2> QED
      BY <2>1, <2>2, StartOnce
  <1>5. CASE StartCheckpoint
    <2> DEFINE st == [NoStmt EXCEPT !.op = "checkpoint"]
    <2>1. st \in Stmt /\ st.op = "checkpoint" /\ st.rows = {}
      BY DEF NoStmt, Stmt
    <2>2. Start(st, ToFlush(CheckpointNames)) /\ fate' = fate /\ fate' \in [Rows -> Fates]
      BY <1>5 DEF StartCheckpoint, Typed, TypeOK
    <2> HIDE DEF st
    <2> QED
      BY <2>1, <2>2, StartOnce
  <1>6. ASSUME NEW op \in {"begin", "commit", "rollback"}, StartTxn(op)
        PROVE  Steps' /\ Single'
    <2> DEFINE st == [NoStmt EXCEPT !.op = op]
    <2>1. st \in Stmt /\ st.op = op /\ st.rows = {}
      BY DEF NoStmt, Stmt
    <2>2. Start(st, ToFlush({})) /\ fate' = fate /\ fate' \in [Rows -> Fates]
      BY <1>6 DEF StartTxn, Typed, TypeOK
    <2>3. op = "rollback" => inTxn /\ TablesOf(buf) \subseteq ToFlush({})
      BY <1>6 DEF StartTxn, ToFlush
    <2> HIDE DEF st
    <2> QED
      BY <2>1, <2>2, <2>3, StartOnce
  <1>7. CASE Close
    <2>1. \A r \in Rows : fate'[r] = "new" => fate[r] = "new"
      BY <1>7 DEF Close, Lose
    <2>2. sql' = sql \/ DOMAIN sql' = {}
      BY <1>7, EmptyLog DEF Close
    <2> QED
      BY <1>7, <2>1, <2>2 DEF Close, Stop, NoStmt, Typed, TypeOK, Phases, Steps, Single,
                              Unseen, Unstored
  <1> QED
    BY <1>1, <1>2, <1>3, <1>4, <1>5, <1>6, <1>7 DEF Client

LEMMA CrashOnce ==
    ASSUME OnceInv, Crash \/ \E r \in Rows : CrashInAppend(r) PROVE Steps' /\ Single'
  <1>1. \A r \in Rows : fate'[r] = "new" => fate[r] = "new"
    BY DEF Crash, CrashInAppend, Lose
  <1>2. Stop /\ UNCHANGED <<arrow, pq, sql, snap>>
    BY DEF Crash, CrashInAppend
  <1> QED
    BY <1>1, <1>2 DEF Stop, NoStmt, OnceInv, Typed, TypeOK, Phases, Steps, Single,
                      Unseen, Unstored

(* Where every table has a unique key, no row is stored twice: not by a     *)
(* flush that a crash cut off from its clean-up, nor by a replayed INSERT,  *)
(* a rewrite or a rollback, whatever fails in between.                      *)
THEOREM StoredOnceByKey ==
    ASSUME Tables \subseteq Unique PROVE Spec => []AppliedOnce
  <1>1. Init => OnceInv
    BY InitType, EmptyLog
       DEF Init, NoStmt, OnceInv, Steps, Single, Unseen, Unstored
  <1>2. OnceInv /\ [Next]_vars => OnceInv'
    <2> SUFFICES ASSUME OnceInv, [Next]_vars PROVE OnceInv'
      OBVIOUS
    <2>1. Typed'
      BY NextType DEF OnceInv
    <2>2. CASE UNCHANGED vars
      BY <2>1, <2>2 DEF vars, OnceInv, Steps, Single, Unseen, Unstored, TablesOf
    <2>3. CASE Next
      BY <2>1, <2>3, RecoveryOnce, ExecutionOnce, ClientOnce, CrashOnce DEF Next, OnceInv
    <2> QED
      BY <2>2, <2>3
  <1>3. OnceInv => AppliedOnce
    BY DEF OnceInv, Single, AppliedOnce
  <1> QED
    BY <1>1, <1>2, <1>3, PTL DEF Spec
=============================================================================
