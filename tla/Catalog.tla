------------------------------ MODULE Catalog -------------------------------
(***************************************************************************)
(* The catalog and its persistence: crates/catalog/src/lib.rs and the DDL  *)
(* handlers of crates/engine/src/lib.rs.                                   *)
(*                                                                         *)
(* A DDL statement outside a transaction changes the catalog in memory,    *)
(* finishes (and truncates) the SQL log, and only then writes catalog.json *)
(* at the end of execute; COMMIT writes catalog.json first and the log's   *)
(* marker after it. The module follows these steps one by one and lets the *)
(* process stop between any two of them. Replay runs the statements again  *)
(* through the same handlers, so it fails where they fail. What the log    *)
(* file itself guarantees is the subject of Wal; the rows behind a         *)
(* materialized view are the subject of Plans.                             *)
(***************************************************************************)
EXTENDS Naturals, Sequences, FiniteSets

CONSTANTS
    Tables,       \* tables that CREATE TABLE and DROP TABLE name
    Indexes,      \* indexes, and
    Columns,      \* columns of ALTER TABLE ADD or DROP COLUMN,
    On,           \*   with the table each of them belongs to
    Seqs,         \* sequences
    MatViews,     \* materialized views, created with OR REPLACE
    Functions,    \* SQL functions, and views created with OR REPLACE
    Triggers,     \* triggers
    Grants,       \* privileges of users and roles
    Versions,     \* versions of registered migrations
    MigTable,     \* the table the SQL of each migration creates
    Start,        \* START WITH of every sequence
    SeqMax,       \* MAXVALUE of each sequence, Limit when there is none
    Limit,        \* i64::MAX, where current_value saturates
    Ops,          \* the statements of the workload
    Scopes,       \* sets of objects, of which a behaviour names one
    MaxLog,       \* bound: statements pending in the log
    MaxCrashes    \* bound: crashes in a behaviour

(* Saved in the catalog and never logged.                                   *)
Unlogged == Triggers \cup Grants

Objects ==
    Tables \cup Indexes \cup Columns \cup Seqs \cup MatViews \cup Functions \cup Unlogged
      \cup {MigTable[v] : v \in Versions}

ASSUME CatalogConstants ==
    /\ On \in [Indexes \cup Columns -> Tables]
    /\ Versions \subseteq Nat \ {0}
    /\ MigTable \in [Versions -> Objects]
    /\ Limit \in Nat /\ Start \in 1..Limit
    /\ SeqMax \in [Seqs -> 1..Limit]
    /\ MaxLog \in Nat /\ MaxCrashes \in Nat
    /\ Scopes \subseteq SUBSET Objects

(* Objects of these kinds are different objects, and the table of a         *)
(* migration is its own: no other statement names it.                       *)
ASSUME DistinctObjects ==
    /\ Indexes \cap (Tables \cup Columns \cup Seqs) = {}
    /\ Tables \cap Columns = {}
    /\ Unlogged \cap (Tables \cup Indexes \cup Columns) = {}
    /\ \A v \in Versions :
         MigTable[v] \notin Tables \cup Indexes \cup Columns \cup Seqs \cup MatViews
                             \cup Functions \cup Unlogged
    /\ \A v, w \in Versions : MigTable[v] = MigTable[w] => v = w

VARIABLES
    scope,      \* the objects of the workload
    cat,        \* Catalog in memory
    disk,       \* catalog.json
    dirty,      \* Catalog.dirty
    log,        \* wal.log: the statements that are pending in it
    marker,     \* wal.log has the commit marker of the explicit transaction
    pos,        \* how many of the recovered statements are replayed
    data,       \* tables whose directory has its files
    inTxn,      \* active_txn.is_some(), Catalog.in_transaction
    snap,       \* Transaction.catalog_snapshot
    deferred,   \* Transaction.deferred_deletes
    pc,         \* how far the current statement is
    todo,       \* MIGRATE: versions still to run
    current,    \* MIGRATE: the version whose SQL is executing, 0 if none
    crashes,    \* crashes so far
    allowed,    \* the sets of objects a reopen may show (ghost)
    issued,     \* nextval values of acknowledged statements (ghost)
    held,       \* the same, of the running transaction or statement (ghost)
    excuses     \* why the last crash may make the open fail (ghost)

txnVars == <<inTxn, snap, deferred>>
migVars == <<todo, current>>
ghosts == <<allowed, issued, held, excuses>>
vars == <<scope, cat, disk, dirty, log, marker, pos, data, txnVars, pc, migVars, crashes, ghosts>>

CatalogState == [objs : SUBSET Objects, primary : SUBSET Indexes,
                 next : [Seqs -> 0..Limit], version : {0} \cup Versions,
                 migs : SUBSET Versions]
Entry == [op : {"create", "drop", "bad"}, obj : Objects, txn : BOOLEAN]
PCs == {"idle", "applied", "finished", "migrate", "saved", "committed", "replay", "failed"}

EmptyCatalog == [objs |-> {}, primary |-> {}, next |-> [s \in Seqs |-> 0],
                 version |-> 0, migs |-> {}]

-----------------------------------------------------------------------------
Dependents(o) == {x \in Indexes \cup Columns : On[x] = o}
IndexesOf(t, c) == {i \in Indexes \cap c.objs : On[i] = t}
Logged(o) == o \notin Unlogged

(* When the handler does not return an error. CREATE FUNCTION, CREATE OR    *)
(* REPLACE and the handlers of Unlogged overwrite; DROP TRIGGER ignores a   *)
(* name it does not know. The text that is logged for a materialized view   *)
(* has lost its OR REPLACE.                                                 *)
Succeeds(op, o, c, replaying) ==
    IF op = "create"
    THEN /\ o \in c.objs => o \in Functions \cup Unlogged \/ (o \in MatViews /\ ~replaying)
         /\ o \in Indexes \cup Columns => On[o] \in c.objs
    ELSE op = "drop" /\ (o \in c.objs \/ o \in Unlogged)

(* handle_create_index: the new index is the primary one, the others of its *)
(* table are logical only.                                                  *)
AddIndex(i, c) ==
    [c EXCEPT !.objs = @ \cup {i}, !.primary = (@ \ IndexesOf(On[i], c)) \cup {i}]

(* Mutant: DROP INDEX promotes no other index.                              *)
DropOnly(i, c) == {[c EXCEPT !.objs = @ \ {i}, !.primary = @ \ {i}]}

(* handle_drop_index: without a primary index left, any other one becomes   *)
(* it.                                                                      *)
DropIndex(i, c) ==
    LET rest == IndexesOf(On[i], c) \ {i}
        left == [c EXCEPT !.objs = @ \ {i}, !.primary = @ \ {i}]
    IN  IF rest = {} \/ rest \cap left.primary # {} THEN {left}
        ELSE {[left EXCEPT !.primary = @ \cup {j}] : j \in rest}

(* handle_create_sequence; the logged text has no options.                  *)
AddSequence(s, c, replaying) ==
    [c EXCEPT !.objs = @ \cup {s}, !.next[s] = IF replaying THEN 1 ELSE Start]

(* remove_table: with its indexes and columns.                              *)
RemoveTable(t, c) ==
    [c EXCEPT !.objs = @ \ ({t} \cup Dependents(t)), !.primary = @ \ Dependents(t)]

(* The catalogs a statement may leave in memory.                            *)
Apply(op, o, c, replaying) ==
    CASE op = "create" /\ o \in Indexes -> {AddIndex(o, c)}
      [] op = "create" /\ o \in Seqs    -> {AddSequence(o, c, replaying)}
      [] op = "create" /\ o \notin Indexes \cup Seqs -> {[c EXCEPT !.objs = @ \cup {o}]}
      [] op = "drop" /\ o \in Indexes   -> DropIndex(o, c)
      [] op = "drop" /\ o \in Tables    -> {RemoveTable(o, c)}
      [] op = "drop" /\ o \notin Indexes \cup Tables -> {[c EXCEPT !.objs = @ \ {o}]}

(* Mutant: a mutation outside a transaction does not mark the catalog.      *)
SaveForgotten == dirty' = dirty

(* Catalog::save.                                                           *)
Save == dirty' = (dirty \/ ~inTxn)

(* delete_table_storage, at once or deferred to COMMIT.                     *)
Storage(op, o) ==
    /\ data' = IF o \in Tables /\ op = "create" THEN data \cup {o}
               ELSE IF o \in Tables /\ ~inTxn THEN data \ {o} ELSE data
    /\ deferred' = IF o \in Tables /\ op = "drop" /\ inTxn THEN deferred \cup {o} ELSE deferred

(* Where execute goes after a handler: wal_finish_autocommit, which does    *)
(* nothing in a transaction and is not called for Unlogged, or directly     *)
(* flush_if_dirty.                                                          *)
AfterHandler(logged) == pc' = IF logged /\ ~inTxn THEN "applied" ELSE "finished"

Init ==
    /\ scope \in Scopes
    /\ cat = EmptyCatalog /\ disk = EmptyCatalog /\ dirty = FALSE
    /\ log = <<>> /\ marker = FALSE /\ pos = 0 /\ data = {}
    /\ inTxn = FALSE /\ snap = EmptyCatalog /\ deferred = {}
    /\ pc = "idle" /\ todo = {} /\ current = 0 /\ crashes = 0
    /\ allowed = {{}} /\ issued = {} /\ held = {} /\ excuses = {}

(* A CREATE or DROP handler: wal_append_pending, the catalog in memory, and *)
(* for a table its directory.                                               *)
Handler(op, o) ==
    /\ Succeeds(op, o, cat, FALSE)
    /\ cat' \in Apply(op, o, cat, FALSE)
    /\ log' = IF Logged(o) THEN Append(log, [op |-> op, obj |-> o, txn |-> inTxn]) ELSE log
    /\ Save
    /\ Storage(op, o)
    /\ AfterHandler(Logged(o))
    /\ allowed' = IF inTxn THEN allowed ELSE allowed \cup {cat'.objs}
    /\ issued' = {x \in issued : x[1] # o}
    /\ held' = {x \in held : x[1] # o}
    /\ UNCHANGED <<disk, marker, pos, inTxn, snap, crashes, scope, excuses>>

Ddl(op, o) ==
    /\ o \in scope
    /\ pc = "idle"
    /\ Logged(o) => Len(log) < MaxLog
    /\ Handler(op, o)
    /\ UNCHANGED migVars

HandleCreateTable(t)    == Ddl("create", t)
HandleDropTable(t)      == Ddl("drop", t)
HandleCreateIndex(i)    == Ddl("create", i)
HandleDropIndex(i)      == Ddl("drop", i)
HandleAddColumn(c)      == Ddl("create", c)
HandleDropColumn(c)     == Ddl("drop", c)
HandleCreateSequence(s) == Ddl("create", s)
HandleDropSequence(s)   == Ddl("drop", s)
HandleCreateView(m)     == Ddl("create", m)
HandleDropView(m)       == Ddl("drop", m)
HandleCreateFunction(f) == Ddl("create", f)
HandleDropFunction(f)   == Ddl("drop", f)

(* Dispatched by their text: no log, and wal_finish_autocommit is not       *)
(* called.                                                                  *)
HandleCreateTrigger(g)  == Ddl("create", g)
HandleDropTrigger(g)    == Ddl("drop", g)
HandleGrant(p)          == Ddl("create", p)
HandleRevoke(p)         == Ddl("drop", p)

(* CREATE TABLE ... AS or ALTER TABLE that is logged and then returns an    *)
(* error: no marker, no truncation; flush_if_dirty follows all the same.    *)
DdlFails(o) ==
    /\ "fail" \in Ops /\ o \in scope
    /\ pc = "idle"
    /\ Len(log) < MaxLog
    /\ log' = Append(log, [op |-> "bad", obj |-> o, txn |-> inTxn])
    /\ pc' = "finished"
    /\ UNCHANGED <<cat, disk, dirty, marker, pos, data, txnVars, migVars, crashes, scope, ghosts>>

(* Mutant: the log keeps the statement that is finished.                    *)
WalFinishKeepsLog ==
    /\ pc = "applied"
    /\ pc' = "finished"
    /\ UNCHANGED <<cat, disk, dirty, log, marker, pos, data, txnVars, migVars, crashes,
                   scope, ghosts>>

(* wal_finish_autocommit(true): commit marker, then the log is truncated.   *)
WalFinish ==
    /\ pc = "applied"
    /\ log' = <<>>
    /\ pc' = "finished"
    /\ UNCHANGED <<cat, disk, dirty, marker, pos, data, txnVars, migVars, crashes, scope, ghosts>>

(* flush_if_dirty at the end of execute, and the statement's result; or     *)
(* back to the loop of MIGRATE, which then advances schema_version.         *)
FlushIfDirty ==
    /\ pc = "finished"
    /\ disk' = IF dirty THEN cat ELSE disk
    /\ dirty' = FALSE
    /\ IF current = 0
       THEN /\ pc' = "idle"
            /\ allowed' = IF inTxn THEN allowed ELSE {cat.objs}
            /\ UNCHANGED <<cat, migVars>>
       ELSE /\ pc' = "migrate"
            /\ cat' = [cat EXCEPT !.version = current]
            /\ todo' = todo \ {current}
            /\ current' = 0
            /\ UNCHANGED allowed
    /\ issued' = IF inTxn THEN issued ELSE issued \cup held
    /\ held' = IF inTxn THEN held ELSE {}
    /\ UNCHANGED <<log, marker, pos, data, txnVars, crashes, scope, excuses>>

-----------------------------------------------------------------------------
(* Mutant: the advance does not saturate.                                   *)
AdvanceUnbounded(s, c) == [c EXCEPT !.next[s] = @ + 1]

(* next_sequence_value: the value before the advance, which saturates at    *)
(* i64::MAX; an error, and no value, when the advance passes MAXVALUE.      *)
Advance(s, c) ==
    [c EXCEPT !.next[s] = IF @ + 1 > Limit THEN Limit ELSE @ + 1]
HasNext(s, c) == s \in c.objs /\ (SeqMax[s] < Limit => c.next[s] + 1 <= SeqMax[s])

(* An INSERT with nextval(s): expand_nextval_calls advances the sequence in *)
(* memory before anything else; flush_if_dirty comes at the end.            *)
Nextval(s) ==
    /\ "nextval" \in Ops
    /\ pc = "idle"
    /\ HasNext(s, cat)
    /\ cat' = Advance(s, cat)
    /\ Save
    /\ held' = held \cup {<<s, cat.next[s]>>}
    /\ pc' = "finished"
    /\ UNCHANGED <<disk, log, marker, pos, data, txnVars, migVars, crashes, scope,
                   allowed, issued, excuses>>

(* The same in a query that then fails, which returns before                *)
(* flush_if_dirty, or in a SELECT ... AS OF TIMESTAMP, which answers before *)
(* it.                                                                      *)
NextvalUnsaved(s, shown) ==
    /\ IF shown THEN "asof" \in Ops ELSE "nextval" \in Ops
    /\ pc = "idle"
    /\ HasNext(s, cat)
    /\ cat' = Advance(s, cat)
    /\ Save
    /\ issued' = IF shown THEN issued \cup {<<s, cat.next[s]>>} ELSE issued
    /\ UNCHANGED <<disk, log, marker, pos, data, txnVars, pc, migVars, crashes, scope,
                   allowed, held, excuses>>

-----------------------------------------------------------------------------
(* handle_create_migration: saved, not logged.                              *)
CreateMigration(v) ==
    /\ MigTable[v] \in scope
    /\ pc = "idle"
    /\ v \notin cat.migs
    /\ cat' = [cat EXCEPT !.migs = @ \cup {v}]
    /\ Save
    /\ AfterHandler(TRUE)
    /\ UNCHANGED <<disk, log, marker, pos, data, txnVars, migVars, crashes, scope, ghosts>>

(* handle_migrate [TO target]: what is newer than schema_version.           *)
Migrate(target) ==
    /\ pc = "idle"
    /\ todo' = {v \in cat.migs : cat.version < v /\ v <= target}
    /\ todo' # {}
    /\ pc' = "migrate"
    /\ UNCHANGED <<cat, disk, dirty, log, marker, pos, data, txnVars, current, crashes,
                   scope, ghosts>>

(* The lowest version left: execute(&m.sql), which is a statement of its    *)
(* own with its own log and catalog write. An error ends MIGRATE.           *)
Lowest == CHOOSE v \in todo : \A w \in todo : v <= w
MigrateStep ==
    /\ pc = "migrate"
    /\ todo # {}
    /\ Handler("create", MigTable[Lowest])
    /\ current' = Lowest
    /\ UNCHANGED todo
MigrateError ==
    /\ pc = "migrate"
    /\ todo # {}
    /\ ~Succeeds("create", MigTable[Lowest], cat, FALSE)
    /\ todo' = {}
    /\ pc' = "finished"
    /\ UNCHANGED <<cat, disk, dirty, log, marker, pos, data, txnVars, current, crashes,
                   scope, ghosts>>

(* The end of the loop: the new schema_version is saved.                    *)
MigrateDone ==
    /\ pc = "migrate"
    /\ todo = {}
    /\ Save
    /\ AfterHandler(TRUE)
    /\ UNCHANGED <<cat, disk, log, marker, pos, data, txnVars, migVars, crashes, scope, ghosts>>

-----------------------------------------------------------------------------
(* handle_begin, and the flush_if_dirty that ends it.                       *)
HandleBegin ==
    /\ "txn" \in Ops
    /\ pc = "idle" /\ ~inTxn
    /\ inTxn' = TRUE
    /\ snap' = cat
    /\ deferred' = {}
    /\ disk' = IF dirty THEN cat ELSE disk
    /\ dirty' = FALSE
    /\ held' = {}
    /\ UNCHANGED <<cat, log, marker, pos, data, pc, migVars, crashes, scope, allowed,
                   issued, excuses>>

(* Mutant: COMMIT leaves the catalog to flush_if_dirty.                     *)
CommitUnsaved ==
    /\ pc = "idle" /\ inTxn
    /\ data' = data \ deferred
    /\ inTxn' = FALSE /\ snap' = EmptyCatalog /\ deferred' = {}
    /\ pc' = "saved"
    /\ allowed' = allowed \cup {cat.objs}
    /\ UNCHANGED <<cat, disk, dirty, log, marker, pos, migVars, crashes, scope, issued,
                   held, excuses>>

(* handle_commit: force_save and the deferred deletes, the marker, the      *)
(* truncation.                                                              *)
CommitSave ==
    /\ pc = "idle" /\ inTxn
    /\ disk' = cat
    /\ dirty' = FALSE
    /\ data' = data \ deferred
    /\ inTxn' = FALSE /\ snap' = EmptyCatalog /\ deferred' = {}
    /\ pc' = "saved"
    /\ allowed' = allowed \cup {cat.objs}
    /\ UNCHANGED <<cat, log, marker, pos, migVars, crashes, scope, issued, held, excuses>>
CommitMarker ==
    /\ pc = "saved"
    /\ marker' = TRUE
    /\ pc' = "committed"
    /\ UNCHANGED <<cat, disk, dirty, log, pos, data, txnVars, migVars, crashes, scope, ghosts>>
CommitTruncate ==
    /\ pc = "committed"
    /\ log' = <<>>
    /\ marker' = FALSE
    /\ pc' = "idle"
    /\ allowed' = {cat.objs}
    /\ issued' = issued \cup held
    /\ held' = {}
    /\ UNCHANGED <<cat, disk, dirty, pos, data, txnVars, migVars, crashes, scope, excuses>>

(* Mutant: restore forgets schema_version.                                  *)
RollbackKeepsVersion ==
    /\ pc = "idle" /\ inTxn
    /\ cat' = [snap EXCEPT !.version = cat.version]
    /\ disk' = cat'
    /\ dirty' = FALSE
    /\ data' = data \ (Tables \cap (cat.objs \ snap.objs))
    /\ log' = <<>>
    /\ inTxn' = FALSE /\ snap' = EmptyCatalog /\ deferred' = {}
    /\ held' = {}
    /\ UNCHANGED <<marker, pos, pc, migVars, crashes, scope, allowed, issued, excuses>>

(* handle_rollback: Catalog::restore and force_save, then the log; storage  *)
(* of new tables is deleted.                                                *)
HandleRollback ==
    /\ pc = "idle" /\ inTxn
    /\ cat' = snap
    /\ disk' = snap
    /\ dirty' = FALSE
    /\ data' = data \ (Tables \cap (cat.objs \ snap.objs))
    /\ log' = <<>>
    /\ inTxn' = FALSE /\ snap' = EmptyCatalog /\ deferred' = {}
    /\ held' = {}
    /\ UNCHANGED <<marker, pos, pc, migVars, crashes, scope, allowed, issued, excuses>>

-----------------------------------------------------------------------------
(* What recover returns, now and in every later open: the statements of     *)
(* transaction 0, or committed. Those of a running transaction are the last *)
(* in the log, so that the others are a sequence again.                     *)
Recovered ==
    [i \in {j \in DOMAIN log : ~log[j].txn \/ marker} |-> [log[i] EXCEPT !.txn = FALSE]]

(* The process stops between two steps. The log it leaves makes the next    *)
(* open fail if it has statements that fail, or that are in catalog.json    *)
(* already.                                                                 *)
Crash ==
    /\ pc # "failed"
    /\ crashes < MaxCrashes
    /\ crashes' = crashes + 1
    /\ pc' = "replay"
    /\ log' = Recovered
    /\ pos' = 0
    /\ cat' = disk
    /\ dirty' = FALSE
    /\ marker' = FALSE
    /\ inTxn' = FALSE /\ snap' = EmptyCatalog /\ deferred' = {}
    /\ todo' = {} /\ current' = 0
    /\ held' = {}
    /\ excuses' =
         (IF \E i \in DOMAIN Recovered : Recovered[i].op = "bad" THEN {"failure"} ELSE {})
           \cup (IF pc = "committed" THEN {"commit"} ELSE {})
           \cup (IF pc = "replay" THEN {"recovery"} ELSE {})
           \cup (IF \E i \in DOMAIN Recovered : Recovered[i].obj \in MatViews \cap disk.objs
                 THEN {"replace"} ELSE {})
    /\ UNCHANGED <<disk, data, allowed, issued, scope>>

(* new: Catalog::load, then execute for every entry, each of which writes   *)
(* catalog.json; an error ends the open and leaves the log.                 *)
Replay ==
    /\ pc = "replay"
    /\ pos < Len(log)
    /\ LET e == log[pos + 1]
       IN  /\ Succeeds(e.op, e.obj, cat, TRUE)
           /\ cat' \in Apply(e.op, e.obj, cat, TRUE)
           /\ Storage(e.op, e.obj)
    /\ disk' = cat'
    /\ pos' = pos + 1
    /\ UNCHANGED <<dirty, log, marker, inTxn, snap, pc, migVars, crashes, scope, ghosts>>
ReplayFails ==
    /\ pc = "replay"
    /\ pos < Len(log)
    /\ ~Succeeds(log[pos + 1].op, log[pos + 1].obj, cat, TRUE)
    /\ pc' = "failed"
    /\ UNCHANGED <<cat, disk, dirty, log, marker, pos, data, txnVars, migVars, crashes,
                   scope, ghosts>>
ReplayDone ==
    /\ pc = "replay"
    /\ pos = Len(log)
    /\ log' = <<>>
    /\ pos' = 0
    /\ pc' = "idle"
    /\ excuses' = {}
    /\ UNCHANGED <<cat, disk, dirty, marker, data, txnVars, migVars, crashes, scope,
                   allowed, issued, held>>

(* Opening again after a failed open.                                       *)
Reopen ==
    /\ pc = "failed"
    /\ pc' = "replay"
    /\ pos' = 0
    /\ cat' = disk
    /\ UNCHANGED <<disk, dirty, log, marker, data, txnVars, migVars, crashes, scope, ghosts>>

Next ==
    \/ \E t \in Tables : HandleCreateTable(t) \/ HandleDropTable(t) \/ DdlFails(t)
    \/ \E i \in Indexes : HandleCreateIndex(i) \/ HandleDropIndex(i)
    \/ \E c \in Columns : HandleAddColumn(c) \/ HandleDropColumn(c)
    \/ \E s \in Seqs : HandleCreateSequence(s) \/ HandleDropSequence(s)
    \/ \E m \in MatViews : HandleCreateView(m) \/ HandleDropView(m)
    \/ \E f \in Functions : HandleCreateFunction(f) \/ HandleDropFunction(f)
    \/ \E g \in Triggers : HandleCreateTrigger(g) \/ HandleDropTrigger(g)
    \/ \E p \in Grants : HandleGrant(p) \/ HandleRevoke(p)
    \/ WalFinish \/ FlushIfDirty
    \/ \E s \in Seqs : Nextval(s)
    \/ \E s \in Seqs, shown \in BOOLEAN : NextvalUnsaved(s, shown)
    \/ \E v \in Versions : CreateMigration(v) \/ Migrate(v)
    \/ MigrateStep \/ MigrateError \/ MigrateDone
    \/ HandleBegin \/ CommitSave \/ CommitMarker \/ CommitTruncate \/ HandleRollback
    \/ Crash \/ Replay \/ ReplayFails \/ ReplayDone \/ Reopen

Spec == Init /\ [][Next]_vars

-----------------------------------------------------------------------------
(* Type invariant of the catalog, its file, the log and the statement.      *)
TypeOK ==
    /\ scope \in Scopes
    /\ cat \in CatalogState /\ disk \in CatalogState /\ snap \in CatalogState
    /\ dirty \in BOOLEAN /\ marker \in BOOLEAN /\ inTxn \in BOOLEAN
    /\ log \in Seq(Entry) /\ pos \in 0..Len(log)
    /\ data \in SUBSET Tables /\ deferred \in SUBSET Tables
    /\ pc \in PCs
    /\ todo \in SUBSET Versions /\ current \in {0} \cup Versions
    /\ crashes \in 0..MaxCrashes
    /\ allowed \in SUBSET SUBSET Objects
    /\ issued \in SUBSET (Seqs \X (0..Limit)) /\ held \in SUBSET (Seqs \X (0..Limit))
    /\ excuses \in SUBSET {"failure", "commit", "recovery", "replace"}

(* Wherever the process stops, the database that opens has all the objects  *)
(* of the acknowledged statements and transactions, and those of the one    *)
(* that was interrupted either entirely or not at all.                      *)
StatementsAtomic == pc = "idle" /\ ~inTxn => cat.objs \in allowed

(* A table with indexes has exactly one primary index, and no index is left *)
(* of a table that is gone, in memory and in catalog.json, through CREATE   *)
(* and DROP INDEX, DROP TABLE, ROLLBACK, crashes and replays: VACUUM and    *)
(* the registered sort order rely on it.                                    *)
OnePrimary ==
    \A c \in {cat, disk}, t \in Tables :
        /\ c.primary \subseteq c.objs
        /\ IndexesOf(t, c) # {} => t \in c.objs
        /\ IndexesOf(t, c) # {} => Cardinality(IndexesOf(t, c) \cap c.primary) = 1

(* A value that an acknowledged statement got from nextval is not issued    *)
(* again, whatever crashes, failed statements and rollbacks follow, until   *)
(* the sequence saturates.                                                  *)
NoValueTwice ==
    pc = "idle" => \A x \in issued :
        x[1] \in cat.objs => x[2] < cat.next[x[1]] \/ x[2] = Limit

(* A recovered catalog is refused only when a failed statement was still in *)
(* the log, a materialized view was being replaced, or the crash hit COMMIT *)
(* after its marker or another recovery.                                    *)
OpenFailsOnlyThen == pc = "failed" => excuses # {}

(* schema_version tells which migrations have run, until a crash hits a     *)
(* MIGRATE: every one that has run is at most schema_version, and           *)
(* schema_version is 0 or one that has run, whatever order of MIGRATE TO,   *)
(* CREATE MIGRATION, failed MIGRATE and ROLLBACK led there.                 *)
MigrationsRecorded ==
    pc = "idle" /\ crashes = 0 =>
        LET run == {v \in cat.migs : MigTable[v] \in cat.objs}
        IN  cat.version \in run \cup {0} /\ \A v \in run : v <= cat.version

(* README.md: "the WAL (wal.log) is replayed on startup to recover          *)
(* committed statements after crashes". The open succeeds.                  *)
Reopens == pc # "failed"

(* The same, for the single statement: once the log has its commit marker,  *)
(* a crash does not undo it.                                                *)
CommittedRecovered ==
    pc = "finished" /\ ~inTxn /\ log = <<>> => cat.objs = disk.objs

(* A table of the recovered catalog has its files: an interrupted DROP      *)
(* TABLE has happened or not.                                               *)
DropAtomic == pc = "idle" => (Tables \cap cat.objs) \subseteq data

(* Every registered migration that was not run can still be run.            *)
MigrationsRerunnable ==
    pc = "idle" => \A v \in cat.migs : v <= cat.version \/ MigTable[v] \notin cat.objs
=============================================================================
