---------------------------- MODULE Transactions ----------------------------
(***************************************************************************)
(* Explicit transactions and savepoints, crates/engine/src/lib.rs:         *)
(* handle_begin, handle_commit, handle_rollback, handle_savepoint,         *)
(* handle_rollback_to, handle_release_savepoint, and the statements that   *)
(* change tables inside or outside a transaction.                          *)
(*                                                                         *)
(* There is no version store: BEGIN remembers the catalog and the names of *)
(* the Parquet files, and the first rewrite of a table under a transaction *)
(* keeps a copy of its rows. What ROLLBACK can undo depends on the order   *)
(* in which appends, rewrites and savepoints fall, which is what the       *)
(* module is about. Crashes are the subject of other modules.              *)
(***************************************************************************)
EXTENDS Naturals, Sequences, FiniteSets

CONSTANTS
    Tables,       \* table names; a directory has the name of its first table
    Rows,         \* row values; every INSERT of a run inserts a new one
    FileIds,      \* names of Parquet files
    SaveNames,    \* names of savepoints
    Mentions,     \* the tables whose names occur in a savepoint's name
    NoDir,        \* the directory of a table that is not in the catalog
    Cascade,      \* <<parent, child>>: FOREIGN KEY ... ON DELETE CASCADE
    SetNull,      \* <<parent, child>>: FOREIGN KEY ... ON DELETE SET NULL
    Restricted,   \* tables referenced by a FOREIGN KEY ... RESTRICT
    Retention,    \* tables with a retention policy
    CompactAt,    \* auto_compact_file_threshold, 0 = off
    Workloads,    \* workloads, of which a behaviour is one: its statements and tables
    MaxSaves      \* bound: savepoints that exist together

ASSUME TransactionsConstants ==
    /\ NoDir \notin Tables
    /\ Mentions \in [SaveNames -> SUBSET Tables]
    /\ Cascade \subseteq Tables \X Tables
    /\ SetNull \subseteq Tables \X Tables
    /\ Restricted \subseteq Tables
    /\ Retention \subseteq Tables
    /\ CompactAt \in Nat
    /\ MaxSaves \in Nat
    /\ \A w \in Workloads : w.tables \subseteq Tables

VARIABLES
    workload,   \* the workload
    cat,        \* catalog.tables: the directory (TableMeta.path) of each table
    disk,       \* the same in catalog.json
    files,      \* the Parquet files in each directory
    buffer,     \* write_buffer: rows not yet written
    inTxn,      \* active_txn.is_some()
    snapCat,    \* Transaction.catalog_snapshot
    snapFiles,  \* Transaction.file_snapshot
    deferred,   \* Transaction.deferred_deletes, as directories
    backups,    \* Transaction.rewrite_backups
    saves,      \* Transaction.savepoints
    begun,      \* what every table looked like at BEGIN (ghost)
    kind,       \* what the transaction has done to each table (ghost)
    moved       \* the transaction has executed ROLLBACK TO (ghost)

txnVars == <<inTxn, snapCat, snapFiles, deferred, backups, saves, begun, moved>>
vars == <<workload, cat, disk, files, buffer, kind, txnVars>>

Ops == workload.ops

File == [id : FileIds, rows : SUBSET Rows]
NoBackup == [has |-> FALSE, rows |-> {}]
Kinds == {"clean", "appended", "backed", "lost"}

-----------------------------------------------------------------------------
RowsOf(fs) == UNION {f.rows : f \in fs}
Exists(n) == cat[n] # NoDir

(* What a SELECT of table n returns once its buffer is flushed.             *)
View(n) == [def |-> Exists(n),
            rows |-> IF Exists(n) THEN RowsOf(files[cat[n]]) \cup buffer[n] ELSE {}]

Buffered == {n \in Tables : buffer[n] # {}}

(* A file name no directory and no snapshot has; a row no table, backup or  *)
(* snapshot has.                                                            *)
KnownFiles ==
    (UNION {files[n] \cup snapFiles[n] : n \in Tables})
      \cup (UNION {UNION {saves[i].files[n] : n \in Tables} : i \in DOMAIN saves})
FreshId(id) == id \in FileIds /\ \A f \in KnownFiles : f.id # id
KnownRows ==
    RowsOf(KnownFiles) \cup (UNION {buffer[n] \cup backups[n].rows : n \in Tables})
      \cup (UNION {UNION {saves[i].backups[n].rows : n \in Tables} : i \in DOMAIN saves})

(* Mutant: rewrite_table does not delete the files it replaces.             *)
RewriteKeepsOld(c, fs, S, new, id) ==
    [d \in Tables |->
        fs[d] \cup {[id |-> id, rows |-> new[n]] : n \in {m \in S : c[m] = d /\ new[m] # {}}}]

(* rewrite_table for every table of S, in the catalog c, from the files fs. *)
(* The files to delete are listed under the table's name, the new one is    *)
(* written to its path.                                                     *)
RewriteAll(c, fs, S, new, id) ==
    [d \in Tables |->
        (IF d \in S THEN {} ELSE fs[d])
          \cup {[id |-> id, rows |-> new[n]] : n \in {m \in S : c[m] = d /\ new[m] # {}}}]
RewriteTable(fs, n, rows, id) == RewriteAll(cat, fs, {n}, [m \in Tables |-> rows], id)

(* flush_table for every table of S: one new file per table, then, outside  *)
(* a transaction, maybe_auto_compact.                                       *)
FlushRows(S, d) == UNION {buffer[n] : n \in {m \in S : cat[m] = d}}
FlushTable(S, id) ==
    [d \in Tables |->
        IF FlushRows(S, d) = {} THEN files[d]
        ELSE LET new == files[d] \cup {[id |-> id, rows |-> FlushRows(S, d)]}
             IN  IF ~inTxn /\ CompactAt > 0 /\ d \in S /\ Cardinality(new) >= CompactAt
                 THEN {[id |-> id, rows |-> RowsOf(new)]}
                 ELSE new]

(* flush_buffered_for_sql: the buffered tables the statement names, or all. *)
ToFlush(named) == IF named \cap Buffered # {} THEN named \cap Buffered ELSE Buffered
FlushFor(named, id) == FlushTable(ToFlush(named), id)
BufferAfter(named) == [n \in Tables |-> IF n \in ToFlush(named) THEN {} ELSE buffer[n]]

(* Mutant: backup_table_for_txn overwrites an earlier backup.               *)
BackupLatest(n, fs) ==
    IF inTxn THEN [backups EXCEPT ![n] = [has |-> TRUE, rows |-> RowsOf(fs[cat[n]])]]
    ELSE backups

(* backup_table_for_txn, over the files fs: the first rewrite only.         *)
BackupTable(n, fs) ==
    IF inTxn /\ ~backups[n].has
    THEN [backups EXCEPT ![n] = [has |-> TRUE, rows |-> RowsOf(fs[cat[n]])]]
    ELSE backups

(* Mutant: Catalog::save ignores in_transaction.                            *)
SaveAlways == disk' = cat'

(* Catalog::save, suppressed inside a transaction.                          *)
SaveCatalog == disk' = IF inTxn THEN disk ELSE cat'

(* Ghost: what happened to a table since BEGIN, as far as undoing it goes.  *)
Touch(n, how) ==
    IF ~inTxn THEN kind[n]
    ELSE CASE how = "append" -> IF kind[n] = "clean" THEN "appended" ELSE kind[n]
           [] how = "backed" -> IF kind[n] = "clean" THEN "backed"
                                ELSE IF kind[n] = "appended" THEN "lost" ELSE kind[n]
           [] how = "raw"    -> IF kind[n] = "backed" THEN "backed" ELSE "lost"

Forget ==
    /\ inTxn' = FALSE
    /\ snapCat' = [n \in Tables |-> NoDir]
    /\ snapFiles' = [n \in Tables |-> {}]
    /\ deferred' = {}
    /\ backups' = [n \in Tables |-> NoBackup]
    /\ saves' = <<>>
    /\ begun' = [n \in Tables |-> [def |-> FALSE, rows |-> {}]]
    /\ kind' = [n \in Tables |-> "clean"]
    /\ moved' = FALSE

-----------------------------------------------------------------------------
(* An empty database with the tables a schema script has created.           *)
Init ==
    /\ workload \in Workloads
    /\ cat \in [Tables -> Tables \cup {NoDir}]
    /\ \A n \in Tables : cat[n] \in {NoDir} \cup ({n} \cap workload.tables)
    /\ disk = cat
    /\ files = [d \in Tables |-> {}]
    /\ buffer = [n \in Tables |-> {}]
    /\ inTxn = FALSE
    /\ snapCat = [n \in Tables |-> NoDir]
    /\ snapFiles = [n \in Tables |-> {}]
    /\ deferred = {}
    /\ backups = [n \in Tables |-> NoBackup]
    /\ saves = <<>>
    /\ begun = [n \in Tables |-> [def |-> FALSE, rows |-> {}]]
    /\ kind = [n \in Tables |-> "clean"]
    /\ moved = FALSE

(* handle_insert, buffered: no flush first; a threshold may flush after.    *)
HandleInsertBuffered(n, r, full, id) ==
    /\ Exists(n)
    /\ r \notin KnownRows
    /\ FreshId(id)
    /\ LET rows == buffer[n] \cup {r}
           one == files[cat[n]] \cup {[id |-> id, rows |-> rows]}
       IN  IF full
           THEN /\ buffer' = [buffer EXCEPT ![n] = {}]
                /\ files' = [files EXCEPT ![cat[n]] =
                     IF ~inTxn /\ CompactAt > 0 /\ cat[n] = n /\ Cardinality(one) >= CompactAt
                     THEN {[id |-> id, rows |-> RowsOf(one)]} ELSE one]
           ELSE buffer' = [buffer EXCEPT ![n] = rows] /\ UNCHANGED files
    /\ kind' = [kind EXCEPT ![n] = Touch(n, "append")]
    /\ UNCHANGED <<workload, cat, disk, txnVars>>

(* handle_insert with RETURNING or a foreign key: written at once.          *)
HandleInsertImmediate(n, r, id) ==
    /\ Exists(n)
    /\ r \notin KnownRows
    /\ FreshId(id)
    /\ files' = [files EXCEPT ![cat[n]] = @ \cup {[id |-> id, rows |-> {r}]}]
    /\ kind' = [kind EXCEPT ![n] = Touch(n, "append")]
    /\ UNCHANGED <<workload, cat, disk, buffer, txnVars>>

(* A SELECT that names n, or FLUSH (named = {}).                            *)
Read(named, id) ==
    /\ Buffered # {}
    /\ FreshId(id)
    /\ files' = FlushFor(named, id)
    /\ buffer' = BufferAfter(named)
    /\ UNCHANGED <<workload, cat, disk, kind, txnVars>>

(* The tables whose rows a DELETE on n that keeps keep must delete too, and *)
(* the files once those of done have been rewritten: before n and without a *)
(* backup.                                                                  *)
CascadeTo(n, fs, keep) ==
    {c \in Tables \ {n} : /\ <<n, c>> \in Cascade
                          /\ Exists(c)
                          /\ ~(RowsOf(fs[cat[n]]) \subseteq keep)
                          /\ ~(RowsOf(fs[cat[c]]) \subseteq keep)}
CascadeFiles(fs, done, keep, id) ==
    RewriteAll(cat, fs, done,
               [c \in Tables |-> IF Exists(c) THEN RowsOf(fs[cat[c]]) \cap keep ELSE {}], id)

(* handle_delete: keep survives the WHERE clause. A referencing child makes *)
(* it cascade, lose its references or, for RESTRICT, fail, then perhaps     *)
(* after another child has already been rewritten.                          *)
HandleDelete(n, keep, id) ==
    /\ "delete" \in Ops
    /\ Exists(n)
    /\ FreshId(id)
    /\ LET fs == FlushFor({n}, id)
           kids == CascadeTo(n, fs, keep)
       IN  /\ keep \subseteq RowsOf(UNION {fs[d] : d \in Tables})
           /\ backups' = BackupTable(n, fs)
           /\ files' = RewriteTable(CascadeFiles(fs, kids, keep, id), n,
                                    RowsOf(fs[cat[n]]) \cap keep, id)
           /\ kind' = [m \in Tables |-> IF m = n THEN Touch(n, "backed")
                                        ELSE IF m \in kids THEN Touch(m, "raw") ELSE kind[m]]
    /\ buffer' = BufferAfter({n})
    /\ UNCHANGED <<workload, cat, disk, inTxn, snapCat, snapFiles, deferred, saves, begun, moved>>

(* handle_delete with a SET NULL child c: its referencing row becomes new.  *)
HandleDeleteSetNull(n, c, keep, old, new, id) ==
    /\ "delete" \in Ops
    /\ <<n, c>> \in SetNull /\ c # n
    /\ Exists(n) /\ Exists(c)
    /\ FreshId(id)
    /\ new \notin KnownRows
    /\ LET fs == FlushFor({n}, id)
           child == RewriteTable(fs, c, (RowsOf(fs[cat[c]]) \ {old}) \cup {new}, id)
       IN  /\ keep \subseteq RowsOf(fs[cat[n]]) /\ keep # RowsOf(fs[cat[n]])
           /\ old \in RowsOf(fs[cat[c]])
           /\ backups' = BackupTable(n, fs)
           /\ files' = RewriteTable(child, n, keep, id)
    /\ buffer' = BufferAfter({n})
    /\ kind' = [kind EXCEPT ![n] = Touch(n, "backed"), ![c] = Touch(c, "raw")]
    /\ UNCHANGED <<workload, cat, disk, inTxn, snapCat, snapFiles, deferred, saves, begun, moved>>

(* ... or a RESTRICT child.                                                 *)
HandleDeleteRestricted(n, keep, id) ==
    /\ "delete" \in Ops
    /\ n \in Restricted
    /\ Exists(n)
    /\ FreshId(id)
    /\ LET fs == FlushFor({n}, id)
       IN  /\ keep \subseteq RowsOf(UNION {fs[d] : d \in Tables})
           /\ ~(RowsOf(fs[cat[n]]) \subseteq keep)
           /\ backups' = BackupTable(n, fs)
           /\ \E done \in SUBSET CascadeTo(n, fs, keep) :
                /\ files' = CascadeFiles(fs, done, keep, id)
                /\ kind' = [m \in Tables |-> IF m = n THEN Touch(n, "backed")
                                             ELSE IF m \in done THEN Touch(m, "raw") ELSE kind[m]]
    /\ buffer' = BufferAfter({n})
    /\ UNCHANGED <<workload, cat, disk, inTxn, snapCat, snapFiles, deferred, saves, begun, moved>>

(* handle_update: old becomes new. The constraints are checked after the    *)
(* rewrite, so a statement that returns an error leaves the same files.     *)
HandleUpdate(n, old, new, id) ==
    /\ "update" \in Ops
    /\ Exists(n)
    /\ FreshId(id)
    /\ new \notin KnownRows
    /\ LET fs == FlushFor({n}, id)
       IN  /\ old \in RowsOf(fs[cat[n]])
           /\ backups' = BackupTable(n, fs)
           /\ files' = RewriteTable(fs, n, (RowsOf(fs[cat[n]]) \ {old}) \cup {new}, id)
    /\ buffer' = BufferAfter({n})
    /\ kind' = [kind EXCEPT ![n] = Touch(n, "backed")]
    /\ UNCHANGED <<workload, cat, disk, inTxn, snapCat, snapFiles, deferred, saves, begun, moved>>

(* A DELETE or UPDATE whose rewrite cannot be written: the old rows are     *)
(* written back (restore_table_from_snapshot), or not even those.           *)
RewriteFails(n, restored, id) ==
    /\ "rewriteError" \in Ops
    /\ Exists(n)
    /\ FreshId(id)
    /\ LET fs == FlushFor({n}, id)
       IN  /\ RowsOf(fs[cat[n]]) # {}
           /\ backups' = BackupTable(n, fs)
           /\ files' = RewriteTable(fs, n, IF restored THEN RowsOf(fs[cat[n]]) ELSE {}, id)
    /\ buffer' = BufferAfter({n})
    /\ kind' = [kind EXCEPT ![n] = Touch(n, "backed")]
    /\ UNCHANGED <<workload, cat, disk, inTxn, snapCat, snapFiles, deferred, saves, begun, moved>>

(* handle_vacuum: everything is flushed, files past the retention time are  *)
(* removed, the rest is rewritten as one file. handle_create_index makes    *)
(* the same file changes, with nothing pruned.                              *)
HandleVacuum(n, id) ==
    /\ "vacuum" \in Ops
    /\ Exists(n)
    /\ FreshId(id)
    /\ LET fs == FlushTable(Buffered, id)
       IN  /\ backups' = BackupTable(n, fs)
           /\ \E old \in SUBSET (IF n \in Retention THEN files[cat[n]] ELSE {}) :
                LET rest == [fs EXCEPT ![cat[n]] = @ \ old]
                IN  files' = RewriteTable(rest, n, RowsOf(rest[cat[n]]), id)
    /\ buffer' = [m \in Tables |-> {}]
    /\ kind' = [kind EXCEPT ![n] = Touch(n, "backed")]
    /\ UNCHANGED <<workload, cat, disk, inTxn, snapCat, snapFiles, deferred, saves, begun, moved>>

(* handle_truncate: no backup.                                              *)
HandleTruncate(n, id) ==
    /\ "truncate" \in Ops
    /\ Exists(n)
    /\ FreshId(id)
    /\ files' = [FlushFor({n}, id) EXCEPT ![n] = {}]
    /\ buffer' = BufferAfter({n})
    /\ kind' = [kind EXCEPT ![n] = Touch(n, "raw")]
    /\ UNCHANGED <<workload, cat, disk, txnVars>>

(* A clause of MERGE or upsert, without a backup: a matched row old is      *)
(* deleted or becomes new (a rewrite, also when none matches), or a row     *)
(* that matches nothing is appended. S is what is flushed first; an append  *)
(* finds its table flushed.                                                 *)
Small == {{}} \cup {{r} : r \in Rows}
MergeClause(n, S, old, new, id) ==
    /\ Exists(n)
    /\ FreshId(id)
    /\ new \cap KnownRows = {}
    /\ LET fs == FlushTable(S, id)
       IN  /\ old \subseteq RowsOf(fs[cat[n]])
           /\ IF old = {} /\ new # {}
                THEN /\ FlushRows(S, cat[n]) = {}
                     /\ files' = [fs EXCEPT ![cat[n]] = @ \cup {[id |-> id, rows |-> new]}]
                ELSE files' = RewriteTable(fs, n, (RowsOf(fs[cat[n]]) \ old) \cup new, id)
    /\ buffer' = [m \in Tables |-> IF m \in S THEN {} ELSE buffer[m]]
    /\ kind' = [kind EXCEPT ![n] = Touch(n, IF old = {} /\ new # {} THEN "append" ELSE "raw")]
    /\ UNCHANGED <<workload, cat, disk, txnVars>>

(* handle_merge: flush_all, then clause after clause.                       *)
HandleMerge(n, old, new, id) ==
    /\ "merge" \in Ops
    /\ MergeClause(n, Buffered, old, new, id)

(* handle_upsert: only its own table is flushed; DO UPDATE never deletes.   *)
HandleUpsert(n, old, new, id) ==
    /\ "upsert" \in Ops
    /\ new # {}
    /\ MergeClause(n, Buffered \cap {n}, old, new, id)

(* handle_create_table: the directory has the table's name; what is in it   *)
(* already belongs to the new table.                                        *)
HandleCreateTable(n, id) ==
    /\ "create" \in Ops /\ n \in workload.tables
    /\ ~Exists(n)
    /\ FreshId(id)
    /\ files' = FlushFor({n}, id)
    /\ buffer' = BufferAfter({n})
    /\ cat' = [cat EXCEPT ![n] = n]
    /\ SaveCatalog
    /\ UNCHANGED <<workload, kind, txnVars>>

(* Mutant: DROP TABLE forgets the path before it defers the deletion.       *)
DropDefersNothing(n, id) ==
    /\ "drop" \in Ops
    /\ Exists(n)
    /\ FreshId(id)
    /\ cat' = [cat EXCEPT ![n] = NoDir]
    /\ SaveCatalog
    /\ LET fs == FlushFor({n}, id)
       IN  files' = IF inTxn THEN fs ELSE [fs EXCEPT ![cat[n]] = {}]
    /\ buffer' = BufferAfter({n})
    /\ deferred' = IF inTxn THEN deferred \cup {cat'[n]} ELSE deferred
    /\ UNCHANGED <<workload, kind, inTxn, snapCat, snapFiles, backups, saves, begun, moved>>

(* handle_drop_table: in a transaction the storage is deleted at COMMIT.    *)
HandleDropTable(n, id) ==
    /\ "drop" \in Ops
    /\ Exists(n)
    /\ FreshId(id)
    /\ cat' = [cat EXCEPT ![n] = NoDir]
    /\ SaveCatalog
    /\ LET fs == FlushFor({n}, id)
       IN  files' = IF inTxn THEN fs ELSE [fs EXCEPT ![cat[n]] = {}]
    /\ buffer' = BufferAfter({n})
    /\ deferred' = IF inTxn THEN deferred \cup {cat[n]} ELSE deferred
    /\ UNCHANGED <<workload, kind, inTxn, snapCat, snapFiles, backups, saves, begun, moved>>

(* handle_rename_table: the name changes, the path does not.                *)
HandleRenameTable(n, m, id) ==
    /\ "rename" \in Ops
    /\ Exists(n)
    /\ ~Exists(m)
    /\ FreshId(id)
    /\ files' = FlushFor({n, m}, id)
    /\ buffer' = BufferAfter({n, m})
    /\ cat' = [cat EXCEPT ![n] = NoDir, ![m] = cat[n]]
    /\ SaveCatalog
    /\ kind' = [kind EXCEPT ![n] = Touch(n, "raw"), ![m] = Touch(m, "raw")]
    /\ UNCHANGED <<workload, txnVars>>

-----------------------------------------------------------------------------
(* handle_begin. The catalog and the file names, listed by table name.      *)
HandleBegin(id) ==
    /\ ~inTxn
    /\ FreshId(id)
    /\ files' = FlushTable(Buffered, id)
    /\ buffer' = [n \in Tables |-> {}]
    /\ inTxn' = TRUE
    /\ snapCat' = cat
    /\ snapFiles' = [n \in Tables |-> IF Exists(n) THEN files'[n] ELSE {}]
    /\ deferred' = {}
    /\ backups' = [n \in Tables |-> NoBackup]
    /\ saves' = <<>>
    /\ begun' = [n \in Tables |-> View(n)]
    /\ kind' = [n \in Tables |-> "clean"]
    /\ moved' = FALSE
    /\ UNCHANGED <<workload, cat, disk>>

(* Mutant: COMMIT leaves the buffers behind.                                *)
CommitWithoutFlush(id) ==
    /\ inTxn
    /\ FreshId(id)
    /\ disk' = cat
    /\ files' = [d \in Tables |-> IF d \in deferred THEN {} ELSE files[d]]
    /\ buffer' = [n \in Tables |-> {}]
    /\ Forget
    /\ UNCHANGED <<workload, cat>>

(* handle_commit: flush, save the catalog, delete the dropped storage.      *)
HandleCommit(id) ==
    /\ inTxn
    /\ FreshId(id)
    /\ disk' = cat
    /\ LET fs == FlushTable(Buffered, id)
       IN  files' = [d \in Tables |-> IF d \in deferred THEN {} ELSE fs[d]]
    /\ buffer' = [n \in Tables |-> {}]
    /\ Forget
    /\ UNCHANGED <<workload, cat>>

(* The file part that handle_rollback and handle_rollback_to share: delete  *)
(* what a snapshot (c, fl) does not list, then the storage of tables it     *)
(* does not have, then write the backups b back.                            *)
RestoreFiles(fs, c, fl, b, id) ==
    LET trimmed == [d \in Tables |-> IF c[d] # NoDir THEN fs[d] \cap fl[d] ELSE fs[d]]
        newDirs == {cat[n] : n \in {m \in Tables : Exists(m) /\ c[m] = NoDir}}
        emptied == [d \in Tables |-> IF d \in newDirs THEN {} ELSE trimmed[d]]
        back == {n \in Tables : b[n].has /\ c[n] # NoDir}
    IN  RewriteAll(c, emptied, back, [n \in Tables |-> b[n].rows], id)

(* handle_rollback.                                                         *)
HandleRollback(id) ==
    /\ inTxn
    /\ FreshId(id)
    /\ files' = RestoreFiles(FlushTable(Buffered, id), snapCat, snapFiles, backups, id)
    /\ buffer' = [n \in Tables |-> {}]
    /\ cat' = snapCat
    /\ disk' = snapCat
    /\ Forget
    /\ UNCHANGED workload

(* handle_savepoint. The statement's text, name included, decides what is   *)
(* flushed first. view is a ghost: what the tables look like now.           *)
HandleSavepoint(s, id) ==
    /\ "savepoint" \in Ops
    /\ inTxn
    /\ Len(saves) < MaxSaves
    /\ FreshId(id)
    /\ files' = FlushFor(Mentions[s], id)
    /\ buffer' = BufferAfter(Mentions[s])
    /\ saves' = Append(saves,
         [name |-> s, cat |-> cat, backups |-> backups,
          files |-> [n \in Tables |-> IF Exists(n) THEN files'[n] ELSE {}],
          view |-> [n \in Tables |-> View(n)]])
    /\ UNCHANGED <<workload, cat, disk, kind, inTxn, snapCat, snapFiles, deferred, backups,
                   begun, moved>>

(* Mutant: position instead of rposition.                                   *)
FirstSave(s) ==
    CHOOSE i \in DOMAIN saves :
        /\ saves[i].name = s
        /\ \A j \in DOMAIN saves : saves[j].name = s => i <= j

(* rposition: the latest savepoint of that name.                            *)
LatestSave(s) ==
    CHOOSE i \in DOMAIN saves :
        /\ saves[i].name = s
        /\ \A j \in DOMAIN saves : saves[j].name = s => j <= i
HasSave(s) == \E i \in DOMAIN saves : saves[i].name = s

(* handle_rollback_to: restores the savepoint, and then makes the restored  *)
(* state the snapshot of the whole transaction. A table created since then  *)
(* under the name of one dropped in the transaction takes the storage of    *)
(* that one with it. Excluded by the guard: rows left in the buffer of a    *)
(* table the savepoint does not have, whose next flush fails.               *)
HandleRollbackTo(s, id) ==
    /\ inTxn
    /\ HasSave(s)
    /\ FreshId(id)
    /\ LET sp == saves[LatestSave(s)]
       IN  /\ \A n \in Buffered \ ToFlush(Mentions[s]) : sp.cat[n] # NoDir
           /\ files' = RestoreFiles(FlushFor(Mentions[s], id), sp.cat, sp.files, sp.backups, id)
           /\ cat' = sp.cat
           /\ kind' = [n \in Tables |->
                IF /\ Exists(n) /\ sp.cat[n] = NoDir
                   /\ begun[n].def \/ \E i \in DOMAIN saves : saves[i].cat[n] # NoDir
                THEN "lost" ELSE kind[n]]
    /\ buffer' = BufferAfter(Mentions[s])
    /\ saves' = SubSeq(saves, 1, LatestSave(s))
    /\ snapCat' = cat'
    /\ snapFiles' = [n \in Tables |-> IF cat'[n] # NoDir THEN files'[n] ELSE {}]
    /\ backups' = [n \in Tables |-> NoBackup]
    /\ moved' = TRUE
    /\ UNCHANGED <<workload, disk, inTxn, deferred, begun>>

(* handle_release_savepoint.                                                *)
HandleReleaseSavepoint(s, id) ==
    /\ inTxn
    /\ HasSave(s)
    /\ FreshId(id)
    /\ files' = FlushFor(Mentions[s], id)
    /\ buffer' = BufferAfter(Mentions[s])
    /\ saves' = SubSeq(saves, 1, LatestSave(s) - 1)
    /\ UNCHANGED <<workload, cat, disk, kind, inTxn, snapCat, snapFiles, deferred, backups,
                   begun, moved>>

Next ==
    \E id \in FileIds :
        \/ \E n \in Tables, r \in Rows, full \in BOOLEAN : HandleInsertBuffered(n, r, full, id)
        \/ \E n \in Tables, r \in Rows : HandleInsertImmediate(n, r, id)
        \/ \E named \in {{n} : n \in Tables} \cup {{}} : Read(named, id)
        \/ \E n \in Tables, keep \in SUBSET Rows : HandleDelete(n, keep, id)
        \/ \E n \in Tables, keep \in SUBSET Rows : HandleDeleteRestricted(n, keep, id)
        \/ \E n, c \in Tables, keep \in SUBSET Rows, old, new \in Rows :
             HandleDeleteSetNull(n, c, keep, old, new, id)
        \/ \E n \in Tables, restored \in BOOLEAN : RewriteFails(n, restored, id)
        \/ \E n \in Tables, old, new \in Rows : HandleUpdate(n, old, new, id)
        \/ \E n \in Tables, old, new \in Small : HandleMerge(n, old, new, id)
        \/ \E n \in Tables, old, new \in Small : HandleUpsert(n, old, new, id)
        \/ \E n \in Tables : HandleVacuum(n, id) \/ HandleTruncate(n, id)
        \/ \E n \in Tables : HandleCreateTable(n, id) \/ HandleDropTable(n, id)
        \/ \E n, m \in Tables : HandleRenameTable(n, m, id)
        \/ HandleBegin(id) \/ HandleCommit(id) \/ HandleRollback(id)
        \/ \E s \in SaveNames : HandleSavepoint(s, id)
        \/ \E s \in SaveNames : HandleRollbackTo(s, id) \/ HandleReleaseSavepoint(s, id)

Spec == Init /\ [][Next]_vars

-----------------------------------------------------------------------------
TableView == [def : BOOLEAN, rows : SUBSET Rows]
Backup == [has : BOOLEAN, rows : SUBSET Rows]
Catalogs == [Tables -> Tables \cup {NoDir}]
FileMaps == [Tables -> SUBSET File]
Save == [name : SaveNames, cat : Catalogs, files : FileMaps,
         backups : [Tables -> Backup], view : [Tables -> TableView]]

(* Type invariant of the catalog, the files and the transaction.            *)
TypeOK ==
    /\ workload \in Workloads
    /\ cat \in Catalogs /\ disk \in Catalogs /\ snapCat \in Catalogs
    /\ files \in FileMaps /\ snapFiles \in FileMaps
    /\ buffer \in [Tables -> SUBSET Rows]
    /\ inTxn \in BOOLEAN /\ moved \in BOOLEAN
    /\ deferred \in SUBSET Tables
    /\ backups \in [Tables -> Backup]
    /\ saves \in Seq(Save)
    /\ begun \in [Tables -> TableView]
    /\ kind \in [Tables -> Kinds]

(* catalog.json while a transaction runs is the catalog of BEGIN, whatever  *)
(* DDL, savepoints and partial rollbacks do, and otherwise the catalog in   *)
(* memory: a crash at any point opens the catalog of the last commit.       *)
DiskCatalog ==
    IF inTxn THEN \A n \in Tables : (disk[n] # NoDir) = begun[n].def
             ELSE disk = cat

(* No statement stores a row twice: rewrites replace, flushes move. Holds   *)
(* while no table has been renamed.                                         *)
RowsOnce ==
    \A n \in Tables :
        /\ \A f, g \in files[n] : f # g => f.rows \cap g.rows = {}
        /\ Exists(n) => RowsOf(files[cat[n]]) \cap buffer[n] = {}

(* Every table, now and in the catalogs that a rollback may restore, is     *)
(* stored under its own name.                                               *)
OwnDirectories ==
    \A c \in {cat, snapCat} \cup {saves[i].cat : i \in DOMAIN saves} :
        \A n \in Tables : c[n] \in {n, NoDir}

(* ROLLBACK undoes appends, and rewrites that came first: a table that the  *)
(* transaction only appended to, or whose first change was a rewrite with   *)
(* backup_table_for_txn, is after handle_rollback what it was at BEGIN, if  *)
(* no table is stored under a name it had before a RENAME.                  *)
RollbackRestores ==
    [][ inTxn /\ ~inTxn' /\ OwnDirectories /\ (\E id \in FileIds : HandleRollback(id)) =>
          \A n \in Tables :
             kind[n] # "lost" /\ ~moved => View(n)' = begun[n] ]_vars

(* COMMIT changes no table, whatever order of CREATE, DROP, RENAME and      *)
(* savepoints came before, if no table is stored under a name it had before *)
(* a RENAME; only a table that is stored where a dropped one was loses its  *)
(* rows to the deferred deletes.                                            *)
CommitKeeps ==
    [][ OwnDirectories /\ (\E id \in FileIds : HandleCommit(id)) =>
          \A n \in Tables : View(n)' = View(n) \/ cat[n] \in deferred ]_vars

(* The savepoint a statement that names s means: the last one of the name.  *)
Named(s, i) ==
    /\ i \in DOMAIN saves /\ saves[i].name = s
    /\ \A j \in (i + 1)..Len(saves) : saves[j].name # s

(* ROLLBACK TO gives a table that the transaction has only appended to the  *)
(* contents it had at the latest savepoint of that name, however many       *)
(* savepoints, partial rollbacks and releases came between.                 *)
RollbackToRestores ==
    [][ saves' # <<>> /\ OwnDirectories =>
          \A s \in SaveNames, id \in FileIds : HandleRollbackTo(s, id) =>
          \A i \in DOMAIN saves, n \in Tables :
             Named(s, i) /\ kind[n] \in {"clean", "appended"} => View(n)' = saves[i].view[n] ]_vars

(* README.md: "ROLLBACK to discard all changes since BEGIN".                *)
RollbackDiscardsAll ==
    [][ (\E id \in FileIds : HandleRollback(id)) =>
          \A n \in Tables : View(n)' = begun[n] ]_vars

(* Comment of handle_rollback_to: "restores state to the named savepoint".  *)
SavepointRestored ==
    [][ saves' # <<>> => \A s \in SaveNames, id \in FileIds : HandleRollbackTo(s, id) =>
          \A i \in DOMAIN saves, n \in Tables :
             Named(s, i) => View(n)' = saves[i].view[n] ]_vars

(* Comment of handle_commit: "persists all mutations".                      *)
CommitPersists ==
    [][ (\E id \in FileIds : HandleCommit(id)) => \A n \in Tables : View(n)' = View(n) ]_vars

(* README.md: "ROLLBACK deletes Parquet files written since BEGIN, removes  *)
(* tables created during the transaction". A directory without a table is   *)
(* empty.                                                                   *)
NoOrphans ==
    ~inTxn => \A d \in Tables : files[d] # {} => \E n \in Tables : cat[n] = d

(* Comment of handle_delete: "selects surviving rows, rewrites the table".  *)
DeleteRemoves ==
    [][ \A n \in Tables, keep \in SUBSET Rows, id \in FileIds :
          HandleDelete(n, keep, id) => View(n)'.rows \subseteq keep ]_vars
=============================================================================
