---------------------------- MODULE Constraints -----------------------------
(***************************************************************************)
(* Table constraints and the uniqueness cache, crates/engine/src/lib.rs.   *)
(*                                                                         *)
(* One table with a key constraint (PRIMARY KEY or UNIQUE), a CHECK and,   *)
(* perhaps, a FOREIGN KEY. A plain INSERT is validated before it is        *)
(* written, against itself, the write buffer and a cache of the keys on    *)
(* disk; every other statement writes first and validates the table        *)
(* afterwards, or not at all. What the cache knows of the disk depends on  *)
(* which of them put the rows there, which is what the module is about.    *)
(* Logs and crashes are the subject of Wal and Ingest.                     *)
(***************************************************************************)
EXTENDS Naturals, FiniteSets

CONSTANTS
    Ids,        \* identities of rows (bound: rows that exist together)
    Keys,       \* values of the key column
    Null,       \* a NULL key
    Ops         \* the statements of the workload

ASSUME ConstraintsConstants == Null \notin Keys

VARIABLES
    schema,     \* TableMeta.constraints: which constraints the table has
    stored,     \* rows in the table's Parquet files
    buffer,     \* write_buffer: rows not yet written
    narrow,     \* the buffered column list leaves out the key column
    cache,      \* uniqueness_cache entry of the key constraint
    inTxn,      \* active_txn.is_some()
    base,       \* rows in files that BEGIN has listed and that still exist
    backup,     \* Transaction.rewrite_backups
    refused,    \* the row of an INSERT that just returned an error (ghost)
    bypassed,   \* rows were written past the loaded cache (ghost)
    stale,      \* rows were removed behind the loaded cache (ghost)
    waived,     \* statements that excuse invalid stored rows (ghost)
    mixed,      \* an INSERT was written around a non-empty buffer (ghost)
    lost        \* a flush has refused accepted rows (ghost)

txnVars == <<inTxn, base, backup>>
ghosts == <<bypassed, stale, waived, mixed, lost>>
vars == <<schema, stored, buffer, narrow, cache, txnVars, refused, ghosts>>

(* primary: the key constraint is PRIMARY KEY, else UNIQUE; foreign: there  *)
(* is a FOREIGN KEY as well.                                                *)
Schema == [primary : BOOLEAN, foreign : BOOLEAN]
Flaws == {"none", "check", "orphan"}
Row == [id : Ids, key : Keys \cup {Null}, flaw : Flaws]
Cache == [loaded : BOOLEAN, keys : SUBSET (Keys \cup {Null})]
NoCache == [loaded |-> FALSE, keys |-> {}]
NoBackup == [has |-> FALSE, rows |-> {}]

KeysOf(S) == {r.key : r \in S}
Duplicates(S) == \E r, s \in S : r # s /\ r.key = s.key
Fresh(r) ==
    /\ r.flaw = "orphan" => schema.foreign
    /\ r.id \notin {s.id : s \in stored \cup buffer \cup base \cup backup.rows}

-----------------------------------------------------------------------------
(* The rows a key constraint compares: UNIQUE skips NULL keys.              *)
Compared(S) == IF schema.primary THEN S ELSE {r \in S : r.key # Null}

(* Mutant: rows of one batch are not compared with each other.              *)
BatchSelfUnchecked(S) == schema.primary => Null \notin KeysOf(S)

(* validate_constraints_batch: the rows by themselves.                      *)
BatchKeysOk(S) ==
    /\ schema.primary => Null \notin KeysOf(S)
    /\ ~Duplicates(Compared(S))

(* Mutant: the set is filled with rows instead of their key tuples.         *)
LoadsRows(c, st) == IF c.loaded THEN c ELSE [loaded |-> TRUE, keys |-> Compared(st)]

(* ensure_uniqueness_loaded: reads the disk when the key set is absent.     *)
EnsureLoaded(c, st) ==
    IF c.loaded THEN c ELSE [loaded |-> TRUE, keys |-> KeysOf(Compared(st))]

(* The CHECK of validate_constraints_batch and of                           *)
(* validate_check_constraints: NOT (expr) selects no row.                   *)
ChecksOk(S) == \A r \in S : r.flaw # "check"

(* The FOREIGN KEY of AfterInsert: no stored row is an orphan.              *)
ReferencesOk(S) == \A r \in S : r.flaw # "orphan"

(* validate_table_constraints: GROUP BY also counts NULL keys.              *)
TableConstraintsOk(S) ==
    /\ schema.primary => Null \notin KeysOf(S)
    /\ ~Duplicates(S)
    /\ ReferencesOk(S)

(* check_uniqueness_against_table_cached.                                   *)
Unseen(S, c) == KeysOf(Compared(S)) \cap c.keys = {}

(* validate_constraints_batch, BeforeInsert: the result, the cache it       *)
(* leaves, and the keys to merge. Without the key column it validates the   *)
(* table on disk instead and returns.                                       *)
ValidateBatch(S, isNarrow, c, st) ==
    LET touched == ~isNarrow /\ BatchKeysOk(S) /\ Compared(S) # {}
        seen == IF touched THEN EnsureLoaded(c, st) ELSE c
    IN  [ok |-> IF isNarrow THEN TableConstraintsOk(st)
                ELSE BatchKeysOk(S) /\ Unseen(S, seen) /\ ChecksOk(S),
         cache |-> seen,
         keys |-> IF isNarrow THEN {} ELSE KeysOf(Compared(S))]

(* Mutant: flush_table does not merge the keys it has written.              *)
MergeForgotten(c, ks) == c

(* merge_uniqueness_keys, over the key sets that were returned.             *)
MergeKeys(c, ks) == IF ks = {} THEN c ELSE [loaded |-> TRUE, keys |-> c.keys \cup ks]

(* Mutant: a rewrite leaves the cached keys.                                *)
InvalidateNothing(c) == c

(* invalidate_uniqueness_cache_for_table.                                   *)
Invalidate(c) == NoCache

NoFlush == [ok |-> TRUE, stored |-> stored, cache |-> cache]

(* flush_table, then maybe_auto_compact outside a transaction. The rows     *)
(* leave the buffer before they are validated. A table with a foreign key   *)
(* has no buffered rows.                                                    *)
Flush(compact) ==
    LET v == ValidateBatch(buffer, narrow, cache, stored)
        merged == MergeKeys(v.cache, v.keys)
    IN  IF buffer = {}
        THEN NoFlush
        ELSE IF ~v.ok
        THEN [ok |-> FALSE, stored |-> stored, cache |-> v.cache]
        ELSE [ok |-> TRUE, stored |-> stored \cup buffer,
              cache |-> IF compact /\ ~inTxn THEN Invalidate(merged) ELSE merged]

(* The ghosts after a flush that put rows with no key on disk.              *)
WaivedBy(f) == IF f.stored # stored /\ (narrow \/ bypassed) THEN {"unchecked"} ELSE {}

(* After a statement that began with the flush f and left the cache c:      *)
(* unmerged rows on disk, or rows gone, are only forgotten with the cache.  *)
Ghosts(f, c, unmerged, gone, why) ==
    /\ bypassed' = (c.loaded /\ (bypassed \/ unmerged \/ (f.stored # stored /\ narrow)))
    /\ stale' = (c.loaded /\ (stale \/ gone))
    /\ waived' = waived \cup WaivedBy(f) \cup why
    /\ lost' = (lost \/ ~f.ok)
    /\ UNCHANGED schema

Init ==
    /\ schema \in Schema
    /\ stored = {} /\ buffer = {} /\ narrow = FALSE
    /\ cache = NoCache
    /\ inTxn = FALSE /\ base = {} /\ backup = NoBackup
    /\ refused = {}
    /\ bypassed = FALSE /\ stale = FALSE /\ waived = {} /\ mixed = FALSE /\ lost = FALSE

(* Mutant: a refused batch is not truncated from the buffer.                *)
BufferKeepsRefused(rest, r, ok) == rest \cup {r}

(* buffer_insert_batches: a refused batch is truncated again.               *)
BufferAfter(rest, r, ok) == IF ok THEN rest \cup {r} ELSE rest

(* Mutant: only the new rows are validated, not the rest of the buffer.     *)
NewRowsOnly(rest, r) == {r}

(* buffer_insert_batches validates entry.batches, the new rows included.    *)
RowsToValidate(rest, r) == rest \cup {r}

(* handle_insert and buffer_insert_batches. Another column list flushes     *)
(* the buffer first; the whole buffer is validated.                         *)
HandleInsertBuffered(r, isNarrow, compact) ==
    /\ ~schema.foreign
    /\ Fresh(r)
    /\ isNarrow => r.key = Null
    /\ LET change == buffer # {} /\ narrow # isNarrow
           f == IF change THEN Flush(compact) ELSE NoFlush
           rest == IF change THEN {} ELSE buffer
           v == ValidateBatch(RowsToValidate(rest, r), isNarrow, f.cache, f.stored)
           ok == f.ok /\ v.ok
       IN  /\ stored' = f.stored
           /\ buffer' = IF f.ok THEN BufferAfter(rest, r, v.ok) ELSE {}
           /\ narrow' = IF f.ok THEN isNarrow ELSE FALSE
           /\ cache' = IF f.ok THEN v.cache ELSE f.cache
           /\ refused' = IF ok THEN {} ELSE {r}
           /\ Ghosts(f, cache', FALSE, FALSE, {})
    /\ UNCHANGED <<txnVars, mixed>>

(* handle_insert with RETURNING or a foreign key: validated against the     *)
(* cache and not the buffer, written, and only then checked for references. *)
HandleInsertImmediate(r, isNarrow) ==
    /\ "returning" \in Ops \/ schema.foreign
    /\ Fresh(r)
    /\ isNarrow => r.key = Null
    /\ LET v == ValidateBatch({r}, isNarrow, cache, stored)
           done == v.ok /\ ReferencesOk(stored \cup {r})
       IN  /\ stored' = IF v.ok THEN stored \cup {r} ELSE stored
           /\ cache' = IF done THEN MergeKeys(v.cache, v.keys) ELSE v.cache
           /\ refused' = IF done THEN {} ELSE {r}
           /\ Ghosts(NoFlush, cache', v.ok /\ (isNarrow \/ ~done), FALSE,
                     (IF v.ok /\ (isNarrow \/ bypassed) THEN {"unchecked"} ELSE {})
                       \cup (IF v.ok /\ ~done THEN {"refused"} ELSE {}))
    /\ mixed' = (mixed \/ buffer # {})
    /\ UNCHANGED <<buffer, narrow, txnVars>>

-----------------------------------------------------------------------------
(* Every other statement flushes first and ends there when that fails;      *)
(* otherwise it leaves the rows st and the cache c.                         *)
Statement(f, st, c, unmerged, gone, why) ==
    /\ stored' = IF f.ok THEN st ELSE f.stored
    /\ cache' = IF f.ok THEN c ELSE f.cache
    /\ buffer' = {} /\ narrow' = FALSE
    /\ refused' = {}
    /\ Ghosts(f, cache', f.ok /\ unmerged, f.ok /\ gone, IF f.ok THEN why ELSE {})
    /\ UNCHANGED mixed

(* The validation of UPDATE, COPY FROM and upsert, when the rows are        *)
(* already written: the reason to waive it when it fails.                   *)
Validated(st) == IF TableConstraintsOk(st) /\ ChecksOk(st) THEN {} ELSE {"refused"}

(* rewrite_table under a transaction leaves none of the files of BEGIN.     *)
Rewritten(f) == base' = IF f.ok THEN {} ELSE base

(* backup_table_for_txn.                                                    *)
BackupTable(f) ==
    backup' = IF f.ok /\ inTxn /\ ~backup.has
              THEN [has |-> TRUE, rows |-> f.stored] ELSE backup

(* FLUSH, or a SELECT.                                                      *)
HandleFlush(compact) ==
    /\ buffer # {}
    /\ LET f == Flush(compact)
       IN  Statement(f, f.stored, f.cache, FALSE, FALSE, {})
    /\ UNCHANGED txnVars

(* handle_copy_from: writes past the cache, then validates the table.       *)
HandleCopyFrom(S, compact) ==
    /\ "copy" \in Ops
    /\ S # {}
    /\ \A r \in S : Fresh(r)
    /\ \A r, s \in S : r.id = s.id => r = s
    /\ LET f == Flush(compact)
       IN  Statement(f, f.stored \cup S, f.cache, TRUE, FALSE, Validated(f.stored \cup S))
    /\ UNCHANGED txnVars

(* handle_upsert: a row whose key exists updates those rows (or DO NOTHING, *)
(* changed = FALSE), any other is written past the cache. NULL never        *)
(* conflicts.                                                               *)
HandleUpsert(r, changed, compact) ==
    /\ "upsert" \in Ops
    /\ Fresh(r)
    /\ LET f == Flush(compact)
           hit == {s \in f.stored : s.key = r.key /\ r.key # Null}
           new == IF hit = {} THEN f.stored \cup {r}
                  ELSE IF changed
                  THEN (f.stored \ hit) \cup {[s EXCEPT !.flaw = r.flaw] : s \in hit}
                  ELSE f.stored
       IN  /\ Statement(f, new, IF hit # {} /\ changed THEN Invalidate(f.cache) ELSE f.cache,
                        hit = {}, FALSE, Validated(new))
           /\ IF hit # {} /\ changed THEN Rewritten(f) ELSE UNCHANGED base
    /\ UNCHANGED <<inTxn, backup>>

(* handle_update: the rewrite stays when the validation after it fails.     *)
HandleUpdate(r, new, compact) ==
    /\ "update" \in Ops
    /\ new.id = r.id
    /\ new.flaw = "orphan" => schema.foreign
    /\ LET f == Flush(compact)
           st == (f.stored \ {r}) \cup {new}
       IN  /\ r \in f.stored
           /\ Statement(f, st, Invalidate(f.cache), FALSE, FALSE, Validated(st))
           /\ BackupTable(f)
           /\ Rewritten(f)
    /\ UNCHANGED inTxn

(* handle_delete: keep survives.                                            *)
HandleDelete(keep, compact) ==
    /\ "delete" \in Ops
    /\ LET f == Flush(compact)
       IN  /\ keep \in {f.stored \ {r} : r \in f.stored} \cup {{}}
           /\ Statement(f, keep, Invalidate(f.cache), FALSE, FALSE, {})
           /\ BackupTable(f)
           /\ Rewritten(f)
    /\ UNCHANGED inTxn

(* handle_truncate: no backup.                                              *)
HandleTruncate(compact) ==
    /\ "truncate" \in Ops
    /\ LET f == Flush(compact)
       IN  Statement(f, {}, Invalidate(f.cache), FALSE, FALSE, {}) /\ Rewritten(f)
    /\ UNCHANGED <<inTxn, backup>>

(* handle_vacuum, and handle_create_index, which sorts the rows into new    *)
(* files without rewrite_table and so keeps the cache.                      *)
HandleReorganize(invalidates, compact) ==
    /\ "vacuum" \in Ops
    /\ LET f == Flush(compact)
       IN  /\ Statement(f, f.stored, IF invalidates THEN Invalidate(f.cache) ELSE f.cache,
                        FALSE, FALSE, {})
           /\ BackupTable(f)
           /\ Rewritten(f)
    /\ UNCHANGED inTxn

(* handle_merge: nothing is validated. An insert clause writes past the     *)
(* cache, an update or delete clause rewrites without a backup.             *)
HandleMergeInsert(r, compact) ==
    /\ "merge" \in Ops
    /\ Fresh(r)
    /\ LET f == Flush(compact)
       IN  Statement(f, f.stored \cup {r}, f.cache, TRUE, FALSE, {"refused"})
    /\ UNCHANGED txnVars
HandleMergeMatched(r, new, compact) ==
    /\ "merge" \in Ops
    /\ \A s \in new : s.id = r.id /\ (s.flaw = "orphan" => schema.foreign)
    /\ LET f == Flush(compact)
       IN  /\ r \in f.stored
           /\ Statement(f, (f.stored \ {r}) \cup new, Invalidate(f.cache), FALSE, FALSE,
                        {"refused"})
           /\ Rewritten(f)
    /\ UNCHANGED <<inTxn, backup>>

(* handle_begin, handle_commit, handle_rollback. ROLLBACK deletes the files *)
(* written since BEGIN, which the cache does not notice, or writes the      *)
(* backup back with rewrite_table, which it does.                           *)
HandleBegin(compact) ==
    /\ "txn" \in Ops
    /\ ~inTxn
    /\ LET f == Flush(compact)
       IN  /\ Statement(f, f.stored, f.cache, FALSE, FALSE, {})
           /\ inTxn' = f.ok
           /\ base' = IF f.ok THEN f.stored ELSE base
    /\ UNCHANGED backup
HandleCommit ==
    /\ inTxn
    /\ LET f == Flush(FALSE)
       IN  /\ Statement(f, f.stored, f.cache, FALSE, FALSE, {})
           /\ inTxn' = ~f.ok
           /\ base' = IF f.ok THEN {} ELSE base
           /\ backup' = IF f.ok THEN NoBackup ELSE backup
HandleRollback ==
    /\ inTxn
    /\ LET f == Flush(FALSE)
       IN  /\ IF backup.has
              THEN Statement(f, backup.rows, Invalidate(f.cache), FALSE, FALSE, {})
              ELSE Statement(f, base, f.cache, FALSE, base # f.stored, {})
           /\ inTxn' = ~f.ok
           /\ base' = IF f.ok THEN {} ELSE base
           /\ backup' = IF f.ok THEN NoBackup ELSE backup

Next ==
    \E compact \in {FALSE} \cup {buffer # {} /\ ~inTxn} :
        \/ \E r \in Row, n \in BOOLEAN : HandleInsertBuffered(r, n, compact)
        \/ \E r \in Row, n \in BOOLEAN : HandleInsertImmediate(r, n)
        \/ HandleFlush(compact)
        \/ \E r, s \in Row : HandleCopyFrom({r, s}, compact)
        \/ \E r \in Row, changed \in BOOLEAN : HandleUpsert(r, changed, compact)
        \/ \E r \in stored \cup buffer, new \in Row : HandleUpdate(r, new, compact)
        \/ \E keep \in SUBSET (stored \cup buffer) : HandleDelete(keep, compact)
        \/ HandleTruncate(compact)
        \/ \E inv \in BOOLEAN : HandleReorganize(inv, compact)
        \/ \E r \in Row : HandleMergeInsert(r, compact)
        \/ \E r \in stored \cup buffer, new \in {{}} \cup {{s} : s \in Row} :
             HandleMergeMatched(r, new, compact)
        \/ HandleBegin(compact)
        \/ HandleCommit
        \/ HandleRollback

Spec == Init /\ [][Next]_vars

-----------------------------------------------------------------------------
(* Type invariant of the table, the buffer, the cache and the transaction.  *)
TypeOK ==
    /\ schema \in Schema
    /\ stored \in SUBSET Row /\ buffer \in SUBSET Row /\ narrow \in BOOLEAN
    /\ cache \in Cache
    /\ inTxn \in BOOLEAN /\ base \in SUBSET Row
    /\ backup \in [has : BOOLEAN, rows : SUBSET Row]
    /\ refused \in SUBSET Row
    /\ bypassed \in BOOLEAN /\ stale \in BOOLEAN
    /\ waived \in SUBSET {"unchecked", "refused"}
    /\ mixed \in BOOLEAN /\ lost \in BOOLEAN

(* Field comment of uniqueness_cache: "Loaded lazily from disk once per     *)
(* table/constraint, then updated incrementally on successful inserts".     *)
(* A loaded key set is that of the files: through flushes, rewrites,        *)
(* rejected statements and transactions it has every stored key unless a    *)
(* statement wrote past it, and no other unless a ROLLBACK deleted files.   *)
CacheExact ==
    cache.loaded =>
        /\ ~bypassed => KeysOf(Compared(stored)) \subseteq cache.keys
        /\ ~stale => cache.keys \subseteq KeysOf(Compared(stored))

(* The stored rows satisfy the key constraint and the CHECK as long as no   *)
(* rejected statement, MERGE, INSERT without the key column or write past   *)
(* the cache came before: validating in pieces (batch, buffer, cache) adds  *)
(* up to the constraint on the table.                                       *)
StoredValid ==
    waived = {} =>
        /\ schema.primary => Null \notin KeysOf(stored)
        /\ ~Duplicates(Compared(stored))
        /\ ChecksOk(stored) /\ ReferencesOk(stored)

(* A row that handle_insert has accepted into the buffer is not refused by  *)
(* the flush_table that removes it from there, which would lose it; unless  *)
(* an immediate INSERT went around the buffer.                              *)
AcceptedIsWritten == lost => mixed

(* An INSERT that returns an error leaves nothing of its row behind, unless *)
(* the error is the foreign key that is checked after the write.            *)
RefusedLeavesNothing ==
    ~schema.foreign => refused \cap (stored \cup buffer) = {}

(* DESIGN.md: "PrimaryKey { columns } -- enforces uniqueness and non-null", *)
(* "Unique { name, columns } -- enforces uniqueness, allows NULLs". As long *)
(* as every statement was accepted, no two stored rows have the same key.   *)
UniqueEnforced ==
    waived \subseteq {"unchecked"} =>
        \A r, s \in stored : r # s /\ r.key # Null => r.key # s.key
=============================================================================
