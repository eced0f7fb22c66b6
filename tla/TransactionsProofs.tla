------------------------- MODULE TransactionsProofs -------------------------
(***************************************************************************)
(* Proofs about transactions: types and the catalog on disk for every set  *)
(* of tables, foreign keys and workloads; where no table is renamed, that  *)
(* no statement, savepoint or rollback stores a row twice; and what of the *)
(* rows COMMIT, ROLLBACK and ROLLBACK TO keep or bring back, renames       *)
(* included.                                                               *)
(***************************************************************************)
EXTENDS Transactions, WellFoundedInduction, TLAPS

-----------------------------------------------------------------------------
(* Types of the operators that the handlers are built from.                 *)
LEMMA RowsOfType ==
    ASSUME NEW fs \in SUBSET File PROVE RowsOf(fs) \in SUBSET Rows
  BY DEF RowsOf, File

LEMMA CatType ==
    ASSUME TypeOK, NEW n \in Tables, Exists(n) PROVE cat[n] \in Tables
  BY DEF TypeOK, Catalogs, Exists

LEMMA NewFile ==
    ASSUME NEW id \in FileIds, NEW rows \in SUBSET Rows PROVE [id |-> id, rows |-> rows] \in File
  BY DEF File

LEMMA FlushType ==
    ASSUME TypeOK, NEW S \in SUBSET Tables, NEW id \in FileIds
    PROVE  FlushTable(S, id) \in FileMaps
  <1> SUFFICES ASSUME NEW d \in Tables PROVE FlushTable(S, id)[d] \in SUBSET File
    BY DEF FlushTable, FileMaps
  <1> DEFINE new == files[d] \cup {[id |-> id, rows |-> FlushRows(S, d)]}
  <1>1. FlushRows(S, d) \in SUBSET Rows /\ files[d] \in SUBSET File
    BY DEF FlushRows, TypeOK, FileMaps
  <1>2. new \in SUBSET File
    BY <1>1, NewFile
  <1>3. [id |-> id, rows |-> RowsOf(new)] \in File
    BY <1>2, RowsOfType, NewFile
  <1>4. FlushTable(S, id)[d] \in {files[d], {[id |-> id, rows |-> RowsOf(new)]}, new}
    BY DEF FlushTable
  <1> QED
    BY <1>1, <1>2, <1>3, <1>4

LEMMA ToFlushType ==
    ASSUME NEW named \in SUBSET Tables PROVE ToFlush(named) \in SUBSET Tables
  BY DEF ToFlush, Buffered

LEMMA FlushForType ==
    ASSUME TypeOK, NEW named \in SUBSET Tables, NEW id \in FileIds
    PROVE  /\ FlushFor(named, id) \in FileMaps
           /\ BufferAfter(named) \in [Tables -> SUBSET Rows]
  <1>1. FlushFor(named, id) \in FileMaps
    BY FlushType, ToFlushType DEF FlushFor
  <1> QED
    BY <1>1 DEF BufferAfter, TypeOK

LEMMA RewriteAllType ==
    ASSUME NEW fs \in FileMaps, NEW c, NEW S \in SUBSET Tables,
           NEW new \in [Tables -> SUBSET Rows], NEW id \in FileIds
    PROVE  RewriteAll(c, fs, S, new, id) \in FileMaps
  BY NewFile DEF RewriteAll, FileMaps

LEMMA RewriteTableType ==
    ASSUME NEW fs \in FileMaps, NEW n \in Tables, NEW rows \in SUBSET Rows, NEW id \in FileIds
    PROVE  RewriteTable(fs, n, rows, id) \in FileMaps
  BY RewriteAllType DEF RewriteTable

LEMMA BackupType ==
    ASSUME TypeOK, NEW fs \in FileMaps, NEW n \in Tables, Exists(n)
    PROVE  BackupTable(n, fs) \in [Tables -> Backup]
  <1>1. RowsOf(fs[cat[n]]) \in SUBSET Rows
    BY CatType, RowsOfType DEF FileMaps
  <1> QED
    BY <1>1 DEF BackupTable, TypeOK, Backup

LEMMA NoBackupType == NoBackup \in Backup /\ [n \in Tables |-> NoBackup] \in [Tables -> Backup]
  BY DEF NoBackup, Backup

LEMMA TouchType ==
    ASSUME TypeOK, NEW n \in Tables, NEW how \in {"append", "backed", "raw"}
    PROVE  Touch(n, how) \in Kinds
  BY DEF Touch, TypeOK, Kinds

LEMMA ViewType ==
    ASSUME TypeOK, NEW n \in Tables PROVE View(n) \in TableView
  <1>1. Exists(n) => RowsOf(files[cat[n]]) \cup buffer[n] \in SUBSET Rows
    BY CatType, RowsOfType DEF TypeOK, FileMaps
  <1>2. Exists(n) \in BOOLEAN
    BY DEF Exists
  <1> QED
    BY <1>1, <1>2 DEF View, TableView

LEMMA CascadeType ==
    ASSUME TypeOK, NEW fs \in FileMaps, NEW done \in SUBSET Tables, NEW keep,
           NEW id \in FileIds
    PROVE  CascadeFiles(fs, done, keep, id) \in FileMaps
  <1>1. ASSUME NEW c \in Tables
        PROVE  (IF Exists(c) THEN RowsOf(fs[cat[c]]) \cap keep ELSE {}) \in SUBSET Rows
    BY CatType, RowsOfType DEF FileMaps
  <1>2. [c \in Tables |-> IF Exists(c) THEN RowsOf(fs[cat[c]]) \cap keep ELSE {}]
          \in [Tables -> SUBSET Rows]
    BY <1>1
  <1> QED
    BY <1>2, RewriteAllType DEF CascadeFiles

LEMMA RestoreType ==
    ASSUME NEW fs \in FileMaps, NEW c, NEW fl \in FileMaps,
           NEW b \in [Tables -> Backup], NEW id \in FileIds
    PROVE  RestoreFiles(fs, c, fl, b, id) \in FileMaps
  <1> DEFINE trimmed == [d \in Tables |-> IF c[d] # NoDir THEN fs[d] \cap fl[d] ELSE fs[d]]
             newDirs == {cat[n] : n \in {m \in Tables : Exists(m) /\ c[m] = NoDir}}
             emptied == [d \in Tables |-> IF d \in newDirs THEN {} ELSE trimmed[d]]
             back == {n \in Tables : b[n].has /\ c[n] # NoDir}
             new == [n \in Tables |-> b[n].rows]
  <1>1. emptied \in FileMaps
    BY DEF FileMaps
  <1>2. new \in [Tables -> SUBSET Rows]
    BY DEF Backup
  <1>3. back \in SUBSET Tables
    OBVIOUS
  <1>4. RewriteAll(c, emptied, back, new, id) \in FileMaps
    <2> HIDE DEF emptied, back, new
    <2> QED
      BY <1>1, <1>2, <1>3, RewriteAllType
  <1> QED
    BY <1>4 DEF RestoreFiles

LEMMA ForgetType ==
    ASSUME Forget
    PROVE  /\ inTxn' \in BOOLEAN /\ moved' \in BOOLEAN /\ snapCat' \in Catalogs
           /\ snapFiles' \in FileMaps /\ deferred' \in SUBSET Tables
           /\ backups' \in [Tables -> Backup] /\ saves' \in Seq(Save)
           /\ begun' \in [Tables -> TableView] /\ kind' \in [Tables -> Kinds]
  <1>1. saves' \in Seq(Save)
    BY DEF Forget
  <1>2. begun' \in [Tables -> TableView] /\ kind' \in [Tables -> Kinds]
    BY DEF Forget, TableView, Kinds
  <1>3. snapCat' \in Catalogs /\ snapFiles' \in FileMaps
    BY DEF Forget, Catalogs, FileMaps
  <1> QED
    BY <1>1, <1>2, <1>3, NoBackupType DEF Forget

(* The latest savepoint of a name exists when one of the name does.         *)
LEMMA LatestSaveExists ==
    ASSUME TypeOK, NEW s, HasSave(s)
    PROVE  /\ LatestSave(s) \in DOMAIN saves /\ saves[LatestSave(s)].name = s
           /\ \A j \in DOMAIN saves : saves[j].name = s => j <= LatestSave(s)
  <1> DEFINE I == {i \in DOMAIN saves : saves[i].name = s}
             D == {Len(saves) - i : i \in I}
  <1>1. Len(saves) \in Nat /\ DOMAIN saves = 1..Len(saves)
    BY DEF TypeOK
  <1>2. D \in SUBSET Nat /\ D # {}
    BY <1>1 DEF HasSave
  <1>3. PICK m \in D : \A k \in D : m <= k
    <2> HIDE DEF D
    <2>1. PICK x \in D : \A k \in D : <<k, x>> \notin OpToRel(<, Nat)
      BY <1>2, NatLessThanWellFounded, WFMin
    <2>2. ASSUME NEW k \in D PROVE x <= k
      <3>1. k \in Nat /\ x \in Nat
        BY <1>2
      <3>2. k < x => <<k, x>> \in OpToRel(<, Nat)
        BY <3>1 DEF OpToRel
      <3>3. ~(k < x)
        BY <2>1, <3>2, Zenon
      <3> QED
        BY <3>1, <3>3
    <2> QED
      BY <2>2
  <1>4. PICK i \in I : m = Len(saves) - i
    BY <1>3
  <1>5. \A j \in I : j <= i
    <2> SUFFICES ASSUME NEW j \in I PROVE j <= i
      OBVIOUS
    <2>1. Len(saves) - i <= Len(saves) - j
      BY <1>3, <1>4
    <2> QED
      BY <2>1, <1>1
  <1> QED
    BY <1>4, <1>5 DEF LatestSave

LEMMA SaveType ==
    ASSUME TypeOK, NEW i \in DOMAIN saves
    PROVE  saves[i] \in Save /\ SubSeq(saves, 1, i) \in Seq(Save)
             /\ SubSeq(saves, 1, i - 1) \in Seq(Save)
  <1>1. saves \in Seq(Save) /\ i \in 1..Len(saves) /\ Len(saves) \in Nat
    BY DEF TypeOK
  <1>2. saves[i] \in Save
    BY <1>1
  <1>3. SubSeq(saves, 1, i) \in Seq(Save)
    BY <1>1
  <1>4. SubSeq(saves, 1, i - 1) \in Seq(Save)
    BY <1>1
  <1> QED
    BY <1>2, <1>3, <1>4

-----------------------------------------------------------------------------
LEMMA InitType == Init => TypeOK
  <1> SUFFICES ASSUME Init PROVE TypeOK
    OBVIOUS
  <1>1. saves \in Seq(Save) /\ workload \in Workloads /\ cat \in Catalogs /\ disk \in Catalogs
    BY DEF Init, Catalogs
  <1>2. snapCat \in Catalogs /\ files \in FileMaps /\ snapFiles \in FileMaps
    BY DEF Init, Catalogs, FileMaps
  <1>3. begun \in [Tables -> TableView] /\ kind \in [Tables -> Kinds]
    BY DEF Init, TableView, Kinds
  <1> QED
    BY <1>1, <1>2, <1>3, NoBackupType DEF Init, TypeOK

(* The part of the state that a statement which is no transaction statement *)
(* and no DDL changes.                                                      *)
LEMMA DataType ==
    ASSUME TypeOK, files' \in FileMaps, buffer' \in [Tables -> SUBSET Rows],
           kind' \in [Tables -> Kinds], backups' \in [Tables -> Backup],
           UNCHANGED <<workload, cat, disk, inTxn, snapCat, snapFiles, deferred, saves, begun, moved>>
    PROVE  TypeOK'
  BY DEF TypeOK

LEMMA DdlType ==
    ASSUME TypeOK, files' \in FileMaps, buffer' \in [Tables -> SUBSET Rows],
           kind' \in [Tables -> Kinds], cat' \in Catalogs, deferred' \in SUBSET Tables,
           SaveCatalog,
           UNCHANGED <<workload, inTxn, snapCat, snapFiles, backups, saves, begun, moved>>
    PROVE  TypeOK'
  BY DEF TypeOK, SaveCatalog

LEMMA InsertType ==
    ASSUME TypeOK, NEW n \in Tables, NEW r \in Rows, NEW full \in BOOLEAN, NEW id \in FileIds,
           HandleInsertBuffered(n, r, full, id) \/ HandleInsertImmediate(n, r, id)
    PROVE  TypeOK'
  <1>1. cat[n] \in Tables /\ Touch(n, "append") \in Kinds
    BY CatType, TouchType DEF HandleInsertBuffered, HandleInsertImmediate
  <1>2. kind' \in [Tables -> Kinds]
    BY <1>1 DEF HandleInsertBuffered, HandleInsertImmediate, TypeOK
  <1>3. UNCHANGED <<workload, cat, disk, txnVars>>
    BY DEF HandleInsertBuffered, HandleInsertImmediate
  <1> DEFINE rows == buffer[n] \cup {r}
             one == files[cat[n]] \cup {[id |-> id, rows |-> rows]}
  <1>4. rows \in SUBSET Rows /\ files[cat[n]] \in SUBSET File /\ [id |-> id, rows |-> {r}] \in File
    BY <1>1, NewFile DEF TypeOK, FileMaps
  <1>5. one \in SUBSET File
    BY <1>4, NewFile
  <1>6. {[id |-> id, rows |-> RowsOf(one)]} \in SUBSET File
    BY <1>5, RowsOfType, NewFile
  <1>7. files' \in FileMaps /\ buffer' \in [Tables -> SUBSET Rows]
    <2>1. CASE HandleInsertImmediate(n, r, id)
      <3>1. files[cat[n]] \cup {[id |-> id, rows |-> {r}]} \in SUBSET File
        BY <1>4
      <3>2. files' \in FileMaps
        BY <2>1, <3>1 DEF HandleInsertImmediate, TypeOK, FileMaps
      <3> QED
        BY <2>1, <3>2 DEF HandleInsertImmediate, TypeOK
    <2>2. CASE HandleInsertBuffered(n, r, full, id)
      <3>1. CASE full
        <4>1. \E fs \in SUBSET File : files' = [files EXCEPT ![cat[n]] = fs]
          BY <2>2, <3>1, <1>5, <1>6 DEF HandleInsertBuffered
        <4>2. files' \in FileMaps
          BY <4>1 DEF TypeOK, FileMaps
        <4> QED
          BY <2>2, <3>1, <4>2 DEF HandleInsertBuffered, TypeOK
      <3>2. CASE ~full
        BY <2>2, <3>2, <1>4 DEF HandleInsertBuffered, TypeOK
      <3> QED
        BY <3>1, <3>2
    <2> QED
      BY <2>1, <2>2
  <1> QED
    BY <1>2, <1>3, <1>7, DataType DEF txnVars, TypeOK

LEMMA ReadType ==
    ASSUME TypeOK, NEW named \in SUBSET Tables, NEW id \in FileIds, Read(named, id)
    PROVE  TypeOK'
  BY DataType, FlushForType DEF Read, txnVars, TypeOK

LEMMA DeleteType ==
    ASSUME TypeOK, NEW n \in Tables, NEW keep \in SUBSET Rows, NEW id \in FileIds,
           HandleDelete(n, keep, id) \/ HandleDeleteRestricted(n, keep, id)
    PROVE  TypeOK'
  <1> DEFINE fs == FlushFor({n}, id)
  <1>1. fs \in FileMaps /\ BufferAfter({n}) \in [Tables -> SUBSET Rows]
    BY FlushForType
  <1>2. BackupTable(n, fs) \in [Tables -> Backup]
    BY <1>1, BackupType DEF HandleDelete, HandleDeleteRestricted
  <1>3. \A done \in SUBSET Tables : CascadeFiles(fs, done, keep, id) \in FileMaps
    BY <1>1, CascadeType
  <1>4. RowsOf(fs[cat[n]]) \cap keep \in SUBSET Rows
    OBVIOUS
  <1>5. CascadeTo(n, fs, keep) \in SUBSET Tables
    BY DEF CascadeTo
  <1>6. files' \in FileMaps
    BY <1>3, <1>4, <1>5, RewriteTableType DEF HandleDelete, HandleDeleteRestricted
  <1>7. kind' \in [Tables -> Kinds]
    BY TouchType DEF HandleDelete, HandleDeleteRestricted, TypeOK
  <1> QED
    BY <1>1, <1>2, <1>6, <1>7, DataType DEF HandleDelete, HandleDeleteRestricted

LEMMA DeleteSetNullType ==
    ASSUME TypeOK, NEW n \in Tables, NEW c \in Tables, NEW keep \in SUBSET Rows,
           NEW old \in Rows, NEW new \in Rows, NEW id \in FileIds,
           HandleDeleteSetNull(n, c, keep, old, new, id)
    PROVE  TypeOK'
  <1> DEFINE fs == FlushFor({n}, id)
  <1>1. fs \in FileMaps /\ BufferAfter({n}) \in [Tables -> SUBSET Rows]
    BY FlushForType
  <1>2. BackupTable(n, fs) \in [Tables -> Backup]
    BY <1>1, BackupType DEF HandleDeleteSetNull
  <1>3. (RowsOf(fs[cat[c]]) \ {old}) \cup {new} \in SUBSET Rows
    BY <1>1, CatType, RowsOfType DEF HandleDeleteSetNull, FileMaps
  <1>4. files' \in FileMaps
    BY <1>1, <1>3, RewriteTableType DEF HandleDeleteSetNull
  <1>5. kind' \in [Tables -> Kinds]
    BY TouchType DEF HandleDeleteSetNull, TypeOK
  <1> QED
    BY <1>1, <1>2, <1>4, <1>5, DataType DEF HandleDeleteSetNull

LEMMA UpdateType ==
    ASSUME TypeOK, NEW n \in Tables, NEW old \in Rows, NEW new \in Rows, NEW id \in FileIds,
           HandleUpdate(n, old, new, id)
    PROVE  TypeOK'
  <1> DEFINE fs == FlushFor({n}, id)
  <1>1. fs \in FileMaps /\ BufferAfter({n}) \in [Tables -> SUBSET Rows]
    BY FlushForType
  <1>2. BackupTable(n, fs) \in [Tables -> Backup]
    BY <1>1, BackupType DEF HandleUpdate
  <1>3. (RowsOf(fs[cat[n]]) \ {old}) \cup {new} \in SUBSET Rows
    BY <1>1, CatType, RowsOfType DEF HandleUpdate, FileMaps
  <1>4. files' \in FileMaps
    BY <1>1, <1>3, RewriteTableType DEF HandleUpdate
  <1>5. kind' \in [Tables -> Kinds]
    BY TouchType DEF HandleUpdate, TypeOK
  <1> QED
    BY <1>1, <1>2, <1>4, <1>5, DataType DEF HandleUpdate

LEMMA RewriteFailsType ==
    ASSUME TypeOK, NEW n \in Tables, NEW restored \in BOOLEAN, NEW id \in FileIds,
           RewriteFails(n, restored, id)
    PROVE  TypeOK'
  <1> DEFINE fs == FlushFor({n}, id)
  <1>1. fs \in FileMaps /\ BufferAfter({n}) \in [Tables -> SUBSET Rows]
    BY FlushForType
  <1>2. BackupTable(n, fs) \in [Tables -> Backup]
    BY <1>1, BackupType DEF RewriteFails
  <1>3. RowsOf(fs[cat[n]]) \in SUBSET Rows
    BY <1>1, CatType, RowsOfType DEF RewriteFails, FileMaps
  <1>4. files' \in FileMaps
    BY <1>1, <1>3, RewriteTableType DEF RewriteFails
  <1>5. kind' \in [Tables -> Kinds]
    BY TouchType DEF RewriteFails, TypeOK
  <1> QED
    BY <1>1, <1>2, <1>4, <1>5, DataType DEF RewriteFails

LEMMA VacuumType ==
    ASSUME TypeOK, NEW n \in Tables, NEW id \in FileIds, HandleVacuum(n, id)
    PROVE  TypeOK'
  <1> DEFINE fs == FlushTable(Buffered, id)
  <1>1. fs \in FileMaps /\ cat[n] \in Tables
    BY FlushType, CatType DEF Buffered, HandleVacuum
  <1>2. BackupTable(n, fs) \in [Tables -> Backup]
    BY <1>1, BackupType DEF HandleVacuum
  <1>3. PICK old : LET rest == [fs EXCEPT ![cat[n]] = @ \ old]
                   IN  files' = RewriteTable(rest, n, RowsOf(rest[cat[n]]), id)
    BY DEF HandleVacuum
  <1> DEFINE rest == [fs EXCEPT ![cat[n]] = @ \ old]
  <1>4. rest \in FileMaps
    <2> HIDE DEF fs
    <2> QED
      BY <1>1 DEF FileMaps
  <1>5. files' \in FileMaps
    <2>1. files' = RewriteTable(rest, n, RowsOf(rest[cat[n]]), id)
      BY <1>3
    <2> HIDE DEF rest
    <2>2. RowsOf(rest[cat[n]]) \in SUBSET Rows
      BY <1>1, <1>4, RowsOfType DEF FileMaps
    <2> QED
      BY <2>1, <2>2, <1>4, RewriteTableType
  <1>6. kind' \in [Tables -> Kinds] /\ buffer' \in [Tables -> SUBSET Rows]
    BY TouchType DEF HandleVacuum, TypeOK
  <1> QED
    BY <1>2, <1>5, <1>6, DataType DEF HandleVacuum

LEMMA TruncateType ==
    ASSUME TypeOK, NEW n \in Tables, NEW id \in FileIds, HandleTruncate(n, id)
    PROVE  TypeOK'
  <1>1. FlushFor({n}, id) \in FileMaps /\ BufferAfter({n}) \in [Tables -> SUBSET Rows]
    BY FlushForType
  <1>2. files' \in FileMaps
    BY <1>1 DEF HandleTruncate, FileMaps
  <1>3. kind' \in [Tables -> Kinds]
    BY TouchType DEF HandleTruncate, TypeOK
  <1> QED
    BY <1>1, <1>2, <1>3, DataType DEF HandleTruncate, txnVars, TypeOK

LEMMA MergeType ==
    ASSUME TypeOK, NEW n \in Tables, NEW S \in SUBSET Tables, NEW old \in Small,
           NEW new \in Small, NEW id \in FileIds, MergeClause(n, S, old, new, id)
    PROVE  TypeOK'
  <1> DEFINE fs == FlushTable(S, id)
  <1>1. fs \in FileMaps /\ cat[n] \in Tables
    BY FlushType, CatType DEF MergeClause
  <1>2. new \in SUBSET Rows /\ RowsOf(fs[cat[n]]) \in SUBSET Rows
    BY <1>1, RowsOfType DEF Small, FileMaps
  <1>3. RewriteTable(fs, n, (RowsOf(fs[cat[n]]) \ old) \cup new, id) \in FileMaps
    BY <1>1, <1>2, RewriteTableType
  <1>4. [fs EXCEPT ![cat[n]] = @ \cup {[id |-> id, rows |-> new]}] \in FileMaps
    BY <1>1, <1>2, NewFile DEF FileMaps
  <1>5. files' \in FileMaps
    BY <1>3, <1>4 DEF MergeClause
  <1>6. kind' \in [Tables -> Kinds] /\ buffer' \in [Tables -> SUBSET Rows]
    BY TouchType DEF MergeClause, TypeOK
  <1> QED
    BY <1>5, <1>6, DataType DEF MergeClause, txnVars, TypeOK

LEMMA SchemaType ==
    ASSUME TypeOK, NEW n \in Tables, NEW m \in Tables, NEW id \in FileIds,
           HandleCreateTable(n, id) \/ HandleDropTable(n, id) \/ HandleRenameTable(n, m, id)
    PROVE  TypeOK'
  <1>1. \A named \in SUBSET Tables : /\ FlushFor(named, id) \in FileMaps
                                     /\ BufferAfter(named) \in [Tables -> SUBSET Rows]
    BY FlushForType
  <1>2. CASE HandleCreateTable(n, id)
    <2>1. cat' \in Catalogs
      BY <1>2 DEF HandleCreateTable, TypeOK, Catalogs
    <2> QED
      BY <1>1, <1>2, <2>1, DdlType DEF HandleCreateTable, txnVars, TypeOK
  <1>3. CASE HandleDropTable(n, id)
    <2>1. cat' \in Catalogs /\ cat[n] \in Tables
      BY <1>3, CatType DEF HandleDropTable, TypeOK, Catalogs
    <2>2. files' \in FileMaps
      BY <1>1, <1>3 DEF HandleDropTable, FileMaps
    <2> QED
      BY <1>1, <1>3, <2>1, <2>2, DdlType DEF HandleDropTable, TypeOK
  <1>4. CASE HandleRenameTable(n, m, id)
    <2>1. cat' \in Catalogs
      BY <1>4, CatType DEF HandleRenameTable, TypeOK, Catalogs
    <2>2. kind' \in [Tables -> Kinds]
      BY <1>4, TouchType DEF HandleRenameTable, TypeOK
    <2> QED
      BY <1>1, <1>4, <2>1, <2>2, DdlType DEF HandleRenameTable, txnVars, TypeOK
  <1> QED
    BY <1>2, <1>3, <1>4

LEMMA BufferedType == Buffered \in SUBSET Tables
  BY DEF Buffered

LEMMA BeginType ==
    ASSUME TypeOK, NEW id \in FileIds, HandleBegin(id) PROVE TypeOK'
  <1>1. files' \in FileMaps
    BY FlushType, BufferedType DEF HandleBegin
  <1>2. snapFiles' \in FileMaps
    BY <1>1 DEF HandleBegin, FileMaps
  <1>3. begun' \in [Tables -> TableView]
    BY ViewType DEF HandleBegin
  <1>4. saves' \in Seq(Save) /\ kind' \in [Tables -> Kinds]
    BY DEF HandleBegin, Kinds
  <1> QED
    BY <1>1, <1>2, <1>3, <1>4, NoBackupType DEF HandleBegin, TypeOK

LEMMA EndType ==
    ASSUME TypeOK, NEW id \in FileIds, HandleCommit(id) \/ HandleRollback(id) PROVE TypeOK'
  <1>1. FlushTable(Buffered, id) \in FileMaps
    BY FlushType, BufferedType
  <1>2. CASE HandleCommit(id)
    <2>1. files' \in FileMaps
      BY <1>1, <1>2 DEF HandleCommit, FileMaps
    <2> QED
      BY <1>2, <2>1, ForgetType DEF HandleCommit, TypeOK
  <1>3. CASE HandleRollback(id)
    <2>1. files' \in FileMaps
      BY <1>1, <1>3, RestoreType DEF HandleRollback, TypeOK
    <2> QED
      BY <1>3, <2>1, ForgetType DEF HandleRollback, TypeOK
  <1> QED
    BY <1>2, <1>3

LEMMA SavepointType ==
    ASSUME TypeOK, NEW s \in SaveNames, NEW id \in FileIds,
           HandleSavepoint(s, id) \/ HandleReleaseSavepoint(s, id)
    PROVE  TypeOK'
  <1>1. FlushFor(Mentions[s], id) \in FileMaps /\ BufferAfter(Mentions[s]) \in [Tables -> SUBSET Rows]
    BY FlushForType, TransactionsConstants
  <1>2. CASE HandleSavepoint(s, id)
    <2> DEFINE sp == [name |-> s, cat |-> cat, backups |-> backups,
                      files |-> [n \in Tables |-> IF Exists(n) THEN files'[n] ELSE {}],
                      view |-> [n \in Tables |-> View(n)]]
    <2>1. [n \in Tables |-> IF Exists(n) THEN files'[n] ELSE {}] \in FileMaps
      BY <1>1, <1>2 DEF HandleSavepoint, FileMaps
    <2>2. [n \in Tables |-> View(n)] \in [Tables -> TableView]
      BY ViewType
    <2>3. sp \in Save
      BY <2>1, <2>2 DEF Save, TypeOK
    <2>4. saves' \in Seq(Save)
      BY <1>2, <2>3 DEF HandleSavepoint, TypeOK
    <2> QED
      BY <1>1, <1>2, <2>4 DEF HandleSavepoint, TypeOK
  <1>3. CASE HandleReleaseSavepoint(s, id)
    <2>1. saves' \in Seq(Save)
      BY <1>3, LatestSaveExists, SaveType DEF HandleReleaseSavepoint
    <2> QED
      BY <1>1, <1>3, <2>1 DEF HandleReleaseSavepoint, TypeOK
  <1> QED
    BY <1>2, <1>3

LEMMA RollbackToType ==
    ASSUME TypeOK, NEW s \in SaveNames, NEW id \in FileIds, HandleRollbackTo(s, id)
    PROVE  TypeOK'
  <1> DEFINE sp == saves[LatestSave(s)]
             fs == FlushFor(Mentions[s], id)
  <1>1. fs \in FileMaps /\ BufferAfter(Mentions[s]) \in [Tables -> SUBSET Rows]
    BY FlushForType, TransactionsConstants
  <1>2. LatestSave(s) \in DOMAIN saves
    BY LatestSaveExists DEF HandleRollbackTo
  <1>3. sp \in Save /\ saves' \in Seq(Save)
    BY <1>2, SaveType DEF HandleRollbackTo
  <1>4. /\ sp.cat \in Catalogs /\ sp.files \in FileMaps /\ sp.backups \in [Tables -> Backup]
    BY <1>3 DEF Save
  <1>5. files' \in FileMaps /\ cat' \in Catalogs /\ buffer' \in [Tables -> SUBSET Rows]
    BY <1>1, <1>4, RestoreType DEF HandleRollbackTo
  <1>6. snapFiles' \in FileMaps
    BY <1>5 DEF HandleRollbackTo, FileMaps
  <1>7. kind' \in [Tables -> Kinds]
    BY DEF HandleRollbackTo, TypeOK, Kinds
  <1> QED
    BY <1>3, <1>5, <1>6, <1>7, NoBackupType DEF HandleRollbackTo, TypeOK

LEMMA NextType == TypeOK /\ [Next]_vars => TypeOK'
  <1>1. ASSUME TypeOK, UNCHANGED vars PROVE TypeOK'
    BY <1>1 DEF TypeOK, vars, txnVars
  <1>2. ASSUME TypeOK, NEW id \in FileIds,
               \/ \E n \in Tables, r \in Rows, full \in BOOLEAN : HandleInsertBuffered(n, r, full, id)
               \/ \E n \in Tables, r \in Rows : HandleInsertImmediate(n, r, id)
        PROVE  TypeOK'
    BY <1>2, InsertType
  <1>3. ASSUME TypeOK, NEW id \in FileIds,
               \E named \in {{n} : n \in Tables} \cup {{}} : Read(named, id)
        PROVE  TypeOK'
    BY <1>3, ReadType
  <1>4. ASSUME TypeOK, NEW id \in FileIds, NEW n \in Tables,
               HandleVacuum(n, id) \/ HandleTruncate(n, id)
        PROVE  TypeOK'
    BY <1>4, VacuumType, TruncateType
  <1>5. ASSUME TypeOK, NEW id \in FileIds, NEW n \in Tables, NEW old \in Small, NEW new \in Small,
               HandleMerge(n, old, new, id) \/ HandleUpsert(n, old, new, id)
        PROVE  TypeOK'
    BY <1>5, MergeType, BufferedType DEF HandleMerge, HandleUpsert
  <1>6. ASSUME TypeOK, NEW id \in FileIds, NEW n \in Tables,
               \/ \E keep \in SUBSET Rows : HandleDelete(n, keep, id) \/ HandleDeleteRestricted(n, keep, id)
               \/ \E c \in Tables, keep \in SUBSET Rows, old, new \in Rows :
                    HandleDeleteSetNull(n, c, keep, old, new, id)
               \/ \E restored \in BOOLEAN : RewriteFails(n, restored, id)
               \/ \E old, new \in Rows : HandleUpdate(n, old, new, id)
        PROVE  TypeOK'
    <2>1. ASSUME NEW keep \in SUBSET Rows, HandleDelete(n, keep, id) \/ HandleDeleteRestricted(n, keep, id)
          PROVE  TypeOK'
      BY <1>6, <2>1, DeleteType
    <2>2. ASSUME NEW c \in Tables, NEW keep \in SUBSET Rows, NEW old \in Rows, NEW new \in Rows,
                 HandleDeleteSetNull(n, c, keep, old, new, id)
          PROVE  TypeOK'
      BY <1>6, <2>2, DeleteSetNullType
    <2>3. ASSUME NEW old \in Rows, NEW new \in Rows,
                 HandleUpdate(n, old, new, id)
          PROVE  TypeOK'
      BY <1>6, <2>3, UpdateType
    <2>4. ASSUME NEW restored \in BOOLEAN, RewriteFails(n, restored, id) PROVE TypeOK'
      BY <1>6, <2>4, RewriteFailsType
    <2> QED
      BY <1>6, <2>1, <2>2, <2>3, <2>4
  <1>7. ASSUME TypeOK, NEW id \in FileIds, NEW n \in Tables, NEW m \in Tables,
               HandleCreateTable(n, id) \/ HandleDropTable(n, id) \/ HandleRenameTable(n, m, id)
        PROVE  TypeOK'
    BY <1>7, SchemaType
  <1>8. ASSUME TypeOK, NEW id \in FileIds,
               \/ HandleBegin(id) \/ HandleCommit(id) \/ HandleRollback(id)
               \/ \E s \in SaveNames : HandleSavepoint(s, id)
               \/ \E s \in SaveNames : HandleRollbackTo(s, id) \/ HandleReleaseSavepoint(s, id)
        PROVE  TypeOK'
    BY <1>8, BeginType, EndType, SavepointType, RollbackToType
  <1> QED
    BY <1>1, <1>2, <1>3, <1>4, <1>5, <1>6, <1>7, <1>8 DEF Next

(* The catalog, the files and buffers, the transaction with its snapshots,  *)
(* backups and savepoints keep their types, for all workloads.              *)
THEOREM TypeCorrect == Spec => []TypeOK
  BY InitType, NextType, PTL DEF Spec

-----------------------------------------------------------------------------
(* The catalog on disk.                                                     *)
LEMMA NextDisk == DiskCatalog /\ [Next]_vars => DiskCatalog'
  <1> SUFFICES ASSUME DiskCatalog, [Next]_vars PROVE DiskCatalog'
    OBVIOUS
  <1>1. CASE UNCHANGED <<cat, disk, inTxn, begun>>
    BY <1>1 DEF DiskCatalog
  <1>2. CASE SaveCatalog /\ UNCHANGED <<inTxn, begun>>
    BY <1>2 DEF DiskCatalog, SaveCatalog
  <1>3. CASE inTxn /\ UNCHANGED <<disk, inTxn, begun>>
    BY <1>3 DEF DiskCatalog
  <1>4. CASE disk' = cat' /\ inTxn' = FALSE
    BY <1>4 DEF DiskCatalog
  <1>5. ASSUME NEW id \in FileIds, HandleBegin(id) PROVE DiskCatalog'
    BY <1>5 DEF HandleBegin, DiskCatalog, View, Exists
  <1>6. ASSUME NEW id \in FileIds, NEW n \in Tables, NEW m \in Tables,
               HandleCreateTable(n, id) \/ HandleDropTable(n, id) \/ HandleRenameTable(n, m, id)
        PROVE  DiskCatalog'
    BY <1>2, <1>6 DEF HandleCreateTable, HandleDropTable, HandleRenameTable, txnVars
  <1>7. ASSUME NEW id \in FileIds, NEW s \in SaveNames,
               HandleSavepoint(s, id) \/ HandleRollbackTo(s, id) \/ HandleReleaseSavepoint(s, id)
        PROVE  DiskCatalog'
    BY <1>1, <1>3, <1>7 DEF HandleSavepoint, HandleRollbackTo, HandleReleaseSavepoint
  <1>8. ASSUME NEW id \in FileIds, HandleCommit(id) \/ HandleRollback(id) PROVE DiskCatalog'
    <2>1. disk' = cat' /\ inTxn' = FALSE
      BY <1>8 DEF HandleCommit, HandleRollback, Forget
    <2> QED
      BY <1>4, <2>1
  <1>9. ASSUME NEW id \in FileIds, NEW n \in Tables,
               \/ \E r \in Rows, full \in BOOLEAN : HandleInsertBuffered(n, r, full, id)
               \/ \E r \in Rows : HandleInsertImmediate(n, r, id)
               \/ HandleVacuum(n, id) \/ HandleTruncate(n, id)
               \/ \E old, new \in Small : HandleMerge(n, old, new, id) \/ HandleUpsert(n, old, new, id)
        PROVE  DiskCatalog'
    BY <1>1, <1>9 DEF HandleInsertBuffered, HandleInsertImmediate, HandleVacuum, HandleTruncate,
                      HandleMerge, HandleUpsert, MergeClause, txnVars
  <1>10. ASSUME NEW id \in FileIds, NEW n \in Tables,
               \/ \E keep \in SUBSET Rows : HandleDelete(n, keep, id) \/ HandleDeleteRestricted(n, keep, id)
               \/ \E c \in Tables, keep \in SUBSET Rows, old, new \in Rows :
                    HandleDeleteSetNull(n, c, keep, old, new, id)
               \/ \E restored \in BOOLEAN : RewriteFails(n, restored, id)
               \/ \E old, new \in Rows : HandleUpdate(n, old, new, id)
        PROVE  DiskCatalog'
    <2>1. UNCHANGED <<cat, disk, inTxn, begun>>
      BY <1>10, Zenon DEF HandleDelete, HandleDeleteRestricted, HandleDeleteSetNull, RewriteFails,
                          HandleUpdate
    <2> QED
      BY <1>1, <2>1
  <1>11. ASSUME NEW id \in FileIds, NEW named, Read(named, id) PROVE DiskCatalog'
    BY <1>1, <1>11 DEF Read, txnVars
  <1>12. CASE UNCHANGED vars
    BY <1>1, <1>12 DEF vars, txnVars
  <1> QED
    BY <1>5, <1>6, <1>7, <1>8, <1>9, <1>10, <1>11, <1>12 DEF Next

(* Whatever a transaction does, catalog.json is the catalog of BEGIN until  *)
(* COMMIT, and without a transaction the one in memory.                     *)
THEOREM DiskCatalogOfBegin == Spec => []DiskCatalog
  <1>1. Init => DiskCatalog
    BY DEF Init, DiskCatalog
  <1> QED
    BY <1>1, NextDisk, PTL DEF Spec

-----------------------------------------------------------------------------
(* Rows are stored once. Without RENAME a table is stored under its name;   *)
(* what a rollback may write back has no row that is buffered again.        *)
NoRename == \A w \in Workloads : "rename" \notin w.ops

OwnNames(c) == \A n \in Tables : c[n] \in {n, NoDir}
Disjoint(fs) == \A d \in Tables : \A f, g \in fs[d] : f # g => f.rows \cap g.rows = {}
Apart(fs, bf) == \A d \in Tables : RowsOf(fs[d]) \cap bf[d] = {}
BackupsApart(b, bf) == \A n \in Tables : b[n].rows \cap bf[n] = {}

OnceInv ==
    /\ TypeOK
    /\ OwnNames(cat) /\ OwnNames(snapCat)
    /\ Disjoint(files) /\ Apart(files, buffer)
    /\ BackupsApart(backups, buffer)
    /\ \A i \in DOMAIN saves : /\ OwnNames(saves[i].cat)
                               /\ BackupsApart(saves[i].backups, buffer)

LEMMA OwnDir ==
    ASSUME OnceInv, NEW n \in Tables, Exists(n) PROVE cat[n] = n
  BY DEF OnceInv, OwnNames, Exists

LEMMA AddRows ==
    ASSUME NEW fs \in SUBSET File, NEW id \in FileIds, NEW rows \in SUBSET Rows,
           \A f, g \in fs : f # g => f.rows \cap g.rows = {},
           RowsOf(fs) \cap rows = {}
    PROVE  LET new == fs \cup {[id |-> id, rows |-> rows]}
           IN  /\ \A f, g \in new : f # g => f.rows \cap g.rows = {}
               /\ RowsOf(new) = RowsOf(fs) \cup rows
  <1> DEFINE x == [id |-> id, rows |-> rows]
  <1>1. x.rows = rows
    OBVIOUS
  <1>2. \A f \in fs : f.rows \cap rows = {}
    BY DEF RowsOf
  <1>3. RowsOf(fs \cup {x}) = RowsOf(fs) \cup rows
    BY <1>1 DEF RowsOf
  <1> QED
    BY <1>1, <1>2, <1>3

LEMMA RewriteOnce ==
    ASSUME NEW c, OwnNames(c), NEW fs \in FileMaps, Disjoint(fs), NEW S \in SUBSET Tables,
           NEW new \in [Tables -> SUBSET Rows], NEW id \in FileIds
    PROVE  LET fs2 == RewriteAll(c, fs, S, new, id)
           IN  /\ Disjoint(fs2)
               /\ \A d \in Tables : RowsOf(fs2[d]) \subseteq IF d \in S THEN new[d] ELSE RowsOf(fs[d])
  <1> DEFINE fs2 == RewriteAll(c, fs, S, new, id)
  <1> SUFFICES ASSUME NEW d \in Tables
               PROVE  /\ \A f, g \in fs2[d] : f # g => f.rows \cap g.rows = {}
                      /\ RowsOf(fs2[d]) \subseteq IF d \in S THEN new[d] ELSE RowsOf(fs[d])
    BY DEF Disjoint
  <1>1. \A m \in S : c[m] = d => m = d \/ d = NoDir
    BY DEF OwnNames
  <1>2. d # NoDir
    BY TransactionsConstants
  <1>3. CASE d \in S
    <2>1. fs2[d] \subseteq {[id |-> id, rows |-> new[d]]}
      BY <1>1, <1>2, <1>3 DEF RewriteAll
    <2>2. \A f \in fs2[d] : f.rows = new[d]
      BY <2>1
    <2> QED
      BY <1>3, <2>1, <2>2 DEF RowsOf
  <1>4. CASE d \notin S
    <2>1. fs2[d] = fs[d]
      BY <1>1, <1>2, <1>4 DEF RewriteAll
    <2> QED
      BY <1>4, <2>1 DEF Disjoint
  <1> QED
    BY <1>3, <1>4

LEMMA RewriteTableOnce ==
    ASSUME OnceInv, NEW fs \in FileMaps, Disjoint(fs), NEW n \in Tables,
           NEW rows \in SUBSET Rows, NEW id \in FileIds
    PROVE  LET fs2 == RewriteTable(fs, n, rows, id)
           IN  /\ Disjoint(fs2)
               /\ \A d \in Tables : RowsOf(fs2[d]) \subseteq IF d = n THEN rows ELSE RowsOf(fs[d])
  <1> DEFINE new == [m \in Tables |-> rows]
             S == {n}
             fs2 == RewriteAll(cat, fs, S, new, id)
  <1>1. \A d \in Tables : new[d] = rows
    OBVIOUS
  <1>5. new \in [Tables -> SUBSET Rows]
    OBVIOUS
  <1>2. OwnNames(cat) /\ S \in SUBSET Tables
    BY DEF OnceInv
  <1>3. RewriteTable(fs, n, rows, id) = fs2
    BY DEF RewriteTable
  <1>4. /\ Disjoint(fs2)
        /\ \A d \in Tables : RowsOf(fs2[d]) \subseteq IF d \in S THEN new[d] ELSE RowsOf(fs[d])
    <2> HIDE DEF new, S
    <2> QED
      BY <1>2, <1>5, RewriteOnce
  <1> HIDE DEF fs2, new
  <1> QED
    BY <1>1, <1>3, <1>4

LEMMA FlushOnce ==
    ASSUME OnceInv, NEW S \in SUBSET Tables, NEW id \in FileIds
    PROVE  LET fs == FlushTable(S, id)
           IN  /\ fs \in FileMaps
               /\ Disjoint(fs)
               /\ \A d \in Tables : /\ RowsOf(fs[d]) \subseteq RowsOf(files[d]) \cup buffer[d]
                                    /\ d \notin S => RowsOf(fs[d]) \cap buffer[d] = {}
  <1> DEFINE fs == FlushTable(S, id)
  <1>1. fs \in FileMaps
    BY FlushType DEF OnceInv
  <1>2. ASSUME NEW d \in Tables
        PROVE  /\ \A f, g \in fs[d] : f # g => f.rows \cap g.rows = {}
               /\ RowsOf(fs[d]) \subseteq RowsOf(files[d]) \cup buffer[d]
               /\ d \notin S => RowsOf(fs[d]) \cap buffer[d] = {}
    <2> DEFINE rows == FlushRows(S, d)
               new == files[d] \cup {[id |-> id, rows |-> rows]}
    <2>1. d # NoDir
      BY TransactionsConstants
    <2>2. rows \subseteq buffer[d] /\ (d \notin S => rows = {})
      BY <2>1 DEF FlushRows, OnceInv, OwnNames
    <2>3. /\ files[d] \in SUBSET File /\ rows \in SUBSET Rows
          /\ \A f, g \in files[d] : f # g => f.rows \cap g.rows = {}
          /\ RowsOf(files[d]) \cap buffer[d] = {}
      BY <2>2 DEF OnceInv, TypeOK, FileMaps, Disjoint, Apart
    <2>4. /\ \A f, g \in new : f # g => f.rows \cap g.rows = {}
          /\ RowsOf(new) = RowsOf(files[d]) \cup rows
      <3>1. RowsOf(files[d]) \cap rows = {}
        BY <2>2, <2>3
      <3> HIDE DEF rows
      <3> QED
        BY <2>3, <3>1, AddRows
    <2>5. fs[d] \in {files[d], {[id |-> id, rows |-> RowsOf(new)]}, new}
      BY DEF FlushTable
    <2>6. RowsOf({[id |-> id, rows |-> RowsOf(new)]}) = RowsOf(new)
      BY DEF RowsOf
    <2>7. d \notin S => fs[d] = files[d]
      BY <2>2 DEF FlushTable
    <2> HIDE DEF new, rows, fs
    <2>8. CASE fs[d] = files[d]
      BY <2>3, <2>8
    <2>9. CASE fs[d] = {[id |-> id, rows |-> RowsOf(new)]}
      BY <2>2, <2>3, <2>4, <2>6, <2>7, <2>9
    <2>10. CASE fs[d] = new
      BY <2>2, <2>3, <2>4, <2>7, <2>10
    <2> QED
      BY <2>5, <2>8, <2>9, <2>10
  <1> QED
    BY <1>1, <1>2 DEF Disjoint

(* What flush_buffered_for_sql leaves for the rest of the statement.        *)
LEMMA FlushForOnce ==
    ASSUME OnceInv, NEW named \in SUBSET Tables, NEW id \in FileIds
    PROVE  LET fs == FlushFor(named, id)
               bf == BufferAfter(named)
           IN  /\ fs \in FileMaps /\ Disjoint(fs) /\ Apart(fs, bf)
               /\ \A d \in Tables : /\ bf[d] \subseteq buffer[d]
                                    /\ RowsOf(fs[d]) \subseteq RowsOf(files[d]) \cup buffer[d]
               /\ \A d \in named : bf[d] = {}
  <1>1. ToFlush(named) \in SUBSET Tables
    BY ToFlushType
  <1>2. \A d \in named : d \in ToFlush(named) \/ buffer[d] = {}
    BY DEF ToFlush, Buffered
  <1> QED
    BY <1>1, <1>2, FlushOnce DEF FlushFor, BufferAfter, Apart

(* A statement that leaves the catalog and the savepoints alone and adds    *)
(* nothing to the buffer.                                                   *)
LEMMA DataOnce ==
    ASSUME OnceInv, TypeOK', UNCHANGED <<cat, snapCat, saves>>,
           Disjoint(files'), Apart(files', buffer'), BackupsApart(backups', buffer'),
           \A d \in Tables : buffer'[d] \subseteq buffer[d]
    PROVE  OnceInv'
  <1>1. OwnNames(cat)' /\ OwnNames(snapCat)' /\ Disjoint(files)' /\ Apart(files, buffer)'
          /\ BackupsApart(backups, buffer)'
    BY DEF OnceInv, OwnNames, Disjoint, Apart, BackupsApart
  <1>2. ASSUME NEW i \in DOMAIN saves'
        PROVE  OwnNames(saves[i].cat)' /\ BackupsApart(saves[i].backups, buffer)'
    BY DEF OnceInv, OwnNames, BackupsApart
  <1> QED
    BY <1>1, <1>2 DEF OnceInv

LEMMA BackupOnce ==
    ASSUME OnceInv, NEW n \in Tables, NEW fs, NEW bf,
           \A d \in Tables : bf[d] \subseteq buffer[d], bf[n] = {}
    PROVE  BackupsApart(BackupTable(n, fs), bf)
  BY DEF BackupsApart, BackupTable, OnceInv, TypeOK

(* A new row is in no file, buffer or backup.                               *)
LEMMA NewRow ==
    ASSUME TypeOK, NEW r, r \notin KnownRows
    PROVE  \A d \in Tables : /\ r \notin RowsOf(files[d]) \cup buffer[d] \cup backups[d].rows
                             /\ \A i \in DOMAIN saves : r \notin saves[i].backups[d].rows
  <1> SUFFICES ASSUME NEW d \in Tables
               PROVE  /\ r \notin RowsOf(files[d]) \cup buffer[d] \cup backups[d].rows
                      /\ \A i \in DOMAIN saves : r \notin saves[i].backups[d].rows
    OBVIOUS
  <1>1. r \notin RowsOf(KnownFiles) /\ files[d] \subseteq KnownFiles
    <2>1. files[d] \cup snapFiles[d] \in {files[n] \cup snapFiles[n] : n \in Tables}
      OBVIOUS
    <2> QED
      BY <2>1 DEF KnownRows, KnownFiles
  <1>2. r \notin buffer[d] \cup backups[d].rows
    BY DEF KnownRows
  <1>3. ASSUME NEW i \in DOMAIN saves PROVE r \notin saves[i].backups[d].rows
    <2>1. saves[i].backups[d].rows \in {saves[i].backups[n].rows : n \in Tables}
      OBVIOUS
    <2>2. UNION {saves[i].backups[n].rows : n \in Tables}
            \in {UNION {saves[j].backups[n].rows : n \in Tables} : j \in DOMAIN saves}
      BY <1>3
    <2> QED
      BY <2>1, <2>2 DEF KnownRows
  <1> QED
    BY <1>1, <1>2, <1>3 DEF RowsOf

LEMMA InsertOnce ==
    ASSUME OnceInv, TypeOK', NEW n \in Tables, NEW r \in Rows, NEW full \in BOOLEAN,
           NEW id \in FileIds,
           HandleInsertBuffered(n, r, full, id) \/ HandleInsertImmediate(n, r, id)
    PROVE  OnceInv'
  <1>1. cat[n] = n /\ UNCHANGED <<cat, txnVars>> /\ r \notin KnownRows
    BY OwnDir DEF HandleInsertBuffered, HandleInsertImmediate
  <1>2. \A d \in Tables : /\ r \notin RowsOf(files[d]) \cup buffer[d] \cup backups[d].rows
                          /\ \A i \in DOMAIN saves : r \notin saves[i].backups[d].rows
    BY <1>1, NewRow DEF OnceInv
  <1>3. /\ files[n] \in SUBSET File /\ buffer[n] \in SUBSET Rows
        /\ \A f, g \in files[n] : f # g => f.rows \cap g.rows = {}
        /\ RowsOf(files[n]) \cap buffer[n] = {}
    BY DEF OnceInv, TypeOK, FileMaps, Disjoint, Apart
  <1> DEFINE rows == buffer[n] \cup {r}
             one == files[n] \cup {[id |-> id, rows |-> rows]}
             now == files[n] \cup {[id |-> id, rows |-> {r}]}
  <1>4. /\ \A f, g \in one : f # g => f.rows \cap g.rows = {}
        /\ RowsOf(one) = RowsOf(files[n]) \cup rows
    <2>1. rows \in SUBSET Rows /\ RowsOf(files[n]) \cap rows = {}
      BY <1>2, <1>3
    <2> HIDE DEF rows
    <2> QED
      BY <1>3, <2>1, AddRows
  <1>5. /\ \A f, g \in now : f # g => f.rows \cap g.rows = {}
        /\ RowsOf(now) = RowsOf(files[n]) \cup {r}
    <2>1. {r} \in SUBSET Rows /\ RowsOf(files[n]) \cap {r} = {}
      BY <1>2
    <2> QED
      BY <1>3, <2>1, AddRows
  <1>6. RowsOf({[id |-> id, rows |-> RowsOf(one)]}) = RowsOf(one)
    BY DEF RowsOf
  <1>7. \/ /\ files' = files
           /\ buffer' = [buffer EXCEPT ![n] = rows]
        \/ /\ buffer' = [buffer EXCEPT ![n] = {}]
           /\ \E fs \in {one, {[id |-> id, rows |-> RowsOf(one)]}} : files' = [files EXCEPT ![n] = fs]
        \/ /\ buffer' = buffer
           /\ files' = [files EXCEPT ![n] = now]
    BY <1>1 DEF HandleInsertBuffered, HandleInsertImmediate
  <1> HIDE DEF rows, one, now
  <1>8. Disjoint(files') /\ Apart(files', buffer')
    <2>1. files \in [Tables -> SUBSET File] /\ buffer \in [Tables -> SUBSET Rows]
      BY DEF OnceInv, TypeOK, FileMaps
    <2>2. Disjoint(files) /\ Apart(files, buffer)
      BY DEF OnceInv
    <2>3. CASE files' = files /\ buffer' = [buffer EXCEPT ![n] = rows]
      BY <1>2, <1>3, <2>1, <2>2, <2>3 DEF Disjoint, Apart, rows
    <2>4. ASSUME NEW fs, buffer' = [buffer EXCEPT ![n] = {}], files' = [files EXCEPT ![n] = fs],
                 \A f, g \in fs : f # g => f.rows \cap g.rows = {}
          PROVE  Disjoint(files') /\ Apart(files', buffer')
      BY <2>1, <2>2, <2>4 DEF Disjoint, Apart
    <2>5. CASE buffer' = buffer /\ files' = [files EXCEPT ![n] = now]
      BY <1>2, <1>3, <1>5, <2>1, <2>2, <2>5 DEF Disjoint, Apart
    <2>6. ASSUME NEW fs \in {one, {[id |-> id, rows |-> RowsOf(one)]}},
                 buffer' = [buffer EXCEPT ![n] = {}], files' = [files EXCEPT ![n] = fs]
          PROVE  Disjoint(files') /\ Apart(files', buffer')
      <3>1. \A f, g \in fs : f # g => f.rows \cap g.rows = {}
        BY <1>4
      <3> QED
        BY <2>4, <2>6, <3>1
    <2> QED
      BY <1>7, <2>3, <2>5, <2>6
  <1>9. ASSUME NEW b, BackupsApart(b, buffer), \A d \in Tables : r \notin b[d].rows
        PROVE  BackupsApart(b, buffer')
    BY <1>7, <1>9 DEF BackupsApart, OnceInv, TypeOK, rows
  <1>10. BackupsApart(backups', buffer')
    BY <1>1, <1>2, <1>9 DEF OnceInv, txnVars
  <1>11. \A i \in DOMAIN saves' : OwnNames(saves'[i].cat) /\ BackupsApart(saves'[i].backups, buffer')
    BY <1>1, <1>2, <1>9 DEF OnceInv, txnVars
  <1> QED
    BY <1>1, <1>8, <1>10, <1>11 DEF OnceInv, OwnNames, Disjoint, Apart, BackupsApart, txnVars

LEMMA ReadOnce ==
    ASSUME OnceInv, TypeOK', NEW named \in SUBSET Tables, NEW id \in FileIds, Read(named, id)
    PROVE  OnceInv'
  <1>1. UNCHANGED <<cat, snapCat, saves, backups>>
    BY DEF Read, txnVars
  <1>2. /\ Disjoint(files') /\ Apart(files', buffer')
        /\ \A d \in Tables : buffer'[d] \subseteq buffer[d]
    BY FlushForOnce DEF Read
  <1>3. BackupsApart(backups', buffer')
    BY <1>1, <1>2 DEF OnceInv, BackupsApart
  <1> QED
    BY <1>1, <1>2, <1>3, DataOnce

(* A rewrite of n that keeps some of its rows and those of other tables, or *)
(* adds one that is new, after the flush that the statement began with.     *)
LEMMA RewriteStep ==
    ASSUME OnceInv, TypeOK', UNCHANGED <<cat, snapCat, saves>>,
           NEW n \in Tables, Exists(n), NEW id \in FileIds,
           NEW fs \in FileMaps, Disjoint(fs), Apart(fs, buffer'),
           NEW rows \in SUBSET Rows, rows \cap buffer'[n] = {},
           files' = RewriteTable(fs, n, rows, id),
           \A d \in Tables : buffer'[d] \subseteq buffer[d],
           BackupsApart(backups', buffer')
    PROVE  OnceInv'
  <1>1. /\ Disjoint(files')
        /\ \A d \in Tables : RowsOf(files'[d]) \subseteq IF d = n THEN rows ELSE RowsOf(fs[d])
    BY RewriteTableOnce
  <1>2. Apart(files', buffer')
    BY <1>1 DEF Apart
  <1> QED
    BY <1>1, <1>2, DataOnce

LEMMA CascadeOnce ==
    ASSUME OnceInv, NEW fs \in FileMaps, Disjoint(fs), NEW done \in SUBSET Tables,
           \A c \in done : Exists(c), NEW keep, NEW id \in FileIds
    PROVE  LET fs2 == CascadeFiles(fs, done, keep, id)
           IN  /\ fs2 \in FileMaps /\ Disjoint(fs2)
               /\ \A d \in Tables : RowsOf(fs2[d]) \subseteq RowsOf(fs[d])
  <1> DEFINE new == [c \in Tables |-> IF Exists(c) THEN RowsOf(fs[cat[c]]) \cap keep ELSE {}]
             fs2 == RewriteAll(cat, fs, done, new, id)
  <1>1. new \in [Tables -> SUBSET Rows]
    <2>1. ASSUME NEW c \in Tables, Exists(c) PROVE RowsOf(fs[cat[c]]) \in SUBSET Rows
      BY <2>1, OwnDir, RowsOfType DEF FileMaps
    <2> QED
      BY <2>1
  <1>2. \A d \in done : new[d] \subseteq RowsOf(fs[d])
    BY OwnDir
  <1>3. CascadeFiles(fs, done, keep, id) = fs2
    BY DEF CascadeFiles
  <1>4. OwnNames(cat) /\ TypeOK
    BY DEF OnceInv
  <1>5. fs2 \in FileMaps
    BY <1>3, <1>4, CascadeType
  <1>6. /\ Disjoint(fs2)
        /\ \A d \in Tables : RowsOf(fs2[d]) \subseteq IF d \in done THEN new[d] ELSE RowsOf(fs[d])
    <2> HIDE DEF new
    <2> QED
      BY <1>1, <1>4, RewriteOnce
  <1> HIDE DEF fs2, new
  <1> QED
    BY <1>2, <1>3, <1>5, <1>6

LEMMA DeleteOnce ==
    ASSUME OnceInv, TypeOK', NEW n \in Tables, NEW keep \in SUBSET Rows, NEW id \in FileIds,
           HandleDelete(n, keep, id) \/ HandleDeleteRestricted(n, keep, id)
    PROVE  OnceInv'
  <1> DEFINE fs == FlushFor({n}, id)
             rows == RowsOf(fs[cat[n]]) \cap keep
  <1>1. /\ fs \in FileMaps /\ Disjoint(fs) /\ Apart(fs, BufferAfter({n}))
        /\ \A d \in Tables : BufferAfter({n})[d] \subseteq buffer[d]
        /\ BufferAfter({n})[n] = {}
    BY FlushForOnce
  <1>2. /\ UNCHANGED <<cat, snapCat, saves>> /\ Exists(n)
        /\ buffer' = BufferAfter({n}) /\ backups' = BackupTable(n, fs)
    BY DEF HandleDelete, HandleDeleteRestricted
  <1>3. BackupsApart(backups', buffer')
    BY <1>1, <1>2, BackupOnce
  <1>4. \A done \in SUBSET CascadeTo(n, fs, keep) :
          LET fs2 == CascadeFiles(fs, done, keep, id)
          IN  /\ fs2 \in FileMaps /\ Disjoint(fs2)
              /\ \A d \in Tables : RowsOf(fs2[d]) \subseteq RowsOf(fs[d])
    BY <1>1, CascadeOnce DEF CascadeTo
  <1>5. \E done \in SUBSET CascadeTo(n, fs, keep) :
          \/ files' = CascadeFiles(fs, done, keep, id)
          \/ files' = RewriteTable(CascadeFiles(fs, done, keep, id), n, rows, id)
    BY DEF HandleDelete, HandleDeleteRestricted
  <1>6. PICK fs2 \in FileMaps :
          /\ Disjoint(fs2) /\ \A d \in Tables : RowsOf(fs2[d]) \subseteq RowsOf(fs[d])
          /\ files' = fs2 \/ files' = RewriteTable(fs2, n, rows, id)
    BY <1>4, <1>5
  <1>7. Apart(fs2, buffer')
    BY <1>1, <1>2, <1>6 DEF Apart
  <1>8. rows \in SUBSET Rows
    OBVIOUS
  <1> HIDE DEF rows, fs
  <1>9. CASE files' = fs2
    BY <1>1, <1>2, <1>3, <1>6, <1>7, <1>9, DataOnce
  <1>10. CASE files' = RewriteTable(fs2, n, rows, id)
    <2>1. rows \cap buffer'[n] = {}
      BY <1>1, <1>2
    <2> QED
      BY <1>1, <1>2, <1>3, <1>6, <1>7, <1>8, <1>10, <2>1, RewriteStep
  <1> QED
    BY <1>6, <1>9, <1>10

LEMMA DeleteSetNullOnce ==
    ASSUME OnceInv, TypeOK', NEW n \in Tables, NEW c \in Tables, NEW keep \in SUBSET Rows,
           NEW old \in Rows, NEW new \in Rows, NEW id \in FileIds,
           HandleDeleteSetNull(n, c, keep, old, new, id)
    PROVE  OnceInv'
  <1> DEFINE fs == FlushFor({n}, id)
             rows == (RowsOf(fs[cat[c]]) \ {old}) \cup {new}
             child == RewriteTable(fs, c, rows, id)
  <1>1. /\ fs \in FileMaps /\ Disjoint(fs) /\ Apart(fs, BufferAfter({n}))
        /\ \A d \in Tables : BufferAfter({n})[d] \subseteq buffer[d]
        /\ BufferAfter({n})[n] = {}
    BY FlushForOnce
  <1>2. /\ UNCHANGED <<cat, snapCat, saves>> /\ Exists(n) /\ Exists(c)
        /\ buffer' = BufferAfter({n}) /\ backups' = BackupTable(n, fs)
        /\ files' = RewriteTable(child, n, keep, id) /\ new \notin KnownRows
    BY DEF HandleDeleteSetNull
  <1>3. BackupsApart(backups', buffer')
    BY <1>1, <1>2, BackupOnce
  <1>4. cat[c] = c /\ rows \in SUBSET Rows
    BY <1>1, <1>2, OwnDir, RowsOfType DEF FileMaps
  <1>5. new \notin buffer[c]
    BY <1>2, NewRow DEF OnceInv
  <1>6. child \in FileMaps
    BY <1>1, <1>4, RewriteTableType
  <1>7. /\ Disjoint(child)
        /\ \A d \in Tables : RowsOf(child[d]) \subseteq IF d = c THEN rows ELSE RowsOf(fs[d])
    <2> HIDE DEF rows, fs
    <2> QED
      BY <1>1, <1>4, RewriteTableOnce
  <1>8. Apart(child, buffer')
    BY <1>1, <1>2, <1>4, <1>5, <1>7 DEF Apart
  <1>9. keep \cap buffer'[n] = {}
    BY <1>1, <1>2
  <1> HIDE DEF child, rows, fs
  <1> QED
    BY <1>1, <1>2, <1>3, <1>6, <1>7, <1>8, <1>9, RewriteStep

LEMMA UpdateOnce ==
    ASSUME OnceInv, TypeOK', NEW n \in Tables, NEW id \in FileIds,
           \/ \E old, new \in Rows : HandleUpdate(n, old, new, id)
           \/ \E restored \in BOOLEAN : RewriteFails(n, restored, id)
    PROVE  OnceInv'
  <1> DEFINE fs == FlushFor({n}, id)
  <1>1. /\ fs \in FileMaps /\ Disjoint(fs) /\ Apart(fs, BufferAfter({n}))
        /\ \A d \in Tables : BufferAfter({n})[d] \subseteq buffer[d]
        /\ BufferAfter({n})[n] = {}
    BY FlushForOnce
  <1>2. /\ UNCHANGED <<cat, snapCat, saves>> /\ Exists(n)
        /\ buffer' = BufferAfter({n}) /\ backups' = BackupTable(n, fs)
    BY DEF HandleUpdate, RewriteFails
  <1>3. BackupsApart(backups', buffer')
    BY <1>1, <1>2, BackupOnce
  <1>4. RowsOf(fs[cat[n]]) \in SUBSET Rows
    BY <1>1, <1>2, OwnDir, RowsOfType DEF FileMaps
  <1>5. PICK rows \in SUBSET Rows : files' = RewriteTable(fs, n, rows, id)
    <2>1. ASSUME NEW old \in Rows, NEW new \in Rows, HandleUpdate(n, old, new, id)
          PROVE  \E rows \in SUBSET Rows : files' = RewriteTable(fs, n, rows, id)
      BY <1>4, <2>1 DEF HandleUpdate
    <2>2. ASSUME NEW restored \in BOOLEAN, RewriteFails(n, restored, id)
          PROVE  \E rows \in SUBSET Rows : files' = RewriteTable(fs, n, rows, id)
      BY <1>4, <2>2 DEF RewriteFails
    <2> QED
      BY <2>1, <2>2
  <1> HIDE DEF fs
  <1>6. rows \cap buffer'[n] = {}
    BY <1>1, <1>2
  <1> QED
    BY <1>1, <1>2, <1>3, <1>5, <1>6, RewriteStep

LEMMA VacuumOnce ==
    ASSUME OnceInv, TypeOK', NEW n \in Tables, NEW id \in FileIds, HandleVacuum(n, id)
    PROVE  OnceInv'
  <1> DEFINE fs == FlushTable(Buffered, id)
  <1>1. fs \in FileMaps /\ Disjoint(fs)
    BY FlushOnce, BufferedType
  <1>2. /\ UNCHANGED <<cat, snapCat, saves>> /\ Exists(n)
        /\ \A d \in Tables : buffer'[d] = {}
        /\ backups' = BackupTable(n, fs)
    BY DEF HandleVacuum
  <1>3. BackupsApart(backups', buffer')
    BY <1>2 DEF BackupsApart
  <1>4. cat[n] = n
    BY <1>2, OwnDir
  <1>5. PICK old : LET rest == [fs EXCEPT ![cat[n]] = @ \ old]
                   IN  files' = RewriteTable(rest, n, RowsOf(rest[cat[n]]), id)
    BY DEF HandleVacuum
  <1> DEFINE rest == [fs EXCEPT ![n] = @ \ old]
             rows == RowsOf(rest[n])
  <1>6. rest \in FileMaps /\ Disjoint(rest)
    BY <1>1 DEF FileMaps, Disjoint
  <1>7. rows \in SUBSET Rows
    BY <1>6, RowsOfType DEF FileMaps
  <1>8. files' = RewriteTable(rest, n, rows, id)
    BY <1>4, <1>5
  <1>9. Apart(rest, buffer')
    BY <1>2 DEF Apart
  <1> HIDE DEF fs, rest, rows
  <1> QED
    BY <1>2, <1>3, <1>6, <1>7, <1>8, <1>9, RewriteStep

LEMMA TruncateOnce ==
    ASSUME OnceInv, TypeOK', NEW n \in Tables, NEW id \in FileIds, HandleTruncate(n, id)
    PROVE  OnceInv'
  <1> DEFINE fs == FlushFor({n}, id)
  <1>1. /\ fs \in FileMaps /\ Disjoint(fs) /\ Apart(fs, BufferAfter({n}))
        /\ \A d \in Tables : BufferAfter({n})[d] \subseteq buffer[d]
    BY FlushForOnce
  <1>2. /\ UNCHANGED <<cat, snapCat, saves, backups>>
        /\ buffer' = BufferAfter({n}) /\ files' = [fs EXCEPT ![n] = {}]
    BY DEF HandleTruncate, txnVars
  <1> HIDE DEF fs
  <1>3. Disjoint(files') /\ Apart(files', buffer')
    BY <1>1, <1>2 DEF Disjoint, Apart, RowsOf, FileMaps
  <1>4. BackupsApart(backups', buffer')
    BY <1>1, <1>2 DEF OnceInv, BackupsApart
  <1> QED
    BY <1>1, <1>2, <1>3, <1>4, DataOnce

LEMMA MergeOnce ==
    ASSUME OnceInv, TypeOK', NEW n \in Tables, NEW S \in SUBSET Tables, NEW old \in Small,
           NEW new \in Small, NEW id \in FileIds, MergeClause(n, S, old, new, id),
           n \in S \/ buffer[n] = {}
    PROVE  OnceInv'
  <1> DEFINE fs == FlushTable(S, id)
             rows == (RowsOf(fs[cat[n]]) \ old) \cup new
  <1>1. /\ fs \in FileMaps /\ Disjoint(fs)
        /\ \A d \in Tables : /\ RowsOf(fs[d]) \subseteq RowsOf(files[d]) \cup buffer[d]
                             /\ d \notin S => RowsOf(fs[d]) \cap buffer[d] = {}
    BY FlushOnce
  <1>2. /\ UNCHANGED <<cat, snapCat, saves, backups>> /\ Exists(n)
        /\ \A d \in Tables : buffer'[d] = IF d \in S THEN {} ELSE buffer[d]
        /\ new \cap KnownRows = {}
    BY DEF MergeClause, txnVars
  <1>3. cat[n] = n /\ new \in SUBSET Rows /\ rows \in SUBSET Rows
    BY <1>1, <1>2, OwnDir, RowsOfType DEF Small, FileMaps
  <1>4. Apart(fs, buffer') /\ \A d \in Tables : buffer'[d] \subseteq buffer[d]
    BY <1>1, <1>2 DEF Apart
  <1>5. BackupsApart(backups', buffer') /\ buffer'[n] = {}
    BY <1>2 DEF OnceInv, BackupsApart
  <1>6. new \cap RowsOf(fs[n]) = {}
    BY <1>1, <1>2, NewRow DEF OnceInv
  <1>7. \/ files' = [fs EXCEPT ![n] = @ \cup {[id |-> id, rows |-> new]}]
        \/ files' = RewriteTable(fs, n, rows, id)
    BY <1>3 DEF MergeClause
  <1> DEFINE one == fs[n] \cup {[id |-> id, rows |-> new]}
  <1>8. /\ \A f, g \in one : f # g => f.rows \cap g.rows = {}
        /\ RowsOf(one) = RowsOf(fs[n]) \cup new
    <2>1. /\ fs[n] \in SUBSET File /\ \A f, g \in fs[n] : f # g => f.rows \cap g.rows = {}
          /\ RowsOf(fs[n]) \cap new = {}
      BY <1>1, <1>6 DEF FileMaps, Disjoint
    <2> HIDE DEF fs
    <2> QED
      BY <1>3, <2>1, AddRows
  <1>9. rows \cap buffer'[n] = {}
    BY <1>5
  <1> HIDE DEF fs, rows, one
  <1>10. CASE files' = [fs EXCEPT ![n] = one]
    <2>1. Disjoint(files') /\ Apart(files', buffer')
      BY <1>1, <1>4, <1>5, <1>8, <1>10 DEF Disjoint, Apart, FileMaps
    <2> QED
      BY <1>2, <1>4, <1>5, <2>1, DataOnce
  <1>11. CASE files' = RewriteTable(fs, n, rows, id)
    BY <1>1, <1>2, <1>3, <1>4, <1>5, <1>9, <1>11, RewriteStep
  <1> QED
    BY <1>7, <1>10, <1>11 DEF one

LEMMA SchemaOnce ==
    ASSUME OnceInv, TypeOK', NEW n \in Tables, NEW id \in FileIds,
           HandleCreateTable(n, id) \/ HandleDropTable(n, id)
    PROVE  OnceInv'
  <1> DEFINE fs == FlushFor({n}, id)
  <1>1. /\ fs \in FileMaps /\ Disjoint(fs) /\ Apart(fs, BufferAfter({n}))
        /\ \A d \in Tables : BufferAfter({n})[d] \subseteq buffer[d]
    BY FlushForOnce
  <1>2. /\ UNCHANGED <<snapCat, saves, backups>> /\ buffer' = BufferAfter({n})
        /\ files' = fs \/ \E d : files' = [fs EXCEPT ![d] = {}]
    BY DEF HandleCreateTable, HandleDropTable, txnVars
  <1>3. OwnNames(cat')
    BY DEF HandleCreateTable, HandleDropTable, OnceInv, OwnNames, TypeOK, Catalogs
  <1> HIDE DEF fs
  <1>4. Disjoint(files') /\ Apart(files', buffer')
    BY <1>1, <1>2 DEF Disjoint, Apart, RowsOf, FileMaps
  <1>5. BackupsApart(backups', buffer')
    BY <1>1, <1>2 DEF OnceInv, BackupsApart
  <1>6. \A i \in DOMAIN saves' : OwnNames(saves'[i].cat) /\ BackupsApart(saves'[i].backups, buffer')
    BY <1>1, <1>2 DEF OnceInv, BackupsApart
  <1> QED
    BY <1>2, <1>3, <1>4, <1>5, <1>6 DEF OnceInv, OwnNames, Disjoint, Apart, BackupsApart

LEMMA RestoreOnce ==
    ASSUME NEW c, OwnNames(c), NEW fs \in FileMaps, Disjoint(fs), NEW fl \in FileMaps,
           NEW b \in [Tables -> Backup], NEW id \in FileIds
    PROVE  LET fs2 == RestoreFiles(fs, c, fl, b, id)
           IN  /\ Disjoint(fs2)
               /\ \A d \in Tables : RowsOf(fs2[d]) \subseteq RowsOf(fs[d]) \cup b[d].rows
  <1> DEFINE trimmed == [d \in Tables |-> IF c[d] # NoDir THEN fs[d] \cap fl[d] ELSE fs[d]]
             newDirs == {cat[n] : n \in {m \in Tables : Exists(m) /\ c[m] = NoDir}}
             emptied == [d \in Tables |-> IF d \in newDirs THEN {} ELSE trimmed[d]]
             back == {n \in Tables : b[n].has /\ c[n] # NoDir}
             new == [n \in Tables |-> b[n].rows]
             fs2 == RewriteAll(c, emptied, back, new, id)
  <1>1. \A d \in Tables : emptied[d] \subseteq fs[d]
    OBVIOUS
  <1>2. emptied \in FileMaps /\ Disjoint(emptied)
    BY DEF FileMaps, Disjoint
  <1>3. \A d \in Tables : RowsOf(emptied[d]) \subseteq RowsOf(fs[d])
    BY <1>1 DEF RowsOf
  <1>4. new \in [Tables -> SUBSET Rows] /\ \A d \in Tables : new[d] = b[d].rows
    BY DEF Backup
  <1>5. back \in SUBSET Tables
    OBVIOUS
  <1>6. /\ Disjoint(fs2)
        /\ \A d \in Tables : RowsOf(fs2[d]) \subseteq IF d \in back THEN new[d] ELSE RowsOf(emptied[d])
    <2> HIDE DEF emptied, back, new
    <2> QED
      BY <1>2, <1>4, <1>5, RewriteOnce
  <1>7. RestoreFiles(fs, c, fl, b, id) = fs2
    BY DEF RestoreFiles
  <1> HIDE DEF fs2, emptied, back, new
  <1> QED
    BY <1>3, <1>4, <1>6, <1>7

LEMMA BeginOnce ==
    ASSUME OnceInv, TypeOK', NEW id \in FileIds, HandleBegin(id) PROVE OnceInv'
  <1>1. /\ Disjoint(files')
        /\ \A d \in Tables : buffer'[d] = {} /\ backups'[d].rows = {}
        /\ cat' = cat /\ snapCat' = cat /\ DOMAIN saves' = {}
    <2>1. files' = FlushTable(Buffered, id)
      BY DEF HandleBegin
    <2>2. Disjoint(files')
      BY <2>1, FlushOnce, BufferedType
    <2> QED
      BY <2>2 DEF HandleBegin, NoBackup
  <1>2. OwnNames(cat') /\ OwnNames(snapCat')
    BY <1>1 DEF OnceInv
  <1>3. Apart(files', buffer') /\ BackupsApart(backups', buffer')
    BY <1>1 DEF Apart, BackupsApart
  <1> QED
    BY <1>1, <1>2, <1>3 DEF OnceInv, OwnNames, Disjoint, Apart, BackupsApart

LEMMA EndOnce ==
    ASSUME OnceInv, TypeOK', NEW id \in FileIds, HandleCommit(id) \/ HandleRollback(id)
    PROVE  OnceInv'
  <1> DEFINE fs == FlushTable(Buffered, id)
  <1>1. fs \in FileMaps /\ Disjoint(fs)
    BY FlushOnce, BufferedType
  <1>2. /\ \A d \in Tables : buffer'[d] = {}
        /\ snapCat' = [n \in Tables |-> NoDir] /\ DOMAIN saves' = {}
        /\ cat' = cat \/ cat' = snapCat
    BY DEF HandleCommit, HandleRollback, Forget
  <1>3. Disjoint(files')
    <2>1. CASE HandleCommit(id)
      BY <1>1, <2>1 DEF HandleCommit, Disjoint
    <2>2. CASE HandleRollback(id)
      <3>1. /\ OwnNames(snapCat) /\ snapFiles \in FileMaps
            /\ backups \in [Tables -> Backup]
        BY DEF OnceInv, TypeOK
      <3>2. files' = RestoreFiles(fs, snapCat, snapFiles, backups, id)
        BY <2>2 DEF HandleRollback
      <3> HIDE DEF fs
      <3> QED
        BY <1>1, <3>1, <3>2, RestoreOnce
    <2> QED
      BY <2>1, <2>2
  <1>4. OwnNames(cat') /\ OwnNames(snapCat')
    BY <1>2 DEF OnceInv, OwnNames
  <1>5. Apart(files', buffer') /\ BackupsApart(backups', buffer')
    BY <1>2 DEF Apart, BackupsApart
  <1> QED
    BY <1>2, <1>3, <1>4, <1>5 DEF OnceInv, OwnNames, Disjoint, Apart, BackupsApart

LEMMA SavepointOnce ==
    ASSUME OnceInv, TypeOK', NEW s \in SaveNames, NEW id \in FileIds,
           HandleSavepoint(s, id) \/ HandleReleaseSavepoint(s, id)
    PROVE  OnceInv'
  <1>1. /\ Disjoint(files') /\ Apart(files', buffer')
        /\ \A d \in Tables : buffer'[d] \subseteq buffer[d]
    BY FlushForOnce, TransactionsConstants DEF HandleSavepoint, HandleReleaseSavepoint
  <1>2. UNCHANGED <<cat, snapCat, backups>>
    BY DEF HandleSavepoint, HandleReleaseSavepoint
  <1>3. saves \in Seq(Save)
    BY DEF OnceInv, TypeOK
  <1>4. \A i \in DOMAIN saves' :
           \/ saves'[i].cat = cat /\ saves'[i].backups = backups
           \/ i \in DOMAIN saves /\ saves'[i] = saves[i]
    <2>1. CASE HandleSavepoint(s, id)
      <3> DEFINE sp == [name |-> s, cat |-> cat, backups |-> backups,
                        files |-> [n \in Tables |-> IF Exists(n) THEN files'[n] ELSE {}],
                        view |-> [n \in Tables |-> View(n)]]
      <3>1. saves' = Append(saves, sp)
        BY <2>1 DEF HandleSavepoint
      <3>2. sp.cat = cat /\ sp.backups = backups
        OBVIOUS
      <3> HIDE DEF sp
      <3> QED
        BY <1>3, <3>1, <3>2
    <2>2. CASE HandleReleaseSavepoint(s, id)
      <3>1. LatestSave(s) \in 1..Len(saves)
        BY <1>3, <2>2, LatestSaveExists DEF HandleReleaseSavepoint, OnceInv
      <3>2. saves' = SubSeq(saves, 1, LatestSave(s) - 1)
        BY <2>2 DEF HandleReleaseSavepoint
      <3> QED
        BY <1>3, <3>1, <3>2
    <2> QED
      BY <2>1, <2>2
  <1>5. BackupsApart(backups', buffer')
    BY <1>1, <1>2 DEF OnceInv, BackupsApart
  <1>6. \A i \in DOMAIN saves' : OwnNames(saves'[i].cat) /\ BackupsApart(saves'[i].backups, buffer')
    BY <1>1, <1>4 DEF OnceInv, BackupsApart
  <1> QED
    BY <1>1, <1>2, <1>5, <1>6 DEF OnceInv, OwnNames, Disjoint, Apart, BackupsApart

LEMMA RollbackToOnce ==
    ASSUME OnceInv, TypeOK', NEW s \in SaveNames, NEW id \in FileIds, HandleRollbackTo(s, id)
    PROVE  OnceInv'
  <1> DEFINE k == LatestSave(s)
             sp == saves[k]
             fs == FlushFor(Mentions[s], id)
  <1>1. /\ fs \in FileMaps /\ Disjoint(fs) /\ Apart(fs, BufferAfter(Mentions[s]))
        /\ \A d \in Tables : BufferAfter(Mentions[s])[d] \subseteq buffer[d]
    BY FlushForOnce, TransactionsConstants
  <1>2. k \in DOMAIN saves /\ saves \in Seq(Save)
    BY LatestSaveExists DEF HandleRollbackTo, OnceInv, TypeOK
  <1>3. sp \in Save
    BY <1>2
  <1>4. /\ sp.files \in FileMaps /\ sp.backups \in [Tables -> Backup]
        /\ OwnNames(sp.cat) /\ BackupsApart(sp.backups, buffer)
    BY <1>2, <1>3 DEF Save, OnceInv
  <1>5. /\ files' = RestoreFiles(fs, sp.cat, sp.files, sp.backups, id)
        /\ cat' = sp.cat /\ snapCat' = sp.cat /\ buffer' = BufferAfter(Mentions[s])
        /\ backups' = [n \in Tables |-> NoBackup] /\ saves' = SubSeq(saves, 1, k)
    BY DEF HandleRollbackTo
  <1> HIDE DEF fs, sp
  <1>6. /\ Disjoint(files')
        /\ \A d \in Tables : RowsOf(files'[d]) \subseteq RowsOf(fs[d]) \cup sp.backups[d].rows
    BY <1>1, <1>4, <1>5, RestoreOnce
  <1>7. Apart(files', buffer')
    BY <1>1, <1>4, <1>5, <1>6 DEF Apart, BackupsApart
  <1>8. BackupsApart(backups', buffer')
    BY <1>5 DEF BackupsApart, NoBackup
  <1>9. \A i \in DOMAIN saves' : i \in DOMAIN saves /\ saves'[i] = saves[i]
    <2>1. k \in 1..Len(saves) /\ Len(saves) \in Nat
      BY <1>2
    <2> HIDE DEF k
    <2> QED
      BY <1>2, <1>5, <2>1
  <1>10. \A i \in DOMAIN saves' : OwnNames(saves'[i].cat) /\ BackupsApart(saves'[i].backups, buffer')
    BY <1>1, <1>5, <1>9 DEF OnceInv, BackupsApart
  <1> QED
    BY <1>4, <1>5, <1>6, <1>7, <1>8, <1>10 DEF OnceInv, OwnNames, Disjoint, Apart, BackupsApart

LEMMA NextOnce ==
    ASSUME NoRename PROVE OnceInv /\ [Next]_vars => OnceInv'
  <1> SUFFICES ASSUME OnceInv, [Next]_vars PROVE OnceInv'
    OBVIOUS
  <1>1. TypeOK'
    BY NextType DEF OnceInv
  <1>2. CASE UNCHANGED vars
    BY <1>1, <1>2 DEF OnceInv, OwnNames, Disjoint, Apart, BackupsApart, vars, txnVars
  <1>3. ASSUME NEW id \in FileIds, NEW n \in Tables,
               \/ \E r \in Rows, full \in BOOLEAN : HandleInsertBuffered(n, r, full, id)
               \/ \E r \in Rows : HandleInsertImmediate(n, r, id)
        PROVE  OnceInv'
    BY <1>1, <1>3, InsertOnce
  <1>4. ASSUME NEW id \in FileIds, NEW named \in {{n} : n \in Tables} \cup {{}}, Read(named, id)
        PROVE  OnceInv'
    BY <1>1, <1>4, ReadOnce
  <1>5. ASSUME NEW id \in FileIds, NEW n \in Tables, NEW keep \in SUBSET Rows,
               \/ HandleDelete(n, keep, id) \/ HandleDeleteRestricted(n, keep, id)
               \/ \E c \in Tables, old, new \in Rows : HandleDeleteSetNull(n, c, keep, old, new, id)
        PROVE  OnceInv'
    BY <1>1, <1>5, DeleteOnce, DeleteSetNullOnce
  <1>6. ASSUME NEW id \in FileIds, NEW n \in Tables,
               \/ \E restored \in BOOLEAN : RewriteFails(n, restored, id)
               \/ \E old, new \in Rows : HandleUpdate(n, old, new, id)
               \/ HandleVacuum(n, id) \/ HandleTruncate(n, id)
               \/ HandleCreateTable(n, id) \/ HandleDropTable(n, id)
        PROVE  OnceInv'
    BY <1>1, <1>6, UpdateOnce, VacuumOnce, TruncateOnce, SchemaOnce
  <1>7. ASSUME NEW id \in FileIds, NEW n \in Tables, NEW old \in Small, NEW new \in Small,
               HandleMerge(n, old, new, id) \/ HandleUpsert(n, old, new, id)
        PROVE  OnceInv'
    <2>1. buffer[n] = {} \/ n \in Buffered
      BY DEF Buffered
    <2>2. PICK S \in {Buffered, Buffered \cap {n}} : MergeClause(n, S, old, new, id)
      BY <1>7 DEF HandleMerge, HandleUpsert
    <2>3. S \in SUBSET Tables /\ (n \in S \/ buffer[n] = {})
      BY <2>1, <2>2, BufferedType
    <2> QED
      BY <1>1, <2>2, <2>3, MergeOnce
  <1>8. ASSUME NEW id \in FileIds, NEW n \in Tables, NEW m \in Tables
        PROVE  ~HandleRenameTable(n, m, id)
    BY DEF HandleRenameTable, NoRename, Ops, OnceInv, TypeOK
  <1>9. ASSUME NEW id \in FileIds,
               \/ HandleBegin(id) \/ HandleCommit(id) \/ HandleRollback(id)
               \/ \E s \in SaveNames : HandleSavepoint(s, id)
               \/ \E s \in SaveNames : HandleRollbackTo(s, id) \/ HandleReleaseSavepoint(s, id)
        PROVE  OnceInv'
    BY <1>1, <1>9, BeginOnce, EndOnce, SavepointOnce, RollbackToOnce
  <1>10. CASE Next
    <2>1. PICK id \in FileIds :
        \/ \E n \in Tables, r \in Rows, full \in BOOLEAN : HandleInsertBuffered(n, r, full, id)
        \/ \E n \in Tables, r \in Rows : HandleInsertImmediate(n, r, id)
        \/ \E named \in {{n} : n \in Tables} \cup {{}} : Read(named, id)
        \/ \E n \in Tables, keep \in SUBSET Rows : HandleDelete(n, keep, id)
        \/ \E n \in Tables, keep \in SUBSET Rows : HandleDeleteRestricted(n, keep, id)
        \/ \E n, c \in Tables, keep \in SUBSET Rows, old, new \in Rows :
             HandleDeleteSetNull(n, c, keep, old, new, id)
        \/ \E n \in Tables, restored \in BOOLEAN : RewriteFails(n, restored, id)
        \/ \E n \in Tables, old, new \in Rows : HandleUpdate(n, old, new, id)
        \/ \E n \in Tables, old, new \in Small : HandleMerge(n, old, new, id)
        \/ \E n \in Tables, old, new \in Small : HandleUpsert(n, old, new, id)
        \/ \E n \in Tables : HandleVacuum(n, id) \/ HandleTruncate(n, id)
        \/ \E n \in Tables : HandleCreateTable(n, id) \/ HandleDropTable(n, id)
        \/ \E n, m \in Tables : HandleRenameTable(n, m, id)
        \/ HandleBegin(id) \/ HandleCommit(id) \/ HandleRollback(id)
        \/ \E s \in SaveNames : HandleSavepoint(s, id)
        \/ \E s \in SaveNames : HandleRollbackTo(s, id) \/ HandleReleaseSavepoint(s, id)
      BY <1>10 DEF Next
    <2> QED
      BY <2>1, <1>3, <1>4, <1>5, <1>6, <1>7, <1>8, <1>9
  <1> QED
    BY <1>2, <1>10

LEMMA InitOnce == Init => OnceInv
  <1> SUFFICES ASSUME Init PROVE OnceInv
    OBVIOUS
  <1>1. /\ \A n \in Tables : cat[n] \in {n, NoDir} /\ snapCat[n] = NoDir
        /\ \A n \in Tables : files[n] = {} /\ buffer[n] = {} /\ backups[n].rows = {}
        /\ DOMAIN saves = {}
    BY DEF Init, NoBackup
  <1> QED
    BY <1>1, InitType DEF OnceInv, OwnNames, Disjoint, Apart, BackupsApart, RowsOf

(* Where nothing is renamed, no order of INSERTs, flushes, rewrites with    *)
(* their cascades, upserts, compactions, savepoints and rollbacks leaves a  *)
(* row in two files, or in a file and in the buffer.                        *)
THEOREM RowsStoredOnce == ASSUME NoRename PROVE Spec => []RowsOnce
  <1>1. OnceInv => RowsOnce
    BY OwnDir DEF OnceInv, Disjoint, Apart, RowsOnce
  <1> QED
    BY <1>1, InitOnce, NextOnce, PTL DEF Spec
-----------------------------------------------------------------------------
(* What COMMIT, ROLLBACK and ROLLBACK TO do to the rows of a table. A table *)
(* has a directory for itself in a catalog c if it is stored nowhere else   *)
(* and no other table is stored there, which RENAME may change.             *)
OwnIn(c, d) == c[d] \in {d, NoDir} /\ \A m \in Tables \ {d} : c[m] # d

LEMMA OwnNamesIn ==
    ASSUME NEW c, OwnNames(c), NEW d \in Tables PROVE OwnIn(c, d)
  BY TransactionsConstants DEF OwnNames, OwnIn

LEMMA MoreRows ==
    ASSUME NEW fs, NEW id, NEW rows
    PROVE  RowsOf(fs \cup {[id |-> id, rows |-> rows]}) = RowsOf(fs) \cup rows
  <1> DEFINE one == [id |-> id, rows |-> rows]
  <1>1. one.rows = rows
    OBVIOUS
  <1> HIDE DEF one
  <1>2. RowsOf(fs \cup {one}) = RowsOf(fs) \cup one.rows
    BY DEF RowsOf
  <1> QED
    BY <1>1, <1>2 DEF one

LEMMA OneFile ==
    ASSUME NEW id, NEW rows PROVE RowsOf({[id |-> id, rows |-> rows]}) = rows
  BY DEF RowsOf

(* A flush with nothing to write for d leaves it alone, and in a            *)
(* transaction it only adds to it.                                          *)
LEMMA FlushRowsIs ==
    ASSUME NEW d \in Tables, OwnIn(cat, d), NEW S \in SUBSET Tables
    PROVE  FlushRows(S, d) = IF d \in S /\ Exists(d) THEN buffer[d] ELSE {}
  <1>1. d # NoDir
    BY TransactionsConstants
  <1>2. \A m \in S : cat[m] = d <=> m = d /\ Exists(d)
    BY <1>1 DEF OwnIn, Exists
  <1>3. {m \in S : cat[m] = d} = IF d \in S /\ Exists(d) THEN {d} ELSE {}
    BY <1>2
  <1>4. FlushRows(S, d) = UNION {buffer[m] : m \in {x \in S : cat[x] = d}}
    BY DEF FlushRows
  <1>5. CASE d \in S /\ Exists(d)
    BY <1>3, <1>4, <1>5
  <1>6. CASE ~(d \in S /\ Exists(d))
    BY <1>3, <1>4, <1>6
  <1> QED
    BY <1>5, <1>6

LEMMA FlushGrows ==
    ASSUME NEW d \in Tables, OwnIn(cat, d), NEW S \in SUBSET Tables, NEW id \in FileIds
    PROVE  LET fs == FlushTable(S, id)
           IN  /\ RowsOf(fs[d]) = RowsOf(files[d]) \cup
                                  (IF d \in S /\ Exists(d) THEN buffer[d] ELSE {})
               /\ buffer[d] = {} => fs[d] = files[d]
               /\ inTxn => files[d] \subseteq fs[d]
  <1> DEFINE rows == FlushRows(S, d)
             one == [id |-> id, rows |-> rows]
             new == files[d] \cup {one}
             fs == FlushTable(S, id)
  <1>1. rows = IF d \in S /\ Exists(d) THEN buffer[d] ELSE {}
    BY FlushRowsIs
  <1>2. RowsOf(new) = RowsOf(files[d]) \cup rows
    BY MoreRows
  <1>3. RowsOf({[id |-> id, rows |-> RowsOf(new)]}) = RowsOf(new)
    BY OneFile
  <1>4. fs[d] = IF rows = {} THEN files[d]
                ELSE IF ~inTxn /\ CompactAt > 0 /\ d \in S /\ Cardinality(new) >= CompactAt
                     THEN {[id |-> id, rows |-> RowsOf(new)]} ELSE new
    BY DEF FlushTable
  <1>5. files[d] \subseteq new
    OBVIOUS
  <1> HIDE DEF rows, one, new, fs
  <1>6. RowsOf(fs[d]) = RowsOf(files[d]) \cup rows
    BY <1>2, <1>3, <1>4
  <1>7. buffer[d] = {} => rows = {}
    BY <1>1
  <1> QED
    BY <1>1, <1>4, <1>5, <1>6, <1>7 DEF fs

LEMMA FlushAll ==
    ASSUME NEW d \in Tables, OwnIn(cat, d), NEW id \in FileIds
    PROVE  RowsOf(FlushTable(Buffered, id)[d]) =
             RowsOf(files[d]) \cup (IF Exists(d) THEN buffer[d] ELSE {})
  <1>1. d \in Buffered \/ buffer[d] = {}
    BY DEF Buffered
  <1> QED
    BY <1>1, FlushGrows, BufferedType

(* A rewrite of other tables leaves d alone.                                *)
LEMMA RewriteOther ==
    ASSUME NEW c, NEW S \in SUBSET Tables, NEW d \in Tables \ S, OwnIn(c, d), NEW fs,
           NEW new, NEW id
    PROVE  RewriteAll(c, fs, S, new, id)[d] = fs[d]
  <1>1. {m \in S : c[m] = d /\ new[m] # {}} = {}
    BY DEF OwnIn
  <1> QED
    BY <1>1 DEF RewriteAll

LEMMA RewriteTableOther ==
    ASSUME NEW n \in Tables, NEW d \in Tables \ {n}, OwnIn(cat, d), NEW fs, NEW rows, NEW id
    PROVE  RewriteTable(fs, n, rows, id)[d] = fs[d]
  <1>1. {n} \in SUBSET Tables
    OBVIOUS
  <1> QED
    BY <1>1, RewriteOther DEF RewriteTable

(* The files of d that are left when a snapshot (c, fl, b) is restored.     *)
RestoredTo(d, fs, c, fl, b, id) ==
    IF c[d] = NoDir THEN IF Exists(d) THEN {} ELSE fs[d]
    ELSE IF b[d].has THEN IF b[d].rows = {} THEN {} ELSE {[id |-> id, rows |-> b[d].rows]}
    ELSE fs[d] \cap fl[d]

LEMMA RestoredFiles ==
    ASSUME NEW d \in Tables, OwnIn(cat, d), NEW c, OwnIn(c, d), NEW fs, NEW fl, NEW b, NEW id
    PROVE  RestoreFiles(fs, c, fl, b, id)[d] = RestoredTo(d, fs, c, fl, b, id)
  <1> DEFINE trimmed == [x \in Tables |-> IF c[x] # NoDir THEN fs[x] \cap fl[x] ELSE fs[x]]
             newDirs == {cat[n] : n \in {m \in Tables : Exists(m) /\ c[m] = NoDir}}
             emptied == [x \in Tables |-> IF x \in newDirs THEN {} ELSE trimmed[x]]
             back == {n \in Tables : b[n].has /\ c[n] # NoDir}
             new == [n \in Tables |-> b[n].rows]
             writers == {m \in back : c[m] = d /\ new[m] # {}}
  <1>1. d # NoDir
    BY TransactionsConstants
  <1>2. d \in newDirs <=> Exists(d) /\ c[d] = NoDir
    BY <1>1 DEF OwnIn, Exists
  <1>3. d \in back <=> b[d].has /\ c[d] # NoDir
    OBVIOUS
  <1>4. writers = IF d \in back /\ b[d].rows # {} THEN {d} ELSE {}
    BY <1>1 DEF OwnIn
  <1>5. RestoreFiles(fs, c, fl, b, id)[d] =
          (IF d \in back THEN {} ELSE emptied[d])
            \cup {[id |-> id, rows |-> new[n]] : n \in writers}
    BY DEF RestoreFiles, RewriteAll
  <1>6. emptied[d] = IF d \in newDirs THEN {} ELSE IF c[d] # NoDir THEN fs[d] \cap fl[d] ELSE fs[d]
    OBVIOUS
  <1>7. new[d] = b[d].rows
    OBVIOUS
  <1> HIDE DEF newDirs, emptied, back, new, writers
  <1>8. CASE c[d] = NoDir
    BY <1>2, <1>3, <1>4, <1>5, <1>6, <1>8 DEF RestoredTo
  <1>9. CASE c[d] # NoDir /\ ~b[d].has
    BY <1>2, <1>3, <1>4, <1>5, <1>6, <1>9 DEF RestoredTo
  <1>10. CASE c[d] # NoDir /\ b[d].has
    BY <1>2, <1>3, <1>4, <1>5, <1>6, <1>7, <1>10 DEF RestoredTo
  <1> QED
    BY <1>8, <1>9, <1>10

(* COMMIT: the buffers are written, and only storage that a DROP has left   *)
(* for COMMIT is deleted, whatever the transaction has done before.         *)
THEOREM CommitChangesNothing == Spec => CommitKeeps
  <1>1. ASSUME OwnDirectories, NEW id \in FileIds, HandleCommit(id), NEW n \in Tables
        PROVE  View(n)' = View(n) \/ cat[n] \in deferred
    <2>1. OwnIn(cat, n)
      <3>1. OwnNames(cat)
        BY <1>1 DEF OwnDirectories, OwnNames
      <3> QED
        BY <3>1, OwnNamesIn
    <2>2. /\ cat' = cat /\ buffer'[n] = {}
          /\ \A d \in Tables :
               files'[d] = IF d \in deferred THEN {} ELSE FlushTable(Buffered, id)[d]
      BY <1>1 DEF HandleCommit
    <2>3. CASE ~Exists(n)
      BY <2>2, <2>3 DEF View, Exists
    <2>4. CASE Exists(n) /\ cat[n] \notin deferred
      <3>1. cat[n] = n
        BY <2>1, <2>4 DEF OwnIn, Exists
      <3>2. RowsOf(files'[n]) = RowsOf(files[n]) \cup buffer[n]
        BY <2>1, <2>2, <2>4, <3>1, FlushAll
      <3>3. View(n)' = [def |-> TRUE, rows |-> RowsOf(files'[n]) \cup buffer'[n]]
        BY <2>2, <2>4, <3>1 DEF View, Exists, RowsOf
      <3>4. View(n) = [def |-> TRUE, rows |-> RowsOf(files[n]) \cup buffer[n]]
        BY <2>4, <3>1 DEF View
      <3> QED
        BY <2>2, <3>2, <3>3, <3>4
    <2> QED
      BY <2>3, <2>4
  <1>2. [Next]_vars =>
          [OwnDirectories /\ (\E id \in FileIds : HandleCommit(id)) =>
             \A n \in Tables : View(n)' = View(n) \/ cat[n] \in deferred]_vars
    BY <1>1
  <1> QED
    BY <1>2, PTL DEF Spec, CommitKeeps


-----------------------------------------------------------------------------
(* What a statement in a transaction does to a table that it names or that  *)
(* a cascade reaches, and to the others. A table can be undone without a    *)
(* backup while the transaction has only appended to it.                    *)
Undoable(m) == kind[m] \in {"clean", "appended"}

Alone(m, fs) ==
    /\ kind'[m] = kind[m] /\ backups'[m] = backups[m] /\ buffer'[m] \subseteq buffer[m]
    /\ OwnIn(cat, m) => files'[m] = fs[m]
Appended(m) ==
    /\ kind'[m] = Touch(m, "append") /\ backups'[m] = backups[m]
    /\ OwnIn(cat, m) => files[m] \subseteq files'[m]
Raw(m) == kind'[m] = Touch(m, "raw") /\ backups'[m] = backups[m]
BackedUp(m, fs) ==
    /\ Exists(m)
    /\ kind'[m] = Touch(m, "backed")
    /\ backups'[m] = IF backups[m].has THEN backups[m]
                     ELSE [has |-> TRUE, rows |-> RowsOf(fs[cat[m]])]
KeepsOwn(m) == OwnIn(cat, m) /\ kind'[m] \in {"clean", "appended"} => OwnIn(cat', m)

(* As long as it can be undone no file of it goes away; the backup of its   *)
(* first rewrite has the rows that it had when it was clean.                *)
Progress(m) ==
    /\ KeepsOwn(m)
    /\ kind'[m] \in {"clean", "appended"} =>
         /\ Undoable(m) /\ backups'[m] = backups[m]
         /\ OwnIn(cat, m) => files[m] \subseteq files'[m]
    /\ kind'[m] = "clean" =>
         /\ kind[m] = "clean"
         /\ OwnIn(cat, m) /\ buffer[m] = {} => files'[m] = files[m] /\ buffer'[m] = {}
    /\ kind'[m] = "backed" =>
         \/ kind[m] = "backed" /\ (backups[m].has => backups'[m] = backups[m])
         \/ /\ kind[m] = "clean"
            /\ OwnIn(cat, m) /\ buffer[m] = {} /\ ~backups[m].has =>
                 backups'[m] = [has |-> TRUE, rows |-> RowsOf(files[m])]

LEMMA ProgressIf ==
    ASSUME TypeOK, inTxn, NEW m \in Tables, NEW S \in SUBSET Tables, NEW id \in FileIds,
           KeepsOwn(m),
           \/ Alone(m, FlushTable(S, id)) \/ Appended(m) \/ Raw(m)
           \/ BackedUp(m, FlushTable(S, id))
    PROVE  Progress(m)
  <1> DEFINE fs == FlushTable(S, id)
  <1>1. OwnIn(cat, m) => files[m] \subseteq fs[m] /\ (buffer[m] = {} => fs[m] = files[m])
    BY FlushGrows
  <1>2. kind[m] \in Kinds
    BY DEF TypeOK
  <1> HIDE DEF fs
  <1>3. CASE Alone(m, fs)
    BY <1>1, <1>2, <1>3 DEF Alone, Progress, Undoable, Kinds
  <1>4. CASE Appended(m)
    <2>1. kind'[m] = IF kind[m] = "clean" THEN "appended" ELSE kind[m]
      BY <1>4 DEF Appended, Touch
    <2> QED
      BY <1>2, <1>4, <2>1 DEF Appended, Progress, Undoable, Kinds
  <1>5. CASE Raw(m)
    <2>1. kind'[m] = IF kind[m] = "backed" THEN "backed" ELSE "lost"
      BY <1>5 DEF Raw, Touch
    <2> QED
      BY <1>2, <1>5, <2>1 DEF Raw, Progress, Undoable, Kinds
  <1>6. CASE BackedUp(m, fs)
    <2>1. kind'[m] = IF kind[m] = "clean" THEN "backed"
                     ELSE IF kind[m] = "appended" THEN "lost" ELSE kind[m]
      BY <1>6 DEF BackedUp, Touch
    <2>2. OwnIn(cat, m) /\ buffer[m] = {} /\ ~backups[m].has =>
            backups'[m] = [has |-> TRUE, rows |-> RowsOf(files[m])]
      BY <1>1, <1>6 DEF BackedUp, OwnIn, Exists
    <2>3. backups[m].has => backups'[m] = backups[m]
      BY <1>6 DEF BackedUp
    <2> QED
      BY <1>2, <2>1, <2>2, <2>3 DEF Progress, Undoable, Kinds, KeepsOwn
  <1> QED
    BY <1>3, <1>4, <1>5, <1>6 DEF fs

(* The same after flush_buffered_for_sql.                                   *)
LEMMA ProgressFor ==
    ASSUME TypeOK, inTxn, NEW m \in Tables, NEW named \in SUBSET Tables, NEW id \in FileIds,
           cat' = cat \/ KeepsOwn(m),
           \/ Alone(m, FlushFor(named, id)) \/ Appended(m) \/ Raw(m)
           \/ BackedUp(m, FlushFor(named, id))
    PROVE  Progress(m)
  <1>1. KeepsOwn(m)
    BY DEF KeepsOwn
  <1> QED
    BY <1>1, ToFlushType, ProgressIf DEF FlushFor

LEMMA BufferShrinks ==
    ASSUME NEW named, NEW m \in Tables PROVE BufferAfter(named)[m] \subseteq buffer[m]
  BY DEF BufferAfter

LEMMA BackupIs ==
    ASSUME TypeOK, inTxn, NEW n \in Tables, NEW fs, NEW m \in Tables
    PROVE  BackupTable(n, fs)[m] =
             IF m = n /\ ~backups[n].has THEN [has |-> TRUE, rows |-> RowsOf(fs[cat[n]])]
             ELSE backups[m]
  BY DEF BackupTable, TypeOK

LEMMA InsertProgress ==
    ASSUME TypeOK, inTxn, NEW n \in Tables, NEW id \in FileIds, NEW m \in Tables,
           \/ \E r \in Rows, full \in BOOLEAN : HandleInsertBuffered(n, r, full, id)
           \/ \E r \in Rows : HandleInsertImmediate(n, r, id)
    PROVE  Progress(m)
  <1>1. /\ cat' = cat /\ backups' = backups /\ Exists(n)
        /\ kind' = [kind EXCEPT ![n] = Touch(n, "append")]
    BY DEF HandleInsertBuffered, HandleInsertImmediate, txnVars
  <1>2. \/ files' = files
        \/ \E f : files' = [files EXCEPT ![cat[n]] = files[cat[n]] \cup {f}]
    BY DEF HandleInsertBuffered, HandleInsertImmediate
  <1>3. \A x \in Tables \ {n} : buffer'[x] = buffer[x]
    BY DEF HandleInsertBuffered, HandleInsertImmediate, TypeOK
  <1>4. cat[n] \in Tables
    BY <1>1, CatType
  <1>5. KeepsOwn(m)
    BY <1>1 DEF KeepsOwn
  <1>6. CASE m = n
    <2>1. files[n] \subseteq files'[n]
      BY <1>2, <1>4 DEF TypeOK, FileMaps
    <2>2. Appended(n)
      BY <1>1, <2>1 DEF Appended, TypeOK
    <2> QED
      BY <1>5, <1>6, <2>2, ProgressIf, BufferedType
  <1>7. CASE m # n
    <2>1. OwnIn(cat, m) => files'[m] = files[m]
      BY <1>2, <1>7 DEF OwnIn, TypeOK, FileMaps
    <2>2. kind'[m] = kind[m] /\ backups'[m] = backups[m] /\ buffer'[m] = buffer[m]
      BY <1>1, <1>3, <1>7 DEF TypeOK
    <2> QED
      BY <1>5, <2>1, <2>2 DEF Progress, Undoable, TypeOK, Kinds
  <1> QED
    BY <1>6, <1>7

LEMMA ReadProgress ==
    ASSUME TypeOK, inTxn, NEW named \in SUBSET Tables, NEW id \in FileIds, NEW m \in Tables,
           files' = FlushFor(named, id), buffer' = BufferAfter(named),
           UNCHANGED <<cat, kind, backups>>
    PROVE  Progress(m)
  <1>1. Alone(m, FlushFor(named, id))
    BY BufferShrinks DEF Alone
  <1> QED
    BY <1>1, ProgressFor

(* A rewrite of n with a backup, after the tables of done have been         *)
(* rewritten without.                                                       *)
LEMMA RewriteProgress ==
    ASSUME TypeOK, inTxn, NEW n \in Tables, Exists(n), NEW id \in FileIds, NEW m \in Tables,
           NEW S \in SUBSET Tables, NEW done \in SUBSET (Tables \ {n}), cat' = cat,
           backups' = BackupTable(n, FlushTable(S, id)), buffer'[m] \subseteq buffer[m],
           m = n => kind'[m] = Touch(m, "backed"),
           m \in done => kind'[m] = Touch(m, "raw"),
           m \notin done \cup {n} => /\ kind'[m] = kind[m]
                                     /\ OwnIn(cat, m) => files'[m] = FlushTable(S, id)[m]
    PROVE  Progress(m)
  <1>1. KeepsOwn(m)
    BY DEF KeepsOwn
  <1>2. CASE m = n
    <2>1. BackedUp(m, FlushTable(S, id))
      BY <1>2, BackupIs DEF BackedUp
    <2> QED
      BY <1>1, <2>1, ProgressIf
  <1>3. CASE m \in done
    <2>1. Raw(m)
      BY <1>3, BackupIs DEF Raw
    <2> QED
      BY <1>1, <2>1, ProgressIf
  <1>4. CASE m \notin done \cup {n}
    <2>1. Alone(m, FlushTable(S, id))
      BY <1>4, BackupIs DEF Alone
    <2> QED
      BY <1>1, <2>1, ProgressIf
  <1> QED
    BY <1>2, <1>3, <1>4

LEMMA DeleteProgress ==
    ASSUME TypeOK, inTxn, NEW n \in Tables, NEW keep \in SUBSET Rows, NEW id \in FileIds,
           NEW m \in Tables, HandleDelete(n, keep, id) \/ HandleDeleteRestricted(n, keep, id)
    PROVE  Progress(m)
  <1> DEFINE fs == FlushFor({n}, id)
             rows == RowsOf(fs[cat[n]]) \cap keep
  <1>1. /\ cat' = cat /\ Exists(n) /\ buffer' = BufferAfter({n})
        /\ backups' = BackupTable(n, fs)
    BY DEF HandleDelete, HandleDeleteRestricted
  <1>2. PICK done \in SUBSET CascadeTo(n, fs, keep) :
          /\ \/ files' = CascadeFiles(fs, done, keep, id)
             \/ files' = RewriteTable(CascadeFiles(fs, done, keep, id), n, rows, id)
          /\ kind' = [x \in Tables |-> IF x = n THEN Touch(n, "backed")
                                       ELSE IF x \in done THEN Touch(x, "raw") ELSE kind[x]]
    <2>1. CASE HandleDelete(n, keep, id)
      BY <2>1 DEF HandleDelete
    <2>2. CASE HandleDeleteRestricted(n, keep, id)
      BY <2>2 DEF HandleDeleteRestricted
    <2> QED
      BY <2>1, <2>2
  <1>3. done \in SUBSET (Tables \ {n})
    BY DEF CascadeTo
  <1>4. ToFlush({n}) \in SUBSET Tables /\ fs = FlushTable(ToFlush({n}), id)
    BY ToFlushType DEF FlushFor
  <1>5. ASSUME m \notin done \cup {n}, OwnIn(cat, m) PROVE files'[m] = fs[m]
    <2>1. CascadeFiles(fs, done, keep, id)[m] = fs[m]
      BY <1>3, <1>5, RewriteOther DEF CascadeFiles
    <2> QED
      BY <1>2, <1>5, <2>1, RewriteTableOther
  <1>6. buffer'[m] \subseteq buffer[m]
    BY <1>1, BufferShrinks
  <1>7. /\ m = n => kind'[m] = Touch(m, "backed")
        /\ m \in done => kind'[m] = Touch(m, "raw")
        /\ m \notin done \cup {n} => kind'[m] = kind[m]
    BY <1>2, <1>3
  <1> HIDE DEF fs
  <1> QED
    BY <1>1, <1>3, <1>4, <1>5, <1>6, <1>7, RewriteProgress

LEMMA DeleteSetNullProgress ==
    ASSUME TypeOK, inTxn, NEW n \in Tables, NEW c \in Tables, NEW keep \in SUBSET Rows,
           NEW old \in Rows, NEW new \in Rows, NEW id \in FileIds, NEW m \in Tables,
           HandleDeleteSetNull(n, c, keep, old, new, id)
    PROVE  Progress(m)
  <1> DEFINE fs == FlushFor({n}, id)
             child == RewriteTable(fs, c, (RowsOf(fs[cat[c]]) \ {old}) \cup {new}, id)
  <1>1. /\ cat' = cat /\ Exists(n) /\ c # n /\ buffer' = BufferAfter({n})
        /\ backups' = BackupTable(n, fs) /\ files' = RewriteTable(child, n, keep, id)
        /\ kind' = [kind EXCEPT ![n] = Touch(n, "backed"), ![c] = Touch(c, "raw")]
    BY DEF HandleDeleteSetNull
  <1>2. ToFlush({n}) \in SUBSET Tables /\ fs = FlushTable(ToFlush({n}), id)
    BY ToFlushType DEF FlushFor
  <1>3. ASSUME m \notin {c} \cup {n}, OwnIn(cat, m) PROVE files'[m] = fs[m]
    <2> HIDE DEF fs
    <2>1. child[m] = fs[m]
      BY <1>3, RewriteTableOther
    <2> HIDE DEF child
    <2> QED
      BY <1>1, <1>3, <2>1, RewriteTableOther
  <1>4. buffer'[m] \subseteq buffer[m]
    BY <1>1, BufferShrinks
  <1>5. /\ m = n => kind'[m] = Touch(m, "backed")
        /\ m \in {c} => kind'[m] = Touch(m, "raw")
        /\ m \notin {c} \cup {n} => kind'[m] = kind[m]
    BY <1>1 DEF TypeOK
  <1>6. {c} \in SUBSET (Tables \ {n})
    BY <1>1
  <1> HIDE DEF fs, child
  <1> QED
    BY <1>1, <1>2, <1>3, <1>4, <1>5, <1>6, RewriteProgress

LEMMA UpdateProgress ==
    ASSUME TypeOK, inTxn, NEW n \in Tables, NEW id \in FileIds, NEW m \in Tables,
           \/ \E old, new \in Rows : HandleUpdate(n, old, new, id)
           \/ \E restored \in BOOLEAN : RewriteFails(n, restored, id)
    PROVE  Progress(m)
  <1> DEFINE fs == FlushFor({n}, id)
  <1>1. /\ cat' = cat /\ Exists(n) /\ buffer' = BufferAfter({n})
        /\ backups' = BackupTable(n, fs)
        /\ kind' = [kind EXCEPT ![n] = Touch(n, "backed")]
        /\ \E rows : files' = RewriteTable(fs, n, rows, id)
    BY DEF HandleUpdate, RewriteFails
  <1>2. ToFlush({n}) \in SUBSET Tables /\ fs = FlushTable(ToFlush({n}), id)
    BY ToFlushType DEF FlushFor
  <1> HIDE DEF fs
  <1>3. ASSUME m # n, OwnIn(cat, m) PROVE files'[m] = fs[m]
    BY <1>1, <1>3, RewriteTableOther
  <1>4. buffer'[m] \subseteq buffer[m]
    BY <1>1, BufferShrinks
  <1>5. /\ m = n => kind'[m] = Touch(m, "backed")
        /\ m # n => kind'[m] = kind[m]
    BY <1>1 DEF TypeOK
  <1>6. {} \in SUBSET (Tables \ {n})
    OBVIOUS
  <1> QED
    BY <1>1, <1>2, <1>3, <1>4, <1>5, <1>6, RewriteProgress

LEMMA VacuumProgress ==
    ASSUME TypeOK, inTxn, NEW n \in Tables, NEW id \in FileIds, NEW m \in Tables,
           HandleVacuum(n, id)
    PROVE  Progress(m)
  <1> DEFINE fs == FlushTable(Buffered, id)
  <1>1. /\ cat' = cat /\ Exists(n) /\ buffer'[m] = {}
        /\ backups' = BackupTable(n, fs)
        /\ kind' = [kind EXCEPT ![n] = Touch(n, "backed")]
    BY DEF HandleVacuum
  <1>2. PICK old, rows : files' = RewriteTable([fs EXCEPT ![cat[n]] = @ \ old], n, rows, id)
    BY DEF HandleVacuum
  <1>3. fs \in FileMaps
    BY FlushType, BufferedType
  <1> HIDE DEF fs
  <1> DEFINE rest == [fs EXCEPT ![cat[n]] = @ \ old]
  <1>4. ASSUME m # n, OwnIn(cat, m) PROVE files'[m] = fs[m]
    <2>1. rest[m] = fs[m]
      BY <1>3, <1>4 DEF OwnIn, FileMaps
    <2> HIDE DEF rest
    <2>2. RewriteTable(rest, n, rows, id)[m] = rest[m]
      BY <1>4, RewriteTableOther
    <2> QED
      BY <1>2, <2>1, <2>2 DEF rest
  <1>5. /\ m = n => kind'[m] = Touch(m, "backed")
        /\ m # n => kind'[m] = kind[m]
    BY <1>1 DEF TypeOK
  <1>6. {} \in SUBSET (Tables \ {n})
    OBVIOUS
  <1> QED
    BY <1>1, <1>4, <1>5, <1>6, RewriteProgress, BufferedType DEF fs


LEMMA TruncateProgress ==
    ASSUME TypeOK, inTxn, NEW n \in Tables, NEW id \in FileIds, NEW m \in Tables,
           HandleTruncate(n, id)
    PROVE  Progress(m)
  <1>1. /\ cat' = cat /\ buffer' = BufferAfter({n}) /\ backups' = backups
        /\ files' = [FlushFor({n}, id) EXCEPT ![n] = {}]
        /\ kind' = [kind EXCEPT ![n] = Touch(n, "raw")]
    BY DEF HandleTruncate, txnVars
  <1>2. FlushFor({n}, id) \in FileMaps
    BY FlushForType
  <1>3. m # n => Alone(m, FlushFor({n}, id))
    BY <1>1, <1>2, BufferShrinks DEF Alone, TypeOK, FileMaps
  <1>4. m = n => Raw(m)
    BY <1>1 DEF Raw, TypeOK
  <1>5. {n} \in SUBSET Tables
    OBVIOUS
  <1> QED
    BY <1>1, <1>3, <1>4, <1>5, ProgressFor

LEMMA MergeProgress ==
    ASSUME TypeOK, inTxn, NEW n \in Tables, NEW S \in SUBSET Tables, NEW old, NEW new,
           NEW id \in FileIds, NEW m \in Tables, MergeClause(n, S, old, new, id)
    PROVE  Progress(m)
  <1> DEFINE fs == FlushTable(S, id)
  <1>1. /\ cat' = cat /\ Exists(n) /\ backups' = backups
        /\ buffer'[m] = IF m \in S THEN {} ELSE buffer[m]
    BY DEF MergeClause, txnVars
  <1>2. \/ /\ \E f : files' = [fs EXCEPT ![cat[n]] = fs[cat[n]] \cup {f}]
           /\ kind' = [kind EXCEPT ![n] = Touch(n, "append")]
        \/ /\ \E rows : files' = RewriteTable(fs, n, rows, id)
           /\ kind' = [kind EXCEPT ![n] = Touch(n, "raw")]
    BY DEF MergeClause
  <1>3. fs \in FileMaps
    BY FlushType
  <1>4. KeepsOwn(m)
    BY <1>1 DEF KeepsOwn
  <1>5. OwnIn(cat, m) => files[m] \subseteq fs[m]
    BY FlushGrows
  <1>6. cat[n] \in Tables
    BY <1>1, CatType
  <1> HIDE DEF fs
  <1>7. CASE m # n
    <2>1. ASSUME OwnIn(cat, m) PROVE files'[m] = fs[m]
      <3>1. cat[n] # m
        BY <1>7, <2>1 DEF OwnIn
      <3>2. ASSUME NEW rows PROVE RewriteTable(fs, n, rows, id)[m] = fs[m]
        BY <1>7, <2>1, RewriteTableOther
      <3> QED
        BY <1>2, <1>3, <3>1, <3>2 DEF FileMaps
    <2>2. Alone(m, fs)
      BY <1>1, <1>2, <1>7, <2>1 DEF Alone, TypeOK
    <2> QED
      BY <1>4, <2>2, ProgressIf DEF fs
  <1>8. CASE m = n /\ kind' = [kind EXCEPT ![n] = Touch(n, "raw")]
    <2>1. Raw(m)
      BY <1>1, <1>8 DEF Raw, TypeOK
    <2> QED
      BY <1>4, <2>1, ProgressIf
  <1>9. ASSUME m = n, NEW f, files' = [fs EXCEPT ![cat[n]] = fs[cat[n]] \cup {f}],
               kind' = [kind EXCEPT ![n] = Touch(n, "append")]
        PROVE  Progress(m)
    <2>1. fs[m] \subseteq files'[m]
      BY <1>3, <1>6, <1>9 DEF FileMaps
    <2>2. Appended(m)
      BY <1>1, <1>5, <1>9, <2>1 DEF Appended, TypeOK
    <2> QED
      BY <1>4, <2>2, ProgressIf
  <1> QED
    BY <1>2, <1>7, <1>8, <1>9

(* CREATE, DROP and RENAME change the catalog; a table that RENAME gives a  *)
(* name to, or takes it from, can no longer be undone.                      *)
LEMMA SchemaProgress ==
    ASSUME TypeOK, inTxn, NEW n \in Tables, NEW id \in FileIds, NEW m \in Tables,
           HandleCreateTable(n, id) \/ HandleDropTable(n, id)
    PROVE  Progress(m)
  <1>1. /\ buffer' = BufferAfter({n}) /\ UNCHANGED <<kind, backups>>
        /\ files' = FlushFor({n}, id)
        /\ cat' = [cat EXCEPT ![n] = n] \/ cat' = [cat EXCEPT ![n] = NoDir]
    BY DEF HandleCreateTable, HandleDropTable, txnVars
  <1>2. KeepsOwn(m)
    BY <1>1, TransactionsConstants DEF KeepsOwn, OwnIn, TypeOK, Catalogs
  <1>3. Alone(m, FlushFor({n}, id))
    BY <1>1, BufferShrinks DEF Alone
  <1>4. {n} \in SUBSET Tables
    OBVIOUS
  <1> QED
    BY <1>2, <1>3, <1>4, ProgressFor

LEMMA RenameProgress ==
    ASSUME TypeOK, inTxn, NEW n \in Tables, NEW k \in Tables, NEW id \in FileIds,
           NEW m \in Tables, HandleRenameTable(n, k, id)
    PROVE  Progress(m)
  <1>1. /\ buffer' = BufferAfter({n, k}) /\ backups' = backups
        /\ files' = FlushFor({n, k}, id)
        /\ cat' = [cat EXCEPT ![n] = NoDir, ![k] = cat[n]]
        /\ kind' = [kind EXCEPT ![n] = Touch(n, "raw"), ![k] = Touch(k, "raw")]
    BY DEF HandleRenameTable, txnVars
  <1>2. {n, k} \in SUBSET Tables
    OBVIOUS
  <1>3. CASE m \in {n, k}
    <2>1. kind'[m] = Touch(m, "raw")
      BY <1>1, <1>3 DEF TypeOK
    <2>2. kind'[m] \notin {"clean", "appended"}
      BY <2>1 DEF Touch
    <2>3. KeepsOwn(m) /\ Raw(m)
      BY <1>1, <2>1, <2>2 DEF KeepsOwn, Raw
    <2> QED
      BY <1>2, <2>3, ProgressFor
  <1>4. CASE m \notin {n, k}
    <2>1. kind'[m] = kind[m] /\ cat'[m] = cat[m]
      BY <1>1, <1>4 DEF TypeOK, Catalogs
    <2>2. KeepsOwn(m)
      <3>1. \A x \in Tables : cat'[x] \in {cat[x], NoDir, cat[n]}
        BY <1>1 DEF TypeOK, Catalogs
      <3> QED
        BY <1>4, <2>1, <3>1, TransactionsConstants DEF KeepsOwn, OwnIn
    <2>3. Alone(m, FlushFor({n, k}, id))
      BY <1>1, <2>1, BufferShrinks DEF Alone
    <2> QED
      BY <1>2, <2>2, <2>3, ProgressFor
  <1> QED
    BY <1>3, <1>4

(* Every step in a transaction that neither ends it nor goes back to a      *)
(* savepoint.                                                               *)
Goes(id) ==
    \/ HandleBegin(id) \/ HandleCommit(id) \/ HandleRollback(id)
    \/ \E s \in SaveNames : HandleRollbackTo(s, id)
Marks(s, id) == HandleSavepoint(s, id) \/ HandleReleaseSavepoint(s, id)

LEMMA StepKeeps ==
    ASSUME [Next]_vars, \A id \in FileIds : ~Goes(id)
    PROVE  /\ UNCHANGED <<inTxn, snapCat, snapFiles, begun, moved>>
           /\ saves' = saves \/ \E s \in SaveNames, id \in FileIds : Marks(s, id)
  <1> DEFINE Same == UNCHANGED <<inTxn, snapCat, snapFiles, begun, moved>>
  <1>1. CASE UNCHANGED vars
    BY <1>1 DEF vars, txnVars
  <1>2. ASSUME NEW id \in FileIds, NEW n \in Tables,
               \/ \E r \in Rows, full \in BOOLEAN : HandleInsertBuffered(n, r, full, id)
               \/ \E r \in Rows : HandleInsertImmediate(n, r, id)
        PROVE  Same /\ saves' = saves
    BY <1>2 DEF HandleInsertBuffered, HandleInsertImmediate, txnVars
  <1>3. ASSUME NEW id, NEW named, Read(named, id) PROVE Same /\ saves' = saves
    BY <1>3 DEF Read, txnVars
  <1>4. ASSUME NEW id, NEW n, NEW keep,
               \/ HandleDelete(n, keep, id) \/ HandleDeleteRestricted(n, keep, id)
               \/ \E c \in Tables, old, new \in Rows : HandleDeleteSetNull(n, c, keep, old, new, id)
        PROVE  Same /\ saves' = saves
    BY <1>4 DEF HandleDelete, HandleDeleteRestricted, HandleDeleteSetNull
  <1>5. ASSUME NEW id, NEW n,
               \/ \E restored \in BOOLEAN : RewriteFails(n, restored, id)
               \/ \E old, new \in Rows : HandleUpdate(n, old, new, id)
               \/ HandleVacuum(n, id) \/ HandleTruncate(n, id)
        PROVE  Same /\ saves' = saves
    BY <1>5 DEF RewriteFails, HandleUpdate, HandleVacuum, HandleTruncate, txnVars
  <1>6. ASSUME NEW id, NEW n, NEW old, NEW new,
               HandleMerge(n, old, new, id) \/ HandleUpsert(n, old, new, id)
        PROVE  Same /\ saves' = saves
    BY <1>6 DEF HandleMerge, HandleUpsert, MergeClause, txnVars
  <1>7. ASSUME NEW id, NEW n,
               \/ HandleCreateTable(n, id) \/ HandleDropTable(n, id)
               \/ \E k \in Tables : HandleRenameTable(n, k, id)
        PROVE  Same /\ saves' = saves
    BY <1>7 DEF HandleCreateTable, HandleDropTable, HandleRenameTable, txnVars
  <1>8. ASSUME NEW id, NEW s, Marks(s, id) PROVE Same
    BY <1>8 DEF Marks, HandleSavepoint, HandleReleaseSavepoint
  <1>9. CASE Next
    <2>1. PICK id \in FileIds :
        \/ \E n \in Tables, r \in Rows, full \in BOOLEAN : HandleInsertBuffered(n, r, full, id)
        \/ \E n \in Tables, r \in Rows : HandleInsertImmediate(n, r, id)
        \/ \E named \in {{n} : n \in Tables} \cup {{}} : Read(named, id)
        \/ \E n \in Tables, keep \in SUBSET Rows : HandleDelete(n, keep, id)
        \/ \E n \in Tables, keep \in SUBSET Rows : HandleDeleteRestricted(n, keep, id)
        \/ \E n, c \in Tables, keep \in SUBSET Rows, old, new \in Rows :
             HandleDeleteSetNull(n, c, keep, old, new, id)
        \/ \E n \in Tables, restored \in BOOLEAN : RewriteFails(n, restored, id)
        \/ \E n \in Tables, old, new \in Rows : HandleUpdate(n, old, new, id)
        \/ \E n \in Tables, old, new \in Small : HandleMerge(n, old, new, id)
        \/ \E n \in Tables, old, new \in Small : HandleUpsert(n, old, new, id)
        \/ \E n \in Tables : HandleVacuum(n, id) \/ HandleTruncate(n, id)
        \/ \E n \in Tables : HandleCreateTable(n, id) \/ HandleDropTable(n, id)
        \/ \E n, k \in Tables : HandleRenameTable(n, k, id)
        \/ \E s \in SaveNames : Marks(s, id)
      BY <1>9 DEF Next, Goes, Marks
    <2> QED
      BY <2>1, <1>2, <1>3, <1>4, <1>5, <1>6, <1>7, <1>8
  <1> QED
    BY <1>1, <1>9

LEMMA StepProgress ==
    ASSUME TypeOK, inTxn, NEW m \in Tables, [Next]_vars, \A id \in FileIds : ~Goes(id)
    PROVE  Progress(m)
  <1>1. CASE UNCHANGED vars
    BY <1>1 DEF Progress, KeepsOwn, Undoable, TypeOK, Kinds, vars, txnVars
  <1>2. ASSUME NEW id \in FileIds, NEW n \in Tables,
               \/ \E r \in Rows, full \in BOOLEAN : HandleInsertBuffered(n, r, full, id)
               \/ \E r \in Rows : HandleInsertImmediate(n, r, id)
        PROVE  Progress(m)
    BY <1>2, InsertProgress
  <1>3. ASSUME NEW id \in FileIds, NEW named \in {{n} : n \in Tables} \cup {{}}, Read(named, id)
        PROVE  Progress(m)
    <2>1. UNCHANGED <<cat, kind, backups>>
      BY <1>3 DEF Read, txnVars
    <2>2. files' = FlushFor(named, id) /\ buffer' = BufferAfter(named)
      BY <1>3 DEF Read
    <2> QED
      BY <2>1, <2>2, ReadProgress
  <1>4. ASSUME NEW id \in FileIds, NEW n \in Tables, NEW keep \in SUBSET Rows,
               \/ HandleDelete(n, keep, id) \/ HandleDeleteRestricted(n, keep, id)
               \/ \E c \in Tables, old, new \in Rows : HandleDeleteSetNull(n, c, keep, old, new, id)
        PROVE  Progress(m)
    BY <1>4, DeleteProgress, DeleteSetNullProgress
  <1>5. ASSUME NEW id \in FileIds, NEW n \in Tables,
               \/ \E restored \in BOOLEAN : RewriteFails(n, restored, id)
               \/ \E old, new \in Rows : HandleUpdate(n, old, new, id)
               \/ HandleVacuum(n, id) \/ HandleTruncate(n, id)
        PROVE  Progress(m)
    BY <1>5, UpdateProgress, VacuumProgress, TruncateProgress
  <1>6. ASSUME NEW id \in FileIds, NEW n \in Tables, NEW old, NEW new,
               HandleMerge(n, old, new, id) \/ HandleUpsert(n, old, new, id)
        PROVE  Progress(m)
    <2>1. PICK S \in {Buffered, Buffered \cap {n}} : MergeClause(n, S, old, new, id)
      BY <1>6 DEF HandleMerge, HandleUpsert
    <2>2. S \in SUBSET Tables
      BY BufferedType
    <2> QED
      BY <2>1, <2>2, MergeProgress
  <1>7. ASSUME NEW id \in FileIds, NEW n \in Tables,
               \/ HandleCreateTable(n, id) \/ HandleDropTable(n, id)
               \/ \E k \in Tables : HandleRenameTable(n, k, id)
        PROVE  Progress(m)
    BY <1>7, SchemaProgress, RenameProgress
  <1>8. ASSUME NEW id \in FileIds, NEW s \in SaveNames, Marks(s, id)
        PROVE  Progress(m)
    <2>1. UNCHANGED <<cat, kind, backups>>
      BY <1>8 DEF Marks, HandleSavepoint, HandleReleaseSavepoint
    <2>2. files' = FlushFor(Mentions[s], id) /\ buffer' = BufferAfter(Mentions[s])
      BY <1>8 DEF Marks, HandleSavepoint, HandleReleaseSavepoint
    <2>3. Mentions[s] \in SUBSET Tables
      BY TransactionsConstants
    <2> QED
      BY <2>1, <2>2, <2>3, ReadProgress
  <1>9. CASE Next
    <2>1. PICK id \in FileIds :
        \/ \E n \in Tables, r \in Rows, full \in BOOLEAN : HandleInsertBuffered(n, r, full, id)
        \/ \E n \in Tables, r \in Rows : HandleInsertImmediate(n, r, id)
        \/ \E named \in {{n} : n \in Tables} \cup {{}} : Read(named, id)
        \/ \E n \in Tables, keep \in SUBSET Rows : HandleDelete(n, keep, id)
        \/ \E n \in Tables, keep \in SUBSET Rows : HandleDeleteRestricted(n, keep, id)
        \/ \E n, c \in Tables, keep \in SUBSET Rows, old, new \in Rows :
             HandleDeleteSetNull(n, c, keep, old, new, id)
        \/ \E n \in Tables, restored \in BOOLEAN : RewriteFails(n, restored, id)
        \/ \E n \in Tables, old, new \in Rows : HandleUpdate(n, old, new, id)
        \/ \E n \in Tables, old, new \in Small : HandleMerge(n, old, new, id)
        \/ \E n \in Tables, old, new \in Small : HandleUpsert(n, old, new, id)
        \/ \E n \in Tables : HandleVacuum(n, id) \/ HandleTruncate(n, id)
        \/ \E n \in Tables : HandleCreateTable(n, id) \/ HandleDropTable(n, id)
        \/ \E n, k \in Tables : HandleRenameTable(n, k, id)
        \/ \E s \in SaveNames : Marks(s, id)
      BY <1>9 DEF Next, Goes, Marks
    <2> QED
      BY <2>1, <1>2, <1>3, <1>4, <1>5, <1>6, <1>7, <1>8
  <1> QED
    BY <1>1, <1>9


-----------------------------------------------------------------------------
(* ROLLBACK. A table that can be undone has no backup; what ROLLBACK needs  *)
(* to bring a table back as it was at BEGIN.                                *)
Unbacked == inTxn => \A n \in Tables : Undoable(n) => ~backups[n].has

AsBegun(n) ==
    /\ begun[n].def <=> snapCat[n] # NoDir
    /\ ~begun[n].def => begun[n].rows = {}
    /\ Undoable(n) => OwnIn(cat, n)
    /\ begun[n].def => /\ Undoable(n) => /\ snapFiles[n] \subseteq files[n]
                                         /\ RowsOf(snapFiles[n]) = begun[n].rows
                       /\ kind[n] = "clean" => /\ RowsOf(files[n]) = begun[n].rows
                                               /\ buffer[n] = {}
                       /\ kind[n] = "backed" => /\ backups[n].has
                                                /\ backups[n].rows = begun[n].rows

UndoInv ==
    /\ TypeOK /\ Unbacked
    /\ inTxn /\ ~moved /\ OwnNames(snapCat) => \A n \in Tables : AsBegun(n)

LEMMA InitUndo == Init => UndoInv
  BY InitType DEF Init, UndoInv, Unbacked

LEMMA NextUnbacked == TypeOK /\ Unbacked /\ [Next]_vars => Unbacked'
  <1> SUFFICES ASSUME TypeOK, Unbacked, [Next]_vars, inTxn', NEW n \in Tables, Undoable(n)'
               PROVE  ~backups'[n].has
    BY DEF Unbacked
  <1>1. ASSUME NEW id \in FileIds, Goes(id) PROVE ~backups'[n].has
    <2>1. backups'[n] = NoBackup
      <3>1. \/ HandleBegin(id) \/ Forget \/ \E s \in SaveNames : HandleRollbackTo(s, id)
        BY <1>1 DEF Goes, HandleCommit, HandleRollback
      <3>2. HandleBegin(id) => backups'[n] = NoBackup
        BY DEF HandleBegin
      <3>3. Forget => backups'[n] = NoBackup
        BY DEF Forget
      <3>4. ASSUME NEW s \in SaveNames, HandleRollbackTo(s, id) PROVE backups'[n] = NoBackup
        BY <3>4 DEF HandleRollbackTo
      <3> QED
        BY <3>1, <3>2, <3>3, <3>4
    <2> QED
      BY <2>1 DEF NoBackup
  <1>2. CASE \A id \in FileIds : ~Goes(id)
    <2>1. inTxn
      BY <1>2, StepKeeps
    <2>2. Progress(n)
      BY <1>2, <2>1, StepProgress
    <2> QED
      BY <2>1, <2>2 DEF Progress, Undoable, Unbacked
  <1> QED
    BY <1>1, <1>2

LEMMA ViewIs ==
    ASSUME NEW n \in Tables
    PROVE  /\ View(n).def <=> cat[n] # NoDir
           /\ cat[n] = NoDir => View(n).rows = {}
           /\ cat[n] # NoDir /\ OwnIn(cat, n) => View(n).rows = RowsOf(files[n]) \cup buffer[n]
  BY DEF View, Exists, OwnIn

LEMMA BeginUndo ==
    ASSUME TypeOK, NEW id \in FileIds, HandleBegin(id), OwnNames(cat), NEW n \in Tables
    PROVE  AsBegun(n)'
  <1>1. OwnIn(cat, n)
    BY OwnNamesIn
  <1>2. /\ cat' = cat /\ snapCat' = cat /\ buffer'[n] = {} /\ kind'[n] = "clean"
        /\ files' = FlushTable(Buffered, id)
        /\ snapFiles'[n] = (IF Exists(n) THEN files'[n] ELSE {})
        /\ begun'[n] = View(n)
    BY DEF HandleBegin
  <1>3. RowsOf(files'[n]) = RowsOf(files[n]) \cup (IF Exists(n) THEN buffer[n] ELSE {})
    BY <1>1, <1>2, FlushAll
  <1>4. /\ View(n).def <=> cat[n] # NoDir
        /\ View(n).rows = IF cat[n] # NoDir THEN RowsOf(files[n]) \cup buffer[n] ELSE {}
    BY <1>1, ViewIs
  <1>5. snapCat'[n] = cat[n] /\ Exists(n) <=> cat[n] # NoDir
    BY <1>2 DEF Exists
  <1>6. begun'[n].def => /\ snapFiles'[n] = files'[n]
                         /\ RowsOf(files'[n]) = begun'[n].rows
    BY <1>2, <1>3, <1>4, <1>5
  <1> QED
    BY <1>1, <1>2, <1>4, <1>5, <1>6 DEF AsBegun, Undoable

LEMMA NextUndo == UndoInv /\ [Next]_vars => UndoInv'
  <1> SUFFICES ASSUME UndoInv, [Next]_vars PROVE UndoInv'
    OBVIOUS
  <1>1. TypeOK' /\ Unbacked'
    BY NextType, NextUnbacked DEF UndoInv
  <1>2. ASSUME inTxn', ~moved', OwnNames(snapCat'), NEW n \in Tables PROVE AsBegun(n)'
    <2>1. ASSUME NEW id \in FileIds, Goes(id) PROVE AsBegun(n)'
      <3>1. HandleBegin(id)
        BY <1>2, <2>1 DEF Goes, HandleCommit, HandleRollback, HandleRollbackTo, Forget
      <3>2. snapCat' = cat
        BY <3>1 DEF HandleBegin
      <3> QED
        BY <1>2, <3>1, <3>2, BeginUndo DEF UndoInv
    <2>2. CASE \A id \in FileIds : ~Goes(id)
      <3>1. UNCHANGED <<inTxn, snapCat, snapFiles, begun, moved>>
        BY <2>2, StepKeeps
      <3>2. Progress(n)
        BY <1>2, <2>2, <3>1, StepProgress DEF UndoInv
      <3>3. AsBegun(n) /\ (Undoable(n) => ~backups[n].has)
        BY <1>2, <3>1 DEF UndoInv, Unbacked
      <3>4. Undoable(n)' => OwnIn(cat', n)
        BY <3>2, <3>3 DEF Progress, KeepsOwn, AsBegun, Undoable
      <3>5. CASE ~begun[n].def
        BY <3>1, <3>3, <3>4, <3>5 DEF AsBegun
      <3>6. CASE begun[n].def
        <4>1. Undoable(n)' => /\ snapFiles[n] \subseteq files'[n]
                              /\ RowsOf(snapFiles[n]) = begun[n].rows
          BY <3>2, <3>3, <3>6 DEF Progress, AsBegun, Undoable
        <4>2. kind'[n] = "clean" => RowsOf(files'[n]) = begun[n].rows /\ buffer'[n] = {}
          BY <3>2, <3>3, <3>6 DEF Progress, AsBegun, Undoable
        <4>3. kind'[n] = "backed" => backups'[n].has /\ backups'[n].rows = begun[n].rows
          BY <3>2, <3>3, <3>6 DEF Progress, AsBegun, Undoable
        <4> QED
          BY <3>1, <3>3, <3>4, <4>1, <4>2, <4>3 DEF AsBegun
      <3> QED
        BY <3>5, <3>6
    <2> QED
      BY <2>1, <2>2
  <1> QED
    BY <1>1, <1>2 DEF UndoInv, OwnNames

(* ROLLBACK brings back every table that the transaction has only appended  *)
(* to, and every one whose first change was a rewrite with a backup,        *)
(* whatever statements, cascades and savepoints came in between.            *)
THEOREM RollbackUndoes == Spec => RollbackRestores
  <1>1. ASSUME UndoInv, inTxn, OwnDirectories, NEW id \in FileIds, HandleRollback(id),
               NEW n \in Tables, kind[n] # "lost", ~moved
        PROVE  View(n)' = begun[n]
    <2>1. OwnNames(cat) /\ OwnNames(snapCat)
      BY <1>1 DEF OwnDirectories, OwnNames
    <2>2. OwnIn(cat, n) /\ OwnIn(snapCat, n) /\ AsBegun(n)
      BY <1>1, <2>1, OwnNamesIn DEF UndoInv
    <2> DEFINE fs == FlushTable(Buffered, id)
    <2>3. files'[n] = RestoredTo(n, fs, snapCat, snapFiles, backups, id)
      <3>1. files' = RestoreFiles(fs, snapCat, snapFiles, backups, id)
        BY <1>1 DEF HandleRollback
      <3> HIDE DEF fs
      <3> QED
        BY <2>2, <3>1, RestoredFiles
    <2>4. files[n] \subseteq fs[n]
      BY <1>1, <2>2, FlushGrows, BufferedType
    <2>5. cat' = snapCat /\ buffer'[n] = {}
      BY <1>1 DEF HandleRollback
    <2>6. begun[n] = [def |-> begun[n].def, rows |-> begun[n].rows] /\ begun[n].def \in BOOLEAN
      BY <1>1 DEF UndoInv, TypeOK, TableView
    <2>7. Undoable(n) \/ kind[n] = "backed"
      BY <1>1 DEF UndoInv, TypeOK, Kinds, Undoable
    <2> HIDE DEF fs
    <2>8. CASE ~begun[n].def
      BY <2>2, <2>5, <2>6, <2>8 DEF View, Exists, AsBegun
    <2>9. CASE begun[n].def
      <3>1. RowsOf(files'[n]) = begun[n].rows
        <4>1. CASE Undoable(n)
          <5>1. ~backups[n].has
            BY <1>1, <4>1 DEF UndoInv, Unbacked
          <5>2. files'[n] = snapFiles[n]
            BY <2>2, <2>3, <2>4, <2>9, <4>1, <5>1 DEF AsBegun, RestoredTo
          <5> QED
            BY <2>2, <2>9, <4>1, <5>2 DEF AsBegun
        <4>2. CASE kind[n] = "backed"
          <5>1. files'[n] = IF begun[n].rows = {} THEN {} ELSE {[id |-> id, rows |-> begun[n].rows]}
            BY <2>2, <2>3, <2>9, <4>2 DEF AsBegun, RestoredTo
          <5>2. RowsOf({}) = {}
            BY DEF RowsOf
          <5> QED
            BY <5>1, <5>2, OneFile
        <4> QED
          BY <2>7, <4>1, <4>2
      <3>2. snapCat[n] = n /\ n # NoDir
        BY <2>2, <2>9, TransactionsConstants DEF AsBegun, OwnIn
      <3>3. View(n)' = [def |-> TRUE, rows |-> RowsOf(files'[n]) \cup buffer'[n]]
        BY <2>5, <3>2 DEF View, Exists, RowsOf
      <3> QED
        BY <2>5, <2>6, <2>9, <3>1, <3>3
    <2> QED
      BY <2>8, <2>9
  <1>2. UndoInv /\ [Next]_vars =>
          [inTxn /\ ~inTxn' /\ OwnDirectories /\ (\E id \in FileIds : HandleRollback(id)) =>
             \A n \in Tables : kind[n] # "lost" /\ ~moved => View(n)' = begun[n]]_vars
    BY <1>1
  <1> QED
    BY <1>2, InitUndo, NextUndo, PTL DEF Spec, RollbackRestores


-----------------------------------------------------------------------------
(* ROLLBACK TO. What it needs of a savepoint sp to bring a table back as it *)
(* was then, as long as the transaction has only appended to the table, if  *)
(* no table was stored under another's name at the first savepoint.         *)
Seen(sp) ==
    \A n \in Tables : /\ sp.view[n].def <=> sp.cat[n] # NoDir
                      /\ ~sp.view[n].def => sp.view[n].rows = {}
AsSaved(sp, n, fs) ==
    /\ OwnIn(sp.cat, n)
    /\ ~sp.backups[n].has
    /\ sp.cat[n] # NoDir => /\ sp.files[n] \subseteq fs[n]
                            /\ RowsOf(sp.files[n]) = sp.view[n].rows
Nested(sp, sq, n) ==
    sp.cat[n] # NoDir /\ sq.cat[n] # NoDir => sp.files[n] \subseteq sq.files[n]

SaveInv ==
    /\ TypeOK /\ Unbacked
    /\ ~inTxn => DOMAIN saves = {}
    /\ \A i \in DOMAIN saves : Seen(saves[i])
    /\ DOMAIN saves # {} /\ OwnNames(saves[1].cat) =>
         \A n \in Tables : Undoable(n) =>
            /\ OwnIn(cat, n)
            /\ \A i \in DOMAIN saves : AsSaved(saves[i], n, files)
            /\ \A i, j \in DOMAIN saves : i <= j => Nested(saves[i], saves[j], n)

NoneMentioned == \A s \in SaveNames : Mentions[s] = {}

LEMMA InitSave == Init => SaveInv
  BY InitType DEF Init, SaveInv, Unbacked

LEMMA FlushNone ==
    ASSUME NoneMentioned, NEW s \in SaveNames
    PROVE  /\ \A id : FlushFor(Mentions[s], id) = FlushTable(Buffered, id)
           /\ \A n \in Tables : BufferAfter(Mentions[s])[n] = {}
  <1>1. ToFlush(Mentions[s]) = Buffered
    BY DEF NoneMentioned, ToFlush
  <1> QED
    BY <1>1 DEF FlushFor, BufferAfter, Buffered

(* The savepoints that a step leaves, all of them there before.             *)
LEMMA SaveKept ==
    ASSUME SaveInv, TypeOK', Unbacked', inTxn, inTxn', \A n \in Tables : Progress(n),
           DOMAIN saves' # {} => 1 \in DOMAIN saves',
           \A i \in DOMAIN saves' : i \in DOMAIN saves /\ saves'[i] = saves[i]
    PROVE  SaveInv'
  <1>1. \A i \in DOMAIN saves' : Seen(saves'[i])
    BY DEF SaveInv
  <1>2. ASSUME DOMAIN saves' # {}, OwnNames(saves'[1].cat), NEW n \in Tables, Undoable(n)'
        PROVE  /\ OwnIn(cat', n)
               /\ \A i \in DOMAIN saves' : AsSaved(saves'[i], n, files')
               /\ \A i, j \in DOMAIN saves' : i <= j => Nested(saves'[i], saves'[j], n)
    <2>1. /\ Undoable(n) /\ OwnIn(cat, n)
          /\ \A i \in DOMAIN saves : AsSaved(saves[i], n, files)
          /\ \A i, j \in DOMAIN saves : i <= j => Nested(saves[i], saves[j], n)
      BY <1>2 DEF Progress, Undoable, SaveInv
    <2>2. files[n] \subseteq files'[n] /\ OwnIn(cat', n)
      BY <1>2, <2>1 DEF Progress, KeepsOwn, Undoable
    <2>3. ASSUME NEW i \in DOMAIN saves' PROVE AsSaved(saves'[i], n, files')
      <3>1. AsSaved(saves[i], n, files) /\ saves'[i] = saves[i]
        BY <2>1
      <3> QED
        BY <2>2, <3>1 DEF AsSaved
    <2>4. ASSUME NEW i \in DOMAIN saves', NEW j \in DOMAIN saves', i <= j
          PROVE  Nested(saves'[i], saves'[j], n)
      BY <2>1, <2>4
    <2> QED
      BY <2>2, <2>3, <2>4
  <1> QED
    BY <1>1, <1>2 DEF SaveInv, Seen, Nested, OwnNames, OwnIn

LEMMA SavepointSave ==
    ASSUME NoneMentioned, SaveInv, TypeOK', Unbacked', \A n \in Tables : Progress(n),
           NEW s \in SaveNames, NEW id \in FileIds, HandleSavepoint(s, id)
    PROVE  SaveInv'
  <1> DEFINE sp == [name |-> s, cat |-> cat, backups |-> backups,
                    files |-> [n \in Tables |-> IF Exists(n) THEN files'[n] ELSE {}],
                    view |-> [n \in Tables |-> View(n)]]
             k == Len(saves) + 1
  <1>1. saves' = Append(saves, sp) /\ UNCHANGED <<cat, kind, inTxn>> /\ inTxn
    BY DEF HandleSavepoint
  <1>2. files' = FlushTable(Buffered, id)
    BY FlushNone DEF HandleSavepoint
  <1>3. saves \in Seq(Save)
    BY DEF SaveInv, TypeOK
  <1>4. /\ sp.cat = cat /\ sp.backups = backups
        /\ \A n \in Tables : sp.files[n] = (IF Exists(n) THEN files'[n] ELSE {})
        /\ \A n \in Tables : sp.view[n] = View(n)
    OBVIOUS
  <1> HIDE DEF sp
  <1>5. /\ DOMAIN saves' = DOMAIN saves \cup {k} /\ k \notin DOMAIN saves /\ saves'[k] = sp
        /\ \A i \in DOMAIN saves : saves'[i] = saves[i] /\ i < k /\ i \in Nat
        /\ k \in Nat /\ (DOMAIN saves = {} => k = 1) /\ (DOMAIN saves # {} => 1 \in DOMAIN saves)
    BY <1>1, <1>3
  <1> HIDE DEF k
  <1>6. Seen(sp)
    BY <1>4, ViewIs DEF Seen
  <1>7. \A i \in DOMAIN saves' : Seen(saves'[i])
    BY <1>5, <1>6 DEF SaveInv
  <1>8. ASSUME OwnNames(saves'[1].cat), NEW n \in Tables, Undoable(n)'
        PROVE  /\ OwnIn(cat', n)
               /\ \A i \in DOMAIN saves' : AsSaved(saves'[i], n, files')
               /\ \A i, j \in DOMAIN saves' : i <= j => Nested(saves'[i], saves'[j], n)
    <2>1. Undoable(n) /\ ~backups[n].has
      BY <1>1, <1>8 DEF Undoable, SaveInv, Unbacked
    <2>2. OwnIn(cat, n)
      <3>1. CASE DOMAIN saves = {}
        BY <1>4, <1>5, <1>8, <3>1, OwnNamesIn
      <3>2. CASE DOMAIN saves # {}
        BY <1>5, <1>8, <2>1, <3>2 DEF SaveInv
      <3> QED
        BY <3>1, <3>2
    <2>3. files[n] \subseteq files'[n]
      BY <1>8, <2>2 DEF Progress, Undoable
    <2>4. AsSaved(sp, n, files')
      <3>1. cat[n] # NoDir => /\ sp.files[n] = files'[n]
                              /\ RowsOf(files'[n]) = sp.view[n].rows
        <4>1. RowsOf(files'[n]) = RowsOf(files[n]) \cup (IF Exists(n) THEN buffer[n] ELSE {})
          BY <1>2, <2>2, FlushAll
        <4> QED
          BY <1>4, <2>2, <4>1, ViewIs DEF Exists
      <3> QED
        BY <1>4, <2>1, <2>2, <3>1 DEF AsSaved
    <2>5. ASSUME NEW i \in DOMAIN saves PROVE AsSaved(saves[i], n, files)
      BY <1>5, <1>8, <2>1, <2>5 DEF SaveInv
    <2>6. ASSUME NEW i \in DOMAIN saves' PROVE AsSaved(saves'[i], n, files')
      BY <1>5, <2>3, <2>4, <2>5 DEF AsSaved
    <2>7. ASSUME NEW i \in DOMAIN saves', NEW j \in DOMAIN saves', i <= j
          PROVE  Nested(saves'[i], saves'[j], n)
      <3>1. CASE j \in DOMAIN saves
        BY <1>5, <1>8, <2>1, <2>7, <3>1 DEF SaveInv
      <3>2. CASE j = k /\ i \in DOMAIN saves
        BY <1>4, <1>5, <2>3, <2>5, <3>2 DEF AsSaved, Nested, Exists
      <3>3. CASE i = k /\ j = k
        BY <3>3 DEF Nested
      <3> QED
        BY <1>5, <2>7, <3>1, <3>2, <3>3
    <2> QED
      BY <1>1, <2>2, <2>6, <2>7
  <1> QED
    BY <1>1, <1>7, <1>8 DEF SaveInv, Seen, Nested, OwnNames, OwnIn

(* A table is lost for a savepoint that has it when ROLLBACK TO takes its   *)
(* storage away with that of a new table of its name.                       *)
LEMMA RollbackToSave ==
    ASSUME SaveInv, TypeOK', Unbacked', NEW s \in SaveNames, NEW id \in FileIds,
           HandleRollbackTo(s, id)
    PROVE  SaveInv'
  <1> DEFINE k == LatestSave(s)
             sp == saves[k]
             fs == FlushFor(Mentions[s], id)
  <1>1. /\ cat' = sp.cat /\ UNCHANGED inTxn /\ inTxn /\ saves' = SubSeq(saves, 1, k)
        /\ files' = RestoreFiles(fs, sp.cat, sp.files, sp.backups, id)
        /\ kind' = [n \in Tables |->
             IF /\ Exists(n) /\ sp.cat[n] = NoDir
                /\ begun[n].def \/ \E i \in DOMAIN saves : saves[i].cat[n] # NoDir
             THEN "lost" ELSE kind[n]]
    BY DEF HandleRollbackTo
  <1>2. k \in DOMAIN saves /\ saves \in Seq(Save)
    BY LatestSaveExists DEF HandleRollbackTo, SaveInv, TypeOK
  <1> HIDE DEF k, fs
  <1>3. /\ k \in Nat /\ DOMAIN saves' \subseteq DOMAIN saves /\ 1 \in DOMAIN saves'
        /\ \A i \in DOMAIN saves' : i <= k /\ saves'[i] = saves[i]
    <2>1. k \in 1..Len(saves) /\ Len(saves) \in Nat
      BY <1>2
    <2> QED
      BY <1>1, <1>2, <2>1
  <1> HIDE DEF sp
  <1>4. \A i \in DOMAIN saves' : Seen(saves'[i])
    BY <1>3 DEF SaveInv
  <1>5. ASSUME OwnNames(saves'[1].cat), NEW n \in Tables, Undoable(n)'
        PROVE  /\ OwnIn(cat', n)
               /\ \A i \in DOMAIN saves' : AsSaved(saves'[i], n, files')
               /\ \A i, j \in DOMAIN saves' : i <= j => Nested(saves'[i], saves'[j], n)
    <2>1. /\ Undoable(n)
          /\ Exists(n) /\ sp.cat[n] = NoDir => \A i \in DOMAIN saves : saves[i].cat[n] = NoDir
      BY <1>1, <1>5 DEF Undoable
    <2>2. /\ OwnIn(cat, n)
          /\ \A i \in DOMAIN saves : AsSaved(saves[i], n, files)
          /\ \A i, j \in DOMAIN saves : i <= j => Nested(saves[i], saves[j], n)
      BY <1>3, <1>5, <2>1 DEF SaveInv
    <2>3. AsSaved(sp, n, files)
      BY <1>2, <2>2 DEF sp
    <2>4. files'[n] = RestoredTo(n, fs, sp.cat, sp.files, sp.backups, id)
      BY <1>1, <2>2, <2>3, RestoredFiles DEF AsSaved
    <2>5. files[n] \subseteq fs[n]
      BY <1>1, <2>2, FlushGrows, ToFlushType, TransactionsConstants DEF fs, FlushFor
    <2>6. ASSUME NEW i \in DOMAIN saves', saves[i].cat[n] # NoDir
          PROVE  saves[i].files[n] \subseteq files'[n]
      <3>1. /\ saves[i].files[n] \subseteq fs[n]
            /\ sp.cat[n] # NoDir => saves[i].files[n] \subseteq sp.files[n]
        BY <1>2, <1>3, <2>2, <2>5, <2>6 DEF AsSaved, Nested, sp
      <3>2. sp.cat[n] = NoDir => ~Exists(n)
        BY <1>3, <2>1, <2>6
      <3> QED
        BY <2>3, <2>4, <3>1, <3>2 DEF RestoredTo, AsSaved
    <2>7. ASSUME NEW i \in DOMAIN saves' PROVE AsSaved(saves'[i], n, files')
      BY <1>3, <2>2, <2>6 DEF AsSaved
    <2>8. \A i, j \in DOMAIN saves' : i <= j => Nested(saves'[i], saves'[j], n)
      BY <1>3, <2>2
    <2> QED
      BY <1>1, <2>3, <2>7, <2>8 DEF AsSaved
  <1> QED
    BY <1>1, <1>4, <1>5 DEF SaveInv, Seen, Nested, OwnNames, OwnIn

LEMMA NextSave ==
    ASSUME NoneMentioned PROVE SaveInv /\ [Next]_vars => SaveInv'
  <1> SUFFICES ASSUME SaveInv, [Next]_vars PROVE SaveInv'
    OBVIOUS
  <1>1. TypeOK' /\ Unbacked'
    BY NextType, NextUnbacked DEF SaveInv
  <1>2. ASSUME NEW id \in FileIds, HandleBegin(id) \/ HandleCommit(id) \/ HandleRollback(id)
        PROVE  SaveInv'
    <2>1. DOMAIN saves' = {}
      BY <1>2 DEF HandleBegin, HandleCommit, HandleRollback, Forget
    <2> QED
      BY <1>1, <2>1 DEF SaveInv
  <1>3. ASSUME NEW id \in FileIds, NEW s \in SaveNames, HandleRollbackTo(s, id)
        PROVE  SaveInv'
    BY <1>1, <1>3, RollbackToSave
  <1>4. CASE \A id \in FileIds : ~Goes(id)
    <2>1. /\ inTxn' = inTxn
          /\ saves' = saves \/ \E s \in SaveNames, id \in FileIds : Marks(s, id)
      BY <1>4, StepKeeps
    <2>2. CASE ~inTxn
      <3>1. saves' = saves
        BY <2>1, <2>2 DEF Marks, HandleSavepoint, HandleReleaseSavepoint
      <3> QED
        BY <1>1, <2>1, <2>2, <3>1 DEF SaveInv
    <2>3. CASE inTxn
      <3>1. \A n \in Tables : Progress(n)
        BY <1>4, <2>3, StepProgress DEF SaveInv
      <3>2. saves \in Seq(Save)
        BY DEF SaveInv, TypeOK
      <3>3. CASE saves' = saves
        <4>1. DOMAIN saves # {} => 1 \in DOMAIN saves
          BY <3>2
        <4> QED
          BY <1>1, <2>1, <2>3, <3>1, <3>3, <4>1, SaveKept
      <3>4. ASSUME NEW s \in SaveNames, NEW id \in FileIds, HandleSavepoint(s, id)
            PROVE  SaveInv'
        BY <1>1, <3>1, <3>4, SavepointSave
      <3>5. ASSUME NEW s \in SaveNames, NEW id \in FileIds, HandleReleaseSavepoint(s, id)
            PROVE  SaveInv'
        <4> DEFINE k == LatestSave(s)
        <4>1. k \in 1..Len(saves) /\ Len(saves) \in Nat
          BY <3>2, <3>5, LatestSaveExists DEF HandleReleaseSavepoint, SaveInv
        <4>2. saves' = SubSeq(saves, 1, k - 1)
          BY <3>5 DEF HandleReleaseSavepoint
        <4> HIDE DEF k
        <4>3. /\ DOMAIN saves' # {} => 1 \in DOMAIN saves'
              /\ \A i \in DOMAIN saves' : i \in DOMAIN saves /\ saves'[i] = saves[i]
          BY <3>2, <4>1, <4>2
        <4> QED
          BY <1>1, <2>1, <2>3, <3>1, <4>3, SaveKept
      <3> QED
        BY <2>1, <3>3, <3>4, <3>5 DEF Marks
    <2> QED
      BY <2>2, <2>3
  <1> QED
    BY <1>2, <1>3, <1>4 DEF Goes

(* ROLLBACK TO brings back what a table was at the latest savepoint of the  *)
(* name, if the transaction has only appended to it, through any number of  *)
(* savepoints, releases and earlier ROLLBACK TOs, unless the name of the    *)
(* savepoint names a table.                                                 *)
THEOREM RollbackToUndoes == ASSUME NoneMentioned PROVE Spec => RollbackToRestores
  <1>1. ASSUME SaveInv, OwnDirectories, NEW s \in SaveNames, NEW id \in FileIds,
               HandleRollbackTo(s, id), NEW i \in DOMAIN saves, NEW n \in Tables,
               Named(s, i), kind[n] \in {"clean", "appended"}
        PROVE  View(n)' = saves[i].view[n]
    <2> DEFINE sp == saves[i]
               fs == FlushTable(Buffered, id)
    <2> SUFFICES View(n)' = sp.view[n]
      OBVIOUS
    <2>1. saves \in Seq(Save) /\ TypeOK /\ HasSave(s)
      BY <1>1 DEF SaveInv, TypeOK, HandleRollbackTo
    <2>2. LatestSave(s) = i
      <3> DEFINE k == LatestSave(s)
      <3>1. k \in DOMAIN saves /\ saves[k].name = s /\ i <= k
        BY <1>1, <2>1, LatestSaveExists DEF Named
      <3> HIDE DEF k
      <3>2. ~(k \in (i + 1)..Len(saves))
        BY <1>1, <3>1 DEF Named
      <3>3. k \in 1..Len(saves) /\ i \in 1..Len(saves) /\ Len(saves) \in Nat
        BY <2>1, <3>1
      <3> QED
        BY <3>1, <3>2, <3>3 DEF k
    <2>3. OwnNames(saves[1].cat)
      <3>1. 1 \in DOMAIN saves
        BY <2>1
      <3> QED
        BY <1>1, <3>1 DEF OwnDirectories, OwnNames
    <2>4. OwnIn(cat, n) /\ AsSaved(sp, n, files) /\ Seen(sp)
      BY <1>1, <2>3 DEF SaveInv, Undoable
    <2>5. sp.view[n] = [def |-> sp.view[n].def, rows |-> sp.view[n].rows] /\ sp.view[n].def \in BOOLEAN
      <3>1. sp \in Save
        BY <2>1
      <3> HIDE DEF sp
      <3> QED
        BY <3>1 DEF Save, TableView
    <2>6. /\ files' = RestoreFiles(fs, sp.cat, sp.files, sp.backups, id)
          /\ cat' = sp.cat /\ buffer'[n] = {} /\ inTxn
      BY <1>1, <2>2, FlushNone DEF HandleRollbackTo
    <2> HIDE DEF sp
    <2>7. files[n] \subseteq fs[n]
      BY <2>4, <2>6, FlushGrows, BufferedType
    <2> HIDE DEF fs
    <2>8. files'[n] = RestoredTo(n, fs, sp.cat, sp.files, sp.backups, id)
      BY <2>4, <2>6, RestoredFiles DEF AsSaved
    <2>9. CASE sp.cat[n] = NoDir
      BY <2>4, <2>5, <2>6, <2>9 DEF View, Exists, Seen
    <2>10. CASE sp.cat[n] # NoDir
      <3>1. files'[n] = sp.files[n] /\ RowsOf(files'[n]) = sp.view[n].rows
        BY <2>4, <2>7, <2>8, <2>10 DEF AsSaved, RestoredTo
      <3>2. sp.cat[n] = n /\ n # NoDir
        BY <2>4, <2>10, TransactionsConstants DEF AsSaved, OwnIn
      <3>3. View(n)' = [def |-> TRUE, rows |-> RowsOf(files'[n]) \cup buffer'[n]]
        BY <2>6, <3>2 DEF View, Exists, RowsOf
      <3> QED
        BY <2>4, <2>5, <2>6, <2>10, <3>1, <3>3 DEF Seen
    <2> QED
      BY <2>9, <2>10
  <1>2. SaveInv /\ [Next]_vars =>
          [saves' # <<>> /\ OwnDirectories =>
             \A s \in SaveNames, id \in FileIds : HandleRollbackTo(s, id) =>
             \A i \in DOMAIN saves, n \in Tables :
               Named(s, i) /\ kind[n] \in {"clean", "appended"} =>
                 View(n)' = saves[i].view[n]]_vars
    BY <1>1
  <1> QED
    BY <1>2, InitSave, NextSave, PTL DEF Spec, RollbackToRestores
=============================================================================
