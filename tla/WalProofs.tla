----------------------------- MODULE WalProofs -----------------------------
(***************************************************************************)
(* Proofs about the SQL log, for every bound and every checkpoint setting: *)
(* TypeOK, MarkersDurable, ReplayExact and ActiveEntriesKept.              *)
(***************************************************************************)
EXTENDS Wal, SequenceTheorems, TLAPS

(* The strengthening that makes the invariants above inductive.             *)
LogIsAnImage == log \in images

(* Ids of this incarnation are below the counter, and a marker's            *)
(* transaction is over.                                                     *)
IdsUsed ==
    /\ counter >= 1
    /\ active < counter
    /\ phase \in {"replaying", "policy", "truncating"} => active = 0
    /\ phase # "down" => \A i \in 1..Len(log) : log[i].ep = epoch =>
          /\ log[i].status # "Torn"
          /\ log[i].txn < counter
          /\ log[i].status \in {"Committed", "Aborted"} =>
                log[i].txn = 0 \/ log[i].txn # active

(* Every contents the file may have: nothing of an incarnation follows its  *)
(* torn entry, an entry comes before its marker, one marker per transaction.*)
WellFormed(s) ==
    /\ \A i \in 1..Len(s) : s[i].ep <= epoch
    /\ \A i, j \in 1..Len(s) : i < j /\ s[i].status = "Torn" => s[i].ep < s[j].ep
    /\ \A i, j \in 1..Len(s) :
          s[i].txn = s[j].txn /\ s[i].ep = s[j].ep /\ s[i].txn # 0 =>
            /\ s[i].status = "Pending" /\ s[j].status \in {"Committed", "Aborted"} => i < j
            /\ s[i].status = "Committed" => s[j].status # "Aborted"

IInv ==
    /\ TypeOK
    /\ MarkersDurable
    /\ LogIsAnImage
    /\ IdsUsed
    /\ \A s \in images : WellFormed(s)

-----------------------------------------------------------------------------
(* What an append does to a sequence of entries.                            *)
LEMMA AppendFacts ==
    ASSUME NEW s \in Seq(Entry), NEW e \in Entry
    PROVE  /\ Append(s, e) \in Seq(Entry)
           /\ Len(Append(s, e)) = Len(s) + 1
           /\ \A i \in 1..Len(s) : Append(s, e)[i] = s[i]
           /\ Append(s, e)[Len(s) + 1] = e
  OBVIOUS

LEMMA NewEntryType ==
    ASSUME TypeOK, NEW t \in Nat, NEW st \in Statuses
    PROVE  /\ NewEntry(t, st) \in Entry
           /\ NewEntry(t, st).txn = t
           /\ NewEntry(t, st).status = st
           /\ NewEntry(t, st).ep = epoch
  BY DEF TypeOK, Entry, NewEntry

LEMMA InitIInv == Init => IInv
  <1> SUFFICES ASSUME Init PROVE IInv
    OBVIOUS
  <1>1. TypeOK
    <2>1. log \in Seq(Entry) /\ images \in SUBSET Seq(Entry)
      BY EmptySeq DEF Init
    <2> QED
      BY <2>1 DEF Init, TypeOK, Phases
  <1>2. \A s \in images : WellFormed(s)
    BY DEF Init, WellFormed
  <1>3. MarkersDurable /\ LogIsAnImage /\ IdsUsed
    BY DEF Init, MarkersDurable, LogIsAnImage, IdsUsed
  <1> QED
    BY <1>1, <1>2, <1>3 DEF IInv

(* Every step keeps the types.                                              *)
LEMMA TypeStep == TypeOK /\ [Next]_vars => TypeOK'
  <1> SUFFICES ASSUME TypeOK, [Next]_vars PROVE TypeOK'
    OBVIOUS
  <1>0. \A t \in Nat, st \in Statuses : NewEntry(t, st) \in Entry
    BY NewEntryType
  <1>1. TornEntry \in Entry
    BY <1>0 DEF TornEntry, Statuses
  <1>2. \A e \in Entry : Append(log, e) \in Seq(Entry)
    BY AppendFacts DEF TypeOK
  <1>3. ASSUME NEW e \in Entry, AppendNoSync(e)
        PROVE  log' \in Seq(Entry) /\ images' \in SUBSET Seq(Entry)
    BY <1>1, <1>2, <1>3 DEF TypeOK, AppendNoSync
  <1>4. ASSUME NEW e \in Entry, AppendSync(e)
        PROVE  log' \in Seq(Entry) /\ images' \in SUBSET Seq(Entry)
    BY <1>2, <1>4 DEF TypeOK, AppendSync
  <1>5. ASSUME Truncate
        PROVE  log' \in Seq(Entry) /\ images' \in SUBSET Seq(Entry)
    BY <1>5, EmptySeq DEF TypeOK, Truncate
  <1>6. CASE Open
    <2>1. phase' \in Phases
      BY <1>6 DEF Open, Phases
    <2>2. force' \in BOOLEAN
      BY <1>6 DEF Open
    <2>3. epoch' \in Nat /\ active' \in Nat /\ counter' \in Nat /\ commits' \in Nat
      BY <1>6 DEF Open, TypeOK
    <2> QED
      BY <1>6, <2>1, <2>2, <2>3 DEF Open, TypeOK
  <1>7. CASE OpenFails \/ ReplayDone \/ TruncateAfterMarker \/ HandleCheckpoint
    BY <1>5, <1>7 DEF OpenFails, ReplayDone, TruncateAfterMarker, HandleCheckpoint, TypeOK, Phases
  <1>8. CASE ReplayFails \/ ExecuteUnlogged \/ StatementFails \/ HandleBegin
    BY <1>8 DEF ReplayFails, ExecuteUnlogged, StatementFails, HandleBegin, TypeOK, Phases
  <1>9. CASE WalAppendPending
    <2>1. NewEntry(active, "Pending") \in Entry
      BY <1>0 DEF TypeOK, Statuses
    <2> QED
      BY <1>3, <1>9, <2>1 DEF WalAppendPending, TypeOK, Phases
  <1>10. ASSUME NEW f \in BOOLEAN, WalFinishAutocommit(f) PROVE TypeOK'
    <2>1. NewEntry(0, "Committed") \in Entry
      BY <1>0 DEF Statuses
    <2> QED
      BY <1>4, <1>10, <2>1 DEF WalFinishAutocommit, TypeOK, Phases
  <1>11. ASSUME NEW el \in BOOLEAN, CheckpointPolicy(el) PROVE TypeOK'
    BY <1>5, <1>11 DEF CheckpointPolicy, TypeOK, Phases
  <1>12. CASE HandleCommit \/ HandleRollback
    <2>1. NewEntry(active, "Committed") \in Entry /\ NewEntry(active, "Aborted") \in Entry
      BY <1>0 DEF TypeOK, Statuses
    <2> QED
      BY <1>4, <1>12, <2>1 DEF HandleCommit, HandleRollback, TypeOK, Phases
  <1>13. ASSUME NEW b \in BOOLEAN, Close(b) PROVE TypeOK'
    BY <1>5, <1>13 DEF Close, TypeOK, Phases
  <1>14. ASSUME NEW torn \in BOOLEAN, Crash(torn) PROVE TypeOK'
    BY <1>1, <1>2, <1>14 DEF Crash, TypeOK, Phases
  <1>15. CASE PowerLoss
    BY <1>15 DEF PowerLoss, TypeOK, Phases
  <1>16. CASE UNCHANGED vars
    BY <1>16 DEF vars, TypeOK
  <1> QED
    BY <1>6, <1>7, <1>8, <1>9, <1>10, <1>11, <1>12, <1>13, <1>14, <1>15, <1>16 DEF Next

(* Wal.tla's constants and variables are what the code declares, whatever   *)
(* the bounds: every reachable state is well typed.                         *)
THEOREM TypeCorrect == Spec => []TypeOK
  <1>1. Init => TypeOK
    BY InitIInv DEF IInv
  <1> QED
    BY <1>1, TypeStep, PTL DEF Spec

-----------------------------------------------------------------------------
(* Appending to the log keeps every possible contents well formed; the new  *)
(* entry belongs to no transaction of this incarnation, or to one without a *)
(* marker.                                                                  *)
LEMMA AppendWellFormed ==
    ASSUME TypeOK, IdsUsed, WellFormed(log), phase # "down",
           NEW e \in Entry, e.ep = epoch, e.txn = 0 \/ e.txn = active
    PROVE  WellFormed(Append(log, e))
  <1> DEFINE s == Append(log, e)
  <1>1. /\ Len(s) = Len(log) + 1
        /\ \A i \in 1..Len(log) : s[i] = log[i]
        /\ s[Len(log) + 1] = e
    BY AppendFacts DEF TypeOK
  <1>2. Len(log) \in Nat /\ epoch \in Nat /\ active \in Nat
    BY DEF TypeOK
  <1>3. \A i \in 1..Len(log) : log[i] \in Entry
    BY DEF TypeOK
  <1>4. \A i \in 1..Len(log) : log[i].ep \in Nat /\ log[i].txn \in Nat
    BY <1>3 DEF Entry
  <1> HIDE DEF s
  <1>5. \A i \in 1..Len(s) : i \in 1..Len(log) \/ i = Len(log) + 1
    BY <1>1, <1>2
  <1>6. \A i \in 1..Len(s) : s[i].ep <= epoch
    BY <1>1, <1>2, <1>5 DEF WellFormed
  <1>7. ASSUME NEW i \in 1..Len(s), NEW j \in 1..Len(s), i < j, s[i].status = "Torn"
        PROVE  s[i].ep < s[j].ep
    <2>1. i \in 1..Len(log)
      BY <1>1, <1>2, <1>7
    <2>2. CASE j \in 1..Len(log)
      BY <1>1, <1>7, <2>1, <2>2 DEF WellFormed
    <2>3. CASE j = Len(log) + 1
      <3>1. log[i].ep # epoch
        BY <1>1, <1>7, <2>1 DEF IdsUsed
      <3> QED
        BY <1>1, <1>2, <1>4, <2>1, <2>3, <3>1 DEF WellFormed
    <2> QED
      BY <1>5, <2>2, <2>3
  <1>8. ASSUME NEW i \in 1..Len(s), NEW j \in 1..Len(s),
               s[i].txn = s[j].txn, s[i].ep = s[j].ep, s[i].txn # 0
        PROVE  /\ s[i].status = "Pending" /\ s[j].status \in {"Committed", "Aborted"} => i < j
               /\ s[i].status = "Committed" => s[j].status # "Aborted"
    <2>1. CASE i \in 1..Len(log) /\ j \in 1..Len(log)
      BY <1>1, <1>8, <2>1 DEF WellFormed
    <2>2. CASE i \in 1..Len(log) /\ j = Len(log) + 1
      <3>1. log[i].ep = epoch /\ log[i].txn = active /\ log[i].txn # 0
        BY <1>1, <1>8, <2>2
      <3>2. log[i].status \notin {"Committed", "Aborted"}
        BY <2>2, <3>1 DEF IdsUsed
      <3> QED
        BY <1>1, <1>2, <2>2, <3>2
    <2>3. CASE i = Len(log) + 1 /\ j \in 1..Len(log)
      <3>1. log[j].ep = epoch /\ log[j].txn = active /\ log[j].txn # 0
        BY <1>1, <1>8, <2>3
      <3>2. log[j].status \notin {"Committed", "Aborted"}
        BY <2>3, <3>1 DEF IdsUsed
      <3> QED
        BY <1>1, <2>3, <3>2
    <2>4. CASE i = Len(log) + 1 /\ j = Len(log) + 1
      BY <1>1, <2>4
    <2> QED
      BY <1>5, <2>1, <2>2, <2>3, <2>4
  <1> QED
    BY <1>6, <1>7, <1>8 DEF WellFormed, s

(* The three ways the code touches the file, and what each keeps.           *)
FileInv == MarkersDurable /\ LogIsAnImage /\ \A s \in images : WellFormed(s)

LEMMA WellFormedStep ==
    ASSUME TypeOK, NEW s \in Seq(Entry), WellFormed(s), epoch' \in Nat, epoch <= epoch'
    PROVE  WellFormed(s)'
  <1>1. \A i \in 1..Len(s) : s[i] \in Entry
    OBVIOUS
  <1>2. \A i \in 1..Len(s) : s[i].ep \in Nat
    BY <1>1 DEF Entry
  <1> QED
    BY <1>2 DEF WellFormed, TypeOK

LEMMA SameFile ==
    ASSUME TypeOK, FileInv, UNCHANGED <<log, images>>, epoch' \in Nat, epoch <= epoch'
    PROVE  FileInv'
  <1>1. \A s \in images' : WellFormed(s)'
    BY WellFormedStep DEF FileInv, TypeOK
  <1> QED
    BY <1>1 DEF FileInv, MarkersDurable, LogIsAnImage

LEMMA TruncateFile ==
    ASSUME TypeOK, FileInv, Truncate, epoch' \in Nat, epoch <= epoch'
    PROVE  FileInv'
  <1>1. WellFormed(<<>>)'
    BY DEF WellFormed
  <1>2. \A s \in images : WellFormed(s)'
    BY WellFormedStep DEF FileInv, TypeOK
  <1>3. \A s \in images' : WellFormed(s)'
    BY <1>1, <1>2 DEF Truncate
  <1>4. MarkersDurable' /\ LogIsAnImage'
    BY DEF Truncate, MarkersDurable, LogIsAnImage
  <1> QED
    BY <1>3, <1>4 DEF FileInv

(* The possible contents after an append that may or may not be complete,   *)
(* not synced.                                                              *)
LEMMA ExtendFile ==
    ASSUME TypeOK, IdsUsed, FileInv, phase # "down", epoch' = epoch,
           NEW e \in Entry, e.ep = epoch, e.txn = 0 \/ e.txn = active,
           e.status \notin {"Committed", "Aborted"},
           log' = Append(log, e),
           images' = images \cup {log', Append(log, TornEntry)} \/ images' = images \cup {log'}
    PROVE  FileInv'
  <1> DEFINE t == Append(log, TornEntry)
  <1>1. TornEntry \in Entry /\ TornEntry.ep = epoch /\ TornEntry.txn = 0
    BY NewEntryType DEF TornEntry, Statuses
  <1>2. log \in images /\ WellFormed(log) /\ log \in Seq(Entry)
    BY DEF FileInv, LogIsAnImage, TypeOK
  <1>3. WellFormed(Append(log, e)) /\ WellFormed(t)
    BY <1>1, <1>2, AppendWellFormed
  <1>4. log' \in Seq(Entry) /\ t \in Seq(Entry)
    BY <1>1, <1>2, AppendFacts
  <1>5. WellFormed(log') /\ WellFormed(t)
    BY <1>3
  <1> HIDE DEF t
  <1>6. \A s \in images' : WellFormed(s)
    BY <1>5 DEF FileInv, t
  <1>7. \A s \in images' : s \in Seq(Entry)
    BY <1>4 DEF TypeOK, t
  <1>8. \A s \in images' : WellFormed(s)'
    BY <1>6, <1>7, WellFormedStep DEF TypeOK
  <1>9. /\ Len(log') = Len(log) + 1 /\ Len(t) = Len(log) + 1 /\ Len(log) \in Nat
        /\ \A i \in 1..Len(log) : log'[i] = log[i] /\ t[i] = log[i]
        /\ log'[Len(log) + 1] = e
    BY <1>1, <1>2, AppendFacts DEF t
  <1>10. MarkersDurable'
    <2> SUFFICES ASSUME NEW i \in 1..Len(log'), log'[i].status \in {"Committed", "Aborted"},
                        NEW img \in images'
                 PROVE  i <= Len(img) /\ \A j \in 1..i : img[j] = log'[j]
      BY DEF MarkersDurable
    <2>1. i \in 1..Len(log) /\ log[i].status \in {"Committed", "Aborted"}
      BY <1>9
    <2>2. \A j \in 1..i : log'[j] = log[j] /\ t[j] = log[j]
      BY <1>9, <2>1
    <2>3. CASE img \in images
      BY <2>1, <2>2, <2>3 DEF FileInv, MarkersDurable
    <2>4. CASE img = log' \/ img = t
      BY <1>9, <2>1, <2>2, <2>4
    <2> QED
      BY <2>3, <2>4 DEF t
  <1>11. LogIsAnImage'
    BY DEF LogIsAnImage
  <1> QED
    BY <1>8, <1>10, <1>11 DEF FileInv

LEMMA SyncFile ==
    ASSUME TypeOK, IdsUsed, FileInv, phase # "down", epoch' = epoch,
           NEW e \in Entry, e.ep = epoch, e.txn = 0 \/ e.txn = active,
           AppendSync(e)
    PROVE  FileInv'
  <1>1. log \in Seq(Entry) /\ WellFormed(log)
    BY DEF FileInv, LogIsAnImage, TypeOK
  <1>2. WellFormed(log')
    BY <1>1, AppendWellFormed DEF AppendSync
  <1>3. log' \in Seq(Entry)
    BY <1>1, AppendFacts DEF AppendSync
  <1>4. \A s \in images' : WellFormed(s)'
    <2> SUFFICES ASSUME NEW s \in images' PROVE WellFormed(s)'
      OBVIOUS
    <2>1. s = log'
      BY DEF AppendSync
    <2>2. WellFormed(s) /\ s \in Seq(Entry)
      BY <1>2, <1>3, <2>1
    <2>3. epoch' \in Nat /\ epoch <= epoch'
      BY DEF TypeOK
    <2> QED
      BY <2>2, <2>3, WellFormedStep
  <1>5. Len(log') \in Nat
    BY <1>3
  <1>6. MarkersDurable' /\ LogIsAnImage'
    BY <1>5 DEF AppendSync, MarkersDurable, LogIsAnImage
  <1> QED
    BY <1>4, <1>6 DEF FileInv

-----------------------------------------------------------------------------
LEMMA FileStep == IInv /\ [Next]_vars => FileInv'
  <1> SUFFICES ASSUME IInv, [Next]_vars PROVE FileInv'
    OBVIOUS
  <1>1. TypeOK /\ IdsUsed /\ FileInv
    BY DEF IInv, FileInv
  <1>2. active \in Nat /\ epoch \in Nat /\ epoch <= epoch
    BY <1>1 DEF TypeOK
  <1>3. CASE Open
    BY <1>1, <1>2, <1>3, SameFile DEF Open
  <1>4. CASE OpenFails \/ ReplayDone \/ TruncateAfterMarker \/ HandleCheckpoint
    BY <1>1, <1>2, <1>4, TruncateFile
       DEF OpenFails, ReplayDone, TruncateAfterMarker, HandleCheckpoint
  <1>5. CASE ReplayFails \/ ExecuteUnlogged \/ StatementFails \/ HandleBegin
    BY <1>1, <1>2, <1>5, SameFile DEF ReplayFails, ExecuteUnlogged, StatementFails, HandleBegin
  <1>6. CASE WalAppendPending
    <2>1. NewEntry(active, "Pending") \in Entry /\ NewEntry(active, "Pending").txn = active
      BY <1>1, <1>2, NewEntryType DEF Statuses
    <2>2. NewEntry(active, "Pending").ep = epoch /\ NewEntry(active, "Pending").status = "Pending"
      BY DEF NewEntry
    <2> QED
      BY <1>1, <1>6, <2>1, <2>2, ExtendFile DEF WalAppendPending, AppendNoSync
  <1>7. ASSUME NEW f \in BOOLEAN, WalFinishAutocommit(f) PROVE FileInv'
    <2>1. NewEntry(0, "Committed") \in Entry /\ NewEntry(0, "Committed").txn = 0
      BY <1>1, NewEntryType DEF Statuses
    <2>2. NewEntry(0, "Committed").ep = epoch
      BY DEF NewEntry
    <2>3. CASE active # 0
      BY <1>1, <1>2, <1>7, <2>3, SameFile DEF WalFinishAutocommit
    <2>4. CASE active = 0
      BY <1>1, <1>7, <2>1, <2>2, <2>4, SyncFile DEF WalFinishAutocommit
    <2> QED
      BY <2>3, <2>4
  <1>8. ASSUME NEW el \in BOOLEAN, CheckpointPolicy(el) PROVE FileInv'
    <2>1. epoch' = epoch /\ (Truncate \/ UNCHANGED <<log, images>>)
      BY <1>8 DEF CheckpointPolicy
    <2> QED
      BY <1>1, <1>2, <2>1, SameFile, TruncateFile
  <1>9. CASE HandleCommit
    <2>1. NewEntry(active, "Committed") \in Entry /\ NewEntry(active, "Committed").txn = active
      BY <1>1, <1>2, NewEntryType DEF Statuses
    <2>2. NewEntry(active, "Committed").ep = epoch
      BY DEF NewEntry
    <2> QED
      BY <1>1, <1>9, <2>1, <2>2, SyncFile DEF HandleCommit
  <1>10. CASE HandleRollback
    <2>1. NewEntry(active, "Aborted") \in Entry /\ NewEntry(active, "Aborted").txn = active
      BY <1>1, <1>2, NewEntryType DEF Statuses
    <2>2. NewEntry(active, "Aborted").ep = epoch
      BY DEF NewEntry
    <2> QED
      BY <1>1, <1>10, <2>1, <2>2, SyncFile DEF HandleRollback
  <1>11. ASSUME NEW b \in BOOLEAN, Close(b) PROVE FileInv'
    <2>1. epoch' = epoch /\ (Truncate \/ UNCHANGED <<log, images>>)
      BY <1>11 DEF Close
    <2> QED
      BY <1>1, <1>2, <2>1, SameFile, TruncateFile
  <1>12. ASSUME NEW torn \in BOOLEAN, Crash(torn) PROVE FileInv'
    <2>1. CASE torn
      <3>1. TornEntry \in Entry /\ TornEntry.ep = epoch /\ TornEntry.txn = 0
        BY <1>1, NewEntryType DEF TornEntry, Statuses
      <3>2. TornEntry.status = "Torn"
        BY DEF TornEntry, NewEntry
      <3>3. log' = Append(log, TornEntry) /\ images' = images \cup {log'}
        BY <1>12, <2>1 DEF Crash
      <3> QED
        BY <1>1, <1>12, <3>1, <3>2, <3>3, ExtendFile DEF Crash
    <2>2. CASE ~torn
      BY <1>1, <1>2, <1>12, <2>2, SameFile DEF Crash, FileInv, LogIsAnImage
    <2> QED
      BY <2>1, <2>2
  <1>13. CASE PowerLoss
    <2>1. WellFormed(log') /\ log' \in Seq(Entry)
      BY <1>1, <1>13 DEF PowerLoss, FileInv, TypeOK
    <2>2. \A s \in images' : WellFormed(s) /\ s \in Seq(Entry)
      BY <1>13, <2>1 DEF PowerLoss
    <2>3. \A s \in images' : WellFormed(s)'
      BY <1>1, <1>2, <1>13, <2>2, WellFormedStep DEF PowerLoss
    <2>4. MarkersDurable' /\ LogIsAnImage'
      BY <1>13, <2>1 DEF PowerLoss, MarkersDurable, LogIsAnImage
    <2> QED
      BY <2>3, <2>4 DEF FileInv
  <1>14. CASE UNCHANGED vars
    BY <1>1, <1>2, <1>14, SameFile DEF vars
  <1> QED
    BY <1>3, <1>4, <1>5, <1>6, <1>7, <1>8, <1>9, <1>10, <1>11, <1>12, <1>13, <1>14 DEF Next

LEMMA IdsStep == IInv /\ [Next]_vars => IdsUsed'
  <1> SUFFICES ASSUME IInv, [Next]_vars PROVE IdsUsed'
    OBVIOUS
  <1>1. TypeOK /\ IdsUsed /\ WellFormed(log)
    BY DEF IInv, LogIsAnImage
  <1>2. /\ Len(log) \in Nat /\ epoch \in Nat /\ counter \in Nat /\ active \in Nat
        /\ \A i \in 1..Len(log) : log[i] \in Entry
    BY <1>1 DEF TypeOK
  <1>3. \A i \in 1..Len(log) : log[i].ep \in Nat /\ log[i].txn \in Nat
    BY <1>2 DEF Entry
  <1>4. ASSUME NEW st \in Statuses, NEW t \in Nat, log' = Append(log, NewEntry(t, st))
        PROVE  /\ Len(log') = Len(log) + 1
               /\ \A i \in 1..Len(log) : log'[i] = log[i]
               /\ log'[Len(log) + 1].txn = t
               /\ log'[Len(log) + 1].status = st
               /\ log'[Len(log) + 1].ep = epoch
    BY <1>1, <1>4, NewEntryType, AppendFacts DEF TypeOK
  <1>5. CASE Open
    <2>1. \A i \in 1..Len(log) : log[i].ep # epoch'
      BY <1>1, <1>2, <1>3, <1>5 DEF Open, WellFormed
    <2> QED
      BY <1>5, <2>1 DEF Open, IdsUsed
  <1>6. CASE OpenFails \/ ReplayDone \/ TruncateAfterMarker \/ HandleCheckpoint
    BY <1>1, <1>6 DEF OpenFails, ReplayDone, TruncateAfterMarker, HandleCheckpoint,
                      Truncate, IdsUsed
  <1>7. CASE ReplayFails \/ ExecuteUnlogged \/ StatementFails
    BY <1>1, <1>7 DEF ReplayFails, ExecuteUnlogged, StatementFails, IdsUsed
  <1>8. CASE HandleBegin
    BY <1>1, <1>2, <1>3, <1>8 DEF HandleBegin, IdsUsed
  <1>9. CASE WalAppendPending
    <2>1. log' = Append(log, NewEntry(active, "Pending"))
      BY <1>9 DEF WalAppendPending, AppendNoSync
    <2>2. /\ Len(log') = Len(log) + 1
          /\ \A i \in 1..Len(log) : log'[i] = log[i]
          /\ log'[Len(log) + 1].txn = active
          /\ log'[Len(log) + 1].status = "Pending"
      BY <1>2, <1>4, <2>1 DEF Statuses
    <2> QED
      BY <1>1, <1>2, <1>9, <2>2 DEF WalAppendPending, IdsUsed
  <1>10. ASSUME NEW f \in BOOLEAN, WalFinishAutocommit(f) PROVE IdsUsed'
    <2>1. CASE active # 0
      BY <1>1, <1>10, <2>1 DEF WalFinishAutocommit, IdsUsed
    <2>2. CASE active = 0
      <3>1. log' = Append(log, NewEntry(0, "Committed"))
        BY <1>10, <2>2 DEF WalFinishAutocommit, AppendSync
      <3>2. /\ Len(log') = Len(log) + 1
            /\ \A i \in 1..Len(log) : log'[i] = log[i]
            /\ log'[Len(log) + 1].txn = 0
            /\ log'[Len(log) + 1].status = "Committed"
        BY <1>4, <3>1 DEF Statuses
      <3> QED
        BY <1>1, <1>2, <1>10, <2>2, <3>2 DEF WalFinishAutocommit, IdsUsed
    <2> QED
      BY <2>1, <2>2
  <1>11. ASSUME NEW el \in BOOLEAN, CheckpointPolicy(el) PROVE IdsUsed'
    <2>1. log' = <<>> \/ log' = log
      BY <1>11 DEF CheckpointPolicy, Truncate
    <2> QED
      BY <1>1, <1>11, <2>1 DEF CheckpointPolicy, IdsUsed
  <1>12. CASE HandleCommit \/ HandleRollback
    <2>1. PICK st \in {"Committed", "Aborted"} : log' = Append(log, NewEntry(active, st))
      BY <1>12 DEF HandleCommit, HandleRollback, AppendSync
    <2>2. /\ Len(log') = Len(log) + 1
          /\ \A i \in 1..Len(log) : log'[i] = log[i]
          /\ log'[Len(log) + 1].txn = active
          /\ log'[Len(log) + 1].status = st
      BY <1>2, <1>4, <2>1 DEF Statuses
    <2>3. /\ phase # "down" /\ active' = 0 /\ counter' = counter /\ epoch' = epoch
      BY <1>12 DEF HandleCommit, HandleRollback
    <2> QED
      BY <1>1, <1>2, <2>2, <2>3 DEF IdsUsed
  <1>13. ASSUME NEW b \in BOOLEAN, Close(b) PROVE IdsUsed'
    BY <1>1, <1>13 DEF Close, IdsUsed
  <1>14. ASSUME NEW torn \in BOOLEAN, Crash(torn) PROVE IdsUsed'
    BY <1>1, <1>14 DEF Crash, IdsUsed
  <1>15. CASE PowerLoss
    BY <1>1, <1>15 DEF PowerLoss, IdsUsed
  <1>16. CASE UNCHANGED vars
    BY <1>1, <1>16 DEF vars, IdsUsed
  <1> QED
    BY <1>5, <1>6, <1>7, <1>8, <1>9, <1>10, <1>11, <1>12, <1>13, <1>14, <1>15, <1>16 DEF Next

LEMMA InductiveStep == IInv /\ [Next]_vars => IInv'
  BY TypeStep, FileStep, IdsStep DEF IInv, FileInv

(* The strengthened invariant holds of every behaviour of the log.          *)
THEOREM Invariance == Spec => []IInv
  BY InitIInv, InductiveStep, PTL DEF Spec

(* Wal::append before every acknowledgement of COMMIT, ROLLBACK or an       *)
(* autocommitted statement makes the marker and all it covers survive any   *)
(* loss of power, for every setting of the checkpoint policy.               *)
THEOREM MarkersAreDurable == Spec => []MarkersDurable
  <1>1. IInv => MarkersDurable
    BY DEF IInv
  <1> QED
    BY <1>1, Invariance, PTL

LEMMA ExactFromIInv == IInv => ReplayExact
  <1> SUFFICES ASSUME IInv, OneIncarnation,
                      NEW i \in 1..Len(log), IsPending(i), log[i].txn # 0
               PROVE  i \in Replayed <=> \E j \in i..Len(log) : Marks(j, "Committed", i)
    BY DEF ReplayExact
  <1>1. WellFormed(log) /\ Len(log) \in Nat
    BY DEF IInv, LogIsAnImage, TypeOK
  <1>2. \A k \in 1..Len(log) : log[k].ep \in Nat
    <2>1. \A k \in 1..Len(log) : log[k] \in Entry
      BY DEF IInv, TypeOK
    <2> QED
      BY <2>1 DEF Entry
  <1>3. \A k \in 1..Len(log) : log[k].status # "Torn" => Readable(k)
    BY <1>1, <1>2 DEF WellFormed, OneIncarnation, Readable
  <1>4. ASSUME i \in Replayed PROVE \E j \in i..Len(log) : Marks(j, "Committed", i)
    <2>1. PICK j \in 1..Len(log) : log[j].status = "Committed" /\ log[j].txn = log[i].txn
      BY <1>4 DEF Replayed, CommittedTxns
    <2>2. Marks(j, "Committed", i)
      BY <2>1 DEF Marks, OneIncarnation
    <2>3. i < j
      BY <1>1, <2>1, <2>2 DEF WellFormed, Marks, IsPending
    <2> QED
      BY <1>1, <2>2, <2>3
  <1>5. ASSUME NEW j \in i..Len(log), Marks(j, "Committed", i) PROVE i \in Replayed
    <2>1. Readable(i) /\ Readable(j) /\ log[i].status = "Pending"
      BY <1>3, <1>5 DEF Marks, IsPending
    <2>2. log[i].txn \in CommittedTxns
      BY <1>5, <2>1 DEF CommittedTxns, Marks
    <2>3. log[i].txn \notin AbortedTxns
      <3>1. ASSUME NEW k \in 1..Len(log), log[k].status = "Aborted", log[k].txn = log[i].txn
            PROVE  FALSE
        <4>1. log[k].ep = log[j].ep /\ log[k].txn = log[j].txn /\ log[j].txn # 0
          BY <1>5, <3>1 DEF Marks, OneIncarnation
        <4> QED
          BY <1>1, <1>5, <3>1, <4>1 DEF WellFormed, Marks
      <3> QED
        BY <3>1 DEF AbortedTxns
    <2> QED
      BY <2>1, <2>2, <2>3 DEF Replayed
  <1> QED
    BY <1>4, <1>5

(* Wal::recover replays an entry of an explicit transaction if and only if  *)
(* its own commit marker follows it, whenever the log comes from one        *)
(* incarnation of the process. Reuse of ids by a later incarnation is what  *)
(* the hypothesis excludes, and what TLC shows to break it.                 *)
THEOREM RecoveryIsExact == Spec => []ReplayExact
  BY ExactFromIInv, Invariance, PTL

(* No checkpoint removes an entry of the transaction that is running.       *)
THEOREM ActiveEntriesAreKept == Spec => ActiveEntriesKept
  <1>1. ASSUME IInv, [Next]_vars, active # 0, active' = active, phase' # "down",
               NEW i \in 1..Len(log)
        PROVE  i \in 1..Len(log') /\ log'[i] = log[i]
    <2>1. active \in Nat /\ log \in Seq(Entry) /\ Len(log) \in Nat
      BY <1>1 DEF IInv, TypeOK
    <2>2. \A t \in Nat, st \in Statuses : NewEntry(t, st) \in Entry
      BY <1>1, NewEntryType DEF IInv
    <2>3. log' = log \/ \E e \in Entry : log' = Append(log, e)
      <3>1. CASE UNCHANGED vars
        BY <3>1 DEF vars
      <3>2. ASSUME Truncate, phase \in {"replaying", "policy", "truncating"} \/ active = 0
            PROVE  FALSE
        BY <1>1, <3>2 DEF IInv, IdsUsed
      <3>3. CASE Next
        <4>1. CASE WalAppendPending
          BY <2>1, <2>2, <4>1 DEF WalAppendPending, AppendNoSync, Statuses
        <4>2. ASSUME NEW f \in BOOLEAN, WalFinishAutocommit(f)
              PROVE  log' = log
          BY <1>1, <4>2 DEF WalFinishAutocommit
        <4>3. ASSUME NEW el \in BOOLEAN, CheckpointPolicy(el)
              PROVE  log' = log
          BY <3>2, <4>3 DEF CheckpointPolicy
        <4>4. CASE HandleBegin \/ HandleCommit \/ HandleRollback \/ Open
          BY <1>1, <4>4 DEF HandleBegin, HandleCommit, HandleRollback, Open
        <4>5. CASE ReplayDone \/ TruncateAfterMarker \/ HandleCheckpoint
          BY <3>2, <4>5 DEF ReplayDone, TruncateAfterMarker, HandleCheckpoint
        <4>6. CASE ReplayFails \/ ExecuteUnlogged \/ StatementFails
          BY <4>6 DEF ReplayFails, ExecuteUnlogged, StatementFails
        <4>7. ~OpenFails /\ ~PowerLoss /\ ~(\E b \in BOOLEAN : Close(b)) /\ ~(\E b \in BOOLEAN : Crash(b))
          BY <1>1 DEF OpenFails, PowerLoss, Close, Crash
        <4> QED
          BY <3>3, <4>1, <4>2, <4>3, <4>4, <4>5, <4>6, <4>7 DEF Next
      <3> QED
        BY <1>1, <3>1, <3>3
    <2> QED
      BY <2>1, <2>3, AppendFacts
  <1>2. IInv /\ [Next]_vars =>
          [active # 0 /\ active' = active /\ phase' # "down" =>
             \A i \in 1..Len(log) : log[i].txn = active /\ log[i].ep = epoch =>
                 i \in 1..Len(log') /\ log'[i] = log[i]]_vars
    BY <1>1
  <1> QED
    BY <1>2, Invariance, PTL DEF Spec, ActiveEntriesKept
=============================================================================
