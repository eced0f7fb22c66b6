--------------------------------- MODULE Wal ---------------------------------
(***************************************************************************)
(* The append-only SQL log, crates/wal/src/lib.rs, together with the way   *)
(* the engine drives it (crates/engine/src/lib.rs: wal_append_pending,     *)
(* wal_finish_autocommit, the log part of COMMIT, ROLLBACK, CHECKPOINT,    *)
(* Drop, and the recovery at the end of PotatoDB::new).                    *)
(*                                                                         *)
(* The engine owns the log through &mut self, so appends never interleave; *)
(* what makes the log hard is where a crash falls: between a statement's   *)
(* Pending entry and its marker, between a marker and the truncation that  *)
(* follows it, in the middle of an append, and during recovery itself.     *)
(***************************************************************************)
EXTENDS Integers, Sequences

CONSTANTS
    MaxLog,            \* bound: entries the file may hold
    MaxEpoch,          \* bound: process incarnations
    MaxTxn,            \* bound: explicit transactions per incarnation
    MaxCommits,        \* bound: autocommits counted between two resets
    CheckpointEvery,   \* POTATODB_WAL_CHECKPOINT_COMMITS, 0 = off
    ThresholdEntries,  \* POTATODB_WAL_CHECKPOINT_BYTES, counted in entries
    IntervalOn         \* POTATODB_WAL_CHECKPOINT_MS is not zero

ASSUME WalConstants ==
    /\ MaxLog \in Nat
    /\ MaxEpoch \in Nat
    /\ MaxTxn \in Nat
    /\ MaxCommits \in Nat
    /\ CheckpointEvery \in Nat
    /\ ThresholdEntries \in Nat
    /\ IntervalOn \in BOOLEAN

VARIABLES
    log,      \* the entries of wal.log as a reader of the file sees them
    images,   \* the contents the file may have after a loss of power
    phase,    \* where the engine is: see Phases
    active,   \* wal_txn_id of the explicit transaction, 0 when there is none
    counter,  \* txn_counter
    commits,  \* wal_commits_since_checkpoint
    force,    \* force_checkpoint of the statement that is finishing
    epoch     \* which incarnation of the process is running (ghost)

vars == <<log, images, phase, active, counter, commits, force, epoch>>

Phases == { "down",        \* no process
            "replaying",   \* PotatoDB::new is executing the recovered entries
            "open",        \* between two statements
            "executing",   \* a statement is between its entry and its end
            "policy",      \* commit marker written, checkpoint policy next
            "truncating" } \* COMMIT or ROLLBACK marker written, truncation next

(* EntryStatus, plus Torn for the bytes of an append that a crash cut short. *)
Statuses == {"Pending", "Committed", "Aborted", "Torn"}

(* WalEntry. The statement text is abstracted away: the log never looks at  *)
(* it. ep is a ghost: the incarnation that wrote the entry.                 *)
Entry == [txn : Nat, status : Statuses, ep : Nat]

NewEntry(t, s) == [txn |-> t, status |-> s, ep |-> epoch]

-----------------------------------------------------------------------------
(* Wal::recover. The reader stops at the first entry that is short or whose *)
(* CRC does not match.                                                      *)
Readable(i) ==
    /\ i \in 1..Len(log)
    /\ \A j \in 1..i : log[j].status # "Torn"

CommittedTxns == {log[i].txn : i \in {j \in 1..Len(log) :
                        Readable(j) /\ log[j].status = "Committed"}}
AbortedTxns == {log[i].txn : i \in {j \in 1..Len(log) :
                        Readable(j) /\ log[j].status = "Aborted"}}

(* Mutant: recover keeps every entry that no abort marker names.            *)
ReplayedUnlessAborted == {i \in 1..Len(log) :
                /\ Readable(i)
                /\ log[i].status = "Pending"
                /\ log[i].txn \notin AbortedTxns}

(* The positions of the entries recover returns; they are replayed in       *)
(* increasing order of position.                                            *)
Replayed == {i \in 1..Len(log) :
                /\ Readable(i)
                /\ log[i].status = "Pending"
                /\ log[i].txn = 0 \/ log[i].txn \in CommittedTxns
                /\ log[i].txn \notin AbortedTxns}

(* checkpoint_policy.rs: should_checkpoint_autocommit. Whether the interval *)
(* has elapsed is the clock's choice.                                       *)
ShouldCheckpoint(elapsed) ==
    \/ force
    \/ IntervalOn /\ elapsed
    \/ CheckpointEvery > 0 /\ commits >= CheckpointEvery

TornEntry == NewEntry(0, "Torn")

(* Wal::append_no_sync flushes to the operating system only: until the next *)
(* sync_data any older contents may come back, or part of the new entry.    *)
AppendNoSync(e) ==
    /\ Len(log) < MaxLog
    /\ log' = Append(log, e)
    /\ images' = images \cup {log', Append(log, TornEntry)}

(* Mutant: the marker is flushed but not synced.                            *)
AppendUnsynced(e) == AppendNoSync(e)

(* Wal::append: sync_data leaves one possible contents.                     *)
AppendSync(e) ==
    /\ Len(log) < MaxLog
    /\ log' = Append(log, e)
    /\ images' = {log'}

(* Wal::checkpoint: the file is reopened with truncate(true), not synced.   *)
Truncate ==
    /\ log' = <<>>
    /\ images' = images \cup {<<>>}

-----------------------------------------------------------------------------
Init ==
    /\ log = <<>>
    /\ images = {<<>>}
    /\ phase = "down"
    /\ active = 0
    /\ counter = 1
    /\ commits = 0
    /\ force = FALSE
    /\ epoch = 0

(* PotatoDB::new up to the replay: the log is read, opened for appending,   *)
(* and every counter starts again, txn_counter included.                    *)
Open ==
    /\ phase = "down"
    /\ epoch < MaxEpoch
    /\ epoch' = epoch + 1
    /\ active' = 0
    /\ counter' = 1
    /\ commits' = 0
    /\ force' = FALSE
    /\ phase' = IF Replayed = {} THEN "open" ELSE "replaying"
    /\ UNCHANGED <<log, images>>

(* PotatoDB::new fails after Wal::open and before the replay (reload_tables *)
(* or ArrowWal::recover returns an error): the half-built database is       *)
(* dropped while replaying_wal is false and nothing is buffered.            *)
OpenFails ==
    /\ phase = "down"
    /\ epoch < MaxEpoch
    /\ epoch' = epoch + 1
    /\ Truncate
    /\ UNCHANGED <<phase, active, counter, commits, force>>

(* Every recovered entry was executed: the log is truncated.                *)
ReplayDone ==
    /\ phase = "replaying"
    /\ Truncate
    /\ phase' = "open"
    /\ UNCHANGED <<active, counter, commits, force, epoch>>

(* A recovered entry fails: new returns the error and Drop, which sees      *)
(* replaying_wal, leaves the log alone.                                     *)
ReplayFails ==
    /\ phase = "replaying"
    /\ phase' = "down"
    /\ UNCHANGED <<log, images, active, counter, commits, force, epoch>>

(* wal_append_pending.                                                      *)
WalAppendPending ==
    /\ phase = "open"
    /\ AppendNoSync(NewEntry(active, "Pending"))
    /\ phase' = "executing"
    /\ UNCHANGED <<active, counter, commits, force, epoch>>

(* A statement that journals nothing, such as a buffered INSERT.            *)
ExecuteUnlogged ==
    /\ phase = "open"
    /\ phase' = "executing"
    /\ UNCHANGED <<log, images, active, counter, commits, force, epoch>>

(* A statement returns an error after its entry: nothing marks the entry.   *)
StatementFails ==
    /\ phase = "executing"
    /\ phase' = "open"
    /\ UNCHANGED <<log, images, active, counter, commits, force, epoch>>

(* wal_finish_autocommit, first half: nothing inside a transaction, else    *)
(* the commit marker for transaction 0. f is force_checkpoint.              *)
WalFinishAutocommit(f) ==
    /\ phase = "executing"
    /\ IF active # 0
         THEN /\ phase' = "open"
              /\ UNCHANGED <<log, images, commits, force>>
         ELSE /\ commits < MaxCommits
              /\ AppendSync(NewEntry(0, "Committed"))
              /\ commits' = commits + 1
              /\ force' = f
              /\ phase' = "policy"
    /\ UNCHANGED <<active, counter, epoch>>

(* wal_finish_autocommit, second half: the checkpoint policy, else          *)
(* maybe_checkpoint, which leaves the commit counter alone.                 *)
CheckpointPolicy(elapsed) ==
    /\ phase = "policy"
    /\ phase' = "open"
    /\ IF ShouldCheckpoint(elapsed)
         THEN Truncate /\ commits' = 0
         ELSE /\ UNCHANGED commits
              /\ IF ThresholdEntries = 0 \/ Len(log) >= ThresholdEntries
                   THEN Truncate
                   ELSE UNCHANGED <<log, images>>
    /\ UNCHANGED <<active, counter, force, epoch>>

(* Mutant: next_txn_id counts down.                                         *)
BeginCountsDown ==
    /\ phase = "open"
    /\ active = 0
    /\ counter > -2
    /\ active' = counter
    /\ counter' = counter - 1
    /\ UNCHANGED <<log, images, phase, commits, force, epoch>>

(* handle_begin: the id of the transaction is the next of this process.     *)
HandleBegin ==
    /\ phase = "open"
    /\ active = 0
    /\ counter <= MaxTxn
    /\ active' = counter
    /\ counter' = counter + 1
    /\ UNCHANGED <<log, images, phase, commits, force, epoch>>

(* handle_commit, log part: the marker first (Wal::commit) ...              *)
HandleCommit ==
    /\ phase = "open"
    /\ active # 0
    /\ AppendSync(NewEntry(active, "Committed"))
    /\ active' = 0
    /\ phase' = "truncating"
    /\ UNCHANGED <<counter, commits, force, epoch>>

(* handle_rollback, log part (Wal::abort) ...                               *)
HandleRollback ==
    /\ phase = "open"
    /\ active # 0
    /\ AppendSync(NewEntry(active, "Aborted"))
    /\ active' = 0
    /\ phase' = "truncating"
    /\ UNCHANGED <<counter, commits, force, epoch>>

(* ... and then, for both, Wal::checkpoint.                                 *)
TruncateAfterMarker ==
    /\ phase = "truncating"
    /\ Truncate
    /\ phase' = "open"
    /\ UNCHANGED <<active, counter, commits, force, epoch>>

(* Mutant: CHECKPOINT does not look for an open transaction.                *)
CheckpointInTransaction ==
    /\ phase = "open"
    /\ Truncate
    /\ commits' = 0
    /\ UNCHANGED <<phase, active, counter, force, epoch>>

(* The CHECKPOINT statement, handle_checkpoint.                             *)
HandleCheckpoint ==
    /\ phase = "open"
    /\ active = 0
    /\ Truncate
    /\ commits' = 0
    /\ UNCHANGED <<phase, active, counter, force, epoch>>

(* Drop: truncates, unless inserts are still buffered.                      *)
Close(buffered) ==
    /\ phase = "open"
    /\ phase' = "down"
    /\ IF buffered THEN UNCHANGED <<log, images>>
                   ELSE Truncate
    /\ UNCHANGED <<active, counter, commits, force, epoch>>

(* The process dies. What it handed to the operating system stays in the    *)
(* file; an append it was making may be there in part.                      *)
Crash(torn) ==
    /\ phase # "down"
    /\ phase' = "down"
    /\ torn => phase \in {"open", "executing"} /\ Len(log) < MaxLog
    /\ log' = IF torn THEN Append(log, TornEntry) ELSE log
    /\ images' = images \cup {log'}
    /\ UNCHANGED <<active, counter, commits, force, epoch>>

(* Power fails: the file comes back with one of its possible contents.      *)
PowerLoss ==
    /\ phase' = "down"
    /\ log' \in images
    /\ images' = {log'}
    /\ UNCHANGED <<active, counter, commits, force, epoch>>

Next ==
    \/ Open \/ OpenFails \/ ReplayDone \/ ReplayFails
    \/ WalAppendPending \/ ExecuteUnlogged \/ StatementFails
    \/ \E f \in BOOLEAN : WalFinishAutocommit(f)
    \/ \E elapsed \in BOOLEAN : CheckpointPolicy(elapsed)
    \/ HandleBegin \/ HandleCommit \/ HandleRollback
    \/ TruncateAfterMarker \/ HandleCheckpoint
    \/ \E buffered \in BOOLEAN : Close(buffered)
    \/ \E torn \in BOOLEAN : Crash(torn)
    \/ PowerLoss

Spec == Init /\ [][Next]_vars

-----------------------------------------------------------------------------
(* Type invariant of the log and of the counters the engine keeps for it.   *)
TypeOK ==
    /\ log \in Seq(Entry)
    /\ images \in SUBSET Seq(Entry)
    /\ phase \in Phases
    /\ active \in Nat
    /\ counter \in Nat
    /\ commits \in Nat
    /\ force \in BOOLEAN
    /\ epoch \in Nat

(* An entry of a transaction (explicit or not) and the marker that ends it. *)
IsPending(i) == i \in 1..Len(log) /\ log[i].status = "Pending"
Marks(j, s, i) ==
    /\ j \in 1..Len(log)
    /\ log[j].status = s
    /\ log[j].txn = log[i].txn
    /\ log[j].ep = log[i].ep

(* Write-ahead: Pending entries are appended without sync_data, and it is   *)
(* the marker that pays for them. Whatever the power supply does, a file    *)
(* that a reader sees with a commit or abort marker keeps that marker and   *)
(* every entry before it (Wal::append, used by commit and abort).           *)
MarkersDurable ==
    \A i \in 1..Len(log) : log[i].status \in {"Committed", "Aborted"} =>
        \A img \in images :
            /\ i <= Len(img)
            /\ \A j \in 1..i : img[j] = log[j]

(* Wal::recover is exact for explicit transactions as long as the log holds *)
(* entries of a single incarnation: an entry is replayed if and only if a   *)
(* commit marker of its own transaction follows it, wherever the crash and  *)
(* however often recovery itself was interrupted.                           *)
OneIncarnation == \A i, j \in 1..Len(log) : log[i].ep = log[j].ep

ReplayExact ==
    OneIncarnation =>
        \A i \in 1..Len(log) : IsPending(i) /\ log[i].txn # 0 =>
            (i \in Replayed <=> \E j \in i..Len(log) : Marks(j, "Committed", i))

(* While an explicit transaction runs, no checkpoint (CHECKPOINT statement, *)
(* autocommit policy, size threshold) removes or changes its entries: a     *)
(* commit marker would otherwise cover entries that are gone.               *)
ActiveEntriesKept ==
    [][ active # 0 /\ active' = active /\ phase' # "down" =>
          \A i \in 1..Len(log) : log[i].txn = active /\ log[i].ep = epoch =>
              i \in 1..Len(log') /\ log'[i] = log[i] ]_vars

(* DESIGN.md, Write-ahead log: if the process crashes after a mutation is   *)
(* acknowledged, "the WAL replays the statement on restart". Starting an    *)
(* incarnation never removes an entry that recovery owes a replay.          *)
RestartKeepsEntries ==
    [][ epoch' # epoch =>
          \A i \in Replayed : i \in 1..Len(log') /\ log'[i] = log[i] ]_vars

(* Module comment of crates/wal/src/lib.rs: recovery "replays committed     *)
(* entries and discards incomplete ones". An autocommit entry is complete   *)
(* when its statement's commit marker follows.                              *)
IncompleteDiscarded ==
    phase = "down" => \A i \in Replayed : \E j \in i..Len(log) : Marks(j, "Committed", i)

(* Comment of Wal::recover: "Pending and aborted entries are discarded."    *)
(* For explicit transactions, over any number of incarnations.              *)
UncommittedDiscarded ==
    \A i \in Replayed : log[i].txn # 0 =>
        \E j \in i..Len(log) : Marks(j, "Committed", i)

(* Comment of Wal::recover: it "reads all entries from the WAL and returns  *)
(* those belonging to committed transactions".                              *)
CommittedReturned ==
    \A i \in 1..Len(log) :
        (/\ IsPending(i)
         /\ log[i].txn # 0
         /\ \E j \in i..Len(log) : Marks(j, "Committed", i)) => i \in Replayed
=============================================================================
