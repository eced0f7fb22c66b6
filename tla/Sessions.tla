------------------------------ MODULE Sessions ------------------------------
(***************************************************************************)
(* What the client of one connection expects of the server. The engine has *)
(* one transaction for all of them (run_query of crates/server/src/lib.rs  *)
(* passes no session), so who began it is history here, not state.         *)
(***************************************************************************)
EXTENDS Server

VARIABLES
    owner,    \* the client whose BEGIN opened the transaction, or Absent
    kept      \* rows that answered INSERTs of the others put in the tables

(* Statements that take a row away on request.                              *)
Removes(q, x) ==
    \/ q.op = "drop" /\ q.t = x[1]
    \/ q.op = "delete" /\ q.t = x[1] /\ q.r = x[2]

Observe(c) ==
    LET q == call[c]
    IN  IF ~Succeeds(q, db) THEN UNCHANGED <<owner, kept>>
        ELSE /\ owner' = IF q.op = "begin" THEN c
                         ELSE IF q.op \in {"commit", "rollback"} THEN Absent ELSE owner
             /\ kept' = {x \in kept : ~Removes(q, x)}
                          \cup (IF q.op = "insert" /\ c # owner THEN {<<q.t, q.r>>} ELSE {})

SessionInit == Init /\ server = "postgres" /\ owner = Absent /\ kept = {}
SessionNext ==
    \/ \E c \in Clients : Finish(c) /\ Observe(c)
    \/ /\ \/ GrantPermit \/ GrantLock
          \/ \E c \in Clients, q \in Requests : Invoke(c, q)
          \/ \E c \in Clients : Start(c) \/ Respond(c)
          \/ VacuumWake \/ VacuumStep
       /\ UNCHANGED <<owner, kept>>
SessionSpec == SessionInit /\ [][SessionNext]_<<vars, owner, kept>>

(* README.md: "By default every statement auto-commits". A row that a       *)
(* client inserted without BEGIN stays until somebody removes it.           *)
AutoCommits == \A x \in kept : x[2] \in db.table[x[1]]
=============================================================================
