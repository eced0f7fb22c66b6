------------------------------- MODULE Server -------------------------------
(***************************************************************************)
(* The two servers, either of which is alone with one engine:              *)
(* crates/server/src/lib.rs (PostgreSQL connections and the background     *)
(* vacuum) and crates/http/src/lib.rs.                                     *)
(*                                                                         *)
(* Every task awaits a permit, a lock or the engine, and other tasks run   *)
(* meanwhile. The engine is behind one tokio RwLock; a connection also     *)
(* holds a permit of a semaphore while its query waits and runs. A         *)
(* statement reads its table in one step and writes in a later one. The    *)
(* transaction belongs to the engine, not to a connection.                 *)
(***************************************************************************)
EXTENDS Statements, Naturals, Sequences, FiniteSets

CONSTANTS
    PgClients,      \* connections of the PostgreSQL server
    HttpClients,    \* POST /query
    HttpReaders,    \* GET routes and WebSocket polls
    Vacuum,         \* the background task
    Permits,        \* POTATODB_MAX_CONNECTIONS
    Requests        \* bound: the statements clients send

Clients == PgClients \cup HttpClients \cup HttpReaders
Tasks == Clients \cup {Vacuum}

ASSUME ServerConstants ==
    /\ Vacuum \notin Clients
    /\ IsFiniteSet(PgClients)
    /\ PgClients \cap (HttpClients \cup HttpReaders) = {}
    /\ HttpClients \cap HttpReaders = {}
    /\ Permits \in Nat \ {0}
    /\ Requests \subseteq Statement

VARIABLES
    server,     \* which of the two serves: each process has one
    db,         \* PotatoDB
    pc,         \* where each task is
    call,       \* the query of a client, Absent when it has none
    answer,     \* its result
    seen,       \* the contents a running statement has read
    permits,    \* Semaphore: permits left,
    permitQ,    \*   and who waits for one
    holders,    \* RwLock: tasks that hold it,
    lockQ,      \*   and who waits for it
    todo,       \* background vacuum: the other candidates
    target      \*   and the one in work, Absent while it looks for some

clientVars == <<call, answer>>
semVars == <<permits, permitQ>>
lockVars == <<holders, lockQ>>
vacVars == <<todo, target>>
vars == <<server, db, pc, clientVars, seen, semVars, lockVars, vacVars>>

Servers == {"postgres", "http"}
VacuumOf(t) == [op |-> "vacuum", t |-> t, r |-> CHOOSE r \in Rows : TRUE]

Init ==
    /\ server \in Servers
    /\ db = Opened([t \in Tables |-> {}])
    /\ pc = [p \in Tasks |-> IF p = Vacuum THEN "sleep" ELSE "idle"]
    /\ call = [c \in Clients |-> Absent]
    /\ answer = [c \in Clients |-> Absent]
    /\ seen = [p \in Tasks |-> Absent]
    /\ permits = Permits /\ permitQ = <<>>
    /\ holders = {} /\ lockQ = <<>>
    /\ todo = {} /\ target = Absent

-----------------------------------------------------------------------------
(* tokio::sync::Semaphore and RwLock: both hand out in the order of the     *)
(* requests; a read lock excludes writers, a write lock everybody.          *)
Shared(p) == p \in HttpReaders \/ (p = Vacuum /\ target = Absent)

(* Mutant: a write lock is given beside read locks.                         *)
CompatibleAlways(p) == \A h \in holders : Shared(h)
Compatible(p) == IF Shared(p) THEN \A h \in holders : Shared(h) ELSE holders = {}

(* Mutant: the semaphore hands out what it does not have.                   *)
GrantPermitAlways ==
    /\ permitQ # <<>>
    /\ permits' = permits - 1
    /\ permitQ' = Tail(permitQ)
    /\ pc' = [pc EXCEPT ![Head(permitQ)] = "lock"]
    /\ lockQ' = Append(lockQ, Head(permitQ))
    /\ UNCHANGED <<db, clientVars, seen, holders, vacVars, server>>

(* run_query of the PostgreSQL server goes on to db.write().                *)
GrantPermit ==
    /\ permits > 0 /\ permitQ # <<>>
    /\ permits' = permits - 1
    /\ permitQ' = Tail(permitQ)
    /\ pc' = [pc EXCEPT ![Head(permitQ)] = "lock"]
    /\ lockQ' = Append(lockQ, Head(permitQ))
    /\ UNCHANGED <<db, clientVars, seen, holders, vacVars, server>>

GrantLock ==
    /\ lockQ # <<>>
    /\ Compatible(Head(lockQ))
    /\ holders' = holders \cup {Head(lockQ)}
    /\ lockQ' = Tail(lockQ)
    /\ pc' = [pc EXCEPT ![Head(lockQ)] = "run"]
    /\ UNCHANGED <<db, clientVars, seen, semVars, vacVars, server>>

-----------------------------------------------------------------------------
(* A client sends a query: do_query of the PostgreSQL server awaits a       *)
(* permit first, the HTTP routes await the lock.                            *)
Invoke(c, q) ==
    /\ pc[c] = "idle"
    /\ c \in IF server = "postgres" THEN PgClients ELSE HttpClients \cup HttpReaders
    /\ c \in HttpReaders => q.op = "select"
    /\ call' = [call EXCEPT ![c] = q]
    /\ IF c \in PgClients
       THEN /\ pc' = [pc EXCEPT ![c] = "permit"]
            /\ permitQ' = Append(permitQ, c)
            /\ UNCHANGED lockQ
       ELSE /\ pc' = [pc EXCEPT ![c] = "lock"]
            /\ lockQ' = Append(lockQ, c)
            /\ UNCHANGED permitQ
    /\ UNCHANGED <<db, answer, seen, permits, holders, vacVars, server>>

(* execute, execute_readonly: the statement reads,                          *)
Start(c) ==
    /\ pc[c] = "run"
    /\ seen' = [seen EXCEPT ![c] = db.table[call[c].t]]
    /\ pc' = [pc EXCEPT ![c] = "write"]
    /\ UNCHANGED <<db, clientVars, semVars, lockVars, vacVars, server>>

(* Mutant: a statement may be executed again before it is answered.         *)
FinishAgain(c) ==
    /\ pc[c] = "write"
    /\ db' = Effect(call[c], seen[c], db)
    /\ answer' = [answer EXCEPT ![c] = Answer(call[c], seen[c], db)]
    /\ seen' = [seen EXCEPT ![c] = Absent]
    /\ \E next \in {"run", "done"} : pc' = [pc EXCEPT ![c] = next]
    /\ UNCHANGED <<call, semVars, lockVars, vacVars, server>>

(* and later writes.                                                        *)
Finish(c) ==
    /\ pc[c] = "write"
    /\ db' = Effect(call[c], seen[c], db)
    /\ answer' = [answer EXCEPT ![c] = Answer(call[c], seen[c], db)]
    /\ seen' = [seen EXCEPT ![c] = Absent]
    /\ pc' = [pc EXCEPT ![c] = "done"]
    /\ UNCHANGED <<call, semVars, lockVars, vacVars, server>>

(* Mutant: the permit is not given back.                                    *)
RespondKeepsPermit(c) ==
    /\ pc[c] = "done"
    /\ pc' = [pc EXCEPT ![c] = "idle"]
    /\ call' = [call EXCEPT ![c] = Absent]
    /\ answer' = [answer EXCEPT ![c] = Absent]
    /\ holders' = holders \ {c}
    /\ UNCHANGED <<db, seen, semVars, lockQ, vacVars, server>>

(* Mutant: a permit is given back by clients that took none.                *)
RespondFreesAny(c) ==
    /\ pc[c] = "done"
    /\ pc' = [pc EXCEPT ![c] = "idle"]
    /\ call' = [call EXCEPT ![c] = Absent]
    /\ answer' = [answer EXCEPT ![c] = Absent]
    /\ holders' = holders \ {c}
    /\ permits' = permits + 1
    /\ UNCHANGED <<db, seen, permitQ, lockQ, vacVars, server>>

(* The guards go out of scope, lock first, and the answer is sent.          *)
Respond(c) ==
    /\ pc[c] = "done"
    /\ pc' = [pc EXCEPT ![c] = "idle"]
    /\ call' = [call EXCEPT ![c] = Absent]
    /\ answer' = [answer EXCEPT ![c] = Absent]
    /\ holders' = holders \ {c}
    /\ permits' = IF c \in PgClients THEN permits + 1 ELSE permits
    /\ UNCHANGED <<db, seen, permitQ, lockQ, vacVars, server>>

-----------------------------------------------------------------------------
(* The background task: a read lock to score the tables, then a write lock  *)
(* for each candidate, whatever happened to it meanwhile; an error of       *)
(* VACUUM is ignored.                                                       *)
AwaitLock == lockQ' = Append(lockQ, Vacuum) /\ pc' = [pc EXCEPT ![Vacuum] = "lock"]

VacuumWake ==
    /\ server = "postgres"
    /\ pc[Vacuum] = "sleep"
    /\ AwaitLock
    /\ UNCHANGED <<db, clientVars, seen, semVars, holders, vacVars, server>>

VacuumScan ==
    /\ pc[Vacuum] = "run" /\ target = Absent
    /\ todo' \in SUBSET {t \in Tables : db.table[t] # Absent}
    /\ holders' = holders \ {Vacuum}
    /\ pc' = [pc EXCEPT ![Vacuum] = "next"]
    /\ UNCHANGED <<db, clientVars, seen, semVars, lockQ, target, server>>

VacuumNext(t) ==
    /\ pc[Vacuum] = "next" /\ t \in todo
    /\ target' = t
    /\ todo' = todo \ {t}
    /\ AwaitLock
    /\ UNCHANGED <<db, clientVars, seen, semVars, holders, server>>

VacuumRest ==
    /\ pc[Vacuum] = "next" /\ todo = {}
    /\ pc' = [pc EXCEPT ![Vacuum] = "sleep"]
    /\ UNCHANGED <<db, clientVars, seen, semVars, lockVars, vacVars, server>>

VacuumStart ==
    /\ pc[Vacuum] = "run" /\ target # Absent
    /\ seen' = [seen EXCEPT ![Vacuum] = db.table[target]]
    /\ pc' = [pc EXCEPT ![Vacuum] = "write"]
    /\ UNCHANGED <<db, clientVars, semVars, lockVars, vacVars, server>>

VacuumFinish ==
    /\ pc[Vacuum] = "write"
    /\ db' = Effect(VacuumOf(target), seen[Vacuum], db)
    /\ seen' = [seen EXCEPT ![Vacuum] = Absent]
    /\ holders' = holders \ {Vacuum}
    /\ target' = Absent
    /\ pc' = [pc EXCEPT ![Vacuum] = "next"]
    /\ UNCHANGED <<clientVars, semVars, lockQ, todo, server>>

ClientStep(c) == Start(c) \/ Finish(c) \/ Respond(c)
VacuumStep ==
    VacuumScan \/ (\E t \in Tables : VacuumNext(t)) \/ VacuumRest \/ VacuumStart \/ VacuumFinish

Next ==
    \/ GrantPermit \/ GrantLock
    \/ \E c \in Clients, q \in Requests : Invoke(c, q)
    \/ \E c \in Clients : ClientStep(c)
    \/ VacuumWake \/ VacuumStep

Spec == Init /\ [][Next]_vars

(* A woken task is polled again, and statements end: every step but the     *)
(* sending of a query and the timer of the vacuum.                          *)
FairSpec ==
    /\ Spec
    /\ WF_vars(GrantPermit) /\ WF_vars(GrantLock) /\ WF_vars(VacuumStep)
    /\ \A c \in Clients : WF_vars(ClientStep(c))

-----------------------------------------------------------------------------
Waiting(q) == {q[i] : i \in DOMAIN q}
PCs == {"idle", "permit", "lock", "run", "write", "done", "sleep", "next"}
Holding == {"run", "write", "done"}

(* Type invariant of the tasks, the lock, the semaphore and the engine.     *)
TypeOK ==
    /\ server \in Servers
    /\ db \in Engines
    /\ pc \in [Tasks -> PCs]
    /\ call \in [Clients -> Statement \cup {Absent}]
    /\ answer \in [Clients -> Answers \cup {Absent}]
    /\ seen \in [Tasks -> Contents]
    /\ permits \in Nat /\ permitQ \in Seq(PgClients)
    /\ holders \in SUBSET Tasks /\ lockQ \in Seq(Tasks)
    /\ todo \in SUBSET Tables /\ target \in Tables \cup {Absent}

(* A task that may write is alone with the engine, and what its statement   *)
(* has read is still what the table holds when it writes: no other client,  *)
(* and no background vacuum, changed it in between.                         *)
Exclusive ==
    /\ \A p, o \in holders : p # o => Shared(p) /\ Shared(o)
    /\ \A c \in Clients : pc[c] = "write" => seen[c] = db.table[call[c].t]
    /\ pc[Vacuum] = "write" => seen[Vacuum] = db.table[target]

(* No permit is lost or made up: those that are left and those of the       *)
(* connections whose query waits for the lock or runs are always            *)
(* POTATODB_MAX_CONNECTIONS together.                                       *)
Admitted == {c \in PgClients : pc[c] \in {"lock"} \cup Holding}
PermitsExact == permits + Cardinality(Admitted) = Permits

(* What the servers promise: the requests of all clients, and the vacuum,   *)
(* take effect one at a time.                                               *)
phase == [c \in Clients |->
            IF pc[c] = "idle" THEN "idle" ELSE IF pc[c] = "done" THEN "executed" ELSE "called"]
Serial == INSTANCE SerialEngine
            WITH Clients <- Clients, db <- db, phase <- phase, call <- call, answer <- answer
Linearizable == Serial!Spec

(* Every query is answered and every round of the vacuum ends, however the  *)
(* others keep the server busy: nobody waits for ever for a permit or for   *)
(* the lock.                                                                *)
Answered ==
    /\ \A c \in Clients : pc[c] # "idle" ~> pc[c] = "idle"
    /\ pc[Vacuum] # "sleep" ~> pc[Vacuum] = "sleep"
=============================================================================
