---------------------------- MODULE SerialEngine ----------------------------
(***************************************************************************)
(* What a server promises its clients: every request takes effect at one   *)
(* moment between its call and its answer, one request at a time.          *)
(* Maintenance the server does on its own is a request of nobody.          *)
(***************************************************************************)
EXTENDS Statements

CONSTANTS Clients

VARIABLES
    db,       \* the engine
    phase,    \* where the request of each client is
    call,     \* the request, Absent when there is none
    answer    \* and its answer

serialVars == <<db, phase, call, answer>>

Init ==
    /\ db \in {Opened(files) : files \in [Tables -> Contents]}
    /\ phase = [c \in Clients |-> "idle"]
    /\ call = [c \in Clients |-> Absent]
    /\ answer = [c \in Clients |-> Absent]

Call(c, q) ==
    /\ phase[c] = "idle"
    /\ phase' = [phase EXCEPT ![c] = "called"]
    /\ call' = [call EXCEPT ![c] = q]
    /\ UNCHANGED <<db, answer>>

Execute(c) ==
    /\ phase[c] = "called"
    /\ phase' = [phase EXCEPT ![c] = "executed"]
    /\ db' = Effect(call[c], db.table[call[c].t], db)
    /\ answer' = [answer EXCEPT ![c] = Answer(call[c], db.table[call[c].t], db)]
    /\ UNCHANGED call

Return(c) ==
    /\ phase[c] = "executed"
    /\ phase' = [phase EXCEPT ![c] = "idle"]
    /\ call' = [call EXCEPT ![c] = Absent]
    /\ answer' = [answer EXCEPT ![c] = Absent]
    /\ UNCHANGED db

Maintain(q) ==
    /\ q.op = "vacuum"
    /\ db' = Effect(q, db.table[q.t], db)
    /\ UNCHANGED <<phase, call, answer>>

Next ==
    \/ \E c \in Clients, q \in Statement : Call(c, q)
    \/ \E c \in Clients : Execute(c) \/ Return(c)
    \/ \E q \in Statement : Maintain(q)

Spec == Init /\ [][Next]_serialVars
=============================================================================
