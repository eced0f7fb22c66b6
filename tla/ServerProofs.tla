---------------------------- MODULE ServerProofs ----------------------------
(***************************************************************************)
(* Proofs about Server for any clients, tables, rows and number of         *)
(* permits: the lock keeps writers alone, no permit is lost, and the       *)
(* servers implement SerialEngine.                                         *)
(***************************************************************************)
EXTENDS Server, FiniteSetTheorems, TLAPS

(* Where a task can be, and what a client has then.                         *)
Places ==
    /\ \A c \in Clients :
         /\ pc[c] \in {"idle", "permit", "lock"} \cup Holding
         /\ pc[c] = "permit" => c \in PgClients
         /\ pc[c] # "idle" => call[c] \in Statement
         /\ pc[c] # "idle" /\ c \in HttpReaders => call[c].op = "select"
    /\ pc[Vacuum] \in {"sleep", "lock", "run", "write", "next"}

(* The background task has a candidate from VacuumNext to VacuumFinish.     *)
Targeted ==
    /\ target # Absent => pc[Vacuum] \in {"lock", "run", "write"}
    /\ pc[Vacuum] = "write" => target # Absent

(* The lock is held by the tasks that run.                                  *)
Held == \A p \in Tasks : p \in holders <=> pc[p] \in Holding

(* A queue holds each task at most once, and only tasks that wait in it.    *)
Queued(q, at) ==
    /\ \A i \in DOMAIN q : pc[q[i]] = at
    /\ \A i, j \in DOMAIN q : q[i] = q[j] => i = j

IInv ==
    /\ TypeOK /\ Places /\ Targeted /\ Held
    /\ Queued(lockQ, "lock") /\ Queued(permitQ, "permit")
    /\ Exclusive

-----------------------------------------------------------------------------
(* Append of a task that is not in the queue keeps its entries distinct.    *)
LEMMA AppendDistinct ==
    ASSUME NEW S, NEW q \in Seq(S), NEW x \in S,
           \A i, j \in DOMAIN q : q[i] = q[j] => i = j,
           \A i \in DOMAIN q : q[i] # x
    PROVE  /\ Append(q, x) \in Seq(S)
           /\ \A i, j \in DOMAIN Append(q, x) : Append(q, x)[i] = Append(q, x)[j] => i = j
           /\ \A i \in DOMAIN Append(q, x) :
                Append(q, x)[i] = x \/ \E j \in DOMAIN q : Append(q, x)[i] = q[j]
<1>1. /\ DOMAIN q = 1..Len(q) /\ Len(q) \in Nat
      /\ Append(q, x) \in Seq(S)
      /\ DOMAIN Append(q, x) = 1..(Len(q) + 1)
      /\ Append(q, x)[Len(q) + 1] = x
      /\ \A i \in 1..Len(q) : Append(q, x)[i] = q[i]
  OBVIOUS
<1>2. \A i \in 1..(Len(q) + 1) : i = Len(q) + 1 \/ i \in 1..Len(q)
  BY <1>1
<1>. QED  BY <1>1, <1>2

(* The head of a queue of distinct tasks is not in its tail.                *)
LEMMA TailDistinct ==
    ASSUME NEW S, NEW q \in Seq(S), q # <<>>,
           \A i, j \in DOMAIN q : q[i] = q[j] => i = j
    PROVE  /\ Head(q) \in S /\ Tail(q) \in Seq(S)
           /\ \E j \in DOMAIN q : Head(q) = q[j]
           /\ \A i, j \in DOMAIN Tail(q) : Tail(q)[i] = Tail(q)[j] => i = j
           /\ \A i \in DOMAIN Tail(q) :
                Tail(q)[i] # Head(q) /\ \E j \in DOMAIN q : Tail(q)[i] = q[j]
<1>1. /\ DOMAIN q = 1..Len(q) /\ Len(q) \in Nat /\ Len(q) > 0
      /\ Head(q) = q[1] /\ Head(q) \in S
      /\ Tail(q) \in Seq(S)
      /\ DOMAIN Tail(q) = 1..(Len(q) - 1)
      /\ \A i \in 1..(Len(q) - 1) : Tail(q)[i] = q[i + 1]
  OBVIOUS
<1>2. 1 \in DOMAIN q /\ \A i \in 1..(Len(q) - 1) : i + 1 \in DOMAIN q /\ i + 1 # 1
  BY <1>1
<1>3. \A i, j \in 1..(Len(q) - 1) : i + 1 = j + 1 => i = j
  BY <1>1
<1>. QED  BY <1>1, <1>2, <1>3

-----------------------------------------------------------------------------
(* SELECT changes nothing.                                                  *)
LEMMA EffectSelect ==
    ASSUME NEW q \in Statement, q.op = "select", NEW seen_, NEW d
    PROVE  Effect(q, seen_, d) = d
BY DEF Effect, Succeeds, OnTable, Transactional, Statement

(* A statement that wrote on what it has read leaves an engine.             *)
LEMMA EffectType ==
    ASSUME NEW q \in Statement, NEW d \in Engines
    PROVE  Effect(q, d.table[q.t], d) \in Engines
<1>. DEFINE now == d.table[q.t]
            e == Effect(q, now, d)
<1>1. /\ q.t \in Tables /\ q.r \in Rows /\ q.op \in OnTable \cup Transactional
      /\ d.table \in [Tables -> Contents] /\ now \in Contents
      /\ d.backup \in [Tables -> Contents] /\ d.saved \in [Tables -> Contents]
      /\ d.txn \in BOOLEAN
      /\ Nothing \in [Tables -> Contents]
  BY DEF Statement, Engines, Nothing, Contents
<1>2. CASE ~Succeeds(q, d)
  BY <1>2 DEF Effect
<1>3. CASE Succeeds(q, d) /\ q.op = "select"
  BY <1>3, EffectSelect
<1>4. CASE Succeeds(q, d) /\ q.op = "insert"
  <2>1. e = [d EXCEPT !.table[q.t] = @ \cup {q.r}]
    BY <1>4 DEF Effect
  <2>2. now # Absent
    BY <1>4 DEF Succeeds, OnTable
  <2>3. now \cup {q.r} \in Contents
    BY <1>1, <2>2 DEF Contents
  <2>4. [d.table EXCEPT ![q.t] = now \cup {q.r}] \in [Tables -> Contents]
    BY <1>1, <2>3 DEF Engines
  <2>5. e = [d EXCEPT !.table = [d.table EXCEPT ![q.t] = now \cup {q.r}]]
    BY <1>1, <2>1 DEF Engines
  <2>. QED  BY <1>1, <2>4, <2>5 DEF Engines
<1>5. ASSUME NEW rows \in Contents PROVE Rewrite(q.t, now, rows, d) \in Engines
  BY <1>1, <1>5 DEF Rewrite, Engines
<1>6. CASE Succeeds(q, d) /\ q.op = "delete"
  <2>1. e = Rewrite(q.t, now, now \ {q.r}, d)
    BY <1>6 DEF Effect
  <2>2. now # Absent
    BY <1>6 DEF Succeeds, OnTable
  <2>3. now \ {q.r} \in Contents
    BY <1>1, <2>2 DEF Contents
  <2>. QED  BY <1>5, <2>1, <2>3
<1>7. CASE Succeeds(q, d) /\ q.op = "vacuum"
  <2>1. e = Rewrite(q.t, now, now, d)
    BY <1>7 DEF Effect
  <2>. QED  BY <1>1, <1>5, <2>1
<1>8. CASE Succeeds(q, d) /\ q.op = "drop"
  <2>1. e = [d EXCEPT !.table[q.t] = Absent]
    BY <1>8 DEF Effect
  <2>. QED  BY <1>1, <2>1 DEF Engines, Contents
<1>9. CASE Succeeds(q, d) /\ q.op = "begin"
  <2>1. e = HandleBegin(d)
    BY <1>9 DEF Effect
  <2>. QED  BY <1>1, <2>1 DEF HandleBegin, Engines
<1>10. CASE Succeeds(q, d) /\ q.op = "commit"
  <2>1. e = HandleCommit(d)
    BY <1>10 DEF Effect
  <2>. QED  BY <1>1, <2>1 DEF HandleCommit, Opened, Engines
<1>11. CASE Succeeds(q, d) /\ q.op = "rollback"
  <2>1. e = HandleRollback(d)
    BY <1>11 DEF Effect
  <2>. QED  BY <1>1, <2>1 DEF HandleRollback, Opened, Engines
<1>. QED
  BY <1>1, <1>2, <1>3, <1>4, <1>6, <1>7, <1>8, <1>9, <1>10, <1>11 DEF OnTable, Transactional

(* The answer of a statement.                                               *)
LEMMA AnswerType ==
    ASSUME NEW q \in Statement, NEW d \in Engines
    PROVE  Answer(q, d.table[q.t], d) \in Answers
<1>1. Succeeds(q, d) \in BOOLEAN
  BY DEF Succeeds, OnTable, Transactional, Statement, Engines
<1>2. d.table[q.t] \in Contents /\ Absent \in Contents
  BY DEF Engines, Statement, Contents
<1>. QED  BY <1>1, <1>2 DEF Answer, Answers

-----------------------------------------------------------------------------
(* The tasks are the clients and the vacuum, and they are all different.    *)
LEMMA TaskFacts ==
    /\ Vacuum \in Tasks /\ Vacuum \notin HttpReaders /\ Vacuum \notin PgClients
    /\ \A c \in Clients : c \in Tasks /\ c # Vacuum
    /\ \A c \in PgClients : c \in Clients /\ c \notin HttpReaders
    /\ \A c \in HttpReaders : c \in Clients
    /\ \A p \in Tasks : p = Vacuum \/ p \in Clients
BY ServerConstants DEF Tasks, Clients

(* The engine is opened with empty tables.                                  *)
LEMMA InitInv == Init => IInv
<1>. SUFFICES ASSUME Init PROVE IInv
  OBVIOUS
<1>. USE TaskFacts DEF Init
<1>1. db \in Engines
  BY DEF Engines, Opened, Nothing, Contents
<1>2. TypeOK
  <2>1. permits \in Nat
    BY ServerConstants
  <2>. QED  BY <1>1, <2>1 DEF TypeOK, PCs, Contents
<1>3. Places /\ Targeted /\ Held
  BY DEF Places, Targeted, Held, Holding
<1>4. Queued(lockQ, "lock") /\ Queued(permitQ, "permit")
  BY DEF Queued
<1>5. Exclusive
  BY DEF Exclusive
<1>. QED  BY <1>2, <1>3, <1>4, <1>5 DEF IInv

(* A connection goes from the semaphore to the lock. *)
LEMMA GrantPermitInv ==
    ASSUME IInv, GrantPermit
    PROVE  IInv'
<1>. USE TaskFacts DEF IInv
<1>. DEFINE p == Head(permitQ)
<1>b. /\ p \in PgClients /\ p \in Clients /\ p \in Tasks /\ pc[p] = "permit"
      /\ permitQ' \in Seq(PgClients)
      /\ \A i, j \in DOMAIN permitQ' : permitQ'[i] = permitQ'[j] => i = j
      /\ \A i \in DOMAIN permitQ' : permitQ'[i] # p /\ pc[permitQ'[i]] = "permit"
  BY TailDistinct DEF GrantPermit, Queued, TypeOK
<1>c. /\ lockQ' \in Seq(Tasks)
      /\ \A i, j \in DOMAIN lockQ' : lockQ'[i] = lockQ'[j] => i = j
      /\ \A i \in DOMAIN lockQ' : lockQ'[i] = p \/ (lockQ'[i] # p /\ pc[lockQ'[i]] = "lock")
  <2>1. \A i \in DOMAIN lockQ : pc[lockQ[i]] = "lock" /\ lockQ[i] # p
    BY <1>b DEF Queued
  <2>. QED  BY <1>b, <2>1, AppendDistinct DEF GrantPermit, Queued, TypeOK
<1>d. pc' = [pc EXCEPT ![p] = "lock"] /\ permits' \in Nat
  BY DEF GrantPermit, TypeOK
<1>1. TypeOK'
  BY <1>b, <1>c, <1>d DEF GrantPermit, clientVars, semVars, lockVars, vacVars, TypeOK, PCs
<1>2. Places' /\ Targeted'
  BY <1>b, <1>c, <1>d DEF GrantPermit, clientVars, semVars, lockVars, vacVars,
     Places, Targeted, TypeOK, Holding
<1>3. Held'
  BY <1>b, <1>c, <1>d DEF GrantPermit, clientVars, semVars, lockVars, vacVars, Held,
     TypeOK, Holding
<1>4. Queued(lockQ, "lock")'
  BY <1>b, <1>c, <1>d DEF GrantPermit, clientVars, semVars, lockVars, vacVars,
     Queued, TypeOK
<1>5. Queued(permitQ, "permit")'
  BY <1>b, <1>c, <1>d DEF GrantPermit, clientVars, semVars, lockVars, vacVars,
     Queued, TypeOK
<1>6. Exclusive'
  BY <1>b, <1>c, <1>d DEF GrantPermit, clientVars, semVars, lockVars, vacVars,
     Exclusive, Shared, Compatible, Held, Holding, TypeOK
<1>. QED  BY <1>1, <1>2, <1>3, <1>4, <1>5, <1>6 DEF IInv

(* The head of the queue gets the lock. *)
LEMMA GrantLockInv ==
    ASSUME IInv, GrantLock
    PROVE  IInv'
<1>. USE TaskFacts DEF IInv
<1>. DEFINE p == Head(lockQ)
<1>b. /\ p \in Tasks /\ pc[p] = "lock"
      /\ lockQ' \in Seq(Tasks)
      /\ \A i, j \in DOMAIN lockQ' : lockQ'[i] = lockQ'[j] => i = j
      /\ \A i \in DOMAIN lockQ' : lockQ'[i] # p /\ pc[lockQ'[i]] = "lock"
  BY TailDistinct DEF GrantLock, Queued, TypeOK
<1>c. \A i \in DOMAIN permitQ : permitQ[i] # p
  BY <1>b DEF Queued
<1>d. pc' = [pc EXCEPT ![p] = "run"] /\ holders' = holders \cup {p}
  BY DEF GrantLock
<1>1. TypeOK'
  BY <1>b, <1>c, <1>d DEF GrantLock, clientVars, semVars, lockVars, vacVars, TypeOK, PCs
<1>2. Places' /\ Targeted'
  BY <1>b, <1>c, <1>d DEF GrantLock, clientVars, semVars, lockVars, vacVars, Places,
     Targeted, TypeOK, Holding
<1>3. Held'
  BY <1>b, <1>c, <1>d DEF GrantLock, clientVars, semVars, lockVars, vacVars, Held,
     TypeOK, Holding
<1>4. Queued(lockQ, "lock")'
  BY <1>b, <1>c, <1>d DEF GrantLock, clientVars, semVars, lockVars, vacVars, Queued, TypeOK
<1>5. Queued(permitQ, "permit")'
  BY <1>b, <1>c, <1>d DEF GrantLock, clientVars, semVars, lockVars, vacVars, Queued, TypeOK
<1>6. Exclusive'
  BY <1>b, <1>c, <1>d DEF GrantLock, clientVars, semVars, lockVars, vacVars,
     Exclusive, Shared, Compatible, Held, Holding, TypeOK
<1>. QED  BY <1>1, <1>2, <1>3, <1>4, <1>5, <1>6 DEF IInv

(* A query joins the queue of the semaphore or of the lock. *)
LEMMA InvokeInv ==
    ASSUME IInv, NEW c \in Clients, NEW q \in Requests, Invoke(c, q)
    PROVE  IInv'
<1>. USE TaskFacts DEF IInv
<1>a. /\ q \in Statement /\ pc[c] = "idle"
      /\ c \in HttpReaders => q.op = "select"
      /\ call' = [call EXCEPT ![c] = q]
      /\ UNCHANGED <<db, answer, seen, permits, holders, vacVars, server>>
      /\ c \in PgClients => /\ pc' = [pc EXCEPT ![c] = "permit"]
                            /\ permitQ' = Append(permitQ, c) /\ lockQ' = lockQ
      /\ c \notin PgClients => /\ pc' = [pc EXCEPT ![c] = "lock"]
                               /\ lockQ' = Append(lockQ, c) /\ permitQ' = permitQ
  BY ServerConstants DEF Invoke
<1>b. /\ \A i \in DOMAIN lockQ : lockQ[i] # c /\ pc[lockQ[i]] = "lock"
      /\ \A i \in DOMAIN permitQ : permitQ[i] # c /\ pc[permitQ[i]] = "permit"
  BY <1>a DEF Queued
<1>c. /\ pc' = [pc EXCEPT ![c] = IF c \in PgClients THEN "permit" ELSE "lock"]
      /\ lockQ' \in Seq(Tasks)
      /\ \A i, j \in DOMAIN lockQ' : lockQ'[i] = lockQ'[j] => i = j
      /\ \A i \in DOMAIN lockQ' :
           (lockQ'[i] = c /\ c \notin PgClients) \/ (lockQ'[i] # c /\ pc[lockQ'[i]] = "lock")
  <2>1. CASE c \in PgClients
    BY <1>a, <1>b, <2>1 DEF Queued, TypeOK
  <2>2. CASE c \notin PgClients
    <3>1. /\ lockQ \in Seq(Tasks) /\ c \in Tasks
          /\ \A i, j \in DOMAIN lockQ : lockQ[i] = lockQ[j] => i = j
          /\ \A i \in DOMAIN lockQ : lockQ[i] # c
      BY <1>b DEF Queued, TypeOK
    <3>2. lockQ' = Append(lockQ, c)
      BY <1>a, <2>2
    <3>. QED  BY <1>a, <1>b, <2>2, <3>1, <3>2, AppendDistinct
  <2>. QED  BY <2>1, <2>2
<1>d. /\ permitQ' \in Seq(PgClients)
      /\ \A i, j \in DOMAIN permitQ' : permitQ'[i] = permitQ'[j] => i = j
      /\ \A i \in DOMAIN permitQ' :
           (permitQ'[i] = c /\ c \in PgClients) \/ (permitQ'[i] # c /\ pc[permitQ'[i]] = "permit")
  <2>1. CASE c \in PgClients
    <3>1. /\ permitQ \in Seq(PgClients)
          /\ \A i, j \in DOMAIN permitQ : permitQ[i] = permitQ[j] => i = j
          /\ \A i \in DOMAIN permitQ : permitQ[i] # c
      BY <1>b DEF Queued, TypeOK
    <3>2. permitQ' = Append(permitQ, c)
      BY <1>a, <2>1
    <3>. QED  BY <1>b, <2>1, <3>1, <3>2, AppendDistinct
  <2>2. CASE c \notin PgClients
    BY <1>a, <1>b, <2>2 DEF Queued, TypeOK
  <2>. QED  BY <2>1, <2>2
<1>1. TypeOK'
  BY <1>a, <1>b, <1>c, <1>d DEF vacVars, TypeOK, PCs
<1>2. Places' /\ Targeted'
  BY <1>a, <1>b, <1>c, <1>d DEF vacVars, Places, Targeted, TypeOK, Holding
<1>3. Held'
  BY <1>a, <1>b, <1>c, <1>d DEF vacVars, Held, TypeOK, Holding
<1>4. Queued(lockQ, "lock")'
  BY <1>a, <1>b, <1>c, <1>d DEF vacVars, Queued, TypeOK
<1>5. Queued(permitQ, "permit")'
  BY <1>a, <1>b, <1>c, <1>d DEF vacVars, Queued, TypeOK
<1>6. Exclusive'
  BY <1>a, <1>b, <1>c, <1>d DEF vacVars, Exclusive, Shared, Compatible, Held,
     Holding, TypeOK
<1>. QED  BY <1>1, <1>2, <1>3, <1>4, <1>5, <1>6 DEF IInv

(* A statement reads. *)
LEMMA StartInv ==
    ASSUME IInv, NEW c \in Clients, Start(c)
    PROVE  IInv'
<1>. USE TaskFacts DEF IInv
<1>a. /\ c \in holders /\ call[c] \in Statement
      /\ db.table[call[c].t] \in Contents
  BY DEF Start, Held, Holding, Places, TypeOK, Engines, Statement
<1>1. TypeOK'
  BY <1>a DEF Start, clientVars, semVars, lockVars, vacVars, TypeOK, PCs
<1>2. Places' /\ Targeted'
  BY <1>a DEF Start, clientVars, semVars, lockVars, vacVars, Places, Targeted,
     TypeOK, Holding
<1>3. Held'
  BY <1>a DEF Start, clientVars, semVars, lockVars, vacVars, Held, TypeOK, Holding
<1>4. Queued(lockQ, "lock")'
  BY <1>a DEF Start, clientVars, semVars, lockVars, vacVars, Queued, TypeOK
<1>5. Queued(permitQ, "permit")'
  BY <1>a DEF Start, clientVars, semVars, lockVars, vacVars, Queued, TypeOK
<1>6. Exclusive'
  BY <1>a DEF Start, clientVars, semVars, lockVars, vacVars, Exclusive, Shared,
     Compatible, Held, Holding, TypeOK
<1>. QED  BY <1>1, <1>2, <1>3, <1>4, <1>5, <1>6 DEF IInv

(* A statement writes and is answered; a reader changes nothing. *)
LEMMA FinishInv ==
    ASSUME IInv, NEW c \in Clients, Finish(c)
    PROVE  IInv'
<1>. USE TaskFacts DEF IInv
<1>a. /\ c \in holders /\ call[c] \in Statement /\ pc[c] = "write"
      /\ seen[c] = db.table[call[c].t]
  BY DEF Finish, Held, Holding, Places, Exclusive
<1>b. db' \in Engines /\ answer'[c] \in Answers /\ Absent \in Contents
  BY <1>a, EffectType, AnswerType DEF Finish, TypeOK, Contents
<1>c. /\ pc' = [pc EXCEPT ![c] = "done"] /\ seen' = [seen EXCEPT ![c] = Absent]
      /\ UNCHANGED <<call, semVars, lockVars, vacVars, server>>
      /\ answer' \in [Clients -> Answers \cup {Absent}]
  BY <1>b DEF Finish, TypeOK
<1>d. db' = db \/ \A p \in holders : p = c
  <2>1. CASE c \in HttpReaders
    BY <1>a, <2>1, EffectSelect DEF Finish, Places
  <2>2. CASE c \notin HttpReaders
    BY <1>a, <2>2 DEF Exclusive, Shared
  <2>. QED  BY <2>1, <2>2
<1>1. TypeOK'
  BY <1>a, <1>b, <1>c, <1>d DEF semVars, lockVars, vacVars, TypeOK, PCs
<1>2. Places' /\ Targeted'
  BY <1>a, <1>b, <1>c, <1>d DEF semVars, lockVars, vacVars, Places, Targeted, TypeOK,
     Holding
<1>3. Held'
  BY <1>a, <1>b, <1>c, <1>d DEF semVars, lockVars, vacVars, Held, TypeOK, Holding
<1>4. Queued(lockQ, "lock")'
  BY <1>a, <1>b, <1>c, <1>d DEF semVars, lockVars, vacVars, Queued, TypeOK
<1>5. Queued(permitQ, "permit")'
  BY <1>a, <1>b, <1>c, <1>d DEF semVars, lockVars, vacVars, Queued, TypeOK
<1>6. Exclusive'
  BY <1>a, <1>b, <1>c, <1>d DEF semVars, lockVars, vacVars, Exclusive, Shared,
     Compatible, Held, Holding, TypeOK
<1>. QED  BY <1>1, <1>2, <1>3, <1>4, <1>5, <1>6 DEF IInv

(* The guards go out of scope. *)
LEMMA RespondInv ==
    ASSUME IInv, NEW c \in Clients, Respond(c)
    PROVE  IInv'
<1>. USE TaskFacts DEF IInv
<1>1. TypeOK'
  BY ServerConstants DEF Respond, clientVars, semVars, lockVars, vacVars, TypeOK, PCs
<1>2. Places' /\ Targeted'
  BY ServerConstants DEF Respond, clientVars, semVars, lockVars, vacVars, Places,
     Targeted, TypeOK, Holding
<1>3. Held'
  BY ServerConstants DEF Respond, clientVars, semVars, lockVars, vacVars, Held,
     TypeOK, Holding
<1>4. Queued(lockQ, "lock")'
  BY ServerConstants DEF Respond, clientVars, semVars, lockVars, vacVars, Queued, TypeOK
<1>5. Queued(permitQ, "permit")'
  BY ServerConstants DEF Respond, clientVars, semVars, lockVars, vacVars, Queued, TypeOK
<1>6. Exclusive'
  BY ServerConstants DEF Respond, clientVars, semVars, lockVars, vacVars, Exclusive,
     Shared, Compatible, Held, Holding, TypeOK
<1>. QED  BY <1>1, <1>2, <1>3, <1>4, <1>5, <1>6 DEF IInv

(* The background task asks for a read lock ... *)
LEMMA VacuumWakeInv ==
    ASSUME IInv, VacuumWake
    PROVE  IInv'
<1>. USE TaskFacts DEF IInv
<1>b. /\ \A i \in DOMAIN lockQ : lockQ[i] # Vacuum /\ pc[lockQ[i]] = "lock"
      /\ \A i \in DOMAIN permitQ : permitQ[i] # Vacuum /\ pc[permitQ[i]] = "permit"
  BY DEF Queued, VacuumWake
<1>c. /\ pc' = [pc EXCEPT ![Vacuum] = "lock"]
      /\ lockQ' \in Seq(Tasks)
      /\ \A i, j \in DOMAIN lockQ' : lockQ'[i] = lockQ'[j] => i = j
      /\ \A i \in DOMAIN lockQ' :
           lockQ'[i] = Vacuum \/ (lockQ'[i] # Vacuum /\ pc[lockQ'[i]] = "lock")
  BY <1>b, AppendDistinct DEF VacuumWake, AwaitLock, Queued, TypeOK
<1>1. TypeOK'
  BY <1>b, <1>c DEF VacuumWake, clientVars, semVars, lockVars, vacVars, TypeOK, PCs
<1>2. Places' /\ Targeted'
  BY <1>b, <1>c DEF VacuumWake, clientVars, semVars, lockVars, vacVars, Places,
     Targeted, TypeOK, Holding
<1>3. Held'
  BY <1>b, <1>c DEF VacuumWake, clientVars, semVars, lockVars, vacVars, Held, TypeOK,
     Holding
<1>4. Queued(lockQ, "lock")'
  BY <1>b, <1>c DEF VacuumWake, clientVars, semVars, lockVars, vacVars, Queued, TypeOK
<1>5. Queued(permitQ, "permit")'
  BY <1>b, <1>c DEF VacuumWake, clientVars, semVars, lockVars, vacVars, Queued, TypeOK
<1>6. Exclusive'
  BY <1>b, <1>c DEF VacuumWake, clientVars, semVars, lockVars, vacVars, Exclusive,
     Shared, Compatible, Held, Holding, TypeOK
<1>. QED  BY <1>1, <1>2, <1>3, <1>4, <1>5, <1>6 DEF IInv

(* ... finds candidates and lets the lock go ... *)
LEMMA VacuumScanInv ==
    ASSUME IInv, VacuumScan
    PROVE  IInv'
<1>. USE TaskFacts DEF IInv
<1>1. TypeOK'
  BY TaskFacts DEF VacuumScan, clientVars, semVars, lockVars, vacVars, TypeOK, PCs
<1>2. Places' /\ Targeted'
  BY TaskFacts DEF VacuumScan, clientVars, semVars, lockVars, vacVars, Places,
     Targeted, TypeOK, Holding
<1>3. Held'
  BY TaskFacts DEF VacuumScan, clientVars, semVars, lockVars, vacVars, Held, TypeOK, Holding
<1>4. Queued(lockQ, "lock")'
  BY TaskFacts DEF VacuumScan, clientVars, semVars, lockVars, vacVars, Queued, TypeOK
<1>5. Queued(permitQ, "permit")'
  BY TaskFacts DEF VacuumScan, clientVars, semVars, lockVars, vacVars, Queued, TypeOK
<1>6. Exclusive'
  BY TaskFacts DEF VacuumScan, clientVars, semVars, lockVars, vacVars, Exclusive,
     Shared, Compatible, Held, Holding, TypeOK
<1>. QED  BY <1>1, <1>2, <1>3, <1>4, <1>5, <1>6 DEF IInv

(* ... asks for the write lock for one of them ... *)
LEMMA VacuumNextInv ==
    ASSUME IInv, NEW t \in Tables, VacuumNext(t)
    PROVE  IInv'
<1>. USE TaskFacts DEF IInv
<1>a. pc[Vacuum] = "next" /\ Vacuum \notin holders /\ t # Absent
  BY StatementConstants DEF VacuumNext, Held, Holding
<1>b. /\ \A i \in DOMAIN lockQ : lockQ[i] # Vacuum /\ pc[lockQ[i]] = "lock"
      /\ \A i \in DOMAIN permitQ : permitQ[i] # Vacuum /\ pc[permitQ[i]] = "permit"
  BY <1>a DEF Queued
<1>c. /\ pc' = [pc EXCEPT ![Vacuum] = "lock"]
      /\ lockQ' \in Seq(Tasks)
      /\ \A i, j \in DOMAIN lockQ' : lockQ'[i] = lockQ'[j] => i = j
      /\ \A i \in DOMAIN lockQ' :
           lockQ'[i] = Vacuum \/ (lockQ'[i] # Vacuum /\ pc[lockQ'[i]] = "lock")
  BY <1>b, AppendDistinct DEF VacuumNext, AwaitLock, Queued, TypeOK
<1>1. TypeOK'
  BY <1>a, <1>b, <1>c DEF VacuumNext, clientVars, semVars, lockVars, vacVars, TypeOK, PCs
<1>2. Places' /\ Targeted'
  BY <1>a, <1>b, <1>c DEF VacuumNext, clientVars, semVars, lockVars, vacVars, Places,
     Targeted, TypeOK, Holding
<1>3. Held'
  BY <1>a, <1>b, <1>c DEF VacuumNext, clientVars, semVars, lockVars, vacVars, Held,
     TypeOK, Holding
<1>4. Queued(lockQ, "lock")'
  BY <1>a, <1>b, <1>c DEF VacuumNext, clientVars, semVars, lockVars, vacVars, Queued, TypeOK
<1>5. Queued(permitQ, "permit")'
  BY <1>a, <1>b, <1>c DEF VacuumNext, clientVars, semVars, lockVars, vacVars, Queued, TypeOK
<1>6. Exclusive'
  BY <1>a, <1>b, <1>c DEF VacuumNext, clientVars, semVars, lockVars, vacVars,
     Exclusive, Shared, Compatible, Held, Holding, TypeOK
<1>. QED  BY <1>1, <1>2, <1>3, <1>4, <1>5, <1>6 DEF IInv

(* ... and sleeps when none is left. *)
LEMMA VacuumRestInv ==
    ASSUME IInv, VacuumRest
    PROVE  IInv'
<1>. USE TaskFacts DEF IInv
<1>1. TypeOK'
  BY TaskFacts DEF VacuumRest, clientVars, semVars, lockVars, vacVars, TypeOK, PCs
<1>2. Places' /\ Targeted'
  BY TaskFacts DEF VacuumRest, clientVars, semVars, lockVars, vacVars, Places,
     Targeted, TypeOK, Holding
<1>3. Held'
  BY TaskFacts DEF VacuumRest, clientVars, semVars, lockVars, vacVars, Held, TypeOK, Holding
<1>4. Queued(lockQ, "lock")'
  BY TaskFacts DEF VacuumRest, clientVars, semVars, lockVars, vacVars, Queued, TypeOK
<1>5. Queued(permitQ, "permit")'
  BY TaskFacts DEF VacuumRest, clientVars, semVars, lockVars, vacVars, Queued, TypeOK
<1>6. Exclusive'
  BY TaskFacts DEF VacuumRest, clientVars, semVars, lockVars, vacVars, Exclusive,
     Shared, Compatible, Held, Holding, TypeOK
<1>. QED  BY <1>1, <1>2, <1>3, <1>4, <1>5, <1>6 DEF IInv

(* VACUUM reads its table ... *)
LEMMA VacuumStartInv ==
    ASSUME IInv, VacuumStart
    PROVE  IInv'
<1>. USE TaskFacts DEF IInv
<1>a. /\ Vacuum \in holders /\ target \in Tables
      /\ db.table[target] \in Contents
  BY DEF VacuumStart, Held, Holding, TypeOK, Engines
<1>1. TypeOK'
  BY <1>a DEF VacuumStart, clientVars, semVars, lockVars, vacVars, TypeOK, PCs
<1>2. Places' /\ Targeted'
  BY <1>a DEF VacuumStart, clientVars, semVars, lockVars, vacVars, Places, Targeted,
     TypeOK, Holding
<1>3. Held'
  BY <1>a DEF VacuumStart, clientVars, semVars, lockVars, vacVars, Held, TypeOK, Holding
<1>4. Queued(lockQ, "lock")'
  BY <1>a DEF VacuumStart, clientVars, semVars, lockVars, vacVars, Queued, TypeOK
<1>5. Queued(permitQ, "permit")'
  BY <1>a DEF VacuumStart, clientVars, semVars, lockVars, vacVars, Queued, TypeOK
<1>6. Exclusive'
  BY <1>a DEF VacuumStart, clientVars, semVars, lockVars, vacVars, Exclusive, Shared,
     Compatible, Held, Holding, TypeOK
<1>. QED  BY <1>1, <1>2, <1>3, <1>4, <1>5, <1>6 DEF IInv

(* ... and writes it back. *)
LEMMA VacuumFinishInv ==
    ASSUME IInv, VacuumFinish
    PROVE  IInv'
<1>. USE TaskFacts DEF IInv
<1>a. /\ Vacuum \in holders /\ target # Absent /\ target \in Tables /\ pc[Vacuum] = "write"
      /\ seen[Vacuum] = db.table[target]
  BY DEF VacuumFinish, Held, Holding, Targeted, Exclusive, TypeOK
<1>b. VacuumOf(target) \in Statement /\ VacuumOf(target).t = target
  BY <1>a, StatementConstants DEF VacuumOf, Statement, OnTable
<1>c. db' \in Engines /\ Absent \in Contents
  BY <1>a, <1>b, EffectType DEF VacuumFinish, TypeOK, Contents
<1>d. \A p \in holders : p = Vacuum
  BY <1>a DEF Exclusive, Shared
<1>e. /\ pc' = [pc EXCEPT ![Vacuum] = "next"] /\ seen' = [seen EXCEPT ![Vacuum] = Absent]
      /\ holders' = holders \ {Vacuum} /\ target' = Absent
      /\ UNCHANGED <<clientVars, semVars, lockQ, todo, server>>
  BY DEF VacuumFinish
<1>1. TypeOK'
  BY <1>a, <1>c, <1>d, <1>e DEF clientVars, semVars, lockVars, vacVars, TypeOK, PCs
<1>2. Places' /\ Targeted'
  BY <1>a, <1>c, <1>d, <1>e DEF clientVars, semVars, lockVars, vacVars, Places,
     Targeted, TypeOK, Holding
<1>3. Held'
  BY <1>a, <1>c, <1>d, <1>e DEF clientVars, semVars, lockVars, vacVars, Held, TypeOK,
     Holding
<1>4. Queued(lockQ, "lock")'
  BY <1>a, <1>c, <1>d, <1>e DEF clientVars, semVars, lockVars, vacVars, Queued, TypeOK
<1>5. Queued(permitQ, "permit")'
  BY <1>a, <1>c, <1>d, <1>e DEF clientVars, semVars, lockVars, vacVars, Queued, TypeOK
<1>6. Exclusive'
  BY <1>a, <1>c, <1>d, <1>e DEF clientVars, semVars, lockVars, vacVars, Exclusive,
     Shared, Compatible, Held, Holding, TypeOK
<1>. QED  BY <1>1, <1>2, <1>3, <1>4, <1>5, <1>6 DEF IInv

-----------------------------------------------------------------------------
(* Every step keeps the inductive invariant.                                *)
LEMMA NextInv == IInv /\ [Next]_vars => IInv'
<1>. SUFFICES ASSUME IInv, [Next]_vars PROVE IInv'
  OBVIOUS
<1>1. CASE UNCHANGED vars
  BY <1>1 DEF vars, clientVars, semVars, lockVars, vacVars, IInv, TypeOK, Places, Targeted,
              Held, Queued, Exclusive, Shared
<1>2. CASE GrantPermit \/ GrantLock
  BY <1>2, GrantPermitInv, GrantLockInv
<1>3. CASE \E c \in Clients, q \in Requests : Invoke(c, q)
  BY <1>3, InvokeInv
<1>4. CASE \E c \in Clients : ClientStep(c)
  BY <1>4, StartInv, FinishInv, RespondInv DEF ClientStep
<1>5. CASE VacuumWake \/ VacuumStep
  BY <1>5, VacuumWakeInv, VacuumScanInv, VacuumNextInv, VacuumRestInv, VacuumStartInv,
     VacuumFinishInv DEF VacuumStep
<1>. QED  BY <1>1, <1>2, <1>3, <1>4, <1>5 DEF Next

(* The inductive invariant holds in every behaviour of the servers.         *)
THEOREM InductiveInvariant == Spec => []IInv
<1>. QED  BY InitInv, NextInv, PTL DEF Spec

(* The tasks, the lock, the semaphore and the engine keep their types: in   *)
(* particular a permit is only given when there is one.                     *)
THEOREM TypeCorrect == Spec => []TypeOK
<1>1. IInv => TypeOK
  BY DEF IInv
<1>. QED  BY <1>1, InductiveInvariant, PTL

(* A task that writes is alone with the engine, and what it has read is     *)
(* still there: the RwLock of crates/server/src/lib.rs covers the whole     *)
(* statement, and the vacuum's second lock covers its own.                  *)
THEOREM WritersAlone == Spec => []Exclusive
<1>1. IInv => Exclusive
  BY DEF IInv
<1>. QED  BY <1>1, InductiveInvariant, PTL

-----------------------------------------------------------------------------
(* The connections that hold a permit are finitely many.                    *)
LEMMA AdmittedFinite == IsFiniteSet(Admitted)
<1>1. Admitted \subseteq PgClients
  BY DEF Admitted
<1>. QED  BY <1>1, ServerConstants, FS_Subset

(* A step hands a permit from the semaphore to a connection, or back.       *)
LEMMA PermitsStep ==
    ASSUME IInv, PermitsExact, [Next]_vars
    PROVE  PermitsExact'
<1>. USE TaskFacts, AdmittedFinite
<1>1. /\ Cardinality(Admitted) \in Nat /\ permits \in Nat /\ Permits \in Nat
      /\ permits + Cardinality(Admitted) = Permits
      /\ pc \in [Tasks -> PCs]
  BY ServerConstants, FS_CardinalityType DEF PermitsExact, IInv, TypeOK
<1>2. ASSUME permits' = permits, Admitted' = Admitted PROVE PermitsExact'
  BY <1>1, <1>2 DEF PermitsExact
<1>3. CASE UNCHANGED vars
  <2>1. permits' = permits /\ Admitted' = Admitted
    BY <1>3 DEF vars, semVars, Admitted
  <2>. QED  BY <1>2, <2>1
<1>4. CASE GrantPermit
  <2>. DEFINE p == Head(permitQ)
  <2>1. p \in PgClients /\ pc[p] = "permit"
    BY <1>4, TailDistinct DEF GrantPermit, IInv, Queued, TypeOK
  <2>2. Admitted' = Admitted \cup {p} /\ p \notin Admitted
    BY <1>1, <1>4, <2>1 DEF GrantPermit, Admitted, Holding
  <2>3. Cardinality(Admitted') = Cardinality(Admitted) + 1
    BY <2>2, FS_AddElement
  <2>4. permits' = permits - 1
    BY <1>4 DEF GrantPermit
  <2>. QED  BY <1>1, <2>3, <2>4 DEF PermitsExact
<1>5. CASE GrantLock
  <2>. DEFINE p == Head(lockQ)
  <2>1. p \in Tasks /\ pc[p] = "lock"
    BY <1>5, TailDistinct DEF GrantLock, IInv, Queued, TypeOK
  <2>2. permits' = permits /\ Admitted' = Admitted
    BY <1>1, <1>5, <2>1 DEF GrantLock, semVars, Admitted, Holding
  <2>. QED  BY <1>2, <2>2
<1>6. ASSUME NEW c \in Clients, NEW q \in Requests, Invoke(c, q) PROVE PermitsExact'
  <2>1. permits' = permits /\ Admitted' = Admitted
    BY <1>1, <1>6 DEF Invoke, Admitted, Holding
  <2>. QED  BY <1>2, <2>1
<1>7. ASSUME NEW c \in Clients, Start(c) \/ Finish(c) PROVE PermitsExact'
  <2>1. permits' = permits /\ Admitted' = Admitted
    BY <1>1, <1>7 DEF Start, Finish, semVars, Admitted, Holding
  <2>. QED  BY <1>2, <2>1
<1>8. ASSUME NEW c \in Clients, Respond(c) PROVE PermitsExact'
  <2>1. CASE c \in PgClients
    <3>1. Admitted' = Admitted \ {c} /\ c \in Admitted
      BY <1>1, <1>8, <2>1 DEF Respond, Admitted, Holding
    <3>2. Cardinality(Admitted') = Cardinality(Admitted) - 1
      BY <3>1, FS_RemoveElement
    <3>3. permits' = permits + 1
      BY <1>8, <2>1 DEF Respond
    <3>. QED  BY <1>1, <3>2, <3>3 DEF PermitsExact
  <2>2. CASE c \notin PgClients
    <3>1. permits' = permits /\ Admitted' = Admitted
      BY <1>1, <1>8, <2>2 DEF Respond, Admitted, Holding
    <3>. QED  BY <1>2, <3>1
  <2>. QED  BY <2>1, <2>2
<1>9. CASE VacuumWake \/ VacuumStep
  <2>1. permits' = permits /\ Admitted' = Admitted
    BY <1>1, <1>9 DEF VacuumWake, VacuumStep, VacuumScan, VacuumNext, VacuumRest,
       VacuumStart,
       VacuumFinish, AwaitLock, semVars, Admitted, Holding
  <2>. QED  BY <1>2, <2>1
<1>. QED
  BY <1>3, <1>4, <1>5, <1>6, <1>7, <1>8, <1>9 DEF Next, ClientStep

(* No permit is lost or made up: _permit of run_query is dropped on every   *)
(* way out.                                                                 *)
THEOREM PermitsConserved == Spec => []PermitsExact
<1>1. Init => PermitsExact
  <2>. SUFFICES ASSUME Init PROVE PermitsExact
    OBVIOUS
  <2>1. Admitted = {}
    BY TaskFacts DEF Init, Admitted, Holding
  <2>2. Cardinality(Admitted) = 0
    BY <2>1, FS_EmptySet
  <2>. QED  BY <2>2, ServerConstants DEF Init, PermitsExact
<1>2. IInv /\ PermitsExact /\ [Next]_vars => PermitsExact'
  BY PermitsStep
<1>. QED  BY <1>1, <1>2, InductiveInvariant, PTL DEF Spec

-----------------------------------------------------------------------------
(* The phases of the clients after a step that moves one client, or none.   *)
LEMMA PhaseStep ==
    ASSUME IInv, NEW c \in Clients, NEW at \in PCs, pc' = [pc EXCEPT ![c] = at]
    PROVE  phase' = [phase EXCEPT ![c] = IF at = "idle" THEN "idle"
                                         ELSE IF at = "done" THEN "executed" ELSE "called"]
BY TaskFacts DEF phase, IInv, TypeOK

LEMMA PhaseKept ==
    ASSUME \A c \in Clients : /\ pc'[c] = "idle" <=> pc[c] = "idle"
                              /\ pc'[c] = "done" <=> pc[c] = "done"
    PROVE  phase' = phase
BY DEF phase

(* Every step of the servers is a step of SerialEngine or changes nothing   *)
(* that its clients can see.                                                *)
LEMMA StepSimulation ==
    ASSUME IInv, [Next]_vars
    PROVE  [Serial!Next]_(Serial!serialVars)
<1>. USE TaskFacts
<1>0. pc \in [Tasks -> PCs]
  BY DEF IInv, TypeOK
<1>1. ASSUME UNCHANGED <<db, call, answer>>, phase' = phase
      PROVE  [Serial!Next]_(Serial!serialVars)
  BY <1>1 DEF Serial!serialVars
<1>2. CASE UNCHANGED vars
  <2>1. UNCHANGED <<db, call, answer>> /\ phase' = phase
    BY <1>2 DEF vars, clientVars, phase
  <2>. QED  BY <1>1, <2>1
<1>3. CASE GrantPermit
  <2>1. Head(permitQ) \in Tasks /\ pc[Head(permitQ)] = "permit"
    BY <1>3, TailDistinct DEF GrantPermit, IInv, Queued, TypeOK
  <2>2. phase' = phase
    BY <1>0, <1>3, <2>1, PhaseKept DEF GrantPermit
  <2>. QED  BY <1>1, <1>3, <2>2 DEF GrantPermit, clientVars
<1>4. CASE GrantLock
  <2>1. Head(lockQ) \in Tasks /\ pc[Head(lockQ)] = "lock"
    BY <1>4, TailDistinct DEF GrantLock, IInv, Queued, TypeOK
  <2>2. phase' = phase
    BY <1>0, <1>4, <2>1, PhaseKept DEF GrantLock
  <2>. QED  BY <1>1, <1>4, <2>2 DEF GrantLock, clientVars
<1>5. ASSUME NEW c \in Clients, NEW q \in Requests, Invoke(c, q)
      PROVE  [Serial!Next]_(Serial!serialVars)
  <2>1. q \in Serial!Statement
    BY ServerConstants DEF Statement, OnTable, Transactional, Serial!Statement,
       Serial!OnTable, Serial!Transactional
  <2>2. /\ phase[c] = "idle" /\ phase' = [phase EXCEPT ![c] = "called"]
        /\ call' = [call EXCEPT ![c] = q] /\ UNCHANGED <<db, answer>>
    <3>1. /\ pc[c] = "idle" /\ call' = [call EXCEPT ![c] = q] /\ UNCHANGED <<db, answer>>
          /\ \E at \in {"permit", "lock"} : pc' = [pc EXCEPT ![c] = at]
      BY <1>5 DEF Invoke
    <3>2. phase' = [phase EXCEPT ![c] = "called"]
      BY <3>1, PhaseStep DEF PCs
    <3>. QED  BY <3>1, <3>2 DEF phase
  <2>3. Serial!Call(c, q)
    BY <2>2 DEF Serial!Call
  <2>. QED  BY <2>1, <2>3 DEF Serial!Next
<1>6. ASSUME NEW c \in Clients, Start(c) PROVE [Serial!Next]_(Serial!serialVars)
  <2>1. phase' = phase
    BY <1>0, <1>6, PhaseKept DEF Start
  <2>. QED  BY <1>1, <1>6, <2>1 DEF Start, clientVars
<1>7. ASSUME NEW c \in Clients, Finish(c) PROVE [Serial!Next]_(Serial!serialVars)
  <2>1. /\ pc[c] = "write" /\ pc' = [pc EXCEPT ![c] = "done"] /\ call' = call
        /\ seen[c] = db.table[call[c].t]
        /\ db' = Effect(call[c], db.table[call[c].t], db)
        /\ answer' = [answer EXCEPT ![c] = Answer(call[c], db.table[call[c].t], db)]
    BY <1>7 DEF Finish, IInv, Exclusive
  <2>2. phase[c] = "called" /\ phase' = [phase EXCEPT ![c] = "executed"]
    <3>1. phase' = [phase EXCEPT ![c] = "executed"]
      BY <2>1, PhaseStep DEF PCs
    <3>. QED  BY <2>1, <3>1 DEF phase
  <2>3. Serial!Execute(c)
    BY <2>1, <2>2 DEF Serial!Execute, Effect, Answer, Succeeds, Rewrite,
       HandleBegin, HandleCommit,
       HandleRollback, Opened, Nothing, OnTable, Transactional, Serial!Effect, Serial!Answer,
       Serial!Succeeds, Serial!Rewrite, Serial!HandleBegin, Serial!HandleCommit,
       Serial!HandleRollback, Serial!Opened, Serial!Nothing, Serial!OnTable, Serial!Transactional
  <2>. QED  BY <2>3 DEF Serial!Next
<1>8. ASSUME NEW c \in Clients, Respond(c) PROVE [Serial!Next]_(Serial!serialVars)
  <2>1. phase[c] = "executed" /\ phase' = [phase EXCEPT ![c] = "idle"]
    <3>1. pc[c] = "done" /\ pc' = [pc EXCEPT ![c] = "idle"]
      BY <1>8 DEF Respond
    <3>2. phase' = [phase EXCEPT ![c] = "idle"]
      BY <3>1, PhaseStep DEF PCs
    <3>. QED  BY <3>1, <3>2 DEF phase
  <2>2. Serial!Return(c)
    BY <1>8, <2>1 DEF Respond, Serial!Return
  <2>. QED  BY <2>2 DEF Serial!Next
<1>9. CASE VacuumFinish
  <2>1. /\ target \in Tables /\ seen[Vacuum] = db.table[target]
        /\ phase' = phase /\ UNCHANGED <<call, answer>>
        /\ db' = Effect(VacuumOf(target), db.table[target], db)
    <3>1. phase' = phase
      BY <1>0, <1>9, PhaseKept DEF VacuumFinish
    <3>. QED  BY <1>9, <3>1 DEF VacuumFinish, clientVars, IInv, Exclusive, Targeted, TypeOK
  <2>2. VacuumOf(target) \in Serial!Statement
    BY <2>1, StatementConstants DEF VacuumOf, Serial!Statement, Serial!OnTable
  <2>3. Serial!Maintain(VacuumOf(target))
    BY <2>1 DEF Serial!Maintain, VacuumOf, Effect, Answer, Succeeds, Rewrite,
       HandleBegin, HandleCommit,
       HandleRollback, Opened, Nothing, OnTable, Transactional, Serial!Effect, Serial!Answer,
       Serial!Succeeds, Serial!Rewrite, Serial!HandleBegin, Serial!HandleCommit,
       Serial!HandleRollback, Serial!Opened, Serial!Nothing, Serial!OnTable, Serial!Transactional
  <2>. QED  BY <2>2, <2>3 DEF Serial!Next
<1>10. CASE VacuumWake \/ VacuumScan \/ (\E t \in Tables : VacuumNext(t)) \/ VacuumRest
            \/ VacuumStart
  <2>1. UNCHANGED <<db, call, answer>>
    BY <1>10 DEF VacuumWake, VacuumScan, VacuumNext, VacuumRest, VacuumStart, clientVars
  <2>2. phase' = phase
    BY <1>0, <1>10, PhaseKept DEF VacuumWake, VacuumScan, VacuumNext, VacuumRest,
       VacuumStart,
       AwaitLock
  <2>. QED  BY <1>1, <2>1, <2>2
<1>. QED
  BY <1>2, <1>3, <1>4, <1>5, <1>6, <1>7, <1>8, <1>9, <1>10 DEF Next, ClientStep, VacuumStep

(* The servers start where SerialEngine may start.                          *)
LEMMA InitSimulation == Init => Serial!Init
<1>. SUFFICES ASSUME Init PROVE Serial!Init
  OBVIOUS
<1>1. phase = [c \in Clients |-> "idle"]
  BY TaskFacts DEF Init, phase
<1>2. db \in {Serial!Opened(files) : files \in [Tables -> Serial!Contents]}
  BY DEF Init, Opened, Nothing, Serial!Opened, Serial!Nothing, Serial!Contents
<1>. QED  BY <1>1, <1>2 DEF Init, Serial!Init

(* The servers implement SerialEngine: every request takes effect at one    *)
(* moment between its call and its answer, whatever the other connections,  *)
(* the HTTP clients and the vacuum do.                                      *)
THEOREM ServerLinearizable == Spec => Linearizable
<1>1. IInv /\ [Next]_vars => [Serial!Next]_(Serial!serialVars)
  BY StepSimulation
<1>. QED  BY <1>1, InitSimulation, InductiveInvariant, PTL DEF Spec, Linearizable, Serial!Spec

=============================================================================
