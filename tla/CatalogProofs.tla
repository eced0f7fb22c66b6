--------------------------- MODULE CatalogProofs ---------------------------
(***************************************************************************)
(* Theorems about Catalog, for every set of objects, scope and bound.      *)
(***************************************************************************)
EXTENDS Catalog, FiniteSetTheorems, SequenceTheorems, WellFoundedInduction, TLAPS

-----------------------------------------------------------------------------
(* Least and greatest elements.                                             *)
LEMMA LeastExists ==
    ASSUME NEW S \in SUBSET Nat, S # {}
    PROVE  \E x \in S : \A y \in S : x <= y
  <1>1. PICK x \in S : \A y \in S : <<y, x>> \notin OpToRel(<, Nat)
    BY NatLessThanWellFounded, WFMin
  <1>2. ASSUME NEW y \in S PROVE x <= y
    <2>1. x \in Nat /\ y \in Nat
      OBVIOUS
    <2>2. y < x => <<y, x>> \in OpToRel(<, Nat)
      BY <2>1 DEF OpToRel
    <2>3. ~(y < x)
      BY <1>1, <2>2, Zenon
    <2> QED
      BY <2>1, <2>3
  <1> QED
    BY <1>2

LEMMA GreatestExists ==
    ASSUME NEW n \in Nat, NEW S \in SUBSET (1..n), S # {}
    PROVE  \E x \in S : \A y \in S : y <= x
  <1> DEFINE D == {n - i : i \in S}
  <1>1. D \in SUBSET Nat /\ D # {}
    <2>1. \A i \in S : n - i \in Nat
      OBVIOUS
    <2> QED
      BY <2>1
  <1>2. PICK m \in D : \A k \in D : m <= k
    <2> HIDE DEF D
    <2> QED
      BY <1>1, LeastExists
  <1>3. PICK x \in S : m = n - x
    OBVIOUS
  <1>4. ASSUME NEW y \in S PROVE y <= x
    <2>1. m <= n - y
      BY <1>2
    <2> QED
      BY <1>3, <2>1
  <1> QED
    BY <1>4

-----------------------------------------------------------------------------
(* What a statement does to a catalog.                                      *)

(* The names that statements other than those of MIGRATE may use.           *)
Named == Tables \cup Indexes \cup Columns \cup Seqs \cup MatViews \cup Functions \cup Unlogged

LEMMA Kinds ==
    /\ Named \subseteq Objects
    /\ \A v \in Versions : MigTable[v] \in Objects /\ MigTable[v] \notin Named
    /\ \A o \in Objects : Dependents(o) \subseteq Indexes \cup Columns
  BY CatalogConstants, DistinctObjects DEF Named, Objects, Dependents

(* d is a catalog that the statement leaves, in memory, of c.               *)
Runs(op, o, c, replaying, d) ==
    /\ c \in CatalogState /\ op \in {"create", "drop"} /\ o \in Objects
    /\ Succeeds(op, o, c, replaying)
    /\ d \in Apply(op, o, c, replaying)

LEMMA ApplyCases ==
    ASSUME NEW op, NEW o, NEW c, NEW replaying, NEW d, Runs(op, o, c, replaying, d)
    PROVE  \/ op = "create" /\ o \in Indexes /\ d = AddIndex(o, c)
           \/ op = "create" /\ o \in Seqs \ Indexes /\ d = AddSequence(o, c, replaying)
           \/ op = "create" /\ o \notin Indexes \cup Seqs /\ d = [c EXCEPT !.objs = @ \cup {o}]
           \/ op = "drop" /\ o \in Indexes /\ d \in DropIndex(o, c)
           \/ op = "drop" /\ o \in Tables \ Indexes /\ d = RemoveTable(o, c)
           \/ op = "drop" /\ o \notin Indexes \cup Tables /\ d = [c EXCEPT !.objs = @ \ {o}]
  <1>1. Indexes \cap (Tables \cup Seqs) = {}
    BY DistinctObjects
  <1>2. d \in Apply(op, o, c, replaying) /\ op \in {"create", "drop"}
    BY DEF Runs
  <1>3. CASE op = "create" /\ o \in Indexes
    BY <1>1, <1>2, <1>3 DEF Apply
  <1>4. CASE op = "create" /\ o \in Seqs
    BY <1>1, <1>2, <1>4 DEF Apply
  <1>5. CASE op = "create" /\ o \notin Indexes \cup Seqs
    BY <1>2, <1>5 DEF Apply
  <1>6. CASE op = "drop" /\ o \in Indexes
    BY <1>1, <1>2, <1>6 DEF Apply
  <1>7. CASE op = "drop" /\ o \in Tables
    BY <1>1, <1>2, <1>7 DEF Apply
  <1>8. CASE op = "drop" /\ o \notin Indexes \cup Tables
    BY <1>2, <1>8 DEF Apply
  <1> QED
    BY <1>2, <1>3, <1>4, <1>5, <1>6, <1>7, <1>8

(* DROP INDEX: with what it may promote.                                    *)
LEMMA DropIndexIs ==
    ASSUME NEW c \in CatalogState, NEW i \in Indexes, NEW d \in DropIndex(i, c)
    PROVE  \E P \in SUBSET (IndexesOf(On[i], c) \ {i}) :
             /\ d.objs = c.objs \ {i} /\ d.primary = (c.primary \ {i}) \cup P
             /\ d.next = c.next /\ d.version = c.version /\ d.migs = c.migs
             /\ d \in CatalogState
             /\ IF IndexesOf(On[i], c) \ {i} = {}
                     \/ (IndexesOf(On[i], c) \ {i}) \cap (c.primary \ {i}) # {}
                THEN P = {} ELSE \E j \in IndexesOf(On[i], c) \ {i} : P = {j}
  <1> DEFINE rest == IndexesOf(On[i], c) \ {i}
             left == [c EXCEPT !.objs = @ \ {i}, !.primary = @ \ {i}]
  <1>1. /\ left \in CatalogState
        /\ left.objs = c.objs \ {i} /\ left.primary = c.primary \ {i}
        /\ left.next = c.next /\ left.version = c.version /\ left.migs = c.migs
    BY DEF CatalogState
  <1>2. rest \subseteq Indexes
    BY DEF IndexesOf
  <1>3. CASE rest = {} \/ rest \cap left.primary # {}
    <2>1. d = left
      BY <1>3 DEF DropIndex
    <2>2. (c.primary \ {i}) \cup {} = c.primary \ {i}
      OBVIOUS
    <2> HIDE DEF left
    <2> WITNESS {} \in SUBSET (IndexesOf(On[i], c) \ {i})
    <2> QED
      BY <1>1, <1>3, <2>1, <2>2
  <1>4. CASE ~(rest = {} \/ rest \cap left.primary # {})
    <2>1. PICK j \in rest : d = [left EXCEPT !.primary = @ \cup {j}]
      BY <1>4 DEF DropIndex
    <2> HIDE DEF left
    <2>2. /\ d \in CatalogState
          /\ d.objs = left.objs /\ d.primary = left.primary \cup {j}
          /\ d.next = left.next /\ d.version = left.version /\ d.migs = left.migs
      BY <1>1, <1>2, <2>1 DEF CatalogState
    <2>3. {j} \in SUBSET (IndexesOf(On[i], c) \ {i})
      OBVIOUS
    <2>4. /\ d.objs = c.objs \ {i} /\ d.primary = (c.primary \ {i}) \cup {j}
          /\ d.next = c.next /\ d.version = c.version /\ d.migs = c.migs
      BY <1>1, <2>2
    <2>5. ~(IndexesOf(On[i], c) \ {i} = {}
              \/ (IndexesOf(On[i], c) \ {i}) \cap (c.primary \ {i}) # {})
      BY <1>1, <1>4
    <2> WITNESS {j} \in SUBSET (IndexesOf(On[i], c) \ {i})
    <2> QED
      BY <2>2, <2>4, <2>5
  <1> QED
    BY <1>3, <1>4

(* Types, the objects, and what DDL leaves alone.                           *)
Effect(op, o, c, d) ==
    /\ d \in CatalogState
    /\ d.version = c.version /\ d.migs = c.migs
    /\ op = "create" => d.objs = c.objs \cup {o}
    /\ op = "drop" => d.objs = c.objs \ ({o} \cup {x \in Dependents(o) : o \in Tables})
    /\ \A s \in Seqs : s # o => d.next[s] = c.next[s]

LEMMA ApplyEffect ==
    ASSUME NEW op, NEW o, NEW c, NEW replaying, NEW d, Runs(op, o, c, replaying, d)
    PROVE  Effect(op, o, c, d)
  <1>1. c \in CatalogState /\ o \in Objects
    BY DEF Runs
  <1>2. Limit \in Nat /\ 1 \in 0..Limit /\ Start \in 0..Limit
    BY CatalogConstants
  <1>3. Indexes \cap Tables = {}
    BY DistinctObjects
  <1>4. CASE op = "create" /\ o \in Indexes /\ d = AddIndex(o, c)
    BY <1>1, <1>4 DEF Effect, AddIndex, CatalogState
  <1>5. CASE op = "create" /\ o \in Seqs \ Indexes /\ d = AddSequence(o, c, replaying)
    BY <1>1, <1>2, <1>5 DEF Effect, AddSequence, CatalogState
  <1>6. CASE op = "create" /\ o \notin Indexes \cup Seqs /\ d = [c EXCEPT !.objs = @ \cup {o}]
    BY <1>1, <1>6 DEF Effect, CatalogState
  <1>7. CASE op = "drop" /\ o \in Indexes /\ d \in DropIndex(o, c)
    BY <1>1, <1>3, <1>7, DropIndexIs DEF Effect
  <1>8. CASE op = "drop" /\ o \in Tables \ Indexes /\ d = RemoveTable(o, c)
    BY <1>1, <1>8 DEF Effect, RemoveTable, CatalogState
  <1>9. CASE op = "drop" /\ o \notin Indexes \cup Tables /\ d = [c EXCEPT !.objs = @ \ {o}]
    BY <1>1, <1>9 DEF Effect, CatalogState
  <1> QED
    BY <1>4, <1>5, <1>6, <1>7, <1>8, <1>9, ApplyCases

-----------------------------------------------------------------------------
(* Every table that has indexes has one that is primary.                    *)
Single(S) == \E x \in S : S = {x}
Primaries(c) ==
    /\ c.primary \subseteq c.objs
    /\ \A t \in Tables : IndexesOf(t, c) # {} =>
         t \in c.objs /\ Single(IndexesOf(t, c) \cap c.primary)

LEMMA AddIndexPrimaries ==
    ASSUME NEW c \in CatalogState, Primaries(c), NEW i \in Indexes, On[i] \in c.objs
    PROVE  Primaries(AddIndex(i, c))
  <1> DEFINE d == AddIndex(i, c)
  <1>1. /\ d.objs = c.objs \cup {i}
        /\ d.primary = (c.primary \ IndexesOf(On[i], c)) \cup {i}
    BY DEF AddIndex, CatalogState
  <1> HIDE DEF d
  <1>2. d.primary \subseteq d.objs
    BY <1>1 DEF Primaries
  <1>3. ASSUME NEW t \in Tables, IndexesOf(t, d) # {}
        PROVE  t \in d.objs /\ Single(IndexesOf(t, d) \cap d.primary)
    <2>1. CASE t = On[i]
      <3>1. IndexesOf(t, d) \cap d.primary = {i}
        BY <1>1, <2>1 DEF IndexesOf
      <3> QED
        BY <1>1, <2>1, <3>1 DEF Single
    <2>2. CASE t # On[i]
      <3>1. IndexesOf(t, d) = IndexesOf(t, c)
        BY <1>1, <2>2 DEF IndexesOf
      <3>2. IndexesOf(t, d) \cap d.primary = IndexesOf(t, c) \cap c.primary
        BY <1>1, <2>2, <3>1 DEF IndexesOf
      <3> QED
        BY <1>1, <1>3, <3>1, <3>2 DEF Primaries
    <2> QED
      BY <2>1, <2>2
  <1>4. Primaries(d)
    BY <1>2, <1>3 DEF Primaries
  <1> QED
    BY <1>4 DEF d

LEMMA DropIndexPrimaries ==
    ASSUME NEW c \in CatalogState, Primaries(c), NEW i \in Indexes,
           NEW d \in DropIndex(i, c)
    PROVE  Primaries(d)
  <1>1. PICK P \in SUBSET (IndexesOf(On[i], c) \ {i}) :
          /\ d.objs = c.objs \ {i} /\ d.primary = (c.primary \ {i}) \cup P
          /\ d.next = c.next /\ d.version = c.version /\ d.migs = c.migs
          /\ d \in CatalogState
          /\ IF IndexesOf(On[i], c) \ {i} = {}
                  \/ (IndexesOf(On[i], c) \ {i}) \cap (c.primary \ {i}) # {}
             THEN P = {} ELSE \E j \in IndexesOf(On[i], c) \ {i} : P = {j}
    BY DropIndexIs
  <1>2. i \notin Tables
    BY DistinctObjects
  <1>3. P \subseteq c.objs \ {i}
    BY DEF IndexesOf
  <1>4. d.primary \subseteq d.objs
    BY <1>1, <1>3 DEF Primaries
  <1>5. ASSUME NEW t \in Tables, IndexesOf(t, d) # {}
        PROVE  t \in d.objs /\ Single(IndexesOf(t, d) \cap d.primary)
    <2>1. IndexesOf(t, d) = IndexesOf(t, c) \ {i}
      BY <1>1 DEF IndexesOf
    <2>2. t \in d.objs
      BY <1>1, <1>2, <1>5, <2>1 DEF Primaries
    <2>3. PICK x \in IndexesOf(t, c) \cap c.primary : IndexesOf(t, c) \cap c.primary = {x}
      BY <1>5, <2>1 DEF Primaries, Single
    <2>4. CASE t # On[i]
      <3>1. P \cap IndexesOf(t, c) = {} /\ i \notin IndexesOf(t, c)
        BY <2>4 DEF IndexesOf
      <3>2. IndexesOf(t, d) \cap d.primary = {x}
        BY <1>1, <2>1, <2>3, <3>1
      <3> QED
        BY <2>2, <3>2 DEF Single
    <2>5. CASE t = On[i] /\ x # i
      <3>1. x \in (IndexesOf(On[i], c) \ {i}) \cap (c.primary \ {i})
        BY <2>3, <2>5
      <3>2. P = {}
        BY <1>1, <3>1
      <3>3. IndexesOf(t, d) \cap d.primary = {x}
        BY <1>1, <2>1, <2>3, <2>5, <3>2
      <3> QED
        BY <2>2, <3>3 DEF Single
    <2>6. CASE t = On[i] /\ x = i
      <3>1. (IndexesOf(On[i], c) \ {i}) \cap (c.primary \ {i}) = {}
        BY <2>3, <2>6
      <3>2. IndexesOf(On[i], c) \ {i} # {}
        BY <1>5, <2>1, <2>6
      <3>3. PICK j \in IndexesOf(On[i], c) \ {i} : P = {j}
        BY <1>1, <3>1, <3>2
      <3>4. IndexesOf(t, d) \cap d.primary = {j}
        BY <1>1, <2>1, <2>6, <3>1, <3>3
      <3> QED
        BY <2>2, <3>4 DEF Single
    <2> QED
      BY <2>4, <2>5, <2>6
  <1> QED
    BY <1>4, <1>5 DEF Primaries

LEMMA RemoveTablePrimaries ==
    ASSUME NEW c \in CatalogState, Primaries(c), NEW r \in Tables
    PROVE  Primaries(RemoveTable(r, c))
  <1> DEFINE d == RemoveTable(r, c)
  <1>1. /\ d.objs = c.objs \ ({r} \cup Dependents(r))
        /\ d.primary = c.primary \ Dependents(r)
    BY DEF RemoveTable, CatalogState
  <1> HIDE DEF d
  <1>2. c.primary \subseteq Indexes
    BY DEF CatalogState
  <1>3. (Indexes \cup Columns) \cap Tables = {}
    BY DistinctObjects
  <1>4. d.primary \subseteq d.objs
    BY <1>1, <1>2, <1>3 DEF Primaries
  <1>5. ASSUME NEW t \in Tables, IndexesOf(t, d) # {}
        PROVE  t \in d.objs /\ Single(IndexesOf(t, d) \cap d.primary)
    <2>1. t # r
      BY <1>1, <1>5 DEF IndexesOf, Dependents
    <2>2. IndexesOf(t, d) = IndexesOf(t, c)
      BY <1>1, <1>3, <2>1 DEF IndexesOf, Dependents
    <2>3. IndexesOf(t, d) \cap d.primary = IndexesOf(t, c) \cap c.primary
      BY <1>1, <2>1, <2>2 DEF IndexesOf, Dependents
    <2>4. t \in d.objs
      BY <1>1, <1>3, <1>5, <2>1, <2>2 DEF Primaries, Dependents
    <2> QED
      BY <1>5, <2>2, <2>3, <2>4 DEF Primaries
  <1>6. Primaries(d)
    BY <1>4, <1>5 DEF Primaries
  <1> QED
    BY <1>6 DEF d

(* An object that is neither a table that goes nor an index.                *)
LEMMA OtherPrimaries ==
    ASSUME NEW c \in CatalogState, Primaries(c), NEW d \in CatalogState,
           d.primary = c.primary, c.objs \cap Indexes = d.objs \cap Indexes,
           c.objs \cap Tables \subseteq d.objs
    PROVE  Primaries(d)
  <1>1. \A t \in Tables : IndexesOf(t, d) = IndexesOf(t, c)
    BY DEF IndexesOf
  <1>2. c.primary \subseteq Indexes
    BY DEF CatalogState
  <1> QED
    BY <1>1, <1>2 DEF Primaries

LEMMA ApplyPrimaries ==
    ASSUME NEW op, NEW o, NEW c, NEW replaying, NEW d, Runs(op, o, c, replaying, d),
           Primaries(c)
    PROVE  Primaries(d)
  <1>1. c \in CatalogState
    BY DEF Runs
  <1>2. d \in CatalogState
    BY ApplyEffect DEF Effect
  <1>3. CASE op = "create" /\ o \in Indexes /\ d = AddIndex(o, c)
    <2>1. On[o] \in c.objs
      BY <1>3 DEF Runs, Succeeds
    <2> QED
      BY <1>1, <1>3, <2>1, AddIndexPrimaries
  <1>4. CASE op = "create" /\ o \in Seqs \ Indexes /\ d = AddSequence(o, c, replaying)
    <2>1. d.primary = c.primary /\ d.objs = c.objs \cup {o}
      BY <1>1, <1>4 DEF AddSequence, CatalogState
    <2> QED
      BY <1>1, <1>2, <1>4, <2>1, OtherPrimaries
  <1>5. CASE op = "create" /\ o \notin Indexes \cup Seqs /\ d = [c EXCEPT !.objs = @ \cup {o}]
    <2>1. d.primary = c.primary /\ d.objs = c.objs \cup {o}
      BY <1>1, <1>5 DEF CatalogState
    <2> QED
      BY <1>1, <1>2, <1>5, <2>1, OtherPrimaries
  <1>6. CASE op = "drop" /\ o \in Indexes /\ d \in DropIndex(o, c)
    BY <1>1, <1>6, DropIndexPrimaries
  <1>7. CASE op = "drop" /\ o \in Tables \ Indexes /\ d = RemoveTable(o, c)
    BY <1>1, <1>7, RemoveTablePrimaries
  <1>8. CASE op = "drop" /\ o \notin Indexes \cup Tables /\ d = [c EXCEPT !.objs = @ \ {o}]
    <2>1. d.primary = c.primary /\ d.objs = c.objs \ {o}
      BY <1>1, <1>8 DEF CatalogState
    <2> QED
      BY <1>1, <1>2, <1>8, <2>1, OtherPrimaries
  <1> QED
    BY <1>3, <1>4, <1>5, <1>6, <1>7, <1>8, ApplyCases

LEMMA OnePrimaryOf ==
    ASSUME NEW c, Primaries(c)
    PROVE  \A t \in Tables :
             /\ c.primary \subseteq c.objs
             /\ IndexesOf(t, c) # {} => t \in c.objs
             /\ IndexesOf(t, c) # {} => Cardinality(IndexesOf(t, c) \cap c.primary) = 1
  BY FS_Singleton DEF Primaries, Single

-----------------------------------------------------------------------------
(* Where the control is: what each stage of a statement, of COMMIT and of   *)
(* recovery leaves fixed.                                                   *)
Recovering == pc \in {"replay", "failed"}
Control ==
    /\ marker <=> pc = "committed"
    /\ inTxn => ~dirty /\ pc \in {"idle", "finished", "migrate"}
    /\ pc \in {"saved", "committed"} => ~dirty
    /\ Recovering => cat = disk /\ ~dirty
    /\ ~Recovering => pos = 0
    /\ crashes = 0 => ~Recovering

(* The log: the statements of a running or committing transaction are the   *)
(* last in it.                                                              *)
LogOrder ==
    /\ \A i, j \in DOMAIN log : i < j /\ log[i].txn => log[j].txn
    /\ \A i \in DOMAIN log : log[i].txn => inTxn \/ pc \in {"saved", "committed"}

(* The others have failed, except the statement that is at WalFinish and    *)
(* the log of a recovery.                                                   *)
LogSpent ==
    \A i \in DOMAIN log :
        \/ log[i].txn \/ log[i].op = "bad" \/ Recovering
        \/ pc = "applied" /\ i = Len(log)
LogLogged == \A i \in DOMAIN log : log[i].op # "bad" => log[i].obj \notin Unlogged

(* In memory, in catalog.json, and in the snapshot of a transaction.         *)
PrimariesOK == Primaries(cat) /\ Primaries(disk) /\ Primaries(snap)

(* A clean catalog is the one in the file, but for schema_version.          *)
Same(c, d) == c.objs = d.objs /\ c.primary = d.primary /\ c.next = d.next /\ c.migs = d.migs
FileOK == ~inTxn /\ ~dirty => Same(cat, disk)

(* The values in V are below the catalog's next ones.                       *)
Below(V, c) ==
    \A x \in V : x[1] \in c.objs => x[2] < c.next[x[1]] \/ x[2] = Limit
ValuesOK ==
    /\ Below(issued \cup held, cat) /\ Below(issued, disk)
    /\ inTxn => Below(issued, snap)
    /\ Recovering => held = {}
    /\ \A i \in DOMAIN log : log[i].op # "bad" => \A x \in issued : x[1] # log[i].obj

(* The objects a statement of the log decides, and the last such statement. *)
Touches(e, o) ==
    /\ e.op # "bad"
    /\ o = e.obj \/ (e.op = "drop" /\ e.obj \in Tables /\ o \in Dependents(e.obj))
LastTouch(lg, k, o) ==
    /\ k \in DOMAIN lg /\ Touches(lg[k], o)
    /\ \A j \in DOMAIN lg : Touches(lg[j], o) => j <= k
Untouched(lg, o) == \A k \in DOMAIN lg : ~Touches(lg[k], o)
Decides(lg, S) == \A o \in Objects, k \in DOMAIN lg :
                    LastTouch(lg, k, o) => (o \in S <=> lg[k].op = "create")

(* The objects in memory and in the file before a crash.                    *)
ObjectsCore ==
    /\ inTxn => snap.objs \in allowed
    /\ ~inTxn => cat.objs \in allowed
    /\ disk.objs \in allowed
    /\ ~inTxn /\ pc \in {"idle", "migrate", "saved", "committed"} => cat.objs = disk.objs
    /\ pc = "applied" =>
         \A o \in Objects : Untouched(log, o) => (o \in cat.objs <=> o \in disk.objs)
    /\ Decides(log, cat.objs)
ObjectsOK == ~Recovering => ObjectsCore

(* Replay of lg, of which p statements are done and S are the objects now,  *)
(* leads to the objects R.                                                  *)
LeadsTo(lg, S, p, R) ==
    /\ Decides(lg, R)
    /\ \A o \in Objects : Untouched(lg, o) => (o \in S <=> o \in R)
    /\ \A o \in Objects, k \in 1..p : LastTouch(lg, k, o) => (o \in S <=> o \in R)
ReplayOK == Recovering => \E R \in allowed : LeadsTo(log, cat.objs, pos, R)

(* What is in the log without an excuse succeeds.                           *)
OpenOK ==
    /\ pc = "failed" => excuses # {}
    /\ pc = "applied" => \A k \in DOMAIN log :
         log[k].op # "bad" => Succeeds(log[k].op, log[k].obj, disk, FALSE)
    /\ pc = "replay" /\ excuses = {} => \A k \in DOMAIN log :
         Len(log) = 1 /\ (pos = 0 => Succeeds(log[k].op, log[k].obj, cat, TRUE))

(* The migrations of a catalog that have run.                               *)
Ran(c) == {v \in c.migs : MigTable[v] \in c.objs}
Recorded(c) == c.version \in Ran(c) \cup {0} /\ \A v \in Ran(c) : v <= c.version
Registered(c) == \A v \in Versions : MigTable[v] \in c.objs => v \in c.migs
MigrationsOK ==
    crashes = 0 =>
        /\ Registered(cat) /\ Registered(snap) /\ Recorded(snap)
        /\ todo \subseteq {v \in cat.migs : cat.version < v}
        /\ current = 0 => Recorded(cat)
        /\ current # 0 =>
             /\ current \in Ran(cat) \cap todo
             /\ \A w \in todo : current <= w
             /\ cat.version \in Ran(cat) \cup {0}
             /\ \A v \in Ran(cat) \ {current} : v <= cat.version
             /\ pc \in {"applied", "finished"}
        /\ current = 0 /\ pc # "migrate" => todo = {}

IInv ==
    /\ TypeOK /\ Control /\ LogOrder /\ LogSpent /\ LogLogged /\ PrimariesOK
    /\ FileOK /\ ObjectsOK /\ ReplayOK /\ OpenOK /\ MigrationsOK

-----------------------------------------------------------------------------
(* Next, with the DDL statements as one.                                    *)
LEMMA NextCases ==
    ASSUME Next
    PROVE  \/ \E op \in {"create", "drop"}, o \in Named : Ddl(op, o)
           \/ \E t \in Tables : DdlFails(t)
           \/ WalFinish \/ FlushIfDirty
           \/ \E s \in Seqs : Nextval(s)
           \/ \E s \in Seqs, shown \in BOOLEAN : NextvalUnsaved(s, shown)
           \/ \E v \in Versions : CreateMigration(v) \/ Migrate(v)
           \/ MigrateStep \/ MigrateError \/ MigrateDone
           \/ HandleBegin \/ CommitSave \/ CommitMarker \/ CommitTruncate \/ HandleRollback
           \/ Crash \/ Replay \/ ReplayFails \/ ReplayDone \/ Reopen
  <1>1. ASSUME NEW o \in Named, NEW op \in {"create", "drop"}, Ddl(op, o)
        PROVE  \E p \in {"create", "drop"}, x \in Named : Ddl(p, x)
    BY <1>1
  <1>2. \A t \in Tables : t \in Named /\ (HandleCreateTable(t) => Ddl("create", t))
                          /\ (HandleDropTable(t) => Ddl("drop", t))
    BY DEF HandleCreateTable, HandleDropTable, Named
  <1>3. \A i \in Indexes : i \in Named /\ (HandleCreateIndex(i) => Ddl("create", i))
                           /\ (HandleDropIndex(i) => Ddl("drop", i))
    BY DEF HandleCreateIndex, HandleDropIndex, Named
  <1>4. \A c \in Columns : c \in Named /\ (HandleAddColumn(c) => Ddl("create", c))
                           /\ (HandleDropColumn(c) => Ddl("drop", c))
    BY DEF HandleAddColumn, HandleDropColumn, Named
  <1>5. \A s \in Seqs : s \in Named /\ (HandleCreateSequence(s) => Ddl("create", s))
                        /\ (HandleDropSequence(s) => Ddl("drop", s))
    BY DEF HandleCreateSequence, HandleDropSequence, Named
  <1>6. \A m \in MatViews : m \in Named /\ (HandleCreateView(m) => Ddl("create", m))
                            /\ (HandleDropView(m) => Ddl("drop", m))
    BY DEF HandleCreateView, HandleDropView, Named
  <1>7. \A f \in Functions : f \in Named /\ (HandleCreateFunction(f) => Ddl("create", f))
                             /\ (HandleDropFunction(f) => Ddl("drop", f))
    BY DEF HandleCreateFunction, HandleDropFunction, Named
  <1>8. \A g \in Triggers : g \in Named /\ (HandleCreateTrigger(g) => Ddl("create", g))
                            /\ (HandleDropTrigger(g) => Ddl("drop", g))
    BY DEF HandleCreateTrigger, HandleDropTrigger, Named, Unlogged
  <1>9. \A p \in Grants : p \in Named /\ (HandleGrant(p) => Ddl("create", p))
                          /\ (HandleRevoke(p) => Ddl("drop", p))
    BY DEF HandleGrant, HandleRevoke, Named, Unlogged
  <1>10. "create" \in {"create", "drop"} /\ "drop" \in {"create", "drop"}
    OBVIOUS
  <1> QED
    BY <1>1, <1>2, <1>3, <1>4, <1>5, <1>6, <1>7, <1>8, <1>9, <1>10, Zenon DEF Next

LEMMA HandlerRuns ==
    ASSUME TypeOK, NEW op \in {"create", "drop"}, NEW o \in Objects, Handler(op, o)
    PROVE  Runs(op, o, cat, FALSE, cat') /\ Effect(op, o, cat, cat')
  <1>1. Runs(op, o, cat, FALSE, cat')
    BY DEF TypeOK, Handler, Runs
  <1> QED
    BY <1>1, ApplyEffect

(* The first statement of the log that is not replayed yet.                 *)
Pending == log[pos + 1]
LEMMA PendingRuns ==
    ASSUME TypeOK, Replay
    PROVE  /\ Pending \in Entry /\ pos + 1 \in DOMAIN log
           /\ Runs(Pending.op, Pending.obj, cat, TRUE, cat')
           /\ Effect(Pending.op, Pending.obj, cat, cat')
  <1>1. pos + 1 \in DOMAIN log /\ Pending \in Entry
    BY ElementOfSeq DEF TypeOK, Replay, Pending
  <1>2. Succeeds(Pending.op, Pending.obj, cat, TRUE)
        /\ cat' \in Apply(Pending.op, Pending.obj, cat, TRUE)
    BY DEF Replay, Pending
  <1>3. Pending.op \in {"create", "drop", "bad"} /\ Pending.obj \in Objects
    BY <1>1 DEF Entry
  <1>4. Pending.op \in {"create", "drop"}
    BY <1>2, <1>3 DEF Succeeds
  <1>5. Runs(Pending.op, Pending.obj, cat, TRUE, cat')
    BY <1>2, <1>3, <1>4 DEF Runs, TypeOK
  <1> QED
    BY <1>1, <1>5, ApplyEffect

LEMMA AdvanceEffect ==
    ASSUME NEW s \in Seqs, NEW c \in CatalogState
    PROVE  /\ Advance(s, c) \in CatalogState
           /\ Advance(s, c).objs = c.objs /\ Advance(s, c).primary = c.primary
           /\ Advance(s, c).migs = c.migs /\ Advance(s, c).version = c.version
           /\ \A x \in Seqs : x # s => Advance(s, c).next[x] = c.next[x]
           /\ c.next[s] < Advance(s, c).next[s] \/ c.next[s] = Limit
           /\ c.next[s] <= Advance(s, c).next[s]
  <1>1. Limit \in Nat
    BY CatalogConstants
  <1>2. c.next \in [Seqs -> 0..Limit]
    BY DEF CatalogState
  <1>3. PICK n : n = IF c.next[s] + 1 > Limit THEN Limit ELSE c.next[s] + 1
    OBVIOUS
  <1>4. n \in 0..Limit /\ c.next[s] <= n /\ (c.next[s] < n \/ c.next[s] = Limit)
    BY <1>1, <1>2, <1>3
  <1>5. Advance(s, c) = [c EXCEPT !.next = [c.next EXCEPT ![s] = n]]
    BY <1>3 DEF Advance, CatalogState
  <1>6. [c.next EXCEPT ![s] = n] \in [Seqs -> 0..Limit]
    BY <1>2, <1>4
  <1>7. /\ Advance(s, c) \in CatalogState
        /\ Advance(s, c).objs = c.objs /\ Advance(s, c).primary = c.primary
        /\ Advance(s, c).migs = c.migs /\ Advance(s, c).version = c.version
        /\ Advance(s, c).next = [c.next EXCEPT ![s] = n]
    BY <1>5, <1>6 DEF CatalogState
  <1>8. [c.next EXCEPT ![s] = n][s] = n
    BY <1>2
  <1> QED
    BY <1>2, <1>4, <1>7, <1>8

LEMMA LowestIs ==
    ASSUME TypeOK, todo # {}
    PROVE  Lowest \in todo /\ Lowest \in Versions /\ \A w \in todo : Lowest <= w
  <1>1. todo \in SUBSET Nat
    BY CatalogConstants DEF TypeOK
  <1>2. \E v \in todo : \A w \in todo : v <= w
    BY <1>1, LeastExists
  <1> QED
    BY <1>2 DEF Lowest, TypeOK

LEMMA EmptyType == EmptyCatalog \in CatalogState
  BY CatalogConstants DEF EmptyCatalog, CatalogState

(* What recover returns is a sequence: the statements before those of the   *)
(* running transaction.                                                     *)
Kept == {j \in DOMAIN log : ~log[j].txn \/ marker}
LEMMA KeptIsPrefix ==
    ASSUME TypeOK, LogOrder
    PROVE  \E n \in 0..Len(log) : Kept = 1..n
  <1>1. Len(log) \in Nat /\ DOMAIN log = 1..Len(log)
    BY DEF TypeOK
  <1>2. CASE Kept = DOMAIN log
    <2>1. Len(log) \in 0..Len(log) /\ Kept = 1..Len(log)
      BY <1>1, <1>2
    <2> QED
      BY <2>1, Zenon
  <1>3. CASE Kept # DOMAIN log
    <2> DEFINE S == {j \in DOMAIN log : log[j].txn /\ ~marker}
    <2>1. S \in SUBSET Nat /\ S # {}
      BY <1>1, <1>3 DEF Kept
    <2>2. PICK m \in S : \A k \in S : m <= k
      <3> HIDE DEF S
      <3> QED
        BY <2>1, LeastExists
    <2>3. \A k \in DOMAIN log : m <= k => k \in S
      BY <1>1, <2>1, <2>2 DEF LogOrder
    <2>4. Kept = DOMAIN log \ S
      BY DEF Kept
    <2>5. Kept = 1..(m - 1)
      BY <1>1, <2>1, <2>2, <2>3, <2>4
    <2> QED
      BY <1>1, <2>1, <2>2, <2>5
  <1> QED
    BY <1>2, <1>3

RecoveredLog ==
    /\ Recovered \in Seq(Entry)
    /\ Len(Recovered) <= Len(log)
    /\ \A i \in DOMAIN Recovered :
         /\ i \in DOMAIN log /\ Recovered[i] \in Entry /\ ~Recovered[i].txn
         /\ Recovered[i].op = log[i].op /\ Recovered[i].obj = log[i].obj
         /\ ~log[i].txn \/ marker
    /\ (\A i \in DOMAIN log : ~log[i].txn \/ marker) => DOMAIN Recovered = DOMAIN log
LEMMA RecoveredIs ==
    ASSUME TypeOK, LogOrder
    PROVE  RecoveredLog
  <1>1. PICK n \in 0..Len(log) : Kept = 1..n
    BY KeptIsPrefix
  <1>2. Recovered = [i \in 1..n |-> [log[i] EXCEPT !.txn = FALSE]]
    BY <1>1 DEF Recovered, Kept
  <1>3. Len(log) \in Nat /\ DOMAIN log = 1..Len(log) /\ n \in Nat
    BY DEF TypeOK
  <1>4. \A i \in 1..n : log[i] \in Entry /\ i \in DOMAIN log /\ (~log[i].txn \/ marker)
    BY <1>1, <1>3, ElementOfSeq DEF TypeOK, Kept
  <1>5. ASSUME NEW i \in 1..n
        PROVE  /\ [log[i] EXCEPT !.txn = FALSE] \in Entry
               /\ [log[i] EXCEPT !.txn = FALSE].txn = FALSE
               /\ [log[i] EXCEPT !.txn = FALSE].op = log[i].op
               /\ [log[i] EXCEPT !.txn = FALSE].obj = log[i].obj
    BY <1>4 DEF Entry
  <1>6. DOMAIN Recovered = 1..n
        /\ \A i \in 1..n : Recovered[i] = [log[i] EXCEPT !.txn = FALSE]
    BY <1>2
  <1>7. Recovered \in Seq(Entry)
    BY <1>2, <1>3, <1>5
  <1>8. Len(Recovered) = n
    BY <1>3, <1>6, <1>7, LenProperties
  <1>9. ASSUME NEW i \in DOMAIN Recovered
        PROVE  /\ i \in DOMAIN log /\ Recovered[i] \in Entry /\ ~Recovered[i].txn
               /\ Recovered[i].op = log[i].op /\ Recovered[i].obj = log[i].obj
               /\ ~log[i].txn \/ marker
    <2>1. i \in 1..n /\ Recovered[i] = [log[i] EXCEPT !.txn = FALSE]
      BY <1>6
    <2> QED
      BY <1>4, <1>5, <2>1
  <1>10. (\A i \in DOMAIN log : ~log[i].txn \/ marker) => DOMAIN Recovered = DOMAIN log
    BY <1>1, <1>6 DEF Kept
  <1>11. Len(Recovered) <= Len(log)
    BY <1>3, <1>8
  <1> QED
    BY <1>7, <1>9, <1>10, <1>11 DEF RecoveredLog

-----------------------------------------------------------------------------
(* Every step keeps the types.                                              *)
LEMMA ObjectsOf ==
    ASSUME NEW c \in CatalogState
    PROVE  c.objs \in SUBSET Objects /\ c.migs \in SUBSET Versions
  BY DEF CatalogState

LEMMA HandlerType ==
    ASSUME TypeOK, Control, pc \in {"idle", "migrate"},
           NEW op \in {"create", "drop"}, NEW o \in Objects, Handler(op, o),
           todo' \in SUBSET Versions, current' \in {0} \cup Versions
    PROVE  TypeOK'
  <1>1. cat' \in CatalogState
    BY HandlerRuns DEF Effect
  <1>2. [op |-> op, obj |-> o, txn |-> inTxn] \in Entry
    BY DEF Entry, TypeOK
  <1>3. log' \in Seq(Entry)
    BY <1>2, AppendProperties DEF Handler, TypeOK
  <1>4. pos' \in 0..Len(log')
    <2>1. pos' = 0 /\ Len(log') \in Nat
      BY <1>3, LenProperties DEF Handler, Control, Recovering
    <2> QED
      BY <2>1
  <1>5. data' \in SUBSET Tables /\ deferred' \in SUBSET Tables
    BY DEF Handler, Storage, TypeOK
  <1>6. pc' \in PCs
    BY DEF Handler, AfterHandler, PCs
  <1>7. allowed' \in SUBSET SUBSET Objects
    <2>1. cat'.objs \in SUBSET Objects
      BY <1>1, ObjectsOf
    <2> QED
      BY <2>1 DEF Handler, TypeOK
  <1>8. issued' \in SUBSET (Seqs \X (0..Limit)) /\ held' \in SUBSET (Seqs \X (0..Limit))
    BY DEF Handler, TypeOK
  <1>9. dirty' \in BOOLEAN
    BY DEF Handler, Save, TypeOK
  <1>10. /\ disk' \in CatalogState /\ snap' \in CatalogState /\ scope' \in Scopes
         /\ marker' \in BOOLEAN /\ inTxn' \in BOOLEAN /\ crashes' \in 0..MaxCrashes
         /\ excuses' \in SUBSET {"failure", "commit", "recovery", "replace"}
    BY DEF Handler, TypeOK
  <1> QED
    BY <1>1, <1>3, <1>4, <1>5, <1>6, <1>7, <1>8, <1>9, <1>10 DEF TypeOK

LEMMA DdlFailsType ==
    ASSUME TypeOK, Control, NEW t \in Tables, DdlFails(t)
    PROVE  TypeOK'
  <1>1. t \in Objects
    BY Kinds DEF Named
  <1>2. [op |-> "bad", obj |-> t, txn |-> inTxn] \in Entry
    BY <1>1 DEF Entry, TypeOK
  <1>3. log' \in Seq(Entry)
    BY <1>2, AppendProperties DEF DdlFails, TypeOK
  <1>4. pos' = 0 /\ Len(log') \in Nat
    BY <1>3, LenProperties DEF DdlFails, Control, Recovering
  <1> QED
    BY <1>3, <1>4 DEF TypeOK, DdlFails, PCs, txnVars, migVars, ghosts

LEMMA NextvalType ==
    ASSUME TypeOK, NEW s \in Seqs, Nextval(s) \/ \E shown \in BOOLEAN : NextvalUnsaved(s, shown)
    PROVE  TypeOK'
  <1>1. cat' = Advance(s, cat)
    BY DEF Nextval, NextvalUnsaved
  <1>2. cat' \in CatalogState
    BY <1>1, AdvanceEffect DEF TypeOK
  <1>3. <<s, cat.next[s]>> \in Seqs \X (0..Limit)
    BY DEF TypeOK, CatalogState
  <1>4. dirty' \in BOOLEAN
    BY DEF Nextval, NextvalUnsaved, Save, TypeOK
  <1>5. CASE Nextval(s)
    BY <1>2, <1>3, <1>4, <1>5 DEF TypeOK, Nextval, PCs, txnVars, migVars
  <1>6. ASSUME NEW shown \in BOOLEAN, NextvalUnsaved(s, shown) PROVE TypeOK'
    BY <1>2, <1>3, <1>4, <1>6 DEF TypeOK, NextvalUnsaved, txnVars, migVars
  <1> QED
    BY <1>5, <1>6

LEMMA MigrationType ==
    ASSUME TypeOK, Control, NEW v \in Versions,
           CreateMigration(v) \/ Migrate(v)
    PROVE  TypeOK'
  <1>1. CASE CreateMigration(v)
    <2>1. cat' \in CatalogState
      BY <1>1 DEF CreateMigration, TypeOK, CatalogState
    <2>2. dirty' \in BOOLEAN /\ pc' \in PCs
      BY <1>1 DEF CreateMigration, Save, TypeOK, AfterHandler, PCs
    <2> QED
      BY <1>1, <2>1, <2>2 DEF CreateMigration, TypeOK, txnVars, migVars, ghosts
  <1>2. CASE Migrate(v)
    <2>1. todo' \in SUBSET Versions
      BY <1>2 DEF Migrate, TypeOK, CatalogState
    <2> QED
      BY <1>2, <2>1 DEF Migrate, TypeOK, PCs, txnVars, ghosts
  <1> QED
    BY <1>1, <1>2

LEMMA FlushType ==
    ASSUME TypeOK, FlushIfDirty
    PROVE  TypeOK'
  <1>1. cat' \in CatalogState /\ cat'.objs \in SUBSET Objects
    BY DEF TypeOK, FlushIfDirty, CatalogState
  <1>2. cat.objs \in SUBSET Objects
    BY ObjectsOf DEF TypeOK
  <1>3. allowed' \in SUBSET SUBSET Objects
    BY <1>2 DEF FlushIfDirty, TypeOK
  <1>4. disk' \in CatalogState /\ dirty' \in BOOLEAN /\ pc' \in PCs
    BY DEF FlushIfDirty, TypeOK, PCs
  <1>5. todo' \in SUBSET Versions /\ current' \in {0} \cup Versions
    BY DEF FlushIfDirty, TypeOK, migVars
  <1>6. issued' \in SUBSET (Seqs \X (0..Limit)) /\ held' \in SUBSET (Seqs \X (0..Limit))
    BY DEF FlushIfDirty, TypeOK
  <1> QED
    BY <1>1, <1>3, <1>4, <1>5, <1>6 DEF FlushIfDirty, TypeOK, txnVars

LEMMA EmptyLog == <<>> \in Seq(Entry) /\ Len(<<>>) = 0 /\ DOMAIN <<>> = {}
  OBVIOUS

LEMMA TransactionType ==
    ASSUME TypeOK, Control,
           WalFinish \/ HandleBegin \/ CommitSave \/ CommitMarker \/ CommitTruncate
             \/ HandleRollback
    PROVE  TypeOK'
  <1>1. cat.objs \in SUBSET Objects
    BY ObjectsOf DEF TypeOK
  <1>2. pos = 0 /\ 0 \in 0..Len(<<>>)
    BY EmptyLog DEF Control, Recovering, WalFinish, HandleBegin, CommitSave, CommitMarker,
       CommitTruncate, HandleRollback
  <1>3. CASE WalFinish
    BY <1>2, <1>3, EmptyLog DEF WalFinish, TypeOK, PCs, txnVars, migVars, ghosts
  <1>4. CASE HandleBegin
    BY <1>4 DEF HandleBegin, TypeOK, migVars
  <1>5. CASE CommitSave
    BY <1>1, <1>5, EmptyType DEF CommitSave, TypeOK, migVars, PCs
  <1>6. CASE CommitMarker
    BY <1>6 DEF CommitMarker, TypeOK, PCs, txnVars, migVars, ghosts
  <1>7. CASE CommitTruncate
    BY <1>1, <1>2, <1>7, EmptyLog DEF CommitTruncate, TypeOK, PCs, txnVars, migVars
  <1>8. CASE HandleRollback
    BY <1>2, <1>8, EmptyType, EmptyLog DEF HandleRollback, TypeOK, migVars
  <1> QED
    BY <1>3, <1>4, <1>5, <1>6, <1>7, <1>8

(* A crash, but for the excuses it leaves.                                  *)
Crashed ==
    /\ pc # "failed" /\ pc' = "replay" /\ log' = Recovered /\ pos' = 0 /\ cat' = disk
    /\ dirty' = FALSE /\ marker' = FALSE /\ inTxn' = FALSE
    /\ snap' = EmptyCatalog /\ deferred' = {} /\ todo' = {} /\ current' = 0 /\ held' = {}
    /\ disk' = disk /\ data' = data /\ allowed' = allowed /\ issued' = issued
    /\ scope' = scope /\ crashes < MaxCrashes /\ crashes' = crashes + 1
LEMMA CrashIs ==
    ASSUME Crash
    PROVE  Crashed
  BY DEF Crash, Crashed

LEMMA RecoveryType ==
    ASSUME TypeOK, Control, LogOrder,
           Crash \/ Replay \/ ReplayFails \/ ReplayDone \/ Reopen
    PROVE  TypeOK'
  <1>1. CASE Crash
    <2>1. log' \in Seq(Entry) /\ Len(log') \in Nat
      BY <1>1, CrashIs, RecoveredIs, LenProperties DEF Crashed, RecoveredLog
    <2>2. crashes' \in 0..MaxCrashes
      BY <1>1, CrashIs, CatalogConstants DEF Crashed, TypeOK
    <2>3. excuses' \in SUBSET {"failure", "commit", "recovery", "replace"}
      BY <1>1 DEF Crash
    <2>4. /\ cat' \in CatalogState /\ disk' \in CatalogState /\ snap' \in CatalogState
          /\ scope' \in Scopes /\ dirty' \in BOOLEAN /\ marker' \in BOOLEAN
          /\ inTxn' \in BOOLEAN /\ pos' \in 0..Len(log') /\ pc' \in PCs
          /\ data' \in SUBSET Tables /\ deferred' \in SUBSET Tables
          /\ todo' \in SUBSET Versions /\ current' \in {0} \cup Versions
          /\ allowed' \in SUBSET SUBSET Objects
          /\ issued' \in SUBSET (Seqs \X (0..Limit)) /\ held' \in SUBSET (Seqs \X (0..Limit))
      <3>1. Crashed
        BY <1>1, CrashIs
      <3>2. 0 \in 0..Len(log')
        BY <2>1
      <3> QED
        BY <3>1, <3>2, EmptyType DEF Crashed, TypeOK, PCs
    <2> QED
      BY <2>1, <2>2, <2>3, <2>4 DEF TypeOK
  <1>2. CASE Replay
    <2>1. cat' \in CatalogState /\ disk' \in CatalogState /\ pos + 1 \in DOMAIN log
      BY <1>2, PendingRuns DEF Effect, Replay
    <2>2. pos + 1 \in 0..Len(log)
      BY <2>1 DEF TypeOK
    <2>3. data' \in SUBSET Tables /\ deferred' \in SUBSET Tables
      BY <1>2 DEF Replay, Storage, TypeOK
    <2> QED
      BY <1>2, <2>1, <2>2, <2>3 DEF Replay, TypeOK, migVars, ghosts
  <1>3. CASE ReplayFails
    BY <1>3 DEF ReplayFails, TypeOK, PCs, txnVars, migVars, ghosts
  <1>4. CASE ReplayDone
    BY <1>4, EmptyLog DEF ReplayDone, TypeOK, PCs, txnVars, migVars
  <1>5. CASE Reopen
    <2>1. 0 \in 0..Len(log)
      BY LenProperties DEF TypeOK
    <2> QED
      BY <1>5, <2>1 DEF Reopen, TypeOK, PCs, txnVars, migVars, ghosts
  <1> QED
    BY <1>1, <1>2, <1>3, <1>4, <1>5

LEMMA StutterType ==
    ASSUME TypeOK, UNCHANGED vars
    PROVE  TypeOK'
  BY DEF TypeOK, vars, txnVars, migVars, ghosts

LEMMA TypeStep ==
    ASSUME TypeOK, Control, LogOrder, [Next]_vars
    PROVE  TypeOK'
  <1>1. ASSUME NEW op \in {"create", "drop"}, NEW o \in Named, Ddl(op, o) PROVE TypeOK'
    <2>1. /\ o \in Objects /\ pc \in {"idle", "migrate"} /\ Handler(op, o)
          /\ todo' = todo /\ current' = current
      BY <1>1, Kinds DEF Ddl, migVars
    <2>2. todo' \in SUBSET Versions /\ current' \in {0} \cup Versions
      BY <2>1 DEF TypeOK
    <2> QED
      BY <2>1, <2>2, HandlerType
  <1>2. CASE MigrateStep
    <2>1. /\ MigTable[Lowest] \in Objects /\ pc \in {"idle", "migrate"}
          /\ Handler("create", MigTable[Lowest])
      BY <1>2, LowestIs, Kinds DEF MigrateStep
    <2>2. todo' \in SUBSET Versions /\ current' \in {0} \cup Versions
      BY <1>2, LowestIs DEF TypeOK, MigrateStep
    <2> QED
      BY <2>1, <2>2, HandlerType
  <1>3. ASSUME MigrateError \/ MigrateDone PROVE TypeOK'
    <2>1. CASE MigrateError
      BY <2>1 DEF MigrateError, TypeOK, PCs, txnVars, ghosts
    <2>2. CASE MigrateDone
      <3>1. dirty' \in BOOLEAN /\ pc' \in PCs
        BY <2>2 DEF MigrateDone, Save, TypeOK, AfterHandler, PCs
      <3> QED
        BY <2>2, <3>1 DEF MigrateDone, TypeOK, txnVars, migVars, ghosts
    <2> QED
      BY <1>3, <2>1, <2>2
  <1>4. CASE Next
    BY <1>1, <1>2, <1>3, <1>4, NextCases, DdlFailsType, NextvalType, MigrationType, FlushType,
       TransactionType, RecoveryType
  <1>5. CASE UNCHANGED vars
    BY <1>5, StutterType
  <1> QED
    BY <1>4, <1>5

-----------------------------------------------------------------------------
(* Control and the order of the log.                                        *)
Extended(e) ==
    /\ Len(log) \in Nat /\ Len(log') = Len(log) + 1
    /\ DOMAIN log' = DOMAIN log \cup {Len(log) + 1} /\ Len(log) + 1 \notin DOMAIN log
    /\ \A i \in DOMAIN log : log'[i] = log[i] /\ i \in Nat /\ i <= Len(log)
    /\ log'[Len(log) + 1] = e
LEMMA AppendIs ==
    ASSUME TypeOK, NEW e, e \in Entry, log' = Append(log, e)
    PROVE  Extended(e)
  <1>1. log \in Seq(Entry) /\ Len(log) \in Nat /\ DOMAIN log = 1..Len(log)
    BY DEF TypeOK
  <1>2. /\ log' \in Seq(Entry) /\ Len(log') = Len(log) + 1
        /\ \A i \in 1..Len(log) : log'[i] = log[i]
        /\ log'[Len(log) + 1] = e
    BY <1>1, AppendProperties
  <1>3. DOMAIN log' = 1..(Len(log) + 1)
    BY <1>2
  <1> QED
    BY <1>1, <1>2, <1>3 DEF Extended

(* What a CREATE or DROP adds to the log, if it is logged.                  *)
NewEntry(op, o) == [op |-> op, obj |-> o, txn |-> inTxn]
LEMMA HandlerLog ==
    ASSUME TypeOK, NEW op \in {"create", "drop"}, NEW o \in Objects, Handler(op, o)
    PROVE  /\ NewEntry(op, o).op = op /\ NewEntry(op, o).obj = o /\ NewEntry(op, o).txn = inTxn
           /\ o \notin Unlogged => Extended(NewEntry(op, o))
           /\ o \in Unlogged => log' = log
  <1>1. NewEntry(op, o) \in Entry
    BY DEF NewEntry, Entry, TypeOK
  <1>2. o \notin Unlogged => log' = Append(log, NewEntry(op, o))
    BY DEF Handler, Logged, NewEntry
  <1>3. o \in Unlogged => log' = log
    BY DEF Handler, Logged
  <1>4. NewEntry(op, o).op = op /\ NewEntry(op, o).obj = o /\ NewEntry(op, o).txn = inTxn
    BY DEF NewEntry
  <1> QED
    BY <1>1, <1>2, <1>3, <1>4, AppendIs

LEMMA DdlFailsLog ==
    ASSUME TypeOK, NEW t \in Tables, DdlFails(t)
    PROVE  \E e \in Entry : e.op = "bad" /\ e.txn = inTxn /\ Extended(e)
  <1>1. [op |-> "bad", obj |-> t, txn |-> inTxn] \in Entry
    BY Kinds DEF Named, Entry, TypeOK
  <1>2. log' = Append(log, [op |-> "bad", obj |-> t, txn |-> inTxn])
    BY DEF DdlFails
  <1>3. Extended([op |-> "bad", obj |-> t, txn |-> inTxn])
    BY <1>1, <1>2, AppendIs
  <1> QED
    BY <1>1, <1>3

(* A CREATE or DROP statement, or one of MIGRATE.                           *)
Statement ==
    \E op \in {"create", "drop"}, o \in Objects :
      /\ pc \in {"idle", "migrate"} /\ Handler(op, o)
LEMMA StatementIs ==
    ASSUME TypeOK,
           MigrateStep \/ \E op \in {"create", "drop"}, o \in Named : Ddl(op, o)
    PROVE  Statement
  <1>1. CASE MigrateStep
    <2>1. MigTable[Lowest] \in Objects /\ pc = "migrate" /\ Handler("create", MigTable[Lowest])
      BY <1>1, LowestIs, Kinds DEF MigrateStep
    <2> QED
      BY <2>1 DEF Statement
  <1>2. ASSUME NEW op \in {"create", "drop"}, NEW o \in Named, Ddl(op, o)
        PROVE  Statement
    BY <1>2, Kinds DEF Statement, Ddl
  <1> QED
    BY <1>1, <1>2

(* Next, with all statements as one, for the parts of the invariant that    *)
(* do not depend on MIGRATE.                                                *)
LEMMA NextSteps ==
    ASSUME TypeOK, [Next]_vars
    PROVE  \/ Statement
           \/ \E t \in Tables : DdlFails(t)
           \/ WalFinish \/ FlushIfDirty
           \/ \E s \in Seqs : Nextval(s)
           \/ \E s \in Seqs, shown \in BOOLEAN : NextvalUnsaved(s, shown)
           \/ \E v \in Versions : CreateMigration(v)
           \/ \E v \in Versions : Migrate(v)
           \/ MigrateError \/ MigrateDone
           \/ HandleBegin \/ CommitSave \/ CommitMarker \/ CommitTruncate \/ HandleRollback
           \/ Crash \/ Replay \/ ReplayFails \/ ReplayDone \/ Reopen
           \/ UNCHANGED vars
  BY NextCases, StatementIs, Zenon

LEMMA ControlStep ==
    ASSUME TypeOK, Control, [Next]_vars
    PROVE  Control'
  <1> USE DEF Control, Recovering
  <1>1. CASE Statement
    BY <1>1 DEF Statement, Handler, AfterHandler, Save, TypeOK
  <1>2. ASSUME NEW t \in Tables, DdlFails(t) PROVE Control'
    BY <1>2 DEF DdlFails, txnVars
  <1>3. CASE WalFinish
    BY <1>3 DEF WalFinish, txnVars
  <1>4. CASE FlushIfDirty
    BY <1>4 DEF FlushIfDirty, txnVars
  <1>5. ASSUME NEW s \in Seqs, Nextval(s) PROVE Control'
    BY <1>5 DEF Nextval, txnVars, Save
  <1>6. ASSUME NEW s \in Seqs, NEW shown \in BOOLEAN, NextvalUnsaved(s, shown) PROVE Control'
    BY <1>6 DEF NextvalUnsaved, txnVars, Save
  <1>7. ASSUME NEW v \in Versions, CreateMigration(v) PROVE Control'
    BY <1>7 DEF CreateMigration, txnVars, Save, AfterHandler
  <1>8. ASSUME NEW v \in Versions, Migrate(v) PROVE Control'
    BY <1>8 DEF Migrate, txnVars
  <1>9. CASE MigrateError
    BY <1>9 DEF MigrateError, txnVars
  <1>10. CASE MigrateDone
    BY <1>10 DEF MigrateDone, txnVars, Save, AfterHandler
  <1>11. CASE HandleBegin
    BY <1>11 DEF HandleBegin
  <1>12. CASE CommitSave
    BY <1>12 DEF CommitSave
  <1>13. CASE CommitMarker
    BY <1>13 DEF CommitMarker, txnVars
  <1>14. CASE CommitTruncate
    BY <1>14 DEF CommitTruncate, txnVars
  <1>15. CASE HandleRollback
    BY <1>15 DEF HandleRollback
  <1>16. CASE Crash
    BY <1>16, CrashIs DEF Crashed, TypeOK
  <1>17. CASE Replay
    BY <1>17 DEF Replay, TypeOK
  <1>18. CASE ReplayFails
    BY <1>18 DEF ReplayFails, txnVars
  <1>19. CASE ReplayDone
    BY <1>19 DEF ReplayDone, txnVars
  <1>20. CASE Reopen
    BY <1>20 DEF Reopen, txnVars
  <1>21. CASE UNCHANGED vars
    BY <1>21 DEF vars, txnVars
  <1> QED
    BY <1>1, <1>2, <1>3, <1>4, <1>5, <1>6, <1>7, <1>8, <1>9, <1>10, <1>11, <1>12, <1>13,
       <1>14, <1>15, <1>16, <1>17, <1>18, <1>19, <1>20, <1>21, NextSteps

LogOK == LogOrder /\ LogSpent /\ LogLogged
LEMMA LogStep ==
    ASSUME TypeOK, Control, LogOK, [Next]_vars
    PROVE  LogOK'
  <1> USE DEF LogOK, LogOrder, LogSpent, LogLogged
  <1>0. Len(log) \in Nat /\ DOMAIN log = 1..Len(log)
    BY DEF TypeOK
  <1>1. ASSUME NEW op \in {"create", "drop"}, NEW o \in Objects,
               pc \in {"idle", "migrate"}, Handler(op, o)
        PROVE  LogOK'
    <2>1. /\ inTxn' = inTxn
          /\ o \in Unlogged \/ inTxn => pc' = "finished"
          /\ o \notin Unlogged /\ ~inTxn => pc' = "applied"
      BY <1>1 DEF Handler, AfterHandler, Logged
    <2>2. CASE o \in Unlogged
      <3>1. log' = log
        BY <1>1, <2>2, HandlerLog
      <3> QED
        BY <1>1, <2>1, <2>2, <3>1 DEF Recovering
    <2>3. CASE o \notin Unlogged
      <3>1. Extended(NewEntry(op, o)) /\ NewEntry(op, o).obj = o /\ NewEntry(op, o).txn = inTxn
        BY <1>1, <2>3, HandlerLog
      <3>2. LogOrder'
        BY <1>0, <1>1, <2>1, <3>1 DEF Extended
      <3>3. LogSpent'
        BY <1>0, <1>1, <2>1, <2>3, <3>1 DEF Extended, Recovering
      <3>4. LogLogged'
        BY <1>0, <1>1, <2>3, <3>1 DEF Extended
      <3> QED
        BY <3>2, <3>3, <3>4
    <2> QED
      BY <2>2, <2>3
  <1>2. ASSUME NEW t \in Tables, DdlFails(t) PROVE LogOK'
    <2>1. PICK e \in Entry : e.op = "bad" /\ e.txn = inTxn /\ Extended(e)
      BY <1>2, DdlFailsLog
    <2>2. inTxn' = inTxn /\ pc = "idle"
      BY <1>2 DEF DdlFails, txnVars
    <2> QED
      BY <1>0, <2>1, <2>2 DEF Extended, Recovering
  <1>3. ASSUME log' = <<>> PROVE LogOK'
    BY <1>3, EmptyLog
  <1>4. ASSUME log' = log, inTxn' = inTxn,
               pc' \in {"saved", "committed"} \/ pc \notin {"saved", "committed"},
               pc # "applied" \/ pc' = pc, Recovering' \/ ~Recovering
        PROVE  LogOK'
    BY <1>4
  <1>5. ASSUME NEW s \in Seqs, Nextval(s) PROVE LogOK'
    BY <1>5, <1>4 DEF Nextval, txnVars, Recovering
  <1>6. ASSUME NEW s \in Seqs, NEW shown \in BOOLEAN, NextvalUnsaved(s, shown) PROVE LogOK'
    BY <1>6, <1>4 DEF NextvalUnsaved, txnVars, Recovering
  <1>7. ASSUME NEW v \in Versions, CreateMigration(v) PROVE LogOK'
    BY <1>7, <1>4 DEF CreateMigration, txnVars, Recovering
  <1>8. ASSUME NEW v \in Versions, Migrate(v) PROVE LogOK'
    BY <1>8, <1>4 DEF Migrate, txnVars, Recovering
  <1>9. CASE MigrateError \/ MigrateDone
    BY <1>9, <1>4 DEF MigrateError, MigrateDone, txnVars, Recovering
  <1>10. CASE HandleBegin
    BY <1>10 DEF HandleBegin, Recovering
  <1>11. CASE CommitSave
    BY <1>11 DEF CommitSave, Recovering
  <1>12. CASE CommitMarker
    BY <1>12, <1>4 DEF CommitMarker, txnVars, Recovering
  <1>13. CASE FlushIfDirty
    BY <1>13, <1>4 DEF FlushIfDirty, txnVars, Recovering
  <1>14. CASE Crash
    <2>1. RecoveredLog
      BY RecoveredIs
    <2>2. log' = Recovered /\ pc' = "replay"
      BY <1>14, CrashIs DEF Crashed
    <2>3. \A i \in DOMAIN log' : ~log'[i].txn /\ (log'[i].op # "bad" => log'[i].obj \notin Unlogged)
      BY <2>1, <2>2 DEF RecoveredLog
    <2> QED
      BY <2>2, <2>3 DEF Recovering
  <1>15. CASE Replay
    BY <1>15, <1>4 DEF Replay, Recovering
  <1>16. CASE ReplayFails \/ Reopen
    BY <1>16, <1>4 DEF ReplayFails, Reopen, txnVars, Recovering
  <1>17. CASE UNCHANGED vars
    BY <1>17, <1>4 DEF vars, txnVars, Recovering
  <1>18. CASE WalFinish \/ CommitTruncate \/ HandleRollback \/ ReplayDone
    BY <1>18, <1>3 DEF WalFinish, CommitTruncate, HandleRollback, ReplayDone
  <1>19. CASE Statement
    BY <1>19, <1>1 DEF Statement
  <1> HIDE DEF LogOK
  <1> QED
    BY <1>19, <1>2, <1>5, <1>6, <1>7, <1>8, <1>9, <1>10, <1>11, <1>12, <1>13, <1>14, <1>15,
       <1>16, <1>17, <1>18, NextSteps

-----------------------------------------------------------------------------
(* Primary indexes and the file.                                            *)
LEMMA EmptyPrimaries == Primaries(EmptyCatalog)
  BY DEF EmptyCatalog, Primaries, IndexesOf

LEMMA AdvancePrimaries ==
    ASSUME NEW c \in CatalogState, NEW s \in Seqs, Primaries(c)
    PROVE  Primaries(Advance(s, c))
  BY AdvanceEffect, OtherPrimaries

LEMMA PrimariesStep ==
    ASSUME TypeOK, Control, PrimariesOK, [Next]_vars
    PROVE  PrimariesOK'
  <1> USE DEF PrimariesOK
  <1>1. CASE Statement
    <2>1. PICK op \in {"create", "drop"}, o \in Objects : Handler(op, o)
      BY <1>1 DEF Statement
    <2>2. Primaries(cat')
      BY <2>1, HandlerRuns, ApplyPrimaries
    <2> QED
      BY <2>1, <2>2 DEF Handler
  <1>2. ASSUME cat' = cat, disk' \in {cat, disk}, snap' \in {cat, disk, snap, EmptyCatalog}
        PROVE  PrimariesOK'
    BY <1>2, EmptyPrimaries
  <1>3. CASE Replay
    <2>1. Primaries(cat')
      BY <1>3, PendingRuns, ApplyPrimaries
    <2> QED
      BY <1>3, <2>1 DEF Replay
  <1>4. ASSUME NEW s \in Seqs, Nextval(s) \/ \E shown \in BOOLEAN : NextvalUnsaved(s, shown)
        PROVE  PrimariesOK'
    <2>1. cat' = Advance(s, cat) /\ disk' = disk /\ snap' = snap
      BY <1>4 DEF Nextval, NextvalUnsaved, txnVars
    <2> QED
      BY <2>1, AdvancePrimaries DEF TypeOK
  <1>5. CASE Crash
    BY <1>5, CrashIs, EmptyPrimaries DEF Crashed
  <1>6. CASE HandleRollback
    BY <1>6, EmptyPrimaries DEF HandleRollback
  <1>7. ASSUME NEW v \in Versions, CreateMigration(v) PROVE PrimariesOK'
    <2>1. cat' \in CatalogState /\ cat'.objs = cat.objs /\ cat'.primary = cat.primary
      BY <1>7 DEF CreateMigration, TypeOK, CatalogState
    <2>2. Primaries(cat')
      BY <2>1, OtherPrimaries DEF TypeOK
    <2> QED
      BY <1>7, <2>2 DEF CreateMigration, txnVars
  <1>8. CASE FlushIfDirty
    <2>1. cat' \in CatalogState /\ cat'.objs = cat.objs /\ cat'.primary = cat.primary
      BY <1>8 DEF FlushIfDirty, TypeOK, CatalogState
    <2>2. Primaries(cat')
      BY <2>1, OtherPrimaries DEF TypeOK
    <2> QED
      BY <1>8, <2>2 DEF FlushIfDirty, txnVars
  <1>9. ASSUME NEW t \in Tables, DdlFails(t) PROVE PrimariesOK'
    BY <1>2, <1>9 DEF DdlFails, txnVars
  <1>10. ASSUME NEW v \in Versions, Migrate(v) PROVE PrimariesOK'
    BY <1>2, <1>10 DEF Migrate, txnVars
  <1>11. CASE WalFinish \/ MigrateError \/ MigrateDone
    BY <1>2, <1>11 DEF WalFinish, MigrateError, MigrateDone, txnVars
  <1>12. CASE HandleBegin \/ CommitSave
    BY <1>2, <1>12 DEF HandleBegin, CommitSave
  <1>13. CASE CommitMarker \/ CommitTruncate \/ ReplayFails \/ ReplayDone \/ Reopen
    BY <1>2, <1>13 DEF CommitMarker, CommitTruncate, ReplayFails, ReplayDone, Reopen, txnVars,
       Control, Recovering
  <1>14. CASE UNCHANGED vars
    BY <1>2, <1>14 DEF vars, txnVars
  <1> HIDE DEF PrimariesOK
  <1> QED
    BY <1>1, <1>3, <1>4, <1>5, <1>6, <1>7, <1>8, <1>9, <1>10, <1>11, <1>12, <1>13, <1>14, NextSteps

LEMMA SaveIs ==
    ASSUME TypeOK, Save, ~inTxn
    PROVE  dirty' = TRUE
  BY DEF Save, TypeOK

LEMMA FileStep ==
    ASSUME TypeOK, Control, FileOK, [Next]_vars
    PROVE  FileOK'
  <1> USE DEF FileOK, Same
  <1>1. CASE Statement
    <2>1. Save /\ inTxn' = inTxn
      BY <1>1 DEF Statement, Handler
    <2> QED
      BY <2>1, SaveIs
  <1>2. ASSUME cat' = cat, disk' = disk, inTxn' = inTxn, dirty' = FALSE => dirty = FALSE
        PROVE  FileOK'
    BY <1>2 DEF TypeOK
  <1>3. CASE Replay
    BY <1>3 DEF Replay
  <1>4. ASSUME NEW s \in Seqs, Nextval(s) \/ \E shown \in BOOLEAN : NextvalUnsaved(s, shown)
        PROVE  FileOK'
    <2>1. Save /\ inTxn' = inTxn
      BY <1>4 DEF Nextval, NextvalUnsaved, txnVars
    <2> QED
      BY <2>1, SaveIs
  <1>5. CASE Crash
    BY <1>5, CrashIs DEF Crashed
  <1>6. CASE HandleRollback \/ CommitSave \/ HandleBegin
    BY <1>6 DEF HandleRollback, CommitSave, HandleBegin
  <1>7. ASSUME NEW v \in Versions, CreateMigration(v) PROVE FileOK'
    <2>1. Save /\ inTxn' = inTxn
      BY <1>7 DEF CreateMigration, txnVars
    <2> QED
      BY <2>1, SaveIs
  <1>8. CASE FlushIfDirty
    BY <1>8 DEF FlushIfDirty, TypeOK, CatalogState, txnVars
  <1>9. ASSUME NEW t \in Tables, DdlFails(t) PROVE FileOK'
    BY <1>2, <1>9 DEF DdlFails, txnVars
  <1>10. ASSUME NEW v \in Versions, Migrate(v) PROVE FileOK'
    BY <1>2, <1>10 DEF Migrate, txnVars
  <1>11. CASE WalFinish \/ MigrateError \/ MigrateDone
    BY <1>11 DEF WalFinish, MigrateError, MigrateDone, txnVars, Save
  <1>12. CASE CommitMarker \/ CommitTruncate \/ ReplayFails \/ ReplayDone
    BY <1>2, <1>12 DEF CommitMarker, CommitTruncate, ReplayFails, ReplayDone, txnVars
  <1>13. CASE Reopen
    BY <1>13 DEF Reopen, txnVars
  <1>14. CASE UNCHANGED vars
    BY <1>2, <1>14 DEF vars, txnVars
  <1> HIDE DEF FileOK
  <1> QED
    BY <1>1, <1>3, <1>4, <1>5, <1>6, <1>7, <1>8, <1>9, <1>10, <1>11, <1>12, <1>13, <1>14, NextSteps

-----------------------------------------------------------------------------
(* Migrations.                                                              *)

(* The same migrations have run in c and in d.                              *)
Alike(c, d) ==
    /\ c.migs = d.migs /\ c.version = d.version
    /\ \A v \in Versions : MigTable[v] \in c.objs <=> MigTable[v] \in d.objs
LEMMA AlikeKeeps ==
    ASSUME NEW c \in CatalogState, NEW d \in CatalogState, Alike(c, d)
    PROVE  /\ Ran(d) = Ran(c) /\ d.version = c.version /\ d.migs = c.migs
           /\ Recorded(c) => Recorded(d)
           /\ Registered(c) => Registered(d)
  <1>1. Ran(d) = Ran(c)
    BY ObjectsOf DEF Alike, Ran
  <1> QED
    BY <1>1 DEF Alike, Recorded, Registered

MigrationsCore ==
    /\ Registered(cat) /\ Registered(snap) /\ Recorded(snap)
    /\ todo \subseteq {v \in cat.migs : cat.version < v}
    /\ current = 0 => Recorded(cat)
    /\ current # 0 =>
         /\ current \in Ran(cat) \cap todo
         /\ \A w \in todo : current <= w
         /\ cat.version \in Ran(cat) \cup {0}
         /\ \A v \in Ran(cat) \ {current} : v <= cat.version
         /\ pc \in {"applied", "finished"}
    /\ current = 0 /\ pc # "migrate" => todo = {}

LEMMA EmptyMigrations ==
    Registered(EmptyCatalog) /\ Recorded(EmptyCatalog) /\ Ran(EmptyCatalog) = {}
  BY DEF Registered, Recorded, Ran, EmptyCatalog

(* Steps that leave MIGRATE where it is.                                    *)
Elsewhere ==
    /\ cat' \in CatalogState /\ Alike(cat, cat')
    /\ snap' \in {snap, EmptyCatalog} \/ (snap' = cat /\ current = 0)
    /\ todo' = todo /\ current' = current
    /\ current # 0 => pc' \in {"applied", "finished"}
    /\ current = 0 /\ pc' # "migrate" => todo = {}
LEMMA ElsewhereKeeps ==
    ASSUME TypeOK, MigrationsCore, Elsewhere
    PROVE  MigrationsCore'
  <1>1. /\ Ran(cat') = Ran(cat) /\ cat'.version = cat.version /\ cat'.migs = cat.migs
        /\ Recorded(cat) => Recorded(cat')
        /\ Registered(cat) => Registered(cat')
    BY AlikeKeeps DEF TypeOK, Elsewhere
  <1>2. Registered(snap') /\ Recorded(snap')
    BY EmptyMigrations DEF Elsewhere, MigrationsCore
  <1> QED
    BY <1>1, <1>2 DEF Elsewhere, MigrationsCore

LEMMA SelfAlike ==
    \A c \in CatalogState : Alike(c, c)
  BY DEF Alike

LEMMA DdlMigrations ==
    ASSUME TypeOK, MigrationsCore,
           NEW op \in {"create", "drop"}, NEW o \in Named, Ddl(op, o)
    PROVE  MigrationsCore'
  <1>1. o \in Objects /\ Handler(op, o) /\ pc = "idle" /\ todo' = todo /\ current' = current
    BY Kinds DEF Ddl, migVars
  <1>2. Effect(op, o, cat, cat')
    BY <1>1, HandlerRuns
  <1>3. Dependents(o) \subseteq Named
    BY <1>1, Kinds DEF Named
  <1>4. Alike(cat, cat') /\ cat' \in CatalogState
    BY <1>2, <1>3, Kinds DEF Effect, Alike
  <1>5. current = 0 /\ todo = {}
    BY <1>1 DEF MigrationsCore
  <1>6. Elsewhere
    BY <1>1, <1>4, <1>5 DEF Elsewhere, Handler
  <1> QED
    BY <1>6, ElsewhereKeeps

LEMMA MigrateStepMigrations ==
    ASSUME TypeOK, MigrationsCore, MigrateStep
    PROVE  MigrationsCore'
  <1> DEFINE v == Lowest
  <1>1. /\ v \in todo /\ v \in Versions /\ \A w \in todo : v <= w
    BY LowestIs DEF MigrateStep
  <1>2. MigTable[v] \in Objects /\ MigTable[v] \notin Functions \cup Unlogged \cup MatViews
    BY <1>1, Kinds DEF Named
  <1>3. Handler("create", MigTable[v]) /\ pc = "migrate" /\ current' = v /\ todo' = todo
    BY DEF MigrateStep
  <1> HIDE DEF v
  <1>4. Effect("create", MigTable[v], cat, cat') /\ Runs("create", MigTable[v], cat, FALSE, cat')
    BY <1>2, <1>3, HandlerRuns
  <1>5. MigTable[v] \notin cat.objs
    BY <1>2, <1>4 DEF Runs, Succeeds
  <1>6. current = 0 /\ Recorded(cat)
    BY <1>3 DEF MigrationsCore
  <1>7. v \in cat.migs /\ cat.version < v
    BY <1>1 DEF MigrationsCore
  <1>8. \A w \in Versions : MigTable[w] = MigTable[v] => w = v
    BY <1>1, DistinctObjects
  <1>9. /\ cat'.objs = cat.objs \cup {MigTable[v]}
        /\ cat'.migs = cat.migs /\ cat'.version = cat.version
    BY <1>4 DEF Effect
  <1>10. cat.migs \subseteq Versions
    BY DEF TypeOK, CatalogState
  <1>11. Ran(cat') = Ran(cat) \cup {v}
    BY <1>7, <1>8, <1>9, <1>10 DEF Ran
  <1>12. Registered(cat')
    BY <1>7, <1>8, <1>9 DEF Registered, MigrationsCore
  <1>13. v # 0 /\ pc' \in {"applied", "finished"}
    BY <1>1, <1>3, CatalogConstants DEF Handler, AfterHandler
  <1>14. snap' = snap
    BY <1>3 DEF Handler
  <1>15. /\ cat'.version \in Ran(cat') \cup {0}
         /\ \A w \in Ran(cat') \ {v} : w <= cat'.version
    BY <1>6, <1>9, <1>11 DEF Recorded
  <1> QED
    BY <1>1, <1>3, <1>7, <1>9, <1>11, <1>12, <1>13, <1>14, <1>15 DEF MigrationsCore

LEMMA FlushMigrations ==
    ASSUME TypeOK, MigrationsCore, FlushIfDirty
    PROVE  MigrationsCore'
  <1>1. pc = "finished" /\ snap' = snap
    BY DEF FlushIfDirty, txnVars
  <1>2. CASE current = 0
    <2>1. cat' = cat /\ todo' = todo /\ current' = current /\ pc' = "idle"
      BY <1>2 DEF FlushIfDirty, migVars
    <2>2. todo = {}
      BY <1>1, <1>2 DEF MigrationsCore
    <2>3. Elsewhere
      BY <1>1, <1>2, <2>1, <2>2, SelfAlike DEF Elsewhere, TypeOK
    <2> QED
      BY <2>3, ElsewhereKeeps
  <1>3. CASE current # 0
    <2>1. /\ cat' = [cat EXCEPT !.version = current] /\ todo' = todo \ {current}
          /\ current' = 0 /\ pc' = "migrate"
      BY <1>3 DEF FlushIfDirty
    <2>2. /\ current \in Ran(cat) /\ current \in todo /\ \A w \in todo : current <= w
          /\ \A v \in Ran(cat) \ {current} : v <= cat.version
      BY <1>3 DEF MigrationsCore
    <2>3. cat'.objs = cat.objs /\ cat'.migs = cat.migs /\ cat'.version = current
      BY <2>1 DEF TypeOK, CatalogState
    <2>4. Ran(cat') = Ran(cat)
      BY <2>3 DEF Ran
    <2>5. /\ \A w \in todo : w \in Nat
          /\ cat.version \in Nat
          /\ \A w \in Ran(cat) : w \in Nat
      <3>1. /\ todo \subseteq Versions /\ cat.version \in {0} \cup Versions
            /\ cat.migs \subseteq Versions
        BY DEF TypeOK, CatalogState
      <3>2. \A w \in Versions : w \in Nat
        BY CatalogConstants
      <3> QED
        BY <3>1, <3>2 DEF Ran
    <2>6. cat.version < current
      BY <2>2 DEF MigrationsCore
    <2>7. Recorded(cat')
      <3>1. \A v \in Ran(cat) : v <= current
        BY <2>2, <2>5, <2>6
      <3> QED
        BY <2>2, <2>3, <2>4, <3>1 DEF Recorded
    <2>8. todo' \subseteq {v \in cat'.migs : cat'.version < v}
      BY <2>1, <2>2, <2>3, <2>5 DEF MigrationsCore
    <2>9. Registered(cat')
      BY <2>3 DEF Registered, MigrationsCore
    <2> QED
      BY <1>1, <2>1, <2>7, <2>8, <2>9 DEF MigrationsCore
  <1> QED
    BY <1>2, <1>3

LEMMA MigrationsStep ==
    ASSUME TypeOK, Control, MigrationsOK, [Next]_vars
    PROVE  MigrationsOK'
  <1>1. SUFFICES ASSUME crashes' = 0 PROVE MigrationsCore'
    BY DEF MigrationsOK, MigrationsCore
  <1>2. crashes = 0 /\ ~Crash
    <2>1. Crash => crashes' # 0
      BY CrashIs DEF Crashed, TypeOK
    <2>2. ~Crash => crashes' = crashes
      <3>1. CASE Statement
        BY <3>1 DEF Statement, Handler
      <3>2. ASSUME NEW t \in Tables, DdlFails(t) PROVE crashes' = crashes
        BY <3>2 DEF DdlFails
      <3>3. ASSUME NEW s \in Seqs, Nextval(s) \/ \E shown \in BOOLEAN : NextvalUnsaved(s, shown)
            PROVE  crashes' = crashes
        BY <3>3 DEF Nextval, NextvalUnsaved
      <3>4. ASSUME NEW v \in Versions, CreateMigration(v) \/ Migrate(v)
            PROVE  crashes' = crashes
        BY <3>4 DEF CreateMigration, Migrate
      <3>5. CASE WalFinish \/ FlushIfDirty \/ MigrateError \/ MigrateDone \/ UNCHANGED vars
        BY <3>5 DEF WalFinish, FlushIfDirty, MigrateError, MigrateDone, vars
      <3>6. CASE HandleBegin \/ CommitSave \/ CommitMarker \/ CommitTruncate \/ HandleRollback
        BY <3>6 DEF HandleBegin, CommitSave, CommitMarker, CommitTruncate, HandleRollback
      <3>7. CASE Replay \/ ReplayFails \/ ReplayDone \/ Reopen
        BY <3>7 DEF Replay, ReplayFails, ReplayDone, Reopen
      <3> QED
        BY <3>1, <3>2, <3>3, <3>4, <3>5, <3>6, <3>7, NextSteps
    <2> QED
      BY <1>1, <2>1, <2>2
  <1>3. MigrationsCore /\ pc \notin {"replay", "failed"}
    BY <1>2 DEF MigrationsOK, MigrationsCore, Control, Recovering
  <1>4. CASE \E op \in {"create", "drop"}, o \in Named : Ddl(op, o)
    BY <1>3, <1>4, DdlMigrations
  <1>5. CASE MigrateStep
    BY <1>3, <1>5, MigrateStepMigrations
  <1>6. CASE FlushIfDirty
    BY <1>3, <1>6, FlushMigrations
  <1>7. ASSUME Elsewhere PROVE MigrationsCore'
    BY <1>3, <1>7, ElsewhereKeeps
  <1>8. /\ cat \in CatalogState /\ Alike(cat, cat)
        /\ pc \notin {"migrate", "applied", "finished"} => current = 0 /\ todo = {}
        /\ pc = "migrate" => current = 0
    BY <1>3, SelfAlike DEF TypeOK, MigrationsCore
  <1>9. ASSUME NEW t \in Tables, DdlFails(t) PROVE Elsewhere
    BY <1>8, <1>9 DEF DdlFails, Elsewhere, txnVars, migVars
  <1>10. ASSUME NEW s \in Seqs, Nextval(s) \/ \E shown \in BOOLEAN : NextvalUnsaved(s, shown)
        PROVE  Elsewhere
    <2>1. cat' = Advance(s, cat) /\ snap' = snap /\ todo' = todo /\ current' = current
          /\ pc = "idle"
      BY <1>10 DEF Nextval, NextvalUnsaved, txnVars, migVars
    <2>2. cat' \in CatalogState /\ Alike(cat, cat')
      BY <1>8, <2>1, AdvanceEffect DEF Alike
    <2> QED
      BY <1>8, <2>1, <2>2 DEF Elsewhere
  <1>11. CASE WalFinish \/ CommitMarker \/ CommitTruncate
    BY <1>8, <1>11, <1>3 DEF WalFinish, CommitMarker, CommitTruncate, Elsewhere, txnVars, migVars,
      MigrationsCore
  <1>12. CASE HandleBegin \/ CommitSave
    <2>1. /\ pc = "idle" /\ cat' = cat /\ snap' \in {cat, EmptyCatalog}
          /\ todo' = todo /\ current' = current /\ pc' # "migrate"
      BY <1>12 DEF HandleBegin, CommitSave, migVars
    <2> QED
      BY <1>7, <1>8, <2>1 DEF Elsewhere
  <1>13. CASE UNCHANGED vars
    BY <1>3, <1>8, <1>13 DEF vars, Elsewhere, txnVars, migVars, MigrationsCore
  <1>14. CASE MigrateDone
    <2>1. pc = "migrate" /\ todo = {} /\ current = 0
      BY <1>8, <1>14 DEF MigrateDone
    <2> QED
      BY <1>7, <1>8, <1>14, <2>1 DEF MigrateDone, Elsewhere, txnVars, migVars
  <1>15. CASE MigrateError
    <2>1. /\ pc = "migrate" /\ current' = 0 /\ todo' = {} /\ cat' = cat /\ snap' = snap
          /\ current = 0
      BY <1>8, <1>15 DEF MigrateError, txnVars
    <2> QED
      BY <1>3, <2>1 DEF MigrationsCore
  <1>16. CASE HandleRollback
    <2>1. /\ cat' = snap /\ snap' = EmptyCatalog /\ todo' = {} /\ current' = 0
      BY <1>8, <1>16 DEF HandleRollback, migVars
    <2> QED
      BY <1>3, <2>1, EmptyMigrations DEF MigrationsCore
  <1>17. ASSUME NEW v \in Versions, CreateMigration(v) PROVE MigrationsCore'
    <2>1. /\ cat'.objs = cat.objs /\ cat'.version = cat.version /\ cat'.migs = cat.migs \cup {v}
          /\ snap' = snap /\ todo' = {} /\ current' = 0 /\ v \notin cat.migs
      BY <1>8, <1>17 DEF CreateMigration, TypeOK, CatalogState, txnVars, migVars
    <2>2. MigTable[v] \notin cat.objs
      BY <1>3, <2>1 DEF MigrationsCore, Registered
    <2>3. Ran(cat') = Ran(cat)
      BY <2>1, <2>2 DEF Ran
    <2>4. Registered(cat') /\ Recorded(cat')
      BY <1>3, <1>8, <1>17, <2>1, <2>3 DEF MigrationsCore, Registered, Recorded, CreateMigration
    <2> QED
      BY <1>3, <2>1, <2>4 DEF MigrationsCore
  <1>18. ASSUME NEW v \in Versions, Migrate(v) PROVE MigrationsCore'
    <2>1. /\ todo' \subseteq {w \in cat.migs : cat.version < w}
          /\ cat' = cat /\ snap' = snap /\ current' = 0 /\ pc' = "migrate" /\ current = 0
      BY <1>8, <1>18 DEF Migrate, txnVars
    <2> QED
      BY <1>3, <2>1 DEF MigrationsCore
  <1>19. ~(Replay \/ ReplayFails \/ ReplayDone \/ Reopen)
    BY <1>3 DEF Replay, ReplayFails, ReplayDone, Reopen
  <1> QED
    BY <1>2, <1>4, <1>5, <1>6, <1>7, <1>9, <1>10, <1>11, <1>12, <1>13, <1>14, <1>15, <1>16,
       <1>17, <1>18, <1>19, NextCases

-----------------------------------------------------------------------------
(* The values of sequences.                                                 *)
Pairs == Seqs \X (0..Limit)
LEMMA BelowLess ==
    ASSUME NEW c, NEW V, NEW W, Below(V, c), W \subseteq V
    PROVE  Below(W, c)
  BY DEF Below
LEMMA BelowSame ==
    ASSUME NEW c, NEW d, NEW V, Below(V, c), d.objs = c.objs, d.next = c.next
    PROVE  Below(V, d)
  BY DEF Below
LEMMA BelowEmpty ==
    ASSUME NEW V
    PROVE  Below(V, EmptyCatalog)
  BY DEF Below, EmptyCatalog
LEMMA BelowEffect ==
    ASSUME NEW op \in {"create", "drop"}, NEW o, NEW c, NEW d, Effect(op, o, c, d),
           NEW V \in SUBSET Pairs, Below(V, c), \A x \in V : x[1] # o
    PROVE  Below(V, d)
  <1>1. ASSUME NEW x \in V, x[1] \in d.objs
        PROVE  x[2] < d.next[x[1]] \/ x[2] = Limit
    <2>1. x[1] \in Seqs /\ x[1] # o
      BY DEF Pairs
    <2>2. x[1] \in c.objs
      BY <1>1, <2>1 DEF Effect
    <2>3. d.next[x[1]] = c.next[x[1]]
      BY <2>1 DEF Effect
    <2> QED
      BY <2>2, <2>3 DEF Below
  <1> QED
    BY <1>1 DEF Below
LEMMA BelowAdvance ==
    ASSUME NEW s \in Seqs, NEW c \in CatalogState, NEW V \in SUBSET Pairs, Below(V, c)
    PROVE  Below(V \cup {<<s, c.next[s]>>}, Advance(s, c))
  <1> DEFINE d == Advance(s, c)
             new == <<s, c.next[s]>>
  <1>1. /\ d.objs = c.objs /\ d \in CatalogState
        /\ \A x \in Seqs : x # s => d.next[x] = c.next[x]
        /\ c.next[s] < d.next[s] \/ c.next[s] = Limit
        /\ c.next[s] <= d.next[s]
    BY AdvanceEffect
  <1>2. new[1] = s /\ new[2] = c.next[s]
    OBVIOUS
  <1>3. c.next[s] \in Nat /\ d.next[s] \in Nat
    BY <1>1, CatalogConstants DEF CatalogState
  <1> HIDE DEF d, new
  <1>4. new[2] < d.next[new[1]] \/ new[2] = Limit
    BY <1>1, <1>2
  <1>5. ASSUME NEW x \in V, x[1] \in d.objs
        PROVE  x[2] < d.next[x[1]] \/ x[2] = Limit
    <2>1. x[1] \in Seqs /\ x[2] \in Nat
      BY CatalogConstants DEF Pairs
    <2>2. x[2] < c.next[x[1]] \/ x[2] = Limit
      BY <1>1, <1>5 DEF Below
    <2>3. CASE x[1] = s
      BY <1>1, <1>3, <2>1, <2>2, <2>3
    <2>4. CASE x[1] # s
      BY <1>1, <2>1, <2>2, <2>4
    <2> QED
      BY <2>3, <2>4
  <1>6. Below(V \cup {new}, d)
    BY <1>4, <1>5 DEF Below
  <1> QED
    BY <1>6 DEF d, new

(* No value of a sequence that the log creates or drops is out.             *)
LogFree(lg, V) == \A i \in DOMAIN lg : lg[i].op # "bad" => \A x \in V : x[1] # lg[i].obj

LEMMA StatementValues ==
    ASSUME TypeOK, Control, LogOK, ValuesOK, Statement
    PROVE  ValuesOK'
  <1>1. PICK op \in {"create", "drop"}, o \in Objects :
          pc \in {"idle", "migrate"} /\ Handler(op, o)
    BY DEF Statement
  <1>2. Effect(op, o, cat, cat')
    BY <1>1, HandlerRuns
  <1>3. /\ issued' = {x \in issued : x[1] # o} /\ held' = {x \in held : x[1] # o}
        /\ disk' = disk /\ snap' = snap /\ inTxn' = inTxn /\ pc' \in {"applied", "finished"}
    BY <1>1 DEF Handler, AfterHandler
  <1>4. Below(issued' \cup held', cat')
    <2>1. issued' \cup held' \in SUBSET Pairs /\ \A x \in issued' \cup held' : x[1] # o
      BY <1>3 DEF TypeOK, Pairs
    <2>2. Below(issued' \cup held', cat)
      BY <1>3, BelowLess DEF ValuesOK
    <2> QED
      BY <1>2, <2>1, <2>2, BelowEffect
  <1>5. Below(issued', disk') /\ (inTxn' => Below(issued', snap'))
    BY <1>3, BelowLess DEF ValuesOK
  <1>6. LogFree(log', issued')
    <2>1. CASE o \in Unlogged
      <3>1. log' = log
        BY <1>1, <2>1, HandlerLog
      <3> QED
        BY <1>3, <3>1 DEF ValuesOK, LogFree
    <2>2. CASE o \notin Unlogged
      <3>1. Extended(NewEntry(op, o)) /\ NewEntry(op, o).obj = o
        BY <1>1, <2>2, HandlerLog
      <3> QED
        BY <1>3, <3>1 DEF ValuesOK, LogFree, Extended
    <2> QED
      BY <2>1, <2>2
  <1> QED
    BY <1>3, <1>4, <1>5, <1>6 DEF ValuesOK, LogFree, Recovering

LEMMA NextvalValues ==
    ASSUME "asof" \notin Ops, TypeOK, Control, ValuesOK, NEW s \in Seqs,
           Nextval(s) \/ \E shown \in BOOLEAN : NextvalUnsaved(s, shown)
    PROVE  ValuesOK'
  <1>1. /\ cat' = Advance(s, cat) /\ issued' = issued /\ pc = "idle"
        /\ held' \subseteq held \cup {<<s, cat.next[s]>>}
        /\ disk' = disk /\ snap' = snap /\ inTxn' = inTxn /\ log' = log
        /\ pc' \in {"idle", "finished"}
    BY DEF Nextval, NextvalUnsaved, txnVars
  <1>2. Below((issued \cup held) \cup {<<s, cat.next[s]>>}, cat')
    <2>1. issued \cup held \in SUBSET Pairs /\ cat \in CatalogState
      BY DEF TypeOK, Pairs
    <2> QED
      BY <1>1, <2>1, BelowAdvance DEF ValuesOK
  <1>3. Below(issued' \cup held', cat')
    <2>1. issued' \cup held' \subseteq (issued \cup held) \cup {<<s, cat.next[s]>>}
      BY <1>1
    <2> QED
      BY <1>2, <2>1, BelowLess
  <1> QED
    BY <1>1, <1>3 DEF ValuesOK, Recovering

LEMMA FlushValues ==
    ASSUME TypeOK, Control, LogOK, FileOK, ValuesOK, FlushIfDirty
    PROVE  ValuesOK'
  <1>1. /\ cat'.objs = cat.objs /\ cat'.next = cat.next
        /\ snap' = snap /\ inTxn' = inTxn /\ log' = log
        /\ pc = "finished" /\ pc' \in {"idle", "migrate"}
        /\ disk' = IF dirty THEN cat ELSE disk
    BY DEF FlushIfDirty, TypeOK, CatalogState, txnVars
  <1>2. Below(issued \cup held, cat')
    BY <1>1, BelowSame DEF ValuesOK
  <1>3. CASE inTxn
    <2>1. issued' = issued /\ held' = held
      BY <1>3 DEF FlushIfDirty
    <2>2. disk' = disk
      BY <1>1, <1>3 DEF Control
    <2> QED
      BY <1>1, <1>2, <2>1, <2>2 DEF ValuesOK, Recovering
  <1>4. CASE ~inTxn
    <2>1. issued' = issued \cup held /\ held' = {}
      BY <1>4 DEF FlushIfDirty
    <2>2. disk'.objs = cat.objs /\ disk'.next = cat.next
      BY <1>1, <1>4 DEF FileOK, Same
    <2>3. Below(issued', disk')
      BY <2>1, <2>2, BelowSame DEF ValuesOK
    <2>4. \A i \in DOMAIN log' : log'[i].op = "bad"
      BY <1>1, <1>4 DEF LogOK, LogOrder, LogSpent, Recovering
    <2>5. Below(issued' \cup held', cat')
      <3>1. issued' \cup held' = issued \cup held
        BY <2>1
      <3> QED
        BY <1>2, <3>1
    <2> QED
      BY <1>1, <1>4, <2>3, <2>4, <2>5 DEF ValuesOK, Recovering
  <1> QED
    BY <1>3, <1>4

LEMMA TransactionValues ==
    ASSUME TypeOK, Control, FileOK, ValuesOK,
           HandleBegin \/ CommitSave \/ CommitTruncate \/ HandleRollback
    PROVE  ValuesOK'
  <1>1. Below(issued, cat) /\ Below({}, cat) /\ Below(issued, disk)
    BY BelowLess DEF ValuesOK
  <1>2. CASE HandleBegin
    <2>1. /\ cat' = cat /\ disk' \in {cat, disk} /\ snap' = cat /\ held' = {}
          /\ issued' = issued /\ log' = log /\ issued' \cup held' = issued /\ pc' = "idle"
      BY <1>2 DEF HandleBegin
    <2> QED
      BY <1>1, <2>1 DEF ValuesOK, Recovering
  <1>3. CASE CommitSave
    <2>1. /\ cat' = cat /\ disk' = cat /\ inTxn' = FALSE /\ held' = held
          /\ issued' = issued /\ log' = log /\ pc' = "saved"
      BY <1>3 DEF CommitSave
    <2> QED
      BY <1>1, <2>1 DEF ValuesOK, Recovering
  <1>4. CASE CommitTruncate
    <2>1. /\ cat' = cat /\ disk' = disk /\ inTxn' = inTxn /\ held' = {}
          /\ issued' = issued \cup held /\ issued' \cup held' = issued \cup held
          /\ log' = <<>> /\ pc' = "idle"
      BY <1>4 DEF CommitTruncate, txnVars
    <2>2. ~inTxn /\ disk.objs = cat.objs /\ disk.next = cat.next
      BY <1>4 DEF CommitTruncate, Control, FileOK, Same
    <2>3. Below(issued \cup held, disk)
      BY <2>2, BelowSame DEF ValuesOK
    <2> QED
      BY <2>1, <2>2, <2>3, EmptyLog DEF ValuesOK, Recovering
  <1>5. CASE HandleRollback
    <2>1. /\ cat' = snap /\ disk' = snap /\ inTxn' = FALSE /\ held' = {}
          /\ issued' = issued /\ issued' \cup held' = issued /\ log' = <<>> /\ pc' = "idle"
          /\ inTxn
      BY <1>5 DEF HandleRollback
    <2> QED
      BY <2>1, EmptyLog DEF ValuesOK, Recovering
  <1> QED
    BY <1>2, <1>3, <1>4, <1>5

LEMMA RecoveryValues ==
    ASSUME TypeOK, Control, LogOK, ValuesOK, Crash \/ Replay \/ ReplayDone
    PROVE  ValuesOK'
  <1>1. CASE Crash
    <2>1. /\ cat' = disk /\ disk' = disk /\ inTxn' = FALSE /\ held' = {} /\ issued' = issued
          /\ issued' \cup held' = issued /\ log' = Recovered
      BY <1>1, CrashIs DEF Crashed
    <2>2. RecoveredLog
      BY RecoveredIs DEF LogOK
    <2>3. LogFree(log', issued')
      BY <2>1, <2>2 DEF RecoveredLog, LogFree, ValuesOK
    <2> QED
      BY <2>1, <2>3 DEF ValuesOK, LogFree
  <1>2. CASE Replay
    <2>1. /\ disk' = cat' /\ inTxn' = inTxn /\ held' = held /\ issued' = issued
          /\ log' = log /\ pc' = pc /\ pc = "replay"
      BY <1>2 DEF Replay, ghosts
    <2>2. held = {} /\ issued' \cup held' = issued /\ ~inTxn
      BY <2>1 DEF ValuesOK, Recovering, Control
    <2>3. /\ Effect(Pending.op, Pending.obj, cat, cat')
          /\ Pending.op \in {"create", "drop"} /\ pos + 1 \in DOMAIN log
      BY <1>2, PendingRuns DEF Runs
    <2>4. \A x \in issued : x[1] # Pending.obj
      BY <2>3 DEF ValuesOK, Pending
    <2>5. Below(issued, cat) /\ issued \in SUBSET Pairs
      BY BelowLess DEF ValuesOK, TypeOK, Pairs
    <2>6. Below(issued, cat')
      BY <2>3, <2>4, <2>5, BelowEffect
    <2> QED
      BY <2>1, <2>2, <2>6 DEF ValuesOK, Recovering
  <1>3. CASE ReplayDone
    BY <1>3, EmptyLog DEF ReplayDone, ValuesOK, Recovering, txnVars
  <1> QED
    BY <1>1, <1>2, <1>3

LEMMA ValuesStep ==
    ASSUME "asof" \notin Ops, TypeOK, Control, LogOK, FileOK, ValuesOK, [Next]_vars
    PROVE  ValuesOK'
  <1>1. ASSUME cat'.objs = cat.objs, cat'.next = cat.next, disk' = disk, snap' = snap,
               inTxn' = inTxn, log' = log \/ log' = <<>>, issued' = issued, held' = held,
               Recovering' => Recovering
        PROVE  ValuesOK'
    <2>1. Below(issued \cup held, cat')
      BY <1>1, BelowSame DEF ValuesOK
    <2>2. LogFree(log', issued')
      BY <1>1, EmptyLog DEF ValuesOK, LogFree
    <2> QED
      BY <1>1, <2>1, <2>2 DEF ValuesOK, LogFree
  <1>2. ASSUME NEW t \in Tables, DdlFails(t) PROVE ValuesOK'
    <2>1. PICK e \in Entry : e.op = "bad" /\ e.txn = inTxn /\ Extended(e)
      BY <1>2, DdlFailsLog
    <2>2. LogFree(log', issued)
      BY <2>1 DEF ValuesOK, LogFree, Extended
    <2> QED
      BY <1>2, <2>2 DEF DdlFails, ValuesOK, LogFree, txnVars, ghosts, Recovering
  <1>3. ASSUME NEW v \in Versions, CreateMigration(v) PROVE ValuesOK'
    <2>1. cat'.objs = cat.objs /\ cat'.next = cat.next
      BY <1>3 DEF CreateMigration, TypeOK, CatalogState
    <2>2. ~Recovering'
      BY <1>3 DEF CreateMigration, AfterHandler, Recovering
    <2> QED
      BY <1>1, <1>3, <2>1, <2>2 DEF CreateMigration, txnVars, ghosts
  <1>4. ASSUME NEW v \in Versions, Migrate(v) PROVE ValuesOK'
    BY <1>1, <1>4 DEF Migrate, txnVars, ghosts, Recovering
  <1>5. CASE MigrateError \/ MigrateDone \/ WalFinish \/ CommitMarker
    <2>1. ~Recovering'
      BY <1>5 DEF MigrateError, MigrateDone, WalFinish, CommitMarker, AfterHandler, Recovering
    <2> QED
      BY <1>1, <1>5, <2>1 DEF MigrateError, MigrateDone, WalFinish, CommitMarker, txnVars, ghosts
  <1>6. CASE ReplayFails \/ UNCHANGED vars
    BY <1>1, <1>6 DEF ReplayFails, vars, txnVars, ghosts, Recovering
  <1>7. CASE Reopen
    <2>1. cat' = cat
      BY <1>7 DEF Reopen, Control, Recovering
    <2> QED
      BY <1>1, <1>7, <2>1 DEF Reopen, txnVars, ghosts, Recovering
  <1> QED
    BY <1>2, <1>3, <1>4, <1>5, <1>6, <1>7, StatementValues, NextvalValues, FlushValues,
       TransactionValues, RecoveryValues, NextSteps

-----------------------------------------------------------------------------
(* The objects that a log decides.                                          *)
LEMMA EffectTouches ==
    ASSUME NEW op \in {"create", "drop"}, NEW o, NEW c, NEW d, Effect(op, o, c, d),
           NEW e, e.op = op, e.obj = o, NEW x
    PROVE  /\ Touches(e, x) => (x \in d.objs <=> op = "create")
           /\ ~Touches(e, x) => (x \in d.objs <=> x \in c.objs)
  <1>1. CASE op = "create"
    <2>1. d.objs = c.objs \cup {o} /\ (Touches(e, x) <=> x = o)
      BY <1>1 DEF Effect, Touches
    <2> QED
      BY <1>1, <2>1
  <1>2. CASE op = "drop"
    <2>1. /\ d.objs = c.objs \ ({o} \cup {y \in Dependents(o) : o \in Tables})
          /\ Touches(e, x) <=> x = o \/ (o \in Tables /\ x \in Dependents(o))
      BY <1>2 DEF Effect, Touches
    <2> QED
      BY <1>2, <2>1
  <1> QED
    BY <1>1, <1>2

LEMMA EmptyDecides ==
    ASSUME NEW S
    PROVE  Decides(<<>>, S) /\ \A o : Untouched(<<>>, o)
  BY EmptyLog DEF Decides, Untouched

LEMMA BadDecides ==
    ASSUME NEW lg, NEW S, \A i \in DOMAIN lg : lg[i].op = "bad"
    PROVE  Decides(lg, S) /\ \A o : Untouched(lg, o)
  BY DEF Decides, LastTouch, Touches, Untouched

LEMMA ExtendedTouch ==
    ASSUME NEW e, Extended(e), NEW k \in DOMAIN log', NEW x, LastTouch(log', k, x)
    PROVE  IF k = Len(log) + 1 THEN Touches(e, x)
           ELSE k \in DOMAIN log /\ LastTouch(log, k, x) /\ ~Touches(e, x) /\ log'[k] = log[k]
  <1>1. CASE k = Len(log) + 1
    BY <1>1 DEF Extended, LastTouch
  <1>2. CASE k # Len(log) + 1
    <2>1. k \in DOMAIN log /\ log'[k] = log[k] /\ k \in Nat /\ k <= Len(log)
      BY <1>2 DEF Extended
    <2>2. ~Touches(e, x)
      <3>1. Touches(e, x) => Len(log) + 1 <= k
        BY DEF LastTouch, Extended
      <3>2. Len(log) \in Nat
        BY DEF Extended
      <3> QED
        BY <2>1, <3>1, <3>2
    <2>3. LastTouch(log, k, x)
      BY <2>1 DEF LastTouch, Extended
    <2> QED
      BY <1>2, <2>1, <2>2, <2>3
  <1> QED
    BY <1>1, <1>2

LEMMA ExtendedDecides ==
    ASSUME NEW e, Extended(e), NEW op \in {"create", "drop"}, NEW o, e.op = op, e.obj = o,
           NEW c, NEW d, Effect(op, o, c, d), Decides(log, c.objs)
    PROVE  /\ Decides(log', d.objs)
           /\ \A x : Untouched(log', x) => Untouched(log, x) /\ (x \in d.objs <=> x \in c.objs)
  <1>1. ASSUME NEW x \in Objects, NEW k \in DOMAIN log', LastTouch(log', k, x)
        PROVE  x \in d.objs <=> log'[k].op = "create"
    <2>1. CASE k = Len(log) + 1
      BY <1>1, <2>1, ExtendedTouch, EffectTouches DEF Extended
    <2>2. CASE k # Len(log) + 1
      <3>1. k \in DOMAIN log /\ LastTouch(log, k, x) /\ ~Touches(e, x) /\ log'[k] = log[k]
        BY <1>1, <2>2, ExtendedTouch
      <3>2. x \in d.objs <=> x \in c.objs
        BY <3>1, EffectTouches
      <3> QED
        BY <3>1, <3>2 DEF Decides
    <2> QED
      BY <2>1, <2>2
  <1>2. ASSUME NEW x, Untouched(log', x)
        PROVE  Untouched(log, x) /\ (x \in d.objs <=> x \in c.objs)
    <2>1. Untouched(log, x) /\ ~Touches(e, x)
      BY <1>2 DEF Untouched, Extended
    <2> QED
      BY <2>1, EffectTouches
  <1> QED
    BY <1>1, <1>2 DEF Decides

LEMMA BadExtendedDecides ==
    ASSUME NEW e, Extended(e), e.op = "bad", NEW S, Decides(log, S)
    PROVE  Decides(log', S)
  <1>1. ASSUME NEW x \in Objects, NEW k \in DOMAIN log', LastTouch(log', k, x)
        PROVE  x \in S <=> log'[k].op = "create"
    <2>1. ~Touches(e, x)
      BY DEF Touches
    <2>2. k \in DOMAIN log /\ LastTouch(log, k, x) /\ log'[k] = log[k]
      BY <1>1, <2>1, ExtendedTouch
    <2> QED
      BY <2>2 DEF Decides
  <1> QED
    BY <1>1 DEF Decides

(* What is not logged is not decided by the log.                            *)
LEMMA UnloggedDecides ==
    ASSUME TypeOK, LogOK, NEW op \in {"create", "drop"}, NEW o \in Unlogged,
           NEW c, NEW d, Effect(op, o, c, d), Decides(log, c.objs)
    PROVE  Decides(log, d.objs)
  <1>1. ASSUME NEW x \in Objects, NEW k \in DOMAIN log, LastTouch(log, k, x)
        PROVE  x \in d.objs <=> x \in c.objs
    <2>1. log[k].op # "bad" /\ log[k].obj \notin Unlogged
      BY <1>1 DEF LastTouch, Touches, LogOK, LogLogged
    <2>2. x = log[k].obj \/ x \in Indexes \cup Columns
      BY <1>1 DEF LastTouch, Touches, Dependents
    <2>3. x # o /\ o \notin Tables
      BY <2>1, <2>2, DistinctObjects
    <2> QED
      BY <2>3 DEF Effect
  <1> QED
    BY <1>1 DEF Decides

(* Outside of a transaction, what is left in the log has failed.            *)
LEMMA SpentLog ==
    ASSUME LogOK, ~Recovering, ~inTxn, pc \notin {"applied", "saved", "committed"}
    PROVE  \A i \in DOMAIN log : log[i].op = "bad"
  BY DEF LogOK, LogOrder, LogSpent

-----------------------------------------------------------------------------
(* The objects of acknowledged statements.                                  *)
Basis == TypeOK /\ Control /\ LogOK /\ FileOK

LEMMA StatementObjects ==
    ASSUME Basis, ObjectsOK, Statement
    PROVE  ObjectsOK'
  <1>1. PICK op \in {"create", "drop"}, o \in Objects :
          pc \in {"idle", "migrate"} /\ Handler(op, o)
    BY DEF Statement
  <1>2. Effect(op, o, cat, cat')
    BY <1>1, HandlerRuns DEF Basis
  <1>3. /\ allowed' = IF inTxn THEN allowed ELSE allowed \cup {cat'.objs}
        /\ disk' = disk /\ snap' = snap /\ inTxn' = inTxn /\ pc' \in {"applied", "finished"}
        /\ pc' = "applied" => ~inTxn /\ o \notin Unlogged
    BY <1>1 DEF Handler, AfterHandler, Logged
  <1>4. ObjectsCore
    BY <1>1 DEF ObjectsOK, Recovering
  <1>5. Decides(log', cat'.objs)
    <2>1. CASE o \in Unlogged
      <3>1. log' = log
        BY <1>1, <2>1, HandlerLog DEF Basis
      <3> QED
        BY <1>2, <1>4, <2>1, <3>1, UnloggedDecides DEF Basis, ObjectsCore
    <2>2. CASE o \notin Unlogged
      <3>1. /\ Extended(NewEntry(op, o)) /\ NewEntry(op, o).obj = o /\ NewEntry(op, o).op = op
        BY <1>1, <2>2, HandlerLog DEF Basis
      <3> QED
        BY <1>2, <1>4, <3>1, ExtendedDecides DEF ObjectsCore
    <2> QED
      BY <2>1, <2>2
  <1>6. ASSUME pc' = "applied", NEW x \in Objects, Untouched(log', x)
        PROVE  x \in cat'.objs <=> x \in disk'.objs
    <2>1. ~inTxn /\ o \notin Unlogged
      BY <1>3, <1>6
    <2>2. cat.objs = disk.objs
      BY <1>1, <1>4, <2>1 DEF ObjectsCore
    <2>3. /\ Extended(NewEntry(op, o)) /\ NewEntry(op, o).obj = o /\ NewEntry(op, o).op = op
      BY <1>1, <2>1, HandlerLog DEF Basis
    <2>4. x \in cat'.objs <=> x \in cat.objs
      BY <1>2, <1>4, <1>6, <2>3, ExtendedDecides DEF ObjectsCore
    <2> QED
      BY <1>3, <2>2, <2>4
  <1> QED
    BY <1>3, <1>4, <1>5, <1>6 DEF ObjectsOK, ObjectsCore

LEMMA FlushObjects ==
    ASSUME Basis, ObjectsOK, FlushIfDirty
    PROVE  ObjectsOK'
  <1>1. /\ cat'.objs = cat.objs /\ snap' = snap /\ inTxn' = inTxn /\ log' = log
        /\ pc = "finished" /\ pc' \in {"idle", "migrate"}
        /\ disk' = IF dirty THEN cat ELSE disk
        /\ allowed' \in {allowed, {cat.objs}} /\ (inTxn => allowed' = allowed)
    BY DEF FlushIfDirty, Basis, TypeOK, CatalogState, txnVars
  <1>2. ObjectsCore
    BY <1>1 DEF ObjectsOK, Recovering
  <1>3. ~inTxn => disk'.objs = cat.objs
    BY <1>1 DEF Basis, FileOK, Same
  <1>4. inTxn => disk' = disk
    BY <1>1 DEF Basis, Control
  <1> QED
    BY <1>1, <1>2, <1>3, <1>4 DEF ObjectsOK, ObjectsCore

LEMMA TransactionObjects ==
    ASSUME Basis, ObjectsOK,
           WalFinish \/ HandleBegin \/ CommitSave \/ CommitMarker \/ CommitTruncate
             \/ HandleRollback
    PROVE  ObjectsOK'
  <1>1. ObjectsCore
    BY DEF WalFinish, HandleBegin, CommitSave, CommitMarker, CommitTruncate, HandleRollback,
       ObjectsOK, Recovering
  <1>2. CASE WalFinish
    <2>1. /\ cat' = cat /\ disk' = disk /\ snap' = snap /\ inTxn' = inTxn /\ allowed' = allowed
          /\ log' = <<>> /\ pc' = "finished"
      BY <1>2 DEF WalFinish, txnVars, ghosts
    <2> QED
      BY <1>1, <2>1, EmptyDecides DEF ObjectsOK, ObjectsCore
  <1>3. CASE HandleBegin
    <2>1. /\ cat' = cat /\ disk' \in {cat, disk} /\ snap' = cat /\ inTxn' = TRUE
          /\ allowed' = allowed /\ log' = log /\ pc' = "idle" /\ ~inTxn
      BY <1>3 DEF HandleBegin
    <2> QED
      BY <1>1, <2>1 DEF ObjectsOK, ObjectsCore
  <1>4. CASE CommitSave
    <2>1. /\ cat' = cat /\ disk' = cat /\ inTxn' = FALSE /\ log' = log /\ pc' = "saved"
          /\ allowed' = allowed \cup {cat.objs}
      BY <1>4 DEF CommitSave
    <2> QED
      BY <1>1, <2>1 DEF ObjectsOK, ObjectsCore
  <1>5. CASE CommitMarker
    <2>1. /\ cat' = cat /\ disk' = disk /\ inTxn' = inTxn /\ log' = log /\ pc = "saved"
          /\ allowed' = allowed /\ snap' = snap /\ pc' = "committed"
      BY <1>5 DEF CommitMarker, txnVars, ghosts
    <2> QED
      BY <1>1, <2>1 DEF ObjectsOK, ObjectsCore
  <1>6. CASE CommitTruncate
    <2>1. /\ cat' = cat /\ disk' = disk /\ inTxn' = inTxn /\ log' = <<>> /\ pc = "committed"
          /\ allowed' = {cat.objs} /\ snap' = snap /\ pc' = "idle" /\ ~inTxn
      BY <1>6 DEF CommitTruncate, txnVars, Basis, Control
    <2> QED
      BY <1>1, <2>1, EmptyDecides DEF ObjectsOK, ObjectsCore
  <1>7. CASE HandleRollback
    <2>1. /\ cat' = snap /\ disk' = snap /\ inTxn' = FALSE /\ log' = <<>> /\ inTxn
          /\ allowed' = allowed /\ pc' = pc /\ pc = "idle"
      BY <1>7 DEF HandleRollback
    <2> QED
      BY <1>1, <2>1, EmptyDecides DEF ObjectsOK, ObjectsCore
  <1> QED
    BY <1>2, <1>3, <1>4, <1>5, <1>6, <1>7

(* The objects that the catalog has when a recovery is done.                *)
LEMMA LeadsToEnd ==
    ASSUME TypeOK, NEW R \in SUBSET Objects, LeadsTo(log, cat.objs, Len(log), R)
    PROVE  cat.objs = R
  <1>1. ASSUME NEW o \in Objects PROVE o \in cat.objs <=> o \in R
    <2> DEFINE T == {k \in DOMAIN log : Touches(log[k], o)}
    <2>1. Len(log) \in Nat /\ DOMAIN log = 1..Len(log) /\ T \in SUBSET (1..Len(log))
      BY DEF TypeOK
    <2>2. CASE T = {}
      BY <2>2 DEF LeadsTo, Untouched
    <2>3. CASE T # {}
      <3>1. PICK k \in T : \A j \in T : j <= k
        <4> HIDE DEF T
        <4> QED
          BY <2>1, <2>3, GreatestExists
      <3>2. LastTouch(log, k, o) /\ k \in 1..Len(log)
        BY <2>1, <3>1 DEF LastTouch
      <3> QED
        BY <3>2 DEF LeadsTo
    <2> QED
      BY <2>2, <2>3
  <1>2. cat.objs \in SUBSET Objects
    BY ObjectsOf DEF TypeOK
  <1> QED
    BY <1>1, <1>2

LEMMA ReplayDoneObjects ==
    ASSUME Basis, ReplayOK, ReplayDone
    PROVE  ObjectsOK'
  <1>1. /\ pc = "replay" /\ pos = Len(log) /\ log' = <<>> /\ cat' = cat /\ disk' = disk
        /\ snap' = snap /\ inTxn' = inTxn /\ allowed' = allowed /\ pc' = "idle"
    BY DEF ReplayDone, txnVars
  <1>2. PICK R \in allowed : LeadsTo(log, cat.objs, pos, R)
    BY <1>1 DEF ReplayOK, Recovering
  <1>3. cat.objs = R
    BY <1>1, <1>2, LeadsToEnd DEF Basis, TypeOK
  <1>4. cat = disk /\ ~inTxn
    BY <1>1 DEF Basis, Control, Recovering
  <1> QED
    BY <1>1, <1>2, <1>3, <1>4, EmptyDecides DEF ObjectsOK, ObjectsCore

LEMMA ObjectsStep ==
    ASSUME Basis, ObjectsOK, ReplayOK, [Next]_vars
    PROVE  ObjectsOK'
  <1>1. ASSUME cat'.objs = cat.objs, disk' = disk, snap' = snap, inTxn' = inTxn,
               log' = log, allowed' = allowed, ~Recovering \/ Recovering',
               pc \in {"idle", "migrate"} \/ pc' = pc \/ pc' \in {"finished", "replay", "failed"}
        PROVE  ObjectsOK'
    <2>1. inTxn' => pc' # "applied"
      BY ControlStep DEF Basis, Control
    <2> QED
      BY <1>1, <2>1 DEF ObjectsOK, ObjectsCore, Recovering
  <1>2. ASSUME NEW t \in Tables, DdlFails(t) PROVE ObjectsOK'
    <2>1. PICK e \in Entry : e.op = "bad" /\ e.txn = inTxn /\ Extended(e)
      BY <1>2, DdlFailsLog DEF Basis
    <2>2. /\ cat' = cat /\ disk' = disk /\ snap' = snap /\ inTxn' = inTxn /\ allowed' = allowed
          /\ pc = "idle" /\ pc' = "finished"
      BY <1>2 DEF DdlFails, txnVars, ghosts
    <2>3. ObjectsCore
      BY <2>2 DEF ObjectsOK, Recovering
    <2>4. Decides(log', cat.objs)
      BY <2>1, <2>3, BadExtendedDecides DEF ObjectsCore
    <2> QED
      BY <2>2, <2>3, <2>4 DEF ObjectsOK, ObjectsCore
  <1>3. ASSUME NEW s \in Seqs, Nextval(s) \/ \E shown \in BOOLEAN : NextvalUnsaved(s, shown)
        PROVE  ObjectsOK'
    <2>1. cat' = Advance(s, cat) /\ cat \in CatalogState
      BY <1>3 DEF Nextval, NextvalUnsaved, Basis, TypeOK
    <2>2. cat'.objs = cat.objs
      BY <2>1, AdvanceEffect
    <2>3. /\ disk' = disk /\ snap' = snap /\ inTxn' = inTxn /\ log' = log /\ allowed' = allowed
          /\ pc = "idle"
      BY <1>3 DEF Nextval, NextvalUnsaved, txnVars
    <2> QED
      BY <1>1, <2>2, <2>3 DEF Recovering
  <1>4. ASSUME NEW v \in Versions, CreateMigration(v) PROVE ObjectsOK'
    <2>1. cat'.objs = cat.objs
      BY <1>4 DEF CreateMigration, Basis, TypeOK, CatalogState
    <2> QED
      BY <1>1, <1>4, <2>1 DEF CreateMigration, txnVars, ghosts, Recovering
  <1>5. ASSUME NEW v \in Versions, Migrate(v) PROVE ObjectsOK'
    BY <1>1, <1>5 DEF Migrate, txnVars, ghosts, Recovering
  <1>6. CASE MigrateError \/ MigrateDone
    BY <1>1, <1>6 DEF MigrateError, MigrateDone, txnVars, ghosts, Recovering
  <1>7. CASE Crash \/ Replay \/ ReplayFails \/ Reopen
    BY <1>7, CrashIs DEF Crashed, Replay, ReplayFails, Reopen, ObjectsOK, Recovering
  <1>8. CASE UNCHANGED vars
    BY <1>1, <1>8 DEF vars, txnVars, ghosts, Recovering
  <1> QED
    BY <1>2, <1>3, <1>4, <1>5, <1>6, <1>7, <1>8, StatementObjects, FlushObjects,
       TransactionObjects, ReplayDoneObjects, NextSteps DEF Basis

-----------------------------------------------------------------------------
(* Crashes and replay.                                                      *)

(* The log of a crash is a part of the log before, with the same            *)
(* statements.                                                              *)
LEMMA RecoveredTouch ==
    ASSUME RecoveredLog, DOMAIN Recovered = DOMAIN log, NEW S
    PROVE  /\ Decides(log, S) => Decides(Recovered, S)
           /\ \A o : Untouched(Recovered, o) => Untouched(log, o)
  <1>1. \A o : \A k \in DOMAIN log : Touches(Recovered[k], o) <=> Touches(log[k], o)
    BY DEF RecoveredLog, Touches
  <1>2. \A k, o : LastTouch(Recovered, k, o) => LastTouch(log, k, o)
    BY <1>1 DEF LastTouch
  <1>3. \A k \in DOMAIN log : Recovered[k].op = log[k].op
    BY DEF RecoveredLog
  <1> QED
    BY <1>1, <1>2, <1>3 DEF Decides, Untouched

LEMMA CrashReplay ==
    ASSUME Basis, ObjectsOK, ReplayOK, Crash
    PROVE  ReplayOK'
  <1>1. RecoveredLog
    BY RecoveredIs DEF Basis, LogOK
  <1>2. /\ log' = Recovered /\ pos' = 0 /\ cat' = disk /\ allowed' = allowed /\ pc # "failed"
        /\ 1..pos' = {}
    BY CrashIs DEF Crashed
  <1>3. SUFFICES \E R \in allowed :
                   /\ Decides(Recovered, R)
                   /\ \A o \in Objects : Untouched(Recovered, o) => (o \in disk.objs <=> o \in R)
    BY <1>2 DEF ReplayOK, LeadsTo
  <1>4. CASE pc = "replay"
    <2>1. PICK R \in allowed : LeadsTo(log, cat.objs, pos, R)
      BY <1>4 DEF ReplayOK, Recovering
    <2>2. cat = disk /\ DOMAIN Recovered = DOMAIN log
      BY <1>1, <1>4 DEF Basis, Control, Recovering, LogOK, LogOrder, RecoveredLog
    <2> QED
      BY <1>1, <2>1, <2>2, RecoveredTouch DEF LeadsTo
  <1>5. CASE pc \in {"applied", "committed"}
    <2>1. ObjectsCore
      BY <1>5 DEF ObjectsOK, Recovering
    <2>2. ~inTxn /\ DOMAIN Recovered = DOMAIN log
      BY <1>1, <1>5 DEF Basis, Control, LogOK, LogOrder, RecoveredLog
    <2>3. \A o \in Objects : Untouched(log, o) => (o \in disk.objs <=> o \in cat.objs)
      BY <1>5, <2>1, <2>2 DEF ObjectsCore
    <2>4. cat.objs \in allowed /\ Decides(log, cat.objs)
      BY <2>1, <2>2 DEF ObjectsCore
    <2> QED
      BY <1>1, <2>2, <2>3, <2>4, RecoveredTouch
  <1>6. CASE pc \notin {"replay", "applied", "committed"}
    <2>1. ObjectsCore /\ ~Recovering /\ ~marker
      BY <1>2, <1>6 DEF ObjectsOK, Recovering, Basis, Control
    <2>2. \A i \in DOMAIN Recovered : Recovered[i].op = "bad"
      BY <1>1, <1>6, <2>1 DEF RecoveredLog, Basis, LogOK, LogSpent
    <2>3. Decides(Recovered, disk.objs) /\ disk.objs \in allowed
      BY <2>1, <2>2, BadDecides DEF ObjectsCore
    <2> QED
      BY <2>3
  <1> QED
    BY <1>4, <1>5, <1>6

LEMMA ReplayReplay ==
    ASSUME Basis, ReplayOK, Replay
    PROVE  ReplayOK'
  <1>1. /\ Pending \in Entry /\ pos + 1 \in DOMAIN log /\ Pending.op \in {"create", "drop"}
        /\ Effect(Pending.op, Pending.obj, cat, cat')
    BY PendingRuns DEF Basis, Runs
  <1>2. pc = "replay" /\ pos' = pos + 1 /\ log' = log /\ allowed' = allowed /\ pos \in Nat
    BY DEF Replay, ghosts, Basis, TypeOK
  <1>3. PICK R \in allowed : LeadsTo(log, cat.objs, pos, R)
    BY <1>2 DEF ReplayOK, Recovering
  <1>4. ASSUME NEW o \in Objects, Untouched(log, o)
        PROVE  o \in cat'.objs <=> o \in R
    <2>1. ~Touches(Pending, o)
      BY <1>1, <1>4 DEF Untouched, Pending
    <2> QED
      BY <1>1, <1>3, <1>4, <2>1, EffectTouches DEF LeadsTo
  <1>5. ASSUME NEW o \in Objects, NEW k \in 1..(pos + 1), LastTouch(log, k, o)
        PROVE  o \in cat'.objs <=> o \in R
    <2>1. CASE Touches(Pending, o)
      <3>1. pos + 1 <= k
        BY <1>1, <1>5, <2>1 DEF LastTouch, Pending
      <3>2. k = pos + 1
        BY <1>2, <3>1
      <3>3. o \in R <=> Pending.op = "create"
        BY <1>3, <1>5, <3>2 DEF LeadsTo, Decides, Pending, LastTouch
      <3> QED
        BY <1>1, <2>1, <3>3, EffectTouches
    <2>2. CASE ~Touches(Pending, o)
      <3>1. k # pos + 1
        BY <1>5, <2>2 DEF LastTouch, Pending
      <3>2. k \in 1..pos
        BY <1>2, <3>1
      <3>3. o \in cat.objs <=> o \in R
        BY <1>3, <1>5, <3>2 DEF LeadsTo
      <3> QED
        BY <1>1, <2>2, <3>3, EffectTouches
    <2> QED
      BY <2>1, <2>2
  <1>6. LeadsTo(log', cat'.objs, pos', R)
    BY <1>2, <1>3, <1>4, <1>5 DEF LeadsTo
  <1> QED
    BY <1>2, <1>3, <1>6 DEF ReplayOK

LEMMA ReplayStep ==
    ASSUME Basis, ObjectsOK, ReplayOK, [Next]_vars
    PROVE  ReplayOK'
  <1>1. CASE ReplayFails \/ Reopen
    <2>1. /\ pc \in {"replay", "failed"} /\ cat' = cat /\ log' = log /\ allowed' = allowed
          /\ pos' \in {pos, 0}
      BY <1>1 DEF ReplayFails, Reopen, ghosts, txnVars, Basis, Control, Recovering
    <2>2. PICK R \in allowed : LeadsTo(log, cat.objs, pos, R)
      BY <2>1 DEF ReplayOK, Recovering
    <2>3. 1..pos' \subseteq 1..pos
      BY <2>1 DEF Basis, TypeOK
    <2>4. LeadsTo(log', cat'.objs, pos', R)
      BY <2>1, <2>2, <2>3 DEF LeadsTo
    <2> QED
      BY <2>1, <2>2, <2>4 DEF ReplayOK
  <1>2. CASE UNCHANGED vars
    BY <1>2 DEF vars, ghosts, ReplayOK, Recovering
  <1>3. CASE Statement
    BY <1>3 DEF Statement, Handler, AfterHandler, ReplayOK, Recovering
  <1>4. ASSUME NEW t \in Tables, DdlFails(t) PROVE ReplayOK'
    BY <1>4 DEF DdlFails, ReplayOK, Recovering
  <1>5. ASSUME NEW s \in Seqs, Nextval(s) \/ \E shown \in BOOLEAN : NextvalUnsaved(s, shown)
        PROVE  ReplayOK'
    BY <1>5 DEF Nextval, NextvalUnsaved, ReplayOK, Recovering
  <1>6. ASSUME NEW v \in Versions, CreateMigration(v) \/ Migrate(v) PROVE ReplayOK'
    BY <1>6 DEF CreateMigration, Migrate, AfterHandler, ReplayOK, Recovering
  <1>7. CASE WalFinish \/ FlushIfDirty \/ MigrateError \/ MigrateDone
    BY <1>7 DEF WalFinish, FlushIfDirty, MigrateError, MigrateDone, AfterHandler, ReplayOK,
       Recovering
  <1>8. CASE HandleBegin \/ CommitSave \/ CommitMarker \/ CommitTruncate \/ HandleRollback
    BY <1>8 DEF HandleBegin, CommitSave, CommitMarker, CommitTruncate, HandleRollback, ReplayOK,
       Recovering
  <1>9. CASE ReplayDone
    BY <1>9 DEF ReplayDone, ReplayOK, Recovering
  <1> QED
    BY <1>1, <1>2, <1>3, <1>4, <1>5, <1>6, <1>7, <1>8, <1>9, CrashReplay, ReplayReplay, NextSteps
       DEF Basis

-----------------------------------------------------------------------------
(* Opens that fail.                                                         *)
LEMMA SucceedsSame ==
    ASSUME NEW op, NEW o, NEW c, NEW d, NEW r, c.objs = d.objs, Succeeds(op, o, c, r)
    PROVE  Succeeds(op, o, d, r)
  BY DEF Succeeds

LEMMA StatementOpen ==
    ASSUME Basis, ObjectsOK, Statement
    PROVE  OpenOK'
  <1>1. PICK op \in {"create", "drop"}, o \in Objects :
          pc \in {"idle", "migrate"} /\ Handler(op, o)
    BY DEF Statement
  <1>2. /\ disk' = disk /\ pc' \in {"applied", "finished"} /\ Succeeds(op, o, cat, FALSE)
        /\ pc' = "applied" => ~inTxn /\ o \notin Unlogged
    BY <1>1 DEF Handler, AfterHandler, Logged
  <1>3. ASSUME pc' = "applied", NEW k \in DOMAIN log', log'[k].op # "bad"
        PROVE  Succeeds(log'[k].op, log'[k].obj, disk', FALSE)
    <2>1. Extended(NewEntry(op, o)) /\ NewEntry(op, o).obj = o /\ NewEntry(op, o).op = op
      BY <1>1, <1>2, <1>3, HandlerLog DEF Basis
    <2>2. \A i \in DOMAIN log : log[i].op = "bad"
      BY <1>1, <1>2, <1>3, SpentLog DEF Basis, Recovering
    <2>3. log'[k] = NewEntry(op, o)
      BY <1>3, <2>1, <2>2 DEF Extended
    <2>4. cat.objs = disk.objs
      BY <1>1, <1>2, <1>3 DEF ObjectsOK, ObjectsCore, Recovering
    <2> QED
      BY <1>2, <2>1, <2>3, <2>4, SucceedsSame
  <1> QED
    BY <1>2, <1>3 DEF OpenOK

LEMMA CrashOpen ==
    ASSUME Basis, OpenOK, Crash
    PROVE  OpenOK'
  <1>1. RecoveredLog
    BY RecoveredIs DEF Basis, LogOK
  <1>2. pc' = "replay" /\ log' = Recovered /\ pos' = 0 /\ cat' = disk /\ pc # "failed"
    BY CrashIs DEF Crashed
  <1>3. ASSUME excuses' = {}
        PROVE  /\ pc \notin {"committed", "replay"}
               /\ \A i \in DOMAIN Recovered :
                    Recovered[i].op # "bad" /\ Recovered[i].obj \notin MatViews \cap disk.objs
    BY <1>3 DEF Crash
  <1>4. ASSUME excuses' = {}, NEW k \in DOMAIN Recovered
        PROVE  /\ Len(Recovered) = 1
               /\ Succeeds(Recovered[k].op, Recovered[k].obj, disk, TRUE)
    <2>1. ~marker /\ ~Recovering
      BY <1>2, <1>3, <1>4 DEF Basis, Control, Recovering
    <2>2. ASSUME NEW i \in DOMAIN Recovered
          PROVE  /\ i \in DOMAIN log /\ i = Len(log) /\ pc = "applied" /\ log[i].op # "bad"
                 /\ Recovered[i].op = log[i].op /\ Recovered[i].obj = log[i].obj
      BY <1>1, <1>3, <1>4, <2>1 DEF RecoveredLog, Basis, LogOK, LogSpent
    <2>3. Len(Recovered) \in Nat /\ DOMAIN Recovered = 1..Len(Recovered)
      BY <1>1 DEF RecoveredLog
    <2>4. 1 \in DOMAIN Recovered /\ Len(Recovered) \in DOMAIN Recovered
      BY <2>3
    <2>5. Len(Recovered) = 1
      BY <2>2, <2>4
    <2>6. Succeeds(log[k].op, log[k].obj, disk, FALSE)
      BY <2>2 DEF OpenOK
    <2>7. log[k].obj \notin MatViews \cap disk.objs
      BY <1>3, <1>4, <2>2
    <2>8. Succeeds(log[k].op, log[k].obj, disk, TRUE)
      BY <2>6, <2>7 DEF Succeeds
    <2> QED
      BY <2>2, <2>5, <2>8
  <1> QED
    BY <1>2, <1>4 DEF OpenOK

LEMMA OpenStep ==
    ASSUME Basis, ObjectsOK, OpenOK, [Next]_vars
    PROVE  OpenOK'
  <1>1. ASSUME pc' \notin {"applied", "replay", "failed"} PROVE OpenOK'
    BY <1>1 DEF OpenOK
  <1>2. ASSUME NEW t \in Tables, DdlFails(t) PROVE OpenOK'
    BY <1>1, <1>2 DEF DdlFails
  <1>3. ASSUME NEW s \in Seqs, Nextval(s) \/ \E shown \in BOOLEAN : NextvalUnsaved(s, shown)
        PROVE  OpenOK'
    BY <1>1, <1>3 DEF Nextval, NextvalUnsaved
  <1>4. ASSUME log' = log, inTxn' = inTxn, pc' \in {"applied", "finished"},
               pc \in {"idle", "migrate"}
        PROVE  OpenOK'
    <2>1. inTxn' => pc' # "applied"
      BY ControlStep DEF Basis, Control
    <2>2. pc' = "applied" => \A i \in DOMAIN log' : log'[i].op = "bad"
      BY <1>4, <2>1, SpentLog DEF Basis, Recovering
    <2> QED
      BY <1>4, <2>2 DEF OpenOK
  <1>5. ASSUME NEW v \in Versions, CreateMigration(v) PROVE OpenOK'
    BY <1>4, <1>5 DEF CreateMigration, txnVars, AfterHandler
  <1>6. ASSUME NEW v \in Versions, Migrate(v) PROVE OpenOK'
    BY <1>1, <1>6 DEF Migrate
  <1>7. CASE MigrateDone
    BY <1>4, <1>7 DEF MigrateDone, txnVars, AfterHandler
  <1>8. CASE WalFinish \/ MigrateError \/ FlushIfDirty
    BY <1>1, <1>8 DEF WalFinish, MigrateError, FlushIfDirty
  <1>9. CASE HandleBegin \/ CommitSave \/ CommitMarker \/ CommitTruncate \/ HandleRollback
    BY <1>1, <1>9 DEF HandleBegin, CommitSave, CommitMarker, CommitTruncate, HandleRollback
  <1>10. CASE Replay
    <2>1. pc' = pc /\ pc = "replay" /\ log' = log /\ pos' # 0 /\ excuses' = excuses
      BY <1>10 DEF Replay, ghosts, Basis, TypeOK
    <2> QED
      BY <2>1 DEF OpenOK
  <1>11. CASE ReplayFails
    <2>1. /\ pc = "replay" /\ pc' = "failed" /\ excuses' = excuses /\ pos < Len(log)
          /\ ~Succeeds(log[pos + 1].op, log[pos + 1].obj, cat, TRUE)
      BY <1>11 DEF ReplayFails, ghosts
    <2>2. Len(log) \in Nat /\ DOMAIN log = 1..Len(log) /\ pos \in Nat
      BY DEF Basis, TypeOK
    <2>3. ASSUME excuses = {} PROVE FALSE
      <3>1. pos + 1 \in DOMAIN log
        BY <2>1, <2>2
      <3>2. Len(log) = 1
        BY <2>1, <2>3, <3>1 DEF OpenOK
      <3>3. pos = 0
        BY <2>1, <2>2, <3>2
      <3> QED
        BY <2>1, <2>3, <3>1, <3>3 DEF OpenOK
    <2> QED
      BY <2>1, <2>3 DEF OpenOK
  <1>12. CASE ReplayDone
    BY <1>1, <1>12 DEF ReplayDone
  <1>13. CASE Reopen
    BY <1>13 DEF Reopen, OpenOK, ghosts
  <1>14. CASE UNCHANGED vars
    BY <1>14 DEF vars, OpenOK, ghosts
  <1> QED
    BY <1>2, <1>3, <1>5, <1>6, <1>7, <1>8, <1>9, <1>10, <1>11, <1>12, <1>13, <1>14,
       StatementOpen, CrashOpen, NextSteps DEF Basis

-----------------------------------------------------------------------------
(* The theorems.                                                            *)
LEMMA InitIInv ==
    ASSUME Init
    PROVE  IInv /\ ValuesOK
  <1>1. TypeOK
    <2>1. 0 \in 0..Len(<<>>) /\ 0 \in 0..MaxCrashes
      BY EmptyLog, CatalogConstants
    <2>2. /\ cat \in CatalogState /\ disk \in CatalogState /\ snap \in CatalogState
          /\ log \in Seq(Entry) /\ pos \in 0..Len(log) /\ crashes \in 0..MaxCrashes
      BY <2>1, EmptyType, EmptyLog DEF Init
    <2> QED
      BY <2>2 DEF Init, TypeOK, PCs
  <1>2. Control
    BY DEF Init, Control, Recovering
  <1>3. LogOrder /\ LogSpent /\ LogLogged
    BY EmptyLog DEF Init, LogOrder, LogSpent, LogLogged
  <1>4. PrimariesOK
    BY EmptyPrimaries DEF Init, PrimariesOK
  <1>5. FileOK
    BY DEF Init, FileOK, Same
  <1>6. ObjectsOK
    <2>1. EmptyCatalog.objs = {}
      BY DEF EmptyCatalog
    <2> QED
      BY <2>1, EmptyDecides DEF Init, ObjectsOK, ObjectsCore
  <1>7. ReplayOK
    BY DEF Init, ReplayOK, Recovering
  <1>8. OpenOK
    BY DEF Init, OpenOK
  <1>9. MigrationsOK
    BY EmptyMigrations DEF Init, MigrationsOK
  <1>10. ValuesOK
    BY BelowEmpty, EmptyLog DEF Init, ValuesOK
  <1> QED
    BY <1>1, <1>2, <1>3, <1>4, <1>5, <1>6, <1>7, <1>8, <1>9, <1>10 DEF IInv

LEMMA IInvStep ==
    ASSUME IInv, [Next]_vars
    PROVE  IInv'
  <1>1. /\ TypeOK /\ Control /\ LogOrder /\ LogOK /\ FileOK /\ PrimariesOK /\ ObjectsOK
        /\ ReplayOK /\ OpenOK /\ MigrationsOK /\ Basis
    BY DEF IInv, LogOK, Basis
  <1>2. TypeOK' /\ Control' /\ LogOK' /\ FileOK' /\ PrimariesOK'
    BY <1>1, TypeStep, ControlStep, LogStep, FileStep, PrimariesStep
  <1>3. ObjectsOK' /\ ReplayOK' /\ OpenOK' /\ MigrationsOK'
    BY <1>1, ObjectsStep, ReplayStep, OpenStep, MigrationsStep
  <1> QED
    BY <1>2, <1>3 DEF IInv, LogOK

(* The inductive invariant, for every set of objects and every bound.       *)
THEOREM Invariance == Spec => []IInv
  <1>1. Init => IInv
    BY InitIInv
  <1>2. IInv /\ [Next]_vars => IInv'
    BY IInvStep
  <1> QED
    BY <1>1, <1>2, PTL DEF Spec

(* The catalog, its file, the log and the statement have their types.       *)
THEOREM TypeCorrect == Spec => []TypeOK
  <1>1. IInv => TypeOK
    BY DEF IInv
  <1> QED
    BY <1>1, Invariance, PTL

(* In memory and in catalog.json every indexed table exists and has exactly *)
(* one primary index, whatever CREATE and DROP INDEX, DROP TABLE, ROLLBACK, *)
(* crashes and replays do.                                                  *)
THEOREM PrimaryIsOne == Spec => []OnePrimary
  <1>1. IInv => OnePrimary
    BY OnePrimaryOf DEF IInv, PrimariesOK, OnePrimary
  <1> QED
    BY <1>1, Invariance, PTL

(* The database that opens after any number of crashes has the objects of   *)
(* all acknowledged statements and transactions, and those of the one that  *)
(* was interrupted either entirely or not at all.                           *)
THEOREM CrashesAreAtomic == Spec => []StatementsAtomic
  <1>1. IInv => StatementsAtomic
    BY DEF IInv, ObjectsOK, ObjectsCore, StatementsAtomic, Recovering
  <1> QED
    BY <1>1, Invariance, PTL

(* An open is refused for one of the four known reasons only.               *)
THEOREM OpenFailsForReasons == Spec => []OpenFailsOnlyThen
  <1>1. IInv => OpenFailsOnlyThen
    BY DEF IInv, OpenOK, OpenFailsOnlyThen
  <1> QED
    BY <1>1, Invariance, PTL

(* Until a crash, schema_version tells which migrations have run.           *)
THEOREM VersionsRecorded == Spec => []MigrationsRecorded
  <1>1. IInv => MigrationsRecorded
    BY DEF IInv, MigrationsOK, MigrationsRecorded, Recorded, Ran
  <1> QED
    BY <1>1, Invariance, PTL

(* Unless a SELECT ... AS OF with nextval is among the statements, no value *)
(* that an acknowledged statement got from nextval is issued again.         *)
THEOREM ValuesAreNew == "asof" \notin Ops => (Spec => []NoValueTwice)
  <1> SUFFICES ASSUME "asof" \notin Ops PROVE Spec => []NoValueTwice
    OBVIOUS
  <1> DEFINE VInv == IInv /\ ValuesOK
  <1>1. Init => VInv
    BY InitIInv
  <1>2. VInv /\ [Next]_vars => VInv'
    <2> SUFFICES ASSUME VInv, [Next]_vars PROVE VInv'
      OBVIOUS
    <2>1. IInv'
      BY IInvStep
    <2>2. ValuesOK'
      <3>1. TypeOK /\ Control /\ LogOK /\ FileOK /\ ValuesOK
        BY DEF IInv, LogOK
      <3> QED
        BY <3>1, ValuesStep
    <2> QED
      BY <2>1, <2>2
  <1>3. VInv => NoValueTwice
    BY DEF ValuesOK, Below, NoValueTwice
  <1> HIDE DEF VInv
  <1> QED
    BY <1>1, <1>2, <1>3, PTL DEF Spec
=============================================================================
