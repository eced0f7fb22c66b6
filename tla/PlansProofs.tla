---------------------------- MODULE PlansProofs -----------------------------
(***************************************************************************)
(* Theorems about Plans, for any number of versions of the table: types,   *)
(* and which plans a SELECT may run.                                       *)
(***************************************************************************)
EXTENDS Plans, TLAPS

Open == [files : Versions, backup : Versions \cup {None}, def : Versions,
         view : Kinds \cup {None}]

LEMMA VersionType == ASSUME TypeOK, fresh < Changes PROVE fresh + 1 \in Versions
  BY PlanConstants DEF TypeOK, Versions

LEMMA PlanType ==
    ASSUME TypeOK, NEW x \in Texts
    PROVE  Planned(x) \in Plan \cup {None} /\ Served(x) \in Plan \cup {None}
  BY DEF TypeOK, Planned, Served, Scan, Plan

LEMMA RegisteredType ==
    ASSUME NEW kind, NEW d \in Versions
    PROVE  Reloaded(kind, d) \in Plan \cup {None}
  BY DEF Reloaded, Scan, Plan

LEMMA EvictType ==
    ASSUME TypeOK, NEW texts, Evict(texts) PROVE plans' \in [Texts -> Plan \cup {None}]
  BY DEF TypeOK, Evict

LEMMA OpenType == ASSUME TypeOK, txn # None PROVE txn \in Open
  BY DEF TypeOK, Open

(* A text that is not evicted keeps its plan.                               *)
LEMMA Kept ==
    ASSUME TypeOK, NEW texts, Evict(texts), NEW x \in Texts
    PROVE  plans'[x] = IF x \in texts THEN None ELSE plans[x]
  BY DEF TypeOK, Evict

-----------------------------------------------------------------------------
LEMMA InitType == Init => TypeOK
  BY PlanConstants DEF Init, TypeOK, Versions, Plan

LEMMA NextType == TypeOK /\ [Next]_vars => TypeOK'
  <1> SUFFICES ASSUME TypeOK, [Next]_vars PROVE TypeOK'
    OBVIOUS
  <1> USE DEF table, views
  <1>1. CASE Insert
    BY <1>1, VersionType, EvictType DEF Insert, TypeOK
  <1>2. CASE Write
    <2>1. txn' \in {None} \cup Open
      <3>1. CASE txn # None /\ txn.backup = None
        BY <1>2, <3>1, OpenType DEF Write, Open, TypeOK
      <3> QED
        BY <1>2, <3>1 DEF Write, TypeOK, Open
    <2> QED
      BY <1>2, <2>1, VersionType, EvictType DEF Write, TypeOK, Open
  <1>3. CASE HandleTruncate
    <2>1. txn' \in {None} \cup Open
      <3>1. CASE txn # None
        BY <1>3, <3>1, OpenType, VersionType DEF HandleTruncate, Open
      <3> QED
        BY <1>3, <3>1 DEF HandleTruncate, TypeOK
    <2> QED
      BY <1>3, <2>1, VersionType DEF HandleTruncate, TypeOK, Open
  <1>4. CASE HandleAlterTable
    BY <1>4, VersionType, EvictType DEF HandleAlterTable, TypeOK, Texts
  <1>5. ASSUME NEW x \in Texts, Select(x) PROVE TypeOK'
    BY <1>5, PlanType DEF Select, TypeOK
  <1>6. ASSUME NEW x \in Texts, HandlePrepare(x) PROVE TypeOK'
    BY <1>6, PlanType DEF HandlePrepare, TypeOK
  <1>7. ASSUME NEW x \in Texts, HandleExecutePrepared(x) PROVE TypeOK'
    BY <1>7 DEF HandleExecutePrepared, TypeOK
  <1>8. ASSUME NEW kind \in Kinds, NEW orReplace, HandleCreateView(kind, orReplace)
        PROVE  TypeOK'
    BY <1>8, EvictType DEF HandleCreateView, Registers, Scan, Plan, TypeOK
  <1>9. CASE HandleDropView
    BY <1>9, EvictType DEF HandleDropView, TypeOK
  <1>10. CASE HandleRefreshMaterializedView
    BY <1>10 DEF HandleRefreshMaterializedView, Registers, Scan, Plan, TypeOK, Texts
  <1>11. CASE HandleBegin
    BY <1>11 DEF HandleBegin, TypeOK
  <1>12. CASE HandleCommit
    BY <1>12 DEF HandleCommit, TypeOK
  <1>13. CASE HandleRollback
    <2>1. txn \in Open
      BY <1>13, OpenType DEF HandleRollback
    <2>2. disk' \in Versions /\ total' \in Versions /\ def' \in Versions
      BY <1>13, <2>1 DEF HandleRollback, Open
    <2>3. registered' \in Plan \cup {None} /\ view' \in Kinds \cup {None}
      BY <1>13, <2>1, RegisteredType DEF HandleRollback, Open, TypeOK
    <2> QED
      BY <1>13, <2>2, <2>3 DEF HandleRollback, TypeOK
  <1>14. CASE Reopen
    BY <1>14, RegisteredType DEF Reopen, TypeOK
  <1>15. CASE UNCHANGED vars
    BY <1>15 DEF vars, TypeOK
  <1> QED
    BY <1>1, <1>2, <1>3, <1>4, <1>5, <1>6, <1>7, <1>8, <1>9, <1>10, <1>11, <1>12,
       <1>13, <1>14, <1>15 DEF Next

(* The table, the cache, the prepared statements and the view keep their    *)
(* types, however many changes there are.                                   *)
THEOREM TypeCorrect == Spec => []TypeOK
  BY InitType, NextType, PTL DEF Spec

-----------------------------------------------------------------------------
(* SelectsFresh is inductive: a step that changes what ctx.sql would plan   *)
(* for a text evicts the text or leaves its plan behind (outlived), and a   *)
(* step that caches a plan caches the one of the moment, or the one it ran. *)
LEMMA NextFresh == TypeOK /\ SelectsFresh /\ [Next]_vars => SelectsFresh'
  <1> SUFFICES ASSUME TypeOK, SelectsFresh, [Next]_vars,
                      NEW x \in Texts, x \notin outlived'
               PROVE  plans'[x] = None \/ plans'[x] = Planned(x)'
    BY DEF SelectsFresh, Served
  <1> USE DEF table, views
  <1>a. x \notin outlived => plans[x] = None \/ plans[x] = Planned(x)
    BY DEF SelectsFresh, Served
  <1>1. CASE Insert \/ Write
    BY <1>1, <1>a, Kept DEF Insert, Write, Mentions, Planned
  <1>2. CASE HandleTruncate
    BY <1>2, <1>a DEF HandleTruncate, Planned
  <1>3. CASE HandleAlterTable
    <2>1. Evict(Mentions("t")) /\ registered' = registered
      BY <1>3 DEF HandleAlterTable
    <2>2. CASE x = "t"
      BY <2>1, <2>2, Kept DEF Mentions
    <2>3. CASE x = "T"
      BY <1>3, <2>1, <2>3, Kept DEF HandleAlterTable, Mentions
    <2>4. CASE x = "v"
      BY <1>3, <1>a, <2>1, <2>4, Kept DEF HandleAlterTable, Mentions, Planned
    <2> QED
      BY <2>2, <2>3, <2>4 DEF Texts
  <1>4. ASSUME NEW y \in Texts, Select(y) PROVE plans'[x] = None \/ plans'[x] = Planned(x)'
    BY <1>4, <1>a DEF Select, Served, Planned, TypeOK
  <1>5. ASSUME NEW y \in Texts, HandlePrepare(y)
        PROVE  plans'[x] = None \/ plans'[x] = Planned(x)'
    BY <1>5, <1>a DEF HandlePrepare, Planned, TypeOK
  <1>6. ASSUME NEW y \in Texts, HandleExecutePrepared(y)
        PROVE  plans'[x] = None \/ plans'[x] = Planned(x)'
    BY <1>6, <1>a DEF HandleExecutePrepared, Planned
  <1>7. ASSUME NEW kind, NEW orReplace, HandleCreateView(kind, orReplace)
        PROVE  plans'[x] = None
    BY <1>7, Kept DEF HandleCreateView
  <1>8. CASE HandleDropView
    BY <1>8, <1>a, Kept DEF HandleDropView, Mentions, Planned
  <1>9. CASE HandleRefreshMaterializedView
    BY <1>9, <1>a DEF HandleRefreshMaterializedView, Planned
  <1>10. CASE HandleBegin \/ HandleCommit
    BY <1>10, <1>a DEF HandleBegin, HandleCommit, Planned
  <1>11. CASE HandleRollback
    BY <1>11, Zenon DEF HandleRollback
  <1>12. CASE Reopen
    BY <1>12 DEF Reopen
  <1>13. CASE UNCHANGED vars
    BY <1>13, <1>a DEF vars, Planned
  <1> QED
    BY <1>1, <1>2, <1>3, <1>4, <1>5, <1>6, <1>7, <1>8, <1>9, <1>10, <1>11, <1>12, <1>13
       DEF Next

(* Every SELECT whose text no rollback, refresh or spelling has left behind *)
(* runs the plan that would be made of it now.                              *)
THEOREM CachedPlansFresh == Spec => []SelectsFresh
  <1>1. Init => SelectsFresh
    BY DEF Init, SelectsFresh, Served
  <1> QED
    BY <1>1, TypeCorrect, NextFresh, PTL DEF Spec
=============================================================================
