------------------------------- MODULE Plans --------------------------------
(***************************************************************************)
(* The plans PotatoDB keeps: the plan cache of SELECT, prepared            *)
(* statements, views and materialized views as the session context has    *)
(* them. crates/engine/src/lib.rs.                                         *)
(*                                                                         *)
(* One table and one view. The columns of the table are versions, numbered *)
(* in the order they come to be, and so are its rows. How a flush, a       *)
(* rewrite and a rollback get there is the business of Ingest and          *)
(* Transactions.                                                           *)
(***************************************************************************)
EXTENDS Integers

CONSTANTS
    Changes,     \* bound: versions of the table
    None         \* nothing cached, prepared, registered or open

ASSUME PlanConstants == Changes \in Nat /\ None \notin Int

VARIABLES
    disk,        \* the rows in the files of the table
    total,       \* and with the buffered rows
    def,         \* the columns of the table
    fresh,       \* versions handed out so far
    txn,         \* active_txn
    plans,       \* plan_cache
    prepared,    \* prepared_statements
    view,        \* catalog.views: None, "plain" or "materialized"
    registered,  \* what the session context has under the view's name
    backing,     \* rows in the table behind a materialized view
    outlived     \* ghost: texts whose plan a change has left behind

table == <<disk, total, def, fresh>>
views == <<view, registered, backing>>
vars == <<table, txn, plans, prepared, views, outlived>>

Versions == 0..Changes
Kinds == {"plain", "materialized"}

(* The texts that are cached: "t" and "T" read the table, spelled as in the *)
(* catalog and in capitals, "v" reads the view.                             *)
Texts == {"t", "T", "v"}

(* A plan holds what it scans, the files of the table or of the backing     *)
(* table, listed when it runs, and the columns known when it was made.      *)
Plan == [scan : {"table", "backing"}, def : Versions]
Scan(of, d) == [scan |-> of, def |-> d]

TypeOK ==
    /\ disk \in Versions /\ total \in Versions /\ def \in Versions /\ fresh \in Versions
    /\ txn \in {None} \cup [files : Versions, backup : Versions \cup {None},
                            def : Versions, view : Kinds \cup {None}]
    /\ plans \in [Texts -> Plan \cup {None}]
    /\ prepared \in [Texts -> Plan \cup {None}]
    /\ view \in Kinds \cup {None} /\ registered \in Plan \cup {None}
    /\ backing \in Versions
    /\ outlived \subseteq Texts

Init ==
    /\ disk = 0 /\ total = 0 /\ def = 0 /\ fresh = 0
    /\ txn = None
    /\ plans = [x \in Texts |-> None] /\ prepared = [x \in Texts |-> None]
    /\ view = None /\ registered = None /\ backing = 0
    /\ outlived = {}

-----------------------------------------------------------------------------
(* Mutant: the plans of a table are evicted under the name of its view.     *)
MentionsTable(name) == {"t"}

(* evict_plan_cache keeps a plan unless its text contains the name of the   *)
(* table or view, letter for letter.                                        *)
Mentions(name) == {name}
Evict(texts) == plans' = [x \in Texts |-> IF x \in texts THEN None ELSE plans[x]]

(* The plan ctx.sql makes of a text now.                                    *)
Planned(x) == IF x = "v" THEN registered ELSE Scan("table", def)

(* The plan a SELECT of the text runs: collect_with_plan_cache.             *)
Served(x) == IF plans[x] = None THEN Planned(x) ELSE plans[x]

-----------------------------------------------------------------------------
(* handle_insert, buffered: the rows are acknowledged and not in a file.    *)
Insert ==
    /\ fresh < Changes
    /\ fresh' = fresh + 1 /\ total' = fresh + 1
    /\ Evict(Mentions("t"))
    /\ outlived' = outlived \ {"t"}
    /\ UNCHANGED <<disk, def, txn, prepared, views>>

(* UPDATE and DELETE: the buffer is flushed, the first one of a transaction *)
(* backs the table up, the table is rewritten.                              *)
Write ==
    /\ fresh < Changes
    /\ fresh' = fresh + 1 /\ total' = fresh + 1 /\ disk' = fresh + 1
    /\ txn' = IF txn # None /\ txn.backup = None THEN [txn EXCEPT !.backup = total] ELSE txn
    /\ Evict(Mentions("t"))
    /\ outlived' = outlived \ {"t"}
    /\ UNCHANGED <<def, prepared, views>>

(* TRUNCATE is dispatched by its text: nothing is evicted. The files that   *)
(* BEGIN listed are gone.                                                   *)
HandleTruncate ==
    /\ fresh < Changes
    /\ fresh' = fresh + 1 /\ total' = fresh + 1 /\ disk' = fresh + 1
    /\ txn' = IF txn # None THEN [txn EXCEPT !.files = fresh + 1] ELSE txn
    /\ UNCHANGED <<def, plans, prepared, views, outlived>>

(* ALTER TABLE: new columns over the same files, and a new registration.    *)
HandleAlterTable ==
    /\ fresh < Changes
    /\ fresh' = fresh + 1 /\ def' = fresh + 1 /\ disk' = total
    /\ Evict(Mentions("t"))
    /\ outlived' = (outlived \ {"t"}) \cup {x \in {"T"} : plans[x] # None}
    /\ UNCHANGED <<total, txn, prepared, views>>

(* A SELECT that succeeds leaves its plan in the cache.                     *)
Select(x) ==
    /\ Served(x) # None
    /\ disk' = total
    /\ plans' = [plans EXCEPT ![x] = Served(x)]
    /\ UNCHANGED <<total, def, fresh, txn, prepared, views, outlived>>

(* handle_prepare plans the text and leaves the plan in the cache too; a    *)
(* text that cannot be planned is stored without one.                       *)
HandlePrepare(x) ==
    /\ prepared' = [prepared EXCEPT ![x] = Planned(x)]
    /\ plans' = IF Planned(x) = None THEN plans ELSE [plans EXCEPT ![x] = Planned(x)]
    /\ outlived' = IF Planned(x) = None THEN outlived ELSE outlived \ {x}
    /\ UNCHANGED <<table, txn, views>>

(* handle_execute_prepared, no parameters: every buffer is flushed and the  *)
(* stored plan runs, whatever has changed since.                            *)
HandleExecutePrepared(x) ==
    /\ prepared[x] # None
    /\ disk' = total
    /\ UNCHANGED <<total, def, fresh, txn, plans, prepared, views, outlived>>

-----------------------------------------------------------------------------
(* Views. The backing table of a materialized view holds what its query     *)
(* gave. In a transaction a materialized view would drop and create a table *)
(* there, which is for Transactions.                                        *)
Registers(kind) == Scan(IF kind = "materialized" THEN "backing" ELSE "table", def)

HandleCreateView(kind, orReplace) ==
    /\ kind = "materialized" => txn = None
    /\ view = None \/ orReplace
    /\ disk' = total
    /\ view' = kind
    /\ registered' = Registers(kind)
    /\ backing' = IF kind = "materialized" THEN total ELSE backing
    /\ Evict(Texts)
    /\ outlived' = {}
    /\ UNCHANGED <<total, def, fresh, txn, prepared>>

HandleDropView ==
    /\ view # None
    /\ view = "materialized" => txn = None
    /\ disk' = total
    /\ view' = None /\ registered' = None
    /\ Evict(Mentions("v"))
    /\ outlived' = outlived \ {"v"}
    /\ UNCHANGED <<total, def, fresh, txn, prepared, backing>>

(* REFRESH is dispatched by its text: the plan of the view stays.           *)
HandleRefreshMaterializedView ==
    /\ view = "materialized" /\ txn = None
    /\ disk' = total /\ backing' = total
    /\ registered' = Registers("materialized")
    /\ outlived' = outlived \cup {x \in {"v"} : plans[x] # None}
    /\ UNCHANGED <<total, def, fresh, txn, plans, prepared, view>>

(* reload_tables: every view is registered from its query, a materialized   *)
(* one as well.                                                             *)
Reloaded(kind, d) == IF kind = None THEN None ELSE Scan("table", d)

-----------------------------------------------------------------------------
HandleBegin ==
    /\ txn = None
    /\ txn' = [files |-> total, backup |-> None, def |-> def, view |-> view]
    /\ disk' = total
    /\ UNCHANGED <<total, def, fresh, plans, prepared, views, outlived>>

HandleCommit ==
    /\ txn # None
    /\ txn' = None /\ disk' = total
    /\ UNCHANGED <<total, def, fresh, plans, prepared, views, outlived>>

(* Mutant: the backup is taken to be there.                                 *)
RollbackBackupAssumed ==
    /\ txn # None
    /\ txn' = None
    /\ disk' = txn.backup /\ total' = txn.backup /\ def' = txn.def
    /\ view' = txn.view
    /\ registered' = IF txn.view = None THEN registered ELSE Reloaded(txn.view, txn.def)
    /\ outlived' = outlived \cup {x \in Texts : plans[x] # None}
    /\ UNCHANGED <<fresh, plans, prepared, backing>>

(* handle_rollback: the files of BEGIN, or the backup of a rewritten table; *)
(* the catalog of BEGIN; reload_tables. A plan made since BEGIN stays, and  *)
(* so does the registration of a view created since.                        *)
HandleRollback ==
    LET rows == IF txn.backup = None THEN txn.files ELSE txn.backup IN
    /\ txn # None
    /\ txn' = None
    /\ disk' = rows /\ total' = rows /\ def' = txn.def
    /\ view' = txn.view
    /\ registered' = IF txn.view = None THEN registered ELSE Reloaded(txn.view, txn.def)
    /\ outlived' = outlived \cup {x \in Texts : plans[x] # None}
    /\ UNCHANGED <<fresh, plans, prepared, backing>>

(* The process ends outside a transaction and the database is opened again. *)
Reopen ==
    /\ txn = None
    /\ plans' = [x \in Texts |-> None] /\ prepared' = [x \in Texts |-> None]
    /\ outlived' = {}
    /\ registered' = Reloaded(view, def)
    /\ disk' = total
    /\ UNCHANGED <<total, def, fresh, txn, view, backing>>

Next ==
    \/ Insert \/ Write \/ HandleTruncate \/ HandleAlterTable
    \/ \E x \in Texts : Select(x) \/ HandlePrepare(x) \/ HandleExecutePrepared(x)
    \/ \E kind \in Kinds, orReplace \in BOOLEAN : HandleCreateView(kind, orReplace)
    \/ HandleDropView \/ HandleRefreshMaterializedView
    \/ HandleBegin \/ HandleCommit \/ HandleRollback \/ Reopen

Spec == Init /\ [][Next]_vars

-----------------------------------------------------------------------------
(* A SELECT runs the plan ctx.sql would make now, or a cached one that      *)
(* equals it: what ALTER TABLE, CREATE OR REPLACE VIEW or DROP VIEW changed *)
(* evict_plan_cache has thrown out. A plan that outlives a ROLLBACK or a    *)
(* REFRESH, which evict nothing, and one whose text spells the table in     *)
(* other letters than the catalog are the exceptions.                       *)
SelectsFresh ==
    \A x \in Texts \ outlived : Served(x) = Planned(x)

-----------------------------------------------------------------------------
(* DESIGN.md:909: "A materialized view stores its query results as a hidden *)
(* backing table ... so reads go directly to Parquet files". Not so after   *)
(* ROLLBACK or a restart: reload_tables registers the query itself.         *)
MaterializedReadsBacking ==
    view = "materialized" => Served("v").scan = "backing"

(* EXECUTE answers with the columns the table has. Not so after ALTER TABLE *)
(* or ROLLBACK: the stored plan is never made again.                        *)
ExecuteFresh ==
    \A x \in {"t", "T"} : prepared[x] # None => prepared[x] = Planned(x)
=============================================================================
