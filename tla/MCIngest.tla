------------------------------ MODULE MCIngest ------------------------------
(* Ingest on small instances.                                               *)
EXTENDS Ingest, TLC

CONSTANTS a, b, a1, a2, b1

TwoTables == {a, b}
ThreeRows == {a1, a2, b1}
HomeOf == [r \in ThreeRows |-> IF r = b1 THEN b ELSE a]
Nothing == {}
OnlyA == {a}
OnlyB == {b}
OnlyA1 == {a1}

(* Statements that name the tables they read, or, through a view, none.     *)
PlainSelects == {<<{a}, {a}>>, <<{b}, {b}>>, <<{}, {a, b}>>}
(* A join of table b with a view of table a.                                *)
ViewSelects == {<<{b}, {a, b}>>}

SameTable == Permutations({a1, a2})
=============================================================================
