--------------------------- MODULE MCTransactions ---------------------------
(* Transactions on small instances.                                         *)
EXTENDS Transactions, TLC

CONSTANTS a, b, r1, r2, r3, f1, f2, f3, f4

TwoTables == {a, b}
NoPairs == {}
AtoB == {<<a, b>>}
BtoA == {<<b, a>>}
OnlyA == {a}
Nothing == {}
TwoRows == {r1, r2}
ThreeRows == {r1, r2, r3}
ThreeFiles == {f1, f2, f3}
FourFiles == {f1, f2, f3, f4}
RowsAndFiles == Permutations(Rows) \cup Permutations(FileIds) \cup Permutations(SaveNames)

NoMentions == [s \in SaveNames |-> {}]
MentionsA == [s \in SaveNames |-> {a}]

OneTable == {a}
Work(ops, tables) == [ops |-> ops, tables |-> tables]
Rewrites == {Work({"delete", "rewriteError", "update", "vacuum", "truncate", "merge",
                   "upsert"}, TwoTables)}
Savepoints == {Work({"delete", "create", "drop", "savepoint"}, OneTable),
               Work({"create", "drop", "rename"}, TwoTables)}
InsertDelete == {Work({"delete"}, TwoTables)}
=============================================================================
