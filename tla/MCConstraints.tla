--------------------------- MODULE MCConstraints ----------------------------
(* Constraints on small instances.                                          *)
EXTENDS Constraints, TLC

CONSTANTS i1, i2, k1, k2

TwoIds == {i1, i2}
TwoKeys == {k1, k2}
Symmetric == Permutations(Ids) \cup Permutations(Keys)
AllOps == {"returning", "copy", "upsert", "update", "delete", "truncate", "vacuum",
           "merge", "txn"}
CopyOps == {"copy", "delete"}
=============================================================================
