----------------------------- MODULE MCCatalog ------------------------------
(* Catalog on small instances.                                              *)
EXTENDS Catalog, TLC

CONSTANTS t, i1, i2, c, s, s2, m, f, u, p, g1, g2

OnePrivilege == {p}
OneTable == {t}
TwoIndexes == {i1, i2}
OneColumn == {c}
TwoSeqs == {s, s2}
OneMatView == {m}
OneFunction == {f}
OneTrigger == {u}
OnT == [x \in Indexes \cup Columns |-> t]
TwoVersions == {1, 2}
Migrations == [v \in Versions |-> IF v = 1 THEN g1 ELSE g2]
OneBounded == [x \in Seqs |-> IF x = s THEN Limit ELSE Limit - 1]
Symmetric == Permutations({i1, i2})
AllScopes == {{t, i1, i2, s}, {t, s, s2}, {t, c, m, f}, {t, f, g1, g2}, {t, s, u, p}}
AllOps == {"nextval", "fail", "txn"}
=============================================================================
