----------------------------- MODULE MCSessions -----------------------------
(* Sessions on a small instance: two connections, one row.                  *)
EXTENDS Sessions

CONSTANTS p1, p2, t, r

TwoPg == {p1, p2}
None == {}
OneTable == {t}
OneRow == {r}
All == [op : {"insert", "delete", "begin", "commit", "rollback"}, t : Tables, r : Rows]
=============================================================================
