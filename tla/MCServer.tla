------------------------------ MODULE MCServer ------------------------------
(* Server on a small instance: two connections and the vacuum, or two       *)
(* clients that POST queries and one that only GETs.                        *)
EXTENDS Server

CONSTANTS p1, p2, h1, h2, g, t, r

TwoPg == {p1, p2}
TwoHttp == {h1, h2}
OneReader == {g}
OneTable == {t}
OneRow == {r}
All == [op : {"select", "insert", "delete", "drop", "begin", "commit", "rollback"},
        t : Tables, r : Rows]
=============================================================================
