----------------------------- MODULE MCRelease -----------------------------
(* Three versions, two fragments, and histories that add, reword, and      *)
(* break and repair one.                                                   *)
EXTENDS Release, TLC

CONSTANTS p1, p2, a, b

Tree(fragments) == [fragments |-> fragments, contract |-> "pinned"]
A1 == [id |-> a, text |-> "new"]
A2 == [id |-> a, text |-> "reworded"]
B1 == [id |-> b, text |-> "new"]
Bad == [fragments |-> {A1, [B1 EXCEPT !.text = "broken"]}, contract |-> "drifted"]
\* Another fragment; a reworded one; a broken one, repaired.
MCHistories == {<<Tree({A1}), Tree({A1, B1})>>, <<Tree({A1}), Tree({A2, B1})>>, <<Tree({A1}), Bad, Tree({A1, B1})>>}
MCReports == [genuine : {TRUE}, covered : BOOLEAN, findings : {1}]
Perms == Permutations({p1, p2})
=============================================================================
