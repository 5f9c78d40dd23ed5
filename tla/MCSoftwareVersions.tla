------------------------- MODULE MCSoftwareVersions -------------------------
(***************************************************************************)
(* Two versions that may come to share a category; devices list one or     *)
(* both of them, in either order, as launch or later versions.             *)
(***************************************************************************)
EXTENDS SoftwareVersions, TLC

CONSTANTS d1, d2, v1, v2, w1, w2, a1, a2

Item(v, launch) == [version |-> v, launch |-> launch]
MCLists == {<<Item(v1, TRUE), Item(v2, TRUE)>>,
            <<Item(v2, TRUE), Item(v1, FALSE)>>, <<Item(v2, FALSE)>>}

Row(category, value) == [category |-> category, value |-> value]
MCVersions ==
  [v \in Versions |-> IF v = v1 THEN Row("os", "14") ELSE Row("ux", "15")]
Put(v, row) == [kind |-> "update", id |-> v, row |-> row]
Delete(v) == [kind |-> "delete", id |-> v]

(* v2 moves to the category of v1 and back; v1 takes v2's value or its own.*)
MCEdits == {Put(v2, Row("os", "15")), Put(v2, Row("ux", "15")),
            Put(v1, Row("os", "15")), Put(v1, Row("os", "14")),
            Delete(v1), Delete(v2)}
Symmetries == Permutations(Writers) \cup Permutations(Admins)
=============================================================================
