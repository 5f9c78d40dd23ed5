---------------------------- MODULE MCSelections ----------------------------
(***************************************************************************)
(* A smartphone whose slug a rival takes over, released on the second date,*)
(* a third one that stays as it is, and a camera that shares a slug with a *)
(* smartphone.  Lists of two, on three dates.                              *)
(***************************************************************************)
EXTENDS Selections

CONSTANTS r1, r2, phone, rival, third, camera

Version(slug, published) == [slug |-> slug, published |-> published]
MCCategory ==
  [d \in Devices |-> IF d = camera THEN "camera" ELSE "smartphone"]
MCVersions ==
  [d \in Devices |-> CASE d = phone  -> {Version(1, TRUE), Version(1, FALSE),
                                        Version(3, FALSE)}
                       [] d = rival  -> {Version(2, TRUE), Version(1, TRUE)}
                       [] d = third  -> {Version(4, TRUE)}
                       [] d = camera -> {Version(1, TRUE)}]
MCReleaseDay == [d \in Devices |-> IF d = rival THEN 1 ELSE 0]

Ask(category, slug, valid) == [category |-> category, slug |-> slug, valid |-> valid]
MCAsks ==
  {Ask("smartphone", 1, TRUE), Ask("smartphone", 2, TRUE), Ask("camera", 1, TRUE),
   Ask("camera", 2, FALSE)}
Symmetries == Permutations(Requests)
=============================================================================
