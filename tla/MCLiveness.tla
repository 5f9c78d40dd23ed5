----------------------------- MODULE MCLiveness -----------------------------
(***************************************************************************)
(* Liveness of the two kinds of write that may wait in a circle.  They are *)
(* checked over tables of their own: in a behaviour one kind is served and *)
(* the other rests.                                                        *)
(***************************************************************************)
EXTENDS MCDeviceWrites

CONSTANTS v1, v2, Versions, Values, Lists, Writers, Admins, Edits,
          NoVersion, NoTask, InitialVersions
VARIABLES serving, version, software, writePhase, writeDevice, todo, done,
          writeAnswer, task, locked

S == INSTANCE SoftwareVersions WITH Devices <- {d1, d2},
       phase <- writePhase, device <- writeDevice, answer <- writeAnswer

versionVars == <<version, software, writePhase, writeDevice, todo, done,
                 writeAnswer, task, locked>>

Item(v, launch) == [version |-> v, launch |-> launch]
OneList == {<<Item(v1, TRUE), Item(v2, TRUE)>>}
Row(category, value) == [category |-> category, value |-> value]
MCVersions ==
  [v \in Versions |-> IF v = v1 THEN Row("os", "14") ELSE Row("ux", "15")]
FewEdits == {[kind |-> "update", id |-> v2, row |-> Row("os", "15")],
             [kind |-> "delete", id |-> v1]}

LivenessInit == serving \in {"devices", "versions"} /\ Init /\ S!Init

LivenessNext ==
  /\ UNCHANGED serving
  /\ \/ serving = "devices" /\ Next /\ UNCHANGED versionVars
     \/ serving = "versions" /\ S!Next /\ UNCHANGED vars

(* The fairness of whichever is served, as each module justifies it.       *)
LivenessSpec ==
  /\ LivenessInit
  /\ [][LivenessNext]_<<serving, vars, versionVars>>
  /\ \/ serving = "devices" /\ Fairness
     \/ serving = "versions" /\ S!Fairness

(* Every write comes to an end, be it a device's or one of a device's      *)
(* software versions: no conflict, lock or circle of locks holds it up for *)
(* good, whatever requests go on arriving.                                 *)
EveryWriteEnds ==
  \A r \in Requests : []<>(phase[r] = "idle" /\ writePhase[r] = "idle")
=============================================================================
