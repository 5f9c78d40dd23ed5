------------------------------ MODULE Catalog ------------------------------
(***************************************************************************)
(* What the device write endpoints promise their clients: each request     *)
(* takes effect at one instant or not at all, and its answer says which,   *)
(* except for 408 and 503, which may leave the client in doubt.            *)
(***************************************************************************)
EXTENDS CatalogData

CONSTANTS
  Requests,   \* places where one request at a time is handled
  NoOp,
  InitialDevices

VARIABLES
  dev,        \* the stored device of each id, or NoDevice
  brandName,  \* the name of each stored brand, or NoBrand
  pending,    \* the write a request asks for, or NoOp once it is closed
  applied,    \* whether that write has taken effect
  answer      \* the status sent to the client, or "none"

vars == <<dev, brandName, pending, applied, answer>>

Stored(d) == dev[d] # NoDevice

(* Another device owns the slug or one of the route keys of the payload.   *)
Conflicts(d, payload) ==
  \E e \in Devices \ {d} :
    Stored(e) /\ ClaimedKeys(dev[e]) \cap ClaimedKeys(payload) # {}

Init ==
  /\ dev = InitialDevices
  /\ brandName \in [Brands -> BrandNames \cup {NoBrand}]
  /\ \A d \in Devices : Stored(d) => brandName[dev[d].brand] # NoBrand
  /\ pending = [r \in Requests |-> NoOp]
  /\ applied = [r \in Requests |-> FALSE]
  /\ answer = [r \in Requests |-> "none"]

(* target = NoDevice is a create, anything else an update.                 *)
Submit(r, target, payload) ==
  /\ pending[r] = NoOp
  /\ pending' = [pending EXCEPT ![r] = [target |-> target, payload |-> payload]]
  /\ answer' = [answer EXCEPT ![r] = "none"]
  /\ UNCHANGED <<dev, brandName, applied>>

(* The write takes effect, whole and without breaking uniqueness; it may   *)
(* do so after the client was told 408 or 503.                             *)
Put(r, d) ==
  /\ pending[r] # NoOp /\ ~applied[r]
  /\ IF pending[r].target = NoDevice THEN ~Stored(d)
                                     ELSE Stored(d) /\ d = pending[r].target
  /\ ~Conflicts(d, pending[r].payload)
  /\ pending[r].payload.refusedAt = "never"
  /\ dev' = [dev EXCEPT ![d] = pending[r].payload]
  /\ brandName' = [brandName EXCEPT
                     ![pending[r].payload.brand] = pending[r].payload.brandName]
  /\ applied' = [applied EXCEPT ![r] = TRUE]
  /\ UNCHANGED <<pending, answer>>

(* The client hears of success only after the write, unless it was told    *)
(* something else before.                                                  *)
Acknowledge(r) ==
  /\ applied[r]
  /\ answer' = [answer EXCEPT ![r] = IF @ = "none" THEN "ok" ELSE @]
  /\ pending' = [pending EXCEPT ![r] = NoOp]
  /\ applied' = [applied EXCEPT ![r] = FALSE]
  /\ UNCHANGED <<dev, brandName>>

(* What justifies an error answer.                                         *)
Justified(status, target, payload) ==
  \/ status = "404" /\ target # NoDevice /\ ~Stored(target)
  \/ status = payload.refusedWith /\ payload.refusedAt # "never"
  \/ status = "409" /\ Conflicts(target, payload)
  \/ status = "503"

(* An error answer means the write has not happened and never will.        *)
Refuse(r, status) ==
  /\ pending[r] # NoOp /\ ~applied[r] /\ answer[r] = "none"
  /\ Justified(status, pending[r].target, pending[r].payload)
  /\ answer' = [answer EXCEPT ![r] = status]
  /\ pending' = [pending EXCEPT ![r] = NoOp]
  /\ UNCHANGED <<dev, brandName, applied>>

(* The time limit passes or the database connection is lost: the client is *)
(* answered before it is known whether the write will take effect.         *)
Doubtful == {"408", "503"}

GiveUp(r, status) ==
  /\ pending[r] # NoOp /\ answer[r] = "none"
  /\ answer' = [answer EXCEPT ![r] = status]
  /\ UNCHANGED <<dev, brandName, pending, applied>>

(* A write given up may also be dropped without effect.                    *)
Drop(r) ==
  /\ pending[r] # NoOp /\ ~applied[r] /\ answer[r] \in Doubtful
  /\ pending' = [pending EXCEPT ![r] = NoOp]
  /\ UNCHANGED <<dev, brandName, applied, answer>>

(* DELETE /brands/{id}: only a brand no stored device refers to goes.      *)
DeleteBrand(b) ==
  /\ brandName[b] # NoBrand
  /\ \A d \in Devices : Stored(d) => dev[d].brand # b
  /\ brandName' = [brandName EXCEPT ![b] = NoBrand]
  /\ UNCHANGED <<dev, pending, applied, answer>>

Next ==
  \/ \E r \in Requests :
       \/ \E target \in Devices \cup {NoDevice}, payload \in Payloads :
            Submit(r, target, payload)
       \/ \E d \in Devices : Put(r, d)
       \/ Acknowledge(r)
       \/ \E status \in {"400", "404", "409", "503"} : Refuse(r, status)
       \/ \E status \in Doubtful : GiveUp(r, status)
       \/ Drop(r)
  \/ \E b \in Brands : DeleteBrand(b)

Spec == Init /\ [][Next]_vars

(* Two stored devices never share a slug or a route key, and the brand of  *)
(* a stored device is stored.                                              *)
KeysDisjoint ==
  \A d, e \in Devices :
    d # e /\ Stored(d) /\ Stored(e)
      => ClaimedKeys(dev[d]) \cap ClaimedKeys(dev[e]) = {}
BrandsStored == \A d \in Devices : Stored(d) => brandName[dev[d].brand] # NoBrand

=============================================================================
