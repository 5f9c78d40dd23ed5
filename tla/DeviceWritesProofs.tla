------------------------- MODULE DeviceWritesProofs -------------------------
(***************************************************************************)
(* Proofs about DeviceWrites for any number of slots, devices, brands and  *)
(* keys: its type invariant; that the identifier registry agrees with the  *)
(* stored devices and every stored device has its brand; that it keeps the *)
(* promise of Catalog; and that writes wait for each other in a circle     *)
(* only when one of them is an update.                                     *)
(***************************************************************************)
EXTENDS DeviceWrites, WellFoundedInduction, TLAPS

LEMMA ClaimedKeysType ==
  ASSUME NEW payload \in Payloads
  PROVE  /\ ClaimedKeys(payload) \subseteq Keys
         /\ payload.slug \in Keys
         /\ payload.brand \in Brands
         /\ payload.brandName \in BrandNames
         /\ payload.refusedWith \in {"400", "409"}
BY RouteKeyAssumption, PayloadsAssumption DEF ClaimedKeys, DeviceWriteRequest

LEMMA RequestType ==
  ASSUME TypeOK, NEW r \in Requests, op[r] # NoOp
  PROVE  /\ op[r] \in Ops
         /\ op[r].target \in Devices \cup {NoDevice}
         /\ Request(r) \in Payloads
BY DEF TypeOK, Ops, Request

(* Every operation keeps the variables in their types.                     *)
LEMMA InitType == Init => TypeOK
<1> SUFFICES ASSUME Init PROVE TypeOK
  OBVIOUS
<1>1. registry \in [Keys -> Devices \cup {NoDevice}]
  BY DEF Init
<1>2. QED
  BY <1>1, InitialAssumption DEF Init, TypeOK, Phases, Answers

LEMMA ReleaseType ==
  ASSUME TypeOK, NEW r \in Requests, ReleaseLocks(r)
  PROVE  /\ brandBy' \in [Brands -> Requests \cup {NoTx}]
         /\ rowBy' \in [Devices -> Requests \cup {NoTx}]
         /\ slugBy' \in [Keys -> Requests \cup {NoTx}]
         /\ keyBy' \in [Keys -> Requests \cup {NoTx}]
BY DEF TypeOK, ReleaseLocks

LEMMA FreeType ==
  ASSUME TypeOK, NEW r \in Requests, FreeSlot(r)
  PROVE  /\ phase' \in [Requests -> Phases]
         /\ op' \in [Requests -> Ops \cup {NoOp}]
         /\ device' \in [Requests -> Devices \cup {NoDevice}]
         /\ inserted' \in [Requests -> SUBSET Keys]
BY DEF TypeOK, FreeSlot, Phases

LEMMA AbortType ==
  ASSUME TypeOK, NEW r \in Requests, NEW status \in Answers, Abort(r, status)
  PROVE  TypeOK'
<1>1. answer' \in [Requests -> Answers]
  BY DEF TypeOK, Abort
<1>2. QED
  BY <1>1, ReleaseType, FreeType DEF TypeOK, Abort, tables

LEMMA ReturnErrorType ==
  ASSUME TypeOK, NEW r \in Requests, NEW status \in Answers, ReturnError(r, status)
  PROVE  TypeOK'
BY DEF TypeOK, ReturnError, Phases, tables, locks

(* Statements that only move on.                                           *)
LEMMA AdvanceType ==
  ASSUME TypeOK, NEW r \in Requests, NEW to \in Phases, Advance(r, to)
  PROVE  phase' \in [Requests -> Phases]
BY DEF TypeOK, Advance

LEMMA StatementType ==
  ASSUME TypeOK, InsertedAreClaimed, WritesAreLocked,
         NEW r \in Requests, Statement(r)
  PROVE  TypeOK'
<1>1. CASE MissingDevice(r)
  BY <1>1, ReturnErrorType DEF MissingDevice, Answers
<1>2. CASE Validate(r)
  BY <1>2 DEF Validate, TypeOK, Advance, Phases, tables, locks
<1>3. CASE RefusePayload(r)
  <2>1. op[r] # NoOp
    BY <1>3 DEF RefusePayload, InsertedAreClaimed, FaultPoints
  <2>2. Request(r).refusedWith \in Answers
    BY <2>1, RequestType, ClaimedKeysType DEF Answers
  <2>3. QED
    BY <1>3, <2>2, ReturnErrorType DEF RefusePayload
<1>4. CASE UpsertBrand(r)
  BY <1>4 DEF UpsertBrand, TypeOK, Advance, Phases, tables
<1>5. CASE InsertRow(r)
  BY <1>5 DEF InsertRow, TypeOK, Advance, Phases, tables
<1>6. CASE LockRow(r)
  <2>1. op[r] # NoOp
    BY <1>6 DEF LockRow, At, InsertedAreClaimed
  <2>2. op[r].target \in Devices
    BY <1>6, <2>1, RequestType DEF LockRow, IsUpdate
  <2>3. QED
    BY <1>6, <2>2 DEF LockRow, TypeOK, Advance, Phases, tables
<1>7. CASE WriteSlug(r)
  BY <1>7 DEF WriteSlug, TypeOK, Advance, Phases, tables
<1>8. CASE SlugConflict(r)
  BY <1>8, AbortType DEF SlugConflict, Answers
<1>9. CASE DeleteChildren(r)
  BY <1>9 DEF DeleteChildren, TypeOK, Advance, Phases, tables
<1>10. CASE InsertKey(r)
  <2>1. PICK k \in NextKeys(r) :
          /\ keyBy' = [keyBy EXCEPT ![k] = r]
          /\ inserted' = [inserted EXCEPT ![r] = @ \cup {k}]
    BY <1>10 DEF InsertKey
  <2>2. op[r] # NoOp
    BY <1>10 DEF InsertKey, At, InsertedAreClaimed
  <2>3. k \in Keys
    BY <2>2, RequestType, ClaimedKeysType DEF NextKeys, KeysLeft
  <2>4. QED
    BY <1>10, <2>1, <2>3 DEF InsertKey, TypeOK, tables
<1>11. CASE KeyConflict(r)
  BY <1>11, AbortType DEF KeyConflict, Answers
<1>12. CASE KeysDone(r)
  BY <1>12 DEF KeysDone, TypeOK, Advance, Phases, tables, locks
<1>13. CASE InsertChildren(r)
  BY <1>13 DEF InsertChildren, TypeOK, Advance, Phases, tables, locks
<1>14. CASE Commit(r)
  <2>1. op[r] # NoOp /\ device[r] \in Devices
    BY <1>14 DEF Commit, InsertedAreClaimed, WritesAreLocked, Writing
  <2>2. /\ Request(r) \in Payloads
        /\ Request(r).brandName \in BrandNames
    BY <2>1, RequestType, ClaimedKeysType
  <2>3. dev' \in [Devices -> Payloads \cup {NoDevice}]
    BY <1>14, <2>2 DEF Commit, TypeOK
  <2>4. registry' \in [Keys -> Devices \cup {NoDevice}]
    BY <1>14, <2>1 DEF Commit, TypeOK
  <2>5. brandName' \in [Brands -> BrandNames \cup {NoBrand}]
    BY <1>14, <2>2 DEF Commit, TypeOK
  <2>6. phase' \in [Requests -> Phases]
    BY <1>14 DEF Commit, TypeOK, Advance, Phases
  <2>7. QED
    BY <1>14, <2>3, <2>4, <2>5, <2>6, ReleaseType DEF Commit, TypeOK
<1>15. CASE Respond(r)
  BY <1>15, FreeType DEF Respond, TypeOK, Answers, tables, locks
<1>16. QED
  BY <1>1, <1>2, <1>3, <1>4, <1>5, <1>6, <1>7, <1>8, <1>9, <1>10, <1>11,
     <1>12, <1>13, <1>14, <1>15 DEF Statement

LEMMA NextType == IInv /\ [Next]_vars => TypeOK'
<1> SUFFICES ASSUME TypeOK, WritesAreLocked, InsertedAreClaimed, [Next]_vars
             PROVE  TypeOK'
  BY DEF IInv
<1>1. ASSUME NEW r \in Requests, NEW target \in Devices \cup {NoDevice},
             NEW payload \in Payloads, Receive(r, target, payload)
      PROVE  TypeOK'
  <2>1. [target |-> target, payload |-> payload] \in Ops
    BY DEF Ops
  <2>2. QED
    BY <1>1, <2>1 DEF Receive, TypeOK, Advance, Phases, Answers, tables, locks
<1>2. ASSUME NEW r \in Requests, Statement(r)
      PROVE  TypeOK'
  BY <1>2, StatementType
<1>3. ASSUME NEW r \in Requests, Timeout(r) \/ LoseConnection(r)
      PROVE  TypeOK'
  BY <1>3 DEF Timeout, LoseConnection, TypeOK, Answers, tables, locks
<1>4. ASSUME NEW r \in Requests, Rollback(r)
      PROVE  TypeOK'
  BY <1>4, ReleaseType, FreeType DEF Rollback, TypeOK, tables
<1>5. ASSUME NEW r \in Requests, BreakDeadlock(r)
      PROVE  TypeOK'
  BY <1>5, AbortType DEF BreakDeadlock, Answers
<1>6. ASSUME NEW b \in Brands, DeleteBrand(b)
      PROVE  TypeOK'
  BY <1>6 DEF DeleteBrand, TypeOK, locks, local
<1>7. CASE UNCHANGED vars
  BY <1>7 DEF TypeOK, vars
<1>8. QED
  BY <1>1, <1>2, <1>3, <1>4, <1>5, <1>6, <1>7 DEF Next

(***************************************************************************)
(* The progress of a request: what it has inserted.                        *)
(***************************************************************************)
(* A step of one slot that leaves the other slots' variables alone keeps   *)
(* their part of the invariant.                                            *)
LEMMA FreedProgress ==
  ASSUME TypeOK, InsertedAreClaimed, NEW r \in Requests, FreeSlot(r)
  PROVE  InsertedAreClaimed'
BY DEF TypeOK, InsertedAreClaimed, FreeSlot, Request

LEMMA ReturnedProgress ==
  ASSUME TypeOK, InsertedAreClaimed, NEW r \in Requests, NEW status,
         ReturnError(r, status)
  PROVE  InsertedAreClaimed'
BY DEF TypeOK, InsertedAreClaimed, ReturnError, Request

LEMMA StatementProgress ==
  ASSUME TypeOK, InsertedAreClaimed, NEW r \in Requests, Statement(r)
  PROVE  InsertedAreClaimed'
<1>1. CASE MissingDevice(r) \/ RefusePayload(r)
  BY <1>1, ReturnedProgress DEF MissingDevice, RefusePayload
<1>2. CASE Validate(r) \/ UpsertBrand(r)
  BY <1>2 DEF Validate, UpsertBrand, At, Advance, TypeOK, InsertedAreClaimed, Request
<1>3. CASE InsertRow(r) \/ LockRow(r)
  BY <1>3 DEF InsertRow, LockRow, At, Advance, TypeOK, InsertedAreClaimed, Request
<1>4. CASE WriteSlug(r) \/ DeleteChildren(r)
  BY <1>4 DEF WriteSlug, DeleteChildren, At, Advance, TypeOK, InsertedAreClaimed, Request
<1>5. CASE SlugConflict(r) \/ KeyConflict(r) \/ Respond(r)
  BY <1>5, FreedProgress DEF SlugConflict, KeyConflict, Respond, Abort
<1>6. CASE InsertKey(r)
  <2>1. PICK k \in NextKeys(r) : inserted' = [inserted EXCEPT ![r] = @ \cup {k}]
    BY <1>6 DEF InsertKey
  <2>2. k \in ClaimedKeys(Request(r))
    BY DEF NextKeys, KeysLeft
  <2>3. QED
    BY <1>6, <2>1, <2>2 DEF InsertKey, At, TypeOK, InsertedAreClaimed, Request
<1>7. CASE KeysDone(r)
  BY <1>7 DEF KeysDone, KeysLeft, At, Advance, TypeOK, InsertedAreClaimed, Request
<1>8. CASE InsertChildren(r) \/ Commit(r)
  BY <1>8 DEF InsertChildren, Commit, At, Advance, TypeOK, InsertedAreClaimed, Request
<1>9. QED
  BY <1>1, <1>2, <1>3, <1>4, <1>5, <1>6, <1>7, <1>8 DEF Statement

LEMMA NextProgress == IInv /\ [Next]_vars => InsertedAreClaimed'
<1> SUFFICES ASSUME TypeOK, InsertedAreClaimed, [Next]_vars
             PROVE  InsertedAreClaimed'
  BY DEF IInv
<1>1. ASSUME NEW r \in Requests, NEW target \in Devices \cup {NoDevice},
             NEW payload \in Payloads, Receive(r, target, payload)
      PROVE  InsertedAreClaimed'
  <2>1. [target |-> target, payload |-> payload] # NoOp
    BY NoOpAssumption DEF Ops
  <2>2. QED
    BY <1>1, <2>1 DEF Receive, Advance, TypeOK, InsertedAreClaimed, Request
<1>2. ASSUME NEW r \in Requests, Statement(r)
      PROVE  InsertedAreClaimed'
  BY <1>2, StatementProgress
<1>3. ASSUME NEW r \in Requests, Timeout(r) \/ LoseConnection(r)
      PROVE  InsertedAreClaimed'
  BY <1>3 DEF Timeout, LoseConnection, InsertedAreClaimed, Request
<1>4. ASSUME NEW r \in Requests, Rollback(r) \/ BreakDeadlock(r)
      PROVE  InsertedAreClaimed'
  BY <1>4, FreedProgress DEF Rollback, BreakDeadlock, Abort
<1>5. ASSUME NEW b \in Brands, DeleteBrand(b)
      PROVE  InsertedAreClaimed'
  BY <1>5 DEF DeleteBrand, local, InsertedAreClaimed, Request
<1>6. CASE UNCHANGED vars
  BY <1>6 DEF vars, InsertedAreClaimed, Request
<1>7. QED
  BY <1>1, <1>2, <1>3, <1>4, <1>5, <1>6 DEF Next

(***************************************************************************)
(* Locks.                                                                  *)
(***************************************************************************)
(* Ending one transaction takes no lock from another.                      *)
LEMMA FreedLocks ==
  ASSUME TypeOK, WritesAreLocked, NEW r \in Requests,
         ReleaseLocks(r), FreeSlot(r), UNCHANGED registry
  PROVE  WritesAreLocked'
<1> SUFFICES ASSUME NEW s \in Requests
             PROVE  /\ phase'[s] \in Writing =>
                         device'[s] \in Devices /\ rowBy'[device'[s]] = s
                    /\ phase'[s] \in Identified =>
                         \A k \in inserted'[s] :
                           keyBy'[k] = s /\ registry'[k] \in {NoDevice, device'[s]}
  BY DEF WritesAreLocked
<1>1. CASE s = r
  BY <1>1 DEF FreeSlot, TypeOK, Writing, Identified
<1>2. CASE s # r
  <2>1. /\ phase'[s] = phase[s] /\ device'[s] = device[s]
        /\ inserted'[s] = inserted[s] /\ inserted[s] \subseteq Keys
    BY <1>2 DEF FreeSlot, TypeOK
  <2>2. QED
    BY <1>2, <2>1 DEF ReleaseLocks, TypeOK, WritesAreLocked
<1>3. QED
  BY <1>1, <1>2

LEMMA ReturnedLocks ==
  ASSUME TypeOK, WritesAreLocked, NEW r \in Requests, NEW status,
         ReturnError(r, status)
  PROVE  WritesAreLocked'
BY DEF TypeOK, WritesAreLocked, ReturnError, tables, locks, Writing, Identified

(* What a transaction that has written its row may still do to the row and *)
(* key locks: take more keys, none of which another has inserted.          *)
LEMMA StatementLocks ==
  ASSUME IInv, NEW r \in Requests, Statement(r)
  PROVE  WritesAreLocked'
<1> USE DEF IInv
<1>1. CASE MissingDevice(r) \/ RefusePayload(r)
  BY <1>1, ReturnedLocks DEF MissingDevice, RefusePayload
<1>2. CASE Validate(r) \/ UpsertBrand(r)
  BY <1>2 DEF Validate, UpsertBrand, At, Advance, TypeOK, WritesAreLocked,
              Writing, Identified, tables, locks
<1>3. CASE InsertRow(r) \/ LockRow(r)
  <2>1. PICK d \in Devices : /\ rowBy[d] = NoTx
                             /\ device' = [device EXCEPT ![r] = d]
                             /\ rowBy' = [rowBy EXCEPT ![d] = r]
    <3>1. CASE InsertRow(r)
      BY <3>1 DEF InsertRow
    <3>2. CASE LockRow(r)
      <4>1. op[r] # NoOp
        BY <3>2 DEF LockRow, At, InsertedAreClaimed
      <4>2. op[r].target \in Devices
        BY <3>2, <4>1, RequestType DEF LockRow, IsUpdate
      <4>3. QED
        BY <3>2, <4>2 DEF LockRow
    <3>3. QED
      BY <1>3, <3>1, <3>2
  <2>2. /\ phase' = [phase EXCEPT ![r] = "slug"]
        /\ UNCHANGED <<registry, keyBy, inserted>>
    BY <1>3 DEF InsertRow, LockRow, Advance, tables
  <2>3. QED
    BY <2>1, <2>2, SlotAssumption DEF TypeOK, WritesAreLocked, Writing, Identified
<1>4. CASE WriteSlug(r)
  BY <1>4 DEF WriteSlug, At, Advance, TypeOK, WritesAreLocked, Writing, Identified, tables
<1>5. CASE SlugConflict(r) \/ KeyConflict(r)
  BY <1>5, FreedLocks DEF SlugConflict, KeyConflict, Abort, tables
<1>6. CASE DeleteChildren(r)
  <2>1. device[r] \in Devices /\ rowBy[device[r]] = r /\ inserted[r] = {}
    BY <1>6 DEF DeleteChildren, At, WritesAreLocked, InsertedAreClaimed, Writing
  <2>2. ASSUME NEW s \in Requests, s # r, phase[s] \in Identified,
               NEW k \in inserted[s]
        PROVE  keyBy'[k] = s /\ registry[k] \in {NoDevice, device[s]}
    <3>1. device[s] # device[r] /\ k \in Keys
      BY <2>1, <2>2 DEF WritesAreLocked, Writing, Identified, TypeOK
    <3>2. registry[k] # device[r]
      BY <2>1, <2>2, <3>1, NullAssumption DEF WritesAreLocked
    <3>3. QED
      BY <1>6, <2>2, <3>1, <3>2 DEF DeleteChildren, WritesAreLocked
  <2>3. /\ phase' = [phase EXCEPT ![r] = "keys"] /\ phase[r] = "delete"
        /\ UNCHANGED <<registry, rowBy, device, inserted>>
    BY <1>6 DEF DeleteChildren, At, Advance, tables
  <2>4. ASSUME NEW s \in Requests, phase'[s] \in Writing
        PROVE  device[s] \in Devices /\ rowBy[device[s]] = s
    BY <2>3, <2>4 DEF TypeOK, WritesAreLocked, Writing
  <2>5. ASSUME NEW s \in Requests, phase'[s] \in Identified, NEW k \in inserted[s]
        PROVE  keyBy'[k] = s /\ registry[k] \in {NoDevice, device[s]}
    <3>1. s # r /\ phase[s] \in Identified
      BY <2>1, <2>3, <2>5 DEF TypeOK
    <3>2. QED
      BY <2>2, <2>5, <3>1
  <2>6. QED
    BY <2>3, <2>4, <2>5 DEF WritesAreLocked
<1>7. CASE InsertKey(r)
  <2>1. PICK k \in NextKeys(r) : /\ keyBy[k] \in {NoTx, r}
                                 /\ KeyFree(r, k)
                                 /\ keyBy' = [keyBy EXCEPT ![k] = r]
                                 /\ inserted' = [inserted EXCEPT ![r] = @ \cup {k}]
    BY <1>7 DEF InsertKey
  <2>2. op[r] # NoOp
    BY <1>7 DEF InsertKey, At, InsertedAreClaimed
  <2>3. k \in Keys
    BY <2>2, RequestType, ClaimedKeysType DEF NextKeys, KeysLeft
  <2>4. /\ UNCHANGED <<registry, rowBy, device, phase>>
        /\ phase[r] = "keys"
    BY <1>7 DEF InsertKey, tables, At
  <2>5. QED
    BY <2>1, <2>3, <2>4, SlotAssumption DEF KeyFree, TypeOK, WritesAreLocked
<1>8. CASE KeysDone(r) \/ InsertChildren(r)
  BY <1>8 DEF KeysDone, InsertChildren, At, Advance, TypeOK, WritesAreLocked,
              Writing, Identified, tables, locks
<1>9. CASE Commit(r)
  <2>1. device[r] \in Devices /\ rowBy[device[r]] = r
    BY <1>9 DEF Commit, WritesAreLocked, Writing
  <2>2. ASSUME NEW s \in Requests, s # r, phase[s] \in Identified,
               NEW k \in inserted[s]
        PROVE  registry'[k] \in {NoDevice, device[s]}
    <3>1. k \in Keys /\ k \notin inserted[r]
      BY <1>9, <2>2 DEF Commit, WritesAreLocked, Identified, TypeOK
    <3>2. QED
      BY <1>9, <2>2, <3>1 DEF Commit, WritesAreLocked
  <2>3. QED
    BY <1>9, <2>1, <2>2
       DEF Commit, ReleaseLocks, Advance, TypeOK, WritesAreLocked, Writing, Identified
<1>10. CASE Respond(r)
  BY <1>10 DEF Respond, FreeSlot, TypeOK, WritesAreLocked, Writing, Identified,
               tables, locks
<1>11. QED
  BY <1>1, <1>2, <1>3, <1>4, <1>5, <1>6, <1>7, <1>8, <1>9, <1>10 DEF Statement

LEMMA NextLocks == IInv /\ [Next]_vars => WritesAreLocked'
<1> SUFFICES ASSUME IInv, [Next]_vars
             PROVE  WritesAreLocked'
  OBVIOUS
<1> USE DEF IInv
<1>1. ASSUME NEW r \in Requests, NEW target \in Devices \cup {NoDevice},
             NEW payload \in Payloads, Receive(r, target, payload)
      PROVE  WritesAreLocked'
  BY <1>1 DEF Receive, Advance, TypeOK, WritesAreLocked, Writing, Identified,
              tables, locks
<1>2. ASSUME NEW r \in Requests, Statement(r)
      PROVE  WritesAreLocked'
  BY <1>2, StatementLocks
<1>3. ASSUME NEW r \in Requests, Timeout(r) \/ LoseConnection(r)
      PROVE  WritesAreLocked'
  BY <1>3 DEF Timeout, LoseConnection, WritesAreLocked, tables, locks
<1>4. ASSUME NEW r \in Requests, Rollback(r) \/ BreakDeadlock(r)
      PROVE  WritesAreLocked'
  BY <1>4, FreedLocks DEF Rollback, BreakDeadlock, Abort, tables
<1>5. ASSUME NEW b \in Brands, DeleteBrand(b)
      PROVE  WritesAreLocked'
  BY <1>5 DEF DeleteBrand, local, locks, WritesAreLocked
<1>6. CASE UNCHANGED vars
  BY <1>6 DEF vars, WritesAreLocked
<1>7. QED
  BY <1>1, <1>2, <1>3, <1>4, <1>5, <1>6 DEF Next

(***************************************************************************)
(* The tables.                                                             *)
(***************************************************************************)
LEMMA InitTables == Init => RegistryAgrees /\ BrandsStored
<1> SUFFICES ASSUME Init PROVE RegistryAgrees /\ BrandsStored
  OBVIOUS
<1>1. ASSUME NEW k \in Keys, NEW d \in Devices
      PROVE  registry[k] = d <=> dev[d] # NoDevice /\ k \in ClaimedKeys(dev[d])
  <2> DEFINE Owns(e) == dev[e] # NoDevice /\ k \in ClaimedKeys(dev[e])
  <2>1. registry[k] = IF \E e \in Devices : Owns(e)
                      THEN CHOOSE e \in Devices : Owns(e) ELSE NoDevice
    BY DEF Init
  <2>2. \A e, f \in Devices : Owns(e) /\ Owns(f) => e = f
    BY InitialAssumption DEF Init
  <2> HIDE DEF Owns
  <2>3. registry[k] = d <=> Owns(d)
    BY <2>1, <2>2, NullAssumption
  <2>4. QED
    BY <2>3 DEF Owns
<1>2. BrandsStored
  BY InitialAssumption DEF Init, BrandsStored
<1>3. QED
  BY <1>1, <1>2 DEF RegistryAgrees

(* Only COMMIT writes the registry and the devices; it gives the device    *)
(* the keys its transaction has inserted and takes the others from it.     *)
LEMMA CommitTables ==
  ASSUME IInv, NEW r \in Requests, Commit(r)
  PROVE  RegistryAgrees' /\ BrandsStored'
<1> USE DEF IInv
<1>1. /\ device[r] \in Devices
      /\ inserted[r] = ClaimedKeys(Request(r))
      /\ op[r] # NoOp
      /\ \A k \in inserted[r] : registry[k] \in {NoDevice, device[r]}
  BY DEF Commit, WritesAreLocked, InsertedAreClaimed, Writing, Identified
<1>2. /\ Request(r) \in Payloads /\ Request(r) # NoDevice
      /\ Request(r).brand \in Brands
      /\ Request(r).brandName \in BrandNames /\ Request(r).brandName # NoBrand
  BY <1>1, RequestType, ClaimedKeysType, NullAssumption
<1>3. dev' = [dev EXCEPT ![device[r]] = Request(r)]
  BY DEF Commit
<1>4. ASSUME NEW k \in Keys, NEW d \in Devices
      PROVE  registry'[k] = d <=> dev'[d] # NoDevice /\ k \in ClaimedKeys(dev'[d])
  <2>1. registry'[k] = IF k \in inserted[r] THEN device[r]
                       ELSE IF registry[k] = device[r] THEN NoDevice
                       ELSE registry[k]
    BY DEF Commit
  <2>2. CASE d = device[r]
    <3>1. dev'[d] = Request(r)
      BY <1>1, <1>3, <2>2 DEF TypeOK
    <3>2. registry'[k] = d <=> k \in inserted[r]
      BY <2>1, <2>2, NullAssumption
    <3>3. QED
      BY <1>1, <1>2, <3>1, <3>2
  <2>3. CASE d # device[r]
    <3>1. dev'[d] = dev[d]
      BY <1>1, <1>3, <2>3 DEF TypeOK
    <3>2. registry'[k] = d <=> registry[k] = d
      BY <1>1, <2>1, <2>3, NullAssumption
    <3>3. QED
      BY <3>1, <3>2 DEF RegistryAgrees
  <2>4. QED
    BY <2>2, <2>3
<1>5. ASSUME NEW d \in Devices, dev'[d] # NoDevice
      PROVE  brandName'[dev'[d].brand] # NoBrand
  <2>1. brandName' = [brandName EXCEPT ![Request(r).brand] = Request(r).brandName]
    BY DEF Commit
  <2>2. CASE d = device[r]
    BY <1>1, <1>2, <1>3, <2>1, <2>2 DEF TypeOK
  <2>3. CASE d # device[r]
    <3>1. dev'[d] = dev[d] /\ dev[d] \in Payloads
      BY <1>1, <1>3, <1>5, <2>3 DEF TypeOK
    <3>2. dev[d].brand \in Brands /\ brandName[dev[d].brand] # NoBrand
      BY <1>5, <3>1, ClaimedKeysType DEF BrandsStored
    <3>3. QED
      BY <1>2, <2>1, <3>1, <3>2 DEF TypeOK
  <2>4. QED
    BY <2>2, <2>3
<1>6. QED
  BY <1>4, <1>5 DEF RegistryAgrees, BrandsStored

LEMMA StatementTables ==
  ASSUME NEW r \in Requests, Statement(r), ~Commit(r)
  PROVE  UNCHANGED tables
BY DEF Statement, MissingDevice, Validate, RefusePayload, ReturnError, UpsertBrand,
       InsertRow, LockRow, WriteSlug, SlugConflict, Abort, DeleteChildren, InsertKey,
       KeyConflict, KeysDone, InsertChildren, Respond

LEMMA UnchangedTables ==
  ASSUME RegistryAgrees, BrandsStored, UNCHANGED tables
  PROVE  RegistryAgrees' /\ BrandsStored'
BY DEF tables, RegistryAgrees, BrandsStored

LEMMA NextTables == IInv /\ [Next]_vars => RegistryAgrees' /\ BrandsStored'
<1> SUFFICES ASSUME IInv, [Next]_vars
             PROVE  RegistryAgrees' /\ BrandsStored'
  OBVIOUS
<1>1. ASSUME NEW r \in Requests, Commit(r)
      PROVE  RegistryAgrees' /\ BrandsStored'
  BY <1>1, CommitTables
<1>2. ASSUME NEW r \in Requests, Statement(r), ~Commit(r)
      PROVE  UNCHANGED tables
  BY <1>2, StatementTables
<1>3. ASSUME NEW r \in Requests, NEW target, NEW payload, Receive(r, target, payload)
      PROVE  UNCHANGED tables
  BY <1>3 DEF Receive
<1>4. ASSUME NEW r \in Requests,
             Timeout(r) \/ LoseConnection(r) \/ Rollback(r) \/ BreakDeadlock(r)
      PROVE  UNCHANGED tables
  BY <1>4 DEF Timeout, LoseConnection, Rollback, BreakDeadlock, Abort
<1>5. ASSUME NEW b \in Brands, DeleteBrand(b)
      PROVE  RegistryAgrees' /\ BrandsStored'
  <2>1. RegistryAgrees'
    BY <1>5 DEF DeleteBrand, IInv, RegistryAgrees
  <2>2. BrandsStored'
    <3> SUFFICES ASSUME NEW d \in Devices, dev[d] # NoDevice
                 PROVE  brandName'[dev[d].brand] # NoBrand
      BY <1>5 DEF DeleteBrand, BrandsStored
    <3>1. dev[d].brand \in Brands \ {b}
      BY <1>5, ClaimedKeysType DEF DeleteBrand, IInv, TypeOK
    <3>2. QED
      BY <1>5, <3>1 DEF DeleteBrand, IInv, TypeOK, BrandsStored
  <2>3. QED
    BY <2>1, <2>2
<1>6. ASSUME UNCHANGED vars
      PROVE  UNCHANGED tables
  BY <1>6 DEF vars, tables
<1>7. RegistryAgrees /\ BrandsStored
  BY DEF IInv
<1>8. CASE UNCHANGED tables
  BY <1>7, <1>8, UnchangedTables
<1>9. CASE Next
  <2>1. CASE \E b \in Brands : DeleteBrand(b)
    BY <2>1, <1>5
  <2>2. CASE \E r \in Requests, target \in Devices \cup {NoDevice}, payload \in Payloads :
               Receive(r, target, payload)
    BY <2>2, <1>3, <1>8
  <2>3. CASE \E r \in Requests : Statement(r)
    BY <2>3, <1>1, <1>2, <1>8
  <2>4. CASE \E r \in Requests :
               Timeout(r) \/ LoseConnection(r) \/ Rollback(r) \/ BreakDeadlock(r)
    BY <2>4, <1>4, <1>8
  <2>5. QED
    BY <1>9, <2>1, <2>2, <2>3, <2>4 DEF Next
<1>10. QED
  BY <1>6, <1>8, <1>9

(***************************************************************************)
(* Theorems.                                                               *)
(***************************************************************************)
(* The strengthened invariant holds in every reachable state.              *)
THEOREM InductiveInvariant == Spec => []IInv
<1>1. Init => IInv
  <2> SUFFICES ASSUME Init PROVE IInv
    OBVIOUS
  <2>1. WritesAreLocked /\ InsertedAreClaimed
    BY DEF Init, WritesAreLocked, InsertedAreClaimed, Writing, Identified
  <2>2. QED
    BY <2>1, InitType, InitTables DEF IInv
<1>2. IInv /\ [Next]_vars => IInv'
  BY NextType, NextProgress, NextLocks, NextTables DEF IInv
<1>3. QED
  BY <1>1, <1>2, PTL DEF Spec

(* The variables keep their types, whatever the interleaving.              *)
THEOREM TypeCorrect == Spec => []TypeOK
<1>1. IInv => TypeOK
  BY DEF IInv
<1>2. QED
  BY <1>1, InductiveInvariant, PTL

(* The registry of route keys always holds exactly the normalised slug,    *)
(* name and aliases of the stored devices (catalog.rs, replace_children).  *)
THEOREM RegistryAlwaysAgrees == Spec => []RegistryAgrees
<1>1. IInv => RegistryAgrees
  BY DEF IInv
<1>2. QED
  BY <1>1, InductiveInvariant, PTL

(* No stored device ever loses its brand to DELETE /brands/{id}.           *)
THEOREM BrandsAlwaysStored == Spec => []BrandsStored
<1>1. IInv => BrandsStored
  BY DEF IInv
<1>2. QED
  BY <1>1, InductiveInvariant, PTL

(* A transaction owns its row and the keys it has inserted until it ends.  *)
THEOREM WritesAlwaysLocked == Spec => []WritesAreLocked
<1>1. IInv => WritesAreLocked
  BY DEF IInv
<1>2. QED
  BY <1>1, InductiveInvariant, PTL

(***************************************************************************)
(* What a request has come through, which answer it has got, and what its  *)
(* transaction holds.                                                      *)
(***************************************************************************)
PastValidation == {"brand", "row"} \cup Writing

(* A request that is closed has been answered, and an open one has been    *)
(* answered only if the time limit or its connection gave way.             *)
AnswersFit ==
  \A r \in Requests :
    /\ phase[r] \in {"idle", "rollback"} => op[r] = NoOp
    /\ phase[r] = "rollback" => answer[r] # "none"
    /\ op[r] # NoOp => answer[r] \in {"none", "408", "503"}

(* A payload has passed the points behind it; an update writes its target, *)
(* which is stored, and a create a row that is not.                        *)
PayloadsPassed ==
  \A r \in Requests :
    /\ phase[r] \in PastValidation =>
         /\ Request(r).refusedAt # "validate"
         /\ IsUpdate(r) => dev[op[r].target] # NoDevice
    /\ phase[r] \in {"row"} \cup Writing => Request(r).refusedAt # "brand"
    /\ phase[r] \in Writing =>
         /\ Request(r).refusedAt # "row"
         /\ IF IsUpdate(r) THEN device[r] = op[r].target ELSE dev[device[r]] = NoDevice
    /\ phase[r] \in {"children", "commit"} => Request(r).refusedAt # "keys"
    /\ phase[r] = "commit" => Request(r).refusedAt # "children"

(* Locks are held by open transactions only, and a create holds none but   *)
(* of what it has written, in the order of its statements.                 *)
HoldersAreOpen ==
  \A r \in Requests :
    /\ \A b \in Brands : brandBy[b] = r => phase[r] \in {"row", "rollback"} \cup Writing
    /\ \A d \in Devices : rowBy[d] = r => phase[r] \in {"rollback"} \cup Writing
    /\ \A k \in Keys : slugBy[k] = r =>
         /\ phase[r] \in {"rollback"} \cup Writing
         /\ phase[r] = "slug" => IsUpdate(r)
    /\ \A k \in Keys : keyBy[k] = r =>
         /\ phase[r] \in {"rollback"} \cup Identified
         /\ phase[r] = "keys" /\ ~IsUpdate(r) => k \in inserted[r]

(* Keys are inserted in their order, after the old ones have been deleted. *)
KeysInOrder ==
  \A r \in Requests : phase[r] = "keys" =>
    /\ \A k \in Keys : registry[k] = device[r] => keyBy[k] = r
    /\ \A i \in inserted[r], j \in KeysLeft(r) : i < j

RInv == AnswersFit /\ PayloadsPassed /\ HoldersAreOpen /\ KeysInOrder

(***************************************************************************)
(* A step of one slot.                                                     *)
(***************************************************************************)
Step(r) ==
  \/ \E target \in Devices \cup {NoDevice}, payload \in Payloads :
       Receive(r, target, payload)
  \/ Statement(r) \/ Timeout(r) \/ LoseConnection(r) \/ Rollback(r) \/ BreakDeadlock(r)

LEMMA NextSteps ==
  ASSUME Next
  PROVE  (\E r \in Requests : Step(r)) \/ (\E b \in Brands : DeleteBrand(b))
BY DEF Next, Step

(* It changes nothing of the other slots.                                  *)
LEMMA StepFrame ==
  ASSUME TypeOK, NEW r \in Requests, Step(r), NEW s \in Requests, s # r
  PROVE  /\ phase'[s] = phase[s] /\ op'[s] = op[s] /\ device'[s] = device[s]
         /\ inserted'[s] = inserted[s] /\ answer'[s] = answer[s]
<1> USE DEF TypeOK
<1>1. CASE \E target \in Devices \cup {NoDevice}, payload \in Payloads :
             Receive(r, target, payload)
  BY <1>1 DEF Receive, Advance
<1>2. CASE Timeout(r) \/ LoseConnection(r)
  BY <1>2 DEF Timeout, LoseConnection
<1>3. CASE Rollback(r) \/ BreakDeadlock(r) \/ SlugConflict(r) \/ KeyConflict(r) \/ Respond(r)
  BY <1>3 DEF Rollback, BreakDeadlock, SlugConflict, KeyConflict, Respond, Abort, FreeSlot
<1>4. CASE MissingDevice(r) \/ RefusePayload(r)
  BY <1>4 DEF MissingDevice, RefusePayload, ReturnError
<1>5. CASE Validate(r) \/ UpsertBrand(r) \/ WriteSlug(r) \/ DeleteChildren(r) \/ KeysDone(r)
           \/ InsertChildren(r) \/ Commit(r)
  BY <1>5 DEF Validate, UpsertBrand, WriteSlug, DeleteChildren, KeysDone, InsertChildren,
              Commit, Advance
<1>6. CASE InsertRow(r) \/ LockRow(r)
  BY <1>6 DEF InsertRow, LockRow, Advance
<1>7. CASE InsertKey(r)
  BY <1>7 DEF InsertKey
<1>8. QED
  BY <1>1, <1>2, <1>3, <1>4, <1>5, <1>6, <1>7 DEF Step, Statement

(* And these are the ways in which it changes its own.                     *)
LEMMA FreedSlot ==
  ASSUME TypeOK, NEW r \in Requests, FreeSlot(r)
  PROVE  phase'[r] = "idle" /\ op'[r] = NoOp
BY DEF TypeOK, FreeSlot

LEMMA ReturnedSlot ==
  ASSUME TypeOK, NEW r \in Requests, NEW status, ReturnError(r, status)
  PROVE  phase'[r] = "rollback" /\ op'[r] = NoOp /\ answer'[r] = status
BY DEF TypeOK, ReturnError

LEMMA EndedSlot ==
  ASSUME TypeOK, NEW r \in Requests,
         Rollback(r) \/ BreakDeadlock(r) \/ SlugConflict(r) \/ KeyConflict(r)
  PROVE  FreeSlot(r) /\ ReleaseLocks(r) /\ UNCHANGED tables
BY DEF Rollback, BreakDeadlock, SlugConflict, KeyConflict, Abort

LEMMA OpenRequest ==
  ASSUME IInv, NEW r \in Requests, phase[r] \notin {"idle", "rollback"}
  PROVE  /\ op[r] # NoOp /\ op[r] \in Ops
         /\ op[r].target \in Devices \cup {NoDevice}
         /\ Request(r) \in Payloads
         /\ Request(r).refusedAt \in FaultPoints \cup {"never"}
         /\ Request(r).refusedWith \in {"400", "409"}
         /\ ClaimedKeys(Request(r)) \subseteq Keys
         /\ Request(r).slug \in Keys /\ Request(r).brand \in Brands
<1>1. op[r] # NoOp
  BY DEF IInv, InsertedAreClaimed
<1>2. TypeOK
  BY DEF IInv
<1>3. QED
  BY <1>1, <1>2, RequestType, ClaimedKeysType, PayloadsAssumption DEF DeviceWriteRequest

(***************************************************************************)
(* Answers.                                                                *)
(***************************************************************************)
LEMMA StepAnswers ==
  ASSUME IInv, AnswersFit, NEW r \in Requests, Step(r)
  PROVE  AnswersFit'
<1> USE DEF IInv
<1> DEFINE Fits == /\ phase'[r] \in {"idle", "rollback"} => op'[r] = NoOp
                   /\ phase'[r] = "rollback" => answer'[r] # "none"
                   /\ op'[r] # NoOp => answer'[r] \in {"none", "408", "503"}
<1>1. Fits
  <2>1. ASSUME NEW target \in Devices \cup {NoDevice}, NEW payload \in Payloads,
               Receive(r, target, payload)
        PROVE  Fits
    BY <2>1 DEF Receive, Advance, TypeOK
  <2>2. CASE Timeout(r) \/ LoseConnection(r)
    BY <2>2 DEF Timeout, LoseConnection, TypeOK, AnswersFit
  <2>3. CASE Rollback(r) \/ BreakDeadlock(r) \/ SlugConflict(r) \/ KeyConflict(r) \/ Respond(r)
    <3>1. FreeSlot(r)
      BY <2>3, EndedSlot DEF Respond
    <3>2. QED
      BY <3>1, FreedSlot
  <2>4. CASE MissingDevice(r)
    BY <2>4, ReturnedSlot DEF MissingDevice
  <2>5. CASE RefusePayload(r)
    <3>1. Request(r).refusedWith \in {"400", "409"}
      BY <2>5, OpenRequest DEF RefusePayload, FaultPoints
    <3>2. QED
      BY <2>5, <3>1, ReturnedSlot DEF RefusePayload
  <2>6. CASE Validate(r) \/ UpsertBrand(r) \/ InsertRow(r) \/ LockRow(r) \/ WriteSlug(r)
             \/ DeleteChildren(r) \/ KeysDone(r) \/ InsertChildren(r) \/ Commit(r)
    <3>1. phase'[r] \notin {"idle", "rollback"} /\ phase[r] \notin {"idle", "rollback"}
      BY <2>6 DEF Validate, UpsertBrand, InsertRow, LockRow, WriteSlug, DeleteChildren, KeysDone,
                  InsertChildren, Commit, Advance, At, TypeOK
    <3>2. op' = op /\ answer' = answer
      BY <2>6 DEF Validate, UpsertBrand, InsertRow, LockRow, WriteSlug, DeleteChildren, KeysDone,
                  InsertChildren, Commit
    <3>3. QED
      BY <3>1, <3>2 DEF AnswersFit
  <2>7. CASE InsertKey(r)
    BY <2>7 DEF InsertKey, AnswersFit
  <2>8. QED
    BY <2>1, <2>2, <2>3, <2>4, <2>5, <2>6, <2>7 DEF Step, Statement
<1>2. ASSUME NEW s \in Requests, s # r
      PROVE  phase'[s] = phase[s] /\ op'[s] = op[s] /\ answer'[s] = answer[s]
  BY <1>2, StepFrame
<1>3. QED
  BY <1>1, <1>2 DEF AnswersFit

(***************************************************************************)
(* Payloads.                                                               *)
(***************************************************************************)
(* Only COMMIT writes devices: the one its transaction has locked.         *)
LEMMA StepDevices ==
  ASSUME IInv, NEW r \in Requests, Step(r), NEW d \in Devices
  PROVE  /\ dev[d] # NoDevice => dev'[d] # NoDevice
         /\ rowBy[d] # r \/ phase[r] # "commit" => dev'[d] = dev[d]
<1> USE DEF IInv
<1>1. CASE Commit(r)
  <2>1. device[r] \in Devices /\ rowBy[device[r]] = r /\ phase[r] = "commit"
    BY <1>1 DEF Commit, WritesAreLocked, Writing
  <2>2. Request(r) # NoDevice
    BY <2>1, OpenRequest, NullAssumption
  <2>3. QED
    BY <1>1, <2>1, <2>2 DEF Commit, TypeOK
<1>2. CASE ~Commit(r)
  <2>1. UNCHANGED tables
    BY <1>2, StatementTables, EndedSlot
       DEF Step, Receive, Timeout, LoseConnection
  <2>2. QED
    BY <2>1 DEF tables
<1>3. QED
  BY <1>1, <1>2

LEMMA StepPayloads ==
  ASSUME IInv, PayloadsPassed, NEW r \in Requests, Step(r)
  PROVE  PayloadsPassed'
<1> USE DEF IInv
<1> DEFINE Passed(s) ==
      /\ phase[s] \in PastValidation =>
           /\ Request(s).refusedAt # "validate"
           /\ IsUpdate(s) => dev[op[s].target] # NoDevice
      /\ phase[s] \in {"row"} \cup Writing => Request(s).refusedAt # "brand"
      /\ phase[s] \in Writing =>
           /\ Request(s).refusedAt # "row"
           /\ IF IsUpdate(s) THEN device[s] = op[s].target ELSE dev[device[s]] = NoDevice
      /\ phase[s] \in {"children", "commit"} => Request(s).refusedAt # "keys"
      /\ phase[s] = "commit" => Request(s).refusedAt # "children"
<1>1. ASSUME NEW s \in Requests, s # r
      PROVE  Passed(s)'
  <2>1. /\ phase'[s] = phase[s] /\ op'[s] = op[s] /\ device'[s] = device[s]
        /\ Passed(s)
    BY <1>1, StepFrame DEF PayloadsPassed
  <2>2. ASSUME phase[s] \in PastValidation, IsUpdate(s)
        PROVE  dev'[op[s].target] # NoDevice
    <3>1. op[s].target \in Devices
      BY <2>2, OpenRequest DEF PastValidation, Writing, IsUpdate
    <3>2. QED
      BY <2>1, <2>2, <3>1, StepDevices
  <2>3. ASSUME phase[s] \in Writing
        PROVE  dev'[device[s]] = dev[device[s]]
    <3>1. device[s] \in Devices /\ rowBy[device[s]] # r
      BY <1>1, <2>3 DEF WritesAreLocked
    <3>2. QED
      BY <3>1, StepDevices
  <2>4. QED
    BY <2>1, <2>2, <2>3 DEF Request, IsUpdate
<1>2. Passed(r)'
  <2> USE DEF PastValidation, Writing
  <2>1. ASSUME NEW target \in Devices \cup {NoDevice}, NEW payload \in Payloads,
               Receive(r, target, payload)
        PROVE  Passed(r)'
    BY <2>1 DEF Receive, Advance, TypeOK
  <2>2. CASE Timeout(r) \/ LoseConnection(r) \/ InsertKey(r)
    BY <2>2 DEF Timeout, LoseConnection, InsertKey, tables, PayloadsPassed, Request, IsUpdate
  <2>3. CASE Rollback(r) \/ BreakDeadlock(r) \/ SlugConflict(r) \/ KeyConflict(r) \/ Respond(r)
    <3>1. FreeSlot(r)
      BY <2>3, EndedSlot DEF Respond
    <3>2. QED
      BY <3>1, FreedSlot
  <2>4. CASE MissingDevice(r) \/ RefusePayload(r)
    BY <2>4, ReturnedSlot DEF MissingDevice, RefusePayload
  <2>5. CASE Commit(r)
    BY <2>5 DEF Commit, Advance, TypeOK
  <2>6. CASE Validate(r)
    BY <2>6 DEF Validate, At, Advance, TypeOK, tables, Request, IsUpdate
  <2>7. CASE InsertRow(r)
    BY <2>7 DEF InsertRow, At, Advance, TypeOK, tables, PayloadsPassed, Request, IsUpdate
  <2>8. CASE LockRow(r)
    BY <2>8 DEF LockRow, At, Advance, TypeOK, tables, PayloadsPassed, Request, IsUpdate
  <2>9. CASE UpsertBrand(r) \/ WriteSlug(r) \/ DeleteChildren(r)
    BY <2>9 DEF UpsertBrand, WriteSlug, DeleteChildren, At, Advance, TypeOK, tables,
                PayloadsPassed, Request, IsUpdate
  <2>10. CASE KeysDone(r) \/ InsertChildren(r)
    BY <2>10 DEF KeysDone, InsertChildren, At, Advance, TypeOK, tables,
                 PayloadsPassed, Request, IsUpdate
  <2>11. QED
    BY <2>1, <2>2, <2>3, <2>4, <2>5, <2>6, <2>7, <2>8, <2>9, <2>10 DEF Step, Statement
<1>3. QED
  BY <1>1, <1>2 DEF PayloadsPassed

(***************************************************************************)
(* Locks.                                                                  *)
(***************************************************************************)
(* A step of r gives no lock to another.                                   *)
LEMMA StepLocks ==
  ASSUME IInv, NEW r \in Requests, Step(r), NEW s \in Requests, s # r
  PROVE  /\ \A b \in Brands : brandBy'[b] = s => brandBy[b] = s
         /\ \A d \in Devices : rowBy'[d] = s => rowBy[d] = s
         /\ \A k \in Keys : slugBy'[k] = s => slugBy[k] = s
         /\ \A k \in Keys : keyBy'[k] = s => keyBy[k] = s
<1> USE SlotAssumption DEF IInv, TypeOK
<1>1. ASSUME NEW target \in Devices \cup {NoDevice}, NEW payload \in Payloads,
             Receive(r, target, payload)
      PROVE  UNCHANGED locks
  BY <1>1 DEF Receive
<1>2. CASE Timeout(r) \/ LoseConnection(r) \/ MissingDevice(r) \/ RefusePayload(r) \/ Validate(r)
           \/ KeysDone(r) \/ InsertChildren(r) \/ Respond(r)
  BY <1>2 DEF Timeout, LoseConnection, MissingDevice, RefusePayload, ReturnError, Validate,
              KeysDone, InsertChildren, Respond, locks
<1>3. CASE Rollback(r) \/ BreakDeadlock(r) \/ SlugConflict(r) \/ KeyConflict(r) \/ Commit(r)
  <2>1. ReleaseLocks(r)
    BY <1>3, EndedSlot DEF Commit
  <2>2. QED
    BY <2>1 DEF ReleaseLocks
<1>4. CASE UpsertBrand(r)
  BY <1>4 DEF UpsertBrand
<1>5. CASE InsertRow(r) \/ LockRow(r)
  BY <1>5 DEF InsertRow, LockRow
<1>6. CASE WriteSlug(r)
  BY <1>6 DEF WriteSlug
<1>7. CASE DeleteChildren(r)
  BY <1>7 DEF DeleteChildren
<1>8. CASE InsertKey(r)
  BY <1>8 DEF InsertKey
<1>9. QED
  BY <1>1, <1>2, <1>3, <1>4, <1>5, <1>6, <1>7, <1>8 DEF Step, Statement, locks

LEMMA StepHolders ==
  ASSUME IInv, PayloadsPassed, HoldersAreOpen, NEW r \in Requests, Step(r)
  PROVE  HoldersAreOpen'
<1> USE SlotAssumption DEF IInv, TypeOK
<1> DEFINE Open(s) ==
      /\ \A b \in Brands : brandBy[b] = s => phase[s] \in {"row", "rollback"} \cup Writing
      /\ \A d \in Devices : rowBy[d] = s => phase[s] \in {"rollback"} \cup Writing
      /\ \A k \in Keys : slugBy[k] = s =>
           /\ phase[s] \in {"rollback"} \cup Writing
           /\ phase[s] = "slug" => IsUpdate(s)
      /\ \A k \in Keys : keyBy[k] = s =>
           /\ phase[s] \in {"rollback"} \cup Identified
           /\ phase[s] = "keys" /\ ~IsUpdate(s) => k \in inserted[s]
<1>1. ASSUME NEW s \in Requests, s # r
      PROVE  Open(s)'
  <2>1. /\ phase'[s] = phase[s] /\ op'[s] = op[s] /\ inserted'[s] = inserted[s]
        /\ Open(s)
    BY <1>1, StepFrame DEF HoldersAreOpen
  <2>2. QED
    BY <1>1, <2>1, StepLocks DEF IsUpdate
<1>2. Open(r)'
  <2>0. Open(r)
    BY DEF HoldersAreOpen
  <2> USE DEF Writing, Identified
  <2>1. ASSUME NEW target \in Devices \cup {NoDevice}, NEW payload \in Payloads,
               Receive(r, target, payload)
        PROVE  Open(r)'
    BY <2>0, <2>1 DEF Receive, Advance, locks
  <2>2. CASE Timeout(r) \/ LoseConnection(r)
    BY <2>0, <2>2 DEF Timeout, LoseConnection, locks, IsUpdate
  <2>3. CASE Rollback(r) \/ BreakDeadlock(r) \/ SlugConflict(r) \/ KeyConflict(r) \/ Commit(r)
    <3>1. ReleaseLocks(r)
      BY <2>3, EndedSlot DEF Commit
    <3>2. QED
      BY <3>1 DEF ReleaseLocks
  <2>4. CASE Respond(r)
    BY <2>0, <2>4 DEF Respond, locks
  <2>5. CASE MissingDevice(r) \/ RefusePayload(r)
    <3>1. UNCHANGED locks
      BY <2>5 DEF MissingDevice, RefusePayload, ReturnError
    <3>2. phase'[r] = "rollback"
      BY <2>5, ReturnedSlot DEF MissingDevice, RefusePayload
    <3>3. QED
      BY <3>1, <3>2 DEF locks
  <2>6. CASE Validate(r)
    BY <2>0, <2>6 DEF Validate, At, Advance, locks
  <2>7. CASE UpsertBrand(r)
    BY <2>0, <2>7 DEF UpsertBrand, At, Advance
  <2>8. CASE InsertRow(r)
    BY <2>0, <2>8 DEF InsertRow, At, Advance
  <2>9. CASE LockRow(r)
    BY <2>0, <2>9 DEF LockRow, At, Advance, IsUpdate
  <2>10. CASE WriteSlug(r)
    BY <2>0, <2>10 DEF WriteSlug, At, Advance
  <2>11. CASE KeysDone(r) \/ InsertChildren(r)
    BY <2>0, <2>11 DEF KeysDone, InsertChildren, At, Advance, locks
  <2>12. CASE InsertKey(r)
    BY <2>0, <2>12 DEF InsertKey, At, IsUpdate
  <2>13. CASE DeleteChildren(r)
    <3>1. /\ keyBy' = [k \in Keys |-> IF registry[k] = device[r] THEN r ELSE keyBy[k]]
          /\ UNCHANGED <<brandBy, rowBy, slugBy, op>>
          /\ phase[r] = "delete" /\ phase'[r] = "keys"
      BY <2>13 DEF DeleteChildren, At, Advance
    <3>2. \A k \in Keys : keyBy[k] # r
      BY <2>0, <3>1
    <3>3. ASSUME NEW k \in Keys, registry[k] = device[r]
          PROVE  IsUpdate(r)
      <4>1. device[r] \in Devices
        BY <3>1 DEF WritesAreLocked
      <4>2. dev[device[r]] # NoDevice
        BY <3>3, <4>1 DEF RegistryAgrees
      <4>3. QED
        BY <3>1, <4>2 DEF PayloadsPassed
    <3>4. QED
      BY <2>0, <3>1, <3>2, <3>3 DEF IsUpdate
  <2>14. QED
    BY <2>1, <2>2, <2>3, <2>4, <2>5, <2>6, <2>7, <2>8, <2>9, <2>10, <2>11, <2>12, <2>13
       DEF Step, Statement
<1>3. QED
  BY <1>1, <1>2 DEF HoldersAreOpen

(***************************************************************************)
(* The order of keys.                                                      *)
(***************************************************************************)
(* The registry entries of a device whose transaction is another's stay.   *)
LEMMA StepRegistry ==
  ASSUME IInv, NEW r \in Requests, Step(r), NEW k \in Keys, NEW d \in Devices,
         rowBy[d] # r, registry'[k] = d
  PROVE  registry[k] = d
<1> USE NullAssumption DEF IInv, TypeOK
<1>1. CASE Commit(r)
  <2>1. device[r] \in Devices /\ rowBy[device[r]] = r
    BY <1>1 DEF Commit, WritesAreLocked, Writing
  <2>2. QED
    BY <1>1, <2>1 DEF Commit
<1>2. CASE ~Commit(r)
  <2>1. UNCHANGED tables
    BY <1>2, StatementTables, EndedSlot
       DEF Step, Receive, Timeout, LoseConnection
  <2>2. QED
    BY <2>1 DEF tables
<1>3. QED
  BY <1>1, <1>2

(* No step takes a key lock from another open transaction.                 *)
LEMMA StepKeepsKeys ==
  ASSUME IInv, NEW r \in Requests, Step(r), NEW s \in Requests, s # r, NEW k \in Keys,
         keyBy[k] = s, registry[k] = device[s], phase[s] = "keys"
  PROVE  keyBy'[k] = s
<1> USE SlotAssumption DEF IInv, TypeOK
<1>1. ASSUME NEW target \in Devices \cup {NoDevice}, NEW payload \in Payloads,
             Receive(r, target, payload)
      PROVE  UNCHANGED locks
  BY <1>1 DEF Receive
<1>2. CASE Timeout(r) \/ LoseConnection(r) \/ MissingDevice(r) \/ RefusePayload(r) \/ Validate(r)
           \/ KeysDone(r) \/ InsertChildren(r) \/ Respond(r) \/ UpsertBrand(r) \/ InsertRow(r)
           \/ LockRow(r) \/ WriteSlug(r)
  BY <1>2 DEF Timeout, LoseConnection, MissingDevice, RefusePayload, ReturnError, Validate,
              KeysDone, InsertChildren, Respond, UpsertBrand, InsertRow, LockRow, WriteSlug, locks
<1>3. CASE Rollback(r) \/ BreakDeadlock(r) \/ SlugConflict(r) \/ KeyConflict(r) \/ Commit(r)
  <2>1. ReleaseLocks(r)
    BY <1>3, EndedSlot DEF Commit
  <2>2. QED
    BY <2>1 DEF ReleaseLocks
<1>4. CASE DeleteChildren(r)
  <2>1. phase[r] = "delete"
    BY <1>4 DEF DeleteChildren, At
  <2>2. device[r] # device[s]
    BY <2>1 DEF WritesAreLocked, Writing
  <2>3. QED
    BY <1>4, <2>2 DEF DeleteChildren
<1>5. CASE InsertKey(r)
  BY <1>5 DEF InsertKey
<1>6. QED
  BY <1>1, <1>2, <1>3, <1>4, <1>5 DEF Step, Statement, locks

LEMMA StepOrder ==
  ASSUME IInv, KeysInOrder, NEW r \in Requests, Step(r)
  PROVE  KeysInOrder'
<1> USE DEF IInv, TypeOK
<1> DEFINE Ordered(s) ==
      phase[s] = "keys" =>
        /\ \A k \in Keys : registry[k] = device[s] => keyBy[k] = s
        /\ \A i \in inserted[s], j \in KeysLeft(s) : i < j
<1>1. ASSUME NEW s \in Requests, s # r
      PROVE  Ordered(s)'
  <2> SUFFICES ASSUME phase'[s] = "keys"
               PROVE  Ordered(s)'
    OBVIOUS
  <2>1. /\ phase[s] = "keys" /\ op'[s] = op[s] /\ device'[s] = device[s]
        /\ inserted'[s] = inserted[s] /\ Ordered(s)
    BY <1>1, StepFrame DEF KeysInOrder
  <2>2. device[s] \in Devices /\ rowBy[device[s]] # r
    BY <1>1, <2>1 DEF WritesAreLocked, Writing
  <2>3. ASSUME NEW k \in Keys, registry'[k] = device[s]
        PROVE  keyBy'[k] = s
    <3>1. registry[k] = device[s]
      BY <2>2, <2>3, StepRegistry
    <3>2. keyBy[k] = s
      BY <2>1, <3>1
    <3>3. QED
      BY <1>1, <2>1, <3>1, <3>2, StepKeepsKeys
  <2>4. KeysLeft(s)' = KeysLeft(s)
    BY <2>1 DEF KeysLeft, Request
  <2>5. QED
    BY <2>1, <2>3, <2>4
<1>2. Ordered(r)'
  <2> SUFFICES ASSUME phase'[r] = "keys"
               PROVE  Ordered(r)'
    OBVIOUS
  <2>0. Ordered(r)
    BY DEF KeysInOrder
  <2>1. CASE Timeout(r) \/ LoseConnection(r)
    BY <2>0, <2>1 DEF Timeout, LoseConnection, tables, locks, KeysLeft, Request
  <2>2. CASE DeleteChildren(r)
    <3>1. /\ inserted'[r] = {} /\ device' = device /\ registry' = registry
          /\ \A k \in Keys : registry[k] = device[r] => keyBy'[k] = r
      BY <2>2 DEF DeleteChildren, At, tables, InsertedAreClaimed
    <3>2. QED
      BY <3>1
  <2>3. CASE InsertKey(r)
    <3>1. PICK k \in NextKeys(r) :
            /\ keyBy' = [keyBy EXCEPT ![k] = r]
            /\ inserted' = [inserted EXCEPT ![r] = @ \cup {k}]
      BY <2>3 DEF InsertKey
    <3>2. /\ phase[r] = "keys" /\ device' = device /\ registry' = registry /\ op' = op
      BY <2>3 DEF InsertKey, At, tables
    <3>3. /\ ClaimedKeys(Request(r)) \subseteq Nat /\ k \in Keys
          /\ k \in KeysLeft(r) /\ \A j \in KeysLeft(r) : k <= j
      BY <3>2, OpenRequest, KeysAssumption DEF NextKeys, KeysLeft
    <3>4. /\ inserted'[r] = inserted[r] \cup {k}
          /\ KeysLeft(r)' = KeysLeft(r) \ {k}
      BY <3>1, <3>2 DEF KeysLeft, Request
    <3>5. ASSUME NEW i \in inserted'[r], NEW j \in KeysLeft(r)'
          PROVE  i < j
      <4>1. j \in KeysLeft(r) /\ j # k /\ j \in Nat /\ k \in Nat /\ k <= j
        BY <3>3, <3>4, <3>5 DEF KeysLeft
      <4>2. CASE i = k
        BY <4>1, <4>2
      <4>3. CASE i # k
        BY <2>0, <3>2, <3>4, <3>5, <4>1, <4>3
      <4>4. QED
        BY <4>2, <4>3
    <3>6. ASSUME NEW l \in Keys, registry'[l] = device'[r]
          PROVE  keyBy'[l] = r
      BY <2>0, <3>1, <3>2, <3>6
    <3>7. QED
      BY <3>5, <3>6
  <2>4. CASE Rollback(r) \/ BreakDeadlock(r) \/ SlugConflict(r) \/ KeyConflict(r) \/ Respond(r)
    <3>1. FreeSlot(r)
      BY <2>4, EndedSlot DEF Respond
    <3>2. QED
      BY <3>1, FreedSlot
  <2>5. CASE MissingDevice(r) \/ RefusePayload(r)
    BY <2>5, ReturnedSlot DEF MissingDevice, RefusePayload
  <2>6. QED
    BY <2>1, <2>2, <2>3, <2>4, <2>5
       DEF Step, Statement, Receive, Validate, UpsertBrand, InsertRow, LockRow, WriteSlug,
           KeysDone, InsertChildren, Commit, Advance
<1>3. QED
  BY <1>1, <1>2 DEF KeysInOrder

LEMMA RInvInductive ==
  /\ Init => RInv
  /\ IInv /\ RInv /\ [Next]_vars => RInv'
<1>1. ASSUME Init PROVE RInv
  <2>1. AnswersFit /\ PayloadsPassed /\ KeysInOrder
    BY <1>1 DEF Init, AnswersFit, PayloadsPassed, KeysInOrder, PastValidation, Writing
  <2>2. HoldersAreOpen
    BY <1>1, SlotAssumption DEF Init, HoldersAreOpen
  <2>3. QED
    BY <2>1, <2>2 DEF RInv
<1>2. ASSUME IInv, RInv, NEW r \in Requests, Step(r)
      PROVE  RInv'
  BY <1>2, StepAnswers, StepPayloads, StepHolders, StepOrder DEF RInv
<1>3. ASSUME RInv, NEW b \in Brands, DeleteBrand(b)
      PROVE  RInv'
  BY <1>3 DEF DeleteBrand, locks, local, RInv, AnswersFit, PayloadsPassed, HoldersAreOpen,
              KeysInOrder, Request, IsUpdate, KeysLeft
<1>4. ASSUME RInv, UNCHANGED vars
      PROVE  RInv'
  BY <1>4 DEF vars, RInv, AnswersFit, PayloadsPassed, HoldersAreOpen, KeysInOrder, Request,
              IsUpdate, KeysLeft
<1>5. QED
  BY <1>1, <1>2, <1>3, <1>4, NextSteps

(* Both invariants hold in every reachable state.                          *)
THEOREM RefinementInvariant == Spec => [](IInv /\ RInv)
<1>1. Init => IInv
  BY InitType, InitTables DEF Init, IInv, WritesAreLocked, InsertedAreClaimed, Writing, Identified
<1>2. IInv /\ [Next]_vars => IInv'
  BY NextType, NextProgress, NextLocks, NextTables DEF IInv
<1>3. QED
  BY <1>1, <1>2, RInvInductive, PTL DEF Spec

(***************************************************************************)
(* Circles of waiting transactions.                                        *)
(***************************************************************************)
LEMMA LeastKey ==
  ASSUME NEW T \in SUBSET Nat, T # {}
  PROVE  \E x \in T : \A y \in T : x <= y
<1> DEFINE R == OpToRel(<, Nat)
<1>1. IsWellFoundedOn(R, Nat)
  BY NatLessThanWellFounded
<1>2. ASSUME NEW x \in Nat, NEW y \in Nat, y < x PROVE <<y, x>> \in R
  BY <1>2 DEF OpToRel
<1> HIDE DEF R
<1>3. PICK x \in T : \A y \in T : ~(<<y, x>> \in R)
  BY <1>1, WFMin
<1>4. ASSUME NEW y \in T PROVE x <= y
  <2>1. x \in Nat /\ y \in Nat
    OBVIOUS
  <2>2. ~(y < x)
    BY <1>2, <1>3, <2>1
  <2>3. QED
    BY <2>1, <2>2
<1>5. QED
  BY <1>4

(* What r must hold for s to wait for it.                                  *)
LEMMA BlockerHolds ==
  ASSUME IInv, NEW r \in Requests, NEW s \in Requests, r \in Blockers(s)
  PROVE  \/ phase[s] = "brand" /\ \E b \in Brands : brandBy[b] = r
         \/ phase[s] = "row" /\ IsUpdate(s) /\ \E d \in Devices : rowBy[d] = r
         \/ phase[s] = "slug" /\ \E k \in Keys : slugBy[k] = r
         \/ phase[s] = "keys" /\ \E k \in Keys : k \in NextKeys(s) /\ keyBy[k] = r
<1>1. phase[s] \notin {"idle", "rollback"}
  BY DEF Blockers
<1>2. /\ Request(s).brand \in Brands /\ Request(s).slug \in Keys
      /\ op[s].target \in Devices \cup {NoDevice}
      /\ NextKeys(s) \subseteq Keys
  BY <1>1, OpenRequest DEF NextKeys, KeysLeft
<1>3. QED
  BY <1>1, <1>2 DEF Blockers, IsUpdate

(* Creates alone never wait in a circle: whoever waits for the least key   *)
(* would have to hold a smaller one for which another waits.               *)
LEMMA CreatesDoNotDeadlock ==
  ASSUME IInv, HoldersAreOpen, KeysInOrder,
         NEW S \in SUBSET Requests, Deadlocked(S), \A r \in S : ~IsUpdate(r)
  PROVE  FALSE
<1>1. ASSUME NEW r \in S
      PROVE  \E s \in S : r \in Blockers(s)
  BY DEF Deadlocked
<1>2. ASSUME NEW r \in S
      PROVE  phase[r] # "brand"
  BY <1>1, BlockerHolds DEF HoldersAreOpen, Writing, Identified
<1>3. ASSUME NEW r \in S
      PROVE  phase[r] # "slug"
  <2> SUFFICES ASSUME phase[r] = "slug" PROVE FALSE
    OBVIOUS
  <2>1. PICK s \in S : r \in Blockers(s)
    BY <1>1
  <2>2. /\ \A k \in Keys : slugBy[k] # r
        /\ \A k \in Keys : keyBy[k] # r
    BY DEF HoldersAreOpen, Identified
  <2>3. QED
    BY <1>2, <2>1, <2>2, BlockerHolds
<1>4. ASSUME NEW r \in S
      PROVE  \E s \in S, k \in Keys : phase[s] = "keys" /\ k \in NextKeys(s) /\ keyBy[k] = r
  BY <1>1, <1>2, <1>3, BlockerHolds
<1> DEFINE T == {k \in Keys : \E s \in S : phase[s] = "keys" /\ k \in NextKeys(s)}
<1>5. T \in SUBSET Nat /\ T # {}
  BY <1>4, KeysAssumption DEF Deadlocked
<1>6. PICK j \in T : \A i \in T : j <= i
  <2> HIDE DEF T
  <2>1. QED
    BY <1>5, LeastKey
<1>7. PICK s \in S : phase[s] = "keys" /\ j \in NextKeys(s)
  BY <1>6
<1>8. PICK u \in S, i \in Keys : phase[u] = "keys" /\ i \in NextKeys(u) /\ keyBy[i] = s
  BY <1>4
<1>9. i \in inserted[s] /\ j \in KeysLeft(s)
  BY <1>7, <1>8 DEF HoldersAreOpen, NextKeys
<1>10. i < j /\ i \in T
  BY <1>7, <1>8, <1>9 DEF KeysInOrder
<1>11. i \in Nat /\ j \in Nat /\ j <= i
  BY <1>5, <1>6, <1>10
<1>12. QED
  BY <1>10, <1>11

(* Whatever transactions wait in a circle, one of them is an update: the   *)
(* sorted identifiers of replace_children keep creates apart.              *)
THEOREM DeadlocksAlwaysNeedUpdate == Spec => []DeadlocksNeedUpdate
<1>1. IInv /\ RInv => DeadlocksNeedUpdate
  BY CreatesDoNotDeadlock DEF RInv, DeadlocksNeedUpdate
<1>2. QED
  BY <1>1, RefinementInvariant, PTL

(***************************************************************************)
(* Every step is one of the promised ones, or none.                        *)
(***************************************************************************)
Applied == [r \in Requests |-> phase[r] = "committed"]

LEMMA AppliedSteps ==
  ASSUME TypeOK, NEW r \in Requests, Step(r)
  PROVE  Applied' = [Applied EXCEPT ![r] = phase'[r] = "committed"]
<1>1. ASSUME NEW s \in Requests, s # r
      PROVE  phase'[s] = phase[s]
  BY <1>1, StepFrame
<1>2. QED
  BY <1>1 DEF Applied

LEMMA Stutter ==
  ASSUME TypeOK, NEW r \in Requests, Step(r),
         phase[r] # "committed", phase'[r] # "committed",
         UNCHANGED <<dev, brandName, op, answer>>
  PROVE  UNCHANGED Abstract!vars
<1>1. Applied' = Applied
  BY AppliedSteps DEF Applied
<1>2. QED
  BY <1>1 DEF Abstract!vars, Applied

(* An error answer with its reason.                                        *)
LEMMA RefuseStep ==
  ASSUME IInv, NEW r \in Requests, Step(r), NEW status \in {"400", "404", "409", "503"},
         op[r] # NoOp, phase[r] # "committed", phase'[r] # "committed", answer[r] = "none",
         Abstract!Justified(status, op[r].target, Request(r)),
         answer' = [answer EXCEPT ![r] = status], op' = [op EXCEPT ![r] = NoOp],
         UNCHANGED <<dev, brandName>>
  PROVE  Abstract!Next
<1>1. Applied' = Applied /\ ~Applied[r]
  BY AppliedSteps DEF Applied, IInv
<1>2. Abstract!Refuse(r, status)
  BY <1>1 DEF Abstract!Refuse, Applied, Request
<1>3. QED
  BY <1>2 DEF Abstract!Next

LEMMA DropStep ==
  ASSUME IInv, RInv, NEW r \in Requests, Step(r), op[r] # NoOp,
         phase[r] # "committed", phase'[r] # "committed", answer[r] # "none",
         op' = [op EXCEPT ![r] = NoOp], UNCHANGED <<dev, brandName, answer>>
  PROVE  Abstract!Next
<1>1. Applied' = Applied /\ ~Applied[r]
  BY AppliedSteps DEF Applied, IInv
<1>2. answer[r] \in {"408", "503"}
  BY DEF RInv, AnswersFit
<1>3. Abstract!Drop(r)
  BY <1>1, <1>2 DEF Abstract!Drop, Abstract!Doubtful, Applied
<1>4. QED
  BY <1>3 DEF Abstract!Next

(* The row a statement writes differs from that of a device that owns one  *)
(* of the keys only if the latter is another device.                       *)
LEMMA ConflictReported ==
  ASSUME IInv, RInv, NEW r \in Requests, phase[r] \in Writing,
         NEW e \in Devices, e # device[r], dev[e] # NoDevice,
         NEW k \in ClaimedKeys(dev[e]), k \in ClaimedKeys(Request(r))
  PROVE  Abstract!Justified("409", op[r].target, Request(r))
<1>1. e # op[r].target
  BY NullAssumption DEF RInv, PayloadsPassed, IsUpdate
<1>2. Abstract!Conflicts(op[r].target, Request(r))
  BY <1>1 DEF Abstract!Conflicts, Abstract!Stored, Abstract!ClaimedKeys, ClaimedKeys
<1>3. QED
  BY <1>2 DEF Abstract!Justified

(* COMMIT applies the write where nothing stands against it.               *)
LEMMA CommitStep ==
  ASSUME IInv, RInv, NEW r \in Requests, Commit(r)
  PROVE  Abstract!Next
<1> USE DEF IInv
<1>1. /\ phase[r] = "commit" /\ phase'[r] = "committed"
      /\ device[r] \in Devices /\ inserted[r] = ClaimedKeys(Request(r))
      /\ op[r] # NoOp /\ op' = op /\ answer' = answer
      /\ dev' = [dev EXCEPT ![device[r]] = Request(r)]
      /\ brandName' = [brandName EXCEPT ![Request(r).brand] = Request(r).brandName]
  BY DEF Commit, Advance, TypeOK, WritesAreLocked, InsertedAreClaimed, Writing
<1>2. Applied' = [Applied EXCEPT ![r] = TRUE] /\ ~Applied[r]
  BY <1>1, AppliedSteps DEF Step, Statement, Applied
<1>3. ~Abstract!Conflicts(device[r], Request(r))
  <2> SUFFICES ASSUME NEW e \in Devices, e # device[r], dev[e] # NoDevice,
                      NEW k \in ClaimedKeys(dev[e]), k \in ClaimedKeys(Request(r))
               PROVE  FALSE
    BY DEF Abstract!Conflicts, Abstract!Stored, Abstract!ClaimedKeys, ClaimedKeys
  <2>1. k \in Keys
    BY <1>1, OpenRequest
  <2>2. registry[k] = e
    BY <2>1 DEF RegistryAgrees
  <2>3. registry[k] \in {NoDevice, device[r]}
    BY <1>1 DEF WritesAreLocked, Identified
  <2>4. QED
    BY <2>2, <2>3, NullAssumption
<1>4. Request(r).refusedAt = "never"
  BY <1>1, OpenRequest DEF RInv, PayloadsPassed, PastValidation, Writing, FaultPoints
<1>5. IF op[r].target = NoDevice THEN ~Abstract!Stored(device[r])
      ELSE Abstract!Stored(device[r]) /\ device[r] = op[r].target
  BY <1>1 DEF RInv, PayloadsPassed, PastValidation, Writing, IsUpdate, Abstract!Stored
<1>6. \E d \in Devices : Abstract!Put(r, d)
  BY <1>1, <1>2, <1>3, <1>4, <1>5 DEF Abstract!Put, Applied, Request
<1>7. QED
  BY <1>6 DEF Abstract!Next

LEMMA StepRefines ==
  ASSUME IInv, RInv, NEW r \in Requests, Step(r)
  PROVE  [Abstract!Next]_Abstract!vars
<1>0. TypeOK
  BY DEF IInv
<1>1. ASSUME NEW target \in Devices \cup {NoDevice}, NEW payload \in Payloads,
             Receive(r, target, payload)
      PROVE  Abstract!Next
  <2>1. op[r] = NoOp /\ Applied' = Applied
    BY <1>0, <1>1, AppliedSteps
       DEF Receive, Advance, TypeOK, Applied, RInv, AnswersFit
  <2>2. Abstract!Submit(r, target, payload)
    BY <1>1, <2>1 DEF Receive, tables, Abstract!Submit, Applied
  <2>3. QED
    BY <2>2 DEF Abstract!Next
<1>2. CASE Commit(r)
  BY <1>2, CommitStep
<1>3. CASE Respond(r)
  <2>1. phase[r] = "committed" /\ FreeSlot(r) /\ UNCHANGED <<dev, brandName>>
        /\ answer' = [answer EXCEPT ![r] = IF @ = "none" THEN "ok" ELSE @]
    BY <1>3 DEF Respond, tables
  <2>2. Applied' = [Applied EXCEPT ![r] = FALSE] /\ Applied[r]
    BY <1>0, <2>1, FreedSlot, AppliedSteps DEF Applied
  <2>3. Abstract!Acknowledge(r)
    BY <2>1, <2>2 DEF FreeSlot, Abstract!Acknowledge, Applied
  <2>4. QED
    BY <2>3 DEF Abstract!Next
<1>4. CASE Timeout(r) \/ LoseConnection(r)
  <2>1. /\ op[r] # NoOp /\ answer[r] = "none" /\ UNCHANGED <<dev, brandName, op, phase>>
        /\ \E status \in {"408", "503"} : answer' = [answer EXCEPT ![r] = status]
    BY <1>4 DEF Timeout, LoseConnection, tables
  <2>2. \E status \in {"408", "503"} : Abstract!GiveUp(r, status)
    BY <2>1 DEF Abstract!GiveUp
  <2>3. QED
    BY <2>2 DEF Abstract!Next, Abstract!Doubtful
<1>5. CASE MissingDevice(r)
  <2>1. /\ phase[r] = "validate" /\ answer[r] = "none" /\ op[r] # NoOp
        /\ op[r].target # NoDevice /\ dev[op[r].target] = NoDevice
        /\ phase'[r] = "rollback" /\ UNCHANGED <<dev, brandName>>
        /\ answer' = [answer EXCEPT ![r] = "404"] /\ op' = [op EXCEPT ![r] = NoOp]
    BY <1>0, <1>5, OpenRequest
       DEF MissingDevice, At, IsUpdate, ReturnError, TypeOK, tables
  <2>2. Abstract!Justified("404", op[r].target, Request(r))
    BY <2>1 DEF Abstract!Justified, Abstract!Stored
  <2>3. QED
    BY <2>1, <2>2, RefuseStep
<1>6. CASE RefusePayload(r)
  <2>1. /\ phase[r] \in FaultPoints /\ Request(r).refusedAt = phase[r]
        /\ answer[r] = "none" /\ ReturnError(r, Request(r).refusedWith)
    BY <1>6 DEF RefusePayload, At
  <2>2. /\ op[r] # NoOp /\ Request(r).refusedWith \in {"400", "409"}
        /\ Request(r).refusedAt # "never" /\ phase[r] # "committed"
    BY <2>1, OpenRequest DEF FaultPoints
  <2>3. /\ phase'[r] = "rollback" /\ UNCHANGED <<dev, brandName>>
        /\ answer' = [answer EXCEPT ![r] = Request(r).refusedWith]
        /\ op' = [op EXCEPT ![r] = NoOp]
    BY <1>0, <2>1 DEF ReturnError, TypeOK, tables
  <2>4. Abstract!Justified(Request(r).refusedWith, op[r].target, Request(r))
    BY <2>2 DEF Abstract!Justified
  <2>5. QED
    BY <2>1, <2>2, <2>3, <2>4, RefuseStep
<1>7. CASE SlugConflict(r) \/ KeyConflict(r)
  <2>1. /\ phase[r] \in {"slug", "keys"} /\ answer[r] = "none" /\ op[r] # NoOp
        /\ Abort(r, "409")
    BY <1>7, OpenRequest DEF SlugConflict, KeyConflict, At
  <2>2. /\ phase'[r] = "idle" /\ UNCHANGED <<dev, brandName>>
        /\ answer' = [answer EXCEPT ![r] = "409"] /\ op' = [op EXCEPT ![r] = NoOp]
    BY <1>0, <2>1 DEF Abort, FreeSlot, TypeOK, tables
  <2>3. \E e \in Devices, k \in Keys :
          /\ e # device[r] /\ dev[e] # NoDevice
          /\ k \in ClaimedKeys(dev[e]) /\ k \in ClaimedKeys(Request(r))
    <3>1. CASE SlugConflict(r)
      <4>1. PICK e \in Devices \ {device[r]} : dev[e] # NoDevice /\ dev[e].slug = Request(r).slug
        BY <3>1 DEF SlugConflict, SlugTaken
      <4>2. Request(r).slug \in Keys
        BY <2>1, OpenRequest
      <4>3. QED
        BY <4>1, <4>2 DEF ClaimedKeys
    <3>2. CASE KeyConflict(r)
      <4>1. PICK k \in NextKeys(r) : ~KeyFree(r, k)
        BY <3>2 DEF KeyConflict
      <4>2. k \in Keys /\ k \in ClaimedKeys(Request(r)) /\ phase[r] = "keys"
        BY <2>1, <3>2, OpenRequest DEF NextKeys, KeysLeft, KeyConflict, At
      <4>3. registry[k] \in Devices /\ registry[k] # device[r]
        BY <1>0, <4>1, <4>2 DEF KeyFree, RInv, KeysInOrder, TypeOK
      <4>4. dev[registry[k]] # NoDevice /\ k \in ClaimedKeys(dev[registry[k]])
        BY <4>2, <4>3 DEF IInv, RegistryAgrees
      <4>5. QED
        BY <4>2, <4>3, <4>4
    <3>3. QED
      BY <1>7, <3>1, <3>2
  <2>4. Abstract!Justified("409", op[r].target, Request(r))
    BY <2>1, <2>3, ConflictReported DEF Writing
  <2>5. QED
    BY <2>1, <2>2, <2>4, RefuseStep
<1>8. CASE Rollback(r)
  <2>1. /\ phase[r] # "committed" /\ answer[r] # "none" /\ phase'[r] = "idle"
        /\ op' = [op EXCEPT ![r] = NoOp] /\ UNCHANGED <<dev, brandName, answer>>
    BY <1>0, <1>8 DEF Rollback, FreeSlot, TypeOK, tables
  <2>2. CASE op[r] = NoOp
    <3>1. op' = op
      BY <1>0, <2>1, <2>2 DEF TypeOK
    <3>2. QED
      BY <1>0, <2>1, <3>1, Stutter
  <2>3. CASE op[r] # NoOp
    BY <2>1, <2>3, DropStep
  <2>4. QED
    BY <2>2, <2>3
<1>9. CASE BreakDeadlock(r)
  <2>1. /\ phase'[r] = "idle" /\ op' = [op EXCEPT ![r] = NoOp]
        /\ answer' = [answer EXCEPT ![r] = IF @ = "none" THEN "503" ELSE @]
        /\ UNCHANGED <<dev, brandName>>
    BY <1>0, <1>9 DEF BreakDeadlock, Abort, FreeSlot, TypeOK, tables
  <2>2. PICK s \in Requests : r \in Blockers(s)
    BY <1>9 DEF BreakDeadlock, Deadlocked
  <2>3. phase[r] \in {"row", "rollback"} \cup Writing
    BY <2>2, BlockerHolds DEF RInv, HoldersAreOpen, Writing, Identified
  <2>4. phase[r] # "committed"
    BY <2>3 DEF Writing
  <2>5. CASE answer[r] = "none"
    <3>1. op[r] # NoOp
      BY <2>3, <2>5, OpenRequest DEF RInv, AnswersFit, Writing
    <3>2. answer' = [answer EXCEPT ![r] = "503"]
      BY <2>1, <2>5
    <3>3. Abstract!Justified("503", op[r].target, Request(r))
      BY DEF Abstract!Justified
    <3>4. QED
      BY <2>1, <2>4, <2>5, <3>1, <3>2, <3>3, RefuseStep
  <2>6. CASE answer[r] # "none"
    <3>1. answer' = answer
      BY <1>0, <2>1, <2>6 DEF TypeOK
    <3>2. CASE op[r] = NoOp
      <4>1. op' = op
        BY <1>0, <2>1, <3>2 DEF TypeOK
      <4>2. QED
        BY <1>0, <2>1, <2>4, <3>1, <4>1, Stutter
    <3>3. CASE op[r] # NoOp
      BY <2>1, <2>4, <2>6, <3>1, <3>3, DropStep
    <3>4. QED
      BY <3>2, <3>3
  <2>7. QED
    BY <2>5, <2>6
<1>10. CASE Validate(r) \/ UpsertBrand(r) \/ InsertRow(r) \/ LockRow(r) \/ WriteSlug(r)
            \/ DeleteChildren(r) \/ KeysDone(r) \/ InsertChildren(r)
  <2>1. /\ phase[r] # "committed" /\ phase'[r] # "committed"
        /\ UNCHANGED <<dev, brandName, op, answer>>
    BY <1>0, <1>10
       DEF Validate, UpsertBrand, InsertRow, LockRow, WriteSlug, DeleteChildren, KeysDone,
           InsertChildren, At, Advance, TypeOK, tables
  <2>2. QED
    BY <1>0, <2>1, Stutter
<1>11. CASE InsertKey(r)
  BY <1>0, <1>11, Stutter DEF InsertKey, At, tables
<1>12. QED
  BY <1>1, <1>2, <1>3, <1>4, <1>5, <1>6, <1>7, <1>8, <1>9, <1>10, <1>11 DEF Step, Statement

(* Every behaviour of the statements is one of the catalogue the endpoints *)
(* promise: writes are atomic, keep identifiers unique, succeed only once  *)
(* applied and fail with cause (routes/catalog.rs, create_device and       *)
(* update_device).                                                         *)
THEOREM ImplementsTheCatalog == Spec => ImplementsCatalog
<1>1. Init => Abstract!Init
  BY InitialAssumption DEF Init, Abstract!Init, Abstract!Stored
<1>2. IInv /\ RInv /\ [Next]_vars => [Abstract!Next]_Abstract!vars
  <2> SUFFICES ASSUME IInv, RInv, [Next]_vars
               PROVE  [Abstract!Next]_Abstract!vars
    OBVIOUS
  <2>1. ASSUME NEW b \in Brands, DeleteBrand(b)
        PROVE  Abstract!Next
    <3>1. Abstract!DeleteBrand(b)
      BY <2>1 DEF DeleteBrand, local, Abstract!DeleteBrand, Abstract!Stored
    <3>2. QED
      BY <3>1 DEF Abstract!Next
  <2>2. CASE UNCHANGED vars
    BY <2>2 DEF vars, Abstract!vars
  <2>3. QED
    BY <2>1, <2>2, NextSteps, StepRefines
<1>3. QED
  BY <1>1, <1>2, RefinementInvariant, PTL DEF Spec, ImplementsCatalog, Abstract!Spec
=============================================================================
