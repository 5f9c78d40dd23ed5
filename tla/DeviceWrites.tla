---------------------------- MODULE DeviceWrites ----------------------------
(***************************************************************************)
(* create_device and update_device as the database executes them: one      *)
(* action per SQL statement, transactions at READ COMMITTED that interleave*)
(* with one another, with DELETE /brands/{id}, with the 30 s time limit    *)
(* and with the loss of their connection.                                  *)
(*                                                                         *)
(* What a transaction has written stays its own until COMMIT; what others  *)
(* notice earlier are its row and index locks.  A unique index makes an    *)
(* insertion wait for the transaction that has inserted or deleted the     *)
(* same key and has not ended, so slugBy and keyBy are held for deleted    *)
(* keys as well as for inserted ones.                                      *)
(***************************************************************************)
EXTENDS CatalogData, FiniteSets

CONSTANTS
  Requests,       \* request slots; each handles one request after another
  NoTx, NoOp,
  InitialDevices, \* the stored catalogue at the start
  InitialBrands

ASSUME SlotAssumption    == NoTx \notin Requests
ASSUME InitialAssumption ==
  /\ InitialDevices \in [Devices -> Payloads \cup {NoDevice}]
  /\ InitialBrands \in [Brands -> BrandNames \cup {NoBrand}]
  /\ \A d \in Devices : InitialDevices[d] # NoDevice =>
       /\ InitialBrands[InitialDevices[d].brand] # NoBrand
       /\ \A e \in Devices \ {d} : InitialDevices[e] # NoDevice =>
            ClaimedKeys(InitialDevices[d]) \cap ClaimedKeys(InitialDevices[e]) = {}

VARIABLES
  dev,        \* committed device_models row with its child rows, by id
  registry,   \* committed device_identifiers: the device of each route key
  brandName,  \* committed brands: the name of each slug
  brandBy,    \* transaction with an uncommitted upsert of the brand
  rowBy,      \* transaction that locks the device_models row
  slugBy,     \* transaction with an uncommitted entry in the slug index
  keyBy,      \* transaction with an uncommitted entry in the route key index
  phase,      \* the next statement of each slot
  op,         \* the request a slot handles: [target, payload] or NoOp
  device,     \* the row a slot writes: its target, or the id of its INSERT
  inserted,   \* route keys a slot has inserted so far
  answer      \* the status a slot sent last, "none" while it works

tables == <<dev, registry, brandName>>
locks  == <<brandBy, rowBy, slugBy, keyBy>>
local  == <<phase, op, device, inserted, answer>>
vars   == <<dev, registry, brandName, brandBy, rowBy, slugBy, keyBy,
            phase, op, device, inserted, answer>>

Ops == [target : Devices \cup {NoDevice}, payload : Payloads]

ASSUME NoOpAssumption == NoOp \notin Ops

Phases == {"idle", "validate", "brand", "row", "slug", "delete", "keys",
           "children", "commit", "committed", "rollback"}
Answers == {"none", "ok", "400", "404", "409", "408", "503"}

Request(r) == op[r].payload
IsUpdate(r) == op[r].target # NoDevice

(* The open transaction of r is at this statement and its handler has not  *)
(* been dropped.                                                           *)
At(r, statement) == phase[r] = statement /\ answer[r] = "none"

(***************************************************************************)
(* Ends of a transaction.                                                  *)
(***************************************************************************)
ReleaseLocks(r) ==
  /\ brandBy' = [b \in Brands  |-> IF brandBy[b] = r THEN NoTx ELSE brandBy[b]]
  /\ rowBy'   = [d \in Devices |-> IF rowBy[d] = r THEN NoTx ELSE rowBy[d]]
  /\ slugBy'  = [k \in Keys    |-> IF slugBy[k] = r THEN NoTx ELSE slugBy[k]]
  /\ keyBy'   = [k \in Keys    |-> IF keyBy[k] = r THEN NoTx ELSE keyBy[k]]

(* The slot waits for its next request.                                    *)
FreeSlot(r) ==
  /\ phase' = [phase EXCEPT ![r] = "idle"]
  /\ op' = [op EXCEPT ![r] = NoOp]
  /\ device' = [device EXCEPT ![r] = NoDevice]
  /\ inserted' = [inserted EXCEPT ![r] = {}]

(* A statement fails: PostgreSQL aborts the transaction on the spot.       *)
Abort(r, status) ==
  /\ ReleaseLocks(r)
  /\ FreeSlot(r)
  /\ answer' = [answer EXCEPT ![r] = IF @ = "none" THEN status ELSE @]
  /\ UNCHANGED tables

(* The handler returns an error: the client is answered, and the dropped   *)
(* Transaction queues a ROLLBACK that reaches the database later.          *)
ReturnError(r, status) ==
  /\ phase' = [phase EXCEPT ![r] = "rollback"]
  /\ op' = [op EXCEPT ![r] = NoOp]
  /\ answer' = [answer EXCEPT ![r] = status]
  /\ UNCHANGED <<tables, locks, device, inserted>>

Advance(r, to) == phase' = [phase EXCEPT ![r] = to]

(***************************************************************************)
(* Statements of a request, in their order.                                *)
(***************************************************************************)
Receive(r, target, payload) ==
  /\ phase[r] = "idle"
  /\ op' = [op EXCEPT ![r] = [target |-> target, payload |-> payload]]
  /\ answer' = [answer EXCEPT ![r] = "none"]
  /\ Advance(r, "validate")
  /\ UNCHANGED <<tables, locks, device, inserted>>

(* update_device selects the category of its row before it validates.      *)
MissingDevice(r) ==
  /\ At(r, "validate")
  /\ IsUpdate(r) /\ dev[op[r].target] = NoDevice
  /\ ReturnError(r, "404")

Validate(r) ==
  /\ At(r, "validate")
  /\ IsUpdate(r) => dev[op[r].target] # NoDevice
  /\ Request(r).refusedAt # "validate"
  /\ Advance(r, "brand")
  /\ UNCHANGED <<tables, locks, op, device, inserted, answer>>

(* Mutant: a refused payload is reported as an internal error.             *)
RefusePayload_Internal(r) ==
  /\ phase[r] \in FaultPoints
  /\ At(r, Request(r).refusedAt)
  /\ ReturnError(r, "500")

(* The content of the payload makes a statement or a check fail; a CHECK   *)
(* is looked at before locks and indexes are waited for, and that of an    *)
(* identifier after any number of the earlier ones.  ROLLBACK may follow   *)
(* the answer whatever it was.                                             *)
RefusePayload(r) ==
  /\ phase[r] \in FaultPoints
  /\ At(r, Request(r).refusedAt)
  /\ phase[r] = "validate" /\ IsUpdate(r) => dev[op[r].target] # NoDevice
  /\ ReturnError(r, Request(r).refusedWith)

(* Mutant: the upsert runs on the pool and not in the transaction.         *)
UpsertBrand_OutsideTransaction(r) ==
  /\ At(r, "brand") /\ Request(r).refusedAt # "brand"
  /\ brandBy[Request(r).brand] = NoTx
  /\ brandName' = [brandName EXCEPT ![Request(r).brand] = Request(r).brandName]
  /\ Advance(r, "row")
  /\ UNCHANGED <<dev, registry, locks, op, device, inserted, answer>>

(* INSERT INTO brands ... ON CONFLICT (slug) DO UPDATE SET name            *)
UpsertBrand(r) ==
  /\ At(r, "brand") /\ Request(r).refusedAt # "brand"
  /\ brandBy[Request(r).brand] = NoTx
  /\ brandBy' = [brandBy EXCEPT ![Request(r).brand] = r]
  /\ Advance(r, "row")
  /\ UNCHANGED <<tables, rowBy, slugBy, keyBy, op, device, inserted, answer>>

(* INSERT INTO device_models, up to the slug index.                        *)
InsertRow(r) ==
  /\ At(r, "row") /\ ~IsUpdate(r) /\ Request(r).refusedAt # "row"
  /\ \E d \in Devices :
       /\ dev[d] = NoDevice /\ rowBy[d] = NoTx
       /\ device' = [device EXCEPT ![r] = d]
       /\ rowBy' = [rowBy EXCEPT ![d] = r]
  /\ Advance(r, "slug")
  /\ UNCHANGED <<tables, brandBy, slugBy, keyBy, op, inserted, answer>>

(* UPDATE device_models: the old version of the row, and with it its entry *)
(* in the slug index, is locked before the new entry is inserted.  No      *)
(* endpoint deletes a device, so the row Validate saw is still there.      *)
LockRow(r) ==
  /\ At(r, "row") /\ IsUpdate(r) /\ Request(r).refusedAt # "row"
  /\ rowBy[op[r].target] = NoTx
  /\ device' = [device EXCEPT ![r] = op[r].target]
  /\ rowBy' = [rowBy EXCEPT ![op[r].target] = r]
  /\ slugBy' = [slugBy EXCEPT ![dev[op[r].target].slug] = r]
  /\ Advance(r, "slug")
  /\ UNCHANGED <<tables, brandBy, keyBy, op, inserted, answer>>

SlugTaken(r) ==
  \E d \in Devices \ {device[r]} :
    dev[d] # NoDevice /\ dev[d].slug = Request(r).slug

WriteSlug(r) ==
  /\ At(r, "slug")
  /\ slugBy[Request(r).slug] \in {NoTx, r}
  /\ ~SlugTaken(r)
  /\ slugBy' = [slugBy EXCEPT ![Request(r).slug] = r]
  /\ Advance(r, "delete")
  /\ UNCHANGED <<tables, brandBy, rowBy, keyBy, op, device, inserted, answer>>

(* Mutant: a unique violation is tried again and not reported.             *)
SlugConflict_Retries(r) ==
  /\ At(r, "slug")
  /\ slugBy[Request(r).slug] \in {NoTx, r}
  /\ SlugTaken(r)
  /\ UNCHANGED vars

SlugConflict(r) ==
  /\ At(r, "slug")
  /\ slugBy[Request(r).slug] \in {NoTx, r}
  /\ SlugTaken(r)
  /\ Abort(r, "409")

(* DELETE FROM device_identifiers and the other nine child tables.         *)
DeleteChildren(r) ==
  /\ At(r, "delete")
  /\ keyBy' = [k \in Keys |-> IF registry[k] = device[r] THEN r ELSE keyBy[k]]
  /\ Advance(r, "keys")
  /\ UNCHANGED <<tables, brandBy, rowBy, slugBy, op, device, inserted, answer>>

KeysLeft(r) == ClaimedKeys(Request(r)) \ inserted[r]

(* Mutant: the identifiers are inserted as the payload lists them, the     *)
(* slug first.                                                             *)
NextKeys_PayloadOrder(r) ==
  IF Request(r).slug \in KeysLeft(r)
  THEN {Request(r).slug}
  ELSE {k \in KeysLeft(r) : \A j \in KeysLeft(r) : k <= j}

(* The key inserted next: the least one left, as the BTreeMap iterates;    *)
(* empty when all are inserted.                                            *)
NextKeys(r) == {k \in KeysLeft(r) : \A j \in KeysLeft(r) : k <= j}

(* The key is free, or belongs to the row whose identifiers r has deleted. *)
KeyFree(r, k) ==
  registry[k] = NoDevice \/ (registry[k] = device[r] /\ keyBy[k] = r)

(* The next key is not the one that is refused: that is at most the last.  *)
NextKeyPasses(r) == Request(r).refusedAt = "keys" => NextKeys(r) # KeysLeft(r)

InsertKey(r) ==
  /\ At(r, "keys") /\ NextKeyPasses(r)
  /\ \E k \in NextKeys(r) :
       /\ keyBy[k] \in {NoTx, r}
       /\ KeyFree(r, k)
       /\ keyBy' = [keyBy EXCEPT ![k] = r]
       /\ inserted' = [inserted EXCEPT ![r] = @ \cup {k}]
  /\ UNCHANGED <<tables, brandBy, rowBy, slugBy, phase, op, device, answer>>

KeyConflict(r) ==
  /\ At(r, "keys") /\ NextKeyPasses(r)
  /\ \E k \in NextKeys(r) : keyBy[k] \in {NoTx, r} /\ ~KeyFree(r, k)
  /\ Abort(r, "409")

KeysDone(r) ==
  /\ At(r, "keys") /\ Request(r).refusedAt # "keys"
  /\ KeysLeft(r) = {}
  /\ Advance(r, "children")
  /\ UNCHANGED <<tables, locks, op, device, inserted, answer>>

(* Sources, configurations, software and its launch check, materials,      *)
(* power, dimensions, colours and spec values; load_admin_detail then      *)
(* reads the transaction's own rows back.                                  *)
InsertChildren(r) ==
  /\ At(r, "children") /\ Request(r).refusedAt # "children"
  /\ Advance(r, "commit")
  /\ UNCHANGED <<tables, locks, op, device, inserted, answer>>

(* Mutant: the identifiers of the replaced version stay in the registry.   *)
Commit_KeepOldIdentifiers(r) ==
  /\ phase[r] = "commit"
  /\ dev' = [dev EXCEPT ![device[r]] = Request(r)]
  /\ registry' = [k \in Keys |->
                    IF k \in inserted[r] THEN device[r] ELSE registry[k]]
  /\ brandName' = [brandName EXCEPT ![Request(r).brand] = Request(r).brandName]
  /\ ReleaseLocks(r)
  /\ Advance(r, "committed")
  /\ UNCHANGED <<op, device, inserted, answer>>

(* A COMMIT already sent takes effect even if the handler is gone.         *)
Commit(r) ==
  /\ phase[r] = "commit"
  /\ dev' = [dev EXCEPT ![device[r]] = Request(r)]
  /\ registry' = [k \in Keys |->
                    IF k \in inserted[r] THEN device[r]
                    ELSE IF registry[k] = device[r] THEN NoDevice
                    ELSE registry[k]]
  /\ brandName' = [brandName EXCEPT ![Request(r).brand] = Request(r).brandName]
  /\ ReleaseLocks(r)
  /\ Advance(r, "committed")
  /\ UNCHANGED <<op, device, inserted, answer>>

(* 201 or 200, unless the client has been answered already.                *)
Respond(r) ==
  /\ phase[r] = "committed"
  /\ FreeSlot(r)
  /\ answer' = [answer EXCEPT ![r] = IF @ = "none" THEN "ok" ELSE @]
  /\ UNCHANGED <<tables, locks>>

(***************************************************************************)
(* What can befall a request at any point.                                 *)
(***************************************************************************)
(* The lock holder that r's next statement waits for, if any.              *)
Blockers(r) ==
  (CASE phase[r] = "brand" -> {brandBy[Request(r).brand]}
     [] phase[r] = "row" /\ IsUpdate(r) -> {rowBy[op[r].target]}
     [] phase[r] = "slug" -> {slugBy[Request(r).slug]}
     [] phase[r] = "keys" -> {keyBy[k] : k \in NextKeys(r)}
     [] OTHER -> {}) \ {NoTx, r}

(* The TimeoutLayer drops the handler (408), or the connection is lost     *)
(* (503).  The statement in flight is not cancelled.                       *)
Timeout(r) ==
  /\ op[r] # NoOp /\ answer[r] = "none"
  /\ answer' = [answer EXCEPT ![r] = "408"]
  /\ UNCHANGED <<tables, locks, phase, op, device, inserted>>

LoseConnection(r) ==
  /\ op[r] # NoOp /\ answer[r] = "none" /\ phase[r] # "committed"
  /\ answer' = [answer EXCEPT ![r] = "503"]
  /\ UNCHANGED <<tables, locks, phase, op, device, inserted>>

(* The database undoes a transaction whose handler is gone, once the       *)
(* statement in flight has stopped waiting.                                *)
Rollback(r) ==
  /\ phase[r] \notin {"idle", "committed"} /\ answer[r] # "none"
  /\ Blockers(r) = {}
  /\ ReleaseLocks(r)
  /\ FreeSlot(r)
  /\ UNCHANGED <<tables, answer>>

(* Everyone in the set waits for another of the set.                       *)
Deadlocked(S) == S # {} /\ UNION {Blockers(r) : r \in S} = S

(* The database aborts one of the transactions that wait in a circle; the  *)
(* error is neither a unique nor a check violation, hence 503.             *)
BreakDeadlock(r) ==
  /\ \E S \in SUBSET Requests : r \in S /\ Deadlocked(S)
  /\ Abort(r, "503")

(* Mutant: the foreign key does not restrict the deletion.                 *)
DeleteBrand_Unrestricted(b) ==
  /\ brandName[b] # NoBrand /\ brandBy[b] = NoTx
  /\ brandName' = [brandName EXCEPT ![b] = NoBrand]
  /\ UNCHANGED <<dev, registry, locks, local>>

(* DELETE FROM brands WHERE id = ...: waits for upserts of the brand and   *)
(* is refused by the foreign key of a committed device.                    *)
DeleteBrand(b) ==
  /\ brandName[b] # NoBrand /\ brandBy[b] = NoTx
  /\ \A d \in Devices : dev[d] # NoDevice => dev[d].brand # b
  /\ brandName' = [brandName EXCEPT ![b] = NoBrand]
  /\ UNCHANGED <<dev, registry, locks, local>>

(***************************************************************************)
(* The specification.                                                      *)
(***************************************************************************)
Init ==
  /\ dev = InitialDevices
  /\ registry = [k \in Keys |->
       IF \E d \in Devices : dev[d] # NoDevice /\ k \in ClaimedKeys(dev[d])
       THEN CHOOSE d \in Devices : dev[d] # NoDevice /\ k \in ClaimedKeys(dev[d])
       ELSE NoDevice]
  /\ brandName = InitialBrands
  /\ brandBy = [b \in Brands |-> NoTx]
  /\ rowBy = [d \in Devices |-> NoTx]
  /\ slugBy = [k \in Keys |-> NoTx]
  /\ keyBy = [k \in Keys |-> NoTx]
  /\ phase = [r \in Requests |-> "idle"]
  /\ op = [r \in Requests |-> NoOp]
  /\ device = [r \in Requests |-> NoDevice]
  /\ inserted = [r \in Requests |-> {}]
  /\ answer = [r \in Requests |-> "none"]

(* The handler of r executes its next statement.                           *)
Statement(r) ==
  \/ MissingDevice(r) \/ Validate(r) \/ RefusePayload(r)
  \/ UpsertBrand(r) \/ InsertRow(r) \/ LockRow(r)
  \/ WriteSlug(r) \/ SlugConflict(r)
  \/ DeleteChildren(r) \/ InsertKey(r) \/ KeyConflict(r) \/ KeysDone(r)
  \/ InsertChildren(r) \/ Commit(r) \/ Respond(r)

Next ==
  \/ \E r \in Requests :
       \/ \E target \in Devices \cup {NoDevice}, payload \in Payloads :
            Receive(r, target, payload)
       \/ Statement(r)
       \/ Timeout(r) \/ LoseConnection(r) \/ Rollback(r) \/ BreakDeadlock(r)
  \/ \E b \in Brands : DeleteBrand(b)

Spec == Init /\ [][Next]_vars

(* A handler that can run runs, the server rolls back what was dropped and *)
(* its deadlock detector runs (deadlock_timeout).  Strong fairness: the    *)
(* end of a transaction wakes those that wait for it, and a sleeper does   *)
(* not lose to newcomers forever.  Nothing is assumed of clients, of the   *)
(* time limit or of the network.                                           *)
Fairness ==
  \A r \in Requests :
    SF_vars(Statement(r)) /\ SF_vars(Rollback(r)) /\ WF_vars(BreakDeadlock(r))

(***************************************************************************)
(* Invariants.                                                             *)
(***************************************************************************)
TypeOK ==
  /\ dev \in [Devices -> Payloads \cup {NoDevice}]
  /\ registry \in [Keys -> Devices \cup {NoDevice}]
  /\ brandName \in [Brands -> BrandNames \cup {NoBrand}]
  /\ brandBy \in [Brands -> Requests \cup {NoTx}]
  /\ rowBy \in [Devices -> Requests \cup {NoTx}]
  /\ slugBy \in [Keys -> Requests \cup {NoTx}]
  /\ keyBy \in [Keys -> Requests \cup {NoTx}]
  /\ phase \in [Requests -> Phases]
  /\ op \in [Requests -> Ops \cup {NoOp}]
  /\ device \in [Requests -> Devices \cup {NoDevice}]
  /\ inserted \in [Requests -> SUBSET Keys]
  /\ answer \in [Requests -> Answers]

(* Slots whose transaction has written its device row and goes on.         *)
Writing == {"slug", "delete", "keys", "children", "commit"}
Identified == {"keys", "children", "commit"}

(* A transaction that writes a device is the only one to do so, and a key  *)
(* it has inserted is its own until it ends: nobody else has inserted or   *)
(* deleted it, and no other device has got it since r looked.              *)
WritesAreLocked ==
  \A r \in Requests :
    /\ phase[r] \in Writing => device[r] \in Devices /\ rowBy[device[r]] = r
    /\ phase[r] \in Identified =>
         \A k \in inserted[r] :
           keyBy[k] = r /\ registry[k] \in {NoDevice, device[r]}

(* The identifiers inserted are claimed by the request, and all of them    *)
(* are inserted before COMMIT.                                             *)
InsertedAreClaimed ==
  \A r \in Requests :
    /\ phase[r] \notin {"idle", "rollback"} => op[r] # NoOp
    /\ phase[r] = "keys" => inserted[r] \subseteq ClaimedKeys(Request(r))
    /\ phase[r] \in {"children", "commit"} => inserted[r] = ClaimedKeys(Request(r))
    /\ phase[r] \in {"idle", "validate", "brand", "row", "slug", "delete"} =>
         inserted[r] = {}

(* device_identifiers holds exactly the normalised slug, name and aliases  *)
(* of the stored devices: no write leaves a stale key behind or misses one,*)
(* and no two devices end up with one key, however their transactions      *)
(* interleave.                                                             *)
RegistryAgrees ==
  \A k \in Keys, d \in Devices :
    registry[k] = d <=> dev[d] # NoDevice /\ k \in ClaimedKeys(dev[d])

(* A stored device has a stored brand: the foreign key survives DELETE     *)
(* /brands/{id} racing with writes that move devices to the brand.         *)
BrandsStored ==
  \A d \in Devices : dev[d] # NoDevice => brandName[dev[d].brand] # NoBrand

(* Whatever transactions wait in a circle, one of them is an update:       *)
(* creates insert their identifiers in sorted order and hold nothing that  *)
(* a create ahead of them in the order of statements waits for.            *)
DeadlocksNeedUpdate ==
  \A S \in SUBSET Requests : Deadlocked(S) => \E r \in S : IsUpdate(r)

(* The inductive invariant behind RegistryAgrees and BrandsStored.         *)
IInv == /\ TypeOK /\ WritesAreLocked /\ InsertedAreClaimed
        /\ RegistryAgrees /\ BrandsStored

(* docs/catalog-design.md:139: a published slug is immutable, and when the *)
(* name or the aliases change the existing public identifiers are kept as  *)
(* aliases.                                                                *)
PublishedIdentifiersKept ==
  [][\A k \in Keys, d \in Devices :
       registry[k] = d /\ dev[d].status = "published" => registry'[k] = d]_vars

(* docs/catalog-design.md:142-144: a write that breaks the conditions of   *)
(* publication (a primary source that has been checked, among others) is   *)
(* refused or turns the device into a draft.                               *)
PublishedIsPublic ==
  \A d \in Devices :
    dev[d] # NoDevice /\ dev[d].status = "published" => IsPublic(dev[d])

(* Every write is atomic, leaves uniqueness intact and gets the answer it  *)
(* deserves (2xx only once applied, 4xx only with cause and no effect).    *)
Abstract == INSTANCE Catalog WITH
  pending <- op,
  applied <- [r \in Requests |-> phase[r] = "committed"]
ImplementsCatalog == Abstract!Spec

=============================================================================
