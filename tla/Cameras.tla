------------------------------- MODULE Cameras -------------------------------
(***************************************************************************)
(* Brands and cameras: POST, PUT and DELETE of /brands, POST and PUT of    *)
(* /cameras, and the list of cameras.  A camera write is one transaction   *)
(* at READ COMMITTED that upserts the brand, writes the row, reads it back *)
(* and commits; an administrator's request on a brand is one statement.    *)
(*                                                                         *)
(* brand and camera hold the newest versions of the rows, committed or     *)
(* not, and undo what a rollback puts back.  Whoever needs a row or an     *)
(* index entry that an open transaction has written waits for its end.     *)
(* Updates that exchange slugs wait for each other; PostgreSQL then aborts *)
(* one, which LoseWrite covers.                                            *)
(*                                                                         *)
(* Device writes refer to brands in the same way and are left out here;    *)
(* DeviceWrites has their upserts and the deletion of brands under them.   *)
(***************************************************************************)
EXTENDS Naturals, FiniteSets

CONSTANTS
  BrandIds, CameraIds,   \* gen_random_uuid() never yields one twice
  BrandSlugs, BrandLabels, CameraSlugs,
  CameraWriters, CameraReaders,
  CameraRequests,        \* the payloads of camera writes, with the statement
                         \* whose CHECKs refuse them, if any
  BrandInputs,           \* the valid payloads of brand writes
  NoRow, NoWrite,
  CameraPageSize

BrandRows  == [slug : BrandSlugs, name : BrandLabels]
CameraRows == [brand : BrandIds, slug : CameraSlugs]
CameraPayloads ==
  [target : CameraIds \cup {NoRow}, brandSlug : BrandSlugs,
   brandName : BrandLabels, slug : CameraSlugs,
   refusedAt : {"brand", "row", "never"}]
UndoRows ==
  [brand : BrandIds \cup {NoRow}, wasBrand : BrandRows \cup {NoRow},
   camera : CameraIds \cup {NoRow}, wasCamera : CameraRows \cup {NoRow}]
CameraShown == [slug : CameraSlugs, brand : BrandRows]

ASSUME CamerasAssumption ==
  /\ CameraRequests \subseteq CameraPayloads /\ BrandInputs \subseteq BrandRows
  /\ NoWrite \notin CameraRequests
  /\ NoRow \notin BrandRows \cup CameraRows \cup BrandIds \cup CameraIds \cup CameraShown
  /\ CameraPageSize \in Nat \ {0}
  /\ IsFiniteSet(CameraIds)

VARIABLES
  brand,     \* the brands table by id
  camera,    \* the camera_models table by id
  spent,     \* ids of brands that have been deleted
  write,     \* the payload each camera write handles, or NoWrite
  step,      \* its next statement
  brandId,   \* what upsert_brand has returned to it
  undo,      \* the rows it has written and not committed, as they were
  response,  \* what load_camera_by_id has read for it
  listing,   \* how far a list has come
  label,     \* the word it searches for
  snapshot,  \* the rows that match it in the snapshot of its transaction
  total,     \* what its count has returned
  page       \* what its second query has returned

brandTables == <<brand, camera, spent>>
writes == <<write, step, brandId, undo, response>>
lists == <<listing, label, snapshot, total, page>>
camerasVars == <<brandTables, writes, lists>>

Untouched == [brand |-> NoRow, wasBrand |-> NoRow,
              camera |-> NoRow, wasCamera |-> NoRow]

CamerasInit ==
  /\ brand = [b \in BrandIds |-> NoRow]
  /\ camera = [c \in CameraIds |-> NoRow]
  /\ spent = {}
  /\ write = [w \in CameraWriters |-> NoWrite]
  /\ step = [w \in CameraWriters |-> "idle"]
  /\ brandId = [w \in CameraWriters |-> NoRow]
  /\ undo = [w \in CameraWriters |-> Untouched]
  /\ response = [w \in CameraWriters |-> NoRow]
  /\ listing = [r \in CameraReaders |-> "idle"]
  /\ label = [r \in CameraReaders |-> NoRow]
  /\ snapshot = [r \in CameraReaders |-> {}]
  /\ total = [r \in CameraReaders |-> 0]
  /\ page = [r \in CameraReaders |-> {}]

(* validate_camera_write_request refuses other payloads before begin().    *)
BeginWrite(w, payload) ==
  /\ step[w] = "idle"
  /\ write' = [write EXCEPT ![w] = payload]
  /\ step' = [step EXCEPT ![w] = "brand"]
  /\ UNCHANGED <<brandTables, brandId, undo, response, lists>>

BrandLocked(b)  == \E w \in CameraWriters : undo[w].brand = b
CameraLocked(c) == \E w \in CameraWriters : undo[w].camera = c

(* What others read: the committed rows.                                   *)
StoredBrand(b) ==
  IF BrandLocked(b)
  THEN undo[CHOOSE w \in CameraWriters : undo[w].brand = b].wasBrand
  ELSE brand[b]

StoredCamera(c) ==
  IF CameraLocked(c)
  THEN undo[CHOOSE w \in CameraWriters : undo[w].camera = c].wasCamera
  ELSE camera[c]

(* upsert_brand: INSERT INTO brands ... ON CONFLICT (slug) DO UPDATE SET   *)
(* name = EXCLUDED.name RETURNING id.  The row it inserts or updates stays *)
(* locked to the end of the transaction.                                   *)
BrandFor(b, slug) ==
  IF \E other \in BrandIds : brand[other] # NoRow /\ brand[other].slug = slug
  THEN brand[b] # NoRow /\ brand[b].slug = slug /\ ~BrandLocked(b)
  ELSE brand[b] = NoRow /\ b \notin spent

(* Mutant: the upsert runs on the pool, outside the transaction.           *)
UpsertCameraBrand_OnPool(w) ==
  /\ step[w] = "brand" /\ write[w].refusedAt # "brand"
  /\ \E b \in BrandIds :
       /\ BrandFor(b, write[w].brandSlug)
       /\ brand' = [brand EXCEPT ![b] = [slug |-> write[w].brandSlug,
                                         name |-> write[w].brandName]]
       /\ brandId' = [brandId EXCEPT ![w] = b]
  /\ step' = [step EXCEPT ![w] = "row"]
  /\ UNCHANGED <<camera, spent, write, undo, response, lists>>

UpsertCameraBrand(w) ==
  /\ step[w] = "brand" /\ write[w].refusedAt # "brand"
  /\ \E b \in BrandIds :
       /\ BrandFor(b, write[w].brandSlug)
       /\ brand' = [brand EXCEPT ![b] = [slug |-> write[w].brandSlug,
                                         name |-> write[w].brandName]]
       /\ brandId' = [brandId EXCEPT ![w] = b]
       /\ undo' = [undo EXCEPT ![w] = [@ EXCEPT !.brand = b, !.wasBrand = brand[b]]]
  /\ step' = [step EXCEPT ![w] = "row"]
  /\ UNCHANGED <<camera, spent, write, response, lists>>

(* An entry of the slug index that an open transaction has made or left.   *)
CameraSlugPending(slug) ==
  \E w \in CameraWriters :
    LET c == undo[w].camera
    IN c # NoRow /\ \/ camera[c].slug = slug
                    \/ undo[w].wasCamera # NoRow /\ undo[w].wasCamera.slug = slug

CameraSlugTaken(c, slug) ==
  \E other \in CameraIds \ {c} : camera[other] # NoRow /\ camera[other].slug = slug

(* The row an INSERT makes, or the one an UPDATE finds and locks.          *)
RowsFor(w) ==
  IF write[w].target = NoRow
  THEN {c \in CameraIds : camera[c] = NoRow}
  ELSE {c \in {write[w].target} : camera[c] # NoRow /\ ~CameraLocked(c)}

WriteCamera(w) ==
  /\ step[w] = "row" /\ write[w].refusedAt # "row"
  /\ ~CameraSlugPending(write[w].slug)
  /\ \E c \in RowsFor(w) :
       /\ ~CameraSlugTaken(c, write[w].slug)
       /\ camera' = [camera EXCEPT ![c] = [brand |-> brandId[w], slug |-> write[w].slug]]
       /\ undo' = [undo EXCEPT ![w] = [@ EXCEPT !.camera = c, !.wasCamera = camera[c]]]
  /\ step' = [step EXCEPT ![w] = "read"]
  /\ UNCHANGED <<brand, spent, write, brandId, response, lists>>

(* load_camera_by_id joins the brand in the same transaction.              *)
ReadCameraBack(w) ==
  /\ step[w] = "read"
  /\ LET row == camera[undo[w].camera]
     IN response' = [response EXCEPT ![w] =
                       [slug |-> row.slug, brand |-> brand[row.brand]]]
  /\ step' = [step EXCEPT ![w] = "commit"]
  /\ UNCHANGED <<brandTables, write, brandId, undo, lists>>

EndWrite(w) ==
  /\ write' = [write EXCEPT ![w] = NoWrite]
  /\ step' = [step EXCEPT ![w] = "idle"]
  /\ brandId' = [brandId EXCEPT ![w] = NoRow]
  /\ undo' = [undo EXCEPT ![w] = Untouched]
  /\ response' = [response EXCEPT ![w] = NoRow]
  /\ UNCHANGED <<spent, lists>>

RollBack(w) ==
  /\ brand' = [b \in BrandIds |->
                 IF undo[w].brand = b THEN undo[w].wasBrand ELSE brand[b]]
  /\ camera' = [c \in CameraIds |->
                  IF undo[w].camera = c THEN undo[w].wasCamera ELSE camera[c]]
  /\ EndWrite(w)

(* Mutant: the transaction is committed before the row count is looked at. *)
RefuseWrite_Commits(w) ==
  /\ step[w] = "row"
  /\ write[w].target # NoRow /\ camera[write[w].target] = NoRow
  /\ EndWrite(w)
  /\ UNCHANGED <<brand, camera>>

(* A CHECK is looked at before locks and indexes are waited for.           *)
ChecksFail(w) ==
  /\ step[w] # "idle" /\ step[w] = write[w].refusedAt
  /\ step[w] = "row" => \/ write[w].target = NoRow
                        \/ StoredCamera(write[w].target) # NoRow

(* 400 for a value that validation lets through and a CHECK of the brand or*)
(* the row does not; once the brand has been upserted, 404 for an id that  *)
(* is not stored and 409 for a slug that is.  The transaction is dropped.  *)
RefuseWrite(w) ==
  /\ \/ ChecksFail(w)
     \/ /\ step[w] = "row"
        /\ write[w].target # NoRow /\ camera[write[w].target] = NoRow
     \/ /\ step[w] = "row" /\ write[w].refusedAt # "row"
        /\ ~CameraSlugPending(write[w].slug)
        /\ \E c \in RowsFor(w) : CameraSlugTaken(c, write[w].slug)
  /\ RollBack(w)

CommitCamera(w) ==
  /\ step[w] = "commit"
  /\ EndWrite(w)
  /\ UNCHANGED <<brand, camera>>

(* The time limit, a lost connection or the deadlock detector.             *)
LoseWrite(w) == step[w] # "idle" /\ RollBack(w)

(***************************************************************************)
(* Administrators' requests on brands, each one autocommitted statement.   *)
(* A slug that is taken (409), an id that is not there (404) and a brand   *)
(* that is referred to (400) leave everything as it is.                    *)
(***************************************************************************)
BrandSlugTaken(b, slug) ==
  \E other \in BrandIds \ {b} : brand[other] # NoRow /\ brand[other].slug = slug

CreateBrand(b, input) ==
  /\ brand[b] = NoRow /\ b \notin spent /\ ~BrandSlugTaken(b, input.slug)
  /\ brand' = [brand EXCEPT ![b] = input]
  /\ UNCHANGED <<camera, spent, writes, lists>>

(* Mutant: the slug is written without a look at the index.                *)
UpdateBrand_AnySlug(b, input) ==
  /\ brand[b] # NoRow /\ ~BrandLocked(b)
  /\ brand' = [brand EXCEPT ![b] = input]
  /\ UNCHANGED <<camera, spent, writes, lists>>

UpdateBrand(b, input) ==
  /\ brand[b] # NoRow /\ ~BrandLocked(b) /\ ~BrandSlugTaken(b, input.slug)
  /\ brand' = [brand EXCEPT ![b] = input]
  /\ UNCHANGED <<camera, spent, writes, lists>>

(* Mutant: what a rollback may bring back is not looked at.                *)
Refers_Newest(b) == \E c \in CameraIds : camera[c] # NoRow /\ camera[c].brand = b

(* Rows that refer to b, or will again after a rollback.                   *)
Refers(b) ==
  \/ \E c \in CameraIds : camera[c] # NoRow /\ camera[c].brand = b
  \/ \E w \in CameraWriters : undo[w].wasCamera # NoRow /\ undo[w].wasCamera.brand = b

(* Mutant: a brand that a transaction has upserted is deleted under it.    *)
DeleteBrandRow_Unlocked(b) ==
  /\ brand[b] # NoRow /\ ~Refers(b)
  /\ brand' = [brand EXCEPT ![b] = NoRow]
  /\ spent' = spent \cup {b}
  /\ UNCHANGED <<camera, writes, lists>>

DeleteBrandRow(b) ==
  /\ brand[b] # NoRow /\ ~BrandLocked(b) /\ ~Refers(b)
  /\ brand' = [brand EXCEPT ![b] = NoRow]
  /\ spent' = spent \cup {b}
  /\ UNCHANGED <<camera, writes, lists>>

(***************************************************************************)
(* GET /cameras?q=: a count and a page in one REPEATABLE READ transaction, *)
(* of the rows whose brand has the name that is searched for.              *)
(***************************************************************************)
Matching(name) ==
  {c \in CameraIds : /\ StoredCamera(c) # NoRow
                     /\ StoredBrand(StoredCamera(c).brand).name = name}

CountCameras(r, name) ==
  /\ listing[r] = "idle"
  /\ listing' = [listing EXCEPT ![r] = "counted"]
  /\ label' = [label EXCEPT ![r] = name]
  /\ snapshot' = [snapshot EXCEPT ![r] = Matching(name)]
  /\ total' = [total EXCEPT ![r] = Cardinality(Matching(name))]
  /\ UNCHANGED <<brandTables, writes, page>>

(* The first page: LIMIT page_size OFFSET 0.                               *)
TakePage(r, rows) ==
  /\ listing[r] = "counted"
  /\ listing' = [listing EXCEPT ![r] = "paged"]
  /\ \E first \in SUBSET rows :
       /\ Cardinality(first) <= CameraPageSize
       /\ first # rows => Cardinality(first) = CameraPageSize
       /\ page' = [page EXCEPT ![r] = first]
  /\ UNCHANGED <<brandTables, writes, label, snapshot, total>>

(* Mutant: the isolation level is left at READ COMMITTED.                  *)
PageCameras_ReadCommitted(r) == TakePage(r, Matching(label[r]))

PageCameras(r) == TakePage(r, snapshot[r])

(* It answers, or is dropped on the way.                                   *)
EndList(r) ==
  /\ listing[r] # "idle"
  /\ listing' = [listing EXCEPT ![r] = "idle"]
  /\ label' = [label EXCEPT ![r] = NoRow]
  /\ snapshot' = [snapshot EXCEPT ![r] = {}]
  /\ total' = [total EXCEPT ![r] = 0]
  /\ page' = [page EXCEPT ![r] = {}]
  /\ UNCHANGED <<brandTables, writes>>

CameraStatement(w) ==
  \/ \E payload \in CameraRequests : BeginWrite(w, payload)
  \/ UpsertCameraBrand(w) \/ WriteCamera(w) \/ RefuseWrite(w)
  \/ ReadCameraBack(w) \/ CommitCamera(w) \/ LoseWrite(w)

CamerasNext ==
  \/ \E w \in CameraWriters : CameraStatement(w)
  \/ \E b \in BrandIds, input \in BrandInputs :
       CreateBrand(b, input) \/ UpdateBrand(b, input)
  \/ \E b \in BrandIds : DeleteBrandRow(b)
  \/ \E r \in CameraReaders :
       \/ \E name \in BrandLabels : CountCameras(r, name)
       \/ PageCameras(r) \/ EndList(r)

CamerasSpec == CamerasInit /\ [][CamerasNext]_camerasVars

(***************************************************************************)
(* Properties.                                                             *)
(***************************************************************************)
CamerasTypeOK ==
  /\ brand \in [BrandIds -> BrandRows \cup {NoRow}]
  /\ camera \in [CameraIds -> CameraRows \cup {NoRow}]
  /\ spent \in SUBSET BrandIds
  /\ write \in [CameraWriters -> CameraRequests \cup {NoWrite}]
  /\ step \in [CameraWriters -> {"idle", "brand", "row", "read", "commit"}]
  /\ brandId \in [CameraWriters -> BrandIds \cup {NoRow}]
  /\ undo \in [CameraWriters -> UndoRows]
  /\ response \in [CameraWriters -> CameraShown \cup {NoRow}]
  /\ label \in [CameraReaders -> BrandLabels \cup {NoRow}]
  /\ listing \in [CameraReaders -> {"idle", "counted", "paged"}]
  /\ snapshot \in [CameraReaders -> SUBSET CameraIds]
  /\ total \in [CameraReaders -> Nat]
  /\ page \in [CameraReaders -> SUBSET CameraIds]

(* A camera always has its brand, whatever administrators delete between   *)
(* the statements of its write, and whether that commits or rolls back.    *)
CamerasKeepTheirBrand ==
  \A c \in CameraIds :
    /\ camera[c] # NoRow => brand[camera[c].brand] # NoRow
    /\ StoredCamera(c) # NoRow => StoredBrand(StoredCamera(c).brand) # NoRow

SameSlug(row, other) == row # NoRow /\ other # NoRow /\ row.slug = other.slug

(* A slug leads to one brand and one camera, in what is stored and in what *)
(* will be, however updates, upserts and rollbacks of the same slug meet.  *)
SlugsLeadToOneRow ==
  /\ \A b, d \in BrandIds :
       \/ SameSlug(brand[b], brand[d])
       \/ SameSlug(StoredBrand(b), StoredBrand(d))
       => b = d
  /\ \A c, d \in CameraIds :
       \/ SameSlug(camera[c], camera[d])
       \/ SameSlug(StoredCamera(c), StoredCamera(d))
       => c = d

(* What the client of a camera write is about to be told is what its       *)
(* transaction is about to store: no rename of the brand and no other      *)
(* upsert gets in between.                                                 *)
AcknowledgedAsStored ==
  \A w \in CameraWriters : step[w] = "commit" =>
    LET row == camera[undo[w].camera]
    IN response[w] = [slug |-> row.slug, brand |-> brand[row.brand]]

(* A camera write becomes visible at its COMMIT and at no other step: one  *)
(* that is refused after it has renamed the brand leaves the old name.     *)
OnlyCommitsPublish ==
  [][\A w \in CameraWriters :
       step'[w] # step[w] /\ step[w] # "commit" =>
         /\ \A b \in BrandIds : StoredBrand(b)' = StoredBrand(b)
         /\ \A c \in CameraIds : StoredCamera(c)' = StoredCamera(c)]_camerasVars

(* The page of a list is as long as its total says.                        *)
PageFitsTotal ==
  \A r \in CameraReaders : listing[r] = "paged" =>
    Cardinality(page[r]) = IF total[r] < CameraPageSize THEN total[r] ELSE CameraPageSize
=============================================================================
