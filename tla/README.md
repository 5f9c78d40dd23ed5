# Verification of device-lover-api

TLA+ specifications of the device catalogue API (Rust, Axum, sqlx,
PostgreSQL 16), their TLC runs and machine-checked proofs. Paths such as
`catalog.rs` are below `src/src/routes/` unless another directory is given;
`PROJECT.json` maps every definition to its lines.

## 1. The system

One server process (`src/src/main.rs`) handles each HTTP request in a task of
its own. There is no job queue, no background task and no authority but the
database: concurrency is the interleaving of requests at their SQL statements,
plus one value shared in memory, the cache of popular devices. A
`TimeoutLayer` drops a handler after 30 s, wherever it awaits, and answers 408;
a dropped transaction is rolled back by sqlx, a statement already sent is not
cancelled.

| component | state | operations | interacts with | what makes it correct |
| --- | --- | --- | --- | --- |
| device writes (`catalog.rs`) | `device_models`, ten child tables, `brands` | create, update (upsert of the brand, row, replacement of all children, read back, COMMIT) | each other, brands, software versions, every reader | atomic; route keys unique and exactly those of the stored devices; honest answers; no lock kept for ever |
| public reads (`catalog.rs`) | none (snapshots) | detail, comparison, home, list, schema | device writes | one version per response, only public devices, requested order, canonical path that leads back |
| admin reads (`catalog.rs`) | none | detail by id and slug, list, brands | device writes, editors | committed data; the edit cycle loses nothing unnoticed |
| popular devices (`popularity.rs`, `src/src/state.rs`) | `RwLock<Option<CachedPopularDevices>>` | look up, reload two lists, store | device and camera writes, selections | bounded staleness, no deadlock on the lock, complete lists |
| selections (`popularity.rs`) | `device_popularity_daily` | check that the device exists, count | device writes (slugs), popular list | each accepted selection counted once, window of 30 days |
| brands (`brands.rs`) | `brands` | create, rename, delete | upserted by every device and camera write | never removed under a device |
| cameras (`cameras.rs`) | `camera_models` | list, compare, create, update | brands | as for devices, without children: atomic, one camera per slug, brand kept, count and page of one snapshot |
| software versions (`software_versions.rs`) | `software_versions` | CRUD | launch check of device writes | at most one launch version per category and device |
| wireless technologies | `wireless_technologies` | CRUD | nobody | unique category and value |
| users, login (`users.rs`, `auth.rs`) | `users`; stateless tokens | CRUD with PATCH, login | bearer extractor | unique address, PATCH merges, tokens expire |
| route misses (`route_misses.rs`) | `route_miss_events`, one row per report | insert, summarise by path, ranked | nobody | each acknowledged report counted once in its window |
| normalisation and parsing (`src/src/catalog.rs`) | none | route keys, search keys, queries, pages | all of the above | idempotent keys, decodable paths, pages that tile the list |
| server, time limit, pool, settings, health, OpenAPI | pool of connections | drop, acquire, release | all of the above | every connection comes back |

What is hard here: two transactions that exchange unique keys; a deadlock the
database has to break; a client that reads 408 although its write was
committed; a brand deleted under an uncommitted device; a response put
together from several queries while a write commits between them; a slow
handler that overwrites a newer cache entry; a guard whose scope decides
whether the process locks up. `PROJECT.json` lists each hazard at its line,
with the properties that would catch it.

## 2. Modules

| module | models |
| --- | --- |
| `CatalogData` | payloads, claimed route keys, what is public (shared vocabulary) |
| `Catalog` | abstract specification: what the write endpoints promise |
| `DeviceWrites` | create and update of devices, statement by statement |
| `DeviceWritesProofs` | proofs of its table invariants, that it implements `Catalog`, and that creates never wait in a circle |
| `CatalogReads`, `CatalogReadsProofs` | the four public and three admin read endpoints, composed with `Catalog` |
| `PopularCache`, `PopularCacheProofs` | the cache of popular devices |
| `Selections`, `SelectionsProofs` | the counting of selections, the ranking of the popular lists |
| `SoftwareVersions`, `SoftwareVersionsProofs` | version edits and deletions against device writes that refer to versions |
| `Cameras` | camera writes and lists, and administrators' requests on brands |
| `Accounts` | users, login, bearer tokens |
| `RouteMisses` | reports of missing pages and their summary |
| `WirelessTechnologies` | master data in single statements |
| `Pages` | page arithmetic in u32 |
| `Queries` | query strings, identifiers, search synonyms, spec keys |
| `QueriesProofs` | proofs about `Queries` and `Pages` |
| `ServicesProofs` | proofs about `Cameras`, `Accounts`, `RouteMisses` and `WirelessTechnologies` |
| `Orderings` | ORDER BY: the rows of a result in the order of a relation |
| `ListTheorems` | proved facts about ordered rows, sums and finite sets that the other proofs share |
| `MCDeviceWrites`, `MCCatalogReads`, `MCPopularCache`, `MCSelections`, `MCSoftwareVersions` | small instances for TLC, one per module |
| `MCServices` | `Accounts`, `Cameras`, `RouteMisses`, `WirelessTechnologies` and `Queries`, which share no table, each on its own instance |
| `MCLiveness` | `DeviceWrites` and `SoftwareVersions` under their fairness |

`CatalogReads` composes the readers with `Catalog`, not with `DeviceWrites`:
`DeviceWrites` implements `Catalog` (proved), so a reader that is right
against every behaviour of the contract is right against the detailed writes.

### How state and actions correspond to the code

**`DeviceWrites`.** `dev` is the committed `device_models` row with its child
rows: they are written together and committed together, so one value (the
payload that was stored) stands for them. `registry` is
`device_identifiers.route_key -> device_id`; it is kept apart from `dev`
because the code computes it separately and its agreement with `dev` is what
is in doubt. `brandName` is `brands`, keyed by slug. Uncommitted work is
visible to others only as locks: `brandBy` (row lock of the upsert), `rowBy`
(row lock of the device), `slugBy` and `keyBy` (entries of the two unique
indexes, inserted or deleted and not committed: an insertion of the same key
waits for them). `phase` is the statement a handler runs next:

| action | code |
| --- | --- |
| `MissingDevice`, `Validate` | `SELECT category` of an update, `validate_write_request` |
| `UpsertBrand` | `upsert_brand` |
| `InsertRow`, `LockRow`, `WriteSlug`, `SlugConflict` | INSERT / UPDATE of `device_models`; the row is locked before the new slug enters the index, hence two steps |
| `DeleteChildren` | the ten DELETEs of `replace_children` |
| `InsertKey`, `KeyConflict`, `KeysDone` | the loop over the BTreeMap of route keys, one INSERT per step |
| `InsertChildren` | the other INSERTs, the launch check, `load_admin_detail` |
| `Commit`, `Respond` | `transaction.commit()`, the 200 or 201 |
| `RefusePayload` | any failure that is due to the payload itself, at the point its content determines |
| `Timeout`, `LoseConnection`, `Rollback`, `BreakDeadlock` | the 30 s limit (408), a failed connection (503), the queued ROLLBACK of a dropped transaction, PostgreSQL's deadlock detector (503) |
| `DeleteBrand` | `delete_brand` in one autocommitted statement |

A failed statement releases its locks at once (PostgreSQL aborts the
transaction); a handler that returns an error, or is dropped, keeps them until
the ROLLBACK arrives. `refusedAt` may be any statement whose CHECK or foreign
key can refuse a value, that of the brand included; among the route keys it is
reached after any number of them (`NextKeyPasses`). The model lets a ROLLBACK follow every refused payload,
which only adds behaviours. `rows_affected() == 0` after the UPDATE cannot
happen: no endpoint deletes a device. The payload's specs, prices, colours and
texts matter only through `refusedAt` and `refusedWith`.

**`CatalogReads`.** `snapshot` is what REPEATABLE READ shows a transaction: it
is taken by the first query. `step` is the next query; `found`, `rows` and
`total` are the handler's local variables, `since` is a history variable (the
catalogues committed while the request was in flight) that no action reads.
All devices of the model are released on one day, so that the slug orders
them; a search is the set of identifiers it matches. A path is the sequence of
slugs that `-vs-` joins: slugs and route keys cannot contain the separator
(CHECKs in migration 0003). The admin endpoints (`FindBySlug`, `LoadAdminRow`,
`LoadAdminAliases`, `LoadAdminSources`, and the list, which shares its steps
with the public one) open a plain transaction: no snapshot, so `View` is what
is committed when each query runs. The name search of the admin list and the
links from specs to sources are left out. A response is checked when it is
sent; the next write makes the model forget it.

**`PopularCache`.** A handler checks the cache while it holds a read guard,
drops the guard with the temporaries of the if-let (edition 2024), loads both
lists on connections of their own, computes `expires_at` before it waits for
the write guard, and stores. The write guard never spans an await, so storing
is one step. `age` counts the ticks since the query of a category last
returned a content; `Tick` never lets a handler outlive the time limit.

**`Selections`.** `daily` is `device_popularity_daily`, a row per category, slug
and date with the sum of its two counts and `last_selected_at`. A handler asks
whether the device exists (`Found`, `NotFound`), and its counting statement
fixes `now()` when it begins (`at`) although it may write much later, after
another statement has released the row. `Dropped` answers 408 or 503: the
statement that was sent runs on (`orphan`) or is cancelled. `Write` stands for
the device and camera writes that publish, archive or rename. `sure`,
`doubtful` and `known` are history variables. `Before`, `LoadPopular` and
`InTurn` are the ORDER BY, the two queries and `interleave`, whose result is
given by position: both lists alternate while both last, and the rest of the
longer one follows. `PopularCache` covers how their result is cached, with any
content.

**`SoftwareVersions`.** `version` and `software` are the committed
`software_versions` and `device_software`; a device write is seen from the
DELETE of its references on (`phase`, `todo`, `done`), an administrator's PUT or
DELETE as one autocommitted statement that first locks its row (`locked`) and
then looks at the unique index or at the rows that refer to it. `Sharers` and
`KeyLockers` are the two sides of PostgreSQL's row locks: the foreign key check
of an insertion holds FOR KEY SHARE, a deletion or a change of
`(category, value)` needs FOR UPDATE because a unique index covers these
columns. Statuses sent to administrators have no effect and are left out, as
are labels and sort orders; a PUT that leaves the key alone takes the weaker
lock. A deletion waits for referring rows that an open write has deleted and
fails on one that nobody is replacing; when it meets both, the order is
PostgreSQL's and the model allows either.

**`Accounts`.** `account` is `users`. A handler's one statement separates the
stages `sent` and, for a login, which has work to do after its SELECT,
`fetched`. The extractors and `validate()` come before the first await and are
the guard of `Arrive`. `left` marks a handler that the time limit or its
connection has ended: `AbandonCall` answers the client, the statement that was
sent may still run, or never does (`ForgetCall`). A token is `[sub, exp]` and
nothing is stored about it, so `Accepted` looks at the clock alone. `Coalesce`
is the COALESCE of the PATCH. `Elapse` never lets a handler outlive the time
limit. `deletedAt` is a history variable that also keeps ids from being used
twice, as random UUIDs are.

**`Cameras`.** `brand` and `camera` hold the newest versions of the rows,
`undo` what a rollback restores; `StoredBrand` and `StoredCamera` are what is
committed. A write is `BeginWrite`, `UpsertCameraBrand`, `WriteCamera`,
`ReadCameraBack`, `CommitCamera`; `RefuseWrite` is the 400 of a CHECK of the
brand or the row (`ChecksFail`) and the 404 or 409 after the upsert, which drop
the transaction, and `LoseWrite` the time limit, a lost
connection or the deadlock detector. A writer waits for a row or an index
entry that another one has not committed. `CreateBrand`, `UpdateBrand` and
`DeleteBrandRow` are autocommitted; the foreign key makes the deletion see rows
that a rollback may bring back (`Refers`). A list counts and pages in one
snapshot (`CountCameras`, `PageCameras`). Devices, which refer to brands in the
same way, are left out here; `DeviceWrites` has their upserts and the deletion
of brands under them.

**`RouteMisses`.** A report inserts a row of its own (`RecordRouteMiss`) and is
then answered 204 (`Acknowledge`); a dropped one may or may not insert.
`RouteMissSummaries` is the grouping query with its ORDER BY and LIMIT;
`sentOn` and `recordedOn` are history variables. **`WirelessTechnologies`** has
one action per statement, with trimmed values.

**`Queries` and `Pages`.** A query string is a sequence of decoded pairs, an
identifier or a search text a sequence of characters or syllables, of which one
stands for each class the code tells apart. A parser yields a set: its reading,
or nothing for a 400. `KeysFit` is the HashMap that refuses a second value,
`Composed` NFKC, `Folded` lower case after it, `JoinWords` the loop of
`normalize_route_identifier`. NFKC works across characters: it spells a ligature
out, and it composes a letter with the mark that follows it. `below` is a mark
(U+0331) with which `h` composes (U+1E96) and `H` does not, as `j` does with
U+030C and `J` does not; since lower case comes after NFKC, "H" with the mark
composes at the second pass only. `VisitGroup` one round of the loop in `spec_keys_are_valid`. `Offset`
multiplies in u32 (`Width`) before it is widened, as the code does.

## 3. Runs

| run | checks | result |
| --- | --- | --- |
| `DeviceWrites_safety` | `TypeOK`, `RegistryAgrees`, `BrandsStored`, `DeadlocksNeedUpdate`, refinement of `Catalog` | holds (471 493 states) |
| `DeviceWrites_identifiers` | published identifiers are kept | violated: documentation and code disagree |
| `DeviceWrites_publication` | published devices are public | violated: documentation and code disagree |
| `CatalogReads_safety` | `TypeOK`, `PublicReadsAtomic`, `AdminReadsMoveForward`, `CanonicalPathsLeadBack` | holds (934 543 states) |
| `CatalogReads_duplicates` | 404 only for a missing identifier | violated: documentation and code disagree |
| `PopularCache_safety` | `TypeOK`, `BoundedStaleness`, `EveryRequestAnswered` | holds (51 116 states) |
| `PopularCache_invalidation` | a hit shows what the database holds | violated: documentation and code disagree |
| `Selections_safety` | `TypeOK`, `CountsAreRecentSelections`, `LastSelectedOnItsDate`, `OnlyPublishedCounted`, `RankedAndFilled`, `BothCategoriesInTurn` | holds (180 279 states) |
| `SoftwareVersions_safety` | `TypeOK`, `SoftwareStored`, `CommitsRespectLaunches` | holds (918 394 states) |
| `SoftwareVersions_launches` | one launch version per category | violated: the rule is enforced on one side only |
| `Services_safety` | of accounts `AccountsTypeOK`, `EmailsIdentify`, `AuthorityFades`, `PatchesMerge`; of cameras and brands `CamerasTypeOK`, `CamerasKeepTheirBrand`, `SlugsLeadToOneRow`, `AcknowledgedAsStored`, `OnlyCommitsPublish`, `PageFitsTotal`; of the others `MissesTypeOK`, `SummariesCountReports`, `TechnologiesLookDifferent`, `ReadingIgnoresOrder`, `AcceptedPagesTile`, `IdentifiersLeadBack`, `SynonymsBecomeWords`, `SubDisplaysInTurn` | holds (738 747 states) |
| `Liveness` | `EveryWriteEnds` | holds (85 372 states) |

What they say:

- Every device write takes effect at one instant or not at all. A 2xx is sent
  only afterwards, a 4xx only with cause and without effect; only 408 and 503
  leave the client in doubt. That holds with deadlocks, lost connections and
  dropped handlers (`ImplementsCatalog`).
- `device_identifiers` never keeps a stale key and never misses one
  (`RegistryAgrees`), and a brand is never deleted under a device
  (`BrandsStored`).
- Creates alone cannot deadlock, because keys are inserted in sorted order
  (`DeadlocksNeedUpdate`); updates that exchange keys can, and one of them then
  ends with 503. No write stays in the database for ever (`EveryWriteEnds`).
- Every public response is the catalogue of one instant between request and
  response (`PublicReadsAtomic`): in particular a device archived before the
  request was sent is not shown, and none is lost between two queries.
- A popular list is at most 300 s + 30 s old (`BoundedStaleness`), although
  handlers overwrite each other's entries, and the lock cannot be waited for
  in vain (`EveryRequestAnswered`).
- An admin response may mix versions of a device or a total with a page of
  another moment, but its parts never go back in time, and nothing is missing
  that was there (`AdminReadsMoveForward`). A form that is saved again can
  therefore write back such a mixture.
- A selection answered 204 counts exactly once, for the 30 dates the window
  names; only a client that read 408 or 503 can have counted without knowing,
  and counts twice if it tries again (`CountsAreRecentSelections`). Counts
  belong to slugs: a device that takes over a slug inherits them. The lists are
  filled up with unselected devices and prefer selected ones
  (`RankedAndFilled`), and neither category is cut short by the other
  (`BothCategoriesInTurn`).
- The launch check of `replace_children` locks nothing, yet what it established
  still holds at COMMIT (`CommitsRespectLaunches`): only because the foreign
  keys hold KEY SHARE on the versions and `UNIQUE (category, value)` turns a
  category edit into a key update. Without that index the property fails, which
  is the mutant `LockVersion_NoKey`. A deletion can deadlock with a write that
  re-inserts its references; one of them gets 503 and the write ends
  (`EveryWriteEnds`). Administrators may starve: KEY SHARE locks of overlapping
  writes are granted past a waiting edit, so nothing is claimed for them.
- An address belongs to one account at most (`EmailsIdentify`), and two PATCHes
  of different fields never undo each other (`PatchesMerge`): a merge in the
  handler would, which is the mutant. A deleted user's token is not revoked,
  but it fades: none expires later than the deletion plus the time limit (of a
  login that had read the row) plus the lifetime, and no handler acts for its
  bearer later than leeway and one time limit after that (`AuthorityFades`).
- A camera never loses its brand, in what is committed and in what will be,
  although brands are deleted by statements that run between those of a camera
  write, and although a write that moves a camera away may roll back
  (`CamerasKeepTheirBrand`). A slug leads to one row through every uncommitted
  upsert and rollback (`SlugsLeadToOneRow`). The answer of a camera write is
  what its COMMIT stores (`AcknowledgedAsStored`): the upsert holds the row of
  the brand, so that no rename gets in between. A camera write that is refused
  takes its renaming of the brand back, and nothing of one is seen before its
  COMMIT (`OnlyCommitsPublish`). A list page is as long as its total says
  (`PageFitsTotal`), which READ COMMITTED would not give.
- The summary of route misses counts an acknowledged report once, and hides
  behind its limit only paths that have been missed less
  (`SummariesCountReports`).
- Two technologies of a category never differ in blanks only
  (`TechnologiesLookDifferent`).
- A query string means the same in any order of its pairs
  (`ReadingIgnoresOrder`); each page a list accepts shows the rows that are its
  own, because the bounds of the parsers keep the product below 2^32
  (`AcceptedPagesTile`); search synonyms replace the longer word before the shorter one
  (`SynonymsBecomeWords`); and the counting in `spec_keys_are_valid` admits the
  required keys with complete leading groups of sub displays and nothing else
  (`SubDisplaysInTurn`).
- An accepted identifier has an accepted normal form, because the length is
  measured again after NFKC. The normal form need not be its own: the code
  composes before it puts into lower case, so that `J` with U+030C becomes `j`
  with U+030C, and that becomes U+01F0. It is its own if no mark is left in it,
  and a second pass leaves nothing to a third (`IdentifiersLeadBack`). Published
  slugs are ASCII, so that canonical links never meet the difference.

### Bounds

- `MCDeviceWrites`: two request slots (each handles any number of requests one
  after another), three device ids, two brands, three route keys. Two
  transactions are enough for every pairwise conflict and for a deadlock. Two
  payloads claim the same two keys in opposite roles; two can be stored together
  and then exchange slugs and brands, which deadlocks; one renames a brand and
  repeats an alias in two spellings; one is refused at its last route key, after
  others have been inserted, and one at the children. At
  most two devices fit these payloads, so a free id is left for a create. The
  run is symmetric in ids and slots.
- `MCCatalogReads`: two devices, one writer, one reader (readers do not
  interact), page size 1 so that there is a second page. The constraint
  `FewOverlappingWrites` cuts off requests that see more than four catalogues:
  a response is put together from at most four queries.
- `MCPopularCache`: two handlers, one list that changes and one that does not,
  `Ttl` 3 and `Limit` 2 ticks. `Oldest` caps the age one
  tick beyond the bound in question. The proof covers all values.
- `MCSelections`: two clients, three selections (`MaxSelections`), three dates
  (`LastTick`) of one tick and a window of two, lists of two. Three selections
  let one device lead by count; one tick per date makes every wait cross
  midnight. A smartphone is archived, with its slug or under another one so that a
  rival can take it over; the rival is released on the second date, a third one
  waits as a filler, and a camera shares a slug with a smartphone.
- `MCSoftwareVersions`: one device, two writes, two administrators, two versions
  of different categories, two values. Writes of one device are the ones that
  contend for its rows; writes of different devices only share locks. The edits
  move one version into the other's category and back, swap a value that is
  taken, rewrite a version with its own key, and delete both. Two administrators
  and a write make the longest possible circle of waiters.
- `MCLiveness` is not reduced by symmetry. Device writes start with two stored
  devices and use the payloads that swap their keys and brands, and some that are
  refused at the brand, the row or the keys. Versions use two
  devices, so that a deletion can be refused by a device nobody is writing, one
  administrator, two edits and one list. The two kinds of write are served in
  different behaviours over tables of their own; their interaction is the safety
  run's.
- `MCServices` serves one service per behaviour and leaves the others in their
  initial state. It is symmetric in the two clients, which are also the two
  camera writers, and in the reports.
  - Accounts: two ids and two clients; one address that is registered, changed
    and freed, and then wanted back by a PATCH and by a new user, two PATCHes of different fields, a right and a wrong password.
    `Lifetime` and `TimeLimit` are 1 tick, `Leeway` 0, at most `MaxTokens` 2
    tokens by `LastTick` 4: a token is issued, its user deleted, and the token
    both used late and expired.
  - Cameras: two writers, brands and cameras; two spellings of one brand, an
    update whose camera may not be there, two writes that want one slug, a row that
    a CHECK refuses after its brand has been renamed, administrators who exchange the names and slugs of the brands, one list with
    page size 1.
  - Reports: three of two paths by `LastDay` 2, so that one path can lead, one
    report falls out of a window, and a limit of one cuts a path off.
  - Technologies: three ids and three spellings of two values.
  - Queries: up to three pairs out of those that decide something, identifiers
    of up to three characters (letters, a ligature, a mark, separators), comparisons of up to three, texts of up to four
    syllables, every subset of the spec keys. `Width` is scaled to 16 with
    `MaxPage` 3 and `MaxPageSize` 4; the theorem covers 2^32, 10000 and 100.
  - `CHECK_DEADLOCK FALSE`, because reports, ids and ticks run out.

### Fairness

- `DeviceWrites`: strong fairness of each slot's next statement and of
  ROLLBACK, since the end of a transaction wakes those that wait for its locks
  in order of arrival; weak fairness of the deadlock detector
  (`deadlock_timeout`). Nothing is assumed of clients, of the time limit or of
  the network.
- `SoftwareVersions`: as for `DeviceWrites`, the administrators' statements
  included. `LivenessSpec` states the fairness of whichever of the two is served.
- `PopularCache`: strong fairness of each handler: the runtime polls woken
  tasks, queries return and tokio's lock is FIFO. That the time limit strikes is
  not assumed, so the property says that handlers finish by themselves.

## 4. Disagreements with the documentation or with itself

Each is the counterexample of a run and quoted in `PROJECT.json`.

1. `docs/catalog-design.md:139` promises that a published slug is immutable and
   that old identifiers are kept as aliases; `update_device` replaces both.
2. `docs/catalog-design.md:142` promises that a write that breaks the
   publication conditions is refused or becomes a draft; a published payload
   without a checked primary source is stored as published and silently hidden.
3. `docs/catalog-design.md:274` answers duplicate devices with 400; the same
   identifier given twice is answered 404, as if it did not exist.
4. `docs/catalog-design.md:282` wants no shared cache without invalidation on
   publication changes; the popular list is such a cache.
5. `catalog.rs:999` refuses a second launch version in a category, but
   `update_software_version` edits the category of a version in use without
   looking at the devices that launched with it.

One more was noticed and is not a run: `docs/catalog-design.md:260` excludes
`-vs-` from slugs so that a canonical path can be taken apart, and migration
0003 checks it for devices; migration 0005 and `valid_slug` do not check it for
cameras, although `compare_cameras` joins their slugs in the same way. A client
that splits the path of such a camera would read other slugs; requests
themselves carry each identifier as a value of its own, which is what `Queries`
models.

## 5. Proofs

TLAPS proves, for every value of the constants that satisfies the named
assumptions (`RouteKeyAssumption`, `PayloadsAssumption`, `NullAssumption`,
`SlotAssumption`, `InitialAssumption`, `NoOpAssumption`, `KeysAssumption`,
`CacheAssumption`, `ListsAssumption`, `VersionsAssumption`, `SlotsAssumption`,
`EditsAssumption`, `AsksAssumption`, `NumbersAssumption`, `AccountsAssumption`,
`CamerasAssumption`, `RouteMissesAssumption`, `TechnologiesAssumption`,
`PagesAssumption`, `QueriesAssumption`, `SpecKeysAssumption`,
`DevicesAssumption`, `SnapshotAssumption`, `NothingAssumption`).
`QueriesAssumption` only says what the inputs are (sequences of pairs, of
characters, of syllables, finite sets of keys); `SpecKeysAssumption` that the
constant tables of `spec_keys_are_valid` name each key once, as those of
`src/catalog.rs` do. `DevicesAssumption` says that there
are finitely many devices and, for the readers, that the ones stored at first
do not share a route key; `HitsAreReports` and `SummariesAlwaysCountReports`
assume finitely many reports, the latter also finitely many paths (a path has at
most 500 characters). The theorems:

- `DeviceWritesProofs`: `TypeCorrect`, `RegistryAlwaysAgrees`,
  `BrandsAlwaysStored`, `WritesAlwaysLocked`. `RegistryAgrees` is not inductive:
  COMMIT installs the keys of `inserted`, so one has to know that they are
  exactly the keys the payload claims (`InsertedAreClaimed`) and that since they
  were inserted nobody else has got them, because the transaction still holds
  their index entries and its row (`WritesAreLocked`). The inductive invariant
  `IInv` is the conjunction; the lemmas prove it group by group (types,
  progress, locks, tables), each with one step per action.
- also in `DeviceWritesProofs`: `ImplementsTheCatalog` and
  `DeadlocksAlwaysNeedUpdate`. Both rest on a second invariant, `RInv`: which
  answer a slot can have got (`AnswersFit`), which checks its payload has passed
  (`PayloadsPassed`), that locks belong to open transactions and a create holds
  nothing ahead of its statements (`HoldersAreOpen`), and that keys are inserted
  in ascending order after the old ones have been deleted (`KeysInOrder`).
  The refinement maps `pending` to `op` and `applied` to `phase = "committed"`;
  COMMIT maps to `Put`, the answer to `Acknowledge`, refused payloads, missing
  devices and conflicts to `Refuse`, drops to `GiveUp`, their rollbacks to `Drop`,
  and every other statement to a stutter. That a COMMIT may `Put` is
  `CommitStep`: a stored device with one of the keys would have it in the
  registry, where the transaction's lock excludes it. For the deadlocks, suppose
  a circle of creates and take the least key that any of them waits for (keys
  are natural numbers). A create that waits for a brand holds nothing, and one that waits for
  a slug only a brand, so neither blocks anybody in the circle; hence the one that
  waits for the least key blocks another by a key it has inserted, which is smaller
  still (`CreatesDoNotDeadlock`).
- `PopularCacheProofs`: `StalenessAlwaysBounded`. `BoundedStaleness` says
  nothing of the handlers that are about to store; the strengthening is that
  the age of a loaded list plus the remaining time of the handler's
  `expires_at` never exceeds `Ttl + elapsed`, a sum that a tick keeps and that
  the cache inherits.
- `CatalogReadsProofs`: `TypeCorrect`, `PublicReadsAlwaysAtomic`,
  `AdminReadsAlwaysMoveForward`, `CanonicalPathsAlwaysLeadBack`. A response is
  checked when it is sent, so the invariant `IInv` has to say at every step what
  the handler's local variables will become. For a public reader
  (`PublicProgress`) it is that one catalogue of the request's history, the
  snapshot, has decided what the response will be, and `found`, `rows` and
  `total` are parts of that response. For an admin reader (`AdminProgress`) each
  variable belongs to a catalogue of the history, and the positions of these
  catalogues do not decrease from query to query. `History` says that the
  catalogues since the request are all sound (distinct route keys, stored
  brands) and that the last one is current; that soundness is what makes
  `resolve_identifier` a function, so that a path of canonical slugs resolves to
  the devices it was made of. The lists are in order by `RowsAreOrdered`.
- `SelectionsProofs`: all six properties of `Selections`. `PublishedAlone`
  speaks of handlers past the check only; the strengthening
  `KnownWhenPublished` adds that a handler before it has been recorded as known
  as soon as a published device has the slug, which the writes maintain.
  `TypeCorrect` (a count never exceeds the requests sent) and
  `RecentSelectionsCounted` rest on `Accounting`: a stored count and the
  requests that may still be counted are together no more than were sent
  (`Budget`), and for every set of dates the stored counts are at least the
  answered selections of these dates and, with the orphaned statements still
  running, at most those and the doubtful ones (`Balance`). The bounds must hold
  for every set of dates and not only for the window, because the window moves.
  `MostSelectedAreListed` shows that the ORDER BY is a strict total order of the
  listable devices, since slugs differ, and takes the first
  `ItemsPerCategory` of it; `CategoriesTakeTurns` counts the devices of each
  category in every prefix of the items.
- `SoftwareVersionsProofs`: `SoftwareAlwaysStored`,
  `CommitsAlwaysRespectLaunches`. The key is `SharedVersionsStay`: a version with
  an uncommitted reference is stored and nobody holds a lock that may rekey it;
  a rekeying lock is granted only without such references and excludes new
  ones. Hence the rows a write has referred to are constant from its insertion
  to its end, and `CheckedLaunchesHold` carries the check to COMMIT.
- `ServicesProofs`, users: `AccountsTypes`, `EmailsAreUnique`, `DeletedUsersFade`,
  `ConcurrentPatchesMerge`. `AuthorityFades` needs to know of the logins that
  are between their SELECT and their token: `Fading` says that each has begun
  before the deletion of the row it read, and that a handler works no longer
  than the time limit after its token was accepted.
- `ServicesProofs`, cameras: `CamerasTypes`, `BrandsOutliveCameras`, `SlugsIdentify`,
  `AnswersAreStored`, `CommitsPublish`, `PagesFitTotals`. The invariant
  `CamerasInv` says that two transactions never have the same row to undo
  (`Exclusive`), that the brand of every row, newest or to be restored, is there,
  also after the rollback of whoever inserted it (`BrandsReferred`), and that the
  slugs of cameras, newest and restorable, are distinct together (`OneCamera`):
  neither kind alone is inductive, since a rollback exchanges one for the other.
  An upsert keeps the slug of a brand, so that `OneBrand` need not look back.
- `ServicesProofs`, the others: `TechnologiesDiffer`, `MissesTypes`,
  `HitsAreReports`, which bounds the hits of a path by the reports surely and
  possibly in the window (`EventsFit`: an event lies between receipt and
  answer), and `SummariesAlwaysCountReports`, which adds that no two rows of the
  summary are equal for the ORDER BY, so that the limit cuts off the paths that
  were missed least.
- `QueriesProofs`: all five properties of `Queries`, for inputs of any length.
  `PagesTile`: a product within the bounds is below `Width`, so that the offset
  is the product, and the quotient of a row number by the page size is its page.
  `OrderNeverMatters`: a query string that fits gives each key once, so that the
  value of a key is that of its only pair, wherever the pair stands.
  `IdentifiersAlwaysLeadBack`: the loop of the composition is followed round by
  round (`ComposedInTurn`, `CharactersAreComposed`); lower case leaves letters
  that stay (`LoweredSmall`) and joining no separator, so that on a normal form
  the second pass only composes (`FoldedPlain`); what it composes from lower
  case is settled (`ComposedSettled`) and stays (`SettledStay`). It never gets
  longer, and together with the second measurement of the length that makes it
  accepted (`FormsSettle`); without a mark there is nothing to compose
  (`UnmarkedSettle`).
  `SynonymsAlwaysBecomeWords` follows `str::replace` syllable by syllable: an
  invariant relates what has been replaced so far to the text read so far
  (`PairReplaced`, `WordReplaced`). It counts occurrences and adjacent pairs and
  knows what comes last, because a pair is recognised at its second syllable;
  and it has to keep the adjacent pairs of the other product line, which the next
  pass will count (`SyllablesAreCounted` puts the four passes together).
  `SubDisplaysAlwaysInTurn` relates every round of `spec_keys_are_valid` to the
  keys of the groups visited so far: as long as nothing was wrong, `extra` is the
  number of sub display keys provided (`RoundCounts`), and since groups and names
  are disjoint the total is right only if no other key is there.
- `ListTheorems`: `RowsAreOrdered` says that the rows of a finite set come out
  of ORDER BY each once and ascending, if the order is strict and total. It
  proves by counting: the number of earlier rows is a bijection. Facts about
  sums over finite sets follow from one unfolding of the fold (`SumStep`) and
  least counterexamples; there is no induction over data in them. A fold over a
  sequence is the value of a recursive function on sets of positions;
  `FoldExists` shows that there is such a function, so that a fold has a value
  for every prefix, each one step from the one before (`StepsExist`,
  `SeqsFlatten`). A property of the fold is then an invariant of the prefixes.

Only model-checked: the two liveness properties, which are out of the prover's
reach under fairness.

## 6. Not modelled

- The connection pool (sqlx). The repository configures its size. No handler
  waits for a second connection while it holds one, so the pool adds waiting
  but no circle of waiters.
- JSON envelopes, OpenAPI, tracing, settings, health, start-up and shutdown: no
  state that changes, or pure input and output.
- Password hashing: a password stands for its hash. The checks a body has to
  pass field by field are the sets of accepted payloads.
- The typing targets of a search (jamo prefixes), its relevance ranking and
  percent encoding. Of NFKC, one ligature and one mark stand for the characters
  it spells out and composes; marks that change places, and letters that are
  taken apart to be composed with another mark, are left out. Text is a sequence
  of classes of characters, and a search is the set of what it matches.
- The edit cycle of an administrator (GET, edit, PUT): an update replaces what
  it finds, without a version check and as documented, so that the later one of
  two editors wins. What the GET can mix is `AdminReadsMoveForward`.
- The name search of the admin list, the source links of specs, the brand list
  of the schema endpoint and the Seoul date of the home page; labels, sort
  orders and texts of master data.
