---------------------------- MODULE CatalogReads ----------------------------
(***************************************************************************)
(* The catalogue endpoints that run several queries.  The public ones (a   *)
(* device's detail, a comparison, the home page, the list) open a          *)
(* REPEATABLE READ transaction, whose snapshot is taken by its first query;*)
(* the admin ones (a device by its id or slug, the list) leave theirs at   *)
(* READ COMMITTED.  Writes take effect at any moment as the Catalog        *)
(* specification lets them.                                                *)
(***************************************************************************)
EXTENDS CatalogData, Orderings, SequencesExt

CONSTANTS
  Requests, NoOp, InitialDevices,   \* of the writes
  Readers,     \* places where one read request at a time is handled
  Questions,   \* what they ask
  PageSize,    \* page_size of the list
  HomeSize,    \* LIMIT of the home page
  NoSnapshot, NoQuestion, NoReply

PublicKinds == {"detail", "comparison", "home", "list"}
AdminKinds  == {"by_id", "by_slug", "admin_list"}

(* keys are the normalised identifiers of a detail or a comparison, the    *)
(* slug of an admin detail, or the identifiers that match the search of a  *)
(* list (none: no search); device is the id of an admin detail; brand,     *)
(* status (of the admin list) and page filter and page a list.             *)
Question ==
  [kind : PublicKinds \cup AdminKinds, keys : Seq(Keys),
   device : Devices \cup {NoDevice}, brand : Brands \cup {NoBrand},
   status : Statuses \cup {"any"}, page : Nat \ {0}]

ASSUME QuestionAssumption ==
  /\ Questions \subseteq Question /\ NoQuestion \notin Questions
  /\ \A q \in Questions : q.kind \in {"detail", "by_slug"} => Len(q.keys) = 1
  /\ \A q \in Questions : q.kind = "by_id" => q.device # NoDevice
  /\ \A q \in Questions : q.kind = "comparison" => Len(q.keys) \in 1..3
ASSUME SizeAssumption == PageSize \in Nat \ {0} /\ HomeSize \in Nat \ {0}
ASSUME DevicesAssumption ==
  /\ IsFiniteSet(Devices)
  /\ InitialDevices \in [Devices -> Payloads \cup {NoDevice}]
  /\ \A d, e \in Devices :
       d # e /\ InitialDevices[d] # NoDevice /\ InitialDevices[e] # NoDevice =>
         ClaimedKeys(InitialDevices[d]) \cap ClaimedKeys(InitialDevices[e]) = {}
ASSUME SnapshotAssumption ==
  NoSnapshot \notin [dev : [Devices -> Payloads \cup {NoDevice}],
                     brandName : [Brands -> BrandNames \cup {NoBrand}]]

VARIABLES
  dev, brandName, pending, applied, answer,   \* of the writes
  question,   \* what each reader is or was asked last
  step,       \* its next query
  snapshot,   \* the catalogue its transaction sees
  found,      \* the ids its first queries selected
  rows,       \* the device rows it has loaded
  total,      \* the count of a list
  reply,      \* the response sent last
  since       \* history: the catalogues committed during the request, in order

writes  == <<dev, brandName, pending, applied, answer>>
readers == <<question, step, snapshot, found, rows, total, reply, since>>
vars == <<dev, brandName, pending, applied, answer,
          question, step, snapshot, found, rows, total, reply, since>>

Writes == INSTANCE Catalog

Catalogue == [dev |-> dev, brandName |-> brandName]

(***************************************************************************)
(* What the queries select in a catalogue s.                               *)
(***************************************************************************)
(* PUBLIC_DEVICE_SELECT                                                    *)
Public(s) == {d \in Devices : s.dev[d] # NoDevice /\ IsPublic(s.dev[d])}

(* The public device an identifier resolves to: none or one.               *)
Resolved(s, key) == {d \in Public(s) : key \in ClaimedKeys(s.dev[d])}

(* ORDER BY release_date DESC, ..., slug: a total order, since slugs are   *)
(* unique.  The model's devices are released on one day.                   *)
Sorted(s, ids) ==
  OrderedBy(ids, {p \in ids \X ids : s.dev[p[1]].slug < s.dev[p[2]].slug})

(* Mutant: the resolver of the public pages, which finds no drafts.        *)
WithSlug_Public(s, slug) == {d \in Public(s) : s.dev[d].slug = slug}

(* Any publication status, and no normalisation: the slug has to match.    *)
WithSlug(s, slug) == {d \in Devices : s.dev[d] # NoDevice /\ s.dev[d].slug = slug}

ListedAdmin(s, q) ==
  {d \in Devices :
     /\ s.dev[d] # NoDevice
     /\ q.brand # NoBrand => s.dev[d].brand = q.brand
     /\ q.status # "any" => s.dev[d].status = q.status}

ListedPublic(s, q) ==
  {d \in Public(s) :
     /\ q.keys # <<>> => \E i \in DOMAIN q.keys : d \in Resolved(s, q.keys[i])
     /\ q.brand # NoBrand => s.dev[d].brand = q.brand}

Listed(s, q) == IF q.kind = "list" THEN ListedPublic(s, q) ELSE ListedAdmin(s, q)

FirstOf(seq, n) == SubSeq(seq, 1, IF Len(seq) < n THEN Len(seq) ELSE n)

(* LIMIT page_size OFFSET (page - 1) * page_size                           *)
Page(seq, page) ==
  LET offset == (page - 1) * PageSize
  IN  IF offset >= Len(seq) THEN <<>>
      ELSE FirstOf(SubSeq(seq, offset + 1, Len(seq)), PageSize)

(* A device as it is shown: the name of its brand is joined in.            *)
Shown(s, d) == [s.dev[d] EXCEPT !.brandName = s.brandName[s.dev[d].brand]]

AliasRows(s, d) == s.dev[d].names

(* The rows of the other child tables, of which the model keeps whether the*)
(* one primary source is checked.                                          *)
ChildRows(s, d) == s.dev[d].checked

(***************************************************************************)
(* Responses.                                                              *)
(***************************************************************************)
Failure(status) == [status |-> status, devices |-> <<>>, path |-> <<>>, total |-> 0]

(* Mutant: the path lists the devices in an order of its own.              *)
ComparisonPath_BySlug(devices) ==
  LET slugs == {devices[i].slug : i \in DOMAIN devices}
  IN  OrderedBy(slugs, {p \in slugs \X slugs : p[1] < p[2]})

(* comparison_path: the slugs, joined by -vs-.                             *)
ComparisonPath(devices) == [i \in DOMAIN devices |-> devices[i].slug]

Success(q, devices, count) ==
  [status |-> "200", devices |-> devices,
   path |-> IF q.kind \in {"comparison", "home"} THEN ComparisonPath(devices)
            ELSE <<>>,
   total |-> IF q.kind \in {"list", "admin_list"} THEN count ELSE 0]

Send(r, response) ==
  /\ reply' = [reply EXCEPT ![r] = response]
  /\ step' = [step EXCEPT ![r] = "idle"]
  /\ snapshot' = [snapshot EXCEPT ![r] = NoSnapshot]
  /\ found' = [found EXCEPT ![r] = <<>>]
  /\ rows' = [rows EXCEPT ![r] = <<>>]
  /\ total' = [total EXCEPT ![r] = 0]
  /\ UNCHANGED <<writes, question, since>>

(***************************************************************************)
(* Requests.                                                               *)
(***************************************************************************)
Ask(r, q) ==
  /\ step[r] = "idle"
  /\ question' = [question EXCEPT ![r] = q]
  /\ reply' = [reply EXCEPT ![r] = NoReply]
  /\ since' = [since EXCEPT ![r] = <<Catalogue>>]
  /\ step' = [step EXCEPT ![r] = q.kind]
  /\ UNCHANGED <<writes, snapshot, found, rows, total>>

(* Mutant: every query sees what is committed when it runs.                *)
TakeSnapshot_ReadCommitted(r) == snapshot' = snapshot

(* The first query of the transaction; only the public endpoints ask for   *)
(* repeatable_read.                                                        *)
TakeSnapshot(r) ==
  snapshot' = IF question[r].kind \in AdminKinds THEN snapshot
              ELSE [snapshot EXCEPT ![r] = Catalogue]

View(r) == IF snapshot[r] = NoSnapshot THEN Catalogue ELSE snapshot[r]

(* The first query has selected these ids, in this order.                  *)
Select(r, ids) ==
  /\ TakeSnapshot(r)
  /\ found' = [found EXCEPT ![r] = ids]
  /\ step' = [step EXCEPT ![r] = "rows"]
  /\ UNCHANGED <<writes, question, rows, total, reply, since>>

(* Mutant: whatever the query returns is taken for a row.                  *)
ResolveIdentifier_Unchecked(r) ==
  /\ step[r] = "detail"
  /\ Select(r, IF Resolved(Catalogue, question[r].keys[1]) = {} THEN <<NoDevice>>
               ELSE SetToSeq(Resolved(Catalogue, question[r].keys[1])))

(* GET /devices/{identifier}                                               *)
ResolveIdentifier(r) ==
  /\ step[r] = "detail"
  /\ LET ids == Resolved(Catalogue, question[r].keys[1])
     IN  IF ids = {} THEN Send(r, Failure("404")) ELSE Select(r, SetToSeq(ids))

(* GET /comparisons: the ids come as a map from route key to id, so that a *)
(* key given twice is missed by the comparison of the sizes.               *)
ResolveIdentifiers(r) ==
  /\ step[r] = "comparison"
  /\ LET keys     == question[r].keys
         resolved == {k \in ToSet(keys) : Resolved(Catalogue, k) # {}}
         id       == [k \in resolved |-> CHOOSE d \in Resolved(Catalogue, k) : TRUE]
     IN  IF Cardinality(resolved) # Len(keys) THEN Send(r, Failure("404"))
         ELSE LET ids == [i \in DOMAIN keys |-> id[keys[i]]]
              IN  IF Cardinality(ToSet(ids)) # Len(ids) THEN Send(r, Failure("400"))
                  ELSE Select(r, ids)

(* GET /home                                                               *)
SelectHome(r) ==
  /\ step[r] = "home"
  /\ Select(r, FirstOf(Sorted(Catalogue, Public(Catalogue)), HomeSize))

(* GET /devices and GET /admin/devices: the count, then the page.          *)
CountDevices(r) ==
  /\ step[r] \in {"list", "admin_list"}
  /\ TakeSnapshot(r)
  /\ total' = [total EXCEPT ![r] = Cardinality(Listed(Catalogue, question[r]))]
  /\ step' = [step EXCEPT ![r] = "page"]
  /\ UNCHANGED <<writes, question, found, rows, reply, since>>

SelectPage(r) ==
  /\ step[r] = "page"
  /\ LET ids == Page(Sorted(View(r), Listed(View(r), question[r])), question[r].page)
     IN  /\ found' = [found EXCEPT ![r] = ids]
         /\ rows' = [rows EXCEPT ![r] = [i \in DOMAIN ids |-> Shown(View(r), ids[i])]]
  /\ step' = [step EXCEPT ![r] = "aliases"]
  /\ UNCHANGED <<writes, question, snapshot, total, reply, since>>

(* summaries_from_rows                                                     *)
LoadAliases(r) ==
  /\ step[r] = "aliases"
  /\ Send(r, Success(question[r],
                     [i \in DOMAIN rows[r] |->
                        [rows[r][i] EXCEPT !.names = AliasRows(View(r), found[r][i])]],
                     total[r]))

(* load_details: the rows, if all of them are (still) public, in the order *)
(* of the ids.                                                             *)
LoadRows(r) ==
  /\ step[r] = "rows"
  /\ IF ToSet(found[r]) \subseteq Public(View(r))
     THEN /\ rows' = [rows EXCEPT ![r] =
                        [i \in DOMAIN found[r] |-> Shown(View(r), found[r][i])]]
          /\ step' = [step EXCEPT ![r] = "children"]
          /\ UNCHANGED <<writes, question, snapshot, found, total, reply, since>>
     ELSE Send(r, Failure("404"))

(* load_details: aliases, sources and the other child rows; a device with- *)
(* out its checked primary source is an internal error.                    *)
LoadChildren(r) ==
  /\ step[r] = "children"
  /\ IF \E i \in DOMAIN found[r] : ~ChildRows(View(r), found[r][i])
     THEN Send(r, Failure("500"))
     ELSE Send(r, Success(question[r],
                          [i \in DOMAIN rows[r] |->
                             [rows[r][i] EXCEPT
                                !.names = AliasRows(View(r), found[r][i]),
                                !.checked = ChildRows(View(r), found[r][i])]],
                          0))

(* GET /devices/by-slug/{slug}                                             *)
FindBySlug(r) ==
  /\ step[r] = "by_slug"
  /\ LET ids == WithSlug(Catalogue, question[r].keys[1])
     IN  IF ids = {} THEN Send(r, Failure("404"))
         ELSE /\ found' = [found EXCEPT ![r] = SetToSeq(ids)]
              /\ step' = [step EXCEPT ![r] = "by_id"]
              /\ UNCHANGED <<writes, question, snapshot, rows, total, reply, since>>

Wanted(r) == IF found[r] = <<>> THEN question[r].device ELSE found[r][1]

(* GET /devices/by-id/{id}, and load_admin_detail: the row first.          *)
LoadAdminRow(r) ==
  /\ step[r] = "by_id"
  /\ IF dev[Wanted(r)] = NoDevice THEN Send(r, Failure("404"))
     ELSE /\ found' = [found EXCEPT ![r] = <<Wanted(r)>>]
          /\ rows' = [rows EXCEPT ![r] = <<Shown(Catalogue, Wanted(r))>>]
          /\ step' = [step EXCEPT ![r] = "admin_aliases"]
          /\ UNCHANGED <<writes, question, snapshot, total, reply, since>>

LoadAdminAliases(r) ==
  /\ step[r] = "admin_aliases"
  /\ rows' = [rows EXCEPT ![r][1].names = AliasRows(Catalogue, found[r][1])]
  /\ step' = [step EXCEPT ![r] = "admin_sources"]
  /\ UNCHANGED <<writes, question, snapshot, found, total, reply, since>>

(* The sources and what follows them.  A stored device has its power row,  *)
(* so that no query comes back empty.                                      *)
LoadAdminSources(r) ==
  /\ step[r] = "admin_sources"
  /\ Send(r, Success(question[r],
                     <<[rows[r][1] EXCEPT
                          !.checked = ChildRows(Catalogue, found[r][1])]>>, 0))

(* A write takes effect, is answered or begins.  Responses sent before are *)
(* the clients': the model forgets them.                                   *)
WriteStep ==
  /\ Writes!Next
  /\ LET open(r) == step[r] # "idle"
     IN  /\ since' = [r \in Readers |->
                        IF ~open(r) THEN <<>>
                        ELSE IF Last(since[r]) = Catalogue' THEN since[r]
                        ELSE Append(since[r], Catalogue')]
         /\ question' = [r \in Readers |-> IF open(r) THEN question[r] ELSE NoQuestion]
         /\ reply' = [r \in Readers |-> IF open(r) THEN reply[r] ELSE NoReply]
  /\ UNCHANGED <<step, snapshot, found, rows, total>>

Init ==
  /\ Writes!Init
  /\ question = [r \in Readers |-> NoQuestion]
  /\ step = [r \in Readers |-> "idle"]
  /\ snapshot = [r \in Readers |-> NoSnapshot]
  /\ found = [r \in Readers |-> <<>>]
  /\ rows = [r \in Readers |-> <<>>]
  /\ total = [r \in Readers |-> 0]
  /\ reply = [r \in Readers |-> NoReply]
  /\ since = [r \in Readers |-> <<>>]

Next ==
  \/ \E r \in Readers :
       \/ \E q \in Questions : Ask(r, q)
       \/ ResolveIdentifier(r) \/ ResolveIdentifiers(r) \/ SelectHome(r)
       \/ CountDevices(r) \/ SelectPage(r) \/ LoadAliases(r)
       \/ LoadRows(r) \/ LoadChildren(r)
       \/ FindBySlug(r) \/ LoadAdminRow(r)
       \/ LoadAdminAliases(r) \/ LoadAdminSources(r)
  \/ WriteStep

Spec == Init /\ [][Next]_vars

(***************************************************************************)
(* Properties.                                                             *)
(***************************************************************************)
Response ==
  [status : {"200", "400", "404", "500"}, devices : Seq(DeviceWriteRequest),
   path : Seq(Keys), total : Nat]

TypeOK ==
  /\ question \in [Readers -> Questions \cup {NoQuestion}]
  /\ step \in [Readers -> PublicKinds \cup AdminKinds
                          \cup {"idle", "page", "aliases", "rows", "children",
                                "admin_aliases", "admin_sources"}]
  /\ \A r \in Readers :
       /\ snapshot[r] # NoSnapshot => DOMAIN snapshot[r].dev = Devices
       /\ found[r] \in Seq(Devices)
       /\ rows[r] \in Seq(DeviceWriteRequest)
       /\ total[r] \in 0..Cardinality(Devices)
       /\ reply[r] # NoReply => reply[r] \in Response

(* The response to a question in one catalogue, all at once.               *)
Ideal(s, q) ==
  CASE q.kind = "detail" ->
         IF Resolved(s, q.keys[1]) = {} THEN Failure("404")
         ELSE Success(q, <<Shown(s, CHOOSE d \in Resolved(s, q.keys[1]) : TRUE)>>, 0)
    [] q.kind = "comparison" ->
         IF \/ \E i \in DOMAIN q.keys : Resolved(s, q.keys[i]) = {}
            \/ ~IsInjective(q.keys)
         THEN Failure("404")
         ELSE IF \E i, j \in DOMAIN q.keys :
                   i # j /\ Resolved(s, q.keys[i]) = Resolved(s, q.keys[j])
         THEN Failure("400")
         ELSE Success(q, [i \in DOMAIN q.keys |->
                            Shown(s, CHOOSE d \in Resolved(s, q.keys[i]) : TRUE)], 0)
    [] q.kind = "home" ->
         LET ids == FirstOf(Sorted(s, Public(s)), HomeSize)
         IN  Success(q, [i \in DOMAIN ids |-> Shown(s, ids[i])], 0)
    [] q.kind = "list" ->
         LET ids == Page(Sorted(s, Listed(s, q)), q.page)
         IN  Success(q, [i \in DOMAIN ids |-> Shown(s, ids[i])],
                     Cardinality(Listed(s, q)))

Answered(r) == reply[r] # NoReply
AnsweredTo(r, kinds) == Answered(r) /\ question[r].kind \in kinds
Seen(r) == ToSet(since[r])

(* Every public response is what the catalogue said at one instant between *)
(* the request and the response: never a mixture of versions, a page that  *)
(* contradicts its total, a 404 or 500 for a device lost between two       *)
(* queries, or a device archived before the request was sent.              *)
PublicReadsAtomic ==
  \A r \in Readers :
    AnsweredTo(r, PublicKinds) =>
      \E s \in Seen(r) : reply[r] = Ideal(s, question[r])

(* What is left of that for the admin endpoints, whose queries see one     *)
(* commit after another: the parts of a response (a total and a page, a    *)
(* row, its aliases and its sources) are of versions committed since the   *)
(* request, each no older than the part before; there is no 500; and 404   *)
(* is said only if the device was missing, in whatever state (the form     *)
(* opens for drafts) and by whatever slug it had when it was found.        *)
AdminReadsMoveForward ==
  \A r \in Readers :
    LET q    == question[r]
        at   == since[r]
        last == DOMAIN at
    IN  /\ AnsweredTo(r, {"admin_list"}) =>
             \E i, j, k \in last :
               LET ids == Page(Sorted(at[j], Listed(at[j], q)), q.page)
               IN  /\ i <= j /\ j <= k
                   /\ reply[r] =
                        Success(q, [n \in DOMAIN ids |->
                                      [Shown(at[j], ids[n]) EXCEPT
                                         !.names = at[k].dev[ids[n]].names]],
                                Cardinality(Listed(at[i], q)))
        /\ AnsweredTo(r, {"by_id", "by_slug"}) =>
             \E h, i, j, k \in last :
               LET ids == IF q.kind = "by_id" THEN {q.device}
                          ELSE {d \in Devices : /\ at[h].dev[d] # NoDevice
                                                /\ at[h].dev[d].slug = q.keys[1]}
                   gone == \A d \in ids : at[i].dev[d] = NoDevice
               IN  /\ h <= i /\ i <= j /\ j <= k
                   /\ IF gone THEN reply[r] = Failure("404")
                      ELSE \E d \in ids :
                             reply[r] =
                               Success(q, <<[Shown(at[i], d) EXCEPT
                                               !.names = at[j].dev[d].names,
                                               !.checked = at[k].dev[d].checked]>>, 0)

(* The canonical path of a comparison or of the home page, asked as a      *)
(* comparison in the catalogue it was read from, gives the same devices in *)
(* the same order and itself as its path.                                  *)
CanonicalPathsLeadBack ==
  \A r \in Readers :
    Answered(r) /\ reply[r].path # <<>> =>
      \E s \in Seen(r) :
        LET again == Ideal(s, [question[r] EXCEPT !.kind = "comparison",
                                                  !.keys = reply[r].path])
        IN  /\ again.devices = reply[r].devices
            /\ again.path = reply[r].path

(* docs/catalog-design.md:258 and 274: a comparison is answered 404 when an*)
(* identifier resolves to nothing; devices given twice are a 400.          *)
DuplicatesAre400 ==
  \A r \in Readers :
    Answered(r) /\ question[r].kind = "comparison" /\ reply[r].status = "404" =>
      \E s \in Seen(r), i \in DOMAIN question[r].keys :
        Resolved(s, question[r].keys[i]) = {}

=============================================================================
