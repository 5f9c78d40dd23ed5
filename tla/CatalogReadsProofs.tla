------------------------- MODULE CatalogReadsProofs -------------------------
(***************************************************************************)
(* Proofs about CatalogReads for any number of devices, writers, readers   *)
(* and questions: the public responses are what one committed catalogue    *)
(* says, the admin responses move forward, and canonical paths lead back.  *)
(***************************************************************************)
EXTENDS CatalogReads, ListTheorems

(***************************************************************************)
(* The inductive invariant.                                                *)
(***************************************************************************)
Catalogues ==
  [dev : [Devices -> Payloads \cup {NoDevice}],
   brandName : [Brands -> BrandNames \cup {NoBrand}]]

(* A catalogue as the writes leave it.                                     *)
Sound(s) ==
  /\ s \in Catalogues
  /\ \A d, e \in Devices :
       d # e /\ s.dev[d] # NoDevice /\ s.dev[e] # NoDevice =>
         ClaimedKeys(s.dev[d]) \cap ClaimedKeys(s.dev[e]) = {}
  /\ \A d \in Devices :
       s.dev[d] # NoDevice => s.brandName[s.dev[d].brand] # NoBrand

WritesInv ==
  /\ pending \in [Requests -> {NoOp} \cup [target : Devices \cup {NoDevice},
                                           payload : Payloads]]
  /\ Sound(Catalogue)

Types ==
  /\ question \in [Readers -> Questions \cup {NoQuestion}]
  /\ step \in [Readers -> PublicKinds \cup AdminKinds
                          \cup {"idle", "page", "aliases", "rows", "children",
                                "admin_aliases", "admin_sources"}]
  /\ snapshot \in [Readers -> Catalogues \cup {NoSnapshot}]
  /\ found \in [Readers -> Seq(Devices)]
  /\ rows \in [Readers -> Seq(DeviceWriteRequest)]
  /\ total \in [Readers -> 0 .. Cardinality(Devices)]
  /\ reply \in [Readers -> Response \cup {NoReply}]
  /\ since \in [Readers -> Seq(Catalogues)]

(* The history of a request: nothing but sound catalogues, up to now.      *)
History(r) ==
  /\ \A i \in DOMAIN since[r] : Sound(since[r][i])
  /\ since[r] # <<>> => since[r][Len(since[r])] = Catalogue
  /\ step[r] # "idle" => since[r] # <<>> /\ reply[r] = NoReply
  /\ step[r] # "idle" \/ reply[r] # NoReply => question[r] \in Questions

(* The first queries have decided what the response is.                    *)
Decided(s, q, ids, n) ==
  /\ ids \in Seq(Public(s))
  /\ Ideal(s, q) = Success(q, [i \in DOMAIN ids |-> Shown(s, ids[i])], n)

ShownAll(s, ids) == [i \in DOMAIN ids |-> Shown(s, ids[i])]

(* A public request that has begun sees one catalogue of its history.      *)
PublicProgress(r) ==
  question[r].kind \in PublicKinds =>
    /\ step[r] \in PublicKinds \cup {"page", "aliases", "rows", "children"}
    /\ IF step[r] \in PublicKinds
       THEN step[r] = question[r].kind /\ snapshot[r] = NoSnapshot
       ELSE \E i \in DOMAIN since[r] : snapshot[r] = since[r][i]
    /\ step[r] \in {"rows", "children"} =>
         question[r].kind # "list" /\ Decided(snapshot[r], question[r], found[r], 0)
    /\ step[r] = "children" => rows[r] = ShownAll(snapshot[r], found[r])
    /\ step[r] \in {"page", "aliases"} =>
         /\ question[r].kind = "list"
         /\ total[r] = Cardinality(Listed(snapshot[r], question[r]))
    /\ step[r] = "aliases" =>
         /\ Decided(snapshot[r], question[r], found[r], total[r])
         /\ rows[r] = ShownAll(snapshot[r], found[r])

(* The device an admin request is about, as of one catalogue.              *)
Wants(s, q) ==
  IF q.kind = "by_id" THEN {q.device}
  ELSE {d \in Devices : s.dev[d] # NoDevice /\ s.dev[d].slug = q.keys[1]}

(* The parts an admin request has read so far are of catalogues in the     *)
(* order of its history at; now are the stored devices.                    *)
AdminParts(q, at, now, at_step, snap, ids, parts, count) ==
  q.kind \in AdminKinds =>
    /\ snap = NoSnapshot
    /\ at_step \in AdminKinds \cup {"page", "aliases", "admin_aliases",
                                    "admin_sources"}
    /\ at_step \in {"admin_list", "page", "aliases"} => q.kind = "admin_list"
    /\ at_step \in {"by_slug", "by_id", "admin_aliases", "admin_sources"} =>
         q.kind \in {"by_slug", "by_id"}
    /\ at_step = "by_slug" => q.kind = "by_slug"
    /\ at_step = "page" =>
         \E i \in DOMAIN at : count = Cardinality(Listed(at[i], q))
    /\ at_step = "aliases" =>
         /\ \A n \in DOMAIN ids : now[ids[n]] # NoDevice
         /\ \E i, j \in DOMAIN at :
              /\ i <= j
              /\ count = Cardinality(Listed(at[i], q))
              /\ ids = Page(Sorted(at[j], Listed(at[j], q)), q.page)
              /\ parts = ShownAll(at[j], ids)
    /\ at_step = "by_id" =>
         \E h \in DOMAIN at :
           Wants(at[h], q) = {IF ids = <<>> THEN q.device ELSE ids[1]}
    /\ at_step = "admin_aliases" =>
         \E d \in Devices, h, i \in DOMAIN at :
           /\ h <= i
           /\ Wants(at[h], q) = {d} /\ ids = <<d>>
           /\ now[d] # NoDevice /\ at[i].dev[d] # NoDevice
           /\ parts = <<Shown(at[i], d)>>
    /\ at_step = "admin_sources" =>
         \E d \in Devices, h, i, j \in DOMAIN at :
           /\ h <= i /\ i <= j
           /\ Wants(at[h], q) = {d} /\ ids = <<d>>
           /\ now[d] # NoDevice /\ at[i].dev[d] # NoDevice
           /\ parts = <<[Shown(at[i], d) EXCEPT !.names = at[j].dev[d].names]>>

AdminProgress(r) ==
  AdminParts(question[r], since[r], dev, step[r], snapshot[r], found[r],
             rows[r], total[r])

(* A slot without a request keeps nothing of the last one.                 *)
Progress(r) ==
  IF step[r] = "idle" THEN snapshot[r] = NoSnapshot /\ found[r] = <<>>
  ELSE /\ PublicProgress(r) /\ AdminProgress(r)
       /\ step[r] \in PublicKinds \cup (AdminKinds \ {"by_id"}) => found[r] = <<>>

IInv ==
  /\ WritesInv
  /\ Types
  /\ \A r \in Readers : History(r) /\ Progress(r)
  /\ PublicReadsAtomic
  /\ AdminReadsMoveForward

(***************************************************************************)
(* Payloads and the rows a query selects.                                  *)
(***************************************************************************)
LEMMA PayloadFields ==
  ASSUME NEW p \in Payloads
  PROVE  /\ p \in DeviceWriteRequest /\ p.slug \in Keys /\ p.slug \in Nat
         /\ p.slug \in ClaimedKeys(p)
         /\ ClaimedKeys(p) \subseteq Keys
         /\ p.brand \in Brands /\ p.brandName \in BrandNames
         /\ p.names \in SUBSET Names /\ p.checked \in BOOLEAN
BY PayloadsAssumption, KeysAssumption, RouteKeyAssumption
   DEF DeviceWriteRequest, ClaimedKeys

(* Two stored devices have different slugs and route keys.                 *)
LEMMA StoredDiffer ==
  ASSUME NEW s, Sound(s), NEW d \in Devices, NEW e \in Devices,
         s.dev[d] # NoDevice, s.dev[e] # NoDevice
  PROVE  /\ s.dev[d] \in Payloads
         /\ \A key \in ClaimedKeys(s.dev[d]) : key \in ClaimedKeys(s.dev[e]) => d = e
         /\ s.dev[d].slug = s.dev[e].slug => d = e
<1>1. s.dev[d] \in Payloads /\ s.dev[e] \in Payloads
  BY DEF Sound, Catalogues
<1>2. \A key \in ClaimedKeys(s.dev[d]) : key \in ClaimedKeys(s.dev[e]) => d = e
  BY DEF Sound
<1>3. s.dev[d].slug = s.dev[e].slug => d = e
  BY <1>1, <1>2, PayloadFields
<1>4. QED
  BY <1>1, <1>2, <1>3

(* A device as it is shown is a device, with the slug and keys it has.     *)
LEMMA ShownDevice ==
  ASSUME NEW s, Sound(s), NEW d \in Devices, s.dev[d] # NoDevice
  PROVE  /\ Shown(s, d) \in DeviceWriteRequest
         /\ Shown(s, d).slug = s.dev[d].slug
         /\ Shown(s, d).names = s.dev[d].names
         /\ Shown(s, d).checked = s.dev[d].checked
<1>1. s.dev[d] \in DeviceWriteRequest
  BY StoredDiffer, PayloadFields
<1>2. s.dev[d].brand \in Brands
  BY StoredDiffer, PayloadFields
<1>3. s.brandName[s.dev[d].brand] \in BrandNames
  BY <1>2 DEF Sound, Catalogues
<1>4. QED
  BY <1>1, <1>3 DEF Shown, DeviceWriteRequest

(* ORDER BY slug: every selected device once, by ascending slug.           *)
LEMMA SortedRows ==
  ASSUME NEW s, Sound(s), NEW ids, ids \subseteq Devices,
         \A d \in ids : s.dev[d] # NoDevice
  PROVE  /\ Cardinality(ids) \in 0 .. Cardinality(Devices)
         /\ Sorted(s, ids) \in Seq(ids)
         /\ Len(Sorted(s, ids)) = Cardinality(ids)
         /\ \A i, j \in 1 .. Cardinality(ids) :
              Sorted(s, ids)[i] = Sorted(s, ids)[j] => i = j
<1> DEFINE R == {p \in ids \X ids : s.dev[p[1]].slug < s.dev[p[2]].slug}
<1>1. IsFiniteSet(ids) /\ Cardinality(ids) \in 0 .. Cardinality(Devices)
  BY DevicesAssumption, FS_Subset, FS_CardinalityType
<1>2. \A d \in ids : s.dev[d].slug \in Nat
  BY StoredDiffer, PayloadFields
<1>3. \A d, e \in ids : s.dev[d].slug = s.dev[e].slug => d = e
  BY StoredDiffer
<1>4. \A d, e \in ids : <<d, e>> \in R <=> s.dev[d].slug < s.dev[e].slug
  OBVIOUS
<1>5. OrdersRows(ids, R)
  <2> HIDE DEF R
  <2>1. \A d \in ids : <<d, d>> \notin R
    BY <1>2, <1>4
  <2>2. \A d, e \in ids : d # e => <<d, e>> \in R \/ <<e, d>> \in R
    BY <1>2, <1>3, <1>4
  <2>3. \A d, e, f \in ids : <<d, e>> \in R /\ <<e, f>> \in R => <<d, f>> \in R
    BY <1>2, <1>4
  <2>4. QED
    BY <2>1, <2>2, <2>3 DEF OrdersRows
<1>6. Sorted(s, ids) = OrderedBy(ids, R)
  BY DEF Sorted
<1> HIDE DEF R
<1>7. /\ Cardinality(ids) \in Nat
      /\ Sorted(s, ids) \in [1 .. Cardinality(ids) -> ids]
      /\ \A i, j \in 1 .. Cardinality(ids) :
           i < j => <<Sorted(s, ids)[i], Sorted(s, ids)[j]>> \in R
  BY <1>1, <1>5, <1>6, RowsAreOrdered
<1>8. Sorted(s, ids) \in Seq(ids) /\ Len(Sorted(s, ids)) = Cardinality(ids)
  BY <1>7
<1>9. \A i, j \in 1 .. Cardinality(ids) :
        Sorted(s, ids)[i] = Sorted(s, ids)[j] => i = j
  <2>1. ASSUME NEW i \in 1 .. Cardinality(ids), NEW j \in 1 .. Cardinality(ids), i # j
        PROVE  Sorted(s, ids)[i] # Sorted(s, ids)[j]
    <3>1. i < j \/ j < i
      BY <2>1, <1>7
    <3>2. Sorted(s, ids)[i] \in ids /\ <<Sorted(s, ids)[i], Sorted(s, ids)[i]>> \notin R
      BY <1>7, <1>5 DEF OrdersRows
    <3>3. QED
      BY <3>1, <3>2, <1>7
  <2>2. QED
    BY <2>1
<1>10. QED
  BY <1>1, <1>8, <1>9

(* LIMIT and OFFSET keep an order and the rows of it.                      *)
LEMMA FirstRows ==
  ASSUME NEW S, NEW seq \in Seq(S), NEW n \in Nat
  PROVE  /\ FirstOf(seq, n) \in Seq(S)
         /\ Len(FirstOf(seq, n)) \in 0 .. Len(seq)
         /\ \A i \in 1 .. Len(FirstOf(seq, n)) : FirstOf(seq, n)[i] = seq[i]
<1> DEFINE m == IF Len(seq) < n THEN Len(seq) ELSE n
<1>1. m \in 0 .. Len(seq)
  OBVIOUS
<1>2. FirstOf(seq, n) = SubSeq(seq, 1, m)
  BY DEF FirstOf
<1> HIDE DEF m
<1>3. QED
  BY <1>1, <1>2

LEMMA PageRows ==
  ASSUME NEW S, NEW seq \in Seq(S), NEW page \in Nat \ {0}
  PROVE  Page(seq, page) \in Seq(S)
<1> DEFINE offset == (page - 1) * PageSize
<1>1. offset \in Nat
  BY SizeAssumption
<1>2. Page(seq, page) = IF offset >= Len(seq) THEN <<>>
                        ELSE FirstOf(SubSeq(seq, offset + 1, Len(seq)), PageSize)
  BY DEF Page
<1> HIDE DEF offset
<1>3. CASE offset >= Len(seq)
  BY <1>2, <1>3
<1>4. CASE ~ (offset >= Len(seq))
  <2>1. SubSeq(seq, offset + 1, Len(seq)) \in Seq(S)
    BY <1>1, <1>4
  <2>2. QED
    BY <1>2, <1>4, <2>1, FirstRows, SizeAssumption
<1>5. QED
  BY <1>3, <1>4

(* The rows of a set of one.                                               *)
LEMMA OneRow ==
  ASSUME NEW d
  PROVE  SetToSeq({d}) = <<d>>
<1>1. Cardinality({d}) = 1
  BY FS_Singleton
<1>2. <<d>> \in [1 .. 1 -> {d}] /\ IsInjective(<<d>>)
  BY DEF IsInjective
<1>3. \A f \in [1 .. 1 -> {d}] : f = <<d>>
  OBVIOUS
<1>4. QED
  BY <1>1, <1>2, <1>3 DEF SetToSeq

(***************************************************************************)
(* What the first query of a public request decides.                       *)
(***************************************************************************)
LEMMA QuestionFields ==
  ASSUME NEW q \in Questions
  PROVE  /\ q \in Question /\ q # NoQuestion
         /\ q.kind \in PublicKinds \cup AdminKinds
         /\ q.keys \in Seq(Keys)
         /\ q.device \in Devices \cup {NoDevice}
         /\ q.kind = "by_id" => q.device \in Devices
         /\ q.page \in Nat \ {0}
BY QuestionAssumption DEF Question

(* An identifier resolves to at most one device.                           *)
LEMMA ResolvedDevices ==
  ASSUME NEW s, Sound(s), NEW key
  PROVE  /\ Resolved(s, key) \subseteq Public(s)
         /\ Public(s) \subseteq Devices
         /\ \A d \in Public(s) : s.dev[d] # NoDevice /\ s.dev[d].checked
         /\ \A d \in Resolved(s, key) : Resolved(s, key) = {d}
<1>1. /\ Resolved(s, key) \subseteq Public(s)
      /\ Public(s) \subseteq Devices
      /\ \A d \in Public(s) : s.dev[d] # NoDevice /\ s.dev[d].checked
  BY DEF Resolved, Public, IsPublic
<1>2. \A d, e \in Resolved(s, key) : d = e
  BY <1>1, StoredDiffer DEF Resolved
<1>3. QED
  BY <1>1, <1>2

LEMMA DetailDecided ==
  ASSUME NEW s, Sound(s), NEW q \in Questions, q.kind = "detail"
  PROVE  LET ids == Resolved(s, q.keys[1])
         IN  IF ids = {} THEN Ideal(s, q) = Failure("404")
             ELSE Decided(s, q, SetToSeq(ids), 0)
<1> DEFINE ids == Resolved(s, q.keys[1])
<1>1. CASE ids = {}
  BY <1>1 DEF Ideal
<1>2. ASSUME NEW d \in ids
      PROVE  Decided(s, q, SetToSeq(ids), 0)
  <2>1. ids = {d} /\ d \in Public(s)
    BY <1>2, ResolvedDevices
  <2>2. SetToSeq(ids) = <<d>> /\ (CHOOSE e \in ids : TRUE) = d
    BY <2>1, OneRow
  <2>3. Ideal(s, q) = Success(q, <<Shown(s, d)>>, 0)
    BY <1>2, <2>2 DEF Ideal
  <2>4. [i \in DOMAIN <<d>> |-> Shown(s, <<d>>[i])] = <<Shown(s, d)>>
    OBVIOUS
  <2>5. Decided(s, q, <<d>>, 0)
    BY <2>1, <2>3, <2>4 DEF Decided
  <2>6. QED
    BY <2>2, <2>5
<1>3. QED
  BY <1>1, <1>2

(* The map resolve_public_identifiers returns, and the ids looked up in it.*)
ResolvedKeys(s, q) == {k \in ToSet(q.keys) : Resolved(s, k) # {}}
ResolvedIds(s, q) ==
  [i \in DOMAIN q.keys |->
     [k \in ResolvedKeys(s, q) |-> CHOOSE d \in Resolved(s, k) : TRUE][q.keys[i]]]

(* resolve_public_identifiers compares sizes: the map is short of a key    *)
(* exactly if one resolves to nothing or is given twice, and the ids are   *)
(* fewer than the keys exactly if two keys resolve to one device.          *)
LEMMA ComparisonDecided ==
  ASSUME NEW s, Sound(s), NEW q \in Questions, q.kind = "comparison"
  PROVE  IF Cardinality(ResolvedKeys(s, q)) # Len(q.keys)
           THEN Ideal(s, q) = Failure("404")
         ELSE IF Cardinality(ToSet(ResolvedIds(s, q))) # Len(ResolvedIds(s, q))
           THEN Ideal(s, q) = Failure("400")
         ELSE Decided(s, q, ResolvedIds(s, q), 0)
<1> DEFINE keys     == q.keys
           resolved == ResolvedKeys(s, q)
           ids      == ResolvedIds(s, q)
           lost     == \E i \in DOMAIN keys : Resolved(s, keys[i]) = {}
<1>1. keys \in Seq(Keys)
  BY QuestionFields
<1>2. /\ IsFiniteSet(ToSet(keys)) /\ Cardinality(ToSet(keys)) <= Len(keys)
      /\ Cardinality(ToSet(keys)) = Len(keys) <=> IsInjective(keys)
      /\ Len(keys) \in Nat /\ Cardinality(ToSet(keys)) \in Nat
  BY <1>1, ElementsOfSeq, FS_CardinalityType
<1>3. /\ Cardinality(resolved) \in Nat
      /\ Cardinality(resolved) <= Cardinality(ToSet(keys))
      /\ Cardinality(resolved) = Cardinality(ToSet(keys)) => resolved = ToSet(keys)
  BY <1>2, FS_Subset, FS_CardinalityType DEF ResolvedKeys
<1>4. resolved = ToSet(keys) <=> ~lost
  BY DEF ToSet, ResolvedKeys
<1>5. Cardinality(resolved) = Len(keys) <=> ~lost /\ IsInjective(keys)
  <2> HIDE DEF resolved, keys, lost
  <2>1. QED
    BY <1>2, <1>3, <1>4
<1>6. CASE Cardinality(resolved) # Len(keys)
  BY <1>5, <1>6 DEF Ideal
<1>7. CASE Cardinality(resolved) = Len(keys)
  <2>1. ~lost /\ IsInjective(keys) /\ resolved = ToSet(keys)
    BY <1>4, <1>5, <1>7
  <2>2. \A i \in DOMAIN keys : /\ ids[i] = CHOOSE d \in Resolved(s, keys[i]) : TRUE
                               /\ ids[i] \in Resolved(s, keys[i])
    BY <2>1 DEF ToSet, ResolvedIds, ResolvedKeys
  <2>3. \A i \in DOMAIN keys : Resolved(s, keys[i]) = {ids[i]} /\ ids[i] \in Public(s)
    <3> HIDE DEF ids, keys
    <3>1. QED
      BY <2>2, ResolvedDevices
  <2>4. ids \in Seq(Public(s)) /\ DOMAIN ids = DOMAIN keys
    <3>1. DOMAIN ids = DOMAIN keys /\ ids = [i \in DOMAIN keys |-> ids[i]]
      BY DEF ResolvedIds
    <3>2. DOMAIN keys = 1 .. Len(keys) /\ Len(keys) \in Nat
      BY <1>1
    <3> HIDE DEF ids, keys
    <3>3. ids \in [1 .. Len(keys) -> Public(s)]
      BY <2>3, <3>1, <3>2
    <3>4. QED
      BY <3>1, <3>2, <3>3
  <2>5. Cardinality(ToSet(ids)) = Len(ids) <=> IsInjective(ids)
    BY <2>4, ElementsOfSeq
  <2>6. IsInjective(ids) <=>
          ~ \E i, j \in DOMAIN keys : i # j /\ Resolved(s, keys[i]) = Resolved(s, keys[j])
    <3> HIDE DEF ids, keys
    <3>1. \A i, j \in DOMAIN keys :
            Resolved(s, keys[i]) = Resolved(s, keys[j]) <=> ids[i] = ids[j]
      BY <2>3
    <3>2. IsInjective(ids) <=> \A i, j \in DOMAIN keys : ids[i] = ids[j] => i = j
      BY <2>4 DEF IsInjective
    <3>3. QED
      BY <3>1, <3>2
  <2>7. [i \in DOMAIN keys |-> Shown(s, CHOOSE d \in Resolved(s, keys[i]) : TRUE)]
          = [i \in DOMAIN ids |-> Shown(s, ids[i])]
    <3>1. \A i \in DOMAIN keys :
            Shown(s, CHOOSE d \in Resolved(s, keys[i]) : TRUE) = Shown(s, ids[i])
      BY <2>2
    <3> HIDE DEF ids, keys
    <3>2. QED
      BY <2>4, <3>1
  <2>8. CASE ~IsInjective(ids)
    BY <2>1, <2>5, <2>6, <2>8, <1>7 DEF Ideal
  <2>9. CASE IsInjective(ids)
    <3>1. Ideal(s, q) = Success(q, [i \in DOMAIN keys |->
                          Shown(s, CHOOSE d \in Resolved(s, keys[i]) : TRUE)], 0)
      <4> HIDE DEF ids
      <4>1. QED
        BY <2>1, <2>6, <2>9 DEF Ideal
    <3>2. Decided(s, q, ids, 0)
      BY <2>4, <2>7, <3>1 DEF Decided
    <3>3. QED
      BY <1>7, <2>5, <2>9, <3>2
  <2>10. QED
    BY <2>8, <2>9
<1>8. QED
  BY <1>6, <1>7

LEMMA HomeDecided ==
  ASSUME NEW s, Sound(s), NEW q \in Questions, q.kind = "home"
  PROVE  Decided(s, q, FirstOf(Sorted(s, Public(s)), HomeSize), 0)
<1>1. Sorted(s, Public(s)) \in Seq(Public(s))
  BY ResolvedDevices, SortedRows
<1>2. FirstOf(Sorted(s, Public(s)), HomeSize) \in Seq(Public(s))
  BY <1>1, FirstRows, SizeAssumption
<1>3. QED
  BY <1>2 DEF Decided, Ideal

LEMMA ListDecided ==
  ASSUME NEW s, Sound(s), NEW q \in Questions, q.kind = "list"
  PROVE  Decided(s, q, Page(Sorted(s, Listed(s, q)), q.page), Cardinality(Listed(s, q)))
<1>1. Listed(s, q) \subseteq Public(s)
  BY DEF Listed, ListedPublic
<1>2. Sorted(s, Listed(s, q)) \in Seq(Listed(s, q))
  BY <1>1, ResolvedDevices, SortedRows
<1>3. Page(Sorted(s, Listed(s, q)), q.page) \in Seq(Listed(s, q))
  BY <1>2, PageRows, QuestionFields
<1>4. Page(Sorted(s, Listed(s, q)), q.page) \in Seq(Public(s))
  BY <1>1, <1>3
<1>5. QED
  BY <1>4 DEF Decided, Ideal

(***************************************************************************)
(* The writes keep the catalogue sound and lose no device.                 *)
(***************************************************************************)
LEMMA InitWrites == Init => WritesInv
<1> SUFFICES ASSUME Init PROVE WritesInv
  OBVIOUS
<1>1. Writes!Init
  BY DEF Init
<1>2. pending \in [Requests -> {NoOp} \cup [target : Devices \cup {NoDevice},
                                            payload : Payloads]]
  BY <1>1 DEF Writes!Init
<1>3. Catalogue \in Catalogues
  BY <1>1, DevicesAssumption DEF Writes!Init, Catalogue, Catalogues
<1>4. \A d, e \in Devices :
        d # e /\ dev[d] # NoDevice /\ dev[e] # NoDevice =>
          ClaimedKeys(dev[d]) \cap ClaimedKeys(dev[e]) = {}
  BY <1>1, DevicesAssumption DEF Writes!Init
<1>5. \A d \in Devices : dev[d] # NoDevice => brandName[dev[d].brand] # NoBrand
  BY <1>1 DEF Writes!Init, Writes!Stored
<1>6. Catalogue.dev = dev /\ Catalogue.brandName = brandName
  BY DEF Catalogue
<1>7. QED
  BY <1>2, <1>3, <1>4, <1>5, <1>6 DEF WritesInv, Sound

LEMMA PutWrites ==
  ASSUME WritesInv, NEW r \in Requests, NEW d \in Devices, Writes!Put(r, d)
  PROVE  WritesInv' /\ \A e \in Devices : dev[e] # NoDevice => dev'[e] # NoDevice
<1> DEFINE p == pending[r].payload
<1>1. pending[r] \in [target : Devices \cup {NoDevice}, payload : Payloads]
  BY DEF Writes!Put, WritesInv
<1>2. p \in Payloads /\ p # NoDevice
  BY <1>1, NullAssumption
<1>3. p.brand \in Brands /\ p.brandName \in BrandNames /\ p.brandName # NoBrand
  BY <1>2, PayloadFields, NullAssumption
<1>4. /\ dev \in [Devices -> Payloads \cup {NoDevice}]
      /\ brandName \in [Brands -> BrandNames \cup {NoBrand}]
      /\ \A e, f \in Devices :
           e # f /\ dev[e] # NoDevice /\ dev[f] # NoDevice =>
             ClaimedKeys(dev[e]) \cap ClaimedKeys(dev[f]) = {}
      /\ \A e \in Devices : dev[e] # NoDevice => brandName[dev[e].brand] # NoBrand
  BY DEF WritesInv, Sound, Catalogue, Catalogues
<1>5. /\ dev' = [dev EXCEPT ![d] = p]
      /\ brandName' = [brandName EXCEPT ![p.brand] = p.brandName]
      /\ pending' = pending
      /\ \A e \in Devices \ {d} :
           dev[e] # NoDevice => ClaimedKeys(dev[e]) \cap ClaimedKeys(p) = {}
  BY DEF Writes!Put, Writes!Conflicts, Writes!Stored, Writes!ClaimedKeys, ClaimedKeys
<1> HIDE DEF p
<1>6. \A e \in Devices : dev'[e] = IF e = d THEN p ELSE dev[e]
  BY <1>4, <1>5
<1>7. \A e, f \in Devices :
        e # f /\ dev'[e] # NoDevice /\ dev'[f] # NoDevice =>
          ClaimedKeys(dev'[e]) \cap ClaimedKeys(dev'[f]) = {}
  BY <1>4, <1>5, <1>6
<1>8. \A b \in Brands : brandName[b] # NoBrand \/ b = p.brand => brandName'[b] # NoBrand
  BY <1>3, <1>4, <1>5
<1>9. \A e \in Devices : dev'[e] # NoDevice => brandName'[dev'[e].brand] # NoBrand
  <2>1. ASSUME NEW e \in Devices, dev'[e] # NoDevice
        PROVE  brandName'[dev'[e].brand] # NoBrand
    <3>1. CASE e = d
      BY <3>1, <1>3, <1>6, <1>8
    <3>2. CASE e # d
      <4>1. dev'[e] = dev[e] /\ dev[e] \in Payloads
        BY <2>1, <3>2, <1>4, <1>6
      <4>2. dev[e].brand \in Brands
        BY <4>1, PayloadFields
      <4>3. QED
        BY <2>1, <4>1, <4>2, <1>4, <1>8
    <3>3. QED
      BY <3>1, <3>2
  <2>2. QED
    BY <2>1
<1>10. /\ dev' \in [Devices -> Payloads \cup {NoDevice}]
       /\ brandName' \in [Brands -> BrandNames \cup {NoBrand}]
  BY <1>2, <1>3, <1>4, <1>5
<1>11. Sound(Catalogue)'
  BY <1>7, <1>9, <1>10 DEF Sound, Catalogue, Catalogues
<1>12. QED
  BY <1>2, <1>5, <1>6, <1>11 DEF WritesInv

LEMMA WritesStep ==
  ASSUME WritesInv, Writes!Next
  PROVE  WritesInv' /\ \A e \in Devices : dev[e] # NoDevice => dev'[e] # NoDevice
<1> USE DEF WritesInv
<1>1. ASSUME NEW r \in Requests, NEW target \in Devices \cup {NoDevice},
             NEW payload \in Payloads, Writes!Submit(r, target, payload)
      PROVE  WritesInv' /\ dev' = dev
  BY <1>1 DEF Writes!Submit, Catalogue, Sound, Catalogues
<1>2. ASSUME NEW r \in Requests, Writes!Acknowledge(r)
      PROVE  WritesInv' /\ dev' = dev
  BY <1>2 DEF Writes!Acknowledge, Catalogue, Sound, Catalogues
<1>3. ASSUME NEW r \in Requests, NEW status, Writes!Refuse(r, status)
      PROVE  WritesInv' /\ dev' = dev
  BY <1>3 DEF Writes!Refuse, Catalogue, Sound, Catalogues
<1>4. ASSUME NEW r \in Requests, NEW status, Writes!GiveUp(r, status)
      PROVE  WritesInv' /\ dev' = dev
  BY <1>4 DEF Writes!GiveUp, Catalogue, Sound, Catalogues
<1>5. ASSUME NEW r \in Requests, Writes!Drop(r)
      PROVE  WritesInv' /\ dev' = dev
  BY <1>5 DEF Writes!Drop, Catalogue, Sound, Catalogues
<1>6. ASSUME NEW b \in Brands, Writes!DeleteBrand(b)
      PROVE  WritesInv' /\ dev' = dev
  BY <1>6 DEF Writes!DeleteBrand, Writes!Stored, Catalogue, Sound, Catalogues
<1>7. QED
  BY <1>1, <1>2, <1>3, <1>4, <1>5, <1>6, PutWrites DEF Writes!Next

(***************************************************************************)
(* The steps of one reader leave the writes and the other readers alone.   *)
(***************************************************************************)
PublicAnswer(at, q, response) ==
  q.kind \in PublicKinds => \E i \in DOMAIN at : response = Ideal(at[i], q)

ListAnswer(at, q, response) ==
  q.kind = "admin_list" =>
    \E i, j, k \in DOMAIN at :
      LET ids == Page(Sorted(at[j], Listed(at[j], q)), q.page)
      IN  /\ i <= j /\ j <= k
          /\ response =
               Success(q, [n \in DOMAIN ids |->
                             [Shown(at[j], ids[n]) EXCEPT
                                !.names = at[k].dev[ids[n]].names]],
                       Cardinality(Listed(at[i], q)))

DetailAnswer(at, q, response) ==
  q.kind \in {"by_id", "by_slug"} =>
    \E h, i, j, k \in DOMAIN at :
      LET ids  == Wants(at[h], q)
          gone == \A d \in ids : at[i].dev[d] = NoDevice
      IN  /\ h <= i /\ i <= j /\ j <= k
          /\ IF gone THEN response = Failure("404")
             ELSE \E d \in ids :
                    response =
                      Success(q, <<[Shown(at[i], d) EXCEPT
                                      !.names = at[j].dev[d].names,
                                      !.checked = at[k].dev[d].checked]>>, 0)

Answers(r) ==
  reply[r] # NoReply =>
    /\ PublicAnswer(since[r], question[r], reply[r])
    /\ ListAnswer(since[r], question[r], reply[r])
    /\ DetailAnswer(since[r], question[r], reply[r])

LEMMA AnswersAre ==
  /\ PublicReadsAtomic /\ AdminReadsMoveForward <=> \A r \in Readers : Answers(r)
  /\ PublicReadsAtomic' /\ AdminReadsMoveForward' <=> \A r \in Readers : Answers(r)'
<1>1. PublicReadsAtomic <=>
        \A r \in Readers : reply[r] # NoReply => PublicAnswer(since[r], question[r], reply[r])
  BY DEF PublicReadsAtomic, PublicAnswer, AnsweredTo, Answered, Seen, ToSet
<1>2. AdminReadsMoveForward <=>
        \A r \in Readers : reply[r] # NoReply =>
          /\ ListAnswer(since[r], question[r], reply[r])
          /\ DetailAnswer(since[r], question[r], reply[r])
  BY DEF AdminReadsMoveForward, ListAnswer, DetailAnswer, AnsweredTo, Answered, Wants
<1>3. PublicReadsAtomic' <=>
        \A r \in Readers : reply'[r] # NoReply => PublicAnswer(since'[r], question'[r], reply'[r])
  BY DEF PublicReadsAtomic, PublicAnswer, AnsweredTo, Answered, Seen, ToSet
<1>4. AdminReadsMoveForward' <=>
        \A r \in Readers : reply'[r] # NoReply =>
          /\ ListAnswer(since'[r], question'[r], reply'[r])
          /\ DetailAnswer(since'[r], question'[r], reply'[r])
  BY DEF AdminReadsMoveForward, ListAnswer, DetailAnswer, AnsweredTo, Answered, Wants
<1>5. QED
  BY <1>1, <1>2, <1>3, <1>4 DEF Answers

Same(o) ==
  /\ question'[o] = question[o] /\ step'[o] = step[o]
  /\ snapshot'[o] = snapshot[o] /\ found'[o] = found[o]
  /\ rows'[o] = rows[o] /\ total'[o] = total[o]
  /\ reply'[o] = reply[o] /\ since'[o] = since[o]

LEMMA SameReader ==
  ASSUME UNCHANGED writes, NEW o \in Readers, Same(o),
         History(o), Progress(o), Answers(o)
  PROVE  History(o)' /\ Progress(o)' /\ Answers(o)'
<1>1. Catalogue' = Catalogue /\ dev' = dev
  BY DEF writes, Catalogue
<1>2. History(o)'
  BY <1>1 DEF Same, History
<1>3. PublicProgress(o) => PublicProgress(o)'
  BY <1>1 DEF Same, PublicProgress
<1>4. AdminProgress(o) => AdminProgress(o)'
  BY <1>1 DEF Same, AdminProgress
<1>5. Progress(o)'
  BY <1>3, <1>4 DEF Same, Progress
<1>6. Answers(o)'
  BY DEF Same, Answers
<1>7. QED
  BY <1>2, <1>5, <1>6

LEMMA ReaderStep ==
  ASSUME IInv, NEW r \in Readers, UNCHANGED writes,
         \A o \in Readers \ {r} : Same(o),
         Types', History(r)', Progress(r)', Answers(r)'
  PROVE  IInv'
<1>1. WritesInv'
  BY DEF IInv, WritesInv, writes, Catalogue
<1>2. \A o \in Readers : History(o) /\ Progress(o) /\ Answers(o)
  BY AnswersAre DEF IInv
<1>3. \A o \in Readers : History(o)' /\ Progress(o)' /\ Answers(o)'
  BY <1>2, SameReader
<1>4. PublicReadsAtomic' /\ AdminReadsMoveForward'
  BY <1>3, AnswersAre
<1>5. QED
  BY <1>1, <1>3, <1>4 DEF IInv

(* What is known of a reader whose request is open.                        *)
LEMMA OpenReader ==
  ASSUME IInv, NEW r \in Readers, step[r] # "idle"
  PROVE  /\ since[r] \in Seq(Catalogues)
         /\ Len(since[r]) \in DOMAIN since[r]
         /\ since[r][Len(since[r])] = Catalogue
         /\ \A i \in DOMAIN since[r] : Sound(since[r][i])
         /\ Sound(Catalogue)
         /\ question[r] \in Questions
         /\ reply[r] = NoReply
         /\ PublicProgress(r) /\ AdminProgress(r)
<1>1. History(r) /\ Progress(r) /\ since[r] \in Seq(Catalogues)
  BY DEF IInv, Types
<1>2. since[r] # <<>>
  BY <1>1 DEF History
<1>3. Len(since[r]) \in DOMAIN since[r]
  BY <1>1, <1>2
<1>4. QED
  BY <1>1, <1>2, <1>3 DEF History, Progress

(* A query that is not the last one.                                       *)
LEMMA Advances ==
  ASSUME IInv, NEW r \in Readers, step[r] # "idle", step'[r] # "idle",
         UNCHANGED writes, UNCHANGED <<question, reply, since>>,
         \A o \in Readers \ {r} : Same(o), Types', Progress(r)'
  PROVE  IInv'
<1>1. History(r)' /\ Answers(r)'
  BY OpenReader DEF History, Answers, IInv, writes, Catalogue
<1>2. QED
  BY <1>1, ReaderStep

(* The last one sends the response.                                        *)
LEMMA Sends ==
  ASSUME IInv, NEW r \in Readers, step[r] # "idle",
         NEW response \in Response, Send(r, response),
         PublicAnswer(since[r], question[r], response),
         ListAnswer(since[r], question[r], response),
         DetailAnswer(since[r], question[r], response)
  PROVE  IInv'
<1>1. Types'
  <2>1. <<>> \in Seq(Devices) /\ <<>> \in Seq(DeviceWriteRequest)
    OBVIOUS
  <2>2. 0 \in 0 .. Cardinality(Devices)
    BY DevicesAssumption, FS_CardinalityType
  <2>3. QED
    BY <2>1, <2>2 DEF IInv, Types, Send
<1>2. /\ step'[r] = "idle" /\ snapshot'[r] = NoSnapshot /\ found'[r] = <<>>
      /\ reply'[r] = response /\ question' = question /\ since' = since
      /\ UNCHANGED writes
      /\ \A o \in Readers \ {r} : Same(o)
  BY DEF IInv, Types, Send, Same
<1>3. History(r)'
  BY <1>2, OpenReader DEF History, writes, Catalogue, IInv
<1>4. Progress(r)'
  BY <1>2 DEF Progress
<1>5. Answers(r)'
  BY <1>2 DEF Answers
<1>6. QED
  BY <1>1, <1>2, <1>3, <1>4, <1>5, ReaderStep

(* Responses are of their type.                                            *)
LEMMA Responses ==
  /\ \A status \in {"400", "404", "500"} : Failure(status) \in Response
  /\ \A q : \A n \in Nat : \A devices \in Seq(DeviceWriteRequest) :
       Success(q, devices, n) \in Response
<1>1. \A status \in {"400", "404", "500"} : Failure(status) \in Response
  BY DEF Failure, Response
<1>2. ASSUME NEW q, NEW n \in Nat, NEW devices \in Seq(DeviceWriteRequest)
      PROVE  Success(q, devices, n) \in Response
  <2>1. \A i \in DOMAIN devices : devices[i].slug \in Keys
    <3>1. \A i \in DOMAIN devices : devices[i] \in DeviceWriteRequest
      OBVIOUS
    <3>2. \A p \in DeviceWriteRequest : p.slug \in Keys
      BY DEF DeviceWriteRequest
    <3>3. QED
      BY <3>1, <3>2
  <2>2. ComparisonPath(devices) \in Seq(Keys)
    BY <2>1 DEF ComparisonPath
  <2>3. QED
    BY <2>2 DEF Success, Response
<1>3. QED
  BY <1>1, <1>2

LEMMA ShownRows ==
  ASSUME NEW s, Sound(s), NEW ids \in Seq(Devices),
         \A i \in DOMAIN ids : s.dev[ids[i]] # NoDevice
  PROVE  /\ ShownAll(s, ids) \in Seq(DeviceWriteRequest)
         /\ DOMAIN ShownAll(s, ids) = DOMAIN ids
         /\ \A i \in DOMAIN ids : ShownAll(s, ids)[i] = Shown(s, ids[i])
<1>1. \A i \in DOMAIN ids : Shown(s, ids[i]) \in DeviceWriteRequest
  BY ShownDevice
<1>2. QED
  BY <1>1 DEF ShownAll

(***************************************************************************)
(* The requests keep the invariant, query by query.                        *)
(***************************************************************************)
LEMMA AskKeeps ==
  ASSUME IInv, NEW r \in Readers, NEW q \in Questions, Ask(r, q)
  PROVE  IInv'
<1>1. /\ step[r] = "idle" /\ question'[r] = q /\ reply'[r] = NoReply
      /\ since'[r] = <<Catalogue>> /\ step'[r] = q.kind
      /\ snapshot'[r] = snapshot[r] /\ found'[r] = found[r]
      /\ UNCHANGED writes
      /\ \A o \in Readers \ {r} : Same(o)
  BY DEF IInv, Types, Ask, Same
<1>2. snapshot[r] = NoSnapshot /\ found[r] = <<>>
  BY <1>1 DEF IInv, Progress
<1>3. Sound(Catalogue) /\ Catalogue \in Catalogues /\ Catalogue' = Catalogue
  BY <1>1 DEF IInv, WritesInv, Sound, writes, Catalogue
<1>4. q.kind \in PublicKinds \cup AdminKinds /\ q.kind # "idle"
  BY QuestionFields DEF PublicKinds, AdminKinds
<1>5. Types'
  BY <1>3, <1>4 DEF IInv, Types, Ask
<1>6. History(r)'
  BY <1>1, <1>3 DEF History
<1>7. DOMAIN since'[r] = {1} /\ since'[r][1] = Catalogue
  BY <1>1
<1>8. PublicProgress(r)'
  BY <1>1, <1>2, <1>4 DEF PublicProgress, PublicKinds
<1>9. AdminProgress(r)'
  <2>1. ASSUME q.kind = "by_id"
        PROVE  Wants(Catalogue, q) = {IF <<>> = <<>> THEN q.device ELSE <<>>[1]}
    BY <2>1 DEF Wants
  <2>2. AdminParts(q, since'[r], dev', q.kind, NoSnapshot, <<>>, rows'[r], total'[r])
    BY <1>7, <2>1 DEF AdminParts, AdminKinds
  <2>3. QED
    BY <1>1, <1>2, <2>2 DEF AdminProgress
<1>10. Progress(r)' /\ Answers(r)'
  BY <1>1, <1>2, <1>4, <1>8, <1>9 DEF Progress, Answers
<1>11. QED
  BY <1>1, <1>5, <1>6, <1>10, ReaderStep

(* A public request that stands before its first query.                    *)
LEMMA BeforeFirst ==
  ASSUME IInv, NEW r \in Readers, step[r] \in PublicKinds
  PROVE  /\ step[r] # "idle" /\ question[r].kind = step[r]
         /\ question[r] \in Questions /\ Sound(Catalogue)
         /\ snapshot[r] = NoSnapshot /\ found[r] = <<>>
         /\ View(r) = Catalogue
<1>1. step[r] # "idle" /\ step[r] \notin AdminKinds
      /\ step[r] \notin {"page", "aliases", "admin_aliases", "admin_sources"}
  BY DEF PublicKinds, AdminKinds
<1>2. question[r].kind \in PublicKinds \cup AdminKinds
  BY <1>1, OpenReader, QuestionFields
<1>3. question[r].kind \notin AdminKinds
  BY <1>1, OpenReader DEF AdminProgress, AdminParts
<1>4. found[r] = <<>>
  BY <1>1 DEF IInv, Progress
<1>5. QED
  BY <1>1, <1>2, <1>3, <1>4, OpenReader DEF PublicProgress, View

(* An answer given in the first query.                                     *)
LEMMA FailsFirst ==
  ASSUME IInv, NEW r \in Readers, step[r] \in PublicKinds,
         NEW status \in {"400", "404"}, Send(r, Failure(status)),
         Ideal(Catalogue, question[r]) = Failure(status)
  PROVE  IInv'
<1>1. PublicAnswer(since[r], question[r], Failure(status))
  BY BeforeFirst, OpenReader DEF PublicAnswer
<1>2. question[r].kind \notin AdminKinds
  BY BeforeFirst DEF PublicKinds, AdminKinds
<1>3. /\ ListAnswer(since[r], question[r], Failure(status))
      /\ DetailAnswer(since[r], question[r], Failure(status))
  BY <1>2 DEF ListAnswer, DetailAnswer, AdminKinds
<1>4. QED
  BY <1>1, <1>3, BeforeFirst, Responses, Sends

LEMMA PublicDevices ==
  ASSUME NEW s, Sound(s), NEW ids \in Seq(Public(s))
  PROVE  /\ ids \in Seq(Devices)
         /\ \A i \in DOMAIN ids : s.dev[ids[i]] # NoDevice /\ s.dev[ids[i]].checked
<1>1. \A i \in DOMAIN ids : ids[i] \in Public(s)
  OBVIOUS
<1>2. QED
  BY <1>1, ResolvedDevices

(* The snapshot of a public request: the catalogue of its first query.     *)
LEMMA SelectKeeps ==
  ASSUME IInv, NEW r \in Readers, step[r] \in {"detail", "comparison", "home"},
         NEW ids, Select(r, ids), Decided(Catalogue, question[r], ids, 0)
  PROVE  IInv'
<1>1. /\ step[r] \in PublicKinds /\ question[r].kind \in PublicKinds
      /\ question[r].kind \notin AdminKinds /\ question[r].kind # "list"
      /\ step[r] # "idle"
  BY BeforeFirst DEF PublicKinds, AdminKinds
<1>2. Sound(Catalogue) /\ Catalogue \in Catalogues
  BY <1>1, BeforeFirst DEF Sound
<1>3. ids \in Seq(Devices)
  BY <1>2, PublicDevices DEF Decided
<1>4. /\ snapshot'[r] = Catalogue /\ found'[r] = ids /\ step'[r] = "rows"
      /\ UNCHANGED writes /\ UNCHANGED <<question, reply, since>>
      /\ \A o \in Readers \ {r} : Same(o)
  BY <1>1 DEF IInv, Types, Select, TakeSnapshot, Same
<1>5. Types'
  BY <1>1, <1>2, <1>3 DEF IInv, Types, Select, TakeSnapshot
<1>6. \E i \in DOMAIN since[r] : Catalogue = since[r][i]
  BY <1>1, OpenReader
<1>7. PublicProgress(r)'
  BY <1>1, <1>4, <1>6 DEF PublicProgress, PublicKinds
<1>8. AdminProgress(r)'
  BY <1>1, <1>4 DEF AdminProgress, AdminParts
<1>9. Progress(r)'
  BY <1>4, <1>7, <1>8 DEF Progress, PublicKinds, AdminKinds
<1>10. QED
  BY <1>1, <1>4, <1>5, <1>9, Advances

LEMMA ResolveIdentifierKeeps ==
  ASSUME IInv, NEW r \in Readers, ResolveIdentifier(r)
  PROVE  IInv'
<1>1. step[r] = "detail" /\ step[r] \in PublicKinds
  BY DEF ResolveIdentifier, PublicKinds
<1>2. /\ question[r] \in Questions /\ question[r].kind = "detail"
      /\ Sound(Catalogue)
  BY <1>1, BeforeFirst
<1>3. CASE Resolved(Catalogue, question[r].keys[1]) = {}
  <2>1. Ideal(Catalogue, question[r]) = Failure("404")
    BY <1>2, <1>3, DetailDecided
  <2>2. Send(r, Failure("404"))
    BY <1>3 DEF ResolveIdentifier
  <2>3. QED
    BY <1>1, <2>1, <2>2, FailsFirst
<1>4. CASE Resolved(Catalogue, question[r].keys[1]) # {}
  <2>1. Decided(Catalogue, question[r],
                SetToSeq(Resolved(Catalogue, question[r].keys[1])), 0)
    BY <1>2, <1>4, DetailDecided
  <2>2. Select(r, SetToSeq(Resolved(Catalogue, question[r].keys[1])))
    BY <1>4 DEF ResolveIdentifier
  <2>3. QED
    BY <1>1, <2>1, <2>2, SelectKeeps
<1>5. QED
  BY <1>3, <1>4

LEMMA ResolveIdentifiersKeeps ==
  ASSUME IInv, NEW r \in Readers, ResolveIdentifiers(r)
  PROVE  IInv'
<1> DEFINE q    == question[r]
           keys == ResolvedKeys(Catalogue, q)
           ids  == ResolvedIds(Catalogue, q)
<1>1. step[r] = "comparison" /\ step[r] \in PublicKinds
  BY DEF ResolveIdentifiers, PublicKinds
<1>2. /\ question[r] \in Questions /\ question[r].kind = "comparison"
      /\ Sound(Catalogue)
  BY <1>1, BeforeFirst
<1>3. IF Cardinality(keys) # Len(q.keys) THEN Ideal(Catalogue, q) = Failure("404")
      ELSE IF Cardinality(ToSet(ids)) # Len(ids) THEN Ideal(Catalogue, q) = Failure("400")
      ELSE Decided(Catalogue, q, ids, 0)
  BY <1>2, ComparisonDecided
<1>4. IF Cardinality(keys) # Len(q.keys) THEN Send(r, Failure("404"))
      ELSE IF Cardinality(ToSet(ids)) # Len(ids) THEN Send(r, Failure("400"))
      ELSE Select(r, ids)
  BY DEF ResolveIdentifiers, ResolvedKeys, ResolvedIds
<1>5. QED
  BY <1>1, <1>3, <1>4, FailsFirst, SelectKeeps

LEMMA SelectHomeKeeps ==
  ASSUME IInv, NEW r \in Readers, SelectHome(r)
  PROVE  IInv'
<1>1. step[r] = "home" /\ step[r] \in PublicKinds
  BY DEF SelectHome, PublicKinds
<1>2. QED
  BY <1>1, BeforeFirst, HomeDecided, SelectKeeps DEF SelectHome

(* Parts put into a row they came from leave it as it is.                  *)
LEMMA MergedRow ==
  ASSUME NEW p \in DeviceWriteRequest, NEW n \in SUBSET Names, NEW c \in BOOLEAN
  PROVE  /\ [p EXCEPT !.names = n] \in DeviceWriteRequest
         /\ [p EXCEPT !.names = n, !.checked = c] \in DeviceWriteRequest
         /\ [p EXCEPT !.names = p.names] = p
         /\ [p EXCEPT !.names = p.names, !.checked = p.checked] = p
         /\ [p EXCEPT !.checked = c] \in DeviceWriteRequest
BY DEF DeviceWriteRequest

LEMMA ShownMerges ==
  ASSUME NEW s, Sound(s), NEW d \in Devices, s.dev[d] # NoDevice
  PROVE  /\ [Shown(s, d) EXCEPT !.names = AliasRows(s, d)] = Shown(s, d)
         /\ [Shown(s, d) EXCEPT !.names = AliasRows(s, d),
                                !.checked = ChildRows(s, d)] = Shown(s, d)
<1> DEFINE p == Shown(s, d)
<1>1. p \in DeviceWriteRequest /\ p.names = AliasRows(s, d) /\ p.checked = ChildRows(s, d)
  BY ShownDevice DEF AliasRows, ChildRows
<1>2. p.names \in SUBSET Names /\ p.checked \in BOOLEAN
  BY <1>1 DEF DeviceWriteRequest
<1> HIDE DEF p
<1>3. /\ [p EXCEPT !.names = p.names] = p
      /\ [p EXCEPT !.names = p.names, !.checked = p.checked] = p
  BY <1>1, <1>2, MergedRow
<1>4. /\ [p EXCEPT !.names = AliasRows(s, d)] = p
      /\ [p EXCEPT !.names = AliasRows(s, d), !.checked = ChildRows(s, d)] = p
  BY <1>1, <1>3
<1>5. QED
  BY <1>4 DEF p

LEMMA ListedDevices ==
  ASSUME NEW s, Sound(s), NEW q
  PROVE  /\ Listed(s, q) \subseteq Devices
         /\ \A d \in Listed(s, q) : s.dev[d] # NoDevice
         /\ Cardinality(Listed(s, q)) \in 0 .. Cardinality(Devices)
         /\ Cardinality(Listed(s, q)) \in Nat
<1>1. /\ Listed(s, q) \subseteq Devices
      /\ \A d \in Listed(s, q) : s.dev[d] # NoDevice
  BY ResolvedDevices DEF Listed, ListedPublic, ListedAdmin
<1>2. QED
  BY <1>1, SortedRows

(* An admin request sees every query's own catalogue.                      *)
LEMMA AdminReader ==
  ASSUME IInv, NEW r \in Readers,
         \/ step[r] \in {"admin_list", "by_slug", "by_id", "admin_aliases",
                         "admin_sources"}
         \/ step[r] \in {"page", "aliases"} /\ question[r].kind # "list"
  PROVE  /\ step[r] # "idle" /\ question[r] \in Questions
         /\ question[r].kind \in AdminKinds /\ question[r].kind \notin PublicKinds
         /\ Sound(Catalogue)
         /\ snapshot[r] = NoSnapshot /\ View(r) = Catalogue
         /\ AdminParts(question[r], since[r], dev, step[r], NoSnapshot, found[r],
                       rows[r], total[r])
<1>1. step[r] # "idle" /\ step[r] \notin PublicKinds
  BY DEF PublicKinds, AdminKinds
<1>2. question[r].kind \in PublicKinds \cup AdminKinds
  BY <1>1, OpenReader, QuestionFields
<1>3. question[r].kind \notin PublicKinds
  BY <1>1, OpenReader DEF PublicProgress, PublicKinds, AdminKinds
<1>4. snapshot[r] = NoSnapshot
  BY <1>1, <1>2, <1>3, OpenReader DEF AdminProgress, AdminParts
<1>5. QED
  BY <1>1, <1>2, <1>3, <1>4, OpenReader DEF AdminProgress, View

(* A public request after its first query sees its snapshot.               *)
LEMMA PublicReader ==
  ASSUME IInv, NEW r \in Readers,
         \/ step[r] \in {"rows", "children"}
         \/ step[r] \in {"page", "aliases"} /\ question[r].kind = "list"
  PROVE  /\ step[r] # "idle" /\ question[r] \in Questions
         /\ question[r].kind \in PublicKinds /\ question[r].kind \notin AdminKinds
         /\ \E i \in DOMAIN since[r] : snapshot[r] = since[r][i]
         /\ Sound(snapshot[r]) /\ View(r) = snapshot[r]
         /\ PublicProgress(r)
<1>1. step[r] # "idle" /\ step[r] \notin PublicKinds
  BY DEF PublicKinds
<1>2. question[r].kind \in PublicKinds \cup AdminKinds
  BY <1>1, OpenReader, QuestionFields
<1>3. question[r].kind \notin AdminKinds
  BY <1>1, OpenReader DEF AdminProgress, AdminParts, AdminKinds
<1>4. \E i \in DOMAIN since[r] : snapshot[r] = since[r][i]
  BY <1>1, <1>2, <1>3, OpenReader DEF PublicProgress
<1>5. Sound(snapshot[r])
  BY <1>1, <1>4, OpenReader
<1>6. snapshot[r] # NoSnapshot
  BY <1>5, SnapshotAssumption DEF Sound, Catalogues
<1>7. QED
  BY <1>1, <1>2, <1>3, <1>4, <1>5, <1>6, OpenReader DEF View

LEMMA CountDevicesKeeps ==
  ASSUME IInv, NEW r \in Readers, CountDevices(r)
  PROVE  IInv'
<1> DEFINE q == question[r]
           count == Cardinality(Listed(Catalogue, q))
<1>1. /\ step[r] # "idle" /\ step'[r] = "page" /\ total'[r] = count
      /\ UNCHANGED writes /\ UNCHANGED <<question, reply, since>>
      /\ \A o \in Readers \ {r} : Same(o)
  BY DEF IInv, Types, CountDevices, TakeSnapshot, Same
<1>2. Sound(Catalogue) /\ Catalogue \in Catalogues
  BY <1>1, OpenReader DEF Sound
<1>3. count \in 0 .. Cardinality(Devices)
  BY <1>2, ListedDevices
<1>4. Types'
  BY <1>2, <1>3 DEF IInv, Types, CountDevices, TakeSnapshot
<1>5. CASE step[r] = "list"
  <2>1. /\ q.kind = "list" /\ q.kind \in PublicKinds /\ q.kind \notin AdminKinds
    BY <1>5, BeforeFirst DEF PublicKinds, AdminKinds
  <2>2. snapshot'[r] = Catalogue
    BY <2>1 DEF CountDevices, TakeSnapshot, IInv, Types
  <2>3. \E i \in DOMAIN since[r] : Catalogue = since[r][i]
    BY <1>1, OpenReader
  <2>4. PublicProgress(r)'
    BY <1>1, <2>1, <2>2, <2>3 DEF PublicProgress, PublicKinds
  <2>5. AdminProgress(r)'
    BY <1>1, <2>1 DEF AdminProgress, AdminParts
  <2>6. Progress(r)'
    BY <1>1, <2>4, <2>5 DEF Progress, PublicKinds, AdminKinds
  <2>7. QED
    BY <1>1, <1>4, <2>6, Advances
<1>6. CASE step[r] = "admin_list"
  <2>1. /\ q.kind \in AdminKinds /\ q.kind \notin PublicKinds
        /\ snapshot[r] = NoSnapshot /\ q.kind = "admin_list"
    <3>2. /\ q.kind \in AdminKinds /\ q.kind \notin PublicKinds
          /\ snapshot[r] = NoSnapshot
          /\ AdminParts(q, since[r], dev, step[r], NoSnapshot, found[r],
                        rows[r], total[r])
      BY <1>6, AdminReader
    <3>3. QED
      BY <1>6, <3>2 DEF AdminParts
  <2>2. snapshot'[r] = NoSnapshot
    BY <2>1 DEF CountDevices, TakeSnapshot
  <2>3. \E i \in DOMAIN since[r] : count = Cardinality(Listed(since[r][i], q))
    BY <1>1, OpenReader
  <2>4. PublicProgress(r)'
    BY <1>1, <2>1 DEF PublicProgress
  <2>5. AdminParts(q, since[r], dev', "page", NoSnapshot, found'[r], rows'[r], count)
    BY <2>1, <2>3 DEF AdminParts
  <2>6. AdminProgress(r)'
    BY <1>1, <2>2, <2>5 DEF AdminProgress
  <2>7. Progress(r)'
    BY <1>1, <2>4, <2>6 DEF Progress, PublicKinds, AdminKinds
  <2>8. QED
    BY <1>1, <1>4, <2>7, Advances
<1>7. QED
  BY <1>5, <1>6 DEF CountDevices

LEMMA SelectPageKeeps ==
  ASSUME IInv, NEW r \in Readers, SelectPage(r)
  PROVE  IInv'
<1> DEFINE q == question[r]
           s == View(r)
           ids == Page(Sorted(s, Listed(s, q)), q.page)
<1>1. step[r] = "page" /\ step[r] # "idle"
  BY DEF SelectPage
<1>2. Sound(s) /\ q \in Questions
  BY <1>1, AdminReader, PublicReader
<1>3. Sorted(s, Listed(s, q)) \in Seq(Listed(s, q))
  BY <1>2, ListedDevices, SortedRows
<1>4. ids \in Seq(Listed(s, q))
  BY <1>2, <1>3, PageRows, QuestionFields
<1>5. ids \in Seq(Devices) /\ \A i \in DOMAIN ids : s.dev[ids[i]] # NoDevice
  <2>1. \A i \in DOMAIN ids : ids[i] \in Listed(s, q)
    BY <1>4
  <2>2. QED
    BY <1>2, <1>4, <2>1, ListedDevices
<1>6. ShownAll(s, ids) \in Seq(DeviceWriteRequest)
  BY <1>2, <1>5, ShownRows
<1>7. /\ found' = [found EXCEPT ![r] = ids]
      /\ rows' = [rows EXCEPT ![r] = ShownAll(s, ids)]
      /\ step' = [step EXCEPT ![r] = "aliases"]
      /\ UNCHANGED writes /\ UNCHANGED <<question, snapshot, total, reply, since>>
  BY DEF SelectPage, ShownAll
<1> HIDE DEF ids, s
<1>8. /\ step'[r] = "aliases" /\ found'[r] = ids /\ rows'[r] = ShownAll(s, ids)
      /\ snapshot'[r] = snapshot[r] /\ total'[r] = total[r]
      /\ \A o \in Readers \ {r} : Same(o)
  BY <1>7 DEF IInv, Types, Same
<1>9. Types'
  BY <1>5, <1>6, <1>7 DEF IInv, Types
<1>10. CASE q.kind = "list"
  <2>1. /\ q.kind \in PublicKinds /\ q.kind \notin AdminKinds
        /\ s = snapshot[r] /\ PublicProgress(r)
        /\ \E i \in DOMAIN since[r] : snapshot[r] = since[r][i]
    BY <1>1, <1>10, PublicReader DEF s
  <2>2. total[r] = Cardinality(Listed(s, q))
    BY <1>1, <2>1 DEF PublicProgress
  <2>3. Decided(s, q, ids, total[r])
    BY <1>2, <1>10, <2>2, ListDecided DEF ids
  <2>4. PublicProgress(r)'
    BY <1>7, <1>8, <1>10, <2>1, <2>2, <2>3 DEF PublicProgress, PublicKinds
  <2>5. AdminProgress(r)'
    BY <1>7, <2>1 DEF AdminProgress, AdminParts
  <2>6. Progress(r)'
    BY <1>8, <2>4, <2>5 DEF Progress, PublicKinds, AdminKinds
  <2>7. QED
    BY <1>1, <1>7, <1>8, <1>9, <2>6, Advances
<1>11. CASE q.kind # "list"
  <2>1. /\ q.kind \in AdminKinds /\ q.kind \notin PublicKinds
        /\ snapshot[r] = NoSnapshot /\ s = Catalogue
        /\ AdminParts(q, since[r], dev, "page", NoSnapshot, found[r], rows[r], total[r])
    BY <1>1, <1>11, AdminReader DEF s
  <2>2. /\ q.kind = "admin_list"
        /\ \E i \in DOMAIN since[r] : total[r] = Cardinality(Listed(since[r][i], q))
    BY <2>1 DEF AdminParts
  <2>3. PICK i \in DOMAIN since[r] : total[r] = Cardinality(Listed(since[r][i], q))
    BY <2>2
  <2>4. /\ since[r] \in Seq(Catalogues)
        /\ Len(since[r]) \in DOMAIN since[r] /\ since[r][Len(since[r])] = s
    BY <1>1, <2>1, OpenReader
  <2>5. i <= Len(since[r])
    BY <2>4
  <2>6. dev' = dev /\ s.dev = dev
    BY <1>7, <2>1 DEF writes, Catalogue
  <2>7. AdminParts(q, since[r], dev', "aliases", NoSnapshot, ids, ShownAll(s, ids), total[r])
    <3>1. ids = Page(Sorted(s, Listed(s, q)), q.page)
      BY DEF ids
    <3>2. \A n \in DOMAIN ids : dev'[ids[n]] # NoDevice
      BY <1>5, <2>6
    <3>3. QED
      BY <2>2, <2>3, <2>4, <2>5, <3>1, <3>2 DEF AdminParts
  <2>8. AdminProgress(r)'
    BY <1>7, <1>8, <2>1, <2>7 DEF AdminProgress
  <2>9. PublicProgress(r)'
    BY <1>7, <2>1 DEF PublicProgress
  <2>10. Progress(r)'
    BY <1>8, <2>8, <2>9 DEF Progress, PublicKinds, AdminKinds
  <2>11. QED
    BY <1>1, <1>7, <1>8, <1>9, <2>10, Advances
<1>12. QED
  BY <1>10, <1>11

LEMMA LoadAliasesKeeps ==
  ASSUME IInv, NEW r \in Readers, LoadAliases(r)
  PROVE  IInv'
<1> DEFINE q == question[r]
           at == since[r]
           now == View(r)
           parts == [i \in DOMAIN rows[r] |->
                       [rows[r][i] EXCEPT !.names = AliasRows(now, found[r][i])]]
           response == Success(q, parts, total[r])
<1>1. step[r] = "aliases" /\ step[r] # "idle" /\ Send(r, response)
  BY DEF LoadAliases
<1>2. /\ q \in Questions /\ at \in Seq(Catalogues)
      /\ \A i \in DOMAIN at : Sound(at[i])
  BY <1>1, OpenReader
<1>3. total[r] \in Nat /\ found[r] \in Seq(Devices)
  BY DevicesAssumption, FS_CardinalityType DEF IInv, Types
<1>4. CASE q.kind = "list"
  <2>1. /\ q.kind \in PublicKinds /\ q.kind \notin AdminKinds
        /\ Sound(now) /\ now = snapshot[r] /\ PublicProgress(r)
        /\ \E i \in DOMAIN at : now = at[i]
    BY <1>1, <1>4, PublicReader
  <2>2. /\ Decided(now, q, found[r], total[r])
        /\ rows[r] = ShownAll(now, found[r])
    BY <1>1, <2>1 DEF PublicProgress
  <2>3. \A i \in DOMAIN found[r] : now.dev[found[r][i]] # NoDevice /\ found[r][i] \in Devices
    BY <1>3, <2>1, <2>2, PublicDevices DEF Decided
  <2>4. \A i \in DOMAIN found[r] :
          [Shown(now, found[r][i]) EXCEPT !.names = AliasRows(now, found[r][i])]
             = Shown(now, found[r][i])
    BY <2>1, <2>3, ShownMerges
  <2>5. /\ rows[r] \in Seq(DeviceWriteRequest) /\ DOMAIN rows[r] = DOMAIN found[r]
        /\ \A i \in DOMAIN found[r] : rows[r][i] = Shown(now, found[r][i])
    BY <1>3, <2>1, <2>2, <2>3, ShownRows
  <2>6. parts = ShownAll(now, found[r])
    <3> HIDE DEF now
    <3>1. QED
      BY <2>4, <2>5 DEF ShownAll
  <2> HIDE DEF parts
  <2>7. response = Ideal(now, q) /\ response \in Response
    BY <1>3, <2>2, <2>5, <2>6, Responses DEF Decided, ShownAll
  <2>8. PublicAnswer(at, q, response)
    BY <2>1, <2>7 DEF PublicAnswer
  <2>9. ListAnswer(at, q, response) /\ DetailAnswer(at, q, response)
    BY <2>1 DEF ListAnswer, DetailAnswer, AdminKinds
  <2>10. QED
    BY <1>1, <2>7, <2>8, <2>9, Sends
<1>5. CASE q.kind # "list"
  <2>1. /\ q.kind \in AdminKinds /\ q.kind \notin PublicKinds
        /\ now = Catalogue /\ Sound(now)
        /\ AdminParts(q, at, dev, "aliases", NoSnapshot, found[r], rows[r], total[r])
    BY <1>1, <1>5, AdminReader
  <2>2. q.kind = "admin_list"
    BY <2>1 DEF AdminParts
  <2>3. \A n \in DOMAIN found[r] : now.dev[found[r][n]] # NoDevice
    BY <2>1 DEF AdminParts, Catalogue
  <2>4. PICK i \in DOMAIN at, j \in DOMAIN at :
          /\ i <= j
          /\ total[r] = Cardinality(Listed(at[i], q))
          /\ found[r] = Page(Sorted(at[j], Listed(at[j], q)), q.page)
          /\ rows[r] = ShownAll(at[j], found[r])
    BY <2>1 DEF AdminParts
  <2>5. /\ Len(at) \in DOMAIN at /\ at[Len(at)] = now /\ j <= Len(at)
    BY <1>1, <1>2, <2>1, OpenReader
  <2>6. /\ rows[r] \in Seq(DeviceWriteRequest)
        /\ rows[r] = [n \in DOMAIN found[r] |-> Shown(at[j], found[r][n])]
        /\ DOMAIN rows[r] = DOMAIN found[r]
    BY <2>4 DEF IInv, Types, ShownAll
  <2>7. parts = [n \in DOMAIN found[r] |->
                   [Shown(at[j], found[r][n]) EXCEPT
                      !.names = now.dev[found[r][n]].names]]
    BY <2>6 DEF AliasRows
  <2>8. parts \in Seq(DeviceWriteRequest)
    <3>1. \A n \in DOMAIN found[r] : now.dev[found[r][n]].names \in SUBSET Names
      BY <1>3, <2>1, <2>3, StoredDiffer, PayloadFields
    <3>2. \A n \in DOMAIN rows[r] : rows[r][n] \in DeviceWriteRequest
      BY <2>6
    <3>3. \A n \in DOMAIN rows[r] : parts[n] \in DeviceWriteRequest
      BY <2>6, <3>1, <3>2, MergedRow DEF AliasRows
    <3>4. parts = [n \in DOMAIN rows[r] |-> parts[n]]
      OBVIOUS
    <3>5. DOMAIN rows[r] = 1 .. Len(rows[r]) /\ Len(rows[r]) \in Nat
      BY <2>6
    <3> HIDE DEF parts
    <3>6. parts \in [1 .. Len(rows[r]) -> DeviceWriteRequest]
      BY <3>3, <3>4, <3>5
    <3>7. QED
      BY <3>5, <3>6
  <2> HIDE DEF parts
  <2>9. response \in Response
    BY <1>3, <2>8, Responses
  <2>10. ListAnswer(at, q, response)
    <3>1. response = Success(q, [n \in DOMAIN found[r] |->
                                   [Shown(at[j], found[r][n]) EXCEPT
                                      !.names = at[Len(at)].dev[found[r][n]].names]],
                             Cardinality(Listed(at[i], q)))
      BY <2>4, <2>5, <2>7
    <3>2. QED
      BY <2>4, <2>5, <3>1 DEF ListAnswer
  <2>11. PublicAnswer(at, q, response) /\ DetailAnswer(at, q, response)
    BY <2>1, <2>2 DEF PublicAnswer, DetailAnswer
  <2>12. QED
    BY <1>1, <2>9, <2>10, <2>11, Sends
<1>6. QED
  BY <1>4, <1>5

LEMMA LoadRowsKeeps ==
  ASSUME IInv, NEW r \in Readers, LoadRows(r)
  PROVE  IInv'
<1> DEFINE s == snapshot[r]
<1>1. step[r] = "rows" /\ step[r] # "idle"
  BY DEF LoadRows
<1>2. /\ question[r].kind \in PublicKinds /\ question[r].kind \notin AdminKinds
      /\ Sound(s) /\ View(r) = s /\ PublicProgress(r)
  BY <1>1, PublicReader
<1>3. question[r].kind # "list" /\ Decided(s, question[r], found[r], 0)
  BY <1>1, <1>2 DEF PublicProgress
<1>4. found[r] \in Seq(Public(s)) /\ ToSet(found[r]) \subseteq Public(s)
  BY <1>3 DEF Decided, ToSet
<1>5. ShownAll(s, found[r]) \in Seq(DeviceWriteRequest)
  BY <1>2, <1>4, PublicDevices, ShownRows
<1>6. /\ rows' = [rows EXCEPT ![r] = ShownAll(s, found[r])]
      /\ step' = [step EXCEPT ![r] = "children"]
      /\ UNCHANGED writes
      /\ UNCHANGED <<question, snapshot, found, total, reply, since>>
  BY <1>2, <1>4 DEF LoadRows, ShownAll
<1>7. /\ step'[r] = "children" /\ rows'[r] = ShownAll(s, found[r])
      /\ \A o \in Readers \ {r} : Same(o)
  BY <1>6 DEF IInv, Types, Same
<1>8. Types'
  BY <1>5, <1>6 DEF IInv, Types
<1>9. PublicProgress(r)'
  BY <1>1, <1>2, <1>3, <1>6, <1>7 DEF PublicProgress, PublicKinds
<1>10. AdminProgress(r)'
  BY <1>2, <1>6 DEF AdminProgress, AdminParts
<1>11. Progress(r)'
  BY <1>7, <1>9, <1>10 DEF Progress, PublicKinds, AdminKinds
<1>12. QED
  BY <1>1, <1>6, <1>7, <1>8, <1>11, Advances

LEMMA LoadChildrenKeeps ==
  ASSUME IInv, NEW r \in Readers, LoadChildren(r)
  PROVE  IInv'
<1> DEFINE q == question[r]
           s == snapshot[r]
           parts == [i \in DOMAIN rows[r] |->
                       [rows[r][i] EXCEPT !.names = AliasRows(s, found[r][i]),
                                          !.checked = ChildRows(s, found[r][i])]]
           response == Success(q, parts, 0)
<1>1. step[r] = "children" /\ step[r] # "idle"
  BY DEF LoadChildren
<1>2. /\ q.kind \in PublicKinds /\ q.kind \notin AdminKinds
      /\ Sound(s) /\ View(r) = s /\ PublicProgress(r)
      /\ \E i \in DOMAIN since[r] : s = since[r][i]
  BY <1>1, PublicReader
<1>3. Decided(s, q, found[r], 0) /\ rows[r] = ShownAll(s, found[r])
  BY <1>1, <1>2 DEF PublicProgress
<1>4. /\ found[r] \in Seq(Devices)
      /\ \A i \in DOMAIN found[r] : /\ found[r][i] \in Devices
                                    /\ s.dev[found[r][i]] # NoDevice
                                    /\ s.dev[found[r][i]].checked
  BY <1>2, <1>3, PublicDevices DEF Decided
<1>5. Send(r, response)
  BY <1>2, <1>4 DEF LoadChildren, ChildRows
<1>6. /\ rows[r] \in Seq(DeviceWriteRequest) /\ DOMAIN rows[r] = DOMAIN found[r]
      /\ \A i \in DOMAIN found[r] : rows[r][i] = Shown(s, found[r][i])
  BY <1>2, <1>3, <1>4, ShownRows
<1>7. \A i \in DOMAIN found[r] :
        [Shown(s, found[r][i]) EXCEPT !.names = AliasRows(s, found[r][i]),
                                      !.checked = ChildRows(s, found[r][i])]
          = Shown(s, found[r][i])
  BY <1>2, <1>4, ShownMerges
<1>8. parts = ShownAll(s, found[r])
  <2> HIDE DEF s
  <2>1. QED
    BY <1>6, <1>7 DEF ShownAll
<1> HIDE DEF parts
<1>9. response = Ideal(s, q) /\ response \in Response
  BY <1>3, <1>6, <1>8, Responses DEF Decided, ShownAll
<1>10. PublicAnswer(since[r], q, response)
  BY <1>2, <1>9 DEF PublicAnswer
<1>11. ListAnswer(since[r], q, response) /\ DetailAnswer(since[r], q, response)
  BY <1>2 DEF ListAnswer, DetailAnswer, AdminKinds
<1>12. QED
  BY <1>1, <1>5, <1>9, <1>10, <1>11, Sends

LEMMA FindBySlugKeeps ==
  ASSUME IInv, NEW r \in Readers, FindBySlug(r)
  PROVE  IInv'
<1> DEFINE q   == question[r]
           at  == since[r]
           ids == WithSlug(Catalogue, q.keys[1])
<1>1. step[r] = "by_slug" /\ step[r] # "idle"
  BY DEF FindBySlug
<1>2. /\ q.kind \in AdminKinds /\ q.kind \notin PublicKinds
      /\ Sound(Catalogue) /\ snapshot[r] = NoSnapshot
      /\ AdminParts(q, at, dev, step[r], NoSnapshot, found[r], rows[r], total[r])
  BY <1>1, AdminReader
<1>3. q.kind = "by_slug"
  BY <1>1, <1>2 DEF AdminParts
<1>4. /\ at \in Seq(Catalogues) /\ Len(at) \in DOMAIN at /\ at[Len(at)] = Catalogue
  BY <1>1, OpenReader
<1>5. Wants(at[Len(at)], q) = ids
  BY <1>3, <1>4 DEF Wants, WithSlug
<1>6. CASE ids = {}
  <2>1. Send(r, Failure("404"))
    BY <1>6 DEF FindBySlug
  <2>2. DetailAnswer(at, q, Failure("404"))
    <3>1. \A d \in Wants(at[Len(at)], q) : at[Len(at)].dev[d] = NoDevice
      BY <1>5, <1>6
    <3>2. Len(at) <= Len(at)
      BY <1>4
    <3>3. QED
      BY <1>4, <3>1, <3>2 DEF DetailAnswer
  <2>3. PublicAnswer(at, q, Failure("404")) /\ ListAnswer(at, q, Failure("404"))
    BY <1>2, <1>3 DEF PublicAnswer, ListAnswer
  <2>4. QED
    BY <1>1, <2>1, <2>2, <2>3, Responses, Sends
<1>7. ASSUME NEW d \in ids
      PROVE  IInv'
  <2>1. ids = {d} /\ d \in Devices
    BY <1>2, <1>7, StoredDiffer DEF WithSlug
  <2>2. /\ found' = [found EXCEPT ![r] = <<d>>]
        /\ step' = [step EXCEPT ![r] = "by_id"]
        /\ UNCHANGED writes
        /\ UNCHANGED <<question, snapshot, rows, total, reply, since>>
    BY <1>7, <2>1, OneRow DEF FindBySlug
  <2>3. /\ found'[r] = <<d>> /\ step'[r] = "by_id"
        /\ \A o \in Readers \ {r} : Same(o)
    BY <2>2 DEF IInv, Types, Same
  <2>4. Types'
    BY <2>1, <2>2 DEF IInv, Types, AdminKinds
  <2>5. AdminParts(q, at, dev', "by_id", NoSnapshot, <<d>>, rows'[r], total'[r])
    <3>1. Wants(at[Len(at)], q) = {IF <<d>> = <<>> THEN q.device ELSE <<d>>[1]}
      BY <1>5, <2>1
    <3>2. QED
      BY <1>2, <1>3, <1>4, <3>1 DEF AdminParts, AdminKinds
  <2>6. AdminProgress(r)'
    BY <1>2, <2>2, <2>3, <2>5 DEF AdminProgress
  <2>7. PublicProgress(r)'
    BY <1>2, <2>2 DEF PublicProgress
  <2>8. Progress(r)'
    BY <2>3, <2>6, <2>7 DEF Progress, PublicKinds, AdminKinds
  <2>9. QED
    BY <1>1, <2>2, <2>3, <2>4, <2>8, Advances
<1>8. QED
  BY <1>6, <1>7

LEMMA LoadAdminRowKeeps ==
  ASSUME IInv, NEW r \in Readers, LoadAdminRow(r)
  PROVE  IInv'
<1> DEFINE q   == question[r]
           at  == since[r]
           d   == Wanted(r)
<1>1. step[r] = "by_id" /\ step[r] # "idle"
  BY DEF LoadAdminRow
<1>2. /\ q.kind \in AdminKinds /\ q.kind \notin PublicKinds /\ q \in Questions
      /\ Sound(Catalogue) /\ snapshot[r] = NoSnapshot
      /\ AdminParts(q, at, dev, step[r], NoSnapshot, found[r], rows[r], total[r])
  BY <1>1, AdminReader
<1>3. q.kind \in {"by_id", "by_slug"} /\ \E h \in DOMAIN at : Wants(at[h], q) = {d}
  BY <1>1, <1>2 DEF AdminParts, Wanted
<1>4. PICK h \in DOMAIN at : Wants(at[h], q) = {d}
  BY <1>3
<1>5. d \in Devices
  BY <1>2, <1>3, <1>4, QuestionFields DEF Wants
<1>6. /\ at \in Seq(Catalogues) /\ Len(at) \in DOMAIN at /\ at[Len(at)] = Catalogue
      /\ h <= Len(at) /\ Len(at) <= Len(at)
  BY <1>1, OpenReader
<1>7. Catalogue.dev = dev
  BY DEF Catalogue
<1> HIDE DEF d
<1>8. CASE dev[d] = NoDevice
  <2>1. Send(r, Failure("404"))
    BY <1>8 DEF LoadAdminRow, d
  <2>2. DetailAnswer(at, q, Failure("404"))
    <3>1. \A e \in Wants(at[h], q) : at[Len(at)].dev[e] = NoDevice
      BY <1>4, <1>6, <1>7, <1>8
    <3>2. QED
      BY <1>6, <3>1 DEF DetailAnswer
  <2>3. PublicAnswer(at, q, Failure("404")) /\ ListAnswer(at, q, Failure("404"))
    BY <1>2, <1>3 DEF PublicAnswer, ListAnswer
  <2>4. QED
    BY <1>1, <2>1, <2>2, <2>3, Responses, Sends
<1>9. CASE dev[d] # NoDevice
  <2>1. /\ found' = [found EXCEPT ![r] = <<d>>]
        /\ rows' = [rows EXCEPT ![r] = <<Shown(Catalogue, d)>>]
        /\ step' = [step EXCEPT ![r] = "admin_aliases"]
        /\ UNCHANGED writes
        /\ UNCHANGED <<question, snapshot, total, reply, since>>
    BY <1>9 DEF LoadAdminRow, d
  <2>2. /\ found'[r] = <<d>> /\ step'[r] = "admin_aliases"
        /\ rows'[r] = <<Shown(Catalogue, d)>>
        /\ \A o \in Readers \ {r} : Same(o)
    BY <2>1 DEF IInv, Types, Same
  <2>3. Shown(Catalogue, d) \in DeviceWriteRequest
    BY <1>2, <1>5, <1>7, <1>9, ShownDevice
  <2>4. Types'
    BY <1>5, <2>1, <2>3 DEF IInv, Types
  <2>5. dev' = dev
    BY <2>1 DEF writes
  <2>6. AdminParts(q, at, dev', "admin_aliases", NoSnapshot, <<d>>,
                   <<Shown(Catalogue, d)>>, total'[r])
    BY <1>2, <1>3, <1>4, <1>5, <1>6, <1>7, <1>9, <2>5 DEF AdminParts, AdminKinds
  <2>7. AdminProgress(r)'
    BY <1>2, <2>1, <2>2, <2>6 DEF AdminProgress
  <2>8. PublicProgress(r)'
    BY <1>2, <2>1 DEF PublicProgress
  <2>9. Progress(r)'
    BY <2>2, <2>7, <2>8 DEF Progress, PublicKinds, AdminKinds
  <2>10. QED
    BY <1>1, <2>1, <2>2, <2>4, <2>9, Advances
<1>10. QED
  BY <1>8, <1>9

LEMMA LoadAdminAliasesKeeps ==
  ASSUME IInv, NEW r \in Readers, LoadAdminAliases(r)
  PROVE  IInv'
<1> DEFINE q   == question[r]
           at  == since[r]
<1>1. step[r] = "admin_aliases" /\ step[r] # "idle"
  BY DEF LoadAdminAliases
<1>2. /\ q.kind \in AdminKinds /\ q.kind \notin PublicKinds
      /\ Sound(Catalogue) /\ snapshot[r] = NoSnapshot
      /\ AdminParts(q, at, dev, step[r], NoSnapshot, found[r], rows[r], total[r])
  BY <1>1, AdminReader
<1>3. q.kind \in {"by_id", "by_slug"}
  BY <1>1, <1>2 DEF AdminParts
<1>4. PICK d \in Devices, h \in DOMAIN at, i \in DOMAIN at :
        /\ h <= i
        /\ Wants(at[h], q) = {d} /\ found[r] = <<d>>
        /\ dev[d] # NoDevice /\ at[i].dev[d] # NoDevice
        /\ rows[r] = <<Shown(at[i], d)>>
  BY <1>1, <1>2 DEF AdminParts
<1>5. /\ at \in Seq(Catalogues) /\ Len(at) \in DOMAIN at /\ at[Len(at)] = Catalogue
      /\ i <= Len(at) /\ \A j \in DOMAIN at : Sound(at[j])
  BY <1>1, OpenReader
<1>6. Catalogue.dev = dev /\ dev[d].names \in SUBSET Names
  BY <1>2, <1>4, StoredDiffer, PayloadFields DEF Catalogue
<1> DEFINE row == [Shown(at[i], d) EXCEPT !.names = dev[d].names]
<1>7. Shown(at[i], d) \in DeviceWriteRequest
  BY <1>4, <1>5, ShownDevice
<1>8. row \in DeviceWriteRequest
  BY <1>6, <1>7, MergedRow
<1>9. /\ step' = [step EXCEPT ![r] = "admin_sources"]
      /\ UNCHANGED writes
      /\ UNCHANGED <<question, snapshot, found, total, reply, since>>
      /\ rows' = [rows EXCEPT ![r] = [rows[r] EXCEPT ![1] =
                                       [rows[r][1] EXCEPT !.names = dev[d].names]]]
  BY <1>4, <1>6 DEF LoadAdminAliases, AliasRows
<1>10. [rows[r] EXCEPT ![1] = [rows[r][1] EXCEPT !.names = dev[d].names]] = <<row>>
  BY <1>4
<1>11. rows' = [rows EXCEPT ![r] = <<row>>]
  BY <1>9, <1>10
<1>12. /\ step'[r] = "admin_sources" /\ rows'[r] = <<row>>
       /\ \A o \in Readers \ {r} : Same(o)
  BY <1>9, <1>11 DEF IInv, Types, Same
<1>13. Types'
  <2>1. <<row>> \in Seq(DeviceWriteRequest)
    BY <1>8
  <2> HIDE DEF row
  <2>2. QED
    BY <2>1, <1>9, <1>11 DEF IInv, Types
<1>14. dev' = dev /\ row = [Shown(at[i], d) EXCEPT !.names = at[Len(at)].dev[d].names]
  BY <1>5, <1>6, <1>9 DEF writes
<1> HIDE DEF row
<1>15. AdminParts(q, at, dev', "admin_sources", NoSnapshot, found[r], <<row>>, total'[r])
  BY <1>2, <1>3, <1>4, <1>5, <1>14 DEF AdminParts, AdminKinds
<1>16. AdminProgress(r)'
  BY <1>2, <1>9, <1>12, <1>15 DEF AdminProgress
<1>17. PublicProgress(r)'
  BY <1>2, <1>9 DEF PublicProgress
<1>18. Progress(r)'
  BY <1>12, <1>16, <1>17 DEF Progress, PublicKinds, AdminKinds
<1>19. QED
  BY <1>1, <1>9, <1>12, <1>13, <1>18, Advances

LEMMA LoadAdminSourcesKeeps ==
  ASSUME IInv, NEW r \in Readers, LoadAdminSources(r)
  PROVE  IInv'
<1> DEFINE q   == question[r]
           at  == since[r]
<1>1. step[r] = "admin_sources" /\ step[r] # "idle"
  BY DEF LoadAdminSources
<1>2. /\ q.kind \in AdminKinds /\ q.kind \notin PublicKinds
      /\ Sound(Catalogue) /\ snapshot[r] = NoSnapshot
      /\ AdminParts(q, at, dev, step[r], NoSnapshot, found[r], rows[r], total[r])
  BY <1>1, AdminReader
<1>3. q.kind \in {"by_id", "by_slug"}
  BY <1>1, <1>2 DEF AdminParts
<1>4. PICK d \in Devices, h \in DOMAIN at, i \in DOMAIN at, j \in DOMAIN at :
        /\ h <= i /\ i <= j
        /\ Wants(at[h], q) = {d} /\ found[r] = <<d>>
        /\ dev[d] # NoDevice /\ at[i].dev[d] # NoDevice
        /\ rows[r] = <<[Shown(at[i], d) EXCEPT !.names = at[j].dev[d].names]>>
  BY <1>1, <1>2 DEF AdminParts
<1>5. /\ at \in Seq(Catalogues) /\ Len(at) \in DOMAIN at /\ at[Len(at)] = Catalogue
      /\ j <= Len(at)
  BY <1>1, OpenReader
<1>6. Catalogue.dev = dev /\ dev[d].checked \in BOOLEAN
  BY <1>2, <1>4, StoredDiffer, PayloadFields DEF Catalogue
<1> DEFINE row == [rows[r][1] EXCEPT !.checked = dev[d].checked]
<1>7. rows[r][1] \in DeviceWriteRequest
  <2>1. rows[r] \in Seq(DeviceWriteRequest)
    BY DEF IInv, Types
  <2>2. Len(rows[r]) = 1
    BY <1>4
  <2>3. QED
    BY <2>1, <2>2
<1>8. row \in DeviceWriteRequest
  <2>1. rows[r][1].names \in SUBSET Names
    BY <1>7 DEF DeviceWriteRequest
  <2>2. QED
    BY <1>6, <1>7, <2>1, MergedRow
<1>9. Send(r, Success(q, <<row>>, 0))
  BY <1>4, <1>6 DEF LoadAdminSources, ChildRows
<1>10. row = [Shown(at[i], d) EXCEPT !.names = at[j].dev[d].names,
                                     !.checked = at[Len(at)].dev[d].checked]
  BY <1>4, <1>5, <1>6
<1> HIDE DEF row
<1>11. Success(q, <<row>>, 0) \in Response
  <2>1. <<row>> \in Seq(DeviceWriteRequest) /\ 0 \in Nat
    BY <1>8
  <2>2. QED
    BY <2>1, Responses
<1>12. DetailAnswer(at, q, Success(q, <<row>>, 0))
  <2>1. ~ \A e \in Wants(at[h], q) : at[i].dev[e] = NoDevice
    BY <1>4
  <2>2. QED
    BY <1>4, <1>5, <1>10, <2>1 DEF DetailAnswer
<1>13. /\ PublicAnswer(at, q, Success(q, <<row>>, 0))
       /\ ListAnswer(at, q, Success(q, <<row>>, 0))
  BY <1>2, <1>3 DEF PublicAnswer, ListAnswer
<1>14. QED
  BY <1>1, <1>9, <1>11, <1>12, <1>13, Sends

(***************************************************************************)
(* A write lengthens the histories and takes nothing from them.            *)
(***************************************************************************)
LEMMA PartsRemain ==
  ASSUME NEW q, NEW at, NEW after, NEW now, NEW then, NEW st, NEW snap,
         NEW ids \in Seq(Devices), NEW parts, NEW count,
         AdminParts(q, at, now, st, snap, ids, parts, count),
         \A i \in DOMAIN at : i \in DOMAIN after /\ after[i] = at[i],
         \A d \in Devices : now[d] # NoDevice => then[d] # NoDevice
  PROVE  AdminParts(q, after, then, st, snap, ids, parts, count)
<1> SUFFICES ASSUME q.kind \in AdminKinds
             PROVE  AdminParts(q, after, then, st, snap, ids, parts, count)
  BY DEF AdminParts
<1>1. st = "page" => \E i \in DOMAIN after : count = Cardinality(Listed(after[i], q))
  BY DEF AdminParts
<1>2. st = "aliases" =>
        /\ \A n \in DOMAIN ids : then[ids[n]] # NoDevice
        /\ \E i, j \in DOMAIN after :
             /\ i <= j
             /\ count = Cardinality(Listed(after[i], q))
             /\ ids = Page(Sorted(after[j], Listed(after[j], q)), q.page)
             /\ parts = ShownAll(after[j], ids)
  <2>1. ASSUME st = "aliases"
        PROVE  \A n \in DOMAIN ids : then[ids[n]] # NoDevice
    <3>1. \A n \in DOMAIN ids : ids[n] \in Devices
      OBVIOUS
    <3>2. QED
      BY <2>1, <3>1 DEF AdminParts
  <2>2. ASSUME st = "aliases"
        PROVE  \E i, j \in DOMAIN after :
                 /\ i <= j
                 /\ count = Cardinality(Listed(after[i], q))
                 /\ ids = Page(Sorted(after[j], Listed(after[j], q)), q.page)
                 /\ parts = ShownAll(after[j], ids)
    <3>1. PICK i \in DOMAIN at, j \in DOMAIN at :
            /\ i <= j
            /\ count = Cardinality(Listed(at[i], q))
            /\ ids = Page(Sorted(at[j], Listed(at[j], q)), q.page)
            /\ parts = ShownAll(at[j], ids)
      BY <2>2 DEF AdminParts
    <3>2. after[i] = at[i] /\ after[j] = at[j] /\ i \in DOMAIN after /\ j \in DOMAIN after
      OBVIOUS
    <3>3. QED
      BY <3>1, <3>2
  <2>3. QED
    BY <2>1, <2>2
<1>3. st = "by_id" =>
        \E h \in DOMAIN after :
          Wants(after[h], q) = {IF ids = <<>> THEN q.device ELSE ids[1]}
  BY DEF AdminParts
<1>4. st = "admin_aliases" =>
        \E d \in Devices, h, i \in DOMAIN after :
          /\ h <= i
          /\ Wants(after[h], q) = {d} /\ ids = <<d>>
          /\ then[d] # NoDevice /\ after[i].dev[d] # NoDevice
          /\ parts = <<Shown(after[i], d)>>
  <2>1. SUFFICES ASSUME st = "admin_aliases"
                 PROVE  \E d \in Devices, h, i \in DOMAIN after :
                          /\ h <= i
                          /\ Wants(after[h], q) = {d} /\ ids = <<d>>
                          /\ then[d] # NoDevice /\ after[i].dev[d] # NoDevice
                          /\ parts = <<Shown(after[i], d)>>
    OBVIOUS
  <2>2. PICK d \in Devices, h \in DOMAIN at, i \in DOMAIN at :
          /\ h <= i
          /\ Wants(at[h], q) = {d} /\ ids = <<d>>
          /\ now[d] # NoDevice /\ at[i].dev[d] # NoDevice
          /\ parts = <<Shown(at[i], d)>>
    BY <2>1 DEF AdminParts
  <2>3. /\ after[h] = at[h] /\ after[i] = at[i] /\ h \in DOMAIN after
        /\ i \in DOMAIN after /\ then[d] # NoDevice
    BY <2>2
  <2>4. QED
    BY <2>2, <2>3
<1>5. st = "admin_sources" =>
        \E d \in Devices, h, i, j \in DOMAIN after :
          /\ h <= i /\ i <= j
          /\ Wants(after[h], q) = {d} /\ ids = <<d>>
          /\ then[d] # NoDevice /\ after[i].dev[d] # NoDevice
          /\ parts = <<[Shown(after[i], d) EXCEPT !.names = after[j].dev[d].names]>>
  <2>1. SUFFICES ASSUME st = "admin_sources"
                 PROVE  \E d \in Devices, h, i, j \in DOMAIN after :
                          /\ h <= i /\ i <= j
                          /\ Wants(after[h], q) = {d} /\ ids = <<d>>
                          /\ then[d] # NoDevice /\ after[i].dev[d] # NoDevice
                          /\ parts = <<[Shown(after[i], d) EXCEPT
                                          !.names = after[j].dev[d].names]>>
    OBVIOUS
  <2>2. PICK d \in Devices, h \in DOMAIN at, i \in DOMAIN at, j \in DOMAIN at :
          /\ h <= i /\ i <= j
          /\ Wants(at[h], q) = {d} /\ ids = <<d>>
          /\ now[d] # NoDevice /\ at[i].dev[d] # NoDevice
          /\ parts = <<[Shown(at[i], d) EXCEPT !.names = at[j].dev[d].names]>>
    BY <2>1 DEF AdminParts
  <2>3. /\ after[h] = at[h] /\ after[i] = at[i] /\ after[j] = at[j]
        /\ h \in DOMAIN after /\ i \in DOMAIN after /\ j \in DOMAIN after
        /\ then[d] # NoDevice
    BY <2>2
  <2>4. QED
    BY <2>2, <2>3
<1>6. QED
  BY <1>1, <1>2, <1>3, <1>4, <1>5 DEF AdminParts

LEMMA WriteStepKeeps ==
  ASSUME IInv, WriteStep
  PROVE  IInv'
<1>1. /\ WritesInv' /\ Sound(Catalogue)' /\ Catalogue' \in Catalogues
      /\ \A d \in Devices : dev[d] # NoDevice => dev'[d] # NoDevice
  BY WritesStep DEF IInv, WriteStep, WritesInv, Sound
<1>2. /\ since' = [r \in Readers |->
                     IF step[r] = "idle" THEN <<>>
                     ELSE IF since[r][Len(since[r])] = Catalogue' THEN since[r]
                     ELSE Append(since[r], Catalogue')]
      /\ question' = [r \in Readers |-> IF step[r] # "idle" THEN question[r] ELSE NoQuestion]
      /\ reply' = [r \in Readers |-> IF step[r] # "idle" THEN reply[r] ELSE NoReply]
      /\ UNCHANGED <<step, snapshot, found, rows, total>>
  BY DEF WriteStep, Last
<1>3. Types'
  <2>1. \A r \in Readers : since'[r] \in Seq(Catalogues)
    BY <1>1, <1>2 DEF IInv, Types
  <2>2. since' \in [Readers -> Seq(Catalogues)]
    BY <1>2, <2>1
  <2>3. QED
    BY <1>2, <2>2 DEF IInv, Types
<1>4. ASSUME NEW r \in Readers, step[r] = "idle"
      PROVE  History(r)' /\ Progress(r)' /\ Answers(r)'
  BY <1>2, <1>4 DEF IInv, History, Progress, Answers
<1>5. ASSUME NEW r \in Readers, step[r] # "idle"
      PROVE  History(r)' /\ Progress(r)' /\ Answers(r)'
  <2> DEFINE at    == since[r]
             after == since'[r]
  <2>1. /\ at \in Seq(Catalogues) /\ Len(at) \in DOMAIN at
        /\ \A i \in DOMAIN at : Sound(at[i])
        /\ question[r] \in Questions /\ reply[r] = NoReply
        /\ PublicProgress(r) /\ AdminProgress(r)
    BY <1>5, OpenReader
  <2>2. /\ after = IF at[Len(at)] = Catalogue' THEN at ELSE Append(at, Catalogue')
        /\ question'[r] = question[r] /\ reply'[r] = NoReply
    BY <1>2, <1>5, <2>1
  <2>3. /\ \A i \in DOMAIN at : i \in DOMAIN after /\ after[i] = at[i]
        /\ \A i \in DOMAIN after : after[i] = Catalogue' \/ i \in DOMAIN at
        /\ after # <<>> /\ after[Len(after)] = Catalogue'
    <3> HIDE DEF at, after
    <3>1. CASE at[Len(at)] = Catalogue'
      BY <2>1, <2>2, <3>1
    <3>2. CASE at[Len(at)] # Catalogue'
      BY <2>1, <2>2, <3>2
    <3>3. QED
      BY <3>1, <3>2
  <2>4. \A i \in DOMAIN after : Sound(after[i])
    <3>1. ASSUME NEW s, s = Catalogue'
          PROVE  Sound(s)
      BY <1>1, <3>1 DEF Sound
    <3> HIDE DEF at, after
    <3>2. ASSUME NEW i \in DOMAIN after
          PROVE  Sound(after[i])
      <4>1. CASE after[i] = Catalogue'
        BY <3>1, <4>1
      <4>2. CASE i \in DOMAIN at
        BY <2>1, <2>3, <4>2
      <4>3. QED
        BY <2>3, <4>1, <4>2
    <3>3. QED
      BY <3>2
  <2>5. History(r)'
    BY <1>2, <1>5, <2>1, <2>2, <2>3, <2>4 DEF History
  <2>6. PublicProgress(r)'
    BY <1>2, <2>1, <2>2, <2>3 DEF PublicProgress
  <2>7. AdminProgress(r)'
    <3>1. found[r] \in Seq(Devices)
      BY DEF IInv, Types
    <3>2. AdminParts(question[r], at, dev, step[r], snapshot[r], found[r], rows[r],
                     total[r])
      BY <2>1 DEF AdminProgress
    <3> HIDE DEF at, after
    <3>3. AdminParts(question[r], after, dev', step[r], snapshot[r], found[r],
                     rows[r], total[r])
      BY <1>1, <2>3, <3>1, <3>2, PartsRemain
    <3>4. QED
      BY <1>2, <2>2, <3>3 DEF AdminProgress, after
  <2>8. Progress(r)'
    BY <1>2, <1>5, <2>6, <2>7 DEF Progress, IInv
  <2>9. Answers(r)'
    BY <2>2 DEF Answers
  <2>10. QED
    BY <2>5, <2>8, <2>9
<1>6. PublicReadsAtomic' /\ AdminReadsMoveForward'
  BY <1>4, <1>5, AnswersAre
<1>7. QED
  BY <1>1, <1>3, <1>4, <1>5, <1>6 DEF IInv

LEMMA StepKeeps == IInv /\ [Next]_vars => IInv'
<1> SUFFICES ASSUME IInv, [Next]_vars PROVE IInv'
  OBVIOUS
<1>1. ASSUME NEW r \in Readers, NEW q \in Questions, Ask(r, q)
      PROVE  IInv'
  BY <1>1, AskKeeps
<1>2. ASSUME NEW r \in Readers,
             ResolveIdentifier(r) \/ ResolveIdentifiers(r) \/ SelectHome(r)
             \/ CountDevices(r) \/ SelectPage(r) \/ LoadAliases(r)
             \/ LoadRows(r) \/ LoadChildren(r)
      PROVE  IInv'
  BY <1>2, ResolveIdentifierKeeps, ResolveIdentifiersKeeps, SelectHomeKeeps,
     CountDevicesKeeps, SelectPageKeeps, LoadAliasesKeeps, LoadRowsKeeps,
     LoadChildrenKeeps
<1>3. ASSUME NEW r \in Readers,
             FindBySlug(r) \/ LoadAdminRow(r) \/ LoadAdminAliases(r)
             \/ LoadAdminSources(r)
      PROVE  IInv'
  BY <1>3, FindBySlugKeeps, LoadAdminRowKeeps, LoadAdminAliasesKeeps,
     LoadAdminSourcesKeeps
<1>4. CASE UNCHANGED vars
  <2>1. UNCHANGED <<writes, readers>>
    BY <1>4 DEF vars, writes, readers
  <2>2. WritesInv' /\ Types'
    BY <1>4 DEF IInv, WritesInv, Types, vars, Catalogue
  <2>3. \A r \in Readers : Same(r)
    BY <1>4 DEF Same, vars
  <2>4. UNCHANGED writes
    BY <2>1
  <2>5. \A r \in Readers : History(r) /\ Progress(r) /\ Answers(r)
    BY AnswersAre DEF IInv
  <2>6. \A r \in Readers : History(r)' /\ Progress(r)' /\ Answers(r)'
    BY <2>3, <2>4, <2>5, SameReader
  <2>7. QED
    BY <2>2, <2>6, AnswersAre DEF IInv
<1>5. QED
  BY <1>1, <1>2, <1>3, <1>4, WriteStepKeeps DEF Next

LEMMA InitKeeps == Init => IInv
<1> SUFFICES ASSUME Init PROVE IInv
  OBVIOUS
<1>1. WritesInv
  BY InitWrites
<1>2. Types
  <2>1. 0 \in 0 .. Cardinality(Devices)
    BY DevicesAssumption, FS_CardinalityType
  <2>2. /\ <<>> \in Seq(Devices) /\ <<>> \in Seq(DeviceWriteRequest)
        /\ <<>> \in Seq(Catalogues)
    OBVIOUS
  <2>3. QED
    BY <2>1, <2>2 DEF Init, Types
<1>3. \A r \in Readers : History(r) /\ Progress(r) /\ Answers(r)
  BY DEF Init, History, Progress, Answers
<1>4. QED
  BY <1>1, <1>2, <1>3, AnswersAre DEF IInv

(* The invariant holds whatever the writers and readers do.                *)
THEOREM ReadsInvariant == Spec => []IInv
<1>1. Init => IInv
  BY InitKeeps
<1>2. IInv /\ [Next]_vars => IInv'
  BY StepKeeps
<1>3. QED
  BY <1>1, <1>2, PTL DEF Spec

(* Questions, responses and what is put together for them are of their     *)
(* types, and a total counts devices.                                      *)
THEOREM TypeCorrect == Spec => []TypeOK
<1>1. IInv => TypeOK
  <2> SUFFICES ASSUME IInv PROVE TypeOK
    OBVIOUS
  <2>1. \A r \in Readers : snapshot[r] # NoSnapshot => DOMAIN snapshot[r].dev = Devices
    BY DEF IInv, Types, Catalogues
  <2>2. QED
    BY <2>1 DEF IInv, Types, TypeOK
<1>2. QED
  BY <1>1, ReadsInvariant, PTL

(* A public response is what the catalogue said at one instant of the      *)
(* request, whatever was written between its queries.                      *)
THEOREM PublicReadsAlwaysAtomic == Spec => []PublicReadsAtomic
<1>1. IInv => PublicReadsAtomic
  BY DEF IInv
<1>2. QED
  BY <1>1, ReadsInvariant, PTL

(* The parts of an admin response are of versions in the order in which    *)
(* they were committed, none older than the request.                       *)
THEOREM AdminReadsAlwaysMoveForward == Spec => []AdminReadsMoveForward
<1>1. IInv => AdminReadsMoveForward
  BY DEF IInv
<1>2. QED
  BY <1>1, ReadsInvariant, PTL

(***************************************************************************)
(* Canonical paths.                                                        *)
(***************************************************************************)
(* A comparison of the slugs of different public devices shows them in the *)
(* order given.                                                            *)
LEMMA SlugsLeadBack ==
  ASSUME NEW s, Sound(s), NEW ids \in Seq(Public(s)), IsInjective(ids),
         NEW q \in Question, q.kind = "comparison",
         q.keys = [i \in DOMAIN ids |-> s.dev[ids[i]].slug]
  PROVE  Ideal(s, q) = Success(q, ShownAll(s, ids), 0)
<1>1. \A i \in DOMAIN ids : /\ ids[i] \in Devices /\ ids[i] \in Public(s)
                            /\ s.dev[ids[i]] # NoDevice
  BY ResolvedDevices
<1>2. DOMAIN q.keys = DOMAIN ids /\ \A i \in DOMAIN ids : q.keys[i] = s.dev[ids[i]].slug
  OBVIOUS
<1>3. ASSUME NEW i \in DOMAIN ids
      PROVE  Resolved(s, q.keys[i]) = {ids[i]}
  <2>1. q.keys[i] \in ClaimedKeys(s.dev[ids[i]])
    BY <1>1, <1>2, StoredDiffer, PayloadFields
  <2>2. ids[i] \in Resolved(s, q.keys[i])
    BY <1>1, <2>1 DEF Resolved
  <2>3. QED
    BY <2>2, ResolvedDevices
<1>4. \A i \in DOMAIN ids : (CHOOSE d \in Resolved(s, q.keys[i]) : TRUE) = ids[i]
  BY <1>3
<1>5. \A i, j \in DOMAIN ids : q.keys[i] = q.keys[j] => i = j
  <2>1. ASSUME NEW i \in DOMAIN ids, NEW j \in DOMAIN ids, q.keys[i] = q.keys[j]
        PROVE  i = j
    <3>1. ids[i] = ids[j]
      BY <1>1, <1>2, <2>1, StoredDiffer
    <3>2. QED
      BY <3>1 DEF IsInjective
  <2>2. QED
    BY <2>1
<1>6. ~ \E i, j \in DOMAIN q.keys : i # j /\ Resolved(s, q.keys[i]) = Resolved(s, q.keys[j])
  <2>1. \A i, j \in DOMAIN ids : ids[i] = ids[j] => i = j
    BY DEF IsInjective
  <2>2. \A i, j \in DOMAIN ids :
          Resolved(s, q.keys[i]) = Resolved(s, q.keys[j]) => ids[i] = ids[j]
    BY <1>3
  <2>3. QED
    BY <1>2, <2>1, <2>2
<1>7. ~ (\/ \E i \in DOMAIN q.keys : Resolved(s, q.keys[i]) = {}
         \/ ~IsInjective(q.keys))
  BY <1>2, <1>3, <1>5 DEF IsInjective
<1>8. [i \in DOMAIN q.keys |-> Shown(s, CHOOSE d \in Resolved(s, q.keys[i]) : TRUE)]
        = ShownAll(s, ids)
  <2>1. \A i \in DOMAIN ids :
          Shown(s, CHOOSE d \in Resolved(s, q.keys[i]) : TRUE) = Shown(s, ids[i])
    BY <1>4
  <2>2. QED
    BY <1>2, <2>1 DEF ShownAll
<1>9. Ideal(s, q) = Success(q, [i \in DOMAIN q.keys |->
                       Shown(s, CHOOSE d \in Resolved(s, q.keys[i]) : TRUE)], 0)
  BY <1>6, <1>7 DEF Ideal
<1>10. QED
  BY <1>8, <1>9

(* Only a comparison and the home page have a path: the slugs of different *)
(* devices, all of them public.                                            *)
LEMMA PathsName ==
  ASSUME NEW s, Sound(s), NEW q \in Questions, q.kind \in PublicKinds,
         Ideal(s, q).path # <<>>
  PROVE  \E ids \in Seq(Public(s)) :
           /\ IsInjective(ids)
           /\ Ideal(s, q).devices = ShownAll(s, ids)
           /\ Ideal(s, q).path = [i \in DOMAIN ids |-> s.dev[ids[i]].slug]
<1>1. \A status : Failure(status).path = <<>>
  BY DEF Failure
<1>2. ASSUME NEW ids \in Seq(Public(s)), IsInjective(ids),
             q.kind \in {"comparison", "home"},
             Ideal(s, q) = Success(q, ShownAll(s, ids), 0)
      PROVE  \E w \in Seq(Public(s)) :
               /\ IsInjective(w)
               /\ Ideal(s, q).devices = ShownAll(s, w)
               /\ Ideal(s, q).path = [i \in DOMAIN w |-> s.dev[w[i]].slug]
  <2>1. Ideal(s, q).devices = ShownAll(s, ids)
    BY <1>2 DEF Success
  <2>2. Ideal(s, q).path = ComparisonPath(ShownAll(s, ids))
    BY <1>2 DEF Success
  <2>3. \A i \in DOMAIN ids : ids[i] \in Devices /\ s.dev[ids[i]] # NoDevice
    BY ResolvedDevices
  <2>4. \A i \in DOMAIN ids : Shown(s, ids[i]).slug = s.dev[ids[i]].slug
    BY <2>3, ShownDevice
  <2>5. ComparisonPath(ShownAll(s, ids)) = [i \in DOMAIN ids |-> s.dev[ids[i]].slug]
    BY <2>4 DEF ComparisonPath, ShownAll
  <2>6. QED
    BY <1>2, <2>1, <2>2, <2>5
<1>3. CASE q.kind = "comparison"
  <2> DEFINE ids == ResolvedIds(s, q)
  <2>1. /\ Cardinality(ResolvedKeys(s, q)) = Len(q.keys)
        /\ Cardinality(ToSet(ids)) = Len(ids)
        /\ Decided(s, q, ids, 0)
    BY <1>1, <1>3, ComparisonDecided
  <2>2. ids \in Seq(Public(s)) /\ Ideal(s, q) = Success(q, ShownAll(s, ids), 0)
    BY <2>1 DEF Decided, ShownAll
  <2>3. IsInjective(ids)
    BY <2>1, <2>2, ElementsOfSeq
  <2>4. QED
    BY <1>2, <1>3, <2>2, <2>3
<1>4. CASE q.kind = "home"
  <2> DEFINE all == Sorted(s, Public(s))
             ids == FirstOf(all, HomeSize)
  <2>1. /\ Public(s) \subseteq Devices
        /\ \A d \in Public(s) : s.dev[d] # NoDevice
    BY ResolvedDevices
  <2>2. /\ all \in Seq(Public(s))
        /\ \A i, j \in 1 .. Len(all) : all[i] = all[j] => i = j
    BY <2>1, SortedRows
  <2>3. /\ ids \in Seq(Public(s)) /\ Len(ids) \in 0 .. Len(all)
        /\ \A i \in 1 .. Len(ids) : ids[i] = all[i]
    BY <2>2, FirstRows, SizeAssumption
  <2>4. DOMAIN ids = 1 .. Len(ids) /\ Len(all) \in Nat
    BY <2>2, <2>3
  <2> HIDE DEF all, ids
  <2>5. \A i \in 1 .. Len(ids) : i \in 1 .. Len(all)
    BY <2>3, <2>4
  <2>6. IsInjective(ids)
    BY <2>2, <2>3, <2>4, <2>5 DEF IsInjective
  <2>7. Ideal(s, q) = Success(q, ShownAll(s, ids), 0)
    BY <1>4, HomeDecided DEF Decided, ShownAll, all, ids
  <2>8. QED
    BY <1>2, <1>4, <2>3, <2>6, <2>7
<1>5. CASE q.kind \in {"detail", "list"}
  <2>1. Ideal(s, q).path = <<>>
    <3>1. CASE q.kind = "detail"
      BY <1>1, <3>1 DEF Ideal, Success
    <3>2. CASE q.kind = "list"
      BY <3>2 DEF Ideal, Success
    <3>3. QED
      BY <1>5, <3>1, <3>2
  <2>2. QED
    BY <2>1
<1>6. QED
  BY <1>3, <1>4, <1>5 DEF PublicKinds

(* The canonical path of a comparison or of the home page leads back to    *)
(* the devices it was made of, in their order, and to itself.              *)
THEOREM CanonicalPathsAlwaysLeadBack == Spec => []CanonicalPathsLeadBack
<1>1. IInv => CanonicalPathsLeadBack
  <2> SUFFICES ASSUME IInv, NEW r \in Readers, reply[r] # NoReply, reply[r].path # <<>>
               PROVE  \E s \in Seen(r) :
                        LET again == Ideal(s, [question[r] EXCEPT
                                                 !.kind = "comparison",
                                                 !.keys = reply[r].path])
                        IN  /\ again.devices = reply[r].devices
                            /\ again.path = reply[r].path
    BY DEF CanonicalPathsLeadBack, Answered
  <2> DEFINE q == question[r]
             again == [q EXCEPT !.kind = "comparison", !.keys = reply[r].path]
  <2>1. /\ q \in Questions /\ Answers(r)
        /\ \A i \in DOMAIN since[r] : Sound(since[r][i])
    BY AnswersAre DEF IInv, History
  <2>2. q.kind \in PublicKinds
    <3>1. ASSUME q.kind \in AdminKinds
          PROVE  \/ \E devices, n : reply[r] = Success(q, devices, n)
                 \/ reply[r] = Failure("404")
      <4>1. CASE q.kind = "admin_list"
        BY <2>1, <4>1 DEF Answers, ListAnswer
      <4>2. CASE q.kind \in {"by_id", "by_slug"}
        <5>1. \E devices : reply[r] = Success(q, devices, 0) \/ reply[r] = Failure("404")
          BY <2>1, <4>2 DEF Answers, DetailAnswer
        <5>2. QED
          BY <5>1
      <4>3. QED
        BY <3>1, <4>1, <4>2 DEF AdminKinds
    <3>2. ASSUME q.kind \in AdminKinds
          PROVE  Failure("404").path = <<>> /\ \A devices, n : Success(q, devices, n).path = <<>>
      BY <3>2 DEF Success, Failure, AdminKinds
    <3>3. q.kind \notin AdminKinds
      BY <3>1, <3>2
    <3>4. QED
      BY <2>1, <3>3, QuestionFields
  <2>3. PICK i \in DOMAIN since[r] : reply[r] = Ideal(since[r][i], q)
    BY <2>1, <2>2 DEF Answers, PublicAnswer
  <2> DEFINE s == since[r][i]
  <2>4. Sound(s) /\ Ideal(s, q).path # <<>> /\ reply[r] = Ideal(s, q)
    BY <2>1, <2>3
  <2>5. PICK ids \in Seq(Public(s)) :
          /\ IsInjective(ids)
          /\ reply[r].devices = ShownAll(s, ids)
          /\ reply[r].path = [j \in DOMAIN ids |-> s.dev[ids[j]].slug]
    <3> HIDE DEF s, q
    <3>1. \E ids \in Seq(Public(s)) :
            /\ IsInjective(ids)
            /\ Ideal(s, q).devices = ShownAll(s, ids)
            /\ Ideal(s, q).path = [j \in DOMAIN ids |-> s.dev[ids[j]].slug]
      BY <2>1, <2>2, <2>4, PathsName
    <3>2. QED
      BY <3>1, <2>4
  <2>6. reply[r].path \in Seq(Keys)
    BY DEF IInv, Types, Response
  <2>7. again \in Question /\ again.kind = "comparison" /\ again.keys = reply[r].path
    BY <2>1, <2>6, QuestionFields DEF Question, PublicKinds
  <2>8. Sound(s) /\ s \in Seen(r)
    BY <2>1 DEF Seen, ToSet
  <2> HIDE DEF again, s
  <2>9. Ideal(s, again) = Success(again, ShownAll(s, ids), 0)
    BY <2>5, <2>7, <2>8, SlugsLeadBack
  <2>10. ComparisonPath(ShownAll(s, ids)) = reply[r].path
    <3>1. \A j \in DOMAIN ids : Shown(s, ids[j]).slug = s.dev[ids[j]].slug
      BY <2>8, ResolvedDevices, ShownDevice
    <3>2. QED
      BY <2>5, <3>1 DEF ComparisonPath, ShownAll
  <2>11. /\ Ideal(s, again).devices = reply[r].devices
         /\ Ideal(s, again).path = reply[r].path
    BY <2>5, <2>7, <2>9, <2>10 DEF Success
  <2>12. QED
    BY <2>8, <2>11 DEF again
<1>2. QED
  BY <1>1, ReadsInvariant, PTL
=============================================================================
