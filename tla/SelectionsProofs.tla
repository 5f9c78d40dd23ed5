-------------------------- MODULE SelectionsProofs --------------------------
(***************************************************************************)
(* What the selections promise for any number of requests, devices and     *)
(* dates: only published devices are counted, on the date of the selection,*)
(* every answered selection once, and the lists rank by what was counted.  *)
(***************************************************************************)
EXTENDS Selections, ListTheorems

CountedRow == [count : Nat \ {0}, last : Ticks]

Types ==
  /\ now \in Ticks
  /\ model \in [Devices -> [slug : Slugs, published : BOOLEAN]]
  /\ daily \in [Categories -> [Slugs -> [Days -> CountedRow \cup {NoRow}]]]
  /\ phase \in [Requests -> Phases]
  /\ ask \in [Requests -> DeviceSelectionRequest \cup {NoAsk}]
  /\ \A r \in Requests : phase[r] # "idle" => ask[r] \in DeviceSelectionRequest
  /\ at \in [Requests -> Ticks]
  /\ known \in [Requests -> BOOLEAN]

LEMMA InitTypes == Init => Types
<1> SUFFICES ASSUME Init PROVE Types
  OBVIOUS
<1>1. 0 \in Ticks
  BY NumbersAssumption DEF Ticks
<1>2. daily \in [Categories -> [Slugs -> [Days -> CountedRow \cup {NoRow}]]]
  BY DEF Init
<1>3. phase \in [Requests -> Phases]
  BY DEF Init, Phases
<1> QED
  BY <1>1, <1>2, <1>3 DEF Init, Types

LEMMA DayInDays == \A t \in Ticks : Day(t) \in Days
  BY DEF Days

LEMMA FinishTypes ==
  ASSUME Types, NEW r \in Requests, Finish(r)
  PROVE  /\ phase' \in [Requests -> Phases]
         /\ ask' \in [Requests -> DeviceSelectionRequest \cup {NoAsk}]
         /\ \A q \in Requests : phase'[q] # "idle" => ask'[q] \in DeviceSelectionRequest
         /\ at' \in [Requests -> Ticks]
         /\ known' \in [Requests -> BOOLEAN]
<1>1. 0 \in Ticks
  BY NumbersAssumption DEF Ticks
<1> QED
  BY <1>1 DEF Finish, Types, Phases

LEMMA CountedType ==
  ASSUME Types, NEW r \in Requests, phase[r] # "idle"
  PROVE  Counted(r) \in CountedRow /\ Counted(r).last = at[r]
<1>1. /\ ask[r].category \in Categories
      /\ ask[r].slug \in Slugs
      /\ at[r] \in Ticks
  BY DEF Types, DeviceSelectionRequest
<1>2. RowOf(r) \in CountedRow \cup {NoRow}
  BY <1>1, DayInDays DEF Types, RowOf
<1>3. RowOf(r) # NoRow => RowOf(r).count + 1 \in Nat \ {0}
  BY <1>2 DEF CountedRow
<1> QED
  BY <1>1, <1>3 DEF Counted, CountedRow

LEMMA StepTypes == Types /\ [Next]_vars => Types'
<1> SUFFICES ASSUME Types, [Next]_vars PROVE Types'
  OBVIOUS
<1>1. ASSUME NEW r \in Requests, NEW a \in Asks, Submit(r, a) PROVE Types'
  <2>1. a \in DeviceSelectionRequest
    BY AsksAssumption
  <2>2. Published(a.category, a.slug) \in BOOLEAN
    BY DEF Published
  <2> QED
    BY <1>1, <2>1, <2>2 DEF Types, Submit, Phases
<1>2. ASSUME NEW r \in Requests, Invalid(r) PROVE Types'
  BY <1>2, FinishTypes DEF Types, Invalid, clients
<1>3. ASSUME NEW r \in Requests, NotFound(r) PROVE Types'
  BY <1>3, FinishTypes DEF Types, NotFound, clients
<1>4. ASSUME NEW r \in Requests, Found(r) PROVE Types'
  BY <1>4 DEF Types, Found, clients, Phases
<1>5. ASSUME NEW r \in Requests, Upsert(r) PROVE Types'
  <2>1. phase[r] # "idle"
    BY <1>5 DEF Upsert
  <2>2. daily' \in [Categories -> [Slugs -> [Days -> CountedRow \cup {NoRow}]]]
    <3> DEFINE c == ask[r].category
               s == ask[r].slug
               n == Day(at[r])
               row == Counted(r)
    <3>1. c \in Categories /\ s \in Slugs /\ n \in Days
      BY <2>1, DayInDays DEF Types, DeviceSelectionRequest
    <3>2. row \in CountedRow
      BY <2>1, CountedType
    <3>3. daily' = [daily EXCEPT ![c][s][n] = row]
      BY <1>5 DEF Upsert
    <3>4. daily \in [Categories -> [Slugs -> [Days -> CountedRow \cup {NoRow}]]]
      BY DEF Types
    <3> HIDE DEF c, s, n, row
    <3> QED
      BY <3>1, <3>2, <3>3, <3>4
  <2>3. CASE phase[r] = "insert"
    BY <1>5, <2>2, <2>3 DEF Types, Upsert, Phases
  <2>4. CASE phase[r] = "orphan"
    BY <1>5, <2>2, <2>4, FinishTypes DEF Types, Upsert
  <2> QED
    BY <1>5, <2>3, <2>4 DEF Upsert
<1>6. ASSUME NEW r \in Requests, Acknowledge(r) PROVE Types'
  BY <1>6, FinishTypes DEF Types, Acknowledge
<1>7. ASSUME NEW r \in Requests, Dropped(r) PROVE Types'
  <2>1. CASE phase[r] = "insert"
    BY <1>7, <2>1 DEF Types, Dropped, Phases
  <2>2. CASE phase[r] # "insert"
    BY <1>7, <2>2, FinishTypes DEF Types, Dropped
  <2> QED
    BY <2>1, <2>2
<1>8. ASSUME NEW r \in Requests, Cancel(r) PROVE Types'
  BY <1>8, FinishTypes DEF Types, Cancel, clients
<1>9. ASSUME NEW d \in Devices, NEW v \in Versions[d], Write(d, v) PROVE Types'
  <2>1. v \in [slug : Slugs, published : BOOLEAN]
    BY VersionsAssumption
  <2>2. known' \in [Requests -> BOOLEAN]
    BY <1>9, <2>1 DEF Write, Types
  <2> QED
    BY <1>9, <2>1, <2>2 DEF Types, Write, clients
<1>10. ASSUME Tick PROVE Types'
  BY <1>10, NumbersAssumption DEF Types, Tick, handlers, clients, Ticks
<1>11. ASSUME UNCHANGED vars PROVE Types'
  BY <1>11 DEF Types, vars
<1> QED
  BY <1>1, <1>2, <1>3, <1>4, <1>5, <1>6, <1>7, <1>8, <1>9, <1>10, <1>11 DEF Next

(* Every variable keeps the type it has: rows of the table are counts with *)
(* a time, and a handler that runs has a request.                          *)
THEOREM TypesHold == Spec => []Types
<1> QED
  BY InitTypes, StepTypes, PTL DEF Spec

(***************************************************************************)
(* Only published devices.  A request that is still to be checked is known *)
(* to be for a published device as soon as there is one, so that the check *)
(* cannot find one the history has missed.                                 *)
(***************************************************************************)
KnownWhenPublished ==
  /\ OnlyPublishedCounted
  /\ \A r \in Requests :
       phase[r] = "check" /\ Published(ask[r].category, ask[r].slug) => known[r]

LEMMA InitKnown == Init => KnownWhenPublished
  BY DEF Init, KnownWhenPublished, OnlyPublishedCounted

(* A handler that ends owes nothing, and the others are as they were.      *)
LEMMA FinishKnown ==
  ASSUME Types, KnownWhenPublished, NEW r \in Requests, Finish(r), UNCHANGED model
  PROVE  KnownWhenPublished'
<1>1. ASSUME NEW q \in Requests, q # r
      PROVE  phase'[q] = phase[q] /\ ask'[q] = ask[q] /\ known'[q] = known[q]
  BY <1>1 DEF Finish, Types
<1>2. phase'[r] = "idle"
  BY DEF Finish, Types
<1> QED
  BY <1>1, <1>2 DEF KnownWhenPublished, OnlyPublishedCounted, Published

LEMMA StepKnown == Types /\ KnownWhenPublished /\ [Next]_vars => KnownWhenPublished'
<1> SUFFICES ASSUME Types, KnownWhenPublished, [Next]_vars PROVE KnownWhenPublished'
  OBVIOUS
<1>1. ASSUME NEW r \in Requests, NEW a \in Asks, Submit(r, a) PROVE KnownWhenPublished'
  BY <1>1 DEF Types, KnownWhenPublished, OnlyPublishedCounted, Submit, Published
<1>2. ASSUME NEW r \in Requests, Invalid(r) PROVE KnownWhenPublished'
  BY <1>2, FinishKnown DEF Invalid
<1>3. ASSUME NEW r \in Requests, NotFound(r) PROVE KnownWhenPublished'
  BY <1>3, FinishKnown DEF NotFound
<1>4. ASSUME NEW r \in Requests, Found(r) PROVE KnownWhenPublished'
  BY <1>4 DEF Types, KnownWhenPublished, OnlyPublishedCounted, Found, Exists, Published
<1>5. ASSUME NEW r \in Requests, Upsert(r) PROVE KnownWhenPublished'
  <2>1. CASE phase[r] = "insert"
    BY <1>5, <2>1 DEF Types, KnownWhenPublished, OnlyPublishedCounted, Upsert, Published
  <2>2. CASE phase[r] = "orphan"
    BY <1>5, <2>2, FinishKnown DEF Upsert
  <2> QED
    BY <1>5, <2>1, <2>2 DEF Upsert
<1>6. ASSUME NEW r \in Requests, Acknowledge(r) PROVE KnownWhenPublished'
  BY <1>6, FinishKnown DEF Acknowledge
<1>7. ASSUME NEW r \in Requests, Dropped(r) PROVE KnownWhenPublished'
  <2>1. CASE phase[r] = "insert"
    BY <1>7, <2>1 DEF Types, KnownWhenPublished, OnlyPublishedCounted, Dropped, Published
  <2>2. CASE phase[r] # "insert"
    BY <1>7, <2>2, FinishKnown DEF Dropped
  <2> QED
    BY <2>1, <2>2
<1>8. ASSUME NEW r \in Requests, Cancel(r) PROVE KnownWhenPublished'
  BY <1>8, FinishKnown DEF Cancel
<1>9. ASSUME NEW d \in Devices, NEW v \in Versions[d], Write(d, v)
      PROVE  KnownWhenPublished'
  <2>1. \A q \in Requests : known[q] => known'[q]
    BY <1>9 DEF Write
  <2>2. OnlyPublishedCounted'
    BY <1>9, <2>1 DEF Write, KnownWhenPublished, OnlyPublishedCounted
  <2>3. ASSUME NEW q \in Requests, phase[q] = "check",
               Published(ask[q].category, ask[q].slug)'
        PROVE  known'[q]
    <3>1. PICK e \in Devices : /\ Category[e] = ask[q].category
                               /\ model'[e].slug = ask[q].slug
                               /\ model'[e].published
      BY <1>9, <2>3 DEF Published, Write
    <3>2. CASE e = d
      <4>1. model'[e] = v
        BY <1>9, <3>2 DEF Write, Types
      <4> QED
        BY <1>9, <2>3, <3>1, <3>2, <4>1 DEF Write
    <3>3. CASE e # d
      <4>1. model'[e] = model[e]
        BY <1>9, <3>3 DEF Write, Types
      <4>2. Published(ask[q].category, ask[q].slug)
        BY <3>1, <4>1 DEF Published
      <4> QED
        BY <2>1, <2>3, <4>2 DEF KnownWhenPublished
    <3> QED
      BY <3>2, <3>3
  <2>4. UNCHANGED <<phase, ask>>
    BY <1>9 DEF Write
  <2> QED
    BY <2>2, <2>3, <2>4 DEF KnownWhenPublished
<1>10. ASSUME Tick PROVE KnownWhenPublished'
  BY <1>10 DEF KnownWhenPublished, OnlyPublishedCounted, Tick, handlers, Published
<1>11. ASSUME UNCHANGED vars PROVE KnownWhenPublished'
  BY <1>11 DEF KnownWhenPublished, OnlyPublishedCounted, vars, Published
<1> QED
  BY <1>1, <1>2, <1>3, <1>4, <1>5, <1>6, <1>7, <1>8, <1>9, <1>10, <1>11 DEF Next

(* A selection is counted only if some published device of its category    *)
(* had its slug at an instant of its request, however many devices change  *)
(* hands meanwhile.                                                        *)
THEOREM PublishedAlone == Spec => []OnlyPublishedCounted
<1>1. KnownWhenPublished => OnlyPublishedCounted
  BY DEF KnownWhenPublished
<1> QED
  BY <1>1, TypesHold, InitKnown, StepKnown, PTL DEF Spec

(***************************************************************************)
(* Dates.  Only Upsert writes a row, and it takes date and time from one   *)
(* now().                                                                  *)
(***************************************************************************)
LEMMA InitDates == Init => LastSelectedOnItsDate
  BY DEF Init, LastSelectedOnItsDate

LEMMA StepDates ==
  Types /\ LastSelectedOnItsDate /\ [Next]_vars => LastSelectedOnItsDate'
<1> SUFFICES ASSUME Types, LastSelectedOnItsDate, [Next]_vars
             PROVE  LastSelectedOnItsDate'
  OBVIOUS
<1>1. CASE UNCHANGED daily
  BY <1>1 DEF LastSelectedOnItsDate
<1>2. ASSUME NEW r \in Requests, Upsert(r) PROVE LastSelectedOnItsDate'
  <2> DEFINE k == ask[r].category
             g == ask[r].slug
             m == Day(at[r])
             row == Counted(r)
  <2>1. phase[r] # "idle"
    BY <1>2 DEF Upsert
  <2>2. k \in Categories /\ g \in Slugs /\ m \in Days
    BY <2>1, DayInDays DEF Types, DeviceSelectionRequest
  <2>3. Day(row.last) = m
    BY <2>1, CountedType
  <2>4. daily' = [daily EXCEPT ![k][g][m] = row]
    BY <1>2 DEF Upsert
  <2>5. daily \in [Categories -> [Slugs -> [Days -> CountedRow \cup {NoRow}]]]
    BY DEF Types
  <2> HIDE DEF k, g, m, row
  <2>6. ASSUME NEW c \in Categories, NEW s \in Slugs, NEW n \in Days
        PROVE  daily'[c][s][n] = IF c = k /\ s = g /\ n = m THEN row ELSE daily[c][s][n]
    BY <2>2, <2>4, <2>5
  <2> QED
    BY <2>3, <2>6 DEF LastSelectedOnItsDate
<1>3. [Next]_vars => UNCHANGED daily \/ \E r \in Requests : Upsert(r)
  BY DEF Next, vars, Submit, Invalid, NotFound, Found, Acknowledge, Dropped, Cancel,
         Write, Tick
<1> QED
  BY <1>1, <1>2, <1>3

(* The time that breaks ties between equally popular devices is one of the *)
(* date it is stored for, even if the row was written after midnight.      *)
THEOREM DatesAgree == Spec => []LastSelectedOnItsDate
<1> QED
  BY TypesHold, InitDates, StepDates, PTL DEF Spec

(***************************************************************************)
(* Type correctness.  A count is bounded because a selection that waits to *)
(* be counted has been sent: what is counted in one row and what waits     *)
(* anywhere are different selections.                                      *)
(***************************************************************************)
Busy == {r \in Requests : phase[r] # "idle"}
Waiting == {r \in Requests : phase[r] \in {"check", "insert", "orphan"}}

Budget ==
  /\ IsFiniteSet(Busy)
  /\ sent \in 0..MaxSelections
  /\ Cardinality(Waiting) <= sent
  /\ \A c \in Categories, s \in Slugs, n \in Days :
       daily[c][s][n] # NoRow => daily[c][s][n].count + Cardinality(Waiting) <= sent

(* Devices and idle handlers                                               *)
Stored ==
  /\ \A d \in Devices : model[d] \in Versions[d]
  /\ SlugsUnique(model)
  /\ \A r \in Requests : phase[r] = "idle" => ask[r] = NoAsk

LEMMA NoRowIsNoRow == NoRow \notin CountedRow
<1>1. CountedRow \subseteq [count : Nat, last : Nat]
  BY NumbersAssumption DEF CountedRow, Ticks
<1>2. QED
  BY <1>1, NothingAssumption

LEMMA InitStored == Init => Stored
  BY DEF Init, Stored

LEMMA StepStored == Types /\ Stored /\ [Next]_vars => Stored'
<1> SUFFICES ASSUME Types, Stored, [Next]_vars PROVE Stored'
  OBVIOUS
<1> DEFINE Idle == \A r \in Requests : phase[r] = "idle" => ask[r] = NoAsk
<1>1. ASSUME NEW r \in Requests, Finish(r) PROVE Idle'
  BY <1>1 DEF Finish, Types, Stored
<1>2. ASSUME NEW r \in Requests, NEW a \in Asks, Submit(r, a) PROVE Stored'
  BY <1>2 DEF Submit, Types, Stored, SlugsUnique
<1>3. ASSUME NEW r \in Requests,
             Invalid(r) \/ NotFound(r) \/ Acknowledge(r) \/ Cancel(r)
      PROVE  Stored'
  BY <1>1, <1>3 DEF Invalid, NotFound, Acknowledge, Cancel, Stored, SlugsUnique
<1>4. ASSUME NEW r \in Requests, Found(r) PROVE Stored'
  BY <1>4 DEF Found, Types, Stored, SlugsUnique
<1>5. ASSUME NEW r \in Requests, Upsert(r) PROVE Stored'
  <2>1. Idle'
    <3>1. CASE phase[r] = "insert"
      BY <1>5, <3>1 DEF Upsert, Types, Stored
    <3>2. CASE phase[r] # "insert"
      BY <1>1, <1>5, <3>2 DEF Upsert
    <3>3. QED
      BY <3>1, <3>2
  <2>2. QED
    BY <1>5, <2>1 DEF Upsert, Stored, SlugsUnique
<1>6. ASSUME NEW r \in Requests, Dropped(r) PROVE Stored'
  <2>1. Idle'
    <3>1. CASE phase[r] = "insert"
      BY <1>6, <3>1 DEF Dropped, Types, Stored
    <3>2. CASE phase[r] # "insert"
      BY <1>1, <1>6, <3>2 DEF Dropped
    <3>3. QED
      BY <3>1, <3>2
  <2>2. QED
    BY <1>6, <2>1 DEF Dropped, Stored, SlugsUnique
<1>7. ASSUME NEW d \in Devices, NEW v \in Versions[d], Write(d, v) PROVE Stored'
  <2>1. \A e \in Devices : model'[e] = IF e = d THEN v ELSE model[e]
    BY <1>7 DEF Write, Types
  <2>2. SlugsUnique(model')
    BY <1>7 DEF Write
  <2>3. QED
    BY <1>7, <2>1, <2>2 DEF Write, Stored, SlugsUnique
<1>8. ASSUME Tick \/ UNCHANGED vars PROVE Stored'
  BY <1>8 DEF Tick, vars, handlers, Stored, SlugsUnique
<1>9. QED
  BY <1>2, <1>3, <1>4, <1>5, <1>6, <1>7, <1>8 DEF Next

(* How many handlers wait to be counted, when one of them moves.           *)
LEMMA WaitingMoves ==
  ASSUME Types, IsFiniteSet(Busy), NEW r \in Requests,
         \A q \in Requests \ {r} : phase'[q] = phase[q]
  PROVE  /\ IsFiniteSet(Busy')
         /\ Cardinality(Waiting) \in Nat /\ Cardinality(Waiting') \in Nat
         /\ Cardinality(Waiting') + (IF r \in Waiting THEN 1 ELSE 0)
              = Cardinality(Waiting) + (IF r \in Waiting' THEN 1 ELSE 0)
<1>1. Busy \ {r} = Busy' \ {r} /\ Waiting \ {r} = Waiting' \ {r}
  BY DEF Busy, Waiting
<1>2. Waiting \subseteq Busy
  BY DEF Waiting, Busy
<1>3. IsFiniteSet(Waiting)
  BY <1>2, FS_Subset
<1> DEFINE A == Waiting
           B == Waiting'
           C == Busy
           D == Busy'
<1> HIDE DEF A, B, C, D
<1>4. /\ Cardinality(A) \in Nat /\ Cardinality(B) \in Nat
      /\ Cardinality(B) + (IF r \in A THEN 1 ELSE 0)
           = Cardinality(A) + (IF r \in B THEN 1 ELSE 0)
  BY <1>1, <1>3, OneElementMoves DEF A, B
<1>5. IsFiniteSet(D)
  BY <1>1, OneElementMoves DEF C, D
<1>6. QED
  BY <1>4, <1>5 DEF A, B, D

(* The row a statement writes, and no other.                               *)
LEMMA RowWritten ==
  ASSUME Types, NEW r \in Requests, phase[r] # "idle",
         daily' = [daily EXCEPT ![ask[r].category][ask[r].slug][Day(at[r])] = Counted(r)]
  PROVE  /\ ask[r].category \in Categories /\ ask[r].slug \in Slugs
         /\ Day(at[r]) \in Days
         /\ \A c \in Categories, s \in Slugs, n \in Days :
              daily'[c][s][n] =
                IF c = ask[r].category /\ s = ask[r].slug /\ n = Day(at[r])
                THEN Counted(r) ELSE daily[c][s][n]
<1> DEFINE k == ask[r].category
           g == ask[r].slug
           m == Day(at[r])
           row == Counted(r)
<1>1. k \in Categories /\ g \in Slugs /\ m \in Days
  BY DayInDays DEF Types, DeviceSelectionRequest
<1>2. daily' = [daily EXCEPT ![k][g][m] = row]
  OBVIOUS
<1>3. daily \in [Categories -> [Slugs -> [Days -> CountedRow \cup {NoRow}]]]
  BY DEF Types
<1> HIDE DEF k, g, m, row
<1>4. \A c \in Categories, s \in Slugs, n \in Days :
        daily'[c][s][n] = IF c = k /\ s = g /\ n = m THEN row ELSE daily[c][s][n]
  BY <1>1, <1>2, <1>3
<1>5. QED
  BY <1>1, <1>4 DEF k, g, m, row

LEMMA InitBudget == Init => Budget
<1> SUFFICES ASSUME Init PROVE Budget
  OBVIOUS
<1>1. Busy = {} /\ Waiting = {}
  BY DEF Init, Busy, Waiting
<1>2. QED
  BY <1>1, FS_EmptySet, NumbersAssumption DEF Init, Budget

LEMMA StepBudget == Types /\ Budget /\ [Next]_vars => Budget'
<1> SUFFICES ASSUME Types, Budget, [Next]_vars PROVE Budget'
  OBVIOUS
<1>1. MaxSelections \in Nat /\ sent \in 0..MaxSelections /\ IsFiniteSet(Busy)
  BY NumbersAssumption DEF Budget
<1>2. \A c \in Categories, s \in Slugs, n \in Days :
        daily[c][s][n] # NoRow => daily[c][s][n].count \in Nat
  BY DEF Types, CountedRow
<1>3. ASSUME NEW r \in Requests, \A q \in Requests \ {r} : phase'[q] = phase[q],
             UNCHANGED <<daily, sent>>, r \in Waiting' => r \in Waiting
      PROVE  Budget'
  BY <1>1, <1>2, <1>3, WaitingMoves DEF Budget
<1>4. ASSUME NEW r \in Requests, Finish(r)
      PROVE  /\ \A q \in Requests \ {r} : phase'[q] = phase[q]
             /\ r \notin Waiting'
  BY <1>4 DEF Finish, Types, Waiting
<1>5. ASSUME NEW r \in Requests, NEW a \in Asks, Submit(r, a) PROVE Budget'
  <2>1. /\ \A q \in Requests \ {r} : phase'[q] = phase[q]
        /\ r \notin Waiting /\ r \in Waiting'
        /\ sent < MaxSelections /\ sent' = sent + 1 /\ UNCHANGED daily
    BY <1>5 DEF Submit, Types, Waiting
  <2>2. QED
    BY <1>1, <1>2, <2>1, WaitingMoves DEF Budget
<1>6. ASSUME NEW r \in Requests,
             Invalid(r) \/ NotFound(r) \/ Acknowledge(r) \/ Cancel(r)
      PROVE  Budget'
  BY <1>3, <1>4, <1>6 DEF Invalid, NotFound, Acknowledge, Cancel, clients
<1>7. ASSUME NEW r \in Requests, Found(r) PROVE Budget'
  <2>1. /\ \A q \in Requests \ {r} : phase'[q] = phase[q]
        /\ r \in Waiting
        /\ UNCHANGED <<daily, sent>>
    BY <1>7 DEF Found, Types, Waiting, clients
  <2>2. QED
    BY <1>3, <2>1
<1>8. ASSUME NEW r \in Requests, Upsert(r) PROVE Budget'
  <2>1. /\ \A q \in Requests \ {r} : phase'[q] = phase[q]
        /\ r \notin Waiting'
    <3>1. CASE phase[r] = "insert"
      BY <1>8, <3>1 DEF Upsert, Types, Waiting
    <3>2. CASE phase[r] # "insert"
      BY <1>4, <1>8, <3>2 DEF Upsert
    <3>3. QED
      BY <3>1, <3>2
  <2>2. r \in Waiting /\ phase[r] # "idle" /\ UNCHANGED sent
    BY <1>8 DEF Upsert, Waiting, clients
  <2>3. /\ IsFiniteSet(Busy')
        /\ Cardinality(Waiting) \in Nat /\ Cardinality(Waiting') \in Nat
        /\ Cardinality(Waiting') + 1 = Cardinality(Waiting)
    BY <1>1, <2>1, <2>2, WaitingMoves
  <2>4. daily' = [daily EXCEPT ![ask[r].category][ask[r].slug][Day(at[r])] = Counted(r)]
    BY <1>8 DEF Upsert
  <2>5. ASSUME NEW c \in Categories, NEW s \in Slugs, NEW n \in Days,
               daily'[c][s][n] # NoRow
        PROVE  daily'[c][s][n].count + Cardinality(Waiting') <= sent
    <3>1. CASE daily'[c][s][n] = daily[c][s][n]
      BY <1>1, <1>2, <2>3, <2>5, <3>1 DEF Budget
    <3>2. CASE daily'[c][s][n] = Counted(r) /\ RowOf(r) = daily[c][s][n]
      <4>1. Counted(r).count = IF RowOf(r) = NoRow THEN 1 ELSE RowOf(r).count + 1
        BY DEF Counted
      <4>2. CASE RowOf(r) = NoRow
        BY <1>1, <2>3, <3>2, <4>1, <4>2 DEF Budget
      <4>3. CASE RowOf(r) # NoRow
        <5>1. /\ RowOf(r).count + Cardinality(Waiting) <= sent
              /\ RowOf(r).count \in Nat
          BY <1>2, <3>2, <4>3 DEF Budget
        <5>2. QED
          BY <1>1, <2>3, <3>2, <4>1, <4>3, <5>1
      <4>4. QED
        BY <4>2, <4>3
    <3>3. daily'[c][s][n] = IF c = ask[r].category /\ s = ask[r].slug /\ n = Day(at[r])
                            THEN Counted(r) ELSE daily[c][s][n]
      BY <2>2, <2>4, RowWritten
    <3>4. QED
      BY <3>1, <3>2, <3>3 DEF RowOf
  <2>6. QED
    BY <1>1, <2>2, <2>3, <2>5 DEF Budget
<1>9. ASSUME NEW r \in Requests, Dropped(r) PROVE Budget'
  <2>1. /\ \A q \in Requests \ {r} : phase'[q] = phase[q]
        /\ r \in Waiting' => r \in Waiting
    <3>1. CASE phase[r] = "insert"
      BY <1>9, <3>1 DEF Dropped, Types, Waiting
    <3>2. CASE phase[r] # "insert"
      BY <1>4, <1>9, <3>2 DEF Dropped
    <3>3. QED
      BY <3>1, <3>2
  <2>2. UNCHANGED <<daily, sent>>
    BY <1>9 DEF Dropped
  <2>3. QED
    BY <1>3, <2>1, <2>2
<1>10. ASSUME UNCHANGED <<phase, daily, sent>> PROVE Budget'
  BY <1>10 DEF Budget, Busy, Waiting
<1>11. ASSUME NEW d \in Devices, NEW v \in Versions[d], Write(d, v) PROVE Budget'
  BY <1>10, <1>11 DEF Write, clients
<1>12. ASSUME Tick \/ UNCHANGED vars PROVE Budget'
  BY <1>10, <1>12 DEF Tick, vars, handlers, clients
<1>13. QED
  BY <1>5, <1>6, <1>7, <1>8, <1>9, <1>11, <1>12 DEF Next

LEMMA BudgetHolds == Spec => [](Types /\ Stored /\ Budget)
<1> QED
  BY TypesHold, InitStored, StepStored, InitBudget, StepBudget, PTL DEF Spec

(* Every row is a count of selections that were sent, with a time of the   *)
(* run; every device is in a state it can be given; and a handler has a    *)
(* request exactly while it is at work.                                    *)
THEOREM TypeCorrect == Spec => []TypeOK
<1>1. Types /\ Stored /\ Budget => TypeOK
  <2> SUFFICES ASSUME Types, Stored, Budget PROVE TypeOK
    OBVIOUS
  <2>1. ASSUME NEW c \in Categories, NEW s \in Slugs, NEW n \in Days
        PROVE  daily[c][s][n] \in Row \cup {NoRow}
    <3>1. daily[c][s][n] \in CountedRow \cup {NoRow}
      BY DEF Types
    <3>2. Cardinality(Waiting) \in Nat
      <4>1. Waiting \subseteq Busy
        BY DEF Waiting, Busy
      <4>2. QED
        BY <4>1, FS_Subset, FS_CardinalityType DEF Budget
    <3>3. CASE daily[c][s][n] # NoRow
      <4>1. /\ daily[c][s][n] \in CountedRow
            /\ daily[c][s][n].count + Cardinality(Waiting) <= sent
            /\ sent \in 0..MaxSelections
        BY <3>1, <3>3 DEF Budget
      <4>2. daily[c][s][n].count \in 1..MaxSelections
        BY <3>2, <4>1, NumbersAssumption DEF CountedRow
      <4>3. QED
        BY <4>1, <4>2 DEF CountedRow, Row
    <3>4. QED
      BY <3>3
  <2>2. \A r \in Requests : ask[r] = NoAsk <=> phase[r] = "idle"
    BY NothingAssumption DEF Types, Stored
  <2>3. QED
    BY <2>1, <2>2 DEF Types, Stored, Budget, TypeOK
<1>2. QED
  BY <1>1, BudgetHolds, PTL

(***************************************************************************)
(* Counts.  For every set of dates, what is counted on them is what was    *)
(* answered or is about to be, and what a client is in doubt about makes up*)
(* for the difference: a statement that has lost its client counts later   *)
(* or never.  A sum over any dates changes by one place at a time, which   *)
(* the sum over the window, whose dates move, does not.                    *)
(***************************************************************************)
CountOn(c, s) ==
  [n \in Days |-> IF daily[c][s][n] = NoRow THEN 0 ELSE daily[c][s][n].count]
Total(c, s, W) == SumFunctionOnSet(CountOn(c, s), W)

TicksOf(W) == {t \in Ticks : Day(t) \in W}

(* The requests in a phase whose selections belong to the dates.           *)
Belongs(r, c, s, W) ==
  ask[r].category = c /\ ask[r].slug = s /\ Day(at[r]) \in W
With(p, c, s, W) == {r \in Requests : phase[r] = p /\ Belongs(r, c, s, W)}

Balance ==
  \A c \in Categories, s \in Slugs, W \in SUBSET Days :
    LET answered == Sum(sure, c, s, TicksOf(W)) + Cardinality(With("done", c, s, W))
    IN  /\ Total(c, s, W) >= answered
        /\ Total(c, s, W) + Cardinality(With("orphan", c, s, W))
             <= answered + Sum(doubtful, c, s, TicksOf(W))

Histories ==
  /\ sure \in [Categories -> [Slugs -> [Ticks -> Nat]]]
  /\ doubtful \in [Categories -> [Slugs -> [Ticks -> Nat]]]

(* No statement has a time that is still to come.                          *)
Past ==
  /\ \A c \in Categories, s \in Slugs, t \in Ticks :
       t > now => sure[c][s][t] = 0 /\ doubtful[c][s][t] = 0
  /\ \A r \in Requests : at[r] <= now

LEMMA DatesAreFinite ==
  /\ IsFiniteSet(Ticks) /\ IsFiniteSet(Days)
  /\ \A W \in SUBSET Days : IsFiniteSet(W) /\ IsFiniteSet(TicksOf(W))
<1>1. IsFiniteSet(Ticks)
  BY NumbersAssumption, FS_Interval DEF Ticks
<1>2. [t \in Ticks |-> Day(t)] \in Surjection(Ticks, Days)
  BY DEF Surjection, Days
<1>3. IsFiniteSet(Days)
  BY <1>1, <1>2, FS_Surjection
<1>4. \A W \in SUBSET Days : TicksOf(W) \in SUBSET Ticks
  BY DEF TicksOf
<1>5. QED
  BY <1>1, <1>3, <1>4, FS_Subset

LEMMA RecordAdds ==
  ASSUME Types, NEW r \in Requests, phase[r] # "idle",
         NEW h \in [Categories -> [Slugs -> [Ticks -> Nat]]]
  PROVE  /\ Record(h, r) \in [Categories -> [Slugs -> [Ticks -> Nat]]]
         /\ \A c \in Categories, s \in Slugs, t \in Ticks :
              Record(h, r)[c][s][t] =
                IF c = ask[r].category /\ s = ask[r].slug /\ t = at[r]
                THEN h[c][s][t] + 1 ELSE h[c][s][t]
<1> DEFINE k == ask[r].category
           g == ask[r].slug
           m == at[r]
<1>1. k \in Categories /\ g \in Slugs /\ m \in Ticks
  BY DEF Types, DeviceSelectionRequest
<1>2. Record(h, r) = [h EXCEPT ![k][g][m] = @ + 1]
  BY DEF Record
<1> HIDE DEF k, g, m
<1>3. h[k][g][m] + 1 \in Nat
  BY <1>1
<1> DEFINE x == h[k][g][m] + 1
<1>4. Record(h, r) = [h EXCEPT ![k][g][m] = x]
  BY <1>1, <1>2
<1> HIDE DEF x
<1>5. /\ Record(h, r) \in [Categories -> [Slugs -> [Ticks -> Nat]]]
      /\ \A c \in Categories, s \in Slugs, t \in Ticks :
           Record(h, r)[c][s][t] = IF c = k /\ s = g /\ t = m THEN x ELSE h[c][s][t]
  BY <1>1, <1>3, <1>4 DEF x
<1>6. QED
  BY <1>5 DEF k, g, m, x

LEMMA SumRecords ==
  ASSUME Types, NEW r \in Requests, phase[r] # "idle",
         NEW h \in [Categories -> [Slugs -> [Ticks -> Nat]]],
         NEW c \in Categories, NEW s \in Slugs, NEW W \in SUBSET Days
  PROVE  Sum(Record(h, r), c, s, TicksOf(W)) =
           Sum(h, c, s, TicksOf(W)) + (IF Belongs(r, c, s, W) THEN 1 ELSE 0)
<1> DEFINE T == TicksOf(W)
           f == h[c][s]
           g == Record(h, r)[c][s]
<1>1. IsFiniteSet(T) /\ T \subseteq Ticks /\ \A t \in T : f[t] \in Nat
  BY DatesAreFinite DEF TicksOf
<1>2. \A t \in T : g[t] = IF c = ask[r].category /\ s = ask[r].slug /\ t = at[r]
                         THEN f[t] + 1 ELSE f[t]
  BY <1>1, RecordAdds
<1>3. at[r] \in T <=> Day(at[r]) \in W
  BY DEF Types, TicksOf
<1> HIDE DEF T, f, g
<1>4. SumFunctionOnSet(f, T) \in Nat
  BY <1>1, SumIsNatural
<1>5. CASE c = ask[r].category /\ s = ask[r].slug
  <2>1. \A t \in T : g[t] = IF t = at[r] THEN f[t] + 1 ELSE f[t]
    BY <1>2, <1>5
  <2>2. SumFunctionOnSet(g, T) = IF at[r] \in T THEN SumFunctionOnSet(f, T) + 1
                                 ELSE SumFunctionOnSet(f, T)
    BY <1>1, <2>1, SumGrowsByOne
  <2>3. QED
    BY <1>3, <1>4, <1>5, <2>2 DEF Sum, Belongs, T, f, g
<1>6. CASE ~(c = ask[r].category /\ s = ask[r].slug)
  <2>1. SumFunctionOnSet(g, T) = SumFunctionOnSet(f, T)
    BY <1>1, <1>2, <1>6, SumsOfEquals
  <2>2. QED
    BY <1>4, <1>6, <2>1 DEF Sum, Belongs, T, f, g
<1>7. QED
  BY <1>5, <1>6

LEMMA TotalCounts ==
  ASSUME Types, NEW r \in Requests, phase[r] # "idle",
         daily' = [daily EXCEPT ![ask[r].category][ask[r].slug][Day(at[r])] = Counted(r)],
         NEW c \in Categories, NEW s \in Slugs, NEW W \in SUBSET Days
  PROVE  Total(c, s, W)' = Total(c, s, W) + (IF Belongs(r, c, s, W) THEN 1 ELSE 0)
<1> DEFINE f == CountOn(c, s)
           g == CountOn(c, s)'
<1>1. IsFiniteSet(W) /\ \A n \in W : f[n] \in Nat
  <2>1. \A n \in Days : f[n] \in Nat
    BY DEF Types, CountOn, CountedRow
  <2>2. QED
    BY <2>1, DatesAreFinite
<1>2. Counted(r).count = (IF RowOf(r) = NoRow THEN 0 ELSE RowOf(r).count) + 1
  <2>1. RowOf(r) = NoRow \/ RowOf(r).count \in Nat
    <3>1. RowOf(r) \in CountedRow \cup {NoRow}
      BY DayInDays DEF Types, RowOf, DeviceSelectionRequest
    <3>2. QED
      BY <3>1 DEF CountedRow
  <2>2. QED
    BY <2>1 DEF Counted
<1>3. Counted(r) # NoRow
  BY CountedType, NoRowIsNoRow
<1>4. \A n \in W : g[n] = IF c = ask[r].category /\ s = ask[r].slug /\ n = Day(at[r])
                         THEN f[n] + 1 ELSE f[n]
  <2>1. ASSUME NEW n \in W
        PROVE  g[n] = IF c = ask[r].category /\ s = ask[r].slug /\ n = Day(at[r])
                      THEN f[n] + 1 ELSE f[n]
    <3>1. n \in Days
      OBVIOUS
    <3>2. daily'[c][s][n] = IF c = ask[r].category /\ s = ask[r].slug /\ n = Day(at[r])
                            THEN Counted(r) ELSE daily[c][s][n]
      BY <3>1, RowWritten
    <3>3. /\ f[n] = IF daily[c][s][n] = NoRow THEN 0 ELSE daily[c][s][n].count
          /\ g[n] = IF daily'[c][s][n] = NoRow THEN 0 ELSE daily'[c][s][n].count
      BY <3>1 DEF CountOn
    <3> HIDE DEF f, g
    <3>4. CASE c = ask[r].category /\ s = ask[r].slug /\ n = Day(at[r])
      BY <1>2, <1>3, <3>2, <3>3, <3>4 DEF RowOf
    <3>5. QED
      BY <3>2, <3>3, <3>4
  <2>2. QED
    BY <2>1
<1> HIDE DEF f, g
<1>5. SumFunctionOnSet(f, W) \in Nat
  BY <1>1, SumIsNatural
<1>6. CASE c = ask[r].category /\ s = ask[r].slug
  <2>1. SumFunctionOnSet(g, W) = IF Day(at[r]) \in W THEN SumFunctionOnSet(f, W) + 1
                                 ELSE SumFunctionOnSet(f, W)
    BY <1>1, <1>4, <1>6, SumGrowsByOne
  <2>2. QED
    BY <1>5, <1>6, <2>1 DEF Total, Belongs, f, g
<1>7. CASE ~(c = ask[r].category /\ s = ask[r].slug)
  <2>1. SumFunctionOnSet(g, W) = SumFunctionOnSet(f, W)
    BY <1>1, <1>4, <1>7, SumsOfEquals
  <2>2. QED
    BY <1>5, <1>7, <2>1 DEF Total, Belongs, f, g
<1>8. QED
  BY <1>6, <1>7

LEMMA InitHistories == Init => Histories /\ Past
<1> SUFFICES ASSUME Init PROVE Histories /\ Past
  OBVIOUS
<1>1. Histories
  BY DEF Init, Histories, NoSelections
<1>2. Past
  BY DEF Init, Past, NoSelections
<1>3. QED
  BY <1>1, <1>2

LEMMA StepHistories == Types /\ Histories /\ Past /\ [Next]_vars => Histories' /\ Past'
<1> SUFFICES ASSUME Types, Histories, Past, [Next]_vars PROVE Histories' /\ Past'
  OBVIOUS
<1>1. \A r \in Requests : at[r] \in Nat /\ at[r] <= now /\ now \in Nat
  BY NumbersAssumption DEF Types, Past, Ticks
<1>2. ASSUME NEW r \in Requests, Finish(r) PROVE \A q \in Requests : at'[q] <= now
  BY <1>1, <1>2 DEF Finish, Types
<1>3. ASSUME NEW r \in Requests, phase[r] # "idle", NEW h, h = sure \/ h = doubtful
      PROVE  /\ Record(h, r) \in [Categories -> [Slugs -> [Ticks -> Nat]]]
             /\ \A c \in Categories, s \in Slugs, t \in Ticks :
                  t > now => Record(h, r)[c][s][t] = 0
  <2>1. h \in [Categories -> [Slugs -> [Ticks -> Nat]]]
    BY <1>3 DEF Histories
  <2>2. ASSUME NEW c \in Categories, NEW s \in Slugs, NEW t \in Ticks, t > now
        PROVE  Record(h, r)[c][s][t] = 0
    <3>1. h[c][s][t] = 0 /\ t # at[r]
      BY <1>1, <1>3, <2>2, NumbersAssumption DEF Past, Ticks
    <3>2. QED
      BY <1>3, <2>1, <3>1, RecordAdds
  <2>3. QED
    BY <1>3, <2>1, <2>2, RecordAdds
<1>4. ASSUME NEW r \in Requests, NEW a \in Asks, Submit(r, a) PROVE Histories' /\ Past'
  BY <1>4 DEF Submit, Histories, Past
<1>5. ASSUME NEW r \in Requests, Invalid(r) \/ NotFound(r) \/ Cancel(r)
      PROVE  Histories' /\ Past'
  BY <1>2, <1>5 DEF Invalid, NotFound, Cancel, clients, Histories, Past
<1>6. ASSUME NEW r \in Requests, Found(r) PROVE Histories' /\ Past'
  BY <1>1, <1>6 DEF Found, Types, clients, Histories, Past
<1>7. ASSUME NEW r \in Requests, Upsert(r) PROVE Histories' /\ Past'
  BY <1>1, <1>2, <1>7 DEF Upsert, clients, Histories, Past
<1>8. ASSUME NEW r \in Requests, Acknowledge(r) PROVE Histories' /\ Past'
  <2>1. phase[r] # "idle" /\ sure' = Record(sure, r) /\ UNCHANGED <<now, doubtful>>
    BY <1>8 DEF Acknowledge
  <2>2. \A q \in Requests : at'[q] <= now
    BY <1>2, <1>8 DEF Acknowledge
  <2>3. QED
    BY <1>3, <2>1, <2>2 DEF Histories, Past
<1>9. ASSUME NEW r \in Requests, Dropped(r) PROVE Histories' /\ Past'
  <2>1. /\ phase[r] # "idle" /\ UNCHANGED <<now, sure>>
        /\ doubtful' = doubtful \/ doubtful' = Record(doubtful, r)
    BY <1>9 DEF Dropped, Open
  <2>2. \A q \in Requests : at'[q] <= now
    BY <1>1, <1>2, <1>9 DEF Dropped
  <2>3. CASE doubtful' = doubtful
    BY <2>1, <2>2, <2>3 DEF Histories, Past
  <2>4. CASE doubtful' = Record(doubtful, r)
    BY <1>3, <2>1, <2>2, <2>4 DEF Histories, Past
  <2>5. QED
    BY <2>1, <2>3, <2>4
<1>10. ASSUME NEW d \in Devices, NEW v \in Versions[d], Write(d, v)
       PROVE  Histories' /\ Past'
  BY <1>10 DEF Write, clients, Histories, Past
<1>11. ASSUME Tick PROVE Histories' /\ Past'
  <2>1. now' = now + 1 /\ UNCHANGED <<sure, doubtful, at>>
    BY <1>11 DEF Tick, handlers, clients
  <2>2. \A t \in Ticks : t > now + 1 => t > now
    BY <1>1, NumbersAssumption DEF Ticks, Types
  <2>3. \A r \in Requests : at[r] <= now + 1
    BY <1>1
  <2>4. QED
    BY <2>1, <2>2, <2>3 DEF Histories, Past
<1>12. ASSUME UNCHANGED vars PROVE Histories' /\ Past'
  BY <1>12 DEF vars, Histories, Past
<1>13. QED
  BY <1>4, <1>5, <1>6, <1>7, <1>8, <1>9, <1>10, <1>11, <1>12 DEF Next

LEMMA WithIsFinite ==
  ASSUME IsFiniteSet(Busy), NEW p, p # "idle", NEW c, NEW s, NEW W
  PROVE  IsFiniteSet(With(p, c, s, W)) /\ Cardinality(With(p, c, s, W)) \in Nat
<1>1. With(p, c, s, W) \subseteq Busy
  BY DEF With, Busy
<1>2. QED
  BY <1>1, FS_Subset, FS_CardinalityType

(* A request that moves leaves the others of its phase where they are.     *)
LEMMA WithMoves ==
  ASSUME IsFiniteSet(Busy), NEW r \in Requests,
         \A q \in Requests \ {r} :
           phase'[q] = phase[q] /\ ask'[q] = ask[q] /\ at'[q] = at[q],
         NEW p, p # "idle", NEW c, NEW s, NEW W
  PROVE  /\ Cardinality(With(p, c, s, W)) \in Nat
         /\ Cardinality(With(p, c, s, W)') \in Nat
         /\ Cardinality(With(p, c, s, W)') + (IF r \in With(p, c, s, W) THEN 1 ELSE 0)
              = Cardinality(With(p, c, s, W)) + (IF r \in With(p, c, s, W)' THEN 1 ELSE 0)
<1> DEFINE A == With(p, c, s, W)
           B == With(p, c, s, W)'
<1>1. A \ {r} = B \ {r}
  BY DEF With, Belongs
<1>2. IsFiniteSet(A)
  BY WithIsFinite
<1> HIDE DEF A, B
<1>3. /\ Cardinality(A) \in Nat /\ Cardinality(B) \in Nat
      /\ Cardinality(B) + (IF r \in A THEN 1 ELSE 0)
           = Cardinality(A) + (IF r \in B THEN 1 ELSE 0)
  BY <1>1, <1>2, OneElementMoves
<1>4. QED
  BY <1>3 DEF A, B

LEMMA BalanceNumbers ==
  ASSUME Types, Histories, NEW c \in Categories, NEW s \in Slugs, NEW W \in SUBSET Days
  PROVE  /\ Total(c, s, W) \in Nat
         /\ Sum(sure, c, s, TicksOf(W)) \in Nat
         /\ Sum(doubtful, c, s, TicksOf(W)) \in Nat
<1>1. IsFiniteSet(W) /\ IsFiniteSet(TicksOf(W)) /\ TicksOf(W) \subseteq Ticks
  BY DatesAreFinite DEF TicksOf
<1>2. \A n \in W : CountOn(c, s)[n] \in Nat
  BY DEF Types, CountOn, CountedRow
<1>3. \A t \in TicksOf(W) : sure[c][s][t] \in Nat /\ doubtful[c][s][t] \in Nat
  BY <1>1 DEF Histories
<1>4. QED
  BY <1>1, <1>2, <1>3, SumIsNatural DEF Total, Sum

LEMMA FinishMoves ==
  ASSUME Types, NEW r \in Requests, Finish(r)
  PROVE  /\ \A q \in Requests \ {r} :
              phase'[q] = phase[q] /\ ask'[q] = ask[q] /\ at'[q] = at[q]
         /\ \A p, c, s, W : p # "idle" => r \notin With(p, c, s, W)'
  BY DEF Finish, Types, With

LEMMA InitBalance == Init => Balance
<1> SUFFICES ASSUME Init PROVE Balance
  OBVIOUS
<1>1. ASSUME NEW c \in Categories, NEW s \in Slugs, NEW W \in SUBSET Days
      PROVE  /\ Total(c, s, W) = 0
             /\ Sum(sure, c, s, TicksOf(W)) = 0 /\ Sum(doubtful, c, s, TicksOf(W)) = 0
             /\ Cardinality(With("done", c, s, W)) = 0
             /\ Cardinality(With("orphan", c, s, W)) = 0
  <2>1. /\ IsFiniteSet(W) /\ IsFiniteSet(TicksOf(W)) /\ TicksOf(W) \subseteq Ticks
        /\ {} \in SUBSET W /\ {} \in SUBSET TicksOf(W)
    BY DatesAreFinite DEF TicksOf
  <2>2. \A n \in W : CountOn(c, s)[n] = 0
    BY DEF Init, CountOn
  <2>3. \A t \in TicksOf(W) : sure[c][s][t] = 0 /\ doubtful[c][s][t] = 0
    BY <2>1 DEF Init, NoSelections
  <2>4. \A f : SumFunctionOnSet(f, {}) = 0
    BY SumStep, FS_EmptySet
  <2>5. With("done", c, s, W) = {} /\ With("orphan", c, s, W) = {}
    BY DEF Init, With
  <2>6. /\ SumFunctionOnSet(CountOn(c, s), W) = 0
        /\ SumFunctionOnSet(sure[c][s], TicksOf(W)) = 0
        /\ SumFunctionOnSet(doubtful[c][s], TicksOf(W)) = 0
    <3>1. \A n \in W \ {} : CountOn(c, s)[n] = 0
      BY <2>2
    <3>2. \A t \in TicksOf(W) \ {} : sure[c][s][t] = 0 /\ doubtful[c][s][t] = 0
      BY <2>3
    <3>3. SumFunctionOnSet(CountOn(c, s), W) = SumFunctionOnSet(CountOn(c, s), {})
      BY <2>1, <3>1, SumOfNonzero
    <3>4. /\ SumFunctionOnSet(sure[c][s], TicksOf(W)) = SumFunctionOnSet(sure[c][s], {})
          /\ SumFunctionOnSet(doubtful[c][s], TicksOf(W))
               = SumFunctionOnSet(doubtful[c][s], {})
      BY <2>1, <3>2, SumOfNonzero
    <3>5. QED
      BY <2>4, <3>3, <3>4
  <2>7. QED
    BY <2>5, <2>6, FS_EmptySet DEF Total, Sum
<1>2. QED
  BY <1>1 DEF Balance

(* The balance of one slug on some dates, as numbers.                      *)
Balanced(c, s, W) ==
  /\ Total(c, s, W)
       >= Sum(sure, c, s, TicksOf(W)) + Cardinality(With("done", c, s, W))
  /\ Total(c, s, W) + Cardinality(With("orphan", c, s, W))
       <= Sum(sure, c, s, TicksOf(W)) + Cardinality(With("done", c, s, W))
            + Sum(doubtful, c, s, TicksOf(W))

LEMMA StepBalance ==
  Types /\ Budget /\ Histories /\ Balance /\ [Next]_vars => Balance'
<1> SUFFICES ASSUME Types, Budget, Histories, [Next]_vars,
                    NEW c \in Categories, NEW s \in Slugs, NEW W \in SUBSET Days,
                    Balanced(c, s, W)
             PROVE  Balanced(c, s, W)'
  BY DEF Balance, Balanced
<1> DEFINE T == TicksOf(W)
           done == With("done", c, s, W)
           orphans == With("orphan", c, s, W)
<1>1. IsFiniteSet(Busy)
  BY DEF Budget
<1>2. /\ Total(c, s, W) \in Nat /\ Sum(sure, c, s, T) \in Nat /\ Sum(doubtful, c, s, T) \in Nat
      /\ Cardinality(done) \in Nat /\ Cardinality(orphans) \in Nat
  BY <1>1, BalanceNumbers, WithIsFinite
<1>3. /\ daily' = daily => Total(c, s, W)' = Total(c, s, W)
      /\ sure' = sure => Sum(sure, c, s, T)' = Sum(sure, c, s, T)
      /\ doubtful' = doubtful => Sum(doubtful, c, s, T)' = Sum(doubtful, c, s, T)
  BY DEF Total, CountOn, Sum, TicksOf, Day, Ticks
<1>4. \A r \in Requests : \A p :
        r \in With(p, c, s, W) <=> phase[r] = p /\ Belongs(r, c, s, W)
  BY DEF With
<1>5. ASSUME NEW r \in Requests,
             \A q \in Requests \ {r} :
               phase'[q] = phase[q] /\ ask'[q] = ask[q] /\ at'[q] = at[q]
      PROVE  /\ Cardinality(done') \in Nat /\ Cardinality(orphans') \in Nat
             /\ Cardinality(done') + (IF r \in done THEN 1 ELSE 0)
                  = Cardinality(done) + (IF r \in done' THEN 1 ELSE 0)
             /\ Cardinality(orphans') + (IF r \in orphans THEN 1 ELSE 0)
                  = Cardinality(orphans) + (IF r \in orphans' THEN 1 ELSE 0)
  BY <1>1, <1>5, WithMoves
<1>6. ASSUME NEW r \in Requests, Finish(r)
      PROVE  /\ \A q \in Requests \ {r} :
                  phase'[q] = phase[q] /\ ask'[q] = ask[q] /\ at'[q] = at[q]
             /\ r \notin done' /\ r \notin orphans'
  BY <1>6, FinishMoves
<1> HIDE DEF T, done, orphans
<1>7. /\ Balanced(c, s, W)
           <=> /\ Total(c, s, W) >= Sum(sure, c, s, T) + Cardinality(done)
               /\ Total(c, s, W) + Cardinality(orphans)
                    <= Sum(sure, c, s, T) + Cardinality(done) + Sum(doubtful, c, s, T)
      /\ Balanced(c, s, W)'
           <=> /\ Total(c, s, W)' >= Sum(sure, c, s, T)' + Cardinality(done')
               /\ Total(c, s, W)' + Cardinality(orphans')
                    <= Sum(sure, c, s, T)' + Cardinality(done') + Sum(doubtful, c, s, T)'
  BY DEF Balanced, T, done, orphans
<1>8. ASSUME NEW r \in Requests, NEW a \in Asks, Submit(r, a) PROVE Balanced(c, s, W)'
  <2>1. /\ \A q \in Requests \ {r} :
             phase'[q] = phase[q] /\ ask'[q] = ask[q] /\ at'[q] = at[q]
        /\ phase[r] = "idle" /\ phase'[r] = "check"
        /\ UNCHANGED <<daily, sure, doubtful>>
    BY <1>8 DEF Submit, Types
  <2>2. r \notin done /\ r \notin orphans /\ r \notin done' /\ r \notin orphans'
    BY <2>1 DEF With, done, orphans
  <2>3. QED
    BY <1>2, <1>3, <1>5, <1>7, <2>1, <2>2
<1>9. ASSUME NEW r \in Requests, Invalid(r) \/ NotFound(r) PROVE Balanced(c, s, W)'
  <2>1. Finish(r) /\ phase[r] = "check" /\ UNCHANGED <<daily, sure, doubtful>>
    BY <1>9 DEF Invalid, NotFound, clients
  <2>2. r \notin done /\ r \notin orphans
    BY <2>1 DEF With, done, orphans
  <2>3. QED
    BY <1>2, <1>3, <1>5, <1>6, <1>7, <2>1, <2>2
<1>10. ASSUME NEW r \in Requests, Found(r) PROVE Balanced(c, s, W)'
  <2>1. /\ \A q \in Requests \ {r} :
             phase'[q] = phase[q] /\ ask'[q] = ask[q] /\ at'[q] = at[q]
        /\ phase[r] = "check" /\ phase'[r] = "insert"
        /\ UNCHANGED <<daily, sure, doubtful>>
    BY <1>10 DEF Found, Types, clients
  <2>2. r \notin done /\ r \notin orphans /\ r \notin done' /\ r \notin orphans'
    BY <2>1 DEF With, done, orphans
  <2>3. QED
    BY <1>2, <1>3, <1>5, <1>7, <2>1, <2>2
<1>11. ASSUME NEW r \in Requests, Upsert(r) PROVE Balanced(c, s, W)'
  <2>1. phase[r] # "idle" /\ UNCHANGED <<sure, doubtful>>
    BY <1>11 DEF Upsert, clients
  <2>2. Total(c, s, W)' = Total(c, s, W) + (IF Belongs(r, c, s, W) THEN 1 ELSE 0)
    BY <1>11, <2>1, TotalCounts DEF Upsert
  <2>3. CASE phase[r] = "insert"
    <3>1. /\ \A q \in Requests \ {r} :
               phase'[q] = phase[q] /\ ask'[q] = ask[q] /\ at'[q] = at[q]
          /\ phase'[r] = "done" /\ Belongs(r, c, s, W)' = Belongs(r, c, s, W)
      BY <1>11, <2>3 DEF Upsert, Types, Belongs
    <3>2. /\ r \notin done /\ r \notin orphans /\ r \notin orphans'
          /\ r \in done' <=> Belongs(r, c, s, W)
      BY <2>3, <3>1 DEF With, done, orphans
    <3>3. QED
      BY <1>2, <1>3, <1>5, <1>7, <2>1, <2>2, <3>1, <3>2
  <2>4. CASE phase[r] = "orphan"
    <3>1. Finish(r)
      BY <1>11, <2>4 DEF Upsert
    <3>2. r \notin done /\ (r \in orphans <=> Belongs(r, c, s, W))
      BY <2>4 DEF With, done, orphans
    <3>3. QED
      BY <1>2, <1>3, <1>5, <1>6, <1>7, <2>1, <2>2, <3>1, <3>2
  <2>5. QED
    BY <1>11, <2>3, <2>4 DEF Upsert
<1>12. ASSUME NEW r \in Requests, Acknowledge(r) PROVE Balanced(c, s, W)'
  <2>1. /\ Finish(r) /\ phase[r] = "done" /\ UNCHANGED <<daily, doubtful>>
        /\ sure' = Record(sure, r)
    BY <1>12 DEF Acknowledge
  <2>2. Sum(sure, c, s, T)' = Sum(sure, c, s, T) + (IF Belongs(r, c, s, W) THEN 1 ELSE 0)
    <3>1. Sum(sure, c, s, T)' = Sum(Record(sure, r), c, s, T)
      BY <2>1 DEF Sum, T, TicksOf, Day, Ticks
    <3>2. QED
      BY <2>1, <3>1, SumRecords DEF Histories, T
  <2>3. r \notin orphans /\ (r \in done <=> Belongs(r, c, s, W))
    BY <2>1 DEF With, done, orphans
  <2>4. QED
    BY <1>2, <1>3, <1>5, <1>6, <1>7, <2>1, <2>2, <2>3
<1>13. ASSUME NEW r \in Requests, Dropped(r) PROVE Balanced(c, s, W)'
  <2>1. UNCHANGED <<daily, sure>> /\ phase[r] \in {"check", "insert", "done"}
    BY <1>13 DEF Dropped, Open
  <2>2. ASSUME phase[r] # "check"
        PROVE  Sum(doubtful, c, s, T)'
                 = Sum(doubtful, c, s, T) + (IF Belongs(r, c, s, W) THEN 1 ELSE 0)
    <3>1. doubtful' = Record(doubtful, r)
      BY <1>13, <2>2 DEF Dropped
    <3>2. Sum(doubtful, c, s, T)' = Sum(Record(doubtful, r), c, s, T)
      BY <3>1 DEF Sum, T, TicksOf, Day, Ticks
    <3>3. phase[r] # "idle" /\ doubtful \in [Categories -> [Slugs -> [Ticks -> Nat]]]
      BY <2>1 DEF Histories
    <3>4. QED
      BY <3>2, <3>3, SumRecords DEF T
  <2>3. CASE phase[r] = "check"
    <3>1. Finish(r) /\ UNCHANGED doubtful
      BY <1>13, <2>3 DEF Dropped
    <3>2. r \notin done /\ r \notin orphans
      BY <2>3 DEF With, done, orphans
    <3>3. QED
      BY <1>2, <1>3, <1>5, <1>6, <1>7, <2>1, <3>1, <3>2
  <2>4. CASE phase[r] = "insert"
    <3>1. /\ \A q \in Requests \ {r} :
               phase'[q] = phase[q] /\ ask'[q] = ask[q] /\ at'[q] = at[q]
          /\ phase'[r] = "orphan" /\ Belongs(r, c, s, W)' = Belongs(r, c, s, W)
      BY <1>13, <2>4 DEF Dropped, Types, Belongs
    <3>2. /\ r \notin done /\ r \notin orphans /\ r \notin done'
          /\ r \in orphans' <=> Belongs(r, c, s, W)
      BY <2>4, <3>1 DEF With, done, orphans
    <3>3. QED
      BY <1>2, <1>3, <1>5, <1>7, <2>1, <2>2, <2>4, <3>1, <3>2
  <2>5. CASE phase[r] = "done"
    <3>1. Finish(r)
      BY <1>13, <2>5 DEF Dropped
    <3>2. r \notin orphans /\ (r \in done <=> Belongs(r, c, s, W))
      BY <2>5 DEF With, done, orphans
    <3>3. QED
      BY <1>2, <1>3, <1>5, <1>6, <1>7, <2>1, <2>2, <2>5, <3>1, <3>2
  <2>6. QED
    BY <2>1, <2>3, <2>4, <2>5
<1>14. ASSUME NEW r \in Requests, Cancel(r) PROVE Balanced(c, s, W)'
  <2>1. Finish(r) /\ phase[r] = "orphan" /\ UNCHANGED <<daily, sure, doubtful>>
    BY <1>14 DEF Cancel, clients
  <2>2. r \notin done
    BY <2>1 DEF With, done
  <2>3. QED
    BY <1>2, <1>3, <1>5, <1>6, <1>7, <2>1, <2>2
<1>15. ASSUME UNCHANGED <<daily, phase, ask, at, sure, doubtful>> PROVE Balanced(c, s, W)'
  <2>1. done' = done /\ orphans' = orphans
    BY <1>15 DEF done, orphans, With, Belongs, Day
  <2>2. QED
    BY <1>3, <1>7, <1>15, <2>1
<1>16. ASSUME NEW d \in Devices, NEW v \in Versions[d], Write(d, v)
       PROVE  Balanced(c, s, W)'
  BY <1>15, <1>16 DEF Write, clients
<1>17. ASSUME Tick \/ UNCHANGED vars PROVE Balanced(c, s, W)'
  BY <1>15, <1>17 DEF Tick, vars, handlers, clients
<1>18. QED
  BY <1>8, <1>9, <1>10, <1>11, <1>12, <1>13, <1>14, <1>16, <1>17 DEF Next

Accounting == Types /\ Stored /\ Budget /\ Histories /\ Past /\ Balance

LEMMA AccountingHolds == Spec => []Accounting
<1>1. Init => Accounting
  BY InitTypes, InitStored, InitBudget, InitHistories, InitBalance DEF Accounting
<1>2. Accounting /\ [Next]_vars => Accounting'
  BY StepTypes, StepStored, StepBudget, StepHistories, StepBalance DEF Accounting
<1>3. QED
  BY <1>1, <1>2, PTL DEF Spec

(* What the lists rank by is the total of the dates of the window.         *)
LEMMA CountIsTotal ==
  ASSUME Types, NEW c \in Categories, NEW s \in Slugs
  PROVE  SelectionCount(c, s) = Total(c, s, Window) /\ SelectionCount(c, s) \in Nat
<1> DEFINE f == CountOn(c, s)
           A == Selected(c, s)
           g == [n \in A |-> daily[c][s][n].count]
<1>1. /\ Window \in SUBSET Days /\ A \in SUBSET Window
      /\ IsFiniteSet(Window) /\ IsFiniteSet(A)
  <2>1. Window \in SUBSET Days /\ A \in SUBSET Window
    BY DEF Window, Selected
  <2>2. QED
    BY <2>1, DatesAreFinite, FS_Subset
<1>2. \A n \in Days : f[n] \in Nat
  BY DEF Types, CountOn, CountedRow
<1>3. \A n \in Window \ A : f[n] = 0
  BY <1>1 DEF Selected, CountOn
<1>4. \A n \in A : g[n] = f[n]
  BY <1>1 DEF Selected, CountOn
<1>5. SelectionCount(c, s) = SumFunctionOnSet(g, A)
  BY DEF SelectionCount, SumFunction
<1> HIDE DEF f, A, g
<1>6. SumFunctionOnSet(g, A) = SumFunctionOnSet(f, A)
  BY <1>1, <1>4, SumsOfEquals
<1>7. SumFunctionOnSet(f, Window) = SumFunctionOnSet(f, A)
  <2>1. \A n \in A : f[n] \in Nat
    BY <1>1, <1>2
  <2>2. QED
    BY <1>1, <1>3, <2>1, SumOfNonzero
<1>8. SumFunctionOnSet(f, Window) \in Nat
  BY <1>1, <1>2, SumIsNatural
<1>9. QED
  BY <1>5, <1>6, <1>7, <1>8 DEF Total, f

LEMMA DaysAreNumbers ==
  /\ \A t \in Ticks : Day(t) \in Nat
  /\ Days \subseteq Nat
<1>1. \A t \in Ticks : t \in Nat
  BY NumbersAssumption DEF Ticks
<1>2. TicksPerDay \in Nat \ {0}
  BY NumbersAssumption
<1>3. ASSUME NEW t \in Nat, NEW k \in Nat \ {0} PROVE t \div k \in Nat
  OBVIOUS
<1>4. QED
  BY <1>1, <1>2, <1>3 DEF Day, Days

(* Each selection answered 204 is counted once among the recent ones that  *)
(* the lists rank by, and nothing else but what its client is in doubt     *)
(* about: for any number of requests, slugs and dates.                     *)
THEOREM RecentSelectionsCounted == Spec => []CountsAreRecentSelections
<1>1. Accounting => CountsAreRecentSelections
  <2> SUFFICES ASSUME Accounting, NEW c \in Categories, NEW s \in Slugs
               PROVE  LET recent == {t \in Ticks : t <= now /\ Today - Day(t) < WindowDays}
                          unanswered == {r \in Requests :
                                           phase[r] = "done" /\ at[r] \in recent
                                           /\ ask[r].category = c /\ ask[r].slug = s}
                          least == Sum(sure, c, s, recent) + Cardinality(unanswered)
                      IN  SelectionCount(c, s)
                            \in least..(least + Sum(doubtful, c, s, recent))
    BY DEF CountsAreRecentSelections
  <2> DEFINE recent == {t \in Ticks : t <= now /\ Today - Day(t) < WindowDays}
             unanswered == {r \in Requests :
                              phase[r] = "done" /\ at[r] \in recent
                              /\ ask[r].category = c /\ ask[r].slug = s}
             least == Sum(sure, c, s, recent) + Cardinality(unanswered)
             T == TicksOf(Window)
  <2>1. Types /\ Budget /\ Histories /\ Past /\ Balance
    BY DEF Accounting
  <2>2. Window \in SUBSET Days
    BY DEF Window
  <2>3. now \in Nat /\ Today \in Nat /\ WindowDays \in Nat
    BY <2>1, DaysAreNumbers, NumbersAssumption DEF Types, Ticks, Today
  <2>4. \A t \in Ticks : Day(t) \in Window <=> Today - Day(t) < WindowDays
    BY <2>3, DayInDays, DaysAreNumbers DEF Window
  <2>5. /\ IsFiniteSet(T) /\ T \subseteq Ticks /\ recent \in SUBSET T
        /\ \A t \in T \ recent : t > now
    <3>1. IsFiniteSet(T)
      BY <2>2, DatesAreFinite
    <3>2. \A t \in Ticks : t \in Nat
      BY NumbersAssumption DEF Ticks
    <3>3. T \subseteq Ticks /\ \A t \in Ticks : t \in T <=> Day(t) \in Window
      BY DEF TicksOf
    <3> HIDE DEF T
    <3>4. recent \in SUBSET T
      BY <2>4, <3>3
    <3>5. \A t \in T \ recent : t > now
      BY <2>3, <2>4, <3>2, <3>3
    <3>6. QED
      BY <3>1, <3>3, <3>4, <3>5
  <2>6. unanswered = With("done", c, s, Window)
    BY <2>1, <2>4 DEF Types, Past, With, Belongs
  <2>7. ASSUME NEW h \in [Categories -> [Slugs -> [Ticks -> Nat]]],
               \A t \in Ticks : t > now => h[c][s][t] = 0
        PROVE  Sum(h, c, s, T) = Sum(h, c, s, recent)
    <3> DEFINE f == h[c][s]
    <3>1. \A t \in recent : f[t] \in Nat
      BY <2>5
    <3>2. \A t \in T \ recent : f[t] = 0
      BY <2>5, <2>7
    <3> HIDE DEF f, T, recent
    <3>3. SumFunctionOnSet(f, T) = SumFunctionOnSet(f, recent)
      BY <2>5, <3>1, <3>2, SumOfNonzero
    <3>4. QED
      BY <3>3 DEF Sum, f
  <2>8. /\ Sum(sure, c, s, T) = Sum(sure, c, s, recent)
        /\ Sum(doubtful, c, s, T) = Sum(doubtful, c, s, recent)
    <3> HIDE DEF T, recent
    <3>1. QED
      BY <2>1, <2>7 DEF Histories, Past
  <2>9. Balanced(c, s, Window)
    BY <2>1, <2>2 DEF Balance, Balanced
  <2>10. SelectionCount(c, s) = Total(c, s, Window)
    BY <2>1, CountIsTotal
  <2>11. /\ Total(c, s, Window) \in Nat /\ Sum(sure, c, s, T) \in Nat
         /\ Sum(doubtful, c, s, T) \in Nat
    BY <2>1, <2>2, BalanceNumbers
  <2>12. /\ Cardinality(unanswered) \in Nat
         /\ Cardinality(With("orphan", c, s, Window)) \in Nat
    BY <2>1, <2>6, WithIsFinite DEF Budget
  <2>13. SelectionCount(c, s) \in least..(least + Sum(doubtful, c, s, recent))
    <3> HIDE DEF T, recent, unanswered
    <3>1. QED
      BY <2>6, <2>8, <2>9, <2>10, <2>11, <2>12 DEF Balanced, T
  <2>14. QED
    BY <2>13
<1>2. QED
  BY <1>1, AccountingHolds, PTL

(***************************************************************************)
(* The lists.  ORDER BY compares by number of selections, last selection,  *)
(* release and slug, and the slugs of a category are unique: there is one  *)
(* order, and the first places of it are the list.                         *)
(***************************************************************************)
LEMMA LastIsNatural ==
  ASSUME Types, NEW c \in Categories, NEW s \in Slugs, Selected(c, s) # {}
  PROVE  LastSelected(c, s) \in Nat
<1> DEFINE L == {daily[c][s][n].last : n \in Selected(c, s)}
<1>1. \A n \in Selected(c, s) : daily[c][s][n].last \in Ticks
  BY DEF Types, Selected, Window, CountedRow
<1>2. L # {} /\ L \in SUBSET Nat /\ \A t \in L : t <= LastTick
  BY <1>1, NumbersAssumption DEF Ticks
<1>3. Max(L) \in L
  <2> HIDE DEF L
  <2>1. QED
    BY <1>2, GreatestNatural, NumbersAssumption
<1>4. QED
  BY <1>2, <1>3 DEF LastSelected

LEMMA NothingCountedIsZero ==
  ASSUME NEW c, NEW s, Selected(c, s) = {}
  PROVE  SelectionCount(c, s) = 0
  BY SumStep, FS_EmptySet DEF SelectionCount, SumFunction

LEMMA RankingOrders ==
  ASSUME Types, Stored, NEW c \in Categories
  PROVE  OrdersRows(Listable(c), Ranking(c))
<1> DEFINE has(d) == Selected(c, model[d].slug) # {}
           number(d) == SelectionCount(c, model[d].slug)
           last(d) == LastSelected(c, model[d].slug)
           slug(d) == model[d].slug
           born(d) == ReleaseDay[d]
           newer(d, e) == born(d) > born(e) \/ (born(d) = born(e) /\ slug(d) < slug(e))
           before(d, e) ==
             \/ has(d) /\ ~has(e)
             \/ ~has(d) /\ ~has(e) /\ newer(d, e)
             \/ has(d) /\ has(e) /\ number(d) > number(e)
             \/ /\ has(d) /\ has(e) /\ number(d) = number(e)
                /\ last(d) > last(e) \/ (last(d) = last(e) /\ newer(d, e))
           S == Listable(c)
<1>1. \A d \in S : d \in Devices /\ Category[d] = c /\ model[d].slug \in Slugs
  BY DEF Listable, Types
<1>2. \A d \in S : number(d) \in Nat /\ slug(d) \in Nat /\ born(d) \in Nat
  BY <1>1, CountIsTotal, VersionsAssumption, NumbersAssumption
<1>3. \A d \in S : has(d) => last(d) \in Nat
  BY <1>1, LastIsNatural
<1>4. \A d, e \in S : d # e => slug(d) # slug(e)
  BY <1>1 DEF Stored, SlugsUnique
<1>5. \A d, e \in S : <<d, e>> \in Ranking(c) <=> before(d, e)
  BY DEF Ranking, Before, Newer
<1> HIDE DEF has, number, last, slug, born, S
<1>6. \A d \in S : ~before(d, d)
  BY <1>2, <1>3
<1>7. \A d, e \in S : d # e => before(d, e) \/ before(e, d)
  BY <1>2, <1>3, <1>4
<1>8. ASSUME NEW d \in S, NEW e \in S, NEW f \in S, before(d, e), before(e, f)
      PROVE  before(d, f)
  BY <1>2, <1>3, <1>8
<1> HIDE DEF before
<1>9. \A d, e, f \in S :
        <<d, e>> \in Ranking(c) /\ <<e, f>> \in Ranking(c) => <<d, f>> \in Ranking(c)
  BY <1>5, <1>8
<1>10. QED
  BY <1>5, <1>6, <1>7, <1>9 DEF OrdersRows, S

(* The first places of an order: as many as there are rows or places, each *)
(* with a row of its own, and no row left out that is before one of them.  *)
LEMMA FirstOfOrder ==
  ASSUME NEW S, IsFiniteSet(S), NEW R, OrdersRows(S, R), NEW k \in Nat
  PROVE  LET seq == FirstOf(OrderedBy(S, R), k)
         IN  /\ seq \in Seq(S) /\ IsInjective(seq)
             /\ Len(seq) = IF Cardinality(S) < k THEN Cardinality(S) ELSE k
             /\ Cardinality(ToSet(seq)) = Len(seq)
             /\ Cardinality(S) < k => ToSet(seq) = S
             /\ \A i, j \in 1 .. Len(seq) : i < j => <<seq[i], seq[j]>> \in R
             /\ \A x \in ToSet(seq), y \in S \ ToSet(seq) : <<x, y>> \in R
<1> DEFINE n == Cardinality(S)
           all == OrderedBy(S, R)
           m == IF n < k THEN n ELSE k
           seq == FirstOf(all, k)
<1>1. /\ n \in Nat /\ all \in [1 .. n -> S]
      /\ \A x \in S : \E i \in 1 .. n : all[i] = x
      /\ \A i, j \in 1 .. n : i < j => <<all[i], all[j]>> \in R
  BY RowsAreOrdered
<1> HIDE DEF n, all
<1>2. all \in Seq(S) /\ Len(all) = n
  BY <1>1
<1>3. m \in 0 .. n /\ m \in Nat
  BY <1>1
<1>4. seq = SubSeq(all, 1, m)
  BY <1>2 DEF FirstOf
<1>5. /\ seq \in Seq(S) /\ Len(seq) = m
      /\ \A i \in 1 .. m : seq[i] = all[i]
  BY <1>1, <1>2, <1>3, <1>4, SubSeqProperties
<1> HIDE DEF seq
<1>6. \A i, j \in 1 .. m : i < j => <<seq[i], seq[j]>> \in R
  BY <1>1, <1>3, <1>5
<1>7. IsInjective(seq)
  <2>1. ASSUME NEW i \in DOMAIN seq, NEW j \in DOMAIN seq, seq[i] = seq[j], i # j PROVE FALSE
    <3>1. i \in 1 .. m /\ j \in 1 .. m
      BY <1>5
    <3>2. i < j \/ j < i
      BY <1>3, <2>1, <3>1
    <3>3. <<seq[i], seq[j]>> \in R
      BY <1>6, <2>1, <3>1, <3>2
    <3>4. seq[i] \in S
      BY <1>5, <3>1
    <3>5. QED
      BY <2>1, <3>3, <3>4 DEF OrdersRows
  <2>2. QED
    BY <2>1 DEF IsInjective
<1>8. Cardinality(ToSet(seq)) = Len(seq)
  BY <1>5, <1>7, ElementsOfSeq
<1>9. ToSet(seq) = {seq[i] : i \in 1 .. m}
  BY <1>5 DEF ToSet
<1>10. n < k => ToSet(seq) = S
  <2>1. ASSUME n < k PROVE ToSet(seq) = S
    <3>1. m = n
      BY <2>1
    <3>2. QED
      BY <1>1, <1>5, <1>9, <3>1
  <2>2. QED
    BY <2>1
<1>11. ASSUME NEW x \in ToSet(seq), NEW y \in S \ ToSet(seq) PROVE <<x, y>> \in R
  <2>1. PICK i \in 1 .. m : seq[i] = x
    BY <1>9
  <2>2. PICK j \in 1 .. n : all[j] = y
    BY <1>1
  <2>3. j \notin 1 .. m
    BY <1>5, <1>9, <2>2
  <2>4. i < j /\ i \in 1 .. n
    BY <1>1, <1>3, <2>3
  <2>5. QED
    BY <1>1, <1>5, <2>1, <2>2, <2>4
<1>12. QED
  BY <1>5, <1>6, <1>7, <1>8, <1>10, <1>11 DEF seq, n, all

LEMMA ListsAreRanked ==
  ASSUME Types, Stored, NEW c \in Categories
  PROVE  /\ IsFiniteSet(Listable(c)) /\ OrdersRows(Listable(c), Ranking(c))
         /\ ItemsPerCategory \in Nat
<1>1. Listable(c) \subseteq Devices
  BY DEF Listable
<1>2. QED
  BY <1>1, FS_Subset, DevicesAssumption, RankingOrders, NumbersAssumption

(* Each list holds the listable devices that were selected most often, and *)
(* is filled up by others, for any number of devices and places.           *)
THEOREM MostSelectedAreListed == Spec => []RankedAndFilled
<1>1. Accounting => RankedAndFilled
  <2> SUFFICES ASSUME Accounting, NEW c \in Categories
               PROVE  LET listed == ToSet(LoadPopular(c))
                          public == {d \in Devices :
                                       /\ Category[d] = c /\ model[d].published
                                       /\ c = "smartphone" => ReleaseDay[d] <= Today}
                      IN  /\ listed \subseteq public
                          /\ \/ listed = public
                             \/ Cardinality(listed) = ItemsPerCategory
                          /\ \A d \in listed, e \in public \ listed :
                               SelectionCount(c, model[d].slug)
                                 >= SelectionCount(c, model[e].slug)
    BY DEF RankedAndFilled
  <2> DEFINE listed == ToSet(LoadPopular(c))
             public == Listable(c)
  <2>1. Types /\ Stored
    BY DEF Accounting
  <2>2. /\ LoadPopular(c) \in Seq(public)
        /\ Len(LoadPopular(c)) = IF Cardinality(public) < ItemsPerCategory
                                 THEN Cardinality(public) ELSE ItemsPerCategory
        /\ Cardinality(listed) = Len(LoadPopular(c))
        /\ Cardinality(public) < ItemsPerCategory => listed = public
        /\ \A d \in listed, e \in public \ listed : <<d, e>> \in Ranking(c)
    BY <2>1, ListsAreRanked, FirstOfOrder DEF LoadPopular
  <2>3. listed \subseteq public
    BY <2>2, ElementsOfSeq
  <2>4. listed = public \/ Cardinality(listed) = ItemsPerCategory
    BY <2>2
  <2>5. ASSUME NEW d \in listed, NEW e \in public \ listed
        PROVE  SelectionCount(c, model[d].slug) >= SelectionCount(c, model[e].slug)
    <3>1. Before(c, d, e)
      BY <2>2 DEF Ranking
    <3>2. model[d].slug \in Slugs /\ model[e].slug \in Slugs
      BY <2>1, <2>3 DEF Listable, Types
    <3>3. /\ SelectionCount(c, model[d].slug) \in Nat
          /\ SelectionCount(c, model[e].slug) \in Nat
      BY <2>1, <3>2, CountIsTotal
    <3>4. CASE Selected(c, model[e].slug) = {}
      BY <3>3, <3>4, NothingCountedIsZero
    <3>5. CASE Selected(c, model[e].slug) # {}
      BY <3>1, <3>3, <3>5 DEF Before
    <3>6. QED
      BY <3>4, <3>5
  <2>6. public = {d \in Devices : /\ Category[d] = c /\ model[d].published
                                  /\ c = "smartphone" => ReleaseDay[d] <= Today}
    BY DEF Listable
  <2> HIDE DEF listed, public
  <2>7. QED
    BY <2>3, <2>4, <2>5, <2>6 DEF listed
<1>2. QED
  BY <1>1, AccountingHolds, PTL

(***************************************************************************)
(* The items.  With lists of a smartphones and b cameras, the places that  *)
(* belong to the smartphones, and how many of them are among the first k.  *)
(***************************************************************************)
Both(a, b) == 2 * (IF a < b THEN a ELSE b)
Firsts(a, b) ==
  {k \in 1 .. a + b : (k <= Both(a, b) /\ k % 2 = 1) \/ (k > Both(a, b) /\ a > b)}
Seconds(a, b) == (1 .. a + b) \ Firsts(a, b)
FirstUpTo(a, b, k) ==
  IF k <= Both(a, b) THEN (k + 1) \div 2 ELSE IF a > b THEN k - b ELSE a
SecondUpTo(a, b, k) ==
  IF k <= Both(a, b) THEN k \div 2 ELSE IF a > b THEN b ELSE k - a

LEMMA TurnBounds ==
  ASSUME NEW a \in Nat, NEW b \in Nat
  PROVE  /\ FirstUpTo(a, b, 0) = 0 /\ SecondUpTo(a, b, 0) = 0
         /\ FirstUpTo(a, b, a + b) = a /\ SecondUpTo(a, b, a + b) = b
         /\ \A k \in 0 .. a + b :
              /\ FirstUpTo(a, b, k) \in Nat /\ SecondUpTo(a, b, k) \in Nat
              /\ FirstUpTo(a, b, k) > SecondUpTo(a, b, k) + 1 => SecondUpTo(a, b, k) = b
              /\ SecondUpTo(a, b, k) > FirstUpTo(a, b, k) + 1 => FirstUpTo(a, b, k) = a
         /\ \A k \in Firsts(a, b) : FirstUpTo(a, b, k) \in 1 .. a
         /\ \A k \in Seconds(a, b) : SecondUpTo(a, b, k) \in 1 .. b
<1>1. \A k \in Nat : /\ k \div 2 \in Nat /\ (k + 1) \div 2 \in Nat
                     /\ k % 2 = 1 => (k + 1) \div 2 = k \div 2 + 1 /\ k = 2 * (k \div 2) + 1
                     /\ k % 2 # 1 => (k + 1) \div 2 = k \div 2 /\ k = 2 * (k \div 2)
  OBVIOUS
<1>2. FirstUpTo(a, b, 0) = 0 /\ SecondUpTo(a, b, 0) = 0
  BY DEF FirstUpTo, SecondUpTo, Both
<1>3. FirstUpTo(a, b, a + b) = a /\ SecondUpTo(a, b, a + b) = b
  <2>1. CASE a < b
    BY <2>1 DEF FirstUpTo, SecondUpTo, Both
  <2>2. CASE a >= b
    BY <2>2 DEF FirstUpTo, SecondUpTo, Both
  <2>3. QED
    BY <2>1, <2>2
<1>4. ASSUME NEW k \in 0 .. a + b
      PROVE  /\ FirstUpTo(a, b, k) \in Nat /\ SecondUpTo(a, b, k) \in Nat
             /\ FirstUpTo(a, b, k) > SecondUpTo(a, b, k) + 1 => SecondUpTo(a, b, k) = b
             /\ SecondUpTo(a, b, k) > FirstUpTo(a, b, k) + 1 => FirstUpTo(a, b, k) = a
  BY <1>1 DEF FirstUpTo, SecondUpTo, Both
<1>5. ASSUME NEW k \in 1 .. a + b
      PROVE  /\ k \in Firsts(a, b) => FirstUpTo(a, b, k) \in 1 .. a
             /\ k \in Seconds(a, b) => SecondUpTo(a, b, k) \in 1 .. b
  BY <1>1 DEF FirstUpTo, SecondUpTo, Firsts, Seconds, Both
<1>6. \A k \in Firsts(a, b) \cup Seconds(a, b) : k \in 1 .. a + b
  BY DEF Firsts, Seconds
<1>7. QED
  BY <1>2, <1>3, <1>4, <1>5, <1>6

LEMMA TurnSteps ==
  ASSUME NEW a \in Nat, NEW b \in Nat, NEW k \in 1 .. a + b
  PROVE  /\ FirstUpTo(a, b, k)
              = FirstUpTo(a, b, k - 1) + (IF k \in Firsts(a, b) THEN 1 ELSE 0)
         /\ SecondUpTo(a, b, k)
              = SecondUpTo(a, b, k - 1) + (IF k \in Seconds(a, b) THEN 1 ELSE 0)
<1>1. \A i \in Nat : /\ i \div 2 \in Nat /\ (i + 1) \div 2 \in Nat
                     /\ i % 2 = 1 => (i + 1) \div 2 = i \div 2 + 1 /\ i = 2 * (i \div 2) + 1
                     /\ i % 2 # 1 => (i + 1) \div 2 = i \div 2 /\ i = 2 * (i \div 2)
  OBVIOUS
<1>2. QED
  BY <1>1 DEF FirstUpTo, SecondUpTo, Firsts, Seconds, Both

LEMMA TurnsMoveOn ==
  ASSUME NEW a \in Nat, NEW b \in Nat, NEW i \in 1 .. a + b, NEW j \in 1 .. a + b, i < j
  PROVE  /\ i \in Firsts(a, b) /\ j \in Firsts(a, b) => FirstUpTo(a, b, i) < FirstUpTo(a, b, j)
         /\ i \in Seconds(a, b) /\ j \in Seconds(a, b)
              => SecondUpTo(a, b, i) < SecondUpTo(a, b, j)
<1>1. \A k \in Nat : /\ k \div 2 \in Nat /\ (k + 1) \div 2 \in Nat
                     /\ k % 2 = 1 => (k + 1) \div 2 = k \div 2 + 1 /\ k = 2 * (k \div 2) + 1
                     /\ k % 2 # 1 => (k + 1) \div 2 = k \div 2 /\ k = 2 * (k \div 2)
  OBVIOUS
<1>2. QED
  BY <1>1 DEF FirstUpTo, SecondUpTo, Firsts, Seconds, Both

LEMMA TurnItems ==
  ASSUME NEW S, NEW s \in Seq(S), NEW t \in Seq(S)
  PROVE  LET a == Len(s)
             b == Len(t)
         IN  /\ Len(InTurn(s, t)) = a + b
             /\ DOMAIN InTurn(s, t) = 1 .. a + b
             /\ \A k \in 1 .. a + b :
                  InTurn(s, t)[k] = IF k \in Firsts(a, b) THEN s[FirstUpTo(a, b, k)]
                                    ELSE t[SecondUpTo(a, b, k)]
<1> DEFINE a == Len(s)
           b == Len(t)
<1>1. a \in Nat /\ b \in Nat /\ a + b \in Nat
  OBVIOUS
<1>2. InTurn(s, t) =
        [k \in 1..(a + b) |->
           IF k <= Both(a, b)
           THEN IF k % 2 = 1 THEN s[(k + 1) \div 2] ELSE t[(k + 1) \div 2]
           ELSE IF a > b THEN s[k - b] ELSE t[k - a]]
  BY DEF InTurn, Both
<1>3. Len(InTurn(s, t)) = a + b /\ DOMAIN InTurn(s, t) = 1 .. a + b
  <2> HIDE DEF a, b
  <2>1. QED
    BY <1>1, <1>2
<1>4. ASSUME NEW k \in 1 .. a + b
      PROVE  InTurn(s, t)[k] = IF k \in Firsts(a, b) THEN s[FirstUpTo(a, b, k)]
                               ELSE t[SecondUpTo(a, b, k)]
  <2> HIDE DEF a, b
  <2>1. InTurn(s, t)[k] =
          IF k <= Both(a, b)
          THEN IF k % 2 = 1 THEN s[(k + 1) \div 2] ELSE t[(k + 1) \div 2]
          ELSE IF a > b THEN s[k - b] ELSE t[k - a]
    BY <1>2
  <2>2. k \in Nat /\ Both(a, b) \in Nat /\ (k % 2 # 1 => (k + 1) \div 2 = k \div 2)
    BY <1>1 DEF Both
  <2>3. QED
    BY <1>1, <2>1, <2>2 DEF Firsts, FirstUpTo, SecondUpTo
<1>5. QED
  BY <1>3, <1>4

(* The items of a category among the first n.                              *)
ShownIn(items, c, n) == Cardinality({i \in 1..n : Category[items[i]] = c})

TakenInTurn(items, s, t, a, b) ==
  /\ IsInjective(items)
  /\ \A k \in 0 .. a + b :
       /\ ShownIn(items, "smartphone", k) = FirstUpTo(a, b, k)
       /\ ShownIn(items, "camera", k) = SecondUpTo(a, b, k)
  /\ \A k \in 1 .. a + b :
       /\ Category[items[k]] = "smartphone" => items[k] = s[FirstUpTo(a, b, k)]
       /\ Category[items[k]] = "camera" => items[k] = t[SecondUpTo(a, b, k)]

(* Two lists without repetitions, of smartphones and of cameras, in turn.  *)
LEMMA InTurnShows ==
  ASSUME NEW s \in Seq(Devices), NEW t \in Seq(Devices), IsInjective(s), IsInjective(t),
         \A i \in 1 .. Len(s) : Category[s[i]] = "smartphone",
         \A i \in 1 .. Len(t) : Category[t[i]] = "camera",
         NEW items, items = InTurn(s, t)
  PROVE  TakenInTurn(items, s, t, Len(s), Len(t))
<1> DEFINE a == Len(s)
           b == Len(t)
           N == a + b
           P == Firsts(a, b)
           Q == Seconds(a, b)
           f == [k \in 0 .. N |-> FirstUpTo(a, b, k)]
           g == [k \in 0 .. N |-> SecondUpTo(a, b, k)]
<1>1. a \in Nat /\ b \in Nat /\ N \in Nat
  OBVIOUS
<1>2. /\ DOMAIN s = 1 .. a /\ DOMAIN t = 1 .. b
      /\ \A i \in 1 .. a : Category[s[i]] = "smartphone"
      /\ \A i \in 1 .. b : Category[t[i]] = "camera"
  OBVIOUS
<1>3. /\ DOMAIN items = 1 .. N
      /\ \A k \in 1 .. N : items[k] = IF k \in P THEN s[FirstUpTo(a, b, k)]
                                     ELSE t[SecondUpTo(a, b, k)]
  BY TurnItems
<1> HIDE DEF a, b
<1>4. /\ P \subseteq 1 .. N /\ Q = (1 .. N) \ P
      /\ \A k \in P : FirstUpTo(a, b, k) \in 1 .. a
      /\ \A k \in Q : SecondUpTo(a, b, k) \in 1 .. b
  <2>1. P \subseteq 1 .. N /\ Q = (1 .. N) \ P
    BY DEF Firsts, Seconds
  <2>2. QED
    BY <1>1, <2>1, TurnBounds
<1>5. Counts(f, P, N) /\ Counts(g, Q, N)
  <2>1. ASSUME NEW k \in 1 .. N PROVE k - 1 \in 0 .. N /\ k \in 0 .. N
    BY <1>1
  <2>2. \A k \in 0 .. N : f[k] = FirstUpTo(a, b, k) /\ g[k] = SecondUpTo(a, b, k)
    OBVIOUS
  <2>3. ASSUME NEW k \in 1 .. N
        PROVE  /\ FirstUpTo(a, b, k) = FirstUpTo(a, b, k - 1) + (IF k \in P THEN 1 ELSE 0)
               /\ SecondUpTo(a, b, k) = SecondUpTo(a, b, k - 1) + (IF k \in Q THEN 1 ELSE 0)
    BY <1>1, TurnSteps
  <2>4. /\ f \in [0 .. N -> Nat] /\ f[0] = 0
        /\ g \in [0 .. N -> Nat] /\ g[0] = 0
    <3>1. 0 \in 0 .. N
      BY <1>1
    <3>2. QED
      BY <1>1, <3>1, TurnBounds
  <2> HIDE DEF N, P, Q, f, g
  <2>5. ASSUME NEW k \in 1 .. N
        PROVE  /\ f[k] = f[k - 1] + (IF k \in P THEN 1 ELSE 0)
               /\ g[k] = g[k - 1] + (IF k \in Q THEN 1 ELSE 0)
    <3>1. /\ f[k] = FirstUpTo(a, b, k) /\ f[k - 1] = FirstUpTo(a, b, k - 1)
          /\ g[k] = SecondUpTo(a, b, k) /\ g[k - 1] = SecondUpTo(a, b, k - 1)
      BY <2>1, <2>2
    <3>2. QED
      BY <2>3, <3>1
  <2>6. QED
    BY <2>4, <2>5 DEF Counts
<1>6. \A k \in 0 .. N : f[k] = FirstUpTo(a, b, k) /\ g[k] = SecondUpTo(a, b, k)
  OBVIOUS
<1>7. N = a + b /\ 1 .. N \subseteq 0 .. N
  BY <1>1
<1>8. ASSUME NEW i \in 1 .. N, NEW j \in 1 .. N, i < j
      PROVE  /\ i \in P /\ j \in P => FirstUpTo(a, b, i) < FirstUpTo(a, b, j)
             /\ i \in Q /\ j \in Q => SecondUpTo(a, b, i) < SecondUpTo(a, b, j)
  BY <1>1, <1>8, TurnsMoveOn
<1> HIDE DEF N, f, g, P, Q
<1>9. \A k \in 0 .. N : Cardinality(Places(P, k)) = f[k] /\ Cardinality(Places(Q, k)) = g[k]
  <2>1. \A k \in 0 .. N : Cardinality(Places(P, k)) = f[k]
    BY <1>1, <1>5, CountUpTo
  <2>2. \A k \in 0 .. N : Cardinality(Places(Q, k)) = g[k]
    BY <1>1, <1>5, CountUpTo
  <2>3. QED
    BY <2>1, <2>2
<1>10. /\ \A k \in P : /\ items[k] = s[FirstUpTo(a, b, k)]
                        /\ Category[items[k]] = "smartphone"
       /\ \A k \in Q : /\ items[k] = t[SecondUpTo(a, b, k)]
                        /\ Category[items[k]] = "camera"
  <2>1. ASSUME NEW k \in P
        PROVE  items[k] = s[FirstUpTo(a, b, k)] /\ Category[items[k]] = "smartphone"
    BY <1>2, <1>3, <1>4
  <2>2. ASSUME NEW k \in Q
        PROVE  items[k] = t[SecondUpTo(a, b, k)] /\ Category[items[k]] = "camera"
    BY <1>2, <1>3, <1>4
  <2>3. QED
    BY <2>1, <2>2
<1>11. \A k \in 1 .. N : /\ k \in P <=> Category[items[k]] = "smartphone"
                         /\ k \in Q <=> Category[items[k]] = "camera"
  BY <1>4, <1>10
<1>12. ASSUME NEW k \in 0 .. N
       PROVE  ShownIn(items, "smartphone", k) = f[k] /\ ShownIn(items, "camera", k) = g[k]
  <2>1. \A i \in 1 .. k : i \in 1 .. N
    BY <1>1
  <2>2. /\ {i \in 1..k : Category[items[i]] = "smartphone"} = Places(P, k)
        /\ {i \in 1..k : Category[items[i]] = "camera"} = Places(Q, k)
    BY <1>11, <2>1 DEF Places
  <2>3. QED
    BY <1>9, <2>2 DEF ShownIn
<1>13. ASSUME NEW i \in 1 .. N, NEW j \in 1 .. N, items[i] = items[j], i < j PROVE FALSE
  <2>1. CASE i \in P
    <3>1. j \in P
      BY <1>11, <1>13, <2>1
    <3>2. s[FirstUpTo(a, b, i)] = s[FirstUpTo(a, b, j)]
      BY <1>10, <1>13, <2>1, <3>1
    <3>3. FirstUpTo(a, b, i) \in 1 .. a /\ FirstUpTo(a, b, j) \in 1 .. a
      BY <1>4, <2>1, <3>1
    <3>4. FirstUpTo(a, b, i) = FirstUpTo(a, b, j)
      BY <1>2, <3>2, <3>3 DEF IsInjective
    <3>5. QED
      BY <1>1, <1>8, <1>13, <2>1, <3>1, <3>3, <3>4
  <2>2. CASE i \in Q
    <3>1. j \in Q
      BY <1>11, <1>13, <2>2
    <3>2. t[SecondUpTo(a, b, i)] = t[SecondUpTo(a, b, j)]
      BY <1>10, <1>13, <2>2, <3>1
    <3>3. SecondUpTo(a, b, i) \in 1 .. b /\ SecondUpTo(a, b, j) \in 1 .. b
      BY <1>4, <2>2, <3>1
    <3>4. SecondUpTo(a, b, i) = SecondUpTo(a, b, j)
      BY <1>2, <3>2, <3>3 DEF IsInjective
    <3>5. QED
      BY <1>1, <1>8, <1>13, <2>2, <3>1, <3>3, <3>4
  <2>3. QED
    BY <1>4, <2>1, <2>2
<1>14. IsInjective(items)
  <2>1. ASSUME NEW i \in DOMAIN items, NEW j \in DOMAIN items, items[i] = items[j], i # j
        PROVE  FALSE
    <3>1. i \in 1 .. N /\ j \in 1 .. N
      BY <1>3
    <3>2. i < j \/ j < i
      BY <1>1, <2>1, <3>1
    <3>3. QED
      BY <1>13, <2>1, <3>1, <3>2
  <2>2. QED
    BY <2>1 DEF IsInjective
<1>15. \A k \in 1 .. N :
         /\ Category[items[k]] = "smartphone" => items[k] = s[FirstUpTo(a, b, k)]
         /\ Category[items[k]] = "camera" => items[k] = t[SecondUpTo(a, b, k)]
  BY <1>10, <1>11
<1>16. \A k \in 0 .. N :
         /\ ShownIn(items, "smartphone", k) = FirstUpTo(a, b, k)
         /\ ShownIn(items, "camera", k) = SecondUpTo(a, b, k)
  BY <1>12, <1>6
<1>17. QED
  BY <1>14, <1>15, <1>16, <1>7 DEF a, b, TakenInTurn

(* Smartphones and cameras take turns in the items, however long the lists *)
(* are, and neither a device nor the order of a list is lost.              *)
THEOREM CategoriesTakeTurns == Spec => []BothCategoriesInTurn
<1>1. Accounting => BothCategoriesInTurn
  <2> SUFFICES ASSUME Accounting PROVE BothCategoriesInTurn
    OBVIOUS
  <2> DEFINE popular == [c \in Categories |-> LoadPopular(c)]
             items == Items(popular)
             s == LoadPopular("smartphone")
             t == LoadPopular("camera")
             a == Len(s)
             b == Len(t)
             shown(c, n) == ShownIn(items, c, n)
  <2>1. /\ popular["smartphone"] = s /\ popular["camera"] = t
        /\ \A c \in Categories : c = "smartphone" \/ c = "camera"
    BY DEF Categories
  <2>2. items = InTurn(s, t)
    BY <2>1 DEF Items
  <2>3. ASSUME NEW c \in Categories
        PROVE  /\ LoadPopular(c) \in Seq(Devices) /\ IsInjective(LoadPopular(c))
               /\ \A i \in 1 .. Len(LoadPopular(c)) : Category[LoadPopular(c)[i]] = c
    <3>1. LoadPopular(c) \in Seq(Listable(c)) /\ IsInjective(LoadPopular(c))
      BY ListsAreRanked, FirstOfOrder DEF LoadPopular, Accounting
    <3>2. \A d \in Listable(c) : d \in Devices /\ Category[d] = c
      BY DEF Listable
    <3> DEFINE list == LoadPopular(c)
    <3> HIDE DEF list
    <3>3. list \in Seq(Listable(c)) => /\ list \in Seq(Devices)
                                      /\ \A i \in 1 .. Len(list) : Category[list[i]] = c
      BY <3>2
    <3>4. QED
      BY <3>1, <3>3 DEF list
  <2>4. /\ s \in Seq(Devices) /\ t \in Seq(Devices) /\ IsInjective(s) /\ IsInjective(t)
        /\ \A i \in 1 .. Len(s) : Category[s[i]] = "smartphone"
        /\ \A i \in 1 .. Len(t) : Category[t[i]] = "camera"
    BY <2>3 DEF Categories
  <2> HIDE DEF s, t, items, popular
  <2>5. a \in Nat /\ b \in Nat /\ Len(items) = a + b
    BY <2>2, <2>4, TurnItems
  <2>6. /\ IsInjective(items)
        /\ \A k \in 0 .. a + b : /\ shown("smartphone", k) = FirstUpTo(a, b, k)
                                 /\ shown("camera", k) = SecondUpTo(a, b, k)
        /\ \A k \in 1 .. a + b :
             /\ Category[items[k]] = "smartphone" => items[k] = s[FirstUpTo(a, b, k)]
             /\ Category[items[k]] = "camera" => items[k] = t[SecondUpTo(a, b, k)]
    <3> HIDE DEF shown
    <3>1. TakenInTurn(items, s, t, a, b)
      BY <2>2, <2>4, InTurnShows
    <3>2. QED
      BY <3>1 DEF TakenInTurn, shown
  <2> HIDE DEF a, b, shown
  <2>7. \A c \in Categories : shown(c, Len(items)) = Len(popular[c])
    <3>1. a + b \in 0 .. a + b
      BY <2>5
    <3>2. FirstUpTo(a, b, a + b) = a /\ SecondUpTo(a, b, a + b) = b
      BY <2>5, TurnBounds
    <3>3. shown("smartphone", a + b) = a /\ shown("camera", a + b) = b
      BY <2>6, <3>1, <3>2
    <3>4. QED
      BY <2>1, <2>5, <3>3 DEF a, b
  <2>8. \A n \in 1..Len(items), c \in Categories :
          Category[items[n]] = c => items[n] = popular[c][shown(c, n)]
    <3>1. \A n \in 1..Len(items) : n \in 0 .. a + b /\ n \in 1 .. a + b
      BY <2>5
    <3>2. QED
      BY <2>1, <2>6, <3>1
  <2>9. \A n \in 0..Len(items), c, e \in Categories :
          shown(c, n) > shown(e, n) + 1 => shown(e, n) = Len(popular[e])
    <3>1. ASSUME NEW n \in 0..Len(items), NEW c \in Categories, NEW e \in Categories,
                 shown(c, n) > shown(e, n) + 1
          PROVE  shown(e, n) = Len(popular[e])
      <4>1. n \in 0 .. a + b
        BY <2>5
      <4>2. /\ shown("smartphone", n) = FirstUpTo(a, b, n)
            /\ shown("camera", n) = SecondUpTo(a, b, n)
        BY <2>6, <4>1
      <4>3. /\ FirstUpTo(a, b, n) \in Nat /\ SecondUpTo(a, b, n) \in Nat
            /\ FirstUpTo(a, b, n) > SecondUpTo(a, b, n) + 1 => SecondUpTo(a, b, n) = b
            /\ SecondUpTo(a, b, n) > FirstUpTo(a, b, n) + 1 => FirstUpTo(a, b, n) = a
        <5>1. \A k \in 0 .. a + b :
                /\ FirstUpTo(a, b, k) \in Nat /\ SecondUpTo(a, b, k) \in Nat
                /\ FirstUpTo(a, b, k) > SecondUpTo(a, b, k) + 1 => SecondUpTo(a, b, k) = b
                /\ SecondUpTo(a, b, k) > FirstUpTo(a, b, k) + 1 => FirstUpTo(a, b, k) = a
          BY <2>5, TurnBounds
        <5>2. QED
          BY <4>1, <5>1
      <4>4. c # e
        <5>1. shown(c, n) \in Nat
          BY <2>1, <4>2, <4>3
        <5>2. QED
          BY <3>1, <5>1
      <4>5. CASE c = "smartphone" /\ e = "camera"
        BY <2>1, <3>1, <4>2, <4>3, <4>5 DEF b
      <4>6. CASE c = "camera" /\ e = "smartphone"
        BY <2>1, <3>1, <4>2, <4>3, <4>6 DEF a
      <4>7. QED
        BY <2>1, <4>4, <4>5, <4>6
    <3>2. QED
      BY <3>1
  <2>10. QED
    BY <2>6, <2>7, <2>8, <2>9
       DEF BothCategoriesInTurn, items, popular, shown, ShownIn
<1>2. QED
  BY <1>1, AccountingHolds, PTL
=============================================================================
