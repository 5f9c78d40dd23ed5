----------------------------- MODULE Selections -----------------------------
(***************************************************************************)
(* POST /device-selections: a selection is counted by a statement of its   *)
(* own, after a query has found the device, in one row per Seoul date,     *)
(* category and slug.  The lists of popular devices rank the devices of a  *)
(* category by the rows of the last days, and put the newest devices in    *)
(* the places that selections leave free.                                  *)
(***************************************************************************)
EXTENDS Naturals, Orderings, SequencesExt

CONSTANTS
  Requests,         \* places where one request at a time is handled
  Devices,          \* rows of device_models and camera_models
  Category,         \* the category of each device
  Versions,         \* the slugs and states each device can be given
  ReleaseDay,       \* release_date or release_month of each device
  Slugs,            \* numbers, because slugs break ties
  Asks,             \* the bodies clients send
  TicksPerDay,
  WindowDays,       \* POPULARITY_WINDOW_DAYS
  ItemsPerCategory, \* ITEMS_PER_CATEGORY
  NoRow, NoAsk,
  LastTick,         \* bound: the model's time ends here
  MaxSelections     \* bound: the selections clients send

Categories == {"smartphone", "camera"}

(* valid is false for another category or action, or an ill-formed slug.   *)
DeviceSelectionRequest ==
  [category : Categories, slug : Slugs, valid : BOOLEAN]

(* A camera has no publication status: it counts as published.             *)
ASSUME VersionsAssumption ==
  \A d \in Devices :
    /\ Category[d] \in Categories /\ ReleaseDay[d] \in Nat
    /\ Versions[d] \subseteq [slug : Slugs, published : BOOLEAN]
    /\ Category[d] = "camera" => \A v \in Versions[d] : v.published
ASSUME DevicesAssumption == IsFiniteSet(Devices)
ASSUME AsksAssumption == Asks \subseteq DeviceSelectionRequest
ASSUME NumbersAssumption ==
  /\ Slugs \subseteq Nat /\ {LastTick, MaxSelections} \subseteq Nat
  /\ {TicksPerDay, WindowDays, ItemsPerCategory} \subseteq Nat \ {0}
ASSUME NothingAssumption ==
  NoRow \notin [count : Nat, last : Nat] /\ NoAsk \notin DeviceSelectionRequest

VARIABLES
  now,      \* the database's clock
  model,    \* the stored device
  daily,    \* device_popularity_daily, by category, slug and stat_date
  phase,    \* what each handler does
  ask,      \* the body of its request
  at,       \* now() in its counting statement
  sent,     \* selections sent so far
  sure,     \* history: selections answered 204, by now() of their statement
  doubtful, \* history: selections whose statement was sent and not answered
  known     \* history: the device asked for was published during the request

clients  == <<sent, sure, doubtful>>
handlers == <<phase, ask, at, known>>
vars == <<now, model, daily, phase, ask, at, sent, sure, doubtful, known>>

Ticks == 0..LastTick
Day(t) == t \div TicksPerDay
Days == {Day(t) : t \in Ticks}
Today == Day(now)

Phases == {"idle", "check", "insert", "done", "orphan"}
(* Phases in which the request has an answer to come.                      *)
Open == {"check", "insert", "done"}

Published(c, s) ==
  \E d \in Devices : Category[d] = c /\ model[d].slug = s /\ model[d].published

(* UNIQUE (slug) on either table                                           *)
SlugsUnique(m) ==
  \A d, e \in Devices :
    d # e /\ Category[d] = Category[e] => m[d].slug # m[e].slug

NoSelections == [c \in Categories |-> [s \in Slugs |-> [t \in Ticks |-> 0]]]

Init ==
  /\ now = 0
  /\ model \in [Devices -> [slug : Slugs, published : BOOLEAN]]
  /\ \A d \in Devices : model[d] \in Versions[d]
  /\ SlugsUnique(model)
  /\ daily = [c \in Categories |-> [s \in Slugs |-> [n \in Days |-> NoRow]]]
  /\ phase = [r \in Requests |-> "idle"]
  /\ ask = [r \in Requests |-> NoAsk]
  /\ at = [r \in Requests |-> 0]
  /\ sent = 0
  /\ sure = NoSelections /\ doubtful = NoSelections
  /\ known = [r \in Requests |-> FALSE]
Finish(r) ==
  /\ phase' = [phase EXCEPT ![r] = "idle"]
  /\ ask' = [ask EXCEPT ![r] = NoAsk]
  /\ at' = [at EXCEPT ![r] = 0]
  /\ known' = [known EXCEPT ![r] = FALSE]

Submit(r, a) ==
  /\ phase[r] = "idle" /\ sent < MaxSelections
  /\ sent' = sent + 1
  /\ phase' = [phase EXCEPT ![r] = "check"]
  /\ ask' = [ask EXCEPT ![r] = a]
  /\ known' = [known EXCEPT ![r] = Published(a.category, a.slug)]
  /\ UNCHANGED <<now, model, daily, at, sure, doubtful>>

(* 400, before the database is asked                                       *)
Invalid(r) ==
  /\ phase[r] = "check" /\ ~ask[r].valid
  /\ Finish(r)
  /\ UNCHANGED <<now, model, daily, clients>>

(* Mutant: any device that has the slug will do.                           *)
Exists_AnyStatus(a) ==
  \E d \in Devices : Category[d] = a.category /\ model[d].slug = a.slug

(* SELECT EXISTS                                                           *)
Exists(a) == Published(a.category, a.slug)

(* 404                                                                     *)
NotFound(r) ==
  /\ phase[r] = "check" /\ ask[r].valid /\ ~Exists(ask[r])
  /\ Finish(r)
  /\ UNCHANGED <<now, model, daily, clients>>

(* The device is found, and the counting statement begins: its now() is    *)
(* fixed before it waits for the row.                                      *)
Found(r) ==
  /\ phase[r] = "check" /\ ask[r].valid /\ Exists(ask[r])
  /\ phase' = [phase EXCEPT ![r] = "insert"]
  /\ at' = [at EXCEPT ![r] = now]
  /\ UNCHANGED <<now, model, daily, ask, known, clients>>

RowOf(r) == daily[ask[r].category][ask[r].slug][Day(at[r])]

(* Mutant: last_selected_at = clock_timestamp().                           *)
Counted_ByTheClock(r) ==
  [count |-> IF RowOf(r) = NoRow THEN 1 ELSE RowOf(r).count + 1, last |-> now]

(* Mutant: the conflict replaces the count by the inserted one.            *)
Counted_Replaced(r) == [count |-> 1, last |-> at[r]]

(* INSERT ... ON CONFLICT DO UPDATE; count is view_count + compare_count.  *)
Counted(r) ==
  [count |-> IF RowOf(r) = NoRow THEN 1 ELSE RowOf(r).count + 1, last |-> at[r]]

(* Mutant: the statement is sent again after it has counted.               *)
Upsert_Repeated(r) ==
  /\ phase[r] \in {"insert", "orphan"}
  /\ daily' = [daily EXCEPT
                 ![ask[r].category][ask[r].slug][Day(at[r])] = Counted(r)]
  /\ \/ UNCHANGED handlers
     \/ Finish(r)
  /\ UNCHANGED <<now, model, clients>>

(* The statement gets its row, whichever statement began first, counts and *)
(* commits, for a client that still waits or for none.                     *)
Upsert(r) ==
  /\ phase[r] \in {"insert", "orphan"}
  /\ daily' = [daily EXCEPT
                 ![ask[r].category][ask[r].slug][Day(at[r])] = Counted(r)]
  /\ IF phase[r] = "insert"
     THEN phase' = [phase EXCEPT ![r] = "done"] /\ UNCHANGED <<ask, at, known>>
     ELSE Finish(r)
  /\ UNCHANGED <<now, model, clients>>

Record(history, r) ==
  [history EXCEPT ![ask[r].category][ask[r].slug][at[r]] = @ + 1]

(* 204                                                                     *)
Acknowledge(r) ==
  /\ phase[r] = "done"
  /\ sure' = Record(sure, r)
  /\ Finish(r)
  /\ UNCHANGED <<now, model, daily, sent, doubtful>>

(* The time limit passes, the client goes away or the connection is lost:  *)
(* 408 or 503.  A statement that has been sent is left to the server.      *)
Dropped(r) ==
  /\ phase[r] \in Open
  /\ IF phase[r] = "insert"
     THEN phase' = [phase EXCEPT ![r] = "orphan"] /\ UNCHANGED <<ask, at, known>>
     ELSE Finish(r)
  /\ doubtful' = IF phase[r] = "check" THEN doubtful ELSE Record(doubtful, r)
  /\ UNCHANGED <<now, model, daily, sent, sure>>

(* The server cancels the statement of a closed connection.                *)
Cancel(r) ==
  /\ phase[r] = "orphan"
  /\ Finish(r)
  /\ UNCHANGED <<now, model, daily, clients>>

(* A device is written: published, archived or given another slug.         *)
Write(d, v) ==
  /\ model[d] # v
  /\ model' = [model EXCEPT ![d] = v]
  /\ SlugsUnique(model')
  /\ known' = [r \in Requests |->
                 \/ known[r]
                 \/ phase[r] = "check"
                    /\ Category[d] = ask[r].category
                    /\ v.slug = ask[r].slug /\ v.published]
  /\ UNCHANGED <<now, daily, phase, ask, at, clients>>

Tick ==
  /\ now < LastTick
  /\ now' = now + 1
  /\ UNCHANGED <<model, daily, handlers, clients>>

Next ==
  \/ \E r \in Requests :
       \/ \E a \in Asks : Submit(r, a)
       \/ Invalid(r) \/ NotFound(r) \/ Found(r)
       \/ Upsert(r) \/ Acknowledge(r) \/ Dropped(r) \/ Cancel(r)
  \/ \E d \in Devices : \E v \in Versions[d] : Write(d, v)
  \/ Tick

Spec == Init /\ [][Next]_vars

(***************************************************************************)
(* The queries of GET /popular-devices.  NULLS: a device whose slug has no *)
(* row in the window has neither a sum nor a last selection.               *)
(***************************************************************************)
(* Mutant: one day less than the window.                                   *)
Window_Short == {n \in Days : n <= Today /\ n + WindowDays > Today + 1}

(* stat_date >= today - (POPULARITY_WINDOW_DAYS - 1)                       *)
Window == {n \in Days : n + WindowDays > Today}

Selected(c, s) == {n \in Window : daily[c][s][n] # NoRow}
SelectionCount(c, s) == SumFunction([n \in Selected(c, s) |-> daily[c][s][n].count])
LastSelected(c, s) == Max({daily[c][s][n].last : n \in Selected(c, s)})

(* Mutant: the popularity of the slugs is joined instead of left-joined.   *)
Listable_Selected(c) ==
  {d \in Devices : Category[d] = c /\ model[d].published
                   /\ Selected(c, model[d].slug) # {}}

(* Cameras are listed before their month of release, smartphones are not.  *)
Listable(c) ==
  {d \in Devices : /\ Category[d] = c /\ model[d].published
                   /\ c = "smartphone" => ReleaseDay[d] <= Today}

Newer(d, e) ==
  \/ ReleaseDay[d] > ReleaseDay[e]
  \/ ReleaseDay[d] = ReleaseDay[e] /\ model[d].slug < model[e].slug

(* Mutant: the sums are ordered without a thought to NULLS FIRST.          *)
Before_NullsFirst(c, d, e) ==
  LET s == model[d].slug
      t == model[e].slug
  IN  IF Selected(c, s) = {} \/ Selected(c, t) = {}
      THEN \/ Selected(c, s) = {} /\ Selected(c, t) # {}
           \/ Selected(c, s) = {} /\ Selected(c, t) = {} /\ Newer(d, e)
      ELSE \/ SelectionCount(c, s) > SelectionCount(c, t)
           \/ SelectionCount(c, s) = SelectionCount(c, t) /\ Newer(d, e)

(* ORDER BY                                                                *)
Before(c, d, e) ==
  LET s == model[d].slug
      t == model[e].slug
  IN  IF Selected(c, s) = {} \/ Selected(c, t) = {}
      THEN \/ Selected(c, s) # {} /\ Selected(c, t) = {}
           \/ Selected(c, s) = {} /\ Selected(c, t) = {} /\ Newer(d, e)
      ELSE \/ SelectionCount(c, s) > SelectionCount(c, t)
           \/ /\ SelectionCount(c, s) = SelectionCount(c, t)
              /\ \/ LastSelected(c, s) > LastSelected(c, t)
                 \/ LastSelected(c, s) = LastSelected(c, t) /\ Newer(d, e)

FirstOf(seq, n) == SubSeq(seq, 1, IF Len(seq) < n THEN Len(seq) ELSE n)

(* The order as a set of pairs                                             *)
Ranking(c) == {p \in Listable(c) \X Listable(c) : Before(c, p[1], p[2])}

LoadPopular(c) == FirstOf(OrderedBy(Listable(c), Ranking(c)), ItemsPerCategory)

(* Mutant: the lists are zipped.                                           *)
InTurn_Zipped(smartphones, cameras) == FlattenSeq(Zip(smartphones, cameras))

(* interleave: from each list in turn, then what is left of the longer one.*)
InTurn(smartphones, cameras) ==
  LET a    == Len(smartphones)
      b    == Len(cameras)
      both == 2 * (IF a < b THEN a ELSE b)
  IN  [k \in 1..(a + b) |->
         IF k <= both
         THEN IF k % 2 = 1 THEN smartphones[(k + 1) \div 2] ELSE cameras[(k + 1) \div 2]
         ELSE IF a > b THEN smartphones[k - b] ELSE cameras[k - a]]

Items(popular) == InTurn(popular["smartphone"], popular["camera"])

(***************************************************************************)
(* Properties.                                                             *)
(***************************************************************************)
Row == [count : 1..MaxSelections, last : Ticks]

TypeOK ==
  /\ now \in Ticks
  /\ \A d \in Devices : model[d] \in Versions[d]
  /\ \A c \in Categories, s \in Slugs, n \in Days :
       daily[c][s][n] \in Row \cup {NoRow}
  /\ phase \in [Requests -> Phases]
  /\ \A r \in Requests : ask[r] = NoAsk <=> phase[r] = "idle"
  /\ at \in [Requests -> Ticks]
  /\ sent \in 0..MaxSelections

Sum(history, c, s, ticks) == SumFunctionOnSet(history[c][s], ticks)

(* What the lists rank by are the selections of the last WindowDays dates: *)
(* each one answered 204 is counted once, on the date its statement began  *)
(* on, under its category, whatever runs at the same time; nothing older   *)
(* counts; and nothing is added but what a client was left in doubt about. *)
CountsAreRecentSelections ==
  \A c \in Categories, s \in Slugs :
    LET recent == {t \in Ticks : t <= now /\ Today - Day(t) < WindowDays}
        unanswered == {r \in Requests : phase[r] = "done" /\ at[r] \in recent
                                        /\ ask[r].category = c /\ ask[r].slug = s}
        least == Sum(sure, c, s, recent) + Cardinality(unanswered)
    IN  SelectionCount(c, s) \in least..(least + Sum(doubtful, c, s, recent))

(* A row's last selection, which breaks ties, happened on the row's date   *)
(* even when its statement waited past midnight.                           *)
LastSelectedOnItsDate ==
  \A c \in Categories, s \in Slugs, n \in Days :
    daily[c][s][n] # NoRow => Day(daily[c][s][n].last) = n

(* Nothing is counted for a slug that no published device had at any time  *)
(* between the request and the end of the existence check.                 *)
OnlyPublishedCounted ==
  \A r \in Requests : phase[r] \in {"insert", "done", "orphan"} => known[r]

(* README.md:73: the lists are full while there are devices to fill them,  *)
(* by devices without a selection too, and nobody left out was selected    *)
(* more often than a device that is listed.                                *)
RankedAndFilled ==
  \A c \in Categories :
    LET listed == ToSet(LoadPopular(c))
        public == {d \in Devices : /\ Category[d] = c /\ model[d].published
                                   /\ c = "smartphone" => ReleaseDay[d] <= Today}
    IN  /\ listed \subseteq public
        /\ \/ listed = public
           \/ Cardinality(listed) = ItemsPerCategory
        /\ \A d \in listed, e \in public \ listed :
             SelectionCount(c, model[d].slug) >= SelectionCount(c, model[e].slug)

(* Every listed device is among the items once; those of one category keep *)
(* their order, and a category is ahead by one at most while both last.    *)
BothCategoriesInTurn ==
  LET popular == [c \in Categories |-> LoadPopular(c)]
      items   == Items(popular)
      shown(c, n) == Cardinality({i \in 1..n : Category[items[i]] = c})
  IN  /\ IsInjective(items)
      /\ \A c \in Categories : shown(c, Len(items)) = Len(popular[c])
      /\ \A n \in 1..Len(items), c \in Categories :
           Category[items[n]] = c => items[n] = popular[c][shown(c, n)]
      /\ \A n \in 0..Len(items), c, e \in Categories :
           shown(c, n) > shown(e, n) + 1 => shown(e, n) = Len(popular[e])

=============================================================================
