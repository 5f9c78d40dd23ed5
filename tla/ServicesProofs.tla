--------------------------- MODULE ServicesProofs ---------------------------
(***************************************************************************)
(* For every set of inputs and every way of trimming that trims once,      *)
(* technologies look different; for every finite number of reports,        *)
(* summaries count them once; for every number of users and of requests    *)
(* handled at once, every token lifetime, leeway and time limit, addresses *)
(* identify accounts, changes of an account merge, and the tokens of a     *)
(* deleted user run out; and for every number of brands, cameras,          *)
(* administrators, writes and lists, a camera never loses its brand, slugs *)
(* lead to one row, a write tells its client what it stores and publishes  *)
(* nothing before its COMMIT, and a page of the list is as long as its     *)
(* total says.                                                             *)
(***************************************************************************)
EXTENDS Accounts, Cameras, RouteMisses, WirelessTechnologies, ListTheorems

(***************************************************************************)
(* Technologies.                                                           *)
(***************************************************************************)

(* What is stored is trimmed, and stored once.                             *)
TechnologiesInv ==
  /\ \A t \in TechnologyIds : technology[t] # NoTechnology =>
       /\ technology[t] = [category |-> technology[t].category,
                           value |-> technology[t].value]
       /\ Trimmed[technology[t].value] = technology[t].value
  /\ \A t, u \in TechnologyIds :
       technology[t] # NoTechnology /\ technology[t] = technology[u] => t = u
  /\ technology = [t \in TechnologyIds |-> technology[t]]

LEMMA TechnologiesStep ==
  ASSUME TechnologiesInv, [TechnologiesNext]_technology
  PROVE  TechnologiesInv'
<1>1. ASSUME NEW t \in TechnologyIds, NEW input \in TechnologyInputs,
             CreateTechnology(t, input) \/ UpdateTechnology(t, input)
      PROVE  TechnologiesInv'
  <2>. DEFINE row == TechnologyRow(input)
  <2>1. /\ row = [category |-> row.category, value |-> row.value]
        /\ Trimmed[row.value] = row.value
    BY TechnologiesAssumption DEF TechnologyRow
  <2>2. /\ technology' = [technology EXCEPT ![t] = row] /\ Unused(t, row)
    BY <1>1 DEF CreateTechnology, UpdateTechnology
  <2>. HIDE DEF row
  <2>. QED BY <2>1, <2>2 DEF TechnologiesInv, Unused
<1>2. ASSUME NEW t \in TechnologyIds, DeleteTechnology(t)
      PROVE  TechnologiesInv'
  BY <1>2 DEF DeleteTechnology, TechnologiesInv
<1>3. CASE UNCHANGED technology
  BY <1>3 DEF TechnologiesInv
<1>. QED BY <1>1, <1>2, <1>3 DEF TechnologiesNext

(* Technologies of one category differ in more than the blanks around them.*)
THEOREM TechnologiesDiffer == TechnologiesSpec => []TechnologiesLookDifferent
<1>1. TechnologiesInit => TechnologiesInv
  BY DEF TechnologiesInit, TechnologiesInv
<1>2. TechnologiesInv /\ [TechnologiesNext]_technology => TechnologiesInv'
  BY TechnologiesStep
<1>3. TechnologiesInv => TechnologiesLookDifferent
  BY DEF TechnologiesInv, TechnologiesLookDifferent
<1>. QED BY <1>1, <1>2, <1>3, PTL DEF TechnologiesSpec

(***************************************************************************)
(* Route misses.                                                           *)
(***************************************************************************)
(* An inserted event is that of its report, and happened between the       *)
(* report and its answer.                                                  *)
EventsFit ==
  \A r \in Reports :
    /\ report[r] # "new" => missed[r] \in Paths /\ sentOn[r] \in Nat /\ sentOn[r] <= today
    /\ event[r] # NoEvent =>
         /\ report[r] # "new" /\ event[r].path = missed[r]
         /\ event[r].at \in Nat /\ sentOn[r] <= event[r].at /\ event[r].at <= today
    /\ report[r] \in {"inserted", "recorded"} => event[r] # NoEvent
    /\ report[r] = "recorded" =>
         recordedOn[r] \in Nat /\ event[r].at <= recordedOn[r]

LEMMA MissesStep ==
  ASSUME MissesTypeOK, EventsFit, [MissesNext]_missVars
  PROVE  MissesTypeOK' /\ EventsFit'
<1>1. ASSUME NEW r \in Reports, NEW path \in Paths, SendReport(r, path)
      PROVE  MissesTypeOK' /\ EventsFit'
  BY <1>1 DEF SendReport, MissesTypeOK, EventsFit
<1>2. ASSUME NEW r \in Reports, RecordRouteMiss(r)
      PROVE  MissesTypeOK' /\ EventsFit'
  <2>. DEFINE row == [path |-> missed[r], at |-> today]
  <2>1. /\ report[r] \in {"sent", "dropped"} /\ missed[r] \in Paths
        /\ event' = [event EXCEPT ![r] = row]
        /\ report' = [report EXCEPT ![r] = IF @ = "sent" THEN "inserted" ELSE @]
        /\ UNCHANGED <<missed, today, sentOn, recordedOn>>
    BY <1>2 DEF RecordRouteMiss, EventsFit
  <2>2. /\ row \in [path : Paths, at : Nat]
        /\ row.path = missed[r] /\ row.at = today /\ row # NoEvent
    BY <2>1, RouteMissesAssumption DEF MissesTypeOK
  <2>. HIDE DEF row
  <2>3. MissesTypeOK'
    BY <2>1, <2>2 DEF MissesTypeOK
  <2>4. EventsFit'
    BY <2>1, <2>2 DEF MissesTypeOK, EventsFit
  <2>. QED BY <2>3, <2>4
<1>3. ASSUME NEW r \in Reports, Acknowledge(r)
      PROVE  MissesTypeOK' /\ EventsFit'
  BY <1>3 DEF Acknowledge, MissesTypeOK, EventsFit
<1>4. ASSUME NEW r \in Reports, DropReport(r)
      PROVE  MissesTypeOK' /\ EventsFit'
  BY <1>4 DEF DropReport, MissesTypeOK, EventsFit
<1>5. ASSUME NextDay
      PROVE  MissesTypeOK' /\ EventsFit'
  <2>1. today' = today + 1 /\ today \in Nat
        /\ UNCHANGED <<report, missed, event, sentOn, recordedOn>>
    BY <1>5 DEF NextDay, MissesTypeOK
  <2>2. MissesTypeOK'
    BY <2>1 DEF MissesTypeOK
  <2>3. EventsFit'
    BY <2>1 DEF EventsFit
  <2>. QED BY <2>2, <2>3
<1>6. CASE UNCHANGED missVars
  BY <1>6 DEF missVars, MissesTypeOK, EventsFit
<1>. QED BY <1>1, <1>2, <1>3, <1>4, <1>5, <1>6 DEF MissesNext

(* Both hold in every reachable state.                                     *)
THEOREM MissesInvariant == MissesSpec => [](MissesTypeOK /\ EventsFit)
<1>1. MissesInit => MissesTypeOK /\ EventsFit
  BY DEF MissesInit, MissesTypeOK, EventsFit
<1>. QED BY <1>1, MissesStep, PTL DEF MissesSpec

(* Reports and their events keep their types, whatever is dropped.         *)
THEOREM MissesTypes == MissesSpec => []MissesTypeOK
<1>1. MissesTypeOK /\ EventsFit => MissesTypeOK
  OBVIOUS
<1>. QED BY <1>1, MissesInvariant, PTL

(* The row a summary shows for a path counts every report of the window    *)
(* answered 204 and none twice (route_misses.rs, the summary's query), for *)
(* any number of reports, of any length of the window.                     *)
HitsCountReports ==
  \A days \in Nat, path \in Paths :
    /\ Cardinality(Surely(days, path)) <= MissSummary(days, path).hits
    /\ MissSummary(days, path).hits <= Cardinality(Possibly(days, path))

(* However reports of one path overlap with each other and with days, the  *)
(* hits of a summary lie between the reports that are surely in the window *)
(* and those that may be (record_route_miss, list_route_miss_summaries).   *)
THEOREM HitsAreReports ==
  ASSUME IsFiniteSet(Reports)
  PROVE  MissesSpec => []HitsCountReports
<1>1. ASSUME MissesTypeOK, EventsFit
      PROVE  HitsCountReports
  <2> SUFFICES ASSUME NEW days \in Nat, NEW path \in Paths
               PROVE  /\ Cardinality(Surely(days, path)) <= MissSummary(days, path).hits
                      /\ MissSummary(days, path).hits <= Cardinality(Possibly(days, path))
    BY DEF HitsCountReports
  <2>1. Surely(days, path) \subseteq InWindow(days, path)
    BY <1>1 DEF Surely, InWindow, EventsFit, MissesTypeOK
  <2>2. InWindow(days, path) \subseteq Possibly(days, path)
    BY <1>1 DEF Possibly, InWindow, EventsFit, MissesTypeOK
  <2>3. IsFiniteSet(Possibly(days, path))
    BY FS_Subset DEF Possibly
  <2>4. IsFiniteSet(InWindow(days, path))
    BY <2>2, <2>3, FS_Subset
  <2>5. MissSummary(days, path).hits = Cardinality(InWindow(days, path))
    BY DEF MissSummary
  <2>. QED BY <2>1, <2>2, <2>3, <2>4, <2>5, FS_Subset
<1>. QED BY <1>1, MissesInvariant, PTL

(* A row of the summaries has what ORDER BY compares, and the path that    *)
(* tells it from the others.                                               *)
LEMMA SummariesFit ==
  ASSUME MissesTypeOK, EventsFit, NEW days \in Nat, IsFiniteSet(Reports),
         NEW row \in SummaryRows(days)
  PROVE  /\ row.path \in Paths /\ row = MissSummary(days, row.path)
         /\ row.hits = Cardinality(InWindow(days, row.path))
         /\ row.hits \in Nat /\ row.lastSeen \in Nat
<1>1. PICK path \in Paths : InWindow(days, path) # {} /\ row = MissSummary(days, path)
  BY DEF SummaryRows
<1> DEFINE times == {event[r].at : r \in InWindow(days, path)}
<1>2. times \in SUBSET Nat /\ times # {} /\ \A t \in times : t <= today
  BY <1>1 DEF InWindow, EventsFit
<1>3. today \in Nat
  BY DEF MissesTypeOK
<1>4. \E t \in times : \A u \in times : u <= t
  BY <1>2, <1>3, GreatestNatural
<1>5. (CHOOSE t \in times : \A u \in times : u <= t) \in Nat
  <2> HIDE DEF times
  <2>1. (CHOOSE t \in times : \A u \in times : u <= t) \in times
    BY <1>4
  <2>. QED BY <2>1, <1>2
<1>6. IsFiniteSet(InWindow(days, path)) /\ Cardinality(InWindow(days, path)) \in Nat
  BY FS_Subset, FS_CardinalityType DEF InWindow
<1>7. /\ row.path = path /\ row.hits = Cardinality(InWindow(days, path))
      /\ row.lastSeen = CHOOSE t \in times : \A u \in times : u <= t
  BY <1>1 DEF MissSummary
<1>. QED BY <1>1, <1>5, <1>6, <1>7

ListedPairs(rows) == {p \in rows \X rows : ListedBefore(p[1], p[2])}

(* ORDER BY leaves no choice: a path has one row.                          *)
LEMMA SummariesAreOrdered ==
  ASSUME MissesTypeOK, EventsFit, NEW days \in Nat, IsFiniteSet(Reports),
         IsFiniteSet(Paths)
  PROVE  /\ IsFiniteSet(SummaryRows(days))
         /\ OrdersRows(SummaryRows(days), ListedPairs(SummaryRows(days)))
<1> DEFINE S == SummaryRows(days)
<1>1. \A row \in S : /\ row.path \in Nat /\ row.hits \in Nat /\ row.lastSeen \in Nat
                     /\ row.path \in Paths /\ row = MissSummary(days, row.path)
  BY SummariesFit, RouteMissesAssumption
<1>2. IsFiniteSet(S)
  <2> DEFINE F == [row \in S |-> row.path]
  <2>1. F \in [S -> Paths]
    BY <1>1
  <2>2. \A r, s \in S : F[r] = F[s] => r = s
    BY <1>1
  <2>3. F \in Injection(S, Paths)
    BY <2>1, <2>2 DEF Injection, IsInjective
  <2>. QED BY <2>3, FS_Injection
<1>3. OrdersRows(S, ListedPairs(S))
  <2> HIDE DEF S
  <2>1. \A r, s \in S : <<r, s>> \in ListedPairs(S) <=> ListedBefore(r, s)
    BY DEF ListedPairs
  <2>2. \A r \in S : ~ ListedBefore(r, r)
    BY <1>1 DEF ListedBefore
  <2>3. \A r, s \in S : r # s => r.path # s.path
    BY <1>1
  <2>4. \A r, s \in S : r # s => ListedBefore(r, s) \/ ListedBefore(s, r)
    BY <1>1, <2>3 DEF ListedBefore
  <2>5. \A r, s, t \in S : ListedBefore(r, s) /\ ListedBefore(s, t) => ListedBefore(r, t)
    BY <1>1 DEF ListedBefore
  <2>. QED BY <2>1, <2>2, <2>4, <2>5 DEF OrdersRows
<1>. QED BY <1>2, <1>3

LEMMA FirstSummaries ==
  ASSUME MissesTypeOK, EventsFit, NEW days \in Nat, NEW limit \in Nat \ {0},
         IsFiniteSet(Reports), IsFiniteSet(Paths)
  PROVE  LET rows == RouteMissSummaries(days, limit)
             S == SummaryRows(days)
         IN /\ rows \in Seq(S)
            /\ \A s \in S :
                 \/ \E i \in DOMAIN rows : rows[i] = s
                 \/ Len(rows) = limit /\ \A i \in DOMAIN rows : ListedBefore(rows[i], s)
<1> DEFINE S == SummaryRows(days)
           R == ListedPairs(S)
           n == Cardinality(S)
           sorted == OrderedBy(S, R)
           m == IF n < limit THEN n ELSE limit
           rows == RouteMissSummaries(days, limit)
<1>1. /\ n \in Nat /\ sorted \in [1 .. n -> S]
      /\ \A x \in S : \E i \in 1 .. n : sorted[i] = x
      /\ \A i, j \in 1 .. n : i < j => <<sorted[i], sorted[j]>> \in R
  BY SummariesAreOrdered, RowsAreOrdered
<1>2. sorted \in Seq(S) /\ Len(sorted) = n
  <2> HIDE DEF S, R, n, sorted
  <2>. QED BY <1>1
<1>3. rows = SubSeq(sorted, 1, m)
  <2>1. rows = SubSeq(sorted, 1, IF Len(sorted) < limit THEN Len(sorted) ELSE limit)
    BY DEF RouteMissSummaries, ListedPairs
  <2>. QED BY <2>1, <1>2
<1>4. \A x, y : <<x, y>> \in R => ListedBefore(x, y)
  BY DEF ListedPairs
<1> HIDE DEF S, R, n, sorted, rows
<1>5. m \in 0 .. n /\ m <= limit /\ (m < n => m = limit)
  BY <1>1
<1>6. /\ rows \in Seq(S) /\ Len(rows) = m
      /\ \A i \in 1 .. m : rows[i] = sorted[i]
  <2> HIDE DEF m
  <2>. QED BY <1>2, <1>3, <1>5, SubSeqProperties
<1>7. ASSUME NEW s \in S
      PROVE  \/ \E i \in DOMAIN rows : rows[i] = s
             \/ Len(rows) = limit /\ \A i \in DOMAIN rows : ListedBefore(rows[i], s)
  <2>1. PICK j \in 1 .. n : sorted[j] = s
    BY <1>1
  <2>2. DOMAIN rows = 1 .. m
    BY <1>6
  <2> HIDE DEF m
  <2>3. CASE j <= m
    BY <2>1, <2>2, <2>3, <1>1, <1>5, <1>6
  <2>4. CASE j > m
    <3>1. m = limit
      BY <2>4, <1>1, <1>5
    <3>2. ASSUME NEW i \in 1 .. m PROVE ListedBefore(rows[i], s)
      <4>1. i \in 1 .. n /\ i < j /\ j \in 1 .. n
        BY <2>4, <1>1, <1>5
      <4>2. <<sorted[i], sorted[j]>> \in R
        BY <4>1, <1>1
      <4>3. rows[i] = sorted[i]
        BY <1>6
      <4>. QED BY <4>2, <4>3, <2>1, <1>4
    <3>. QED BY <3>1, <3>2, <2>2, <1>6
  <2>. QED BY <2>1, <2>3, <2>4, <1>1, <1>5
<1>. QED BY <1>6, <1>7 DEF S, rows

(* A summary counts every report of the window that was answered 204, and  *)
(* none twice, and what the limit cuts off has been missed less often than *)
(* what is listed: for any number of reports and of paths, and for every   *)
(* window and limit (record_route_miss, list_route_miss_summaries).        *)
THEOREM SummariesAlwaysCountReports ==
  ASSUME IsFiniteSet(Reports), IsFiniteSet(Paths)
  PROVE  MissesSpec => []SummariesCountReports
<1>1. ASSUME MissesTypeOK, EventsFit, HitsCountReports
      PROVE  SummariesCountReports
  <2>1. LastDay \in Nat /\ Cardinality(Paths) \in Nat
    BY RouteMissesAssumption, FS_CardinalityType
  <2> DEFINE Rows(days, limit) == RouteMissSummaries(days, limit)
             Listed(days, limit) ==
               {Rows(days, limit)[i].path : i \in DOMAIN Rows(days, limit)}
  <2>2. ASSUME NEW days \in 1 .. LastDay, NEW limit \in 1 .. Cardinality(Paths)
        PROVE  /\ \A i \in DOMAIN Rows(days, limit) :
                    /\ Rows(days, limit)[i].hits
                         >= Cardinality(Surely(days, Rows(days, limit)[i].path))
                    /\ Rows(days, limit)[i].hits
                         <= Cardinality(Possibly(days, Rows(days, limit)[i].path))
                    /\ \A path \in Paths \ Listed(days, limit) :
                         Cardinality(Surely(days, path)) <= Rows(days, limit)[i].hits
               /\ \A path \in Paths \ Listed(days, limit) :
                    Surely(days, path) # {} => Len(Rows(days, limit)) = limit
    <3> DEFINE S == SummaryRows(days)
               rows == Rows(days, limit)
    <3>1. days \in Nat /\ limit \in Nat \ {0}
      BY <2>1
    <3>2. /\ rows \in Seq(S)
          /\ \A s \in S :
               \/ \E i \in DOMAIN rows : rows[i] = s
               \/ Len(rows) = limit /\ \A i \in DOMAIN rows : ListedBefore(rows[i], s)
      BY <1>1, <3>1, FirstSummaries
    <3>3. \A i \in DOMAIN rows : rows[i] \in S
      <4> HIDE DEF rows, S
      <4>. QED BY <3>2
    <3>4. \A s \in S : /\ s.path \in Paths /\ s = MissSummary(days, s.path)
                       /\ s.hits = Cardinality(InWindow(days, s.path))
                       /\ s.hits \in Nat /\ s.lastSeen \in Nat
      BY <1>1, <3>1, SummariesFit
    <3>5. \A path \in Paths :
            /\ Cardinality(Surely(days, path)) <= MissSummary(days, path).hits
            /\ MissSummary(days, path).hits <= Cardinality(Possibly(days, path))
            /\ MissSummary(days, path).hits = Cardinality(InWindow(days, path))
            /\ MissSummary(days, path).path = path
      BY <1>1, <3>1 DEF HitsCountReports, MissSummary
    <3>6. \A path \in Paths :
            /\ Cardinality(Surely(days, path)) \in Nat
            /\ Cardinality(Possibly(days, path)) \in Nat
            /\ Cardinality(InWindow(days, path)) \in Nat
            /\ Surely(days, path) \subseteq InWindow(days, path)
      <4>1. \A path \in Paths :
              /\ IsFiniteSet(Surely(days, path)) /\ IsFiniteSet(Possibly(days, path))
              /\ IsFiniteSet(InWindow(days, path))
        BY FS_Subset DEF Surely, Possibly, InWindow
      <4>2. \A path \in Paths : Surely(days, path) \subseteq InWindow(days, path)
        BY <1>1, <3>1 DEF Surely, InWindow, EventsFit, MissesTypeOK
      <4>. QED BY <4>1, <4>2, FS_CardinalityType
    <3>7. ASSUME NEW path \in Paths \ Listed(days, limit), InWindow(days, path) # {}
          PROVE  /\ Len(rows) = limit
                 /\ \A i \in DOMAIN rows :
                      Cardinality(Surely(days, path)) <= rows[i].hits
      <4>1. MissSummary(days, path) \in S
        BY <3>7 DEF SummaryRows
      <4>2. \A i \in DOMAIN rows : rows[i].path # path
        BY <3>7
      <4>3. /\ Len(rows) = limit
            /\ \A i \in DOMAIN rows : ListedBefore(rows[i], MissSummary(days, path))
        BY <4>1, <4>2, <3>2, <3>5
      <4> HIDE DEF rows, S
      <4>4. \A i \in DOMAIN rows : rows[i].hits \in Nat
        BY <3>3, <3>4
      <4>5. \A i \in DOMAIN rows : MissSummary(days, path).hits <= rows[i].hits
        BY <4>3, <4>4, <3>5, <3>6 DEF ListedBefore
      <4>. QED BY <4>3, <4>4, <4>5, <3>5, <3>6
    <3>8. ASSUME NEW path \in Paths, InWindow(days, path) = {}
          PROVE  Surely(days, path) = {} /\ Cardinality(Surely(days, path)) = 0
      BY <3>6, <3>8, FS_EmptySet
    <3>9. ASSUME NEW i \in DOMAIN rows
          PROVE  /\ rows[i].hits >= Cardinality(Surely(days, rows[i].path))
                 /\ rows[i].hits <= Cardinality(Possibly(days, rows[i].path))
                 /\ rows[i].hits \in Nat
      <4> HIDE DEF rows, S
      <4>1. /\ rows[i].path \in Paths /\ rows[i] = MissSummary(days, rows[i].path)
            /\ rows[i].hits \in Nat
        BY <3>3, <3>4
      <4>2. /\ Cardinality(Surely(days, rows[i].path)) <= rows[i].hits
            /\ rows[i].hits <= Cardinality(Possibly(days, rows[i].path))
        BY <4>1, <3>5
      <4>. QED BY <4>1, <4>2, <3>6
    <3>10. ASSUME NEW path \in Paths \ Listed(days, limit)
           PROVE  /\ \A i \in DOMAIN rows :
                       Cardinality(Surely(days, path)) <= rows[i].hits
                  /\ Surely(days, path) # {} => Len(rows) = limit
      <4>1. CASE InWindow(days, path) # {}
        BY <4>1, <3>7
      <4>2. CASE InWindow(days, path) = {}
        BY <4>2, <3>8, <3>9
      <4>. QED BY <4>1, <4>2
    <3>. QED BY <3>9, <3>10
  <2>. QED BY <2>2 DEF SummariesCountReports
<1>. QED BY <1>1, MissesInvariant, HitsAreReports, PTL

(***************************************************************************)
(* Users and login.                                                        *)
(***************************************************************************)
ClientStep(c) ==
  \/ \E q \in Calls : ArriveOpen(c, q) \/ \E t \in tokens : ArriveProtected(c, q, t)
  \/ AccountStatement(c) \/ AbandonCall(c) \/ ForgetCall(c)

(* What a handler has at each stage.                                       *)
Handlers ==
  \A c \in Clients :
    /\ stage[c] = "idle" => bearer[c] = NoUser
    /\ stage[c] # "idle" => call[c] \in Calls
    /\ stage[c] = "fetched" => fetched[c] \in Login

(***************************************************************************)
(* Types.                                                                  *)
(***************************************************************************)
LEMMA InitAccounts == AccountsInit => AccountsTypeOK /\ Handlers
  BY AccountsAssumption DEF AccountsInit, AccountsTypeOK, Handlers

(* What is known of a call in a handler once its kind is known.            *)
LEMMA CallFields ==
  ASSUME Handlers, NEW c \in Clients
  PROVE  /\ Runs(c, "create") =>
              /\ call[c].email \in Emails /\ call[c].name \in UserNames
              /\ call[c].password \in Passwords
         /\ Runs(c, "patch") =>
              /\ call[c].user \in Users /\ call[c].email \in Emails \cup {Absent}
              /\ call[c].name \in UserNames \cup {Absent}
         /\ Runs(c, "delete") => call[c].user \in Users
  BY AccountsAssumption DEF Handlers, Runs, AllCalls

LEMMA FinishTypes ==
  ASSUME AccountsTypeOK, Handlers, NEW c \in Clients, Finish(c)
  PROVE  /\ call' \in [Clients -> Calls \cup {NoCall}]
         /\ stage' \in [Clients -> {"idle", "sent", "fetched"}]
         /\ bearer' \in [Clients -> Users \cup {NoUser}]
         /\ fetched' \in [Clients -> Login \cup {NoUser}]
         /\ since' \in [Clients -> Nat]
         /\ left' \in [Clients -> BOOLEAN]
         /\ Handlers'
  BY DEF AccountsTypeOK, Handlers, Finish

LEMMA MergedRow ==
  ASSUME AccountsTypeOK, Handlers, NEW c \in Clients, Runs(c, "patch"),
         account[call[c].user] # NoUser
  PROVE  Merged(call[c], account[call[c].user]) \in Account
<1>1. account[call[c].user] \in Account
  BY CallFields DEF AccountsTypeOK
<1>2. /\ Coalesce(call[c].email, account[call[c].user].email) \in Emails
      /\ Coalesce(call[c].name, account[call[c].user].name) \in UserNames
  BY <1>1, CallFields DEF Coalesce, Account
<1>. QED BY <1>1, <1>2 DEF Merged, Account

LEMMA ArriveTypes ==
  ASSUME AccountsTypeOK, Handlers, NEW c \in Clients, NEW q \in Calls,
         NEW from \in Users \cup {NoUser}, Arrive(c, q, from)
  PROVE  AccountsTypeOK' /\ Handlers'
  BY DEF AccountsTypeOK, Handlers, Arrive

LEMMA ClientTypes ==
  ASSUME AccountsTypeOK, Handlers, NEW c \in Clients, ClientStep(c)
  PROVE  AccountsTypeOK' /\ Handlers'
<1>1. CASE \E q \in Calls : ArriveOpen(c, q)
  BY <1>1, ArriveTypes DEF ArriveOpen
<1>2. CASE \E q \in Calls, t \in tokens : ArriveProtected(c, q, t)
  <2>1. \A t \in tokens : t.sub \in Users
    BY DEF AccountsTypeOK
  <2>. QED BY <1>2, <2>1, ArriveTypes DEF ArriveProtected
<1>3. CASE CreateUser(c)
  <2>1. [email |-> call[c].email, name |-> call[c].name,
         password |-> call[c].password] \in Account
    BY <1>3, CallFields DEF CreateUser, Account
  <2>2. account' \in [Users -> Account \cup {NoUser}]
    BY <1>3, <2>1 DEF CreateUser, AccountsTypeOK
  <2>. QED BY <1>3, <2>2, FinishTypes DEF CreateUser, AccountsTypeOK
<1>4. CASE PatchUser(c)
  <2>1. account' \in [Users -> Account \cup {NoUser}]
    BY <1>4, MergedRow DEF PatchUser, AccountsTypeOK
  <2>. QED BY <1>4, <2>1, FinishTypes DEF PatchUser, AccountsTypeOK
<1>5. CASE DeleteUser(c)
  BY <1>5, FinishTypes DEF DeleteUser, AccountsTypeOK
<1>6. CASE LookUp(c)
  <2>1. PICK u \in Users :
          /\ account[u] # NoUser
          /\ fetched' = [fetched EXCEPT ![c] =
                           [id |-> u, password |-> account[u].password]]
    BY <1>6 DEF LookUp
  <2>2. [id |-> u, password |-> account[u].password] \in Login
    BY <2>1 DEF AccountsTypeOK, Account, Login
  <2>. QED BY <1>6, <2>1, <2>2 DEF LookUp, Runs, AccountsTypeOK, Handlers
<1>7. CASE IssueToken(c)
  <2>1. fetched[c].id \in Users /\ clock + Lifetime \in Nat
    BY <1>7, AccountsAssumption DEF IssueToken, Handlers, Login, AccountsTypeOK
  <2>2. [sub |-> fetched[c].id, exp |-> clock + Lifetime] \in [sub : Users, exp : Nat]
    BY <2>1
  <2>. QED BY <1>7, <2>2, FinishTypes DEF IssueToken, AccountsTypeOK
<1>8. CASE RefuseCall(c) \/ ForgetCall(c)
  BY <1>8, FinishTypes DEF RefuseCall, ForgetCall, AccountsTypeOK
<1>9. CASE AbandonCall(c)
  BY <1>9 DEF AbandonCall, AccountsTypeOK, Handlers
<1>. QED BY <1>1, <1>2, <1>3, <1>4, <1>5, <1>6, <1>7, <1>8, <1>9
     DEF ClientStep, AccountStatement

LEMMA StepTypes ==
  ASSUME AccountsTypeOK, Handlers, [AccountsNext]_accountsVars
  PROVE  AccountsTypeOK' /\ Handlers'
<1>1. CASE \E c \in Clients : ClientStep(c)
  BY <1>1, ClientTypes
<1>2. CASE Elapse
  BY <1>2 DEF Elapse, handling, AccountsTypeOK, Handlers
<1>3. CASE UNCHANGED accountsVars
  BY <1>3 DEF accountsVars, AccountsTypeOK, Handlers
<1>. QED BY <1>1, <1>2, <1>3 DEF AccountsNext, ClientStep

(***************************************************************************)
(* Addresses.                                                              *)
(***************************************************************************)
LEMMA AddressFree ==
  ASSUME AccountsTypeOK, NEW email, NEW u, NEW v \in Users,
         ~TakenByOther(email, u), v # u, account[v] # NoUser
  PROVE  account[v].email # email
  BY DEF TakenByOther

LEMMA ClientAddresses ==
  ASSUME AccountsTypeOK, Handlers, EmailsIdentify, NEW c \in Clients, ClientStep(c)
  PROVE  EmailsIdentify'
<1>1. CASE CreateUser(c)
  <2>1. PICK u \in Users :
          account' = [account EXCEPT ![u] =
            [email |-> call[c].email, name |-> call[c].name,
             password |-> call[c].password]]
    BY <1>1 DEF CreateUser
  <2>2. account'[u].email = call[c].email
    BY <2>1 DEF AccountsTypeOK
  <2>3. \A v \in Users \ {u} : account'[v] = account[v]
    BY <2>1 DEF AccountsTypeOK
  <2>4. \A v \in Users \ {u} : account[v] # NoUser => account[v].email # call[c].email
    BY <1>1, AddressFree, AccountsAssumption DEF CreateUser
  <2>. QED BY <2>2, <2>3, <2>4 DEF EmailsIdentify
<1>2. CASE PatchUser(c)
  <2>. DEFINE u == call[c].user
  <2>1. /\ u \in Users /\ account[u] \in Account
        /\ account' = [account EXCEPT ![u] = Merged(call[c], account[u])]
    BY <1>2, CallFields DEF PatchUser, AccountsTypeOK
  <2>2. account'[u].email \in {account[u].email, call[c].email}
    BY <2>1 DEF AccountsTypeOK, Merged, Coalesce, Account
  <2>3. \A v \in Users \ {u} : account'[v] = account[v]
    BY <2>1 DEF AccountsTypeOK
  <2>4. \A v \in Users \ {u} : account[v] # NoUser => account[v].email # call[c].email
    BY <1>2, AddressFree DEF PatchUser
  <2>5. account[u] # NoUser
    BY <1>2 DEF PatchUser
  <2>. HIDE DEF u
  <2>. QED BY <2>1, <2>2, <2>3, <2>4, <2>5 DEF EmailsIdentify
<1>3. CASE DeleteUser(c)
  <2>1. \A v \in Users : account'[v] \in {account[v], NoUser}
    BY <1>3 DEF DeleteUser, AccountsTypeOK
  <2>. QED BY <2>1 DEF EmailsIdentify
<1>4. CASE UNCHANGED account
  BY <1>4 DEF EmailsIdentify
<1>. QED BY <1>1, <1>2, <1>3, <1>4
     DEF ClientStep, AccountStatement, ArriveOpen, ArriveProtected, Arrive, LookUp,
         IssueToken, RefuseCall, AbandonCall, ForgetCall

LEMMA StepAddresses ==
  ASSUME AccountsTypeOK, Handlers, EmailsIdentify, [AccountsNext]_accountsVars
  PROVE  EmailsIdentify'
<1>1. CASE \E c \in Clients : ClientStep(c)
  BY <1>1, ClientAddresses
<1>2. CASE Elapse \/ UNCHANGED accountsVars
  BY <1>2 DEF Elapse, accountsVars, EmailsIdentify
<1>. QED BY <1>1, <1>2 DEF AccountsNext, ClientStep

(***************************************************************************)
(* Deleted users and their tokens.                                         *)
(***************************************************************************)
Deleted(u) == deletedAt[u] # Never

(* A deleted id stays deleted, and its tokens were issued by handlers that *)
(* had read the row before and lived at most TimeLimit.                    *)
DeletedStay ==
  \A u \in Users : Deleted(u) => deletedAt[u] <= clock /\ account[u] = NoUser

TokensExpire ==
  \A t \in tokens :
    /\ t.exp <= clock + Lifetime
    /\ Deleted(t.sub) => t.exp <= deletedAt[t.sub] + TimeLimit + Lifetime

HandlersEnd ==
  \A c \in Clients : stage[c] # "idle" /\ ~left[c] =>
    /\ since[c] <= clock /\ clock <= since[c] + TimeLimit
    /\ stage[c] = "fetched" /\ Deleted(fetched[c].id) =>
         since[c] <= deletedAt[fetched[c].id]
    /\ bearer[c] # NoUser /\ Deleted(bearer[c]) =>
         since[c] <= deletedAt[bearer[c]] + TimeLimit + Lifetime + Leeway

Fading == DeletedStay /\ TokensExpire /\ HandlersEnd

AccountsInv == AccountsTypeOK /\ Handlers /\ EmailsIdentify /\ Fading

LEMMA InitFading == AccountsInit => EmailsIdentify /\ Fading
  BY AccountsAssumption
  DEF AccountsInit, EmailsIdentify, Fading, DeletedStay, TokensExpire,
      HandlersEnd, Deleted

LEMMA FadingSuffices ==
  ASSUME AccountsTypeOK, Handlers, Fading
  PROVE  AuthorityFades
<1>. SUFFICES ASSUME NEW u \in Users, deletedAt[u] # Never
     PROVE  /\ \A t \in tokens : t.sub = u =>
                 t.exp <= deletedAt[u] + TimeLimit + Lifetime
            /\ \A c \in Clients : bearer[c] = u /\ ~left[c] =>
                 clock <= deletedAt[u] + TimeLimit + Lifetime + Leeway + TimeLimit
  BY DEF AuthorityFades
<1>1. \A t \in tokens : t.sub = u => t.exp <= deletedAt[u] + TimeLimit + Lifetime
  BY DEF Fading, TokensExpire, Deleted
<1>2. ASSUME NEW c \in Clients, bearer[c] = u, ~left[c]
      PROVE  clock <= deletedAt[u] + TimeLimit + Lifetime + Leeway + TimeLimit
  <2>1. stage[c] # "idle" /\ bearer[c] # NoUser
    BY <1>2, AccountsAssumption DEF Handlers
  <2>2. /\ clock <= since[c] + TimeLimit
        /\ since[c] <= deletedAt[u] + TimeLimit + Lifetime + Leeway
    BY <1>2, <2>1 DEF Fading, HandlersEnd, Deleted
  <2>3. since[c] \in Nat /\ clock \in Nat /\ deletedAt[u] \in Nat
    BY DEF AccountsTypeOK
  <2>. QED BY <2>2, <2>3, AccountsAssumption
<1>. QED BY <1>1, <1>2

(* A handler that ends takes its own entries along and leaves the others.  *)
LEMMA FinishFades ==
  ASSUME AccountsTypeOK, Handlers, HandlersEnd, NEW c \in Clients, Finish(c),
         UNCHANGED <<deletedAt, clock>>
  PROVE  HandlersEnd'
<1>1. stage'[c] = "idle"
  BY DEF Finish, AccountsTypeOK
<1>2. \A x \in Clients \ {c} :
        /\ stage'[x] = stage[x] /\ left'[x] = left[x] /\ since'[x] = since[x]
        /\ fetched'[x] = fetched[x] /\ bearer'[x] = bearer[x]
  BY DEF Finish, AccountsTypeOK
<1>. QED BY <1>1, <1>2 DEF HandlersEnd, Deleted

LEMMA ArriveFades ==
  ASSUME AccountsTypeOK, Handlers, Fading, NEW c \in Clients, NEW q \in Calls,
         NEW from \in Users \cup {NoUser}, Arrive(c, q, from),
         from # NoUser /\ Deleted(from) =>
           clock <= deletedAt[from] + TimeLimit + Lifetime + Leeway
  PROVE  Fading'
<1>1. DeletedStay' /\ TokensExpire'
  BY DEF Arrive, Fading, DeletedStay, TokensExpire, Deleted
<1>2. /\ stage'[c] = "sent" /\ since'[c] = clock /\ bearer'[c] = from
      /\ \A x \in Clients \ {c} :
           stage'[x] = stage[x] /\ since'[x] = since[x] /\ bearer'[x] = bearer[x]
  BY DEF Arrive, AccountsTypeOK
<1>3. clock \in Nat /\ UNCHANGED <<deletedAt, clock, fetched, left>>
  BY DEF Arrive, AccountsTypeOK
<1>4. ASSUME NEW x \in Clients \ {c}, stage'[x] # "idle", ~left'[x]
      PROVE  /\ since'[x] <= clock' /\ clock' <= since'[x] + TimeLimit
             /\ stage'[x] = "fetched" /\ Deleted(fetched[x].id)' =>
                  since'[x] <= deletedAt'[fetched'[x].id]
             /\ bearer'[x] # NoUser /\ Deleted(bearer[x])' =>
                  since'[x] <= deletedAt'[bearer'[x]] + TimeLimit + Lifetime + Leeway
  BY <1>2, <1>3, <1>4 DEF Fading, HandlersEnd, Deleted
<1>5. /\ since'[c] <= clock' /\ clock' <= since'[c] + TimeLimit
      /\ bearer'[c] # NoUser /\ Deleted(bearer[c])' =>
           since'[c] <= deletedAt'[bearer'[c]] + TimeLimit + Lifetime + Leeway
  BY <1>2, <1>3, AccountsAssumption DEF Deleted
<1>6. HandlersEnd'
  BY <1>2, <1>4, <1>5 DEF HandlersEnd
<1>. QED BY <1>1, <1>6 DEF Fading

LEMMA ClientFades ==
  ASSUME AccountsTypeOK, Handlers, Fading, NEW c \in Clients, ClientStep(c)
  PROVE  Fading'
<1>1. CASE \E q \in Calls : ArriveOpen(c, q)
  BY <1>1, ArriveFades DEF ArriveOpen
<1>2. CASE \E q \in Calls, t \in tokens : ArriveProtected(c, q, t)
  <2>1. PICK q \in Calls, t \in tokens :
          /\ t.exp + Leeway >= clock
          /\ Arrive(c, q, t.sub)
    BY <1>2 DEF ArriveProtected, Accepted
  <2>2. t.sub \in Users /\ t.exp \in Nat
    BY DEF AccountsTypeOK
  <2>3. ASSUME Deleted(t.sub)
        PROVE  clock <= deletedAt[t.sub] + TimeLimit + Lifetime + Leeway
    <3>1. t.exp <= deletedAt[t.sub] + TimeLimit + Lifetime
      BY <2>3 DEF Fading, TokensExpire
    <3>2. deletedAt[t.sub] \in Nat /\ clock \in Nat
      BY <2>2, <2>3 DEF AccountsTypeOK, Deleted
    <3>. QED BY <2>1, <2>2, <3>1, <3>2, AccountsAssumption
  <2>. QED BY <2>1, <2>2, <2>3, ArriveFades
<1>3. CASE CreateUser(c)
  <2>1. DeletedStay'
    BY <1>3 DEF CreateUser, AccountsTypeOK, Fading, DeletedStay, Deleted
  <2>2. TokensExpire'
    BY <1>3 DEF CreateUser, Fading, TokensExpire, Deleted
  <2>. QED BY <1>3, <2>1, <2>2, FinishFades DEF CreateUser, Fading
<1>4. CASE PatchUser(c)
  <2>1. call[c].user \in Users
    BY <1>4, CallFields DEF PatchUser
  <2>2. DeletedStay'
    BY <1>4, <2>1 DEF PatchUser, AccountsTypeOK, Fading, DeletedStay, Deleted
  <2>3. TokensExpire'
    BY <1>4 DEF PatchUser, Fading, TokensExpire, Deleted
  <2>. QED BY <1>4, <2>2, <2>3, FinishFades DEF PatchUser, Fading
<1>5. CASE DeleteUser(c)
  <2>. DEFINE u == call[c].user
  <2>1. /\ u \in Users /\ clock \in Nat /\ clock' = clock /\ tokens' = tokens
        /\ deletedAt'[u] = clock /\ account'[u] = NoUser
        /\ \A v \in Users \ {u} :
             deletedAt'[v] = deletedAt[v] /\ account'[v] = account[v]
    BY <1>5, CallFields DEF DeleteUser, AccountsTypeOK
  <2>. HIDE DEF u
  <2>2. DeletedStay'
    BY <2>1 DEF Fading, DeletedStay, Deleted
  <2>3. TokensExpire'
    <3>1. ASSUME NEW t \in tokens
          PROVE  /\ t.exp <= clock + Lifetime
                 /\ deletedAt'[t.sub] # Never =>
                      t.exp <= deletedAt'[t.sub] + TimeLimit + Lifetime
      <4>1. t.sub \in Users /\ t.exp \in Nat /\ t.exp <= clock + Lifetime
        BY DEF AccountsTypeOK, Fading, TokensExpire
      <4>2. CASE t.sub = u
        BY <2>1, <4>1, <4>2, AccountsAssumption
      <4>3. CASE t.sub # u
        BY <2>1, <4>1, <4>3 DEF Fading, TokensExpire, Deleted
      <4>. QED BY <4>2, <4>3
    <3>. QED BY <2>1, <3>1 DEF TokensExpire, Deleted
  <2>4. /\ stage'[c] = "idle"
        /\ \A x \in Clients \ {c} :
             /\ stage'[x] = stage[x] /\ left'[x] = left[x] /\ since'[x] = since[x]
             /\ fetched'[x] = fetched[x] /\ bearer'[x] = bearer[x]
    BY <1>5 DEF DeleteUser, Finish, AccountsTypeOK
  <2>5. ASSUME NEW x \in Clients \ {c}, stage[x] # "idle", ~left[x]
        PROVE  /\ since[x] <= clock /\ clock <= since[x] + TimeLimit
               /\ stage[x] = "fetched" /\ deletedAt'[fetched[x].id] # Never =>
                    since[x] <= deletedAt'[fetched[x].id]
               /\ bearer[x] # NoUser /\ deletedAt'[bearer[x]] # Never =>
                    since[x] <= deletedAt'[bearer[x]] + TimeLimit + Lifetime + Leeway
    <3>1. /\ since[x] \in Nat /\ since[x] <= clock /\ clock <= since[x] + TimeLimit
          /\ stage[x] = "fetched" => fetched[x].id \in Users
          /\ bearer[x] # NoUser => bearer[x] \in Users
      BY <2>5 DEF Fading, HandlersEnd, Handlers, Login, AccountsTypeOK
    <3>2. stage[x] = "fetched" /\ deletedAt'[fetched[x].id] # Never =>
            since[x] <= deletedAt'[fetched[x].id]
      BY <2>1, <2>5, <3>1 DEF Fading, HandlersEnd, Deleted
    <3>3. ASSUME bearer[x] # NoUser, deletedAt'[bearer[x]] # Never
          PROVE  since[x] <= deletedAt'[bearer[x]] + TimeLimit + Lifetime + Leeway
      <4>1. CASE bearer[x] = u
        BY <2>1, <3>1, <4>1, AccountsAssumption
      <4>2. CASE bearer[x] # u
        BY <2>1, <2>5, <3>1, <3>3, <4>2 DEF Fading, HandlersEnd, Deleted
      <4>. QED BY <4>1, <4>2
    <3>. QED BY <3>1, <3>2, <3>3
  <2>6. HandlersEnd'
    BY <2>1, <2>4, <2>5 DEF HandlersEnd, Deleted
  <2>. QED BY <2>2, <2>3, <2>6 DEF Fading
<1>6. CASE LookUp(c)
  <2>1. PICK u \in Users :
          /\ account[u] # NoUser
          /\ fetched' = [fetched EXCEPT ![c] =
                           [id |-> u, password |-> account[u].password]]
    BY <1>6 DEF LookUp
  <2>2. /\ UNCHANGED <<account, deletedAt, tokens, clock, bearer, since, left>>
        /\ ~Deleted(u) /\ fetched'[c].id = u
        /\ stage[c] = "sent" /\ stage'[c] = "fetched"
        /\ \A x \in Clients \ {c} :
             stage'[x] = stage[x] /\ fetched'[x] = fetched[x]
    BY <1>6, <2>1 DEF LookUp, Runs, AccountsTypeOK, Fading, DeletedStay
  <2>3. DeletedStay' /\ TokensExpire'
    BY <2>2 DEF Fading, DeletedStay, TokensExpire, Deleted
  <2>4. HandlersEnd'
    BY <2>2 DEF Fading, HandlersEnd, Deleted
  <2>. QED BY <2>3, <2>4 DEF Fading
<1>7. CASE IssueToken(c)
  <2>. DEFINE t == [sub |-> fetched[c].id, exp |-> clock + Lifetime]
  <2>1. /\ tokens' = tokens \cup {t} /\ Finish(c)
        /\ UNCHANGED <<account, deletedAt, clock>>
        /\ stage[c] = "fetched" /\ ~left[c]
    BY <1>7 DEF IssueToken
  <2>2. t.sub \in Users /\ since[c] \in Nat /\ clock \in Nat /\ t.exp = clock + Lifetime
    BY <2>1 DEF Handlers, Login, AccountsTypeOK
  <2>3. ASSUME Deleted(t.sub)
        PROVE  t.exp <= deletedAt[t.sub] + TimeLimit + Lifetime
    <3>1. clock <= since[c] + TimeLimit /\ since[c] <= deletedAt[t.sub]
      BY <2>1, <2>3 DEF Fading, HandlersEnd
    <3>2. deletedAt[t.sub] \in Nat
      BY <2>2, <2>3 DEF AccountsTypeOK, Deleted
    <3>. QED BY <2>2, <3>1, <3>2, AccountsAssumption
  <2>4. t.exp <= clock + Lifetime
    BY <2>2, AccountsAssumption
  <2>. HIDE DEF t
  <2>5. TokensExpire'
    BY <2>1, <2>3, <2>4 DEF Fading, TokensExpire, Deleted
  <2>6. DeletedStay'
    BY <2>1 DEF Fading, DeletedStay, Deleted
  <2>. QED BY <2>1, <2>5, <2>6, FinishFades DEF Fading
<1>8. CASE RefuseCall(c) \/ ForgetCall(c)
  <2>1. DeletedStay' /\ TokensExpire'
    BY <1>8 DEF RefuseCall, ForgetCall, Fading, DeletedStay, TokensExpire, Deleted
  <2>. QED BY <1>8, <2>1, FinishFades DEF RefuseCall, ForgetCall, Fading
<1>9. CASE AbandonCall(c)
  <2>1. UNCHANGED <<account, deletedAt, tokens, clock, stage, bearer, fetched, since>>
    BY <1>9 DEF AbandonCall
  <2>2. \A x \in Clients : ~left'[x] => ~left[x]
    BY <1>9 DEF AbandonCall, AccountsTypeOK
  <2>. QED BY <2>1, <2>2 DEF Fading, DeletedStay, TokensExpire, HandlersEnd, Deleted
<1>. QED BY <1>1, <1>2, <1>3, <1>4, <1>5, <1>6, <1>7, <1>8, <1>9
     DEF ClientStep, AccountStatement

LEMMA ElapseFades ==
  ASSUME AccountsTypeOK, Handlers, Fading, Elapse
  PROVE  Fading'
<1>1. /\ clock' = clock + 1 /\ clock \in Nat
      /\ UNCHANGED <<account, deletedAt, tokens, stage, bearer, fetched, since, left>>
  BY DEF Elapse, handling, AccountsTypeOK
<1>2. DeletedStay'
  BY <1>1 DEF Fading, DeletedStay, Deleted, AccountsTypeOK
<1>3. TokensExpire'
  BY <1>1, AccountsAssumption DEF Fading, TokensExpire, Deleted, AccountsTypeOK
<1>4. ASSUME NEW c \in Clients, stage[c] # "idle", ~left[c]
      PROVE  since[c] <= clock' /\ clock' <= since[c] + TimeLimit
  <2>1. since[c] \in Nat /\ clock < since[c] + TimeLimit /\ since[c] <= clock
    BY <1>4 DEF Elapse, Fading, HandlersEnd, AccountsTypeOK
  <2>. QED BY <1>1, <2>1, AccountsAssumption
<1>5. HandlersEnd'
  BY <1>1, <1>4 DEF Fading, HandlersEnd, Deleted
<1>. QED BY <1>2, <1>3, <1>5 DEF Fading

(***************************************************************************)
(* The theorems.                                                           *)
(***************************************************************************)
LEMMA AccountsStep ==
  ASSUME AccountsInv, [AccountsNext]_accountsVars
  PROVE  AccountsInv'
<1>1. AccountsTypeOK' /\ Handlers' /\ EmailsIdentify'
  BY StepTypes, StepAddresses DEF AccountsInv
<1>2. Fading'
  <2>1. CASE \E c \in Clients : ClientStep(c)
    BY <2>1, ClientFades DEF AccountsInv
  <2>2. CASE Elapse
    BY <2>2, ElapseFades DEF AccountsInv
  <2>3. CASE UNCHANGED accountsVars
    BY <2>3 DEF accountsVars, AccountsInv, Fading, DeletedStay, TokensExpire,
                HandlersEnd, Deleted
  <2>. QED BY <2>1, <2>2, <2>3 DEF AccountsNext, ClientStep
<1>. QED BY <1>1, <1>2 DEF AccountsInv

LEMMA AccountsInvHolds == AccountsSpec => []AccountsInv
<1>1. AccountsInit => AccountsInv
  BY InitAccounts, InitFading DEF AccountsInv
<1>. QED BY <1>1, AccountsStep, PTL DEF AccountsSpec

(* Every reachable state has well-formed accounts, tokens and handlers.    *)
THEOREM AccountsTypes == AccountsSpec => []AccountsTypeOK
<1>1. AccountsInv => AccountsTypeOK
  BY DEF AccountsInv
<1>. QED BY <1>1, AccountsInvHolds, PTL

(* However registrations, changes of address and deletions interleave, an  *)
(* address belongs to one account at most.                                 *)
THEOREM EmailsAreUnique == AccountsSpec => []EmailsIdentify
<1>1. AccountsInv => EmailsIdentify
  BY DEF AccountsInv
<1>. QED BY <1>1, AccountsInvHolds, PTL

(* Tokens are never revoked, yet those of a deleted user stop working      *)
(* after a time that the lifetime, the leeway and the time limit bound.    *)
THEOREM DeletedUsersFade == AccountsSpec => []AuthorityFades
<1>1. AccountsInv => AuthorityFades
  BY FadingSuffices DEF AccountsInv
<1>. QED BY <1>1, AccountsInvHolds, PTL

(* An account changes only where a PATCH in flight asks for it, and no     *)
(* step brings a deleted account back.                                     *)
Merges(u) ==
  /\ account[u] # NoUser /\ account'[u] \notin {account[u], NoUser} =>
       /\ account'[u].password = account[u].password
       /\ \A field \in {"email", "name"} :
            account'[u][field] # account[u][field] =>
              \E c \in Clients :
                /\ stage[c] = "sent" /\ call[c].kind = "patch"
                /\ call[c].user = u /\ call[c][field] = account'[u][field]
  /\ deletedAt[u] # Never => account'[u] = NoUser

LEMMA StepMerges ==
  ASSUME AccountsInv, [AccountsNext]_accountsVars, NEW u \in Users
  PROVE  Merges(u)
<1>1. deletedAt[u] # Never => account[u] = NoUser
  BY DEF AccountsInv, Fading, DeletedStay, Deleted
<1>2. CASE account' = account
  BY <1>1, <1>2 DEF Merges
<1>3. CASE \E c \in Clients : CreateUser(c)
  <2>1. PICK v \in Users :
          /\ account[v] = NoUser /\ deletedAt[v] = Never
          /\ \A x \in Users \ {v} : account'[x] = account[x]
    BY <1>3 DEF CreateUser, AccountsInv, AccountsTypeOK
  <2>. QED BY <1>1, <2>1 DEF Merges
<1>4. CASE \E c \in Clients : DeleteUser(c)
  <2>1. account'[u] \in {account[u], NoUser}
    BY <1>4 DEF DeleteUser, AccountsInv, AccountsTypeOK
  <2>. QED BY <1>1, <2>1 DEF Merges
<1>5. ASSUME NEW c \in Clients, PatchUser(c)
      PROVE  Merges(u)
  <2>1. CASE call[c].user # u
    <3>1. account'[u] = account[u]
      BY <1>5, <2>1, CallFields DEF PatchUser, AccountsInv, AccountsTypeOK
    <3>. QED BY <1>1, <3>1 DEF Merges
  <2>2. CASE call[c].user = u
    <3>1. /\ stage[c] = "sent" /\ call[c].kind = "patch"
          /\ account[u] # NoUser /\ account'[u] = Merged(call[c], account[u])
      BY <1>5, <2>2 DEF PatchUser, Runs, AccountsInv, AccountsTypeOK
    <3>2. account[u] \in Account
      BY <3>1 DEF AccountsInv, AccountsTypeOK
    <3>3. /\ account'[u].password = account[u].password
          /\ account'[u].email = Coalesce(call[c].email, account[u].email)
          /\ account'[u].name = Coalesce(call[c].name, account[u].name)
      BY <3>1, <3>2 DEF Merged, Account
    <3>4. /\ account'[u].email # account[u].email => call[c].email = account'[u].email
          /\ account'[u].name # account[u].name => call[c].name = account'[u].name
      BY <3>3 DEF Coalesce
    <3>. QED BY <1>1, <2>2, <3>1, <3>3, <3>4 DEF Merges
  <2>. QED BY <2>1, <2>2
<1>. QED BY <1>2, <1>3, <1>4, <1>5
     DEF AccountsNext, AccountStatement, ArriveOpen, ArriveProtected, Arrive,
         LookUp, IssueToken, RefuseCall, AbandonCall, ForgetCall, Elapse, accountsVars

(* PATCHes of different fields of one user never undo each other.          *)
THEOREM ConcurrentPatchesMerge == AccountsSpec => PatchesMerge
<1>1. AccountsInv /\ [AccountsNext]_accountsVars => \A u \in Users : Merges(u)
  BY StepMerges
<1>2. AccountsInv /\ [AccountsNext]_accountsVars =>
        [\A u \in Users : Merges(u)]_accountsVars
  BY <1>1
<1>3. AccountsSpec => [][\A u \in Users : Merges(u)]_accountsVars
  BY <1>2, AccountsInvHolds, PTL DEF AccountsSpec
<1>. QED BY <1>3 DEF PatchesMerge, Merges

(***************************************************************************)
(* Cameras.                                                                *)
(***************************************************************************)
(* What the steps are that no write of a camera takes.                     *)
BrandStep ==
  \/ \E b \in BrandIds, input \in BrandInputs :
       CreateBrand(b, input) \/ UpdateBrand(b, input)
  \/ \E b \in BrandIds : DeleteBrandRow(b)

ListStep(r) ==
  \/ \E name \in BrandLabels : CountCameras(r, name)
  \/ PageCameras(r) \/ EndList(r)

Holding == {"row", "read", "commit"}

(* What a write has written, and what it will be told, at each statement.  *)
Progress(w) ==
  /\ step[w] # "idle" => write[w] \in CameraRequests
  /\ step[w] \in {"idle", "brand"} => undo[w] = Untouched
  /\ step[w] \in Holding =>
       /\ brandId[w] \in BrandIds /\ undo[w].brand = brandId[w]
       /\ brand[brandId[w]] # NoRow
       /\ undo[w].wasBrand # NoRow => undo[w].wasBrand.slug = brand[brandId[w]].slug
  /\ step[w] = "row" => undo[w].camera = NoRow /\ undo[w].wasCamera = NoRow
  /\ step[w] \in {"read", "commit"} =>
       /\ undo[w].camera \in CameraIds /\ camera[undo[w].camera] # NoRow
       /\ camera[undo[w].camera].brand = brandId[w]

InProgress == \A w \in CameraWriters : Progress(w)

(***************************************************************************)
(* Types.                                                                  *)
(***************************************************************************)
LEMMA InitCameras == CamerasInit => CamerasTypeOK /\ InProgress
  BY CamerasAssumption
  DEF CamerasInit, CamerasTypeOK, InProgress, Progress, Untouched, UndoRows, Holding

LEMMA RequestFields ==
  ASSUME NEW q \in CameraRequests
  PROVE  /\ q.target \in CameraIds \cup {NoRow} /\ q.brandSlug \in BrandSlugs
         /\ q.brandName \in BrandLabels /\ q.slug \in CameraSlugs
  BY CamerasAssumption DEF CameraPayloads

(* What a statement notes before it writes a row.                          *)
LEMMA BrandNoted ==
  ASSUME NEW u \in UndoRows, NEW b \in BrandIds, NEW row \in BrandRows \cup {NoRow}
  PROVE  [u EXCEPT !.brand = b, !.wasBrand = row] \in UndoRows
  BY DEF UndoRows

LEMMA CameraNoted ==
  ASSUME NEW u \in UndoRows, NEW c \in CameraIds, NEW row \in CameraRows \cup {NoRow}
  PROVE  [u EXCEPT !.camera = c, !.wasCamera = row] \in UndoRows
  BY DEF UndoRows

LEMMA EndWriteTypes ==
  ASSUME CamerasTypeOK, NEW w \in CameraWriters, EndWrite(w),
         brand' \in [BrandIds -> BrandRows \cup {NoRow}],
         camera' \in [CameraIds -> CameraRows \cup {NoRow}]
  PROVE  CamerasTypeOK'
  BY DEF CamerasTypeOK, EndWrite, Untouched, UndoRows, lists

LEMMA RollBackTypes ==
  ASSUME CamerasTypeOK, NEW w \in CameraWriters, RollBack(w)
  PROVE  CamerasTypeOK'
<1>1. /\ undo[w].wasBrand \in BrandRows \cup {NoRow}
      /\ undo[w].wasCamera \in CameraRows \cup {NoRow}
  BY DEF CamerasTypeOK, UndoRows
<1>2. /\ brand' \in [BrandIds -> BrandRows \cup {NoRow}]
      /\ camera' \in [CameraIds -> CameraRows \cup {NoRow}]
  BY <1>1 DEF RollBack, CamerasTypeOK
<1>. QED BY <1>2, EndWriteTypes DEF RollBack

LEMMA WriterTypes ==
  ASSUME CamerasTypeOK, InProgress, NEW w \in CameraWriters, CameraStatement(w)
  PROVE  CamerasTypeOK'
<1>1. CASE \E payload \in CameraRequests : BeginWrite(w, payload)
  BY <1>1 DEF BeginWrite, CamerasTypeOK, brandTables, lists
<1>2. CASE UpsertCameraBrand(w)
  <2>1. PICK b \in BrandIds :
          /\ brand' = [brand EXCEPT ![b] = [slug |-> write[w].brandSlug,
                                            name |-> write[w].brandName]]
          /\ brandId' = [brandId EXCEPT ![w] = b]
          /\ undo' = [undo EXCEPT ![w] =
                        [undo[w] EXCEPT !.brand = b, !.wasBrand = brand[b]]]
    BY <1>2 DEF UpsertCameraBrand
  <2>2. write[w] \in CameraRequests
    BY <1>2 DEF UpsertCameraBrand, InProgress, Progress
  <2>3. brand' \in [BrandIds -> BrandRows \cup {NoRow}]
    BY <2>1, <2>2, RequestFields DEF CamerasTypeOK, BrandRows
  <2>4. [undo[w] EXCEPT !.brand = b, !.wasBrand = brand[b]] \in UndoRows
    BY BrandNoted DEF CamerasTypeOK
  <2>. QED BY <1>2, <2>1, <2>3, <2>4 DEF UpsertCameraBrand, CamerasTypeOK, lists
<1>3. CASE WriteCamera(w)
  <2>1. PICK c \in RowsFor(w) :
          /\ camera' = [camera EXCEPT ![c] =
                          [brand |-> brandId[w], slug |-> write[w].slug]]
          /\ undo' = [undo EXCEPT ![w] =
                        [undo[w] EXCEPT !.camera = c, !.wasCamera = camera[c]]]
    BY <1>3 DEF WriteCamera
  <2>2. write[w] \in CameraRequests /\ brandId[w] \in BrandIds
    BY <1>3 DEF WriteCamera, InProgress, Progress, Holding
  <2>3. c \in CameraIds
    BY <2>2, RequestFields DEF RowsFor
  <2>4. camera' \in [CameraIds -> CameraRows \cup {NoRow}]
    BY <2>1, <2>2, <2>3, RequestFields DEF CamerasTypeOK, CameraRows
  <2>5. [undo[w] EXCEPT !.camera = c, !.wasCamera = camera[c]] \in UndoRows
    BY <2>3, CameraNoted DEF CamerasTypeOK
  <2>. QED BY <1>3, <2>1, <2>4, <2>5 DEF WriteCamera, CamerasTypeOK, lists
<1>4. CASE ReadCameraBack(w)
  <2>. DEFINE row == camera[undo[w].camera]
  <2>1. row \in CameraRows /\ brand[row.brand] \in BrandRows
    BY <1>4 DEF ReadCameraBack, InProgress, Progress, Holding, CamerasTypeOK
  <2>2. [slug |-> row.slug, brand |-> brand[row.brand]] \in CameraShown
    BY <2>1 DEF CameraRows, CameraShown
  <2>. QED BY <1>4, <2>2 DEF ReadCameraBack, CamerasTypeOK, brandTables, lists
<1>5. CASE RefuseWrite(w) \/ LoseWrite(w)
  BY <1>5, RollBackTypes DEF RefuseWrite, LoseWrite
<1>6. CASE CommitCamera(w)
  BY <1>6, EndWriteTypes DEF CommitCamera, CamerasTypeOK
<1>. QED BY <1>1, <1>2, <1>3, <1>4, <1>5, <1>6 DEF CameraStatement

LEMMA BrandTypes ==
  ASSUME CamerasTypeOK, BrandStep
  PROVE  CamerasTypeOK'
<1>1. ASSUME NEW b \in BrandIds, NEW input \in BrandInputs,
             CreateBrand(b, input) \/ UpdateBrand(b, input)
      PROVE  CamerasTypeOK'
  BY <1>1, CamerasAssumption DEF CreateBrand, UpdateBrand, CamerasTypeOK, writes, lists
<1>2. ASSUME NEW b \in BrandIds, DeleteBrandRow(b)
      PROVE  CamerasTypeOK'
  BY <1>2 DEF DeleteBrandRow, CamerasTypeOK, writes, lists
<1>. QED BY <1>1, <1>2 DEF BrandStep

LEMMA MatchingRows ==
  ASSUME NEW name
  PROVE  /\ Matching(name) \in SUBSET CameraIds
         /\ IsFiniteSet(Matching(name)) /\ Cardinality(Matching(name)) \in Nat
<1>1. Matching(name) \in SUBSET CameraIds
  BY DEF Matching
<1>. QED BY <1>1, CamerasAssumption, FS_Subset, FS_CardinalityType

LEMMA ListTypes ==
  ASSUME CamerasTypeOK, NEW r \in CameraReaders, ListStep(r)
  PROVE  CamerasTypeOK'
<1>1. CASE \E name \in BrandLabels : CountCameras(r, name)
  BY <1>1, MatchingRows DEF CountCameras, CamerasTypeOK, brandTables, writes
<1>2. CASE PageCameras(r)
  BY <1>2 DEF PageCameras, TakePage, CamerasTypeOK, brandTables, writes
<1>3. CASE EndList(r)
  BY <1>3 DEF EndList, CamerasTypeOK, brandTables, writes
<1>. QED BY <1>1, <1>2, <1>3 DEF ListStep

(***************************************************************************)
(* What the statements of a write change, row by row.                      *)
(***************************************************************************)
OthersKeep(w) ==
  \A x \in CameraWriters \ {w} :
    /\ undo'[x] = undo[x] /\ step'[x] = step[x] /\ write'[x] = write[x]
    /\ brandId'[x] = brandId[x] /\ response'[x] = response[x]

LEMMA Upserts ==
  ASSUME CamerasTypeOK, InProgress, NEW w \in CameraWriters, UpsertCameraBrand(w)
  PROVE  \E b \in BrandIds :
           /\ BrandFor(b, write[w].brandSlug)
           /\ brand'[b] \in BrandRows /\ brand'[b].slug = write[w].brandSlug
           /\ \A d \in BrandIds \ {b} : brand'[d] = brand[d]
           /\ step[w] = "brand" /\ step'[w] = "row" /\ brandId'[w] = b
           /\ undo[w] = Untouched
           /\ undo'[w].brand = b /\ undo'[w].wasBrand = brand[b]
           /\ undo'[w].camera = NoRow /\ undo'[w].wasCamera = NoRow
           /\ OthersKeep(w) /\ UNCHANGED <<camera, spent, write, response, lists>>
<1>1. PICK b \in BrandIds :
        /\ BrandFor(b, write[w].brandSlug)
        /\ brand' = [brand EXCEPT ![b] = [slug |-> write[w].brandSlug,
                                          name |-> write[w].brandName]]
        /\ brandId' = [brandId EXCEPT ![w] = b]
        /\ undo' = [undo EXCEPT ![w] =
                      [undo[w] EXCEPT !.brand = b, !.wasBrand = brand[b]]]
  BY DEF UpsertCameraBrand
<1>2. write[w] \in CameraRequests /\ undo[w] = Untouched /\ step[w] = "brand"
  BY DEF UpsertCameraBrand, InProgress, Progress
<1>3. brand'[b] \in BrandRows /\ brand'[b].slug = write[w].brandSlug
  BY <1>1, <1>2, RequestFields DEF CamerasTypeOK, BrandRows
<1>4. /\ undo'[w].brand = b /\ undo'[w].wasBrand = brand[b]
      /\ undo'[w].camera = NoRow /\ undo'[w].wasCamera = NoRow
  <2>1. undo[w] \in UndoRows /\ brand[b] \in BrandRows \cup {NoRow}
    BY DEF CamerasTypeOK
  <2>. DEFINE v == [undo[w] EXCEPT !.brand = b, !.wasBrand = brand[b]]
  <2>2. /\ v.brand = b /\ v.wasBrand = brand[b]
        /\ v.camera = undo[w].camera /\ v.wasCamera = undo[w].wasCamera
    BY <2>1 DEF UndoRows
  <2>3. undo'[w] = v
    BY <1>1 DEF CamerasTypeOK
  <2>. HIDE DEF v
  <2>. QED BY <1>2, <2>2, <2>3 DEF Untouched
<1>5. OthersKeep(w)
  BY <1>1 DEF UpsertCameraBrand, OthersKeep, CamerasTypeOK
<1>6. /\ \A d \in BrandIds \ {b} : brand'[d] = brand[d]
      /\ step'[w] = "row" /\ brandId'[w] = b
      /\ UNCHANGED <<camera, spent, write, response, lists>>
  BY <1>1 DEF UpsertCameraBrand, CamerasTypeOK
<1>. QED BY <1>1, <1>2, <1>3, <1>4, <1>5, <1>6

LEMMA WritesCamera ==
  ASSUME CamerasTypeOK, InProgress, NEW w \in CameraWriters, WriteCamera(w)
  PROVE  \E c \in CameraIds :
           /\ camera[c] = NoRow \/ ~CameraLocked(c)
           /\ ~CameraSlugPending(write[w].slug) /\ ~CameraSlugTaken(c, write[w].slug)
           /\ camera'[c] \in CameraRows
           /\ camera'[c].slug = write[w].slug /\ camera'[c].brand = brandId[w]
           /\ \A d \in CameraIds \ {c} : camera'[d] = camera[d]
           /\ step[w] = "row" /\ step'[w] = "read"
           /\ undo'[w].brand = undo[w].brand /\ undo'[w].wasBrand = undo[w].wasBrand
           /\ undo'[w].camera = c /\ undo'[w].wasCamera = camera[c]
           /\ OthersKeep(w) /\ UNCHANGED <<brand, spent, write, brandId, response, lists>>
<1>1. PICK c \in RowsFor(w) :
        /\ ~CameraSlugTaken(c, write[w].slug)
        /\ camera' = [camera EXCEPT ![c] =
                        [brand |-> brandId[w], slug |-> write[w].slug]]
        /\ undo' = [undo EXCEPT ![w] =
                      [undo[w] EXCEPT !.camera = c, !.wasCamera = camera[c]]]
  BY DEF WriteCamera
<1>2. /\ write[w] \in CameraRequests /\ step[w] = "row"
      /\ brandId[w] \in BrandIds
  BY DEF WriteCamera, InProgress, Progress, Holding
<1>3. c \in CameraIds /\ (camera[c] = NoRow \/ ~CameraLocked(c))
  BY <1>2, RequestFields DEF RowsFor
<1>4. /\ camera'[c] \in CameraRows
      /\ camera'[c].slug = write[w].slug /\ camera'[c].brand = brandId[w]
  BY <1>1, <1>2, <1>3, RequestFields DEF CamerasTypeOK, CameraRows
<1>5. /\ undo'[w].brand = undo[w].brand /\ undo'[w].wasBrand = undo[w].wasBrand
      /\ undo'[w].camera = c /\ undo'[w].wasCamera = camera[c]
  <2>1. undo[w] \in UndoRows /\ camera[c] \in CameraRows \cup {NoRow}
    BY <1>3 DEF CamerasTypeOK
  <2>. DEFINE v == [undo[w] EXCEPT !.camera = c, !.wasCamera = camera[c]]
  <2>2. /\ v.camera = c /\ v.wasCamera = camera[c]
        /\ v.brand = undo[w].brand /\ v.wasBrand = undo[w].wasBrand
    BY <1>3, <2>1 DEF UndoRows
  <2>3. undo'[w] = v
    BY <1>1 DEF CamerasTypeOK
  <2>. HIDE DEF v
  <2>. QED BY <2>2, <2>3
<1>6. OthersKeep(w)
  BY <1>1 DEF WriteCamera, OthersKeep, CamerasTypeOK
<1>7. /\ \A d \in CameraIds \ {c} : camera'[d] = camera[d]
      /\ step'[w] = "read" /\ ~CameraSlugPending(write[w].slug)
      /\ UNCHANGED <<brand, spent, write, brandId, response, lists>>
  BY <1>1 DEF WriteCamera, CamerasTypeOK
<1>. QED BY <1>1, <1>2, <1>3, <1>4, <1>5, <1>6, <1>7

LEMMA Ends ==
  ASSUME CamerasTypeOK, NEW w \in CameraWriters, EndWrite(w)
  PROVE  /\ step'[w] = "idle" /\ undo'[w] = Untouched
         /\ OthersKeep(w) /\ UNCHANGED <<spent, lists>>
  BY DEF EndWrite, OthersKeep, CamerasTypeOK

LEMMA RollsBack ==
  ASSUME CamerasTypeOK, NEW w \in CameraWriters, RollBack(w)
  PROVE  /\ \A b \in BrandIds :
              brand'[b] = IF undo[w].brand = b THEN undo[w].wasBrand ELSE brand[b]
         /\ \A c \in CameraIds :
              camera'[c] = IF undo[w].camera = c THEN undo[w].wasCamera ELSE camera[c]
         /\ step'[w] = "idle" /\ undo'[w] = Untouched
         /\ OthersKeep(w) /\ UNCHANGED <<spent, lists>>
  BY Ends DEF RollBack

LEMMA Reads ==
  ASSUME CamerasTypeOK, NEW w \in CameraWriters, ReadCameraBack(w)
  PROVE  /\ response'[w] = [slug |-> camera[undo[w].camera].slug,
                            brand |-> brand[camera[undo[w].camera].brand]]
         /\ step[w] = "read" /\ step'[w] = "commit"
         /\ OthersKeep(w) /\ UNCHANGED <<brand, camera, spent, write, brandId, undo, lists>>
  BY DEF ReadCameraBack, OthersKeep, CamerasTypeOK, brandTables

LEMMA Begins ==
  ASSUME CamerasTypeOK, NEW w \in CameraWriters, NEW payload \in CameraRequests,
         BeginWrite(w, payload)
  PROVE  /\ step[w] = "idle" /\ step'[w] = "brand" /\ write'[w] = payload
         /\ OthersKeep(w)
         /\ UNCHANGED <<brand, camera, spent, brandId, undo, response, lists>>
  BY DEF BeginWrite, OthersKeep, CamerasTypeOK, brandTables

(* The three ways in which administrators change a brand that is not       *)
(* locked.                                                                 *)
LEMMA BrandsChange ==
  ASSUME CamerasTypeOK, BrandStep
  PROVE  /\ UNCHANGED <<camera, writes, lists>>
         /\ \E b \in BrandIds :
              /\ \A d \in BrandIds \ {b} : brand'[d] = brand[d]
              /\ \/ /\ brand[b] = NoRow \/ ~BrandLocked(b)
                    /\ brand'[b] \in BrandRows /\ ~BrandSlugTaken(b, brand'[b].slug)
                 \/ /\ brand[b] # NoRow /\ ~BrandLocked(b) /\ ~Refers(b)
                    /\ brand'[b] = NoRow
  BY CamerasAssumption
  DEF BrandStep, CreateBrand, UpdateBrand, DeleteBrandRow, CamerasTypeOK

(***************************************************************************)
(* The inductive invariant.                                                *)
(***************************************************************************)

(* Locks are held by one transaction each.                                 *)
Exclusive ==
  \A w, x \in CameraWriters : w # x =>
    /\ undo[w].brand = NoRow \/ undo[w].brand # undo[x].brand
    /\ undo[w].camera = NoRow \/ undo[w].camera # undo[x].camera

(* Every row that is or may come back has its brand, and a brand that a    *)
(* rollback would remove is that of its own writer's row alone.            *)
BrandsReferred ==
  /\ \A c \in CameraIds : camera[c] # NoRow => brand[camera[c].brand] # NoRow
  /\ \A w \in CameraWriters :
       undo[w].wasCamera # NoRow => brand[undo[w].wasCamera.brand] # NoRow
  /\ \A w \in CameraWriters : undo[w].brand # NoRow /\ undo[w].wasBrand = NoRow =>
       /\ \A c \in CameraIds : camera[c] # NoRow /\ camera[c].brand = undo[w].brand =>
            c = undo[w].camera
       /\ \A x \in CameraWriters : undo[x].wasCamera # NoRow =>
            undo[x].wasCamera.brand # undo[w].brand

OneBrand == \A b, d \in BrandIds : SameSlug(brand[b], brand[d]) => b = d

(* A slug that a camera has, or gets back when its writer rolls back, is   *)
(* no other camera's.                                                      *)
HasSlug(c, slug) ==
  \/ camera[c] # NoRow /\ camera[c].slug = slug
  \/ \E w \in CameraWriters :
       undo[w].camera = c /\ undo[w].wasCamera # NoRow /\ undo[w].wasCamera.slug = slug

OneCamera ==
  \A c, d \in CameraIds, slug \in CameraSlugs :
    HasSlug(c, slug) /\ HasSlug(d, slug) => c = d

LockedRows == CamerasTypeOK /\ InProgress /\ Exclusive
CamerasInv ==
  LockedRows /\ BrandsReferred /\ OneBrand /\ OneCamera /\ AcknowledgedAsStored

LEMMA Untouches ==
  /\ Untouched.brand = NoRow /\ Untouched.wasBrand = NoRow
  /\ Untouched.camera = NoRow /\ Untouched.wasCamera = NoRow
  BY DEF Untouched

LEMMA InitInv == CamerasInit => CamerasInv
<1>. SUFFICES ASSUME CamerasInit PROVE CamerasInv
  OBVIOUS
<1>1. LockedRows
  BY InitCameras, Untouches DEF LockedRows, CamerasInit, Exclusive
<1>2. BrandsReferred
  BY Untouches DEF CamerasInit, BrandsReferred
<1>3. OneBrand /\ OneCamera /\ AcknowledgedAsStored
  BY Untouches DEF CamerasInit, OneBrand, SameSlug, OneCamera, HasSlug, AcknowledgedAsStored
<1>. QED BY <1>1, <1>2, <1>3 DEF CamerasInv

(* The kinds of steps that the lemmas below distinguish.                   *)
LEMMA StatementKinds ==
  ASSUME NEW w \in CameraWriters, CameraStatement(w)
  PROVE  \/ \E payload \in CameraRequests : BeginWrite(w, payload)
         \/ UpsertCameraBrand(w) \/ WriteCamera(w) \/ ReadCameraBack(w)
         \/ step[w] = "commit" /\ EndWrite(w) /\ UNCHANGED <<brand, camera>>
         \/ step[w] # "idle" /\ RollBack(w)
  BY DEF CameraStatement, RefuseWrite, ChecksFail, CommitCamera, LoseWrite

LEMMA StatementFrame ==
  ASSUME LockedRows, NEW w \in CameraWriters, CameraStatement(w)
  PROVE  OthersKeep(w) /\ UNCHANGED lists
<1>. USE DEF LockedRows
<1>1. CASE \E payload \in CameraRequests : BeginWrite(w, payload)
  BY <1>1, Begins
<1>2. CASE UpsertCameraBrand(w)
  BY <1>2, Upserts
<1>3. CASE WriteCamera(w)
  BY <1>3, WritesCamera
<1>4. CASE ReadCameraBack(w)
  BY <1>4, Reads
<1>5. CASE EndWrite(w) \/ RollBack(w)
  BY <1>5, Ends, RollsBack
<1>. QED BY <1>1, <1>2, <1>3, <1>4, <1>5, StatementKinds

(***************************************************************************)
(* Progress and locks.                                                     *)
(***************************************************************************)
(* A row that x holds is not among those that another write changes.       *)
LEMMA OtherProgress ==
  ASSUME LockedRows, NEW w \in CameraWriters, OthersKeep(w),
         NEW x \in CameraWriters \ {w},
         step[x] \in Holding =>
           brand'[brandId[x]] # NoRow /\ brand'[brandId[x]].slug = brand[brandId[x]].slug,
         step[x] \in {"read", "commit"} => camera'[undo[x].camera] = camera[undo[x].camera]
  PROVE  Progress(x)'
  BY DEF LockedRows, InProgress, Progress, OthersKeep, Holding

LEMMA WriterProgress ==
  ASSUME LockedRows, NEW w \in CameraWriters, CameraStatement(w)
  PROVE  InProgress'
<1>. USE DEF LockedRows
<1>1. CASE \E payload \in CameraRequests : BeginWrite(w, payload)
  <2>1. \A x \in CameraWriters \ {w} : Progress(x)'
    BY <1>1, Begins, OtherProgress DEF InProgress, Progress
  <2>2. Progress(w)'
    BY <1>1, Begins DEF InProgress, Progress, Holding
  <2>. QED BY <2>1, <2>2 DEF InProgress
<1>2. CASE UpsertCameraBrand(w)
  <2>1. PICK b \in BrandIds :
          /\ BrandFor(b, write[w].brandSlug)
          /\ brand'[b] \in BrandRows /\ brand'[b].slug = write[w].brandSlug
          /\ \A d \in BrandIds \ {b} : brand'[d] = brand[d]
          /\ step[w] = "brand" /\ step'[w] = "row" /\ brandId'[w] = b
          /\ undo[w] = Untouched
          /\ undo'[w].brand = b /\ undo'[w].wasBrand = brand[b]
          /\ undo'[w].camera = NoRow /\ undo'[w].wasCamera = NoRow
          /\ OthersKeep(w) /\ UNCHANGED <<camera, spent, write, response, lists>>
    BY <1>2, Upserts
  <2>2. ASSUME NEW x \in CameraWriters \ {w}
        PROVE  Progress(x)'
    <3>1. step[x] \in Holding => brandId[x] \in BrandIds \ {b}
      BY <2>1 DEF InProgress, Progress, BrandFor, BrandLocked
    <3>2. step[x] \in Holding => brand[brandId[x]] # NoRow
      BY DEF InProgress, Progress
    <3>. QED BY <2>1, <3>1, <3>2, OtherProgress
  <2>3. brand[b] # NoRow => brand[b].slug = write[w].brandSlug
    BY <2>1 DEF BrandFor
  <2>4. Progress(w)'
    BY <2>1, <2>3, CamerasAssumption DEF InProgress, Progress, Holding
  <2>. QED BY <2>2, <2>4 DEF InProgress
<1>3. CASE WriteCamera(w)
  <2>1. PICK c \in CameraIds :
          /\ camera[c] = NoRow \/ ~CameraLocked(c)
          /\ camera'[c] \in CameraRows /\ camera'[c].brand = brandId[w]
          /\ \A d \in CameraIds \ {c} : camera'[d] = camera[d]
          /\ step[w] = "row" /\ step'[w] = "read"
          /\ undo'[w].brand = undo[w].brand /\ undo'[w].wasBrand = undo[w].wasBrand
          /\ undo'[w].camera = c
          /\ OthersKeep(w) /\ UNCHANGED <<brand, write, brandId>>
    BY <1>3, WritesCamera
  <2>2. ASSUME NEW x \in CameraWriters \ {w}
        PROVE  Progress(x)'
    <3>1. step[x] \in {"read", "commit"} => undo[x].camera \in CameraIds \ {c}
      BY <2>1 DEF InProgress, Progress, CameraLocked
    <3>2. step[x] \in Holding => brand[brandId[x]] # NoRow
      BY DEF InProgress, Progress
    <3>. QED BY <2>1, <3>1, <3>2, OtherProgress
  <2>3. Progress(w)'
    BY <2>1, CamerasAssumption DEF InProgress, Progress, Holding
  <2>. QED BY <2>2, <2>3 DEF InProgress
<1>4. CASE ReadCameraBack(w)
  <2>1. ASSUME NEW x \in CameraWriters \ {w}
        PROVE  Progress(x)'
    <3>1. OthersKeep(w) /\ UNCHANGED <<brand, camera>>
      BY <1>4, Reads
    <3>2. step[x] \in Holding => brand[brandId[x]] # NoRow
      BY DEF InProgress, Progress
    <3>. QED BY <3>1, <3>2, OtherProgress
  <2>2. Progress(w)'
    BY <1>4, Reads DEF InProgress, Progress, Holding
  <2>. QED BY <2>1, <2>2 DEF InProgress
<1>5. CASE EndWrite(w) /\ UNCHANGED <<brand, camera>>
  <2>1. \A x \in CameraWriters \ {w} : Progress(x)'
    BY <1>5, Ends, OtherProgress DEF InProgress, Progress
  <2>2. Progress(w)'
    BY <1>5, Ends DEF Progress, Holding
  <2>. QED BY <2>1, <2>2 DEF InProgress
<1>6. CASE RollBack(w)
  <2>1. ASSUME NEW x \in CameraWriters \ {w}
        PROVE  Progress(x)'
    <3>1. step[x] \in Holding =>
            /\ undo[w].brand # brandId[x] /\ brandId[x] \in BrandIds
            /\ brand[brandId[x]] # NoRow
      BY CamerasAssumption DEF Exclusive, InProgress, Progress
    <3>2. step[x] \in {"read", "commit"} =>
            undo[x].camera \in CameraIds /\ undo[w].camera # undo[x].camera
      BY CamerasAssumption DEF Exclusive, InProgress, Progress
    <3>. QED BY <1>6, <3>1, <3>2, RollsBack, OtherProgress
  <2>2. Progress(w)'
    BY <1>6, RollsBack DEF Progress, Holding
  <2>. QED BY <2>1, <2>2 DEF InProgress
<1>. QED BY <1>1, <1>2, <1>3, <1>4, <1>5, <1>6, StatementKinds

(* Administrators leave the brands that writes have locked as they are.    *)
LEMMA BrandProgress ==
  ASSUME LockedRows, BrandStep
  PROVE  /\ InProgress'
         /\ \A w \in CameraWriters :
              undo[w].brand # NoRow => brand'[undo[w].brand] = brand[undo[w].brand]
<1>. USE DEF LockedRows
<1>1. PICK b \in BrandIds :
        /\ UNCHANGED <<camera, writes, lists>>
        /\ \A d \in BrandIds \ {b} : brand'[d] = brand[d]
        /\ brand[b] = NoRow \/ ~BrandLocked(b)
  BY BrandsChange
<1>2. ASSUME NEW w \in CameraWriters, step[w] \in Holding
      PROVE  brand'[brandId[w]] = brand[brandId[w]]
  <2>1. brandId[w] \in BrandIds /\ brand[brandId[w]] # NoRow /\ undo[w].brand = brandId[w]
    BY <1>2 DEF InProgress, Progress
  <2>2. brandId[w] # b
    BY <1>1, <2>1 DEF BrandLocked
  <2>. QED BY <1>1, <2>1, <2>2
<1>3. InProgress'
  BY <1>1, <1>2 DEF InProgress, Progress, writes
<1>4. \A w \in CameraWriters : undo[w].brand # NoRow => step[w] \in Holding
  BY Untouches DEF InProgress, Progress, CamerasTypeOK, Holding
<1>. QED BY <1>2, <1>3, <1>4 DEF InProgress, Progress

LEMMA WriterExclusive ==
  ASSUME LockedRows, NEW w \in CameraWriters, CameraStatement(w)
  PROVE  Exclusive'
<1>. USE DEF LockedRows
<1>1. CASE UNCHANGED undo
  BY <1>1 DEF Exclusive
<1>2. CASE OthersKeep(w) /\ undo'[w] = Untouched
  BY <1>2, Untouches DEF Exclusive, OthersKeep
<1>3. CASE UpsertCameraBrand(w)
  <2>1. PICK b \in BrandIds :
          /\ BrandFor(b, write[w].brandSlug)
          /\ undo'[w].brand = b /\ undo'[w].camera = NoRow
          /\ OthersKeep(w)
    BY <1>3, Upserts
  <2>2. ASSUME NEW x \in CameraWriters
        PROVE  undo[x].brand # b
    <3>1. undo[x].brand = b => brand[b] # NoRow
      BY CamerasAssumption, Untouches DEF InProgress, Progress, CamerasTypeOK, Holding
    <3>. QED BY <2>1, <3>1 DEF BrandFor, BrandLocked
  <2>. QED BY <2>1, <2>2, CamerasAssumption DEF Exclusive, OthersKeep
<1>4. CASE WriteCamera(w)
  <2>1. PICK c \in CameraIds :
          /\ camera[c] = NoRow \/ ~CameraLocked(c)
          /\ undo'[w].brand = undo[w].brand /\ undo'[w].camera = c
          /\ OthersKeep(w)
    BY <1>4, WritesCamera
  <2>2. ASSUME NEW x \in CameraWriters
        PROVE  undo[x].camera # c
    <3>1. undo[x].camera = c => camera[c] # NoRow
      BY CamerasAssumption, Untouches DEF InProgress, Progress, CamerasTypeOK
    <3>. QED BY <2>1, <3>1 DEF CameraLocked
  <2>. QED BY <2>1, <2>2, CamerasAssumption DEF Exclusive, OthersKeep
<1>. QED BY <1>1, <1>2, <1>3, <1>4, StatementKinds, Begins, Reads, Ends, RollsBack

(***************************************************************************)
(* Cameras and their brands.                                               *)
(***************************************************************************)

(* Rows that are held are rows of the tables.                              *)
LEMMA HeldRows ==
  ASSUME LockedRows, NEW w \in CameraWriters
  PROVE  /\ undo[w].brand # NoRow =>
              /\ undo[w].brand \in BrandIds /\ undo[w].brand = brandId[w]
              /\ brand[undo[w].brand] # NoRow /\ step[w] \in Holding
         /\ undo[w].camera # NoRow =>
              /\ undo[w].camera \in CameraIds
              /\ camera[undo[w].camera] # NoRow
              /\ camera[undo[w].camera].brand = undo[w].brand
              /\ step[w] \in {"read", "commit"}
         /\ undo[w].wasCamera # NoRow =>
              /\ undo[w].camera # NoRow /\ undo[w].wasCamera \in CameraRows
              /\ undo[w].wasCamera.brand \in BrandIds
              /\ undo[w].wasCamera.slug \in CameraSlugs
  BY CamerasAssumption, Untouches
  DEF LockedRows, InProgress, Progress, CamerasTypeOK, UndoRows, CameraRows, Holding

LEMMA WriterRefers ==
  ASSUME LockedRows, BrandsReferred, NEW w \in CameraWriters, CameraStatement(w)
  PROVE  BrandsReferred'
<1>. USE DEF LockedRows
<1>1. CASE UNCHANGED <<brand, camera, undo>>
  BY <1>1 DEF BrandsReferred
<1>2. CASE EndWrite(w) /\ UNCHANGED <<brand, camera>>
  BY <1>2, Ends, Untouches DEF BrandsReferred, OthersKeep
<1>3. CASE UpsertCameraBrand(w)
  <2>1. PICK b \in BrandIds :
          /\ brand'[b] \in BrandRows
          /\ \A d \in BrandIds \ {b} : brand'[d] = brand[d]
          /\ undo'[w].brand = b /\ undo'[w].wasBrand = brand[b]
          /\ undo'[w].camera = NoRow /\ undo'[w].wasCamera = NoRow
          /\ OthersKeep(w) /\ UNCHANGED camera
    BY <1>3, Upserts
  <2>2. brand'[b] # NoRow
    BY <2>1, CamerasAssumption
  <2>3. \A c \in CameraIds : camera[c] # NoRow => camera[c].brand \in BrandIds
    BY DEF CamerasTypeOK, CameraRows
  <2>4. \A c \in CameraIds : camera'[c] # NoRow => brand'[camera'[c].brand] # NoRow
    BY <2>1, <2>2, <2>3 DEF BrandsReferred
  <2>5. \A x \in CameraWriters :
          undo'[x].wasCamera # NoRow =>
            /\ x # w /\ undo'[x] = undo[x] /\ undo[x].wasCamera.brand \in BrandIds
            /\ brand[undo[x].wasCamera.brand] # NoRow
            /\ brand'[undo[x].wasCamera.brand] # NoRow
    BY <2>1, <2>2, HeldRows DEF BrandsReferred, OthersKeep
  <2>6. ASSUME NEW x \in CameraWriters, undo'[x].brand # NoRow, undo'[x].wasBrand = NoRow
        PROVE  /\ \A c \in CameraIds :
                    camera'[c] # NoRow /\ camera'[c].brand = undo'[x].brand =>
                      c = undo'[x].camera
               /\ \A y \in CameraWriters : undo'[y].wasCamera # NoRow =>
                    undo'[y].wasCamera.brand # undo'[x].brand
    <3>1. CASE x = w
      BY <2>1, <2>5, <2>6, <3>1 DEF BrandsReferred
    <3>2. CASE x # w
      BY <2>1, <2>5, <2>6, <3>2 DEF BrandsReferred, OthersKeep
    <3>. QED BY <3>1, <3>2
  <2>. QED BY <2>4, <2>5, <2>6 DEF BrandsReferred
<1>4. CASE WriteCamera(w)
  <2>1. PICK c \in CameraIds :
          /\ camera[c] = NoRow \/ ~CameraLocked(c)
          /\ camera'[c] \in CameraRows /\ camera'[c].brand = brandId[w]
          /\ \A d \in CameraIds \ {c} : camera'[d] = camera[d]
          /\ step[w] = "row" /\ step'[w] = "read"
          /\ undo'[w].brand = undo[w].brand /\ undo'[w].wasBrand = undo[w].wasBrand
          /\ undo'[w].camera = c /\ undo'[w].wasCamera = camera[c]
          /\ OthersKeep(w) /\ UNCHANGED brand
    BY <1>4, WritesCamera
  <2>2. /\ brandId[w] = undo[w].brand /\ brandId[w] \in BrandIds
        /\ brand[brandId[w]] # NoRow /\ undo[w].camera = NoRow
    BY <2>1 DEF InProgress, Progress, Holding
  <2>3. \A x \in CameraWriters : undo[x].camera # c
    BY <2>1, HeldRows, CamerasAssumption DEF CameraLocked
  <2>4. \A d \in CameraIds : camera'[d] # NoRow => brand'[camera'[d].brand] # NoRow
    BY <2>1, <2>2 DEF BrandsReferred
  <2>5. \A x \in CameraWriters :
          undo'[x].wasCamera # NoRow => brand'[undo'[x].wasCamera.brand] # NoRow
    BY <2>1 DEF BrandsReferred, OthersKeep
  <2>6. ASSUME NEW x \in CameraWriters, undo'[x].brand # NoRow, undo'[x].wasBrand = NoRow
        PROVE  /\ \A d \in CameraIds :
                    camera'[d] # NoRow /\ camera'[d].brand = undo'[x].brand =>
                      d = undo'[x].camera
               /\ \A y \in CameraWriters : undo'[y].wasCamera # NoRow =>
                    undo'[y].wasCamera.brand # undo'[x].brand
    <3>1. undo[x].brand # NoRow /\ undo[x].wasBrand = NoRow /\ undo'[x].brand = undo[x].brand
      BY <2>1, <2>6 DEF OthersKeep
    <3>2. camera[c] # NoRow => camera[c].brand # undo[x].brand
      BY <2>3, <3>1 DEF BrandsReferred
    <3>3. \A y \in CameraWriters : undo'[y].wasCamera # NoRow =>
                    undo'[y].wasCamera.brand # undo'[x].brand
      BY <2>1, <3>1, <3>2 DEF BrandsReferred, OthersKeep
    <3>4. ASSUME NEW d \in CameraIds, camera'[d] # NoRow, camera'[d].brand = undo'[x].brand
          PROVE  d = undo'[x].camera
      <4>1. CASE x = w
        <5>1. \A e \in CameraIds :
                camera[e] # NoRow /\ camera[e].brand = undo[w].brand => e = undo[w].camera
          BY <3>1, <4>1 DEF BrandsReferred
        <5>. QED BY <2>1, <2>2, <3>1, <3>4, <4>1, <5>1, CamerasAssumption
      <4>2. CASE x # w
        <5>1. undo[x].brand # brandId[w]
          BY <2>2, <3>1, <4>2 DEF Exclusive
        <5>2. d # c
          BY <2>1, <3>1, <3>4, <5>1
        <5>. QED BY <2>1, <3>1, <3>4, <4>2, <5>2 DEF BrandsReferred, OthersKeep
      <4>. QED BY <4>1, <4>2
    <3>. QED BY <3>3, <3>4
  <2>. QED BY <2>4, <2>5, <2>6 DEF BrandsReferred
<1>5. CASE RollBack(w)
  <2>1. /\ \A b \in BrandIds :
             brand'[b] = IF undo[w].brand = b THEN undo[w].wasBrand ELSE brand[b]
        /\ \A c \in CameraIds :
             camera'[c] = IF undo[w].camera = c THEN undo[w].wasCamera ELSE camera[c]
        /\ undo'[w] = Untouched /\ OthersKeep(w)
    BY <1>5, RollsBack
  <2>2. ASSUME NEW c \in CameraIds, camera'[c] # NoRow
        PROVE  brand'[camera'[c].brand] # NoRow
    <3>1. CASE undo[w].camera = c
      <4>1. camera'[c] = undo[w].wasCamera
        BY <2>1, <3>1
      <4>2. undo[w].wasCamera.brand \in BrandIds /\ brand[undo[w].wasCamera.brand] # NoRow
        BY <2>2, <4>1, HeldRows DEF BrandsReferred
      <4>3. undo[w].wasCamera.brand = undo[w].brand => undo[w].wasBrand # NoRow
        BY <2>2, <4>1, <4>2, CamerasAssumption DEF BrandsReferred
      <4>. QED BY <2>1, <4>1, <4>2, <4>3
    <3>2. CASE undo[w].camera # c
      <4>1. camera'[c] = camera[c] /\ camera[c].brand \in BrandIds
        BY <2>1, <2>2, <3>2 DEF CamerasTypeOK, CameraRows
      <4>. QED BY <2>1, <2>2, <3>2, <4>1, CamerasAssumption DEF BrandsReferred
    <3>. QED BY <3>1, <3>2
  <2>3. ASSUME NEW x \in CameraWriters, undo'[x].wasCamera # NoRow
        PROVE  brand'[undo'[x].wasCamera.brand] # NoRow
    <3>1. x # w /\ undo'[x] = undo[x]
      BY <2>1, <2>3, Untouches DEF OthersKeep
    <3>2. undo[x].wasCamera.brand \in BrandIds
      BY <2>3, <3>1, HeldRows
    <3>. QED BY <2>1, <2>3, <3>1, <3>2, CamerasAssumption DEF BrandsReferred
  <2>4. ASSUME NEW x \in CameraWriters, undo'[x].brand # NoRow, undo'[x].wasBrand = NoRow
        PROVE  /\ \A c \in CameraIds :
                    camera'[c] # NoRow /\ camera'[c].brand = undo'[x].brand =>
                      c = undo'[x].camera
               /\ \A y \in CameraWriters : undo'[y].wasCamera # NoRow =>
                    undo'[y].wasCamera.brand # undo'[x].brand
    <3>1. x # w /\ undo'[x] = undo[x]
      BY <2>1, <2>4, Untouches DEF OthersKeep
    <3>2. \A y \in CameraWriters : undo[y].wasCamera # NoRow =>
            undo[y].wasCamera.brand # undo[x].brand
      BY <2>4, <3>1 DEF BrandsReferred
    <3>3. \A y \in CameraWriters : undo'[y].wasCamera # NoRow => undo'[y] = undo[y]
      BY <2>1, Untouches DEF OthersKeep
    <3>4. \A c \in CameraIds : camera'[c] # NoRow /\ camera'[c].brand = undo[x].brand =>
            camera'[c] = camera[c]
      BY <2>1, <3>2
    <3>5. \A c \in CameraIds : camera[c] # NoRow /\ camera[c].brand = undo[x].brand =>
            c = undo[x].camera
      BY <2>4, <3>1 DEF BrandsReferred
    <3>. QED BY <3>1, <3>2, <3>3, <3>4, <3>5
  <2>. QED BY <2>2, <2>3, <2>4 DEF BrandsReferred
<1>. QED BY <1>1, <1>2, <1>3, <1>4, <1>5, StatementKinds, Begins, Reads

LEMMA BrandRefers ==
  ASSUME LockedRows, BrandsReferred, BrandStep
  PROVE  BrandsReferred'
<1>1. PICK b \in BrandIds :
        /\ UNCHANGED <<camera, writes, lists>>
        /\ \A d \in BrandIds \ {b} : brand'[d] = brand[d]
        /\ brand'[b] # NoRow \/ ~Refers(b)
  BY BrandsChange, CamerasAssumption DEF LockedRows
<1>2. UNCHANGED undo
  BY <1>1 DEF writes
<1>3. \A c \in CameraIds : camera[c] # NoRow => camera[c].brand \in BrandIds
  BY DEF LockedRows, CamerasTypeOK, CameraRows
<1>4. \A c \in CameraIds : camera'[c] # NoRow => brand'[camera'[c].brand] # NoRow
  BY <1>1, <1>3 DEF BrandsReferred, Refers
<1>5. \A w \in CameraWriters :
        undo[w].wasCamera # NoRow => brand'[undo[w].wasCamera.brand] # NoRow
  BY <1>1, HeldRows DEF BrandsReferred, Refers
<1>. QED BY <1>1, <1>2, <1>4, <1>5 DEF BrandsReferred

(***************************************************************************)
(* Slugs.                                                                  *)
(***************************************************************************)
LEMMA WriterOneBrand ==
  ASSUME LockedRows, OneBrand, NEW w \in CameraWriters, CameraStatement(w)
  PROVE  OneBrand'
<1>. USE DEF LockedRows
<1>1. CASE UNCHANGED brand
  BY <1>1 DEF OneBrand, SameSlug
<1>2. CASE UpsertCameraBrand(w)
  <2>1. PICK b \in BrandIds :
          /\ BrandFor(b, write[w].brandSlug)
          /\ brand'[b] \in BrandRows /\ brand'[b].slug = write[w].brandSlug
          /\ \A d \in BrandIds \ {b} : brand'[d] = brand[d]
    BY <1>2, Upserts
  <2>2. ASSUME NEW d \in BrandIds \ {b}
        PROVE  ~SameSlug(brand'[b], brand'[d]) /\ ~SameSlug(brand'[d], brand'[b])
    BY <2>1 DEF BrandFor, OneBrand, SameSlug
  <2>. QED BY <2>1, <2>2 DEF OneBrand, SameSlug
<1>3. CASE RollBack(w)
  <2>1. \A b \in BrandIds : brand'[b] # NoRow =>
          brand[b] # NoRow /\ brand'[b].slug = brand[b].slug
    BY <1>3, RollsBack, HeldRows, CamerasAssumption DEF InProgress, Progress
  <2>. QED BY <2>1 DEF OneBrand, SameSlug
<1>. QED BY <1>1, <1>2, <1>3, StatementKinds, WritesCamera, Begins, Reads

LEMMA BrandOneBrand ==
  ASSUME LockedRows, OneBrand, BrandStep
  PROVE  OneBrand'
<1>1. PICK b \in BrandIds :
        /\ \A d \in BrandIds \ {b} : brand'[d] = brand[d]
        /\ brand'[b] = NoRow \/ ~BrandSlugTaken(b, brand'[b].slug)
  BY BrandsChange DEF LockedRows
<1>2. ASSUME NEW d \in BrandIds \ {b}
      PROVE  ~SameSlug(brand'[b], brand'[d]) /\ ~SameSlug(brand'[d], brand'[b])
  BY <1>1 DEF BrandSlugTaken, SameSlug
<1>. QED BY <1>1, <1>2 DEF OneBrand, SameSlug

LEMMA WriterOneCamera ==
  ASSUME LockedRows, OneCamera, NEW w \in CameraWriters, CameraStatement(w)
  PROVE  OneCamera'
<1>. USE DEF LockedRows
<1>1. ASSUME \A c \in CameraIds, slug \in CameraSlugs : HasSlug(c, slug)' => HasSlug(c, slug)
      PROVE  OneCamera'
  BY <1>1 DEF OneCamera
<1>2. CASE UNCHANGED <<camera, undo>>
  BY <1>2 DEF OneCamera, HasSlug
<1>3. CASE UpsertCameraBrand(w)
  BY <1>1, <1>3, Upserts DEF HasSlug, OthersKeep
<1>4. CASE EndWrite(w) /\ UNCHANGED <<brand, camera>>
  BY <1>1, <1>4, Ends, Untouches DEF HasSlug, OthersKeep
<1>5. CASE RollBack(w)
  BY <1>1, <1>5, RollsBack, Untouches DEF HasSlug, OthersKeep
<1>6. CASE WriteCamera(w)
  <2>1. PICK c \in CameraIds :
          /\ ~CameraSlugPending(write[w].slug) /\ ~CameraSlugTaken(c, write[w].slug)
          /\ camera'[c].slug = write[w].slug
          /\ \A d \in CameraIds \ {c} : camera'[d] = camera[d]
          /\ undo'[w].camera = c /\ undo'[w].wasCamera = camera[c]
          /\ OthersKeep(w)
    BY <1>6, WritesCamera
  <2>2. \A d \in CameraIds \ {c} : ~HasSlug(d, write[w].slug)
    BY <2>1, CamerasAssumption DEF CameraSlugPending, CameraSlugTaken, HasSlug
  <2>3. \A d \in CameraIds \ {c}, slug \in CameraSlugs :
          HasSlug(d, slug)' => HasSlug(d, slug)
    BY <2>1 DEF HasSlug, OthersKeep
  <2>4. \A slug \in CameraSlugs :
          HasSlug(c, slug)' => HasSlug(c, slug) \/ slug = write[w].slug
    BY <2>1 DEF HasSlug, OthersKeep
  <2>. QED BY <2>2, <2>3, <2>4 DEF OneCamera
<1>. QED BY <1>2, <1>3, <1>4, <1>5, <1>6, StatementKinds, Begins, Reads

(***************************************************************************)
(* Answers.                                                                *)
(***************************************************************************)
LEMMA WriterAcknowledges ==
  ASSUME LockedRows, AcknowledgedAsStored, NEW w \in CameraWriters, CameraStatement(w)
  PROVE  AcknowledgedAsStored'
<1>. USE DEF LockedRows
<1>1. ASSUME OthersKeep(w), step'[w] # "commit",
             \A x \in CameraWriters \ {w} : step[x] = "commit" =>
               /\ camera'[undo[x].camera] = camera[undo[x].camera]
               /\ brand'[camera[undo[x].camera].brand] = brand[camera[undo[x].camera].brand]
      PROVE  AcknowledgedAsStored'
  BY <1>1 DEF AcknowledgedAsStored, OthersKeep
<1>2. ASSUME NEW x \in CameraWriters \ {w}, step[x] = "commit"
      PROVE  /\ undo[x].camera \in CameraIds /\ camera[undo[x].camera] # NoRow
             /\ brandId[x] = undo[x].brand /\ brandId[x] \in BrandIds
             /\ camera[undo[x].camera].brand = undo[x].brand
             /\ brand[undo[x].brand] # NoRow
  BY <1>2 DEF InProgress, Progress, Holding
<1>3. CASE \E payload \in CameraRequests : BeginWrite(w, payload)
  BY <1>1, <1>3, Begins
<1>4. CASE UpsertCameraBrand(w)
  <2>1. PICK b \in BrandIds :
          /\ BrandFor(b, write[w].brandSlug) /\ step'[w] = "row"
          /\ \A d \in BrandIds \ {b} : brand'[d] = brand[d]
          /\ OthersKeep(w) /\ UNCHANGED camera
    BY <1>4, Upserts
  <2>2. \A x \in CameraWriters \ {w} : step[x] = "commit" => undo[x].brand # b
    BY <1>2, <2>1 DEF BrandFor, BrandLocked
  <2>. QED BY <1>1, <1>2, <2>1, <2>2
<1>5. CASE WriteCamera(w)
  <2>1. PICK c \in CameraIds :
          /\ camera[c] = NoRow \/ ~CameraLocked(c)
          /\ \A d \in CameraIds \ {c} : camera'[d] = camera[d]
          /\ step'[w] = "read" /\ OthersKeep(w) /\ UNCHANGED brand
    BY <1>5, WritesCamera
  <2>2. \A x \in CameraWriters \ {w} : step[x] = "commit" => undo[x].camera # c
    BY <1>2, <2>1 DEF CameraLocked
  <2>. QED BY <1>1, <1>2, <2>1, <2>2
<1>6. CASE ReadCameraBack(w)
  BY <1>6, Reads DEF AcknowledgedAsStored, OthersKeep
<1>7. CASE EndWrite(w) /\ UNCHANGED <<brand, camera>>
  BY <1>1, <1>7, Ends
<1>8. CASE RollBack(w)
  <2>1. \A x \in CameraWriters \ {w} : step[x] = "commit" =>
          undo[w].brand # undo[x].brand /\ undo[w].camera # undo[x].camera
    BY <1>2, CamerasAssumption DEF Exclusive
  <2>. QED BY <1>1, <1>2, <1>8, <2>1, RollsBack
<1>. QED BY <1>3, <1>4, <1>5, <1>6, <1>7, <1>8, StatementKinds

LEMMA BrandAcknowledges ==
  ASSUME LockedRows, AcknowledgedAsStored, BrandStep
  PROVE  AcknowledgedAsStored'
<1>1. UNCHANGED <<camera, writes>>
  BY BrandsChange DEF LockedRows
<1>2. ASSUME NEW w \in CameraWriters, step[w] = "commit"
      PROVE  brand'[camera[undo[w].camera].brand] = brand[camera[undo[w].camera].brand]
  <2>1. /\ camera[undo[w].camera].brand = undo[w].brand
        /\ undo[w].brand \in BrandIds
    BY <1>2 DEF LockedRows, InProgress, Progress, Holding
  <2>. QED BY <2>1, BrandProgress, CamerasAssumption
<1>. QED BY <1>1, <1>2 DEF AcknowledgedAsStored, writes

(***************************************************************************)
(* The theorems about states.                                              *)
(***************************************************************************)
LEMMA CamerasStep ==
  ASSUME CamerasInv, [CamerasNext]_camerasVars
  PROVE  CamerasInv'
<1>. USE DEF CamerasInv, LockedRows
<1>1. CASE \E w \in CameraWriters : CameraStatement(w)
  BY <1>1, WriterTypes, WriterProgress, WriterExclusive, WriterRefers,
     WriterOneBrand, WriterOneCamera, WriterAcknowledges
<1>2. CASE BrandStep
  <2>1. UNCHANGED <<camera, undo>>
    BY <1>2, BrandsChange DEF writes
  <2>2. Exclusive' /\ OneCamera'
    BY <2>1 DEF Exclusive, OneCamera, HasSlug
  <2>. QED BY <1>2, <2>2, BrandTypes, BrandProgress, BrandRefers, BrandOneBrand,
              BrandAcknowledges
<1>3. CASE (\E r \in CameraReaders : ListStep(r)) \/ UNCHANGED camerasVars
  <2>1. UNCHANGED <<brandTables, writes>>
    BY <1>3 DEF ListStep, CountCameras, PageCameras, TakePage, EndList, camerasVars
  <2>2. CamerasTypeOK'
    BY <1>3, ListTypes DEF CamerasTypeOK, camerasVars, brandTables, writes, lists
  <2>3. InProgress' /\ Exclusive'
    BY <2>1 DEF InProgress, Progress, Exclusive, brandTables, writes
  <2>4. BrandsReferred' /\ OneBrand' /\ OneCamera' /\ AcknowledgedAsStored'
    BY <2>1 DEF BrandsReferred, OneBrand, SameSlug, OneCamera, HasSlug,
                AcknowledgedAsStored, brandTables, writes
  <2>. QED BY <2>2, <2>3, <2>4
<1>. QED BY <1>1, <1>2, <1>3 DEF CamerasNext, BrandStep, ListStep

LEMMA CamerasInvHolds == CamerasSpec => []CamerasInv
  BY InitInv, CamerasStep, PTL DEF CamerasSpec

(* A row that a transaction holds is stored as the transaction found it;   *)
(* any other is stored as it is: before a step and after it.               *)
LEMMA StoredBrands ==
  ASSUME Exclusive, NEW r \in BrandIds
  PROVE  /\ \A w \in CameraWriters :
              undo[w].brand = r => StoredBrand(r) = undo[w].wasBrand
         /\ (\A w \in CameraWriters : undo[w].brand # r) => StoredBrand(r) = brand[r]
<1>1. ASSUME NEW w \in CameraWriters, undo[w].brand = r
      PROVE  (CHOOSE x \in CameraWriters : undo[x].brand = r) = w
  BY <1>1, CamerasAssumption DEF Exclusive
<1>. QED BY <1>1 DEF StoredBrand, BrandLocked

LEMMA StoredCameras ==
  ASSUME Exclusive, NEW r \in CameraIds
  PROVE  /\ \A w \in CameraWriters :
              undo[w].camera = r => StoredCamera(r) = undo[w].wasCamera
         /\ (\A w \in CameraWriters : undo[w].camera # r) => StoredCamera(r) = camera[r]
<1>1. ASSUME NEW w \in CameraWriters, undo[w].camera = r
      PROVE  (CHOOSE x \in CameraWriters : undo[x].camera = r) = w
  BY <1>1, CamerasAssumption DEF Exclusive
<1>. QED BY <1>1 DEF StoredCamera, CameraLocked

LEMMA StoredBrandsNext ==
  ASSUME Exclusive', NEW r \in BrandIds
  PROVE  /\ \A w \in CameraWriters :
              undo'[w].brand = r => StoredBrand(r)' = undo'[w].wasBrand
         /\ (\A w \in CameraWriters : undo'[w].brand # r) => StoredBrand(r)' = brand'[r]
<1>1. ASSUME NEW w \in CameraWriters, undo'[w].brand = r
      PROVE  (CHOOSE x \in CameraWriters : undo'[x].brand = r) = w
  BY <1>1, CamerasAssumption DEF Exclusive
<1>. QED BY <1>1 DEF StoredBrand, BrandLocked

LEMMA StoredCamerasNext ==
  ASSUME Exclusive', NEW r \in CameraIds
  PROVE  /\ \A w \in CameraWriters :
              undo'[w].camera = r => StoredCamera(r)' = undo'[w].wasCamera
         /\ (\A w \in CameraWriters : undo'[w].camera # r) => StoredCamera(r)' = camera'[r]
<1>1. ASSUME NEW w \in CameraWriters, undo'[w].camera = r
      PROVE  (CHOOSE x \in CameraWriters : undo'[x].camera = r) = w
  BY <1>1, CamerasAssumption DEF Exclusive
<1>. QED BY <1>1 DEF StoredCamera, CameraLocked

LEMMA StoredBrandIs ==
  ASSUME CamerasInv, NEW b \in BrandIds
  PROVE  /\ StoredBrand(b) # NoRow => brand[b] # NoRow /\ StoredBrand(b).slug = brand[b].slug
         /\ StoredBrand(b) = NoRow /\ brand[b] # NoRow =>
              \E w \in CameraWriters : undo[w].brand = b /\ undo[w].wasBrand = NoRow
<1>. USE DEF CamerasInv, LockedRows
<1>1. CASE \A w \in CameraWriters : undo[w].brand # b
  BY <1>1, StoredBrands
<1>2. ASSUME NEW w \in CameraWriters, undo[w].brand = b
      PROVE  /\ StoredBrand(b) # NoRow =>
                  brand[b] # NoRow /\ StoredBrand(b).slug = brand[b].slug
             /\ StoredBrand(b) = NoRow /\ brand[b] # NoRow =>
                  \E x \in CameraWriters : undo[x].brand = b /\ undo[x].wasBrand = NoRow
  <2>1. StoredBrand(b) = undo[w].wasBrand
    BY <1>2, StoredBrands
  <2>. QED BY <1>2, <2>1, HeldRows, CamerasAssumption DEF InProgress, Progress
<1>. QED BY <1>1, <1>2

(* A stored camera is the newest version of its row or what its writer     *)
(* would put back.                                                         *)
LEMMA StoredCameraIs ==
  ASSUME CamerasInv, NEW c \in CameraIds
  PROVE  \/ StoredCamera(c) = camera[c] /\ \A w \in CameraWriters : undo[w].camera # c
         \/ \E w \in CameraWriters :
              undo[w].camera = c /\ StoredCamera(c) = undo[w].wasCamera
  BY StoredCameras DEF CamerasInv, LockedRows

LEMMA KeepsBrand ==
  ASSUME CamerasInv
  PROVE  CamerasKeepTheirBrand
<1>. USE DEF CamerasInv, LockedRows
<1>1. ASSUME NEW c \in CameraIds, StoredCamera(c) # NoRow
      PROVE  StoredBrand(StoredCamera(c).brand) # NoRow
  <2>. DEFINE b == StoredCamera(c).brand
  <2>1. CASE StoredCamera(c) = camera[c] /\ \A w \in CameraWriters : undo[w].camera # c
    <3>1. camera[c] # NoRow /\ camera[c].brand \in BrandIds /\ brand[camera[c].brand] # NoRow
      BY <1>1, <2>1 DEF BrandsReferred, CamerasTypeOK, CameraRows
    <3>2. \A w \in CameraWriters :
            undo[w].brand = camera[c].brand => undo[w].wasBrand # NoRow
      BY <2>1, <3>1, CamerasAssumption DEF BrandsReferred
    <3>. QED BY <2>1, <3>1, <3>2, StoredBrandIs
  <2>2. ASSUME NEW w \in CameraWriters, undo[w].camera = c,
               StoredCamera(c) = undo[w].wasCamera
        PROVE  StoredBrand(b) # NoRow
    <3>1. /\ undo[w].wasCamera # NoRow /\ undo[w].wasCamera.brand \in BrandIds
          /\ brand[undo[w].wasCamera.brand] # NoRow
      BY <1>1, <2>2, HeldRows DEF BrandsReferred
    <3>2. \A x \in CameraWriters :
            undo[x].brand = undo[w].wasCamera.brand => undo[x].wasBrand # NoRow
      BY <3>1, CamerasAssumption DEF BrandsReferred
    <3>. QED BY <2>2, <3>1, <3>2, StoredBrandIs
  <2>. QED BY <2>1, <2>2, StoredCameraIs
<1>. QED BY <1>1 DEF CamerasKeepTheirBrand, BrandsReferred

LEMMA OneRowPerSlug ==
  ASSUME CamerasInv
  PROVE  SlugsLeadToOneRow
<1>. USE DEF CamerasInv, LockedRows
<1>1. ASSUME NEW b \in BrandIds, NEW d \in BrandIds,
             SameSlug(brand[b], brand[d]) \/ SameSlug(StoredBrand(b), StoredBrand(d))
      PROVE  b = d
  BY <1>1, StoredBrandIs DEF OneBrand, SameSlug
<1>2. ASSUME NEW c \in CameraIds, StoredCamera(c) # NoRow
      PROVE  HasSlug(c, StoredCamera(c).slug) /\ StoredCamera(c).slug \in CameraSlugs
  <2>1. CASE StoredCamera(c) = camera[c]
    BY <1>2, <2>1 DEF HasSlug, CamerasTypeOK, CameraRows
  <2>2. ASSUME NEW w \in CameraWriters, undo[w].camera = c,
               StoredCamera(c) = undo[w].wasCamera
        PROVE  HasSlug(c, StoredCamera(c).slug) /\ StoredCamera(c).slug \in CameraSlugs
    BY <1>2, <2>2, HeldRows DEF HasSlug
  <2>. QED BY <2>1, <2>2, StoredCameraIs
<1>3. \A c \in CameraIds :
        camera[c] # NoRow => HasSlug(c, camera[c].slug) /\ camera[c].slug \in CameraSlugs
  BY DEF HasSlug, CamerasTypeOK, CameraRows
<1>4. ASSUME NEW c \in CameraIds, NEW d \in CameraIds,
             SameSlug(camera[c], camera[d]) \/ SameSlug(StoredCamera(c), StoredCamera(d))
      PROVE  c = d
  BY <1>2, <1>3, <1>4 DEF OneCamera, SameSlug
<1>. QED BY <1>1, <1>4 DEF SlugsLeadToOneRow

(* Every reachable state has well-formed tables, writes and lists.         *)
THEOREM CamerasTypes == CamerasSpec => []CamerasTypeOK
<1>1. CamerasInv => CamerasTypeOK
  BY DEF CamerasInv, LockedRows
<1>. QED BY <1>1, CamerasInvHolds, PTL

(* No camera loses its brand, committed or not.                            *)
THEOREM BrandsOutliveCameras == CamerasSpec => []CamerasKeepTheirBrand
<1>1. CamerasInv => CamerasKeepTheirBrand
  BY KeepsBrand
<1>. QED BY <1>1, CamerasInvHolds, PTL

(* A slug leads to one row, now and after every rollback.                  *)
THEOREM SlugsIdentify == CamerasSpec => []SlugsLeadToOneRow
<1>1. CamerasInv => SlugsLeadToOneRow
  BY OneRowPerSlug
<1>. QED BY <1>1, CamerasInvHolds, PTL

(* What a camera write answers is what it stores.                          *)
THEOREM AnswersAreStored == CamerasSpec => []AcknowledgedAsStored
<1>1. CamerasInv => AcknowledgedAsStored
  BY DEF CamerasInv
<1>. QED BY <1>1, CamerasInvHolds, PTL

(***************************************************************************)
(* Publication.                                                            *)
(***************************************************************************)
LEMMA WriterHidesBrands ==
  ASSUME CamerasInv, CamerasInv', NEW w \in CameraWriters, CameraStatement(w),
         step[w] # "commit", NEW b \in BrandIds
  PROVE  StoredBrand(b)' = StoredBrand(b)
<1>. USE DEF CamerasInv, LockedRows
<1>1. Exclusive /\ Exclusive'
  OBVIOUS
<1>2. CASE UNCHANGED <<brand, camera, undo>>
  BY <1>2 DEF StoredBrand, BrandLocked
<1>3. CASE UpsertCameraBrand(w)
  <2>1. PICK d \in BrandIds :
          /\ \A e \in BrandIds \ {d} : brand'[e] = brand[e]
          /\ undo[w] = Untouched
          /\ undo'[w].brand = d /\ undo'[w].wasBrand = brand[d]
          /\ OthersKeep(w)
    BY <1>3, Upserts
  <2>2. \A x \in CameraWriters \ {w} : undo'[x] = undo[x]
    BY <2>1 DEF OthersKeep
  <2>3. CASE b = d
    <3>1. \A x \in CameraWriters : undo[x].brand # b
      BY <1>1, <2>1, <2>2, <2>3, Untouches, CamerasAssumption DEF Exclusive
    <3>. QED BY <1>1, <2>1, <2>3, <3>1, StoredBrands, StoredBrandsNext
  <2>4. CASE b # d
    <3>1. undo[w].brand # b /\ undo'[w].brand # b
      BY <2>1, <2>4, Untouches, CamerasAssumption
    <3>. QED BY <1>1, <2>1, <2>2, <2>4, <3>1, StoredBrands, StoredBrandsNext
  <2>. QED BY <2>3, <2>4
<1>4. CASE WriteCamera(w)
  <2>1. /\ undo'[w].brand = undo[w].brand /\ undo'[w].wasBrand = undo[w].wasBrand
        /\ brand' = brand
        /\ \A x \in CameraWriters \ {w} : undo'[x] = undo[x]
    BY <1>4, WritesCamera DEF OthersKeep
  <2>. QED BY <1>1, <2>1, StoredBrands, StoredBrandsNext
<1>5. CASE RollBack(w)
  <2>1. /\ brand'[b] = IF undo[w].brand = b THEN undo[w].wasBrand ELSE brand[b]
        /\ undo'[w].brand # b
        /\ \A x \in CameraWriters \ {w} : undo'[x] = undo[x]
    BY <1>5, RollsBack, Untouches, CamerasAssumption DEF OthersKeep
  <2>2. CASE undo[w].brand = b
    <3>1. \A x \in CameraWriters : undo'[x].brand # b
      BY <1>1, <2>1, <2>2, CamerasAssumption DEF Exclusive
    <3>. QED BY <1>1, <2>1, <2>2, <3>1, StoredBrands, StoredBrandsNext
  <2>3. CASE undo[w].brand # b
    BY <1>1, <2>1, <2>3, StoredBrands, StoredBrandsNext
  <2>. QED BY <2>2, <2>3
<1>. QED BY <1>2, <1>3, <1>4, <1>5, StatementKinds, Begins, Reads

LEMMA WriterHidesCameras ==
  ASSUME CamerasInv, CamerasInv', NEW w \in CameraWriters, CameraStatement(w),
         step[w] # "commit", NEW c \in CameraIds
  PROVE  StoredCamera(c)' = StoredCamera(c)
<1>. USE DEF CamerasInv, LockedRows
<1>1. Exclusive /\ Exclusive'
  OBVIOUS
<1>2. CASE UNCHANGED <<brand, camera, undo>>
  BY <1>2 DEF StoredCamera, CameraLocked
<1>3. CASE UpsertCameraBrand(w)
  <2>1. /\ undo[w] = Untouched /\ undo'[w].camera = NoRow /\ camera' = camera
        /\ \A x \in CameraWriters \ {w} : undo'[x] = undo[x]
    BY <1>3, Upserts DEF OthersKeep
  <2>2. undo[w].camera # c /\ undo'[w].camera # c
    BY <2>1, Untouches, CamerasAssumption
  <2>. QED BY <1>1, <2>1, <2>2, StoredCameras, StoredCamerasNext
<1>4. CASE WriteCamera(w)
  <2>1. PICK d \in CameraIds :
          /\ \A e \in CameraIds \ {d} : camera'[e] = camera[e]
          /\ step[w] = "row"
          /\ undo'[w].camera = d /\ undo'[w].wasCamera = camera[d]
          /\ OthersKeep(w)
    BY <1>4, WritesCamera
  <2>2. /\ \A x \in CameraWriters \ {w} : undo'[x] = undo[x]
        /\ undo[w].camera = NoRow
    BY <2>1 DEF OthersKeep, InProgress, Progress
  <2>3. CASE c = d
    <3>1. \A x \in CameraWriters : undo[x].camera # c
      BY <1>1, <2>1, <2>2, <2>3, CamerasAssumption DEF Exclusive
    <3>. QED BY <1>1, <2>1, <2>3, <3>1, StoredCameras, StoredCamerasNext
  <2>4. CASE c # d
    <3>1. undo[w].camera # c /\ undo'[w].camera # c
      BY <2>1, <2>2, <2>4, CamerasAssumption
    <3>. QED BY <1>1, <2>1, <2>2, <2>4, <3>1, StoredCameras, StoredCamerasNext
  <2>. QED BY <2>3, <2>4
<1>5. CASE RollBack(w)
  <2>1. /\ camera'[c] = IF undo[w].camera = c THEN undo[w].wasCamera ELSE camera[c]
        /\ undo'[w].camera # c
        /\ \A x \in CameraWriters \ {w} : undo'[x] = undo[x]
    BY <1>5, RollsBack, Untouches, CamerasAssumption DEF OthersKeep
  <2>2. CASE undo[w].camera = c
    <3>1. \A x \in CameraWriters : undo'[x].camera # c
      BY <1>1, <2>1, <2>2, CamerasAssumption DEF Exclusive
    <3>. QED BY <1>1, <2>1, <2>2, <3>1, StoredCameras, StoredCamerasNext
  <2>3. CASE undo[w].camera # c
    BY <1>1, <2>1, <2>3, StoredCameras, StoredCamerasNext
  <2>. QED BY <2>2, <2>3
<1>. QED BY <1>2, <1>3, <1>4, <1>5, StatementKinds, Begins, Reads

Publishes(w) ==
  step'[w] # step[w] /\ step[w] # "commit" =>
    /\ \A b \in BrandIds : StoredBrand(b)' = StoredBrand(b)
    /\ \A c \in CameraIds : StoredCamera(c)' = StoredCamera(c)

LEMMA StepPublishes ==
  ASSUME CamerasInv, [CamerasNext]_camerasVars, NEW w \in CameraWriters
  PROVE  Publishes(w)
<1>1. ASSUME NEW x \in CameraWriters, CameraStatement(x)
      PROVE  Publishes(w)
  <2>1. CASE x = w
    BY <1>1, <2>1, CamerasStep, WriterHidesBrands, WriterHidesCameras DEF Publishes
  <2>2. CASE x # w
    <3>1. step'[w] = step[w]
      BY <1>1, <2>2, StatementFrame DEF CamerasInv, OthersKeep
    <3>. QED BY <3>1 DEF Publishes
  <2>. QED BY <2>1, <2>2
<1>2. CASE UNCHANGED writes
  BY <1>2 DEF Publishes, writes
<1>. QED BY <1>1, <1>2
     DEF CamerasNext, CreateBrand, UpdateBrand, DeleteBrandRow, CountCameras, PageCameras,
         TakePage, EndList, camerasVars

(* Nothing of a camera write is visible before its COMMIT, nor ever when   *)
(* it is refused or lost.                                                  *)
THEOREM CommitsPublish == CamerasSpec => OnlyCommitsPublish
<1>1. CamerasInv /\ [CamerasNext]_camerasVars =>
        [\A w \in CameraWriters : Publishes(w)]_camerasVars
  BY StepPublishes
<1>2. CamerasSpec => [][\A w \in CameraWriters : Publishes(w)]_camerasVars
  BY <1>1, CamerasInvHolds, PTL DEF CamerasSpec
<1>. QED BY <1>2 DEF OnlyCommitsPublish, Publishes

(***************************************************************************)
(* Lists.                                                                  *)
(***************************************************************************)
Fits(rows, first) ==
  Cardinality(first) = IF Cardinality(rows) < CameraPageSize
                       THEN Cardinality(rows) ELSE CameraPageSize

(* LIMIT takes a full page if there are that many rows, and all otherwise. *)
LEMMA LimitFits ==
  ASSUME NEW rows \in SUBSET CameraIds, NEW first \in SUBSET rows,
         Cardinality(first) <= CameraPageSize,
         first # rows => Cardinality(first) = CameraPageSize
  PROVE  Fits(rows, first)
<1>1. /\ IsFiniteSet(rows) /\ Cardinality(rows) \in Nat
      /\ Cardinality(first) \in Nat /\ Cardinality(first) <= Cardinality(rows)
  BY CamerasAssumption, FS_Subset, FS_CardinalityType
<1>. QED BY <1>1, CamerasAssumption DEF Fits

Counted ==
  \A r \in CameraReaders :
    /\ listing[r] # "idle" => total[r] = Cardinality(snapshot[r])
    /\ listing[r] = "paged" => Fits(snapshot[r], page[r])

LEMMA ListCounts ==
  ASSUME CamerasTypeOK, Counted, NEW r \in CameraReaders, ListStep(r)
  PROVE  Counted'
<1>1. CASE \E name \in BrandLabels : CountCameras(r, name)
  BY <1>1 DEF CountCameras, Counted, Fits, CamerasTypeOK
<1>2. CASE PageCameras(r)
  <2>1. PICK first \in SUBSET snapshot[r] :
          /\ Cardinality(first) <= CameraPageSize
          /\ first # snapshot[r] => Cardinality(first) = CameraPageSize
          /\ page' = [page EXCEPT ![r] = first]
    BY <1>2 DEF PageCameras, TakePage
  <2>2. Fits(snapshot[r], first)
    BY <2>1, LimitFits DEF CamerasTypeOK
  <2>3. /\ listing' = [listing EXCEPT ![r] = "paged"] /\ listing[r] = "counted"
        /\ UNCHANGED <<snapshot, total>>
    BY <1>2 DEF PageCameras, TakePage
  <2>. QED BY <2>1, <2>2, <2>3 DEF Counted, Fits, CamerasTypeOK
<1>3. CASE EndList(r)
  BY <1>3 DEF EndList, Counted, Fits, CamerasTypeOK
<1>. QED BY <1>1, <1>2, <1>3 DEF ListStep

LEMMA StepCounts ==
  ASSUME CamerasInv, Counted, [CamerasNext]_camerasVars
  PROVE  Counted'
<1>1. CASE \E r \in CameraReaders : ListStep(r)
  BY <1>1, ListCounts DEF CamerasInv, LockedRows
<1>2. CASE UNCHANGED lists
  BY <1>2 DEF Counted, Fits, lists
<1>3. CASE \E w \in CameraWriters : CameraStatement(w)
  BY <1>2, <1>3, StatementFrame DEF CamerasInv
<1>. QED BY <1>1, <1>2, <1>3
     DEF CamerasNext, CreateBrand, UpdateBrand, DeleteBrandRow, ListStep, camerasVars

(* A list shows as many rows as its total announces.                       *)
THEOREM PagesFitTotals == CamerasSpec => []PageFitsTotal
<1>1. CamerasInit => Counted
  BY DEF CamerasInit, Counted, Fits
<1>2. CamerasInv /\ Counted /\ [CamerasNext]_camerasVars => Counted'
  BY StepCounts
<1>3. Counted => PageFitsTotal
  BY DEF Counted, Fits, PageFitsTotal
<1>. QED BY <1>1, <1>2, <1>3, CamerasInvHolds, PTL DEF CamerasSpec
=============================================================================
