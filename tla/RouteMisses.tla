----------------------------- MODULE RouteMisses -----------------------------
(***************************************************************************)
(* Requests for pages that do not exist: POST /route-misses inserts one    *)
(* event per report, GET /admin/route-misses counts the events of the last *)
(* days by path.  The time limit may drop a handler before or after its    *)
(* INSERT has run.                                                         *)
(***************************************************************************)
EXTENDS Naturals, FiniteSets, Sequences, Orderings

CONSTANTS
  Reports,    \* requests; each one handled once
  Paths,      \* trimmed paths, numbered in the order of their text
  NoPath, NoEvent, NoDay,
  LastDay     \* bound of the model

ASSUME RouteMissesAssumption ==
  /\ Paths \subseteq Nat /\ LastDay \in Nat
  /\ NoDay \notin Nat /\ NoPath \notin Paths /\ NoEvent \notin [path : Paths, at : Nat]

VARIABLES
  report,     \* "new", "sent", "inserted", "recorded" (204) or "dropped"
  missed,     \* the path of each report
  event,      \* the row of route_miss_events a report has inserted
  today,
  sentOn, recordedOn  \* when a report was sent, and when it was answered

missVars == <<report, missed, event, today, sentOn, recordedOn>>

MissesInit ==
  /\ report = [r \in Reports |-> "new"]
  /\ missed = [r \in Reports |-> NoPath]
  /\ event = [r \in Reports |-> NoEvent]
  /\ today = 0
  /\ sentOn = [r \in Reports |-> NoDay]
  /\ recordedOn = [r \in Reports |-> NoDay]

(* validate_required and validate_optional refuse other bodies (400).      *)
SendReport(r, path) ==
  /\ report[r] = "new"
  /\ missed' = [missed EXCEPT ![r] = path]
  /\ report' = [report EXCEPT ![r] = "sent"]
  /\ sentOn' = [sentOn EXCEPT ![r] = today]
  /\ UNCHANGED <<event, today, recordedOn>>

(* Mutant: one row per path, moved to the last report of it.               *)
RecordRouteMiss_Upsert(r) ==
  /\ report[r] \in {"sent", "dropped"} /\ event[r] = NoEvent
  /\ event' = [s \in Reports |->
                 IF s = r THEN [path |-> missed[r], at |-> today]
                 ELSE IF missed[s] = missed[r] THEN NoEvent ELSE event[s]]
  /\ report' = [report EXCEPT ![r] = IF @ = "sent" THEN "inserted" ELSE @]
  /\ UNCHANGED <<missed, today, sentOn, recordedOn>>

(* Mutant: occurred_at is bound as NULL, so that its default does not apply.*)
RecordRouteMiss_NullTime(r) ==
  /\ report[r] \in {"sent", "dropped"} /\ event[r] = NoEvent
  /\ event' = [event EXCEPT ![r] = [path |-> missed[r], at |-> NoDay]]
  /\ report' = [report EXCEPT ![r] = IF @ = "sent" THEN "inserted" ELSE @]
  /\ UNCHANGED <<missed, today, sentOn, recordedOn>>

(* The INSERT runs, whether or not its handler still waits for it.         *)
RecordRouteMiss(r) ==
  /\ report[r] \in {"sent", "dropped"} /\ event[r] = NoEvent
  /\ event' = [event EXCEPT ![r] = [path |-> missed[r], at |-> today]]
  /\ report' = [report EXCEPT ![r] = IF @ = "sent" THEN "inserted" ELSE @]
  /\ UNCHANGED <<missed, today, sentOn, recordedOn>>

Acknowledge(r) ==
  /\ report[r] = "inserted"
  /\ report' = [report EXCEPT ![r] = "recorded"]
  /\ recordedOn' = [recordedOn EXCEPT ![r] = today]
  /\ UNCHANGED <<missed, event, today, sentOn>>

(* 408 or 503.                                                             *)
DropReport(r) ==
  /\ report[r] \in {"sent", "inserted"}
  /\ report' = [report EXCEPT ![r] = "dropped"]
  /\ UNCHANGED <<missed, event, today, sentOn, recordedOn>>

NextDay ==
  /\ today < LastDay
  /\ today' = today + 1
  /\ UNCHANGED <<report, missed, event, sentOn, recordedOn>>

MissesNext ==
  \/ \E r \in Reports :
       \/ \E path \in Paths : SendReport(r, path)
       \/ RecordRouteMiss(r) \/ Acknowledge(r) \/ DropReport(r)
  \/ NextDay

MissesSpec == MissesInit /\ [][MissesNext]_missVars

-----------------------------------------------------------------------------
(* list_route_miss_summaries(days, limit)                                  *)
InWindow(days, path) ==
  {r \in Reports : /\ event[r] # NoEvent /\ event[r].path = path
                   /\ event[r].at + days >= today}

MissSummary(days, path) ==
  LET times == {event[r].at : r \in InWindow(days, path)}
  IN [path |-> path, hits |-> Cardinality(InWindow(days, path)),
      firstSeen |-> CHOOSE t \in times : \A u \in times : t <= u,
      lastSeen |-> CHOOSE t \in times : \A u \in times : u <= t]

(* ORDER BY hits DESC, last_seen_at DESC, requested_path                   *)
ListedBefore(row, other) ==
  \/ row.hits > other.hits
  \/ row.hits = other.hits /\ row.lastSeen > other.lastSeen
  \/ row.hits = other.hits /\ row.lastSeen = other.lastSeen /\ row.path < other.path

SummaryRows(days) ==
  {MissSummary(days, path) : path \in {p \in Paths : InWindow(days, p) # {}}}

RouteMissSummaries(days, limit) ==
  LET rows == SummaryRows(days)
      sorted == OrderedBy(rows, {p \in rows \X rows : ListedBefore(p[1], p[2])})
  IN SubSeq(sorted, 1, IF Len(sorted) < limit THEN Len(sorted) ELSE limit)

(***************************************************************************)
(* Properties.                                                             *)
(***************************************************************************)
MissesTypeOK ==
  /\ report \in [Reports -> {"new", "sent", "inserted", "recorded", "dropped"}]
  /\ missed \in [Reports -> Paths \cup {NoPath}]
  /\ event \in [Reports -> [path : Paths, at : Nat] \cup {NoEvent}]
  /\ today \in Nat
  /\ sentOn \in [Reports -> Nat \cup {NoDay}]
  /\ recordedOn \in [Reports -> Nat \cup {NoDay}]

(* Reports of a path that are surely in the window, and that may be.       *)
Surely(days, path) ==
  {r \in Reports : /\ report[r] = "recorded" /\ missed[r] = path
                   /\ sentOn[r] + days >= today}
Possibly(days, path) ==
  {r \in Reports : /\ report[r] # "new" /\ missed[r] = path
                   /\ report[r] = "recorded" => recordedOn[r] + days >= today}

(* A summary counts every report of the window that was answered 204, and  *)
(* none twice, however reports of one path overlap; a report that was      *)
(* dropped counts once or not at all.  What the limit cuts off has been    *)
(* missed less often than what is listed.                                  *)
SummariesCountReports ==
  \A days \in 1 .. LastDay, limit \in 1 .. Cardinality(Paths) :
    LET rows == RouteMissSummaries(days, limit)
        listed == {rows[i].path : i \in DOMAIN rows}
    IN /\ \A i \in DOMAIN rows :
            /\ rows[i].hits >= Cardinality(Surely(days, rows[i].path))
            /\ rows[i].hits <= Cardinality(Possibly(days, rows[i].path))
            /\ \A path \in Paths \ listed :
                 Cardinality(Surely(days, path)) <= rows[i].hits
       /\ \A path \in Paths \ listed :
            Surely(days, path) # {} => Len(rows) = limit
=============================================================================
