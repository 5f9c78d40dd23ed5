-------------------------- MODULE SoftwareVersions --------------------------
(***************************************************************************)
(* software_versions, the master data of operating systems and UX skins,   *)
(* edited and deleted by administrators while device writes refer to it.   *)
(*                                                                         *)
(* An administrator's request is one autocommitted statement, which locks  *)
(* the version's row before it looks at the unique index or at the rows    *)
(* that refer to it.  A device write replaces the software of its device   *)
(* statement by statement; each insertion leaves a KEY SHARE lock on the   *)
(* version until the transaction ends.                                     *)
(***************************************************************************)
EXTENDS Naturals, Sequences

CONSTANTS
  Devices,
  Versions,        \* ids of software_versions rows
  Values,          \* e.g. "Android 14"
  Lists,           \* the software arrays that device writes carry
  Writers,         \* slots of device writes
  Admins,          \* slots of administrators' requests
  Edits,           \* the PUT and DELETE requests they send
  NoDevice, NoVersion, NoTask,
  InitialVersions  \* the rows at the start, referred to by no device

Rows  == [category : {"os", "ux"}, value : Values]
Items == [version : Versions, launch : BOOLEAN]
Tasks == [kind : {"update"}, id : Versions, row : Rows]
           \cup [kind : {"delete"}, id : Versions]

(* validate_write_request admits each version once.                        *)
ASSUME ListsAssumption ==
  Lists \subseteq {list \in Seq(Items) :
    \A i, j \in 1..Len(list) : list[i].version = list[j].version => i = j}
ASSUME VersionsAssumption ==
  /\ InitialVersions \in [Versions -> Rows \cup {NoVersion}]
  /\ NoVersion \notin Rows
ASSUME SlotsAssumption ==
  /\ Writers \cap Admins = {}
  /\ NoDevice \notin Devices /\ NoTask \notin Edits
ASSUME EditsAssumption == Edits \subseteq Tasks

VARIABLES
  version,   \* committed software_versions
  software,  \* committed device_software: the items of each device
  phase,     \* the next statement of each write
  device,    \* the device it replaces the software of
  todo,      \* items it has still to insert, in the order of their position
  done,      \* items it has inserted, not yet committed
  answer,    \* what its client was sent, "none" while the handler runs
  task,      \* the statement of each administrator, or NoTask
  locked     \* it has locked the row of its version

writes == <<phase, device, todo, done, answer>>
edits  == <<task, locked>>
vars   == <<version, software, phase, device, todo, done, answer,
            task, locked>>

Init ==
  /\ version = InitialVersions
  /\ software = [d \in Devices |-> {}]
  /\ phase = [w \in Writers |-> "idle"]
  /\ device = [w \in Writers |-> NoDevice]
  /\ todo = [w \in Writers |-> <<>>]
  /\ done = [w \in Writers |-> {}]
  /\ answer = [w \in Writers |-> "none"]
  /\ task = [a \in Admins |-> NoTask]
  /\ locked = [a \in Admins |-> FALSE]

(***************************************************************************)
(* Locks.                                                                  *)
(***************************************************************************)
(* The write has locked its device and deleted the device's software.      *)
Replacing(w) == phase[w] \in {"insert", "commit"}
Replacers(d) == {w \in Writers : Replacing(w) /\ device[w] = d}

(* Writes that hold KEY SHARE on a version.                                *)
Sharers(v) == {w \in Writers : \E item \in done[w] : item.version = v}

(* The statement deletes the row or changes a column of its unique index   *)
(* (category, value), which FOREIGN KEY locks have to exclude.             *)
Rekeys(a) == task[a].kind = "delete" \/ task[a].row # version[task[a].id]
RowLockers(v) == {a \in Admins : locked[a] /\ task[a].id = v}
KeyLockers(v) == {a \in RowLockers(v) : Rekeys(a)}

(***************************************************************************)
(* Device writes.                                                          *)
(***************************************************************************)
At(w, statement) == phase[w] = statement /\ answer[w] = "none"

EndWrite(w) ==
  /\ phase' = [phase EXCEPT ![w] = "idle"]
  /\ device' = [device EXCEPT ![w] = NoDevice]
  /\ todo' = [todo EXCEPT ![w] = <<>>]
  /\ done' = [done EXCEPT ![w] = {}]

Receive(w, d, list) ==
  /\ phase[w] = "idle"
  /\ phase' = [phase EXCEPT ![w] = "replace"]
  /\ device' = [device EXCEPT ![w] = d]
  /\ todo' = [todo EXCEPT ![w] = list]
  /\ answer' = [answer EXCEPT ![w] = "none"]
  /\ UNCHANGED <<version, software, done, edits>>

(* UPDATE device_models, which serialises the writes of a device, up to    *)
(* DELETE FROM device_software.                                            *)
DeleteSoftware(w) ==
  /\ At(w, "replace")
  /\ Replacers(device[w]) = {}
  /\ phase' = [phase EXCEPT ![w] = "insert"]
  /\ UNCHANGED <<version, software, device, todo, done, answer, edits>>

(* INSERT INTO device_software; the foreign key is checked at once.        *)
InsertSoftware(w) ==
  /\ At(w, "insert") /\ todo[w] # <<>>
  /\ LET item == Head(todo[w]) IN
       /\ KeyLockers(item.version) = {}
       /\ version[item.version] # NoVersion
       /\ done' = [done EXCEPT ![w] = @ \cup {item}]
  /\ todo' = [todo EXCEPT ![w] = Tail(@)]
  /\ UNCHANGED <<version, software, phase, device, answer, edits>>

(* Mutant: the violated foreign key is not mapped.                         *)
MissingVersion_Internal(w) ==
  /\ At(w, "insert") /\ todo[w] # <<>>
  /\ LET v == Head(todo[w]).version IN
       KeyLockers(v) = {} /\ version[v] = NoVersion
  /\ EndWrite(w)
  /\ answer' = [answer EXCEPT ![w] = "500"]
  /\ UNCHANGED <<version, software, edits>>

(* The foreign key fails: the transaction is aborted on the spot, and      *)
(* map_write_db_error makes it a validation error.                         *)
MissingVersion(w) ==
  /\ At(w, "insert") /\ todo[w] # <<>>
  /\ LET v == Head(todo[w]).version IN
       KeyLockers(v) = {} /\ version[v] = NoVersion
  /\ EndWrite(w)
  /\ answer' = [answer EXCEPT ![w] = "400"]
  /\ UNCHANGED <<version, software, edits>>

(* More than one launch version in a category.                             *)
Clash(rows, items) ==
  \E i, j \in items :
    /\ i.version # j.version /\ i.launch /\ j.launch
    /\ rows[i.version].category = rows[j.version].category

(* The query for categories with more than one launch finds none.          *)
CheckLaunches(w) ==
  /\ At(w, "insert") /\ todo[w] = <<>>
  /\ ~Clash(version, done[w])
  /\ phase' = [phase EXCEPT ![w] = "commit"]
  /\ UNCHANGED <<version, software, device, todo, done, answer, edits>>

(* The handler returns an error; the transaction is open until the         *)
(* ROLLBACK of its dropped guard arrives.                                  *)
RefuseLaunches(w) ==
  /\ At(w, "insert") /\ todo[w] = <<>>
  /\ Clash(version, done[w])
  /\ answer' = [answer EXCEPT ![w] = "400"]
  /\ UNCHANGED <<version, software, phase, device, todo, done, edits>>

(* A COMMIT that was sent takes effect even if the handler is gone.        *)
Commit(w) ==
  /\ phase[w] = "commit"
  /\ software' = [software EXCEPT ![device[w]] = done[w]]
  /\ EndWrite(w)
  /\ answer' = [answer EXCEPT ![w] = IF @ = "none" THEN "ok" ELSE @]
  /\ UNCHANGED <<version, edits>>

(* The time limit or a lost connection ends the handler.                   *)
Drop(w) ==
  /\ phase[w] # "idle" /\ answer[w] = "none"
  /\ answer' = [answer EXCEPT ![w] = "408"]
  /\ UNCHANGED <<version, software, phase, device, todo, done, edits>>

(***************************************************************************)
(* Administrators.  What they are answered has no effect and is left out.  *)
(***************************************************************************)
(* POST /software-versions, with an id of the database's making, of a value*)
(* that is neither taken nor about to be given up.                         *)
CreateVersion(v, row) ==
  /\ version[v] = NoVersion
  /\ \A u \in Versions : version[u] # row
  /\ version' = [version EXCEPT ![v] = row]
  /\ UNCHANGED <<software, writes, edits>>

Send(a, edit) ==
  /\ task[a] = NoTask
  /\ task' = [task EXCEPT ![a] = edit]
  /\ UNCHANGED <<version, software, writes, locked>>

EndTask(a) ==
  /\ task' = [task EXCEPT ![a] = NoTask]
  /\ locked' = [locked EXCEPT ![a] = FALSE]

(* Nothing has the id: 404.                                                *)
UnknownVersion(a) ==
  /\ task[a] # NoTask /\ version[task[a].id] = NoVersion
  /\ EndTask(a)
  /\ UNCHANGED <<version, software, writes>>

(* Mutant: an update takes the weaker lock even if it changes the category,*)
(* as it would if no unique index covered the column.                      *)
LockVersion_NoKey(a) ==
  /\ task[a] # NoTask /\ ~locked[a]
  /\ version[task[a].id] # NoVersion
  /\ RowLockers(task[a].id) = {}
  /\ task[a].kind = "delete" => Sharers(task[a].id) = {}
  /\ locked' = [locked EXCEPT ![a] = TRUE]
  /\ UNCHANGED <<version, software, writes, task>>

(* FOR UPDATE if the key changes, FOR NO KEY UPDATE otherwise.             *)
LockVersion(a) ==
  /\ task[a] # NoTask /\ ~locked[a]
  /\ version[task[a].id] # NoVersion
  /\ RowLockers(task[a].id) = {}
  /\ Rekeys(a) => Sharers(task[a].id) = {}
  /\ locked' = [locked EXCEPT ![a] = TRUE]
  /\ UNCHANGED <<version, software, writes, task>>

Doing(a, kind) == task[a] # NoTask /\ locked[a] /\ task[a].kind = kind

(* Statements that may remove the value a is about to enter in the index.  *)
ValueHolders(a) ==
  {b \in Admins \ {a} : /\ locked[b] /\ Rekeys(b)
                        /\ version[task[b].id] = task[a].row}

ValueTaken(a) ==
  \E v \in Versions \ {task[a].id} : version[v] = task[a].row

UpdateVersion(a) ==
  /\ Doing(a, "update") /\ ~ValueTaken(a)
  /\ version' = [version EXCEPT ![task[a].id] = task[a].row]
  /\ EndTask(a)
  /\ UNCHANGED <<software, writes>>

(* 409; waits for whoever may yet give the value up.                       *)
RefuseValue(a) ==
  /\ Doing(a, "update") /\ ValueTaken(a) /\ ValueHolders(a) = {}
  /\ EndTask(a)
  /\ UNCHANGED <<version, software, writes>>

(* Devices whose committed software includes the version.                  *)
Referring(v) ==
  {d \in Devices : \E item \in software[d] : item.version = v}

(* Mutant: the foreign key does not restrict deletion.                     *)
DeleteVersion_Unrestricted(a) ==
  /\ Doing(a, "delete")
  /\ version' = [version EXCEPT ![task[a].id] = NoVersion]
  /\ EndTask(a)
  /\ UNCHANGED <<software, writes>>

DeleteVersion(a) ==
  /\ Doing(a, "delete") /\ Referring(task[a].id) = {}
  /\ version' = [version EXCEPT ![task[a].id] = NoVersion]
  /\ EndTask(a)
  /\ UNCHANGED <<software, writes>>

(* Mutant: the refused deletion is tried again while it holds the row.     *)
RefuseDelete_Retries(a) ==
  /\ Doing(a, "delete")
  /\ \E d \in Referring(task[a].id) : Replacers(d) = {}
  /\ UNCHANGED vars

(* A row that refers to the version and that nobody is replacing.  The     *)
(* error is not mapped: 503.                                               *)
RefuseDelete(a) ==
  /\ Doing(a, "delete")
  /\ \E d \in Referring(task[a].id) : Replacers(d) = {}
  /\ EndTask(a)
  /\ UNCHANGED <<version, software, writes>>

(***************************************************************************)
(* Waiting, deadlocks and rollback.                                        *)
(***************************************************************************)
(* Whom a writer's or an administrator's next statement may wait for.  A   *)
(* deletion may come upon rows that are being replaced before it comes     *)
(* upon one that is not.                                                   *)
Blockers(p) ==
  CASE p \in Writers /\ phase[p] = "replace" -> Replacers(device[p])
    [] p \in Writers /\ phase[p] = "insert" /\ todo[p] # <<>> ->
         KeyLockers(Head(todo[p]).version)
    [] p \in Admins /\ task[p] # NoTask /\ ~locked[p] ->
         RowLockers(task[p].id) \cup
           (IF Rekeys(p) THEN Sharers(task[p].id) ELSE {})
    [] p \in Admins /\ Doing(p, "update") -> ValueHolders(p)
    [] p \in Admins /\ Doing(p, "delete") ->
         UNION {Replacers(d) : d \in Referring(task[p].id)}
    [] OTHER -> {}

Deadlocked(S) == S # {} /\ \A p \in S : Blockers(p) \cap S # {}
InDeadlock(p) ==
  \E S \in SUBSET (Writers \cup Admins) : p \in S /\ Deadlocked(S)

BreakDeadlockOfWrite(w) ==
  /\ InDeadlock(w)
  /\ EndWrite(w)
  /\ answer' = [answer EXCEPT ![w] = IF @ = "none" THEN "503" ELSE @]
  /\ UNCHANGED <<version, software, edits>>

BreakDeadlockOfTask(a) ==
  /\ InDeadlock(a)
  /\ EndTask(a)
  /\ UNCHANGED <<version, software, writes>>

(* Once its statement has stopped waiting, a transaction whose handler is  *)
(* gone is rolled back.                                                    *)
Rollback(w) ==
  /\ phase[w] # "idle" /\ answer[w] # "none" /\ Blockers(w) = {}
  /\ EndWrite(w)
  /\ UNCHANGED <<version, software, answer, edits>>

(***************************************************************************)
(* The specification.                                                      *)
(***************************************************************************)
WriteStatement(w) ==
  \/ DeleteSoftware(w) \/ InsertSoftware(w) \/ MissingVersion(w)
  \/ CheckLaunches(w) \/ RefuseLaunches(w) \/ Commit(w)

AdminStatement(a) ==
  \/ UnknownVersion(a) \/ LockVersion(a)
  \/ UpdateVersion(a) \/ RefuseValue(a)
  \/ DeleteVersion(a) \/ RefuseDelete(a)

Next ==
  \/ \E w \in Writers :
       \/ \E d \in Devices, list \in Lists : Receive(w, d, list)
       \/ WriteStatement(w)
       \/ Drop(w) \/ Rollback(w) \/ BreakDeadlockOfWrite(w)
  \/ \E a \in Admins :
       \/ \E edit \in Edits : Send(a, edit)
       \/ AdminStatement(a)
       \/ BreakDeadlockOfTask(a)
  \/ \E v \in Versions, row \in Rows : CreateVersion(v, row)

Spec == Init /\ [][Next]_vars

(* Statements run when nothing blocks them and the deadlock detector runs. *)
(* Nothing is assumed of clients or of the time limit.                     *)
Fairness ==
  /\ \A w \in Writers :
       /\ SF_vars(WriteStatement(w)) /\ SF_vars(Rollback(w))
       /\ WF_vars(BreakDeadlockOfWrite(w))
  /\ \A a \in Admins :
       SF_vars(AdminStatement(a)) /\ WF_vars(BreakDeadlockOfTask(a))

(***************************************************************************)
(* Properties.                                                             *)
(***************************************************************************)
TypeOK ==
  /\ version \in [Versions -> Rows \cup {NoVersion}]
  /\ software \in [Devices -> SUBSET Items]
  /\ phase \in [Writers -> {"idle", "replace", "insert", "commit"}]
  /\ device \in [Writers -> Devices \cup {NoDevice}]
  /\ todo \in [Writers -> Seq(Items)]
  /\ done \in [Writers -> SUBSET Items]
  /\ answer \in [Writers -> {"none", "ok", "400", "408", "503"}]
  /\ task \in [Admins -> Edits \cup {NoTask}]
  /\ locked \in [Admins -> BOOLEAN]

(* Every device refers to stored versions only, however deletions and      *)
(* device writes interleave.                                               *)
SoftwareStored ==
  \A d \in Devices : \A item \in software[d] : version[item.version] # NoVersion

(* At the moment a device's software changes it has at most one launch     *)
(* version per category: what the check before COMMIT has seen still holds *)
(* at COMMIT, although the check locks nothing and categories are edited.  *)
CommitsRespectLaunches ==
  [][\A d \in Devices :
       software'[d] # software[d] => ~Clash(version', software'[d])]_vars

(* src/routes/catalog.rs:999: only one launch version per category (os,    *)
(* ux) is allowed.                                                         *)
OneLaunchPerCategory == \A d \in Devices : ~Clash(version, software[d])

(***************************************************************************)
(* The inductive invariant behind SoftwareStored and CommitsRespectLaunches*)
(***************************************************************************)
(* What a write has inserted is stored and cannot be rekeyed: KEY SHARE    *)
(* and an exclusive lock on a version exclude each other.                  *)
SharedVersionsStay ==
  /\ \A w \in Writers : \A item \in done[w] :
       version[item.version] # NoVersion /\ KeyLockers(item.version) = {}
  /\ \A a \in Admins : locked[a] =>
       /\ task[a] # NoTask /\ version[task[a].id] # NoVersion
       /\ \A b \in Admins \ {a} : locked[b] => task[b].id # task[a].id

(* The launch check is still good when the write commits.                  *)
CheckedLaunchesHold ==
  \A w \in Writers :
    /\ phase[w] = "commit" => ~Clash(version, done[w])
    /\ phase[w] # "idle" => device[w] \in Devices
    /\ ~Replacing(w) => done[w] = {}

IInv == TypeOK /\ SoftwareStored /\ SharedVersionsStay /\ CheckedLaunchesHold

=============================================================================
