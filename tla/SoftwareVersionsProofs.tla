----------------------- MODULE SoftwareVersionsProofs -----------------------
(***************************************************************************)
(* For every number of devices, versions, writes and administrators:       *)
(* stored software refers to stored versions, and a write that commits     *)
(* leaves its device with at most one launch version per category.         *)
(***************************************************************************)
EXTENDS SoftwareVersions, TLAPS

(* A step of a write changes no version and no administrator's lock; a     *)
(* step of an administrator changes no write.                              *)
WriterStep(w) ==
  \/ \E d \in Devices, list \in Lists : Receive(w, d, list)
  \/ WriteStatement(w)
  \/ Drop(w) \/ Rollback(w) \/ BreakDeadlockOfWrite(w)

AdminStep(a) ==
  \/ \E edit \in Edits : Send(a, edit)
  \/ AdminStatement(a)
  \/ BreakDeadlockOfTask(a)

(***************************************************************************)
(* Types.                                                                  *)
(***************************************************************************)
LEMMA InitInv == Init => IInv
  BY ListsAssumption, VersionsAssumption, SlotsAssumption
  DEF Init, IInv, TypeOK, SoftwareStored, SharedVersionsStay,
      CheckedLaunchesHold, Replacing, KeyLockers, RowLockers, Items, Rows

LEMMA WriterTypes ==
  ASSUME TypeOK, NEW w \in Writers, WriterStep(w)
  PROVE  TypeOK'
<1>1. CASE \E d \in Devices, list \in Lists : Receive(w, d, list)
  BY <1>1, ListsAssumption DEF TypeOK, Receive, edits
<1>2. CASE DeleteSoftware(w)
  BY <1>2 DEF TypeOK, DeleteSoftware, edits
<1>3. CASE InsertSoftware(w)
  <2>1. /\ todo[w] \in Seq(Items) /\ todo[w] # <<>>
    BY <1>3 DEF TypeOK, InsertSoftware
  <2>2. Head(todo[w]) \in Items /\ Tail(todo[w]) \in Seq(Items)
    BY <2>1
  <2>. QED BY <1>3, <2>2 DEF TypeOK, InsertSoftware, edits
<1>4. CASE MissingVersion(w)
  BY <1>4 DEF TypeOK, MissingVersion, EndWrite, edits
<1>5. CASE CheckLaunches(w)
  BY <1>5 DEF TypeOK, CheckLaunches, edits
<1>6. CASE RefuseLaunches(w)
  BY <1>6 DEF TypeOK, RefuseLaunches, edits
<1>7. CASE Commit(w)
  <2>1. done[w] \in SUBSET Items
    BY DEF TypeOK
  <2>2. software' \in [Devices -> SUBSET Items]
    BY <1>7, <2>1 DEF TypeOK, Commit
  <2>3. answer' \in [Writers -> {"none", "ok", "400", "408", "503"}]
    BY <1>7 DEF TypeOK, Commit
  <2>. QED BY <1>7, <2>2, <2>3 DEF TypeOK, Commit, EndWrite, edits
<1>8. CASE Drop(w)
  BY <1>8 DEF TypeOK, Drop, edits
<1>9. CASE Rollback(w)
  BY <1>9 DEF TypeOK, Rollback, EndWrite, edits
<1>10. CASE BreakDeadlockOfWrite(w)
  BY <1>10 DEF TypeOK, BreakDeadlockOfWrite, EndWrite, edits
<1>. QED
  BY <1>1, <1>2, <1>3, <1>4, <1>5, <1>6, <1>7, <1>8, <1>9, <1>10
  DEF WriterStep, WriteStatement

LEMMA AdminTypes ==
  ASSUME TypeOK, NEW a \in Admins, AdminStep(a)
  PROVE  TypeOK'
<1>1. CASE \E edit \in Edits : Send(a, edit)
  BY <1>1 DEF TypeOK, Send, writes
<1>2. CASE UnknownVersion(a)
  BY <1>2 DEF TypeOK, UnknownVersion, EndTask, writes
<1>3. CASE LockVersion(a)
  BY <1>3 DEF TypeOK, LockVersion, writes
<1>4. CASE UpdateVersion(a)
  <2>1. task[a] \in Edits /\ task[a].kind = "update"
    BY <1>4 DEF TypeOK, UpdateVersion, Doing
  <2>2. task[a].row \in Rows
    BY <2>1, EditsAssumption DEF Tasks
  <2>. QED BY <1>4, <2>2 DEF TypeOK, UpdateVersion, EndTask, writes
<1>5. CASE RefuseValue(a)
  BY <1>5 DEF TypeOK, RefuseValue, EndTask, writes
<1>6. CASE DeleteVersion(a)
  BY <1>6 DEF TypeOK, DeleteVersion, EndTask, writes
<1>7. CASE RefuseDelete(a)
  BY <1>7 DEF TypeOK, RefuseDelete, EndTask, writes
<1>8. CASE BreakDeadlockOfTask(a)
  BY <1>8 DEF TypeOK, BreakDeadlockOfTask, EndTask, writes
<1>. QED
  BY <1>1, <1>2, <1>3, <1>4, <1>5, <1>6, <1>7, <1>8
  DEF AdminStep, AdminStatement

LEMMA CreateTypes ==
  ASSUME TypeOK, NEW v \in Versions, NEW row \in Rows, CreateVersion(v, row)
  PROVE  TypeOK'
  BY DEF TypeOK, CreateVersion, writes, edits

(***************************************************************************)
(* Device writes.                                                          *)
(***************************************************************************)
(* What the steps of a write leave alone, and all they may do to done.     *)
LEMMA WriterFrame ==
  ASSUME TypeOK, NEW w \in Writers, WriterStep(w)
  PROVE  /\ UNCHANGED <<version, task, locked>>
         /\ \A x \in Writers \ {w} :
              phase'[x] = phase[x] /\ device'[x] = device[x] /\ done'[x] = done[x]
         /\ \/ done'[w] \in {done[w], {}}
            \/ InsertSoftware(w)
<1>1. CASE \E d \in Devices, list \in Lists : Receive(w, d, list)
  BY <1>1 DEF TypeOK, Receive, edits
<1>2. CASE DeleteSoftware(w)
  BY <1>2 DEF TypeOK, DeleteSoftware, edits
<1>3. CASE InsertSoftware(w)
  BY <1>3 DEF TypeOK, InsertSoftware, edits
<1>4. CASE MissingVersion(w) \/ Rollback(w)
  BY <1>4 DEF TypeOK, MissingVersion, Rollback, EndWrite, edits
<1>5. CASE CheckLaunches(w) \/ RefuseLaunches(w)
  BY <1>5 DEF TypeOK, CheckLaunches, RefuseLaunches, edits
<1>6. CASE Commit(w)
  BY <1>6 DEF TypeOK, Commit, EndWrite, edits
<1>7. CASE Drop(w)
  BY <1>7 DEF TypeOK, Drop, edits
<1>8. CASE BreakDeadlockOfWrite(w)
  BY <1>8 DEF TypeOK, BreakDeadlockOfWrite, EndWrite, edits
<1>. QED BY <1>1, <1>2, <1>3, <1>4, <1>5, <1>6, <1>7, <1>8
     DEF WriterStep, WriteStatement

LEMMA WriterShares ==
  ASSUME TypeOK, SharedVersionsStay, NEW w \in Writers, WriterStep(w)
  PROVE  SharedVersionsStay'
<1>1. UNCHANGED <<version, task, locked>>
  BY WriterFrame
<1>2. \A v \in Versions : KeyLockers(v)' = KeyLockers(v)
  BY <1>1 DEF KeyLockers, RowLockers, Rekeys
<1>3. ASSUME NEW x \in Writers, NEW item \in done'[x]
      PROVE  version[item.version] # NoVersion /\ KeyLockers(item.version) = {}
  <2>1. CASE item \in done[x]
    BY <2>1 DEF SharedVersionsStay
  <2>2. CASE item \notin done[x]
    <3>1. InsertSoftware(w) /\ x = w
      BY <1>3, <2>2, WriterFrame
    <3>2. item = Head(todo[w])
      BY <1>3, <2>2, <3>1 DEF InsertSoftware, TypeOK
    <3>. QED BY <3>1, <3>2 DEF InsertSoftware
  <2>. QED BY <2>1, <2>2
<1>4. ASSUME NEW x \in Writers, NEW item \in done'[x]
      PROVE  item.version \in Versions
  <2>1. TypeOK'
    BY WriterTypes
  <2>. QED BY <1>4, <2>1 DEF TypeOK, Items
<1>5. \A x \in Writers : \A item \in done'[x] :
         version'[item.version] # NoVersion /\ KeyLockers(item.version)' = {}
  BY <1>1, <1>2, <1>3, <1>4
<1>6. \A a \in Admins : locked[a] =>
         /\ task[a] # NoTask /\ version[task[a].id] # NoVersion
         /\ \A b \in Admins \ {a} : locked[b] => task[b].id # task[a].id
  BY DEF SharedVersionsStay
<1>. QED BY <1>1, <1>5, <1>6 DEF SharedVersionsStay

LEMMA WriterLaunches ==
  ASSUME TypeOK, CheckedLaunchesHold, NEW w \in Writers, WriterStep(w)
  PROVE  CheckedLaunchesHold'
<1>1. UNCHANGED version
  BY WriterFrame
<1>2. ASSUME NEW x \in Writers \ {w}
      PROVE  /\ phase'[x] = phase[x] /\ device'[x] = device[x]
             /\ done'[x] = done[x]
  BY WriterFrame
<1>3. /\ phase'[w] = "commit" => ~Clash(version, done'[w])
      /\ phase'[w] # "idle" => device'[w] \in Devices
      /\ phase'[w] \notin {"insert", "commit"} => done'[w] = {}
  <2>1. CASE \E d \in Devices, list \in Lists : Receive(w, d, list)
    BY <2>1 DEF TypeOK, CheckedLaunchesHold, Receive, Replacing
  <2>2. CASE DeleteSoftware(w)
    BY <2>2 DEF TypeOK, CheckedLaunchesHold, DeleteSoftware, At
  <2>3. CASE InsertSoftware(w)
    BY <2>3 DEF TypeOK, CheckedLaunchesHold, InsertSoftware, At
  <2>4. CASE MissingVersion(w) \/ Rollback(w) \/ BreakDeadlockOfWrite(w) \/ Commit(w)
    BY <2>4 DEF TypeOK, MissingVersion, Rollback, BreakDeadlockOfWrite, Commit,
                EndWrite
  <2>5. CASE CheckLaunches(w)
    BY <2>5 DEF TypeOK, CheckedLaunchesHold, CheckLaunches, At
  <2>6. CASE RefuseLaunches(w) \/ Drop(w)
    BY <2>6 DEF CheckedLaunchesHold, RefuseLaunches, Drop, Replacing
  <2>. QED BY <2>1, <2>2, <2>3, <2>4, <2>5, <2>6 DEF WriterStep, WriteStatement
<1>. QED BY <1>1, <1>2, <1>3 DEF CheckedLaunchesHold, Replacing, Clash

(* COMMIT installs what the transaction has inserted and nothing else.     *)
LEMMA WriterSoftware ==
  ASSUME TypeOK, NEW w \in Writers, WriterStep(w), CheckedLaunchesHold
  PROVE  \/ UNCHANGED software
         \/ /\ phase[w] = "commit"
            /\ \A d \in Devices : software'[d] \in {software[d], done[w]}
<1>1. CASE Commit(w)
  BY <1>1 DEF TypeOK, Commit
<1>2. CASE ~Commit(w)
  BY <1>2 DEF WriterStep, WriteStatement, Receive, DeleteSoftware, InsertSoftware,
              MissingVersion, CheckLaunches, RefuseLaunches, Drop, Rollback,
              BreakDeadlockOfWrite
<1>. QED BY <1>1, <1>2

LEMMA WriterInv ==
  ASSUME IInv, NEW w \in Writers, WriterStep(w)
  PROVE  /\ IInv'
         /\ \A d \in Devices : software'[d] # software[d] => ~Clash(version', software'[d])
<1>. USE DEF IInv
<1>1. UNCHANGED version
  BY WriterFrame
<1>2. SoftwareStored'
  BY <1>1, WriterSoftware DEF SoftwareStored, SharedVersionsStay
<1>3. \A d \in Devices : software'[d] # software[d] => ~Clash(version', software'[d])
  BY <1>1, WriterSoftware DEF CheckedLaunchesHold
<1>. QED BY <1>2, <1>3, WriterTypes, WriterShares, WriterLaunches

(***************************************************************************)
(* Administrators.                                                         *)
(***************************************************************************)
(* A version changes only under its own lock, and unless it is rekeyed it  *)
(* keeps its row.                                                          *)
LEMMA AdminVersions ==
  ASSUME TypeOK, SharedVersionsStay, NEW a \in Admins, AdminStep(a)
  PROVE  /\ \/ UNCHANGED version
            \/ /\ locked[a] /\ task[a] \in Edits /\ locked'[a] = FALSE
               /\ \A v \in Versions \ {task[a].id} : version'[v] = version[v]
               /\ ~Rekeys(a) => UNCHANGED version
         /\ \A b \in Admins \ {a} : task'[b] = task[b] /\ locked'[b] = locked[b]
         /\ UNCHANGED <<software, phase, device, done>>
<1>1. CASE \E edit \in Edits : Send(a, edit)
  BY <1>1 DEF TypeOK, Send, writes
<1>2. CASE UnknownVersion(a) \/ RefuseValue(a) \/ RefuseDelete(a)
           \/ BreakDeadlockOfTask(a)
  BY <1>2 DEF TypeOK, UnknownVersion, RefuseValue, RefuseDelete,
              BreakDeadlockOfTask, EndTask, writes
<1>3. CASE LockVersion(a)
  BY <1>3 DEF TypeOK, LockVersion, writes
<1>4. CASE UpdateVersion(a)
  <2>1. locked[a] /\ task[a] \in Edits /\ task[a].kind = "update"
    BY <1>4 DEF TypeOK, UpdateVersion, Doing
  <2>2. task[a].id \in Versions
    BY <2>1, EditsAssumption DEF Tasks
  <2>. QED BY <1>4, <2>1, <2>2 DEF TypeOK, UpdateVersion, EndTask, Rekeys, writes
<1>5. CASE DeleteVersion(a)
  <2>1. locked[a] /\ task[a] \in Edits /\ task[a].kind = "delete"
    BY <1>5 DEF TypeOK, DeleteVersion, Doing
  <2>. QED BY <1>5, <2>1 DEF TypeOK, DeleteVersion, EndTask, Rekeys, writes
<1>. QED BY <1>1, <1>2, <1>3, <1>4, <1>5 DEF AdminStep, AdminStatement

(* What an open write has inserted keeps its row.                          *)
LEMMA SharedRowsKept ==
  ASSUME TypeOK, SharedVersionsStay, NEW a \in Admins, AdminStep(a),
         NEW w \in Writers, NEW item \in done[w]
  PROVE  item.version \in Versions /\ version'[item.version] = version[item.version]
<1>1. item.version \in Versions
  BY DEF TypeOK, Items
<1>2. KeyLockers(item.version) = {}
  BY DEF SharedVersionsStay
<1>3. locked[a] /\ task[a].id = item.version => ~Rekeys(a)
  BY <1>2 DEF KeyLockers, RowLockers
<1>. QED BY <1>1, <1>3, AdminVersions

(* A lock that an administrator holds after the step, he held before it or *)
(* has just taken.                                                         *)
LEMMA AdminLocks ==
  ASSUME TypeOK, SharedVersionsStay, NEW a \in Admins, AdminStep(a), locked'[a]
  PROVE  /\ UNCHANGED <<version, task>>
         /\ task[a] # NoTask
         /\ locked[a] \/ LockVersion(a)
<1>1. CASE \E edit \in Edits : Send(a, edit)
  BY <1>1 DEF TypeOK, Send, SharedVersionsStay
<1>2. CASE LockVersion(a)
  BY <1>2 DEF LockVersion
<1>3. CASE ~LockVersion(a) /\ ~(\E edit \in Edits : Send(a, edit))
  BY <1>3 DEF TypeOK, AdminStep, AdminStatement, UnknownVersion, UpdateVersion,
              RefuseValue, DeleteVersion, RefuseDelete, BreakDeadlockOfTask,
              EndTask
<1>. QED BY <1>1, <1>2, <1>3

LEMMA AdminShares ==
  ASSUME TypeOK, SharedVersionsStay, NEW a \in Admins, AdminStep(a)
  PROVE  SharedVersionsStay'
<1>1. ASSUME NEW w \in Writers, NEW item \in done'[w]
      PROVE  version'[item.version] # NoVersion /\ KeyLockers(item.version)' = {}
  <2>1. item \in done[w]
    BY <1>1, AdminVersions
  <2>2. version'[item.version] # NoVersion
    BY <2>1, SharedRowsKept DEF SharedVersionsStay
  <2>3. ASSUME NEW b \in Admins, locked'[b], task'[b].id = item.version
        PROVE  ~Rekeys(b)'
    <3>1. CASE b = a
      <4>1. /\ UNCHANGED <<version, task>>
            /\ locked[a] \/ LockVersion(a)
        BY <2>3, <3>1, AdminLocks
      <4>2. CASE locked[a]
        BY <2>1, <2>3, <3>1, <4>1, <4>2
        DEF SharedVersionsStay, KeyLockers, RowLockers, Rekeys
      <4>3. CASE LockVersion(a)
        BY <2>1, <2>3, <3>1, <4>1, <4>3 DEF LockVersion, Sharers, Rekeys
      <4>. QED BY <4>1, <4>2, <4>3
    <3>2. CASE b # a
      <4>1. task'[b] = task[b] /\ locked[b]
        BY <2>3, <3>2, AdminVersions
      <4>2. version'[task[b].id] = version[task[b].id]
        BY <2>1, <2>3, <4>1, SharedRowsKept
      <4>3. ~Rekeys(b)
        BY <2>1, <2>3, <4>1 DEF SharedVersionsStay, KeyLockers, RowLockers
      <4>. QED BY <4>1, <4>2, <4>3 DEF Rekeys
    <3>. QED BY <3>1, <3>2
  <2>. QED BY <2>2, <2>3 DEF KeyLockers, RowLockers
<1>2. ASSUME NEW b \in Admins, locked'[b]
      PROVE  /\ task'[b] # NoTask /\ version'[task'[b].id] # NoVersion
             /\ \A c \in Admins \ {b} : locked'[c] => task'[c].id # task'[b].id
  <2>1. CASE UNCHANGED version
    <3>1. task'[b] = task[b] /\ task[b] # NoTask /\ version[task[b].id] # NoVersion
      <4>1. CASE b = a
        BY <1>2, <4>1, AdminLocks DEF SharedVersionsStay, LockVersion
      <4>2. CASE b # a
        <5>1. task'[b] = task[b] /\ locked[b]
          BY <1>2, <4>2, AdminVersions
        <5>. QED BY <5>1 DEF SharedVersionsStay
      <4>. QED BY <4>1, <4>2
    <3>2. ASSUME NEW c \in Admins \ {b}, locked'[c]
          PROVE  task'[c].id # task'[b].id
      <4>1. task'[c] = task[c]
        BY <3>2, AdminLocks, AdminVersions
      <4>2. CASE locked[b] /\ locked[c]
        BY <3>1, <4>1, <4>2 DEF SharedVersionsStay
      <4>3. CASE ~locked[b]
        <5>1. b = a /\ LockVersion(a) /\ c # a /\ locked[c]
          BY <1>2, <3>2, <4>3, AdminLocks, AdminVersions
        <5>. QED BY <3>1, <4>1, <5>1 DEF LockVersion, RowLockers
      <4>4. CASE ~locked[c]
        <5>1. c = a /\ LockVersion(a) /\ b # a /\ locked[b]
          BY <1>2, <3>2, <4>4, AdminLocks, AdminVersions
        <5>. QED BY <3>1, <4>1, <5>1 DEF LockVersion, RowLockers
      <4>. QED BY <4>2, <4>3, <4>4
    <3>. QED BY <2>1, <3>1, <3>2
  <2>2. CASE ~(UNCHANGED version)
    <3>1. /\ locked[a] /\ locked'[a] = FALSE
          /\ \A v \in Versions \ {task[a].id} : version'[v] = version[v]
      BY <2>2, AdminVersions
    <3>2. ASSUME NEW c \in Admins, locked'[c]
          PROVE  c # a /\ task'[c] = task[c] /\ locked[c]
      BY <3>1, <3>2, AdminVersions
    <3>3. task[b] # NoTask /\ version[task[b].id] # NoVersion /\ task[b].id # task[a].id
      BY <1>2, <3>1, <3>2 DEF SharedVersionsStay
    <3>4. task[b] \in Edits
      BY <3>3 DEF TypeOK
    <3>5. task[b].id \in Versions
      BY <3>4, EditsAssumption DEF Tasks
    <3>. QED BY <1>2, <3>1, <3>2, <3>3, <3>5 DEF SharedVersionsStay
  <2>. QED BY <2>1, <2>2
<1>. QED BY <1>1, <1>2 DEF SharedVersionsStay

LEMMA AdminLaunches ==
  ASSUME TypeOK, SharedVersionsStay, CheckedLaunchesHold,
         NEW a \in Admins, AdminStep(a)
  PROVE  CheckedLaunchesHold'
<1>1. UNCHANGED <<phase, device, done>>
  BY AdminVersions
<1>2. ASSUME NEW w \in Writers, phase[w] = "commit"
      PROVE  ~Clash(version', done[w])
  <2>1. ~Clash(version, done[w])
    BY <1>2 DEF CheckedLaunchesHold
  <2>2. \A item \in done[w] : version'[item.version] = version[item.version]
    BY SharedRowsKept
  <2>. QED BY <2>1, <2>2 DEF Clash
<1>. QED BY <1>1, <1>2 DEF CheckedLaunchesHold, Replacing, Clash

(* Only a deletion makes a row vanish, and it finds nothing that refers to *)
(* the row.                                                                *)
LEMMA AdminSoftware ==
  ASSUME TypeOK, SoftwareStored, SharedVersionsStay, NEW a \in Admins, AdminStep(a)
  PROVE  SoftwareStored'
<1>1. UNCHANGED software
  BY AdminVersions
<1>2. ASSUME NEW d \in Devices, NEW item \in software[d]
      PROVE  version'[item.version] # NoVersion
  <2>1. version[item.version] # NoVersion /\ item.version \in Versions
    BY <1>2 DEF SoftwareStored, TypeOK, Items
  <2>2. CASE UpdateVersion(a)
    <3>1. task[a] \in Edits /\ task[a].kind = "update"
      BY <2>2 DEF TypeOK, UpdateVersion, Doing
    <3>2. task[a].row \in Rows /\ task[a].row # NoVersion
      BY <3>1, EditsAssumption, VersionsAssumption DEF Tasks
    <3>. QED BY <2>1, <2>2, <3>2 DEF TypeOK, UpdateVersion
  <2>3. CASE DeleteVersion(a)
    <3>1. item.version # task[a].id
      BY <1>2, <2>3 DEF DeleteVersion, Referring
    <3>. QED BY <2>1, <2>3, <3>1 DEF TypeOK, DeleteVersion
  <2>4. CASE ~UpdateVersion(a) /\ ~DeleteVersion(a)
    BY <2>1, <2>4 DEF AdminStep, AdminStatement, Send, UnknownVersion, LockVersion,
                      RefuseValue, RefuseDelete, BreakDeadlockOfTask
  <2>. QED BY <2>2, <2>3, <2>4
<1>. QED BY <1>1, <1>2 DEF SoftwareStored

LEMMA AdminInv ==
  ASSUME IInv, NEW a \in Admins, AdminStep(a)
  PROVE  IInv' /\ UNCHANGED software
BY AdminTypes, AdminSoftware, AdminShares, AdminLaunches, AdminVersions DEF IInv

(* A new version has an id that nothing refers to yet.                     *)
LEMMA CreateInv ==
  ASSUME IInv, NEW v \in Versions, NEW row \in Rows, CreateVersion(v, row)
  PROVE  IInv' /\ UNCHANGED software
<1>. USE DEF IInv
<1>1. /\ version[v] = NoVersion /\ version'[v] # NoVersion
      /\ \A u \in Versions \ {v} : version'[u] = version[u]
      /\ UNCHANGED <<software, phase, device, done, task, locked>>
  BY VersionsAssumption DEF CreateVersion, TypeOK, writes, edits
<1>2. \A u \in Versions : version[u] # NoVersion => version'[u] = version[u]
  BY <1>1
<1>3. ASSUME NEW w \in Writers, NEW item \in done[w]
      PROVE  item.version \in Versions /\ version[item.version] # NoVersion
  BY <1>3 DEF TypeOK, Items, SharedVersionsStay
<1>4. ASSUME NEW a \in Admins, locked[a]
      PROVE  /\ task[a].id \in Versions /\ version[task[a].id] # NoVersion
             /\ Rekeys(a)' = Rekeys(a)
  <2>1. task[a] # NoTask /\ version[task[a].id] # NoVersion
    BY <1>4 DEF SharedVersionsStay
  <2>2. task[a] \in Edits
    BY <2>1 DEF TypeOK
  <2>3. task[a].id \in Versions
    BY <2>2, EditsAssumption DEF Tasks
  <2>. QED BY <1>1, <1>2, <2>1, <2>3 DEF Rekeys
<1>5. SoftwareStored'
  BY <1>1, <1>2 DEF SoftwareStored, TypeOK, Items
<1>6. \A u \in Versions : KeyLockers(u)' = KeyLockers(u)
  BY <1>1, <1>4 DEF KeyLockers, RowLockers
<1>7. SharedVersionsStay'
  BY <1>1, <1>2, <1>3, <1>4, <1>6 DEF SharedVersionsStay
<1>8. CheckedLaunchesHold'
  BY <1>1, <1>2, <1>3 DEF CheckedLaunchesHold, Replacing, Clash
<1>. QED BY <1>1, <1>5, <1>7, <1>8, CreateTypes

(***************************************************************************)
(* The theorems.                                                           *)
(***************************************************************************)
LEMMA StepInv ==
  ASSUME IInv, [Next]_vars
  PROVE  /\ IInv'
         /\ \A d \in Devices : software'[d] # software[d] => ~Clash(version', software'[d])
<1>1. CASE UNCHANGED vars
  BY <1>1 DEF vars, IInv, TypeOK, SoftwareStored, SharedVersionsStay,
     CheckedLaunchesHold, KeyLockers, RowLockers, Rekeys, Replacing, Clash
<1>2. CASE \E w \in Writers : WriterStep(w)
  BY <1>2, WriterInv
<1>3. CASE \E a \in Admins : AdminStep(a)
  BY <1>3, AdminInv
<1>4. CASE \E v \in Versions, row \in Rows : CreateVersion(v, row)
  BY <1>4, CreateInv
<1>. QED BY <1>1, <1>2, <1>3, <1>4 DEF Next, WriterStep, AdminStep

THEOREM InvariantHolds == Spec => []IInv
<1>1. IInv /\ [Next]_vars => IInv'
  BY StepInv
<1>. QED BY <1>1, InitInv, PTL DEF Spec

(* The variables keep their types.                                         *)
THEOREM TypeCorrect == Spec => []TypeOK
<1>1. IInv => TypeOK
  BY DEF IInv
<1>. QED BY <1>1, InvariantHolds, PTL

(* delete_software_version never leaves a device_software row behind.      *)
THEOREM SoftwareAlwaysStored == Spec => []SoftwareStored
<1>1. IInv => SoftwareStored
  BY DEF IInv
<1>. QED BY <1>1, InvariantHolds, PTL

(* The launch check of replace_children is not stale when it commits.      *)
THEOREM CommitsAlwaysRespectLaunches == Spec => CommitsRespectLaunches
<1>1. IInv /\ [Next]_vars =>
        [\A d \in Devices :
           software'[d] # software[d] => ~Clash(version', software'[d])]_vars
  BY StepInv
<1>. QED BY <1>1, InvariantHolds, PTL DEF Spec, CommitsRespectLaunches

=============================================================================
