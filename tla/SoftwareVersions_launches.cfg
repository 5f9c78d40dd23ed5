SPECIFICATION Spec
CONSTANTS
  d1 = d1
  d2 = d2
  v1 = v1
  v2 = v2
  w1 = w1
  w2 = w2
  a1 = a1
  a2 = a2
  Devices = {d1}
  Versions = {v1, v2}
  Values = {"14", "15"}
  Lists <- MCLists
  Edits <- MCEdits
  Writers = {w1}
  Admins = {a1}
  NoDevice = NoDevice
  NoVersion = NoVersion
  NoTask = NoTask
  InitialVersions <- MCVersions
INVARIANT OneLaunchPerCategory
