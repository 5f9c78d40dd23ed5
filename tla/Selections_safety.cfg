SPECIFICATION Spec
CONSTANTS
  r1 = r1
  r2 = r2
  phone = phone
  rival = rival
  third = third
  camera = camera
  Requests = {r1, r2}
  Devices = {phone, rival, third, camera}
  Category <- MCCategory
  Versions <- MCVersions
  ReleaseDay <- MCReleaseDay
  Slugs = {1, 2, 3, 4}
  Asks <- MCAsks
  TicksPerDay = 1
  WindowDays = 2
  ItemsPerCategory = 2
  NoRow = NoRow
  NoAsk = NoAsk
  LastTick = 2
  MaxSelections = 3
INVARIANTS
  TypeOK CountsAreRecentSelections LastSelectedOnItsDate OnlyPublishedCounted
  RankedAndFilled BothCategoriesInTurn
SYMMETRY Symmetries
