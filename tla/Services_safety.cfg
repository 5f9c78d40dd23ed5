SPECIFICATION Spec
SYMMETRY Symmetries
CONSTANTS
  u1 = u1
  u2 = u2
  p1 = p1
  p2 = p2
  Users = {u1, u2}
  Emails = {"a", "b", "blank"}
  UserNames = {"Ann", "Bea"}
  Passwords = {"right", "wrong"}
  ValidEmails = {"a", "b"}
  ValidNames = {"Ann", "Bea"}
  ValidPasswords = {"right", "wrong"}
  Clients = {p1, p2}
  Calls <- MCCalls
  NoUser = NoUser
  NoCall = NoCall
  Absent = Absent
  Never = Never
  Lifetime = 1
  Leeway = 0
  TimeLimit = 1
  LastTick = 4
  MaxTokens = 2
  b1 = b1
  b2 = b2
  k1 = k1
  k2 = k2
  l1 = l1
  BrandIds = {b1, b2}
  CameraIds = {k1, k2}
  BrandSlugs = {"canon", "sony"}
  BrandLabels = {"Canon", "CANON", "Sony"}
  CameraSlugs = {"r5", "r6"}
  CameraWriters = {p1, p2}
  CameraReaders = {l1}
  CameraRequests <- MCCameraRequests
  BrandInputs <- MCBrandInputs
  NoRow = NoRow
  NoWrite = NoWrite
  CameraPageSize = 1
  m1 = m1
  m2 = m2
  m3 = m3
  Reports = {m1, m2, m3}
  Paths = {1, 2}
  NoPath = NoPath
  NoEvent = NoEvent
  NoDay = NoDay
  LastDay = 2
  t1 = t1
  t2 = t2
  t3 = t3
  TechnologyIds = {t1, t2, t3}
  TechnologyInputs <- MCTechnologyInputs
  Trimmed <- MCTrimmed
  NoTechnology = NoTechnology
  Width = 16
  MaxPage = 3
  MaxPageSize = 4
  Reads <- MCReads
  Digits = {"1", "3", "4", "9"}
  Searches = {"fold"}
  Controls = {"tab"}
  TooLong = {"long"}
  Slugs = {"acme"}
  DeviceListSize = 2
  CameraListSize = 3
  MaxIdentifier = 3
  StoredSlugs <- MCStoredSlugs
  RequiredKeys = {"weight"}
  SubDisplayGroups <- MCGroups
  SubDisplayNames <- MCDisplayNames
  Questions <- MCQuestions
  NoQuestion = NoQuestion
INVARIANTS
  AccountsTypeOK
  EmailsIdentify
  AuthorityFades
  CamerasTypeOK
  CamerasKeepTheirBrand
  SlugsLeadToOneRow
  AcknowledgedAsStored
  PageFitsTotal
  MissesTypeOK
  SummariesCountReports
  TechnologiesLookDifferent
  ReadingIgnoresOrder
  AcceptedPagesTile
  IdentifiersLeadBack
  SynonymsBecomeWords
  SubDisplaysInTurn
PROPERTIES
  PatchesMerge
  OnlyCommitsPublish
CHECK_DEADLOCK FALSE
