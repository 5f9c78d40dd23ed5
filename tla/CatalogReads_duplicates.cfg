SPECIFICATION Spec
CONSTANTS
  d1 = d1
  d2 = d2
  acme = acme
  bolt = bolt
  r1 = r1
  g1 = g1
  Devices = {d1, d2}
  Brands = {acme, bolt}
  BrandNames = {"Acme"}
  Keys = {1, 2, 3}
  Names <- MCNames
  RouteKey <- MCRouteKey
  Payloads <- MCPayloads
  NoDevice = NoDevice
  NoBrand = NoBrand
  NoOp = NoOp
  Requests = {r1}
  InitialDevices <- MCInitialDevices
  Readers = {g1}
  Questions <- MCQuestions
  PageSize = 1
  HomeSize = 2
  NoSnapshot = NoSnapshot
  NoQuestion = NoQuestion
  NoReply = NoReply
INVARIANT DuplicatesAre400
CONSTRAINT FewOverlappingWrites
