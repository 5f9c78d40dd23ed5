SPECIFICATION LivenessSpec
CONSTANTS
  d1 = d1
  d2 = d2
  d3 = d3
  acme = acme
  bolt = bolt
  r1 = r1
  r2 = r2
  Devices = {d1, d2, d3}
  Brands = {acme, bolt}
  BrandNames = {"Acme", "Bolt", "BOLT"}
  Keys = {1, 2, 3}
  Names <- MCNames
  RouteKey <- MCRouteKey
  Payloads <- SwapPayloads
  NoDevice = NoDevice
  NoBrand = NoBrand
  NoTx = NoTx
  NoOp = NoOp
  Requests = {r1, r2}
  InitialDevices <- TwoStored
  InitialBrands <- BothBrands
  v1 = v1
  v2 = v2
  Versions = {v1, v2}
  Values = {"14", "15"}
  Lists <- OneList
  Edits <- FewEdits
  Writers = {r1, r2}
  Admins = {a1}
  NoVersion = NoVersion
  NoTask = NoTask
  InitialVersions <- MCVersions
PROPERTY EveryWriteEnds
