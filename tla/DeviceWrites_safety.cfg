SPECIFICATION Spec
CONSTANTS
  d1 = d1
  d2 = d2
  d3 = d3
  acme = acme
  bolt = bolt
  r1 = r1
  r2 = r2
  Devices = {d1, d2, d3}
  Brands = {acme, bolt}
  BrandNames = {"Acme", "Bolt", "BOLT"}
  Keys = {1, 2, 3}
  Names <- MCNames
  RouteKey <- MCRouteKey
  Payloads <- MCPayloads
  NoDevice = NoDevice
  NoBrand = NoBrand
  NoTx = NoTx
  NoOp = NoOp
  Requests = {r1, r2}
  InitialDevices <- EmptyCatalogue
  InitialBrands <- MCInitialBrands
SYMMETRY Symmetries
INVARIANTS TypeOK RegistryAgrees BrandsStored DeadlocksNeedUpdate
PROPERTY ImplementsCatalog
