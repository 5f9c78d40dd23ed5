SPECIFICATION Spec
CONSTANTS
  r1 = r1
  r2 = r2
  r3 = r3
  Requests = {r1, r2}
  Categories = {"smartphone", "camera"}
  Contents <- MCContents
  NoLoad = NoLoad
  NoCache = NoCache
  Ttl = 3
  Limit = 2
PROPERTY HitsAreCurrent
