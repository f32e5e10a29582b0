SPECIFICATION FairSpec
CONSTANTS
  Requests = {r1, r2}
  Paths = {p1, p2}
  Blobs = {a, b}
  NoBlob = NoBlob
  NoRequest = NoRequest
  Kinds = {"rewrite"}
  Failures = {"plan"}
  MaxCrashes = 0
  Cleaning = FALSE
PROPERTY OrphansReclaimed
CHECK_DEADLOCK FALSE
