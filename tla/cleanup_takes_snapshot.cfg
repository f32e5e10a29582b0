SPECIFICATION Spec
CONSTANTS
  Requests = {r1, r2}
  Paths = {p1, p2}
  Blobs = {a, b}
  NoBlob = NoBlob
  NoRequest = NoRequest
  Kinds = {"delete"}
  Failures = {"commit"}
  MaxCrashes = 0
  Cleaning = TRUE
INVARIANT RowsResolve
CHECK_DEADLOCK FALSE
