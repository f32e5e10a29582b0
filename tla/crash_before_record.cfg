SPECIFICATION Spec
CONSTANTS
  Requests = {r1, r2}
  Paths = {p1, p2}
  Blobs = {a, b}
  NoBlob = NoBlob
  NoRequest = NoRequest
  Kinds = {"delete"}
  Failures = {}
  MaxCrashes = 1
  Cleaning = FALSE
INVARIANT RowsResolve
CHECK_DEADLOCK FALSE
