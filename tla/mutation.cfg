SPECIFICATION Spec
CONSTANTS
  Requests = {r1, r2}
  Paths = {p1, p2}
  Blobs = {a, b}
  NoBlob = NoBlob
  NoRequest = NoRequest
  Kinds = {"publish", "delete", "prune", "rewrite", "move"}
  Failures = {"plan", "stage", "record", "snapshot", "finalize", "commit", "discard"}
  MaxCrashes = 1
  Cleaning = TRUE
SYMMETRY Symmetry
INVARIANTS TypeOK   OrphanStaysOrphan HoldAccounting  NoLostGarbage
CHECK_DEADLOCK FALSE
