SPECIFICATION FairSpec
CONSTANTS
  Requests = {r1, r2}
  Paths = {p1, p2}
  Blobs = {a}
  NoBlob = NoBlob
  NoRequest = NoRequest
  Kinds = {"put", "publish", "prune", "rewrite", "move"}
  Failures = {"stage", "record", "snapshot", "finalize", "commit", "discard"}
  MaxCrashes = 1
  Cleaning = FALSE
PROPERTIES AppliedAtomically GateFreed Recovered RequestsFinish OrphansReclaimed
CHECK_DEADLOCK FALSE
