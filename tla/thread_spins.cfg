SPECIFICATION Spec
CONSTANTS
  Requests = {r1, r2}
  Threads = {t1}
  Nobody = Nobody
  MaxCalls = 3
INVARIANT RoundToWaitFor
CHECK_DEADLOCK FALSE
