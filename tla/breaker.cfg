SPECIFICATION FairSpec
CONSTANTS
  Requests = {r1, r2, r3}
  Threads = {t1, t2, t3}
  Nobody = Nobody
  MaxCalls = 5
INVARIANTS TypeOK Watched SlotHasOwner OneTry
PROPERTIES ThreadsOnlyReblock Recovers ThreadsEnd
CHECK_DEADLOCK FALSE
