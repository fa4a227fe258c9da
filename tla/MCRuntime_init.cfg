SPECIFICATION Spec
CONSTANTS
  Threads = {t1, t2}
  Capacity = 2
  MaxRuntimes = 2
  MaxDecisions = 1
  BadRequests = {"badResource", "badIdentity", "badValue"}
  Nobody = Nobody
INVARIANTS InitOnce
CHECK_DEADLOCK FALSE
