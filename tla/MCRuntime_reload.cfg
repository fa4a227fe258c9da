SPECIFICATION Spec
CONSTANTS
  Threads = {t1, t2}
  Capacity = 2
  MaxRuntimes = 2
  MaxDecisions = 2
  BadRequests = {"badResource", "badIdentity", "badValue"}
  Nobody = Nobody
INVARIANTS NoSilentLoss
CHECK_DEADLOCK FALSE
