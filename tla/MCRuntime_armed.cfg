SPECIFICATION Spec
CONSTANTS
  Threads = {t1}
  Capacity = 2
  MaxRuntimes = 2
  MaxDecisions = 2
  BadRequests = {"badResource", "badIdentity", "badValue"}
  Nobody = Nobody
INVARIANTS ArmedBeforeAnswering
CHECK_DEADLOCK FALSE
