SPECIFICATION Spec
CONSTANTS
  Threads = {t1, t2}
  Capacity = 2
  MaxRuntimes = 2
  MaxDecisions = 4
  BadRequests = {"badResource", "badIdentity", "badValue"}
  Nobody = Nobody
SYMMETRY Symmetry
VIEW WithoutPreceding
INVARIANTS TypeOK EvidenceExact
PROPERTIES NoGapInService FailedInitPublishesNothing LastErrorIsRecent
CHECK_DEADLOCK FALSE
