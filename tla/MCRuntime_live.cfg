SPECIFICATION FairSpec
CONSTANTS
  Threads = {t1, t2}
  Capacity = 2
  MaxRuntimes = 2
  MaxDecisions = 3
  BadRequests = {}
  Nobody = Nobody
PROPERTIES CallsReturn EvidenceDrains TrailInOrder
CHECK_DEADLOCK FALSE
