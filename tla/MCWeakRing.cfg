\* A new ring, and one whose counters are about to wrap around.
SPECIFICATION Spec
CONSTANTS
  Producers = {p1, p2, p3}
  Consumer = c1
  Capacity = 2
  MaxPushes = 5
  Word = 16
  Starts = {0, 14}
SYMMETRY Symmetry
INVARIANTS TypeOK HappensBefore StorersSeeLast
PROPERTIES RefusedByOlder ImplementsLog
