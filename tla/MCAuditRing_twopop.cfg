\* Two threads inside pop at once, which nothing in the exported interface prevents.
SPECIFICATION Spec
CONSTANTS
  Producers = {p1}
  Consumers = {c1, c2}
  Records = {r1}
  Blank = Blank
  Capacity = 2
  MaxPushes = 4
INVARIANTS NoDataRace
