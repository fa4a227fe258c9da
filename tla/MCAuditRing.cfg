\* Two slots and four pushes: every slot is used by two generations, the ring
\* fills, and one producer can stall while the other goes a whole lap further.
SPECIFICATION FairSpec
CONSTANTS
  Producers = {p1, p2}
  Consumers = {c1}
  Records = {r1, r2}
  Blank = Blank
  Capacity = 2
  MaxPushes = 4
INVARIANTS TypeOK NoDataRace TakenInClaimOrder ClaimHasOwner IInv
PROPERTIES RejectOnlyWhenFull SeqNeverDecreases ImplementsLog
PROPERTIES PushReturns AcceptedIsDelivered
