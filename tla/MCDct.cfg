\* One decision after another: every small policy, resource and claim list.
SPECIFICATION Spec
CONSTANTS
  Width = 2
  MaxData = 3
  MaxClaims = 3
  Byte = {0, 1}
  Policies <- SmallPolicies
  Resources <- SmallResources
  PairLists <- SmallPairLists
  Values <- SmallValues
INVARIANTS TypeOK PathsAgree ClaimsKept DecisionFollowsPolicy AllowProvesClaim
