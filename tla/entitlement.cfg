SPECIFICATION FairSpec
CONSTANTS
  Keys = {k1}
  Calls = {c1, c2}
  Words <- Plans
  Module = "carwash"
  TTL = 1
  Grace = 1
  Timeout = 1
  Horizon = 4
  Unknown = Unknown
  Unreachable = Unreachable
  Nil = Nil
INVARIANTS
  GateFollowsPlatform
PROPERTIES
  OutageTolerated
  EveryRequestDecided
  DegradedEnds
