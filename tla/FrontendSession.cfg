SPECIFICATION FairSpec
CONSTANTS
  Tabs = {tab1, tab2}
  Users = {u1, u2}
  Tokens = {k1, k2}
  MaxFaults = 1
  MaxLoads = 1
  Null = Null
INVARIANTS PairKept OwnSession
PROPERTIES GoodSessionKept DeadSessionEnds
CHECK_DEADLOCK FALSE
