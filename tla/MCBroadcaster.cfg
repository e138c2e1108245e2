SPECIFICATION FairSpec
CONSTANTS
  Links <- MCLinks
  Children <- MCChildren
  Root = "link0"
  Tcp = "hand_tcp"
  MaxCycle = 6
INVARIANTS TypeOK NothingLost
PROPERTY EveryMessageOut
