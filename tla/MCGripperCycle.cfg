SPECIFICATION FairSpec
CONSTANTS
  Goals = {g1, g2}
  Immediate = {}
  MaxActivations = 2
INVARIANTS TypeOK OneCommandPerActivation
PROPERTIES OnlyFailedMoveStops OpensAgain
CHECK_DEADLOCK FALSE
