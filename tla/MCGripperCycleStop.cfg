SPECIFICATION Spec
CONSTANTS
  Goals = {g1, g2}
  Immediate = {}
  MaxActivations = 1
PROPERTIES StopEndsInactive
CHECK_DEADLOCK FALSE
