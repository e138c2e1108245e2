SPECIFICATION Spec
CONSTANTS
  Switches <- ExclusiveSwitches
  Faults = {}
INVARIANTS WriteAfterSwitch
CHECK_DEADLOCK FALSE
