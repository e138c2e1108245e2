SPECIFICATION Spec
CONSTANTS
  Switches <- ExclusiveSwitches
  Faults <- ExclusiveFaults
INVARIANTS OwnKind
PROPERTIES ImplementsSession
CHECK_DEADLOCK FALSE
