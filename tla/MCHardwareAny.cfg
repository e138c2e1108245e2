SPECIFICATION Spec
CONSTANTS
  Switches <- AnySwitches
  Faults <- AnyFault
INVARIANTS TypeOK FlagsFollowControl ControlIsRunning NothingStale OnlyClaimedIsSent
PROPERTIES InactiveIsSilent
CHECK_DEADLOCK FALSE
