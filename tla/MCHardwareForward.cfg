SPECIFICATION FairSpec
CONSTANTS
  Switches <- ForwardSwitches
  Faults <- ForwardFaults
INVARIANTS WriteAfterSwitch ElbowAsHeld
PROPERTIES HeldIsCommanded
