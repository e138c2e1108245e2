SPECIFICATION Spec
CONSTANTS
  arm = arm
  finger = finger
  passive = passive
  mimic = mimic
  Joints = {arm, finger, passive, mimic}
  EffortJoints = {arm}
  Actuated = {arm, finger}
  Mimics = {mimic}
  MimicKind = "position"
  Switches <- MixedSwitches
  Period = 2
PROPERTIES StopClearsItsOwn
