SPECIFICATION FairPluginSpec
CHECK_DEADLOCK FALSE
CONSTANTS
  arm = arm
  finger = finger
  passive = passive
  mimic = mimic
  absent = absent
  plate = plate
  NoJoint = NoJoint
  None = None
  Joints = {arm, finger, passive, mimic}
  EffortJoints = {arm}
  Actuated = {arm, finger}
  Mimics = {mimic}
  MimicKind = "position"
  Switches <- ExclusiveSwitches
  Period = 2
  Axes = 2
  Worlds <- RobotWorlds
  Descriptions <- RobotDescriptions
INVARIANTS PluginTypeOK DrivenAsHeld OneCommand
PROPERTIES ConfigureReturns DestructorReturns HeldIsDriven
