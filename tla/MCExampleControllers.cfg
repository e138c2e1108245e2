SPECIFICATION FairSpec
CONSTANTS
  Joints = {j1}
  Longest = 2
  Elbow = TRUE
  MaxActivations = 3
INVARIANTS TypeOK OwnTorque LoansAreLive
PROPERTIES FollowsItsOwn MotionEnds
