SPECIFICATION FairSpec
CONSTANTS
  Params = {stiffness, load}
  Values = {soft, hard}
  Default = soft
INVARIANTS TypeOK NoCallOnDeadRobot AnswersHold
PROPERTIES ConstructorReturns DestructorReturns
CHECK_DEADLOCK FALSE
