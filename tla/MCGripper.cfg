SPECIFICATION FairSpec
CONSTANTS
  g1 = g1
  g2 = g2
  Goals = {g1, g2}
  TaskOf <- SomeTasks
  Targets <- SomeTargets
  MaxWidth = 1
  Epsilon = 0
INVARIANTS TypeOK HonestResult NoBadTransition
PROPERTIES ImplementsService GoalsEnd ThreadsEnd
CHECK_DEADLOCK FALSE
