----------------------- MODULE MCGripperActionServer -----------------------
(* A gripper command, which may be out of range, and a homing overlap.     *)
EXTENDS GripperActionServer, TLC

CONSTANTS g1, g2

SomeTasks == (g1 :> "command") @@ (g2 :> "homing")
SomeTargets == (g1 :> {-1, 0, 1}) @@ (g2 :> {0})
=============================================================================
