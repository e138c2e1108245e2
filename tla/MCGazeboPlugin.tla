--------------------------- MODULE MCGazeboPlugin ---------------------------
(* A robot with the joints of MCGazeboControl and one that the simulation  *)
(* has not; the ways in which its description and the simulation's model   *)
(* may be wrong, one at a time.                                            *)
EXTENDS MCGazeboControl, GazeboPlugin

CONSTANTS absent, plate

Joint(command, state, follows) ==
  [command |-> command, state |-> state, follows |-> follows, numeric |-> TRUE]

States == <<"temperature", "position", "velocity", "effort">>

RobotJoints ==
  [j \in {arm, finger, passive, mimic, absent} |->
     CASE j = arm -> Joint(Methods, States, NoJoint)
       [] j = finger -> Joint({"position", "velocity"}, States, NoJoint)
       [] j = passive -> Joint({}, States, NoJoint)
       [] j = mimic -> Joint({}, <<"position">>, finger)
       [] OTHER -> Joint({"effort"}, States, NoJoint)]

(* An arm of two joints with a hand, whose fingers move and whose tool     *)
(* centre point does not and is as deep; listed last, it is the tip.       *)
Links(hand) ==
  [children |-> [l \in {"base", "link1", "link2", "hand", "fingers", "tcp"} |->
                   CASE l = "base" -> <<"link1">> [] l = "link1" -> <<"link2">>
                     [] l = "link2" -> <<"hand">> [] l = "hand" -> hand
                     [] OTHER -> << >>],
   movable |-> {"link1", "link2", "fingers"}]

Robot ==
  [fault |-> "none", joints |-> RobotJoints, sensors |-> "known",
   links |-> Links(<<"fingers", "tcp">>)]

RobotDescriptions ==
  {Robot, [Robot EXCEPT !.links = Links(<<"tcp", "fingers">>)], [Robot EXCEPT !.sensors = "unknown"],
   [Robot EXCEPT !.joints = << >>],
   [Robot EXCEPT !.joints[mimic].follows = absent],
   [Robot EXCEPT !.joints[mimic].follows = plate],
   [Robot EXCEPT !.joints[finger].state = <<"temperature">>],
   [Robot EXCEPT !.joints[arm].numeric = FALSE]}
  \cup {[Robot EXCEPT !.fault = f] : f \in {"model", "chain", "resources"}}

World ==
  [valid |-> TRUE, parameters |-> TRUE,
   joints |-> [j \in {arm, finger, passive, mimic, plate} |->
                 IF j = plate THEN "fixed" ELSE "revolute"]]

RobotWorlds ==
  {World, [World EXCEPT !.valid = FALSE], [World EXCEPT !.parameters = FALSE],
   [World EXCEPT !.joints = [j \in {plate} |-> "fixed"]]}
=============================================================================
