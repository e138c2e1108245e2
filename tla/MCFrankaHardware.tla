-------------------------- MODULE MCFrankaHardware --------------------------
(* Switches for model-checking FrankaHardware.                             *)
EXTENDS FrankaHardware

Turn(a, b) ==
  [from |-> a, start |-> b \ a, stop |-> a \ b, oddStart |-> {}, oddStop |-> {}]

Turns(Configurations) ==
  {Turn(a, b) : <<a, b>> \in {p \in Configurations \X Configurations : p[1] # p[2]}}

(* What the example controllers hold.                                      *)
Single == {{m} : m \in Modes} \cup {{m, "elbow"} : m \in CartesianModes}

(* From one controller to another in one request as well, and a controller *)
(* that is stopped and started again.                                      *)
Restart(a) == [from |-> a, start |-> a, stop |-> a, oddStart |-> {}, oddStop |-> {}]

ExclusiveSwitches == Turns(Single \cup {{}}) \cup {Restart(a) : a \in Single}

(* Of these, and of an elbow alone, what goes to later blocks only and     *)
(* takes no elbow along.                                                   *)
ForwardSwitches ==
  {s \in ExclusiveSwitches \cup Turns(Single \cup {{}, {"elbow"}}) :
     GoesForward(s) /\ ElbowFollows(s)}

(* Several modes at once, an elbow alone, and odd numbers of handles.      *)
Mixed ==
  LET ways == { <<{}, {"effort"}>>, <<{"effort"}, {"effort", "position"}>>, <<{}, {"elbow"}>>,
                <<{}, {"cartPose", "elbow"}>>, <<{"elbow"}, {"cartVel", "elbow"}>> }
  IN  UNION {{Turn(w[1], w[2]), Turn(w[2], w[1])} : w \in ways}
      \cup {Turn({"cartVel", "elbow"}, {"cartPose", "elbow"}), Restart({"effort", "position"})}

OddSwitches ==
  { [from |-> {}, start |-> {"effort"}, stop |-> {}, oddStart |-> {"position"}, oddStop |-> {}],
    [from |-> {}, start |-> {"cartPose"}, stop |-> {}, oddStart |-> {"elbow"}, oddStop |-> {}],
    [from |-> {"effort"}, start |-> {"velocity"}, stop |-> {}, oddStart |-> {}, oddStop |-> {"effort"}] }

AnySwitches == Mixed \cup OddSwitches

AnyFault == FaultKinds
ExclusiveFaults == {"start_fails", "reflex", "nonfinite", "hot_deactivate", "caught"}
ForwardFaults == {"start_fails", "caught"}
=============================================================================
