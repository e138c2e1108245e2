-------------------------- MODULE ExampleControllers --------------------------
(***************************************************************************)
(* Controllers that take turns on one arm: move-to-start and the joint     *)
(* impedance with inverse kinematics, which both hold the efforts, and a   *)
(* cartesian pose controller.                                              *)
(*                                                                         *)
(* The real-time thread switches between them and updates the active one.  *)
(* Beside it, the controller manager's service configures controllers, and *)
(* the executor takes the answers of the inverse kinematics.  A controller *)
(* of the other kind of interface follows from rest only: what the         *)
(* component makes of other switches is in FrankaHardware.                 *)
(*                                                                         *)
(* An answer of the inverse kinematics has no more positions than the      *)
(* seven that on_activate reserves room for, so that the vector it is      *)
(* assigned to stays where it is.                                          *)
(***************************************************************************)
EXTENDS SemanticComponent, MotionGenerator

CONSTANTS
  Elbow,          (* the cartesian controller commands the elbow as well    *)
  MaxActivations  (* bound: activations of the inverse kinematics           *)

ASSUME BoundsAssumption ==
  /\ Joints # {} /\ Longest \in Nat \ {0, 1} /\ Elbow \in BOOLEAN
  /\ MaxActivations \in Nat \ {0}

Controllers == {"move", "ik", "pose"}
Efforts == {"move", "ik"}

(* The semantic components: that of the cartesian controller, the two of   *)
(* the inverse kinematics.                                                 *)
Components == {"pose", "ikPose", "ikModel"}

(* joint_positions_desired_, in two parts.                                 *)
Parts == 1 .. 2

VARIABLES
  life,       (* of each controller                                         *)
  active,     (* the active controller                                      *)
  step,       (* of the real-time loop: "switch" or "update"                *)
  torque,     (* whose torque is in the effort buffer of the component      *)
  inherited,  (* efforts ran already when the active controller began       *)
  outcome,    (* of the last update                                         *)
  references, (* what each component refers to                              *)
  model,      (* the pointers of the robot model, once it is initialized    *)
  idled,      (* it outlived an activation in which it was not initialized  *)
  distances, ends, time,  (* of the motion generator                        *)
  activation, (* counts the activations of the inverse kinematics           *)
  asked,      (* the activations that still have requests under way         *)
  target,     (* joint_positions_desired_: whose answer each part is of     *)
  filled,     (* its size is not 0                                          *)
  adopting,   (* the answer that is being assigned to it, 0 when none is    *)
  copied      (* the parts of it that are assigned                          *)

loop == <<active, step, torque, inherited, outcome>>
loans == <<references, model, idled>>
motion == <<distances, ends, time>>
answers == <<target, filled, adopting, copied>>
vars == <<life, loop, loans, motion, activation, asked, answers>>

Init ==
  /\ life = [c \in Controllers |-> "unconfigured"]
  /\ active = "none" /\ step = "switch" /\ torque = "zero"
  /\ inherited = FALSE /\ outcome = "ok"
  /\ references = [k \in Components |-> << >>] /\ model = "unset" /\ idled = FALSE
  /\ distances = Still /\ ends \in Plans(Still)
  /\ time = 0
  /\ activation = 0 /\ asked = {}
  /\ target = [p \in Parts |-> 0] /\ filled = FALSE /\ adopting = 0 /\ copied = 0

-----------------------------------------------------------------------------
(***************************************************************************)
(* on_configure, in the controller manager's service, which does one thing *)
(* at a time.                                                              *)
(***************************************************************************)

Idle == \A c \in Controllers : life[c] # "configuring"

Becomes(c, l) ==
  /\ life' = [life EXCEPT ![c] = l]
  /\ UNCHANGED <<loop, motion, activation, answers>>

(* Gains that are missing or of the wrong number are a failure.            *)
ConfigureMove ==
  /\ life["move"] = "unconfigured" /\ Idle
  /\ Becomes("move", "inactive")
  /\ UNCHANGED <<loans, asked>>

(* With the new robot model the pointers of the old one go; the new client *)
(* does not get the answers to the old one's requests.                     *)
ConfigureIK ==
  /\ life["ik"] = "unconfigured" /\ Idle
  /\ Becomes("ik", "configuring")
  /\ references' = [references EXCEPT !["ikModel"] = << >>]
  /\ model' = "unset" /\ idled' = FALSE
  /\ asked' = {}

ConfigurePose ==
  /\ life["pose"] = "unconfigured" /\ Idle
  /\ Becomes("pose", "configuring")
  /\ UNCHANGED <<loans, asked>>

(* Services that do not come, and a collision behavior that the robot      *)
(* refuses, are an error to the inverse kinematics; the cartesian          *)
(* controllers look at whether the robot answered, not at what.            *)
Configured(c) ==
  /\ life[c] = "configuring"
  /\ \E l \in IF c = "ik" THEN {"inactive", "finalized"} ELSE {"inactive"} : Becomes(c, l)
  /\ UNCHANGED <<loans, asked>>

Cleanup(c) ==
  /\ life[c] = "inactive" /\ active # c /\ Idle
  /\ Becomes(c, "unconfigured")
  /\ UNCHANGED <<loans, asked>>

-----------------------------------------------------------------------------
(***************************************************************************)
(* A switch, performed by the real-time thread between read and update.    *)
(***************************************************************************)

Kind(c) == IF c \in Efforts THEN "effort" ELSE c

Allowed(c) ==
  /\ c # "none" => life[c] = "inactive"
  /\ "none" \notin {active, c} => Kind(active) = Kind(c)
  /\ c = "ik" => activation < MaxActivations
  /\ Idle

(* on_deactivate; then the loans end.                                      *)
Leave(k) ==
  Ended(IF (active = "pose" /\ k = "pose") \/ (active = "ik" /\ k = "ikPose")
        THEN Released(references[k]) ELSE references[k])

(* on_activate: the cartesian controllers assign their component, the      *)
(* inverse kinematics its own two, of one group each.                      *)
Enter(c, k) ==
  IF c = "pose" /\ k = "pose" THEN Assign(Leave(k), Groups(Elbow))
  ELSE IF c = "ik" /\ k \in {"ikPose", "ikModel"} THEN Assign(Leave(k), <<k>>)
  ELSE Leave(k)

(* Mutant: the component does not clear the efforts.                       *)
MutEffortsStart == torque

(* The component clears the efforts when they start, not when they go on.  *)
EffortsStart == "zero"

(* A new motion generator with every activation; the one that is left      *)
(* behind is forgotten here.                                               *)
Plan(c) ==
  /\ distances' \in IF c = "move" THEN [Joints -> Distances] ELSE {Still}
  /\ ends' \in Plans(distances')
  /\ time' = 0

SwitchTo(c) ==
  /\ step = "switch" /\ step' = "update" /\ Allowed(c)
  /\ active' = c
  /\ inherited' = (c \in Efforts /\ active \in Efforts)
  /\ torque' = IF c \in Efforts /\ ~inherited' THEN EffortsStart ELSE torque
  /\ references' = [k \in Components |-> Enter(c, k)]
  /\ idled' = (idled \/ (active = "ik" /\ model = "unset"))
  /\ activation' = IF c = "ik" THEN activation + 1 ELSE activation
  /\ Plan(c)
  /\ UNCHANGED <<life, outcome, model, asked, answers>>

NoSwitch ==
  /\ step = "switch" /\ step' = "update"
  /\ UNCHANGED <<life, active, torque, inherited, outcome, loans, motion, activation, asked, answers>>

-----------------------------------------------------------------------------
(***************************************************************************)
(* update of the active controller; then the component writes its buffers. *)
(***************************************************************************)
Updates(c) == step = "update" /\ active = c /\ step' = "switch" /\ UNCHANGED <<life, active, inherited>>

UpdateMove ==
  /\ Updates("move")
  /\ time' = IF time = Longest THEN Longest ELSE time + 1
  /\ torque' = IF Arrived(distances, ends, time) THEN "zero" ELSE "move"
  /\ outcome' = "ok"
  /\ UNCHANGED <<loans, distances, ends, activation, asked, answers>>

(* Mutant: no request once there is a target.                              *)
MutRequests == ~filled

(* A request in every update.                                              *)
Requests == TRUE

(* The request is sent first, then, with a target, a torque is computed    *)
(* with the model, which finds its pointers the first time through the     *)
(* first of its references.                                                *)
UpdateIK ==
  /\ Updates("ik")
  /\ asked' = IF Requests THEN asked \cup {activation} ELSE asked
  /\ IF filled
     THEN /\ model' = IF model # "unset" THEN model ELSE references["ikModel"][1]
          /\ torque' = IF \A p \in Parts : target[p] # 0 THEN "ik" ELSE "unset"
     ELSE UNCHANGED <<model, torque>>
  /\ outcome' = "ok"
  /\ UNCHANGED <<references, idled, motion, activation, answers>>

UpdatePose ==
  /\ Updates("pose")
  /\ outcome' = IF Accepts(Elbow, Groups(Elbow), references["pose"]) THEN "ok" ELSE "error"
  /\ UNCHANGED <<torque, loans, motion, activation, asked, answers>>

UpdateNone ==
  /\ Updates("none")
  /\ UNCHANGED <<torque, outcome, loans, motion, activation, asked, answers>>

-----------------------------------------------------------------------------
(***************************************************************************)
(* The answers of the inverse kinematics, in the order of the requests,    *)
(* one at a time.  How many requests of an activation are under way is     *)
(* left open.                                                              *)
(***************************************************************************)

Answered(a, last) ==
  /\ adopting = 0 /\ a \in asked /\ \A b \in asked : a <= b
  /\ asked' = IF last THEN asked \ {a} ELSE asked

(* No solution.                                                            *)
Fails(last) ==
  /\ \E a \in asked : Answered(a, last)
  /\ UNCHANGED <<life, loop, loans, motion, activation, answers>>

(* The vector is assigned element by element, in place.                    *)
Solves(last) ==
  /\ \E a \in asked : Answered(a, last) /\ adopting' = a
  /\ UNCHANGED <<life, loop, loans, motion, activation, target, filled, copied>>

Copy ==
  /\ adopting # 0 /\ copied < 2
  /\ target' = [target EXCEPT ![copied + 1] = adopting] /\ copied' = copied + 1
  /\ UNCHANGED <<life, loop, loans, motion, activation, asked, filled, adopting>>

(* Mutant: resized, then assigned.                                         *)
MutComplete == TRUE

(* An empty vector gets its size after its elements.                       *)
Complete == copied = 2

Grow ==
  /\ adopting # 0 /\ Complete /\ ~filled /\ filled' = TRUE
  /\ UNCHANGED <<life, loop, loans, motion, activation, asked, target, adopting, copied>>

Adopted ==
  /\ copied = 2 /\ filled /\ adopting' = 0 /\ copied' = 0
  /\ UNCHANGED <<life, loop, loans, motion, activation, asked, target, filled>>

-----------------------------------------------------------------------------
Manager ==
  \/ ConfigureMove \/ ConfigureIK \/ ConfigurePose
  \/ \E c \in Controllers : Configured(c) \/ Cleanup(c)

Switches == NoSwitch \/ \E c \in Controllers \cup {"none"} : SwitchTo(c)
Update == UpdateMove \/ UpdateIK \/ UpdatePose \/ UpdateNone
Assigns == Copy \/ Grow \/ Adopted

Next == Manager \/ Switches \/ Update \/ Assigns \/ \E last \in BOOLEAN : Fails(last) \/ Solves(last)

Spec == Init /\ [][Next]_vars

(* The loop and the executor's threads run; of what is asked again and     *)
(* again, the inverse kinematics solves some.                              *)
Fairness == WF_vars(Switches) /\ WF_vars(Update) /\ WF_vars(Assigns) /\ SF_vars(Solves(TRUE))

FairSpec == Spec /\ Fairness

-----------------------------------------------------------------------------
(* The states the variables range over.  That no torque is ever computed   *)
(* from a part of the target that is not yet assigned needs the order in   *)
(* which the answer's thread makes the vector grow.                        *)
TypeOK ==
  /\ life \in [Controllers -> {"unconfigured", "configuring", "inactive", "finalized"}]
  /\ active \in Controllers \cup {"none"} /\ step \in {"switch", "update"}
  /\ torque \in {"zero", "move", "ik"} /\ inherited \in BOOLEAN /\ outcome \in {"ok", "error"}
  /\ \A k \in Components : references[k] \in Seq(References)
  /\ model \in {"unset"} \cup References /\ idled \in BOOLEAN
  /\ distances \in [Joints -> Distances] /\ ends \in [Joints -> 0 .. Never]
  /\ time \in 0 .. Longest
  /\ activation \in 0 .. MaxActivations /\ asked \subseteq 1 .. activation
  /\ target \in [Parts -> 0 .. activation] /\ filled \in BOOLEAN
  /\ adopting \in 0 .. activation /\ copied \in 0 .. 2

(* The robot gets zeros or the torques of the controller that holds the    *)
(* efforts; only the inverse kinematics, which waits for its first answer, *)
(* lets torques of its predecessor go on, and only when it took over from  *)
(* it without a rest.                                                      *)
OwnTorque ==
  active \in Efforts /\ step = "switch" =>
    torque \in {"zero", active} \/ (active = "ik" /\ inherited)

(* The cartesian components refer to the loans of the present activation,  *)
(* each once, so that no command is refused; and the robot model has read  *)
(* its pointers through a loan that had ended in one case only, and always *)
(* in that: when the inverse kinematics was once active without an answer. *)
LoansAreLive ==
  /\ outcome = "ok"
  /\ active = "pose" => references["pose"] = [g \in DOMAIN Groups(Elbow) |-> "live"]
  /\ active = "ik" => references["ikPose"] = <<"live">>
  /\ model # "unset" => (model = "gone" <=> idled)

(* A motion that is neither left nor begun anew ends, also one with joints *)
(* at the threshold, which do not count as arrived and get no plan: unless *)
(* the memory of their times held one that never comes.                    *)
Stuck(j) == distances[j] = "threshold" /\ ends[j] = Never

MotionEnds ==
  (active = "move" /\ time > 0 /\ \A j \in Joints : ~Stuck(j))
    ~> Arrived(distances, ends, time) \/ active # "move" \/ time = 0

(* The inverse kinematics, which may begin with a target that an earlier   *)
(* activation left or asked for, comes to follow answers of its own.       *)
FollowsItsOwn ==
  active = "ik" ~> active # "ik" \/ \A p \in Parts : target[p] = activation
=============================================================================
