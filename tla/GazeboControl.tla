---------------------------- MODULE GazeboControl ----------------------------
(***************************************************************************)
(* The arm in simulation: IgnitionSystem, the ros2_control component of    *)
(* the simulated joints, and the Gazebo plugin that drives it.             *)
(*                                                                         *)
(* Every iteration of the simulation calls PreUpdate, which writes the     *)
(* commands to the joints, lets the physics take them, and calls           *)
(* PostUpdate, which updates the controllers when their period has passed. *)
(* A switch requested by the executor's threads is performed there.  Time  *)
(* stands still while the simulation is paused.                            *)
(*                                                                         *)
(* A command is abstracted to where it comes from.  Here write always      *)
(* succeeds; when it cannot compute the gravity of the chain, it writes    *)
(* nothing, which is in GazeboPlugin.                                      *)
(***************************************************************************)
EXTENDS Integers

CONSTANTS
  Joints,       (* the joints of the description that the simulation has    *)
  EffortJoints, (* those with an effort command interface                   *)
  Actuated,     (* those with any command interface                         *)
  Mimics,       (* those that mimic another joint                           *)
  MimicKind,    (* the first state interface of the joint that is mimicked  *)
  Switches,     (* the controller switches that may be requested            *)
  Period        (* of the controllers, in steps of the simulation           *)

Methods == {"velocity", "position", "effort"}
Handles == Joints \X Methods

(* A switch: the handles controllers hold when it is requested, those that *)
(* it starts and those that it stops.                                      *)
Switch == [from: SUBSET Handles, start: SUBSET Handles, stop: SUBSET Handles]

NoSwitch == [from |-> {}, start |-> {}, stop |-> {}]

ASSUME JointsAssumption ==
  /\ EffortJoints \subseteq Actuated /\ Actuated \subseteq Joints /\ Mimics \subseteq Joints
  /\ MimicKind \in Methods
  /\ Switches \subseteq Switch
  /\ \A s \in Switches : s.stop \subseteq s.from /\ s.start \cap (s.from \ s.stop) = {}
  /\ Period \in Nat \ {0}

VARIABLES
  method,   (* joint_control_method: the bits that are set                  *)
  velocity, (* the JointVelocityCmd component of each joint                 *)
  force,    (* the JointForceCmd component of each joint                    *)
  held,     (* the command handles that controllers hold                    *)
  request,  (* the pending switch, NoSwitch when there is none              *)
  age,      (* the simulation time minus last_update_sim_time_ros_          *)
  phase     (* the plugin's next callback                                   *)

vars == <<method, velocity, force, held, request, age, phase>>

(* Exactly the joints with an effort interface start with a bit.           *)
Init ==
  /\ method = [j \in Joints |-> IF j \in EffortJoints THEN {"effort"} ELSE {}]
  /\ velocity = [j \in Joints |-> "absent"] /\ force = [j \in Joints |-> "absent"]
  /\ held = {} /\ request = NoSwitch /\ age = 0 /\ phase = "pre"

-----------------------------------------------------------------------------
(***************************************************************************)
(* PreUpdate: IgnitionSystem::write.                                       *)
(***************************************************************************)

(* Mutant: the efforts take precedence.                                    *)
MutBranch(j) ==
  IF "effort" \in method[j] THEN "effort"
  ELSE IF "velocity" \in method[j] THEN "velocity"
  ELSE IF "position" \in method[j] THEN "position"
  ELSE IF j \in Actuated THEN "hold" ELSE "none"

(* The branch of write for a joint; an actuated joint that nothing         *)
(* controls is held by a zero velocity.                                    *)
Branch(j) ==
  IF "velocity" \in method[j] THEN "velocity"
  ELSE IF "position" \in method[j] THEN "position"
  ELSE IF "effort" \in method[j] THEN "effort"
  ELSE IF j \in Actuated THEN "hold" ELSE "none"

(* A velocity or an effort that finds no component creates it with zero    *)
(* and is written from the next iteration on.                              *)
Put(component, command) == IF component = "absent" THEN "zero" ELSE command

(* Mutant: an effort is written to the velocity component.                 *)
MutVelocityOf(j) ==
  IF Branch(j) \in {"velocity", "effort"} THEN Put(velocity[j], Branch(j))
  ELSE IF Branch(j) \in {"position", "hold"} THEN Branch(j)
  ELSE velocity[j]

VelocityOf(j) ==
  IF Branch(j) = "velocity" THEN Put(velocity[j], "velocity")
  ELSE IF Branch(j) \in {"position", "hold"} THEN Branch(j)
  ELSE velocity[j]

ForceOf(j) == IF Branch(j) = "effort" THEN Put(force[j], "effort") ELSE force[j]

(* The mimic joints come last and follow one state of the mimicked joint;  *)
(* the position to follow is applied as a force, as is the effort.         *)
MimicVelocity(j) ==
  IF MimicKind = "velocity" THEN Put(VelocityOf(j), "mimic") ELSE VelocityOf(j)

MimicForce(j) == IF MimicKind = "velocity" THEN ForceOf(j) ELSE Put(ForceOf(j), "mimic")

PreUpdate ==
  /\ phase = "pre"
  /\ velocity' = [j \in Joints |-> IF j \in Mimics THEN MimicVelocity(j) ELSE VelocityOf(j)]
  /\ force' = [j \in Joints |-> IF j \in Mimics THEN MimicForce(j) ELSE ForceOf(j)]
  /\ phase' = "physics"
  /\ UNCHANGED <<method, held, request, age>>

(* The physics takes the commands and leaves zeros, unless it is paused.   *)
Taken(component) == IF component = "absent" THEN "absent" ELSE "zero"

Step ==
  /\ phase = "physics"
  /\ velocity' = [j \in Joints |-> Taken(velocity[j])]
  /\ force' = [j \in Joints |-> Taken(force[j])]
  /\ age' = age + 1 /\ phase' = "post"
  /\ UNCHANGED <<method, held, request>>

Paused ==
  /\ phase = "physics" /\ phase' = "post"
  /\ UNCHANGED <<method, velocity, force, held, request, age>>

-----------------------------------------------------------------------------
(***************************************************************************)
(* PostUpdate: the controllers.                                            *)
(***************************************************************************)

(* The mask of perform_command_mode_switch for a stopped method: the       *)
(* bitwise and of the bits of the other two, which is no bit.              *)
Kept(m) == {k \in Methods : \A other \in Methods \ {m} : k = other}

(* Mutant: the starts are done before the stops.                           *)
MutSwitched(j, s) ==
  {k \in method[j] \cup {m \in Methods : <<j, m>> \in s.start} :
     \A m \in Methods : <<j, m>> \in s.stop => k \in Kept(m)}

(* The handles of a mimic joint are exported under another name and never  *)
(* match.                                                                  *)
Switched(j, s) ==
  IF j \in Mimics THEN method[j]
  ELSE {k \in method[j] : \A m \in Methods : <<j, m>> \in s.stop => k \in Kept(m)}
       \cup {m \in Methods : <<j, m>> \in s.start}

(* Mutant: at every iteration.                                             *)
MutDueAlways == TRUE

Due == age >= Period

Granted(s) == (s.from \ s.stop) \cup s.start

(* read, update with the pending switch; or nothing until the period ends. *)
PostUpdate ==
  /\ phase = "post" /\ phase' = "pre"
  /\ IF Due
     THEN /\ age' = 0
          /\ method' = [j \in Joints |-> Switched(j, request)]
          /\ held' = IF request = NoSwitch THEN held ELSE Granted(request)
          /\ request' = NoSwitch
     ELSE UNCHANGED <<age, method, held, request>>
  /\ UNCHANGED <<velocity, force>>

(* The controller manager's service, in the executor's threads.            *)
Request(s) ==
  /\ request = NoSwitch /\ s.from = held
  /\ request' = s
  /\ UNCHANGED <<method, velocity, force, held, age, phase>>

-----------------------------------------------------------------------------
Simulation == PreUpdate \/ Step \/ Paused \/ PostUpdate

Next == Simulation \/ \E s \in Switches : Request(s)

Spec == Init /\ [][Next]_vars

-----------------------------------------------------------------------------
(* The states the variables range over.                                    *)
TypeOK ==
  /\ method \in [Joints -> SUBSET Methods]
  /\ velocity \in [Joints -> {"absent", "zero", "velocity", "position", "hold", "mimic"}]
  /\ force \in [Joints -> {"absent", "zero", "effort", "mimic"}]
  /\ held \subseteq Handles /\ request \in Switches \cup {NoSwitch}
  /\ age \in 0 .. Period /\ phase \in {"pre", "physics", "post"}

(* Controllers hold at most one method of each joint.                      *)
OneMethod(handles) ==
  \A j \in Joints, m, n \in Methods : <<j, m>> \in handles /\ <<j, n>> \in handles => m = n

Exclusive == \A s \in Switches : OneMethod(s.from) /\ OneMethod(Granted(s))

(* The controllers are updated in the iteration in which their period has  *)
(* passed, not in a later one.                                             *)
RateKept == phase = "pre" => age < Period

(* A joint of which a controller holds one method gets that method's       *)
(* commands, in spite of the effort bit it started with, or none in the    *)
(* iteration that creates the component.                                   *)
Command(j) ==
  (IF velocity[j] \in {"absent", "zero"} THEN {} ELSE {velocity[j]})
  \cup (IF force[j] \in {"absent", "zero"} THEN {} ELSE {force[j]})

DrivenAsHeld ==
  phase = "physics" =>
    \A j \in Joints \ Mimics, m \in Methods :
      <<j, m>> \in held => Command(j) \subseteq {m}

(* No joint is driven by a velocity and by a force at once, though neither *)
(* component is ever removed once it exists.                               *)
OneCommand ==
  \A j \in Joints \ Mimics :
    velocity[j] \in {"absent", "zero"} \/ force[j] \in {"absent", "zero"}

(* "Clear joint control method bits corresponding to stop interfaces": the *)
(* others stay.                                                            *)
StopClearsItsOwn ==
  [][\A j \in Joints, m \in Methods :
       m \in method[j] /\ <<j, m>> \notin request.stop => m \in method'[j]]_vars
=============================================================================
