--------------------------- MODULE FrankaHardware ---------------------------
(***************************************************************************)
(* The ros2_control hardware component of the arm, AgimusFrankaHardware-   *)
(* Interface, together with the Robot object it owns.                      *)
(*                                                                         *)
(* Two threads of the controller manager reach it.  The real-time thread   *)
(* repeats read, update, write; when a controller switch is pending its    *)
(* update first calls perform_command_mode_switch, whose five blocks are   *)
(* five steps here (SwitchMode), because each of them may throw and leave  *)
(* the blocks before it done.  The service thread calls                    *)
(* prepare_command_mode_switch, on_activate and on_deactivate between the  *)
(* calls of the real-time thread.                                          *)
(*                                                                         *)
(* A command interface stands for all the handles of its kind (the seven   *)
(* joint efforts, the sixteen pose elements...).  A command buffer is      *)
(* abstracted to two bits: whether it holds a NaN or an infinity           *)
(* (nonfinite) and whether it holds what was in it before its mode was     *)
(* last started (stale, a history variable).                               *)
(***************************************************************************)
EXTENDS Naturals

CONSTANTS
  Switches,  (* The controller switches that may be requested (Switch).    *)
  Faults     (* What may go wrong around the component (FaultKinds).       *)

JointModes == {"effort", "velocity", "position"}
CartesianModes == {"cartVel", "cartPose"}
Modes == JointModes \cup CartesianModes
Interfaces == Modes \cup {"elbow"}

NoControl == "none"

(***************************************************************************)
(* "start_fails"      libfranka refuses to start a control, twice          *)
(* "reflex"           libfranka throws while a control is being read       *)
(* "nonfinite"        a controller or the robot produces a NaN             *)
(* "peer_rejects"     another component of the same switch rejects it      *)
(*                    after this one has prepared                          *)
(* "hot_deactivate"   on_deactivate while controllers still hold handles   *)
(* "caught"           the controller manager survives what prepare and     *)
(*                    perform throw                                        *)
(***************************************************************************)
FaultKinds ==
  {"start_fails", "reflex", "nonfinite", "peer_rejects", "hot_deactivate", "caught"}

(***************************************************************************)
(* A switch: what controllers hold when it is requested, the kinds whose   *)
(* handles are all started or all stopped, and the kinds of which only     *)
(* some handles are.  The resource manager lets a switch start only what   *)
(* is free and stop only what is held.                                     *)
(***************************************************************************)
Switch ==
  [from: SUBSET Interfaces, start: SUBSET Interfaces, stop: SUBSET Interfaces,
   oddStart: SUBSET Interfaces, oddStop: SUBSET Interfaces]

NoSwitch == [from |-> {}, start |-> {}, stop |-> {}, oddStart |-> {}, oddStop |-> {}]

Granted(s) == (s.from \ s.stop) \cup s.start

Legal(s) ==
  /\ s.start \cup s.stop \cup s.oddStart \cup s.oddStop # {}
  /\ s.stop \cup s.oddStop \subseteq s.from
  /\ (s.start \cup s.oddStart) \cap (s.from \ (s.stop \cup s.oddStop)) = {}
  /\ s.start \cap s.oddStart = {}
  /\ s.stop \cap s.oddStop = {}

ASSUME SwitchesLegal == Switches \subseteq Switch /\ \A s \in Switches : Legal(s)
ASSUME FaultsKnown == Faults \subseteq FaultKinds

VARIABLES
  (* AgimusFrankaHardwareInterface *)
  claimed,    (* the *_claimed_ flags that are set                          *)
  running,    (* the *_running_ flags that are set                          *)
  first,      (* the first_*_update_ flags that are set                     *)
  nonfinite,  (* the command buffers that hold a non-finite number          *)
  stale,      (* the command buffers not refilled since their mode started  *)
  (* Robot *)
  control,    (* the mode of active_control_, NoControl when it is null     *)
  active,     (* the *_interface_active_ flags that are set                 *)
  sent,       (* what the last write handed to active_control_              *)
  (* the controller manager *)
  lifecycle,  (* of the component: "inactive" or "active"                   *)
  phase,      (* the next call of the real-time thread                      *)
  request,    (* the prepared switch, NoSwitch when there is none           *)
  loaned,     (* the command interfaces active controllers hold             *)
  switched,   (* how the last perform_command_mode_switch ended             *)
  failure     (* why the real-time thread stopped serving the component     *)

buffers == <<nonfinite, stale>>
flags == <<claimed, running, first>>
robot == <<control, active>>
manager == <<lifecycle, request, loaned, switched, failure>>
vars == <<claimed, running, first, nonfinite, stale, control, active, sent,
          lifecycle, phase, request, loaned, switched, failure>>

(* Flags that are reset only by a robot state: elbow, position, pose.      *)
Refreshed == {"elbow", "position", "cartPose"}

(* Buffers that perform_command_mode_switch fills with zeros.              *)
Zeroed == {"effort", "velocity", "cartVel"}

Idle == [buffers |-> {}, as |-> NoControl]

Init ==
  /\ claimed = {} /\ running = {} /\ first = Refreshed
  /\ nonfinite = {} /\ stale = Interfaces
  /\ control = NoControl /\ active = {} /\ sent = Idle
  /\ lifecycle = "inactive" /\ phase = "read"
  /\ request = NoSwitch /\ loaned = {} /\ switched = "none" /\ failure = "none"

-----------------------------------------------------------------------------
(***************************************************************************)
(* The service thread.                                                     *)
(***************************************************************************)

(* The order of command_interfaces_info_, in which prepare goes through    *)
(* the kinds.  It throws at the first kind with an odd number of handles,  *)
(* before that kind's start list if the odd one is its stop list.          *)
Rank == [effort |-> 1, velocity |-> 2, position |-> 3, elbow |-> 4, cartVel |-> 5, cartPose |-> 6]

Reached(s) == {i \in Interfaces : \A j \in s.oddStart \cup s.oddStop : Rank[i] <= Rank[j]}

Claims(s) ==
  (claimed \ (s.stop \cap Reached(s))) \cup ((s.start \cap Reached(s)) \ s.oddStop)

Odd(s) == s.oddStart \cup s.oddStop # {}

Halt(why) == phase' = "halted" /\ failure' = why

(* prepare_command_mode_switch.  The claims stay as they are when it       *)
(* throws, and when another component rejects the switch.                  *)
Prepare(s) ==
  /\ lifecycle = "active" /\ phase # "halted" /\ request = NoSwitch
  /\ s.from = loaned
  /\ claimed' = Claims(s)
  /\ IF Odd(s)
     THEN /\ IF "caught" \in Faults THEN UNCHANGED <<phase, failure>> ELSE Halt("odd_count")
          /\ UNCHANGED request
     ELSE /\ request' \in {s} \cup (IF "peer_rejects" \in Faults THEN {NoSwitch} ELSE {})
          /\ UNCHANGED <<phase, failure>>
  /\ UNCHANGED <<running, first, buffers, robot, sent, lifecycle, loaned, switched>>

(* Mutant: the flags of the component change, the robot is not stopped.    *)
MutStopRobot == UNCHANGED robot

(* Robot::stopRobot: the mode flags are cleared with the control only.     *)
StopRobot ==
  /\ control' = NoControl
  /\ active' = IF control = NoControl THEN active ELSE {}

(* initializePositionCommands: a kind that runs for the first time takes   *)
(* its commands from the robot's state, which need not be finite.          *)
InitializePositionCommands ==
  LET taken == first \cap running IN
  /\ first' = first \ taken
  /\ stale' = stale \ taken
  /\ \E bad \in SUBSET (IF "nonfinite" \in Faults THEN taken ELSE {}) :
       nonfinite' = (nonfinite \ taken) \cup bad

BetweenCalls == phase \in {"read", "update", "control", "write"} /\ request = NoSwitch

(* on_activate reads the robot once.                                       *)
Activate ==
  /\ BetweenCalls /\ lifecycle = "inactive"
  /\ InitializePositionCommands
  /\ lifecycle' = "active"
  /\ UNCHANGED <<claimed, running, robot, sent, phase, request, loaned, switched, failure>>

(* on_deactivate stops the robot and leaves every flag of the component.   *)
Deactivate ==
  /\ BetweenCalls /\ lifecycle = "active"
  /\ loaned = {} \/ "hot_deactivate" \in Faults
  /\ StopRobot
  /\ lifecycle' = "inactive"
  /\ UNCHANGED <<flags, buffers, sent, phase, request, loaned, switched, failure>>

-----------------------------------------------------------------------------
(***************************************************************************)
(* The real-time thread: read.                                             *)
(***************************************************************************)

Read ==
  /\ phase = "read"
  /\ InitializePositionCommands
  /\ sent' = Idle
  /\ phase' = "update"
  /\ UNCHANGED <<claimed, running, robot, manager>>

(* active_control_->readOnce throws after a reflex; nothing catches it.    *)
ReadThrows ==
  /\ phase = "read" /\ "reflex" \in Faults /\ control # NoControl
  /\ Halt("reflex")
  /\ UNCHANGED <<flags, buffers, robot, sent, lifecycle, request, loaned, switched>>

-----------------------------------------------------------------------------
(***************************************************************************)
(* The real-time thread: update, with a pending switch first.              *)
(***************************************************************************)

Update ==
  /\ phase = "update"
  /\ phase' = IF request = NoSwitch THEN "control" ELSE "effort"
  /\ UNCHANGED <<flags, buffers, robot, sent, manager>>

NextBlock ==
  [effort |-> "velocity", velocity |-> "position", position |-> "cartVel",
   cartVel |-> "cartPose", cartPose |-> "elbowCheck"]

(* The elbow starts with a cartesian mode that is started.                 *)
ElbowStarts(m) == m \in CartesianModes /\ "elbow" \in claimed \ running

StartedWith(m) == {m} \cup (IF ElbowStarts(m) THEN {"elbow"} ELSE {})

(* Mutant: every kind that starts gets a first-update flag.                *)
MutAwaiting(m) == StartedWith(m)

(* The kinds that wait for the robot's state once they have been started.  *)
Awaiting(m) == StartedWith(m) \cap Refreshed

(* Mutant: no fill(0).                                                     *)
MutFill(m) == {}

(* fill(0) before a mode of Zeroed starts.                                 *)
Fill(m) == {m} \cap Zeroed

(* The controller manager hands the handles over after perform, whatever   *)
(* it returned.                                                            *)
HandOver ==
  /\ loaned' = Granted(request)
  /\ request' = NoSwitch
  /\ phase' = "control"

(* Mutant: no stopRobot before the new control.                            *)
MutStartControl(m) == control' = m /\ active' = active \cup {m}

(* Robot::initialize*Interface after stopRobot.  A first ControlException  *)
(* is answered by an error recovery and a second attempt.                  *)
StartControl(m) ==
  /\ control' = m
  /\ active' = (IF control = NoControl THEN active ELSE {}) \cup {m}

StartMode(m) ==
  /\ phase = m /\ m \in claimed \ running
  /\ StartControl(m)
  /\ running' = running \cup StartedWith(m)
  /\ first' = first \cup Awaiting(m)
  /\ nonfinite' = nonfinite \ Fill(m)
  /\ stale' = (stale \cup StartedWith(m)) \ Fill(m)
  /\ phase' = NextBlock[m]
  /\ UNCHANGED <<claimed, sent, manager>>

(* The second attempt throws: the old control is gone, the buffer is       *)
(* filled, the running flag is not set and the later blocks do not run.    *)
StartModeThrows(m) ==
  /\ phase = m /\ m \in claimed \ running /\ "start_fails" \in Faults
  /\ StopRobot
  /\ nonfinite' = nonfinite \ Fill(m)
  /\ stale' = stale \ Fill(m)
  /\ switched' = "threw"
  /\ IF "caught" \in Faults
     THEN HandOver /\ UNCHANGED failure
     ELSE Halt("start_failed") /\ UNCHANGED <<request, loaned>>
  /\ UNCHANGED <<flags, sent, lifecycle>>

(* Mutants: the stopped mode, or the elbow with it, keeps its flags.       *)
MutStoppedKeepsRunning(m) == {"elbow"} \cap running
MutStoppedKeepsElbow(m) == {m}

(* The block of a cartesian mode that stops takes the elbow's flags along. *)
StoppedWith(m) == {m} \cup (IF m \in CartesianModes THEN {"elbow"} \cap running ELSE {})

StopMode(m) ==
  /\ phase = m /\ m \in running \ claimed
  /\ StopRobot
  /\ running' = running \ StoppedWith(m)
  /\ claimed' = claimed \ StoppedWith(m)
  /\ phase' = NextBlock[m]
  /\ UNCHANGED <<first, buffers, sent, manager>>

KeepMode(m) ==
  /\ phase = m /\ (m \in claimed <=> m \in running)
  /\ phase' = NextBlock[m]
  /\ UNCHANGED <<flags, buffers, robot, sent, manager>>

SwitchMode(m) == StartMode(m) \/ StartModeThrows(m) \/ StopMode(m) \/ KeepMode(m)

(* The check at the end of perform: it reports an elbow without a          *)
(* cartesian mode, and leaves its claim.                                   *)
LoneElbow == "elbow" \in claimed /\ claimed \cap CartesianModes = {}

FinishSwitch ==
  /\ phase = "elbowCheck"
  /\ switched' = IF LoneElbow THEN "error" ELSE "ok"
  /\ HandOver
  /\ UNCHANGED <<flags, buffers, robot, sent, lifecycle, failure>>

(* The update of the active controllers: each writes the handles it holds, *)
(* or leaves them as they are in this cycle.                               *)
Control ==
  /\ phase = "control"
  /\ \E set \in SUBSET loaned :
       /\ stale' = stale \ set
       /\ \E bad \in SUBSET (IF "nonfinite" \in Faults THEN set ELSE {}) :
            nonfinite' = (nonfinite \ set) \cup bad
  /\ phase' = "write"
  /\ UNCHANGED <<flags, robot, sent, manager>>

-----------------------------------------------------------------------------
(***************************************************************************)
(* The real-time thread: write.                                            *)
(***************************************************************************)

(* The branches of write in their order, by the buffers they pass on.      *)
Branches ==
  << {"velocity"}, {"effort"}, {"position"}, {"cartVel", "elbow"},
     {"cartPose", "elbow"}, {"cartPose"}, {"cartVel"} >>

(* Mutants: no waiting for the first read; no branch without an elbow.     *)
MutReady == running
MutOpen(k) == Branches[k] \subseteq running \ first /\ k # 7

(* A branch waits for the first read after its mode has started.           *)
Ready == running \ first

Open(k) == Branches[k] \subseteq Ready /\ (k = 7 => "elbow" \notin running)

Taken(k) == Open(k) /\ \A j \in 1 .. 7 : j < k => ~Open(j)

(* Any buffer counts, also those of modes that do not run.                 *)
Blocked == nonfinite # {}

(* The kind of message a branch ends in.  Robot::writeOnce of seven        *)
(* numbers looks at its own flags; the cartesian ones are by their type.   *)
JointMessage ==
  IF "effort" \in active THEN "effort"
  ELSE IF "velocity" \in active THEN "velocity"
  ELSE IF "position" \in active THEN "position" ELSE NoControl

Message(k) ==
  IF k \in {4, 7} THEN "cartVel" ELSE IF k \in {5, 6} THEN "cartPose" ELSE JointMessage

WriteBlocked ==
  /\ phase = "write" /\ Blocked
  /\ Halt("nonfinite")
  /\ UNCHANGED <<flags, buffers, robot, sent, lifecycle, request, loaned, switched>>

WriteNothing ==
  /\ phase = "write" /\ ~Blocked /\ \A k \in 1 .. 7 : ~Open(k)
  /\ phase' = "read"
  /\ UNCHANGED <<flags, buffers, robot, sent, manager>>

(* Robot::writeOnce: without a control it throws; a message of another     *)
(* kind than the control's is refused by libfranka with an exception; and  *)
(* seven joint numbers are dropped when no joint flag is set.              *)
WriteOnce(k) ==
  /\ phase = "write" /\ ~Blocked /\ Taken(k)
  /\ IF control = NoControl THEN Halt("not_started") /\ UNCHANGED sent
     ELSE IF Message(k) = control
     THEN /\ sent' = [buffers |-> Branches[k], as |-> Message(k)]
          /\ phase' = "read" /\ UNCHANGED failure
     ELSE IF Message(k) = NoControl THEN phase' = "read" /\ UNCHANGED <<sent, failure>>
     ELSE Halt("wrong_control") /\ UNCHANGED sent
  /\ UNCHANGED <<flags, buffers, robot, lifecycle, request, loaned, switched>>

Write == WriteBlocked \/ WriteNothing \/ \E k \in 1 .. 7 : WriteOnce(k)

-----------------------------------------------------------------------------
RealTime ==
  \/ Read \/ ReadThrows \/ Update
  \/ \E m \in Modes : SwitchMode(m)
  \/ FinishSwitch \/ Control \/ Write

Next == RealTime \/ Activate \/ Deactivate \/ \E s \in Switches : Prepare(s)

Spec == Init /\ [][Next]_vars

(* The controller manager runs the real-time loop as long as it lives.     *)
FairSpec == Spec /\ WF_vars(RealTime)

-----------------------------------------------------------------------------
(***************************************************************************)
(* Properties of every switch and every fault.                             *)
(***************************************************************************)

(* The states the variables range over.                                    *)
TypeOK ==
  /\ claimed \subseteq Interfaces /\ running \subseteq Interfaces /\ first \subseteq Refreshed
  /\ nonfinite \subseteq Interfaces /\ stale \subseteq Interfaces
  /\ control \in Modes \cup {NoControl} /\ active \subseteq Modes
  /\ sent \in [buffers: SUBSET Interfaces, as: Modes \cup {NoControl}]
  /\ lifecycle \in {"inactive", "active"}
  /\ phase \in {"read", "update", "elbowCheck", "control", "write", "halted"} \cup Modes
  /\ request \in Switches \cup {NoSwitch} /\ loaned \subseteq Interfaces
  /\ switched \in {"none", "ok", "error", "threw"}
  /\ failure \in {"none", "odd_count", "start_failed", "reflex", "nonfinite",
                  "not_started", "wrong_control"}

(* Robot's flag of a mode is set exactly while its control is active,      *)
(* through every start, stop, failed start and deactivation: writeOnce     *)
(* dispatches on flags that can never be those of an earlier control.      *)
FlagsFollowControl == active = (IF control = NoControl THEN {} ELSE {control})

(* The robot is never under a control the component does not count as      *)
(* running, so that a later switch will stop it.                           *)
ControlIsRunning == control # NoControl => control \in running

(* No buffer that reaches the robot holds what it held before its mode was *)
(* started: efforts and velocities are zeroed, positions, poses and the    *)
(* elbow wait for the first read.                                          *)
NothingStale == sent.buffers \cap stale = {}

(* A component that has been deactivated commands nothing, though          *)
(* on_deactivate leaves every flag that write goes by, and write goes on   *)
(* being called: until the next activation nothing more is sent.           *)
InactiveIsSilent == [][lifecycle = "inactive" => sent' \in {sent, Idle}]_vars

(* Every buffer that reaches the robot is of a mode that controllers hold  *)
(* or prepare has claimed, however many modes are held at once, and        *)
(* whatever a perform that threw half-way, a switch that was rejected or a *)
(* deactivation has left running.                                          *)
OnlyClaimedIsSent == sent.buffers \cap Modes \subseteq loaned \cup claimed

-----------------------------------------------------------------------------
(***************************************************************************)
(* Properties of restricted use.                                           *)
(***************************************************************************)

(* Prepare is given whole kinds and its claims always reach perform.       *)
NoLeftovers == (\A s \in Switches : ~Odd(s)) /\ "peer_rejects" \notin Faults

OneMode(held) == \A m, n \in held \cap Modes : m = n

(* Moreover controllers hold one mode at a time.                           *)
Exclusive ==
  /\ NoLeftovers
  /\ \A s \in Switches : OneMode(s.from) /\ OneMode(Granted(s))

(* The order of the blocks of perform_command_mode_switch.                 *)
Block == [effort |-> 1, velocity |-> 2, position |-> 3, cartVel |-> 4, cartPose |-> 5]

(* A switch that hands over to the same or to a later block.               *)
GoesForward(s) ==
  \A m \in s.from \cap Modes, n \in Granted(s) \cap Modes : Block[m] <= Block[n]

(* An elbow that comes and goes with a mode, or without any: it is neither *)
(* added to a mode that stays, nor taken from it, nor taken along.         *)
ElbowFollows(s) ==
  IF s.from \cap Modes = Granted(s) \cap Modes /\ s.from \cap Modes # {}
  THEN "elbow" \in s.from <=> "elbow" \in Granted(s)
  ELSE "elbow" \notin s.from \cap Granted(s)

(* Moreover switches go forward, and the component is deactivated idle.    *)
Forward ==
  /\ Exclusive /\ "hot_deactivate" \notin Faults
  /\ \A s \in Switches : GoesForward(s)

(* What the robot takes for efforts, velocities, positions... was written  *)
(* as such: the branch of write and the dispatch of Robot::writeOnce agree *)
(* though they decide by different flags in different orders.              *)
OwnKind == sent.as # NoControl => sent.as \in sent.buffers

(* Robot::writeOnce is never called without a control of its kind.         *)
WriteAfterSwitch == failure \notin {"not_started", "wrong_control"}

(* A cartesian command carries the elbow exactly when the controllers hold *)
(* the elbow, though the elbow's flags follow those of two other modes.    *)
ElbowAsHeld ==
  phase = "read" /\ sent.as \in CartesianModes =>
    ("elbow" \in sent.buffers <=> "elbow" \in loaned)

(* The robot gets commands of every mode that controllers hold after a     *)
(* switch that went well, until they let it go.                            *)
HeldIsCommanded ==
  \A m \in Modes : m \in loaned /\ switched = "ok" ~> sent.as = m \/ m \notin loaned

(* The component shows the arm the sessions of ControlSession.             *)
Session ==
  INSTANCE ControlSession
    WITH Cartesian <- CartesianModes, Measured <- Refreshed \cap Modes,
         session <- control,
         armed <- control # NoControl /\ control \notin first,
         message <- sent

(* Controllers that hold one mode at a time drive the robot through        *)
(* sessions of one mode whose messages are of that mode, are complete, and *)
(* for positions and poses begin after the first read.                     *)
ImplementsSession == Session!Spec

=============================================================================
