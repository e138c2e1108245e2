------------------------ MODULE FrankaHardwareProofs ------------------------
(***************************************************************************)
(* Theorems about FrankaHardware for every set of switches and faults.     *)
(***************************************************************************)
EXTENDS FrankaHardware, TLAPS

(* The variables keep to their types.                                      *)
THEOREM TypeCorrect == Spec => []TypeOK
<1> USE DEF Interfaces, Modes, JointModes, CartesianModes, Refreshed, Zeroed, NoControl, Idle
<1>1. Init => TypeOK
  BY DEF Init, TypeOK
<1>2. TypeOK /\ [Next]_vars => TypeOK'
  <2> SUFFICES ASSUME TypeOK, [Next]_vars PROVE TypeOK'
    OBVIOUS
  <2> USE DEF TypeOK
  <2>1. ASSUME NEW s \in Switches, Prepare(s) PROVE TypeOK'
    <3>1. s \in Switch
      BY SwitchesLegal
    <3>2. claimed' \subseteq Interfaces
      BY <2>1, <3>1 DEF Prepare, Claims, Switch
    <3>3. request' \in Switches \cup {NoSwitch}
      BY <2>1 DEF Prepare
    <3>4. phase' \in {phase, "halted"} /\ failure' \in {failure, "odd_count"}
      BY <2>1 DEF Prepare, Halt
    <3>5. QED
      BY <2>1, <3>2, <3>3, <3>4 DEF Prepare, buffers, robot
  <2>2. CASE Activate
    BY <2>2 DEF Activate, InitializePositionCommands, robot
  <2>3. CASE Deactivate
    BY <2>3 DEF Deactivate, StopRobot, flags, buffers
  <2>4. CASE Read
    BY <2>4 DEF Read, InitializePositionCommands, robot, manager
  <2>5. CASE ReadThrows
    BY <2>5 DEF ReadThrows, Halt, flags, buffers, robot
  <2>6. CASE Update
    BY <2>6 DEF Update, flags, buffers, robot, manager
  <2>7. ASSUME NEW m \in Modes, SwitchMode(m) PROVE TypeOK'
    <3>1. NextBlock[m] \in Modes \cup {"elbowCheck"}
      BY DEF NextBlock
    <3>2. Granted(request) \subseteq Interfaces
      BY SwitchesLegal DEF Granted, Switch, NoSwitch
    <3>3. CASE StartMode(m)
      BY <3>1, <3>3 DEF StartMode, StartControl, StartedWith, Awaiting, ElbowStarts, Fill, manager
    <3>4. CASE StartModeThrows(m)
      BY <3>2, <3>4 DEF StartModeThrows, StopRobot, HandOver, Halt, Fill, flags
    <3>5. CASE StopMode(m)
      BY <3>1, <3>5 DEF StopMode, StopRobot, StoppedWith, buffers, manager
    <3>6. CASE KeepMode(m)
      BY <3>1, <3>6 DEF KeepMode, flags, buffers, robot, manager
    <3>7. QED
      BY <2>7, <3>3, <3>4, <3>5, <3>6 DEF SwitchMode
  <2>8. CASE FinishSwitch
    <3>1. Granted(request) \subseteq Interfaces
      BY SwitchesLegal DEF Granted, Switch, NoSwitch
    <3>2. QED
      BY <2>8, <3>1 DEF FinishSwitch, HandOver, flags, buffers, robot
  <2>9. CASE Control
    BY <2>9 DEF Control, flags, robot, manager
  <2>10. CASE Write
    <3>1. ASSUME NEW k \in 1 .. 7, WriteOnce(k) PROVE TypeOK'
      <4>1. Branches[k] \subseteq Interfaces
        BY DEF Branches
      <4>2. Message(k) \in Modes \cup {NoControl}
        BY DEF Message, JointMessage
      <4>3. QED
        BY <3>1, <4>1, <4>2 DEF WriteOnce, Halt, flags, buffers, robot
    <3>2. CASE WriteBlocked
      BY <3>2 DEF WriteBlocked, Halt, flags, buffers, robot
    <3>3. CASE WriteNothing
      BY <3>3 DEF WriteNothing, flags, buffers, robot, manager
    <3>4. QED
      BY <2>10, <3>1, <3>2, <3>3 DEF Write
  <2>11. CASE UNCHANGED vars
    BY <2>11 DEF vars
  <2>12. QED
    BY <2>1, <2>2, <2>3, <2>4, <2>5, <2>6, <2>7, <2>8, <2>9, <2>10, <2>11 DEF Next, RealTime
<1>3. QED
  BY <1>1, <1>2, PTL DEF Spec

-----------------------------------------------------------------------------
(* Robot's flags are those of its control, and the component counts the    *)
(* control's mode as running.                                              *)
ControlInv == FlagsFollowControl /\ ControlIsRunning

LEMMA ControlInvariant == Spec => []ControlInv
<1> USE DEF ControlInv, FlagsFollowControl, ControlIsRunning
<1>1. Init => ControlInv
  BY DEF Init
<1>2. TypeOK /\ ControlInv /\ [Next]_vars => ControlInv'
  <2> SUFFICES ASSUME TypeOK, ControlInv, [Next]_vars PROVE ControlInv'
    OBVIOUS
  <2> USE DEF StopRobot, robot, flags
  <2>1. ASSUME NEW s \in Switches, Prepare(s) PROVE ControlInv'
    BY <2>1 DEF Prepare
  <2>2. CASE Activate \/ Read \/ Deactivate
    BY <2>2 DEF Activate, Read, Deactivate
  <2>3. CASE ReadThrows \/ Update \/ FinishSwitch \/ Control
    BY <2>3 DEF ReadThrows, Update, FinishSwitch, Control
  <2>4. ASSUME NEW m \in Modes, SwitchMode(m) PROVE ControlInv'
    <3>1. m # NoControl /\ m # "elbow"
      BY DEF Modes, JointModes, CartesianModes, NoControl
    <3>2. CASE StartMode(m)
      BY <3>1, <3>2 DEF StartMode, StartControl, StartedWith
    <3>3. CASE StartModeThrows(m) \/ StopMode(m) \/ KeepMode(m)
      BY <3>1, <3>3 DEF StartModeThrows, StopMode, KeepMode
    <3>4. QED
      BY <2>4, <3>2, <3>3 DEF SwitchMode
  <2>5. CASE Write
    BY <2>5 DEF Write, WriteBlocked, WriteNothing, WriteOnce
  <2>6. CASE UNCHANGED vars
    BY <2>6 DEF vars
  <2>7. QED
    BY <2>1, <2>2, <2>3, <2>4, <2>5, <2>6 DEF Next, RealTime
<1>3. QED
  BY <1>1, <1>2, TypeCorrect, PTL DEF Spec

(* Robot::writeOnce can rely on its mode flags: they are set for the       *)
(* control it holds and for no other.                                      *)
THEOREM FlagsOfControl == Spec => []FlagsFollowControl
<1>1. ControlInv => FlagsFollowControl
  BY DEF ControlInv
<1>2. QED
  BY <1>1, ControlInvariant, PTL

(* No control is left that perform_command_mode_switch would not stop.     *)
THEOREM ControlIsKnown == Spec => []ControlIsRunning
<1>1. ControlInv => ControlIsRunning
  BY DEF ControlInv
<1>2. QED
  BY <1>1, ControlInvariant, PTL

-----------------------------------------------------------------------------
(***************************************************************************)
(* Freshness.  A running kind that does not await the robot's state has a  *)
(* buffer refilled since it was started, and nothing is left of the last   *)
(* write while a switch is being performed.                                *)
(***************************************************************************)
FreshInv ==
  /\ \A i \in running \ first : i \notin stale
  /\ phase \notin {"read", "halted"} => sent = Idle
  /\ NothingStale

LEMMA FreshInvariant == Spec => []FreshInv
<1> USE DEF FreshInv, NothingStale, Idle
<1>1. Init => FreshInv
  BY DEF Init
<1>2. TypeOK /\ FreshInv /\ [Next]_vars => FreshInv'
  <2> SUFFICES ASSUME TypeOK, FreshInv, [Next]_vars PROVE FreshInv'
    OBVIOUS
  <2> USE DEF robot, flags, buffers, manager, Halt
  <2>1. ASSUME NEW s \in Switches, Prepare(s) PROVE FreshInv'
    BY <2>1 DEF Prepare
  <2>2. CASE Activate
    BY <2>2 DEF Activate, InitializePositionCommands
  <2>3. CASE Read
    BY <2>3 DEF Read, InitializePositionCommands
  <2>4. CASE Deactivate \/ ReadThrows
    BY <2>4 DEF Deactivate, ReadThrows
  <2>5. CASE Update \/ FinishSwitch
    BY <2>5 DEF Update, FinishSwitch, HandOver
  <2>6. CASE Control
    BY <2>6 DEF Control
  <2>7. ASSUME NEW m \in Modes, SwitchMode(m) PROVE FreshInv'
    <3>1. phase = m /\ m \notin {"read", "halted"} /\ sent = Idle /\ sent' = Idle
      BY <2>7 DEF SwitchMode, StartMode, StartModeThrows, StopMode, KeepMode,
                  Modes, JointModes, CartesianModes
    <3>2. ASSUME NEW i \in running' \ first' PROVE i \notin stale'
      <4>1. CASE StartMode(m)
        <5>1. i \in StartedWith(m) => i \in Refreshed \cup {m}
          BY DEF StartedWith, Refreshed
        <5>2. m \in Refreshed \cup Zeroed
          BY DEF Modes, JointModes, CartesianModes, Refreshed, Zeroed
        <5>3. CASE i \in StartedWith(m)
          BY <3>2, <4>1, <5>1, <5>2, <5>3 DEF StartMode, Awaiting, Fill
        <5>4. CASE i \notin StartedWith(m)
          BY <3>2, <4>1, <5>4 DEF StartMode, Awaiting
        <5>5. QED
          BY <5>3, <5>4
      <4>2. CASE StartModeThrows(m)
        BY <3>2, <4>2 DEF StartModeThrows
      <4>3. CASE StopMode(m) \/ KeepMode(m)
        BY <3>2, <4>3 DEF StopMode, KeepMode
      <4>4. QED
        BY <2>7, <4>1, <4>2, <4>3 DEF SwitchMode
    <3>3. QED
      BY <3>1, <3>2
  <2>8. CASE Write
    <3>1. ASSUME NEW k \in 1 .. 7, WriteOnce(k) PROVE FreshInv'
      BY <3>1 DEF WriteOnce, Taken, Open, Ready
    <3>2. CASE WriteBlocked \/ WriteNothing
      BY <3>2 DEF WriteBlocked, WriteNothing
    <3>3. QED
      BY <2>8, <3>1, <3>2 DEF Write
  <2>9. CASE UNCHANGED vars
    BY <2>9 DEF vars
  <2>10. QED
    BY <2>1, <2>2, <2>3, <2>4, <2>5, <2>6, <2>7, <2>8, <2>9 DEF Next, RealTime
<1>3. QED
  BY <1>1, <1>2, TypeCorrect, PTL DEF Spec

(* No command older than its control reaches the robot.                    *)
THEOREM NoStaleCommand == Spec => []NothingStale
<1>1. FreshInv => NothingStale
  BY DEF FreshInv
<1>2. QED
  BY <1>1, FreshInvariant, PTL

-----------------------------------------------------------------------------
(***************************************************************************)
(* For every switch and every fault: in the blocks of perform that are     *)
(* done, what runs is what is claimed; no prepare comes in between, and    *)
(* an inactive component is stopped and has no switch pending.             *)
(***************************************************************************)
Switching == phase \in Modes \cup {"elbowCheck"}

(* The phases of perform that come after the block of a mode.              *)
Later ==
  [effort |-> {"velocity", "position", "cartVel", "cartPose", "elbowCheck"},
   velocity |-> {"position", "cartVel", "cartPose", "elbowCheck"},
   position |-> {"cartVel", "cartPose", "elbowCheck"},
   cartVel |-> {"cartPose", "elbowCheck"},
   cartPose |-> {"elbowCheck"}]

Done == {m \in Modes : phase \in Later[m]}

DoneInv ==
  /\ Switching => request # NoSwitch /\ claimed \cap Done = running \cap Done
  /\ lifecycle = "inactive" => request = NoSwitch /\ control = NoControl

LEMMA DoneInvariant == Spec => []DoneInv
<1> USE DEF DoneInv, Switching, Modes, JointModes, CartesianModes
<1>1. Init => DoneInv
  BY DEF Init
<1>2. TypeOK /\ DoneInv /\ [Next]_vars => DoneInv'
  <2> SUFFICES ASSUME TypeOK, DoneInv, [Next]_vars PROVE DoneInv'
    OBVIOUS
  <2> USE DEF robot, flags, buffers, manager, Halt
  <2>1. ASSUME NEW m \in Modes, SwitchMode(m) PROVE DoneInv'
    <3>1. phase = m /\ lifecycle' = lifecycle /\ lifecycle # "inactive"
      BY <2>1 DEF SwitchMode, StartMode, StartModeThrows, StopMode, KeepMode, TypeOK
    <3>2. ASSUME phase' = NextBlock[m] PROVE Done' = Done \cup {m}
      BY <3>1, <3>2 DEF Done, NextBlock, Later
    <3>3. CASE StartMode(m)
      <4>1. running' \cap Modes = (running \cap Modes) \cup {m} /\ claimed' = claimed /\ m \in claimed
        BY <3>3 DEF StartMode, StartedWith
      <4>2. QED
        BY <3>1, <3>2, <3>3, <4>1 DEF StartMode, Done
    <3>4. CASE StartModeThrows(m)
      BY <3>1, <3>4 DEF StartModeThrows, HandOver
    <3>5. CASE StopMode(m)
      <4>1. /\ claimed' \cap Modes = (claimed \cap Modes) \ {m}
            /\ running' \cap Modes = (running \cap Modes) \ {m}
        BY <3>5 DEF StopMode, StoppedWith
      <4>2. QED
        BY <3>1, <3>2, <3>5, <4>1 DEF StopMode, Done
    <3>6. CASE KeepMode(m)
      BY <3>1, <3>2, <3>6 DEF KeepMode
    <3>7. QED
      BY <2>1, <3>3, <3>4, <3>5, <3>6 DEF SwitchMode
  <2>2. CASE Update
    BY <2>2 DEF Update, Done, Later
  <2>3. ASSUME NEW s \in Switches, Prepare(s) PROVE DoneInv'
    BY <2>3 DEF Prepare, Done
  <2>4. CASE Activate \/ Deactivate
    BY <2>4 DEF Activate, Deactivate, BetweenCalls, StopRobot, Done
  <2>5. QED
    BY <2>1, <2>2, <2>3, <2>4 DEF Next, RealTime, Read, ReadThrows, Control,
       FinishSwitch, HandOver, Write, WriteBlocked, WriteNothing, WriteOnce, Done, vars
<1>3. QED
  BY <1>1, <1>2, TypeCorrect, PTL DEF Spec

(* When perform_command_mode_switch has gone through its blocks, what runs *)
(* is what is claimed, whatever failed before.  So a claim that a rejected *)
(* prepare has left is started by the next switch, whatever it asks for.   *)
THEOREM PerformServesClaims ==
  Spec => [](phase = "elbowCheck" => running \cap Modes = claimed \cap Modes)
<1>1. DoneInv => (phase = "elbowCheck" => running \cap Modes = claimed \cap Modes)
  BY DEF DoneInv, Switching, Done, Later, Modes, JointModes, CartesianModes
<1>2. QED
  BY <1>1, DoneInvariant, PTL

(* After a deactivation nothing is sent until the next activation.         *)
THEOREM SilentWhenInactive == Spec => InactiveIsSilent
<1>1. DoneInv /\ [Next]_vars => [lifecycle = "inactive" => sent' \in {sent, Idle}]_vars
  <2> SUFFICES ASSUME DoneInv, Next, lifecycle = "inactive" PROVE sent' \in {sent, Idle}
    OBVIOUS
  <2>1. control = NoControl
    BY DEF DoneInv
  <2>2. ASSUME NEW m \in Modes, SwitchMode(m) PROVE sent' = sent
    BY <2>2 DEF SwitchMode, StartMode, StartModeThrows, StopMode, KeepMode
  <2>3. ASSUME NEW k \in 1 .. 7, WriteOnce(k) PROVE sent' = sent
    BY <2>1, <2>3 DEF WriteOnce
  <2>4. QED
    BY <2>2, <2>3 DEF Next, RealTime, Prepare, Activate, Deactivate, Read, ReadThrows, Update,
       FinishSwitch, Control, Write, WriteBlocked, WriteNothing
<1>2. QED
  BY <1>1, DoneInvariant, PTL DEF Spec, InactiveIsSilent

-----------------------------------------------------------------------------
(***************************************************************************)
(* While a control is active, what runs between the switches is held or    *)
(* claimed, whatever was rejected, has thrown or was deactivated.          *)
(***************************************************************************)
(* A prepare takes claims back of what its switch stops only, and that is  *)
(* held until the switch is handed over.                                   *)
LEMMA ClaimsGrow ==
  ASSUME NEW s \in Switches, Prepare(s)
  PROVE  loaned \cup claimed \subseteq loaned' \cup claimed'
<1>1. s.stop \subseteq s.from
  BY SwitchesLegal DEF Legal, Switch
<1>2. s.from = loaned /\ loaned' = loaned /\ claimed' = Claims(s)
  BY DEF Prepare
<1>3. QED
  BY <1>1, <1>2 DEF Claims

ClaimedInv == control # NoControl /\ ~Switching => running \cap Modes \subseteq loaned \cup claimed

LEMMA ClaimedInvariant == Spec => []ClaimedInv
<1> USE DEF ClaimedInv
<1>1. Init => ClaimedInv
  BY DEF Init
<1>2. TypeOK /\ DoneInv /\ ClaimedInv /\ [Next]_vars => ClaimedInv'
  <2> SUFFICES ASSUME TypeOK, DoneInv, ClaimedInv, [Next]_vars PROVE ClaimedInv'
    OBVIOUS
  <2> USE DEF robot, flags, buffers, manager, Halt, Switching, Modes, JointModes, CartesianModes
  <2>1. ASSUME NEW s \in Switches, Prepare(s) PROVE ClaimedInv'
    <3>1. ~Switching /\ UNCHANGED <<running, control, loaned>>
      BY <2>1 DEF Prepare, DoneInv
    <3>2. loaned \cup claimed \subseteq loaned' \cup claimed'
      BY <2>1, ClaimsGrow
    <3>3. QED
      BY <3>1, <3>2
  <2>2. CASE Activate \/ Deactivate
    BY <2>2 DEF Activate, Deactivate, StopRobot
  <2>3. CASE Read \/ ReadThrows \/ Control \/ Update
    BY <2>3 DEF Read, ReadThrows, Control, Update
  <2>4. ASSUME NEW m \in Modes, SwitchMode(m) PROVE ClaimedInv'
    <3>1. NextBlock[m] \in Modes \cup {"elbowCheck"}
      BY DEF NextBlock
    <3>2. CASE StartModeThrows(m)
      BY <3>2 DEF StartModeThrows, StopRobot
    <3>3. QED
      BY <2>4, <3>1, <3>2 DEF SwitchMode, StartMode, StopMode, KeepMode
  <2>5. CASE FinishSwitch
    <3>1. running \cap Modes = claimed \cap Modes
      BY <2>5 DEF FinishSwitch, DoneInv, Done, Later
    <3>2. QED
      BY <2>5, <3>1 DEF FinishSwitch
  <2>6. CASE Write
    BY <2>6 DEF Write, WriteBlocked, WriteNothing, WriteOnce
  <2>7. CASE UNCHANGED vars
    BY <2>7 DEF vars
  <2>8. QED
    BY <2>1, <2>2, <2>3, <2>4, <2>5, <2>6, <2>7 DEF Next, RealTime
<1>3. QED
  BY <1>1, <1>2, TypeCorrect, DoneInvariant, PTL DEF Spec

(* The robot gets buffers of modes that are held or claimed, and no other. *)
THEOREM ClaimedBuffersOnly == Spec => []OnlyClaimedIsSent
<1> USE DEF OnlyClaimedIsSent, Idle
<1>1. Init => OnlyClaimedIsSent
  BY DEF Init
<1>2. FreshInv /\ ClaimedInv /\ OnlyClaimedIsSent /\ [Next]_vars => OnlyClaimedIsSent'
  <2> SUFFICES ASSUME FreshInv, ClaimedInv, OnlyClaimedIsSent, [Next]_vars PROVE OnlyClaimedIsSent'
    OBVIOUS
  <2> USE DEF robot, flags, buffers, manager, Halt, Modes, JointModes, CartesianModes
  <2>1. ASSUME NEW m \in Modes, SwitchMode(m) PROVE OnlyClaimedIsSent'
    <3>1. sent = Idle /\ sent' = sent
      BY <2>1 DEF SwitchMode, StartMode, StartModeThrows, StopMode, KeepMode, FreshInv
    <3>2. QED
      BY <3>1
  <2>2. CASE FinishSwitch
    BY <2>2 DEF FinishSwitch, FreshInv
  <2>3. ASSUME NEW k \in 1 .. 7, WriteOnce(k) PROVE OnlyClaimedIsSent'
    <3>1. CASE control = NoControl
      BY <2>3, <3>1 DEF WriteOnce
    <3>2. CASE control # NoControl
      <4>1. running \cap Modes \subseteq loaned \cup claimed
        BY <2>3, <3>2 DEF WriteOnce, ClaimedInv, Switching
      <4>2. Branches[k] \subseteq running
        BY <2>3 DEF WriteOnce, Taken, Open, Ready
      <4>3. sent' \in {sent, [buffers |-> Branches[k], as |-> Message(k)]}
            /\ loaned' = loaned /\ claimed' = claimed
        BY <2>3 DEF WriteOnce
      <4>4. QED
        BY <4>1, <4>2, <4>3
    <3>3. QED
      BY <3>1, <3>2
  <2>4. ASSUME NEW s \in Switches, Prepare(s) PROVE OnlyClaimedIsSent'
    <3>1. sent' = sent /\ loaned \cup claimed \subseteq loaned' \cup claimed'
      BY <2>4, ClaimsGrow DEF Prepare
    <3>2. QED
      BY <3>1
  <2>5. CASE Activate \/ Deactivate \/ Read \/ ReadThrows \/ Update \/ Control
    BY <2>5 DEF Activate, Deactivate, Read, ReadThrows, Update, Control
  <2>6. CASE WriteBlocked \/ WriteNothing \/ UNCHANGED vars
    BY <2>6 DEF WriteBlocked, WriteNothing, vars
  <2>7. QED
    BY <2>1, <2>2, <2>3, <2>4, <2>5, <2>6 DEF Next, RealTime, Write
<1>3. QED
  BY <1>1, <1>2, FreshInvariant, ClaimedInvariant, PTL DEF Spec

-----------------------------------------------------------------------------
(***************************************************************************)
(* Without leftovers the claims are those of the handles that are held, or *)
(* will be once the prepared switch is performed; and while a control is   *)
(* active, what runs between the switches is held.                         *)
(***************************************************************************)
LoansInv ==
  /\ claimed \cap Modes = (IF request = NoSwitch THEN loaned ELSE Granted(request)) \cap Modes
  /\ request # NoSwitch => request.from = loaned

HeldControlInv == control # NoControl /\ ~Switching => running \cap Modes \subseteq loaned

LEMMA LoansInvariant == ASSUME NoLeftovers PROVE Spec => []LoansInv
<1> USE DEF LoansInv
<1>1. Init => LoansInv
  BY DEF Init, NoSwitch
<1>2. TypeOK /\ DoneInv /\ LoansInv /\ [Next]_vars => LoansInv'
  <2> SUFFICES ASSUME TypeOK, DoneInv, LoansInv, [Next]_vars PROVE LoansInv'
    OBVIOUS
  <2> USE DEF robot, flags, buffers, manager, Halt
  <2>1. ASSUME NEW s \in Switches, Prepare(s) PROVE LoansInv'
    <3>1. s \in Switch /\ s # NoSwitch /\ s.oddStart = {} /\ s.oddStop = {}
      BY SwitchesLegal DEF Legal, NoSwitch, NoLeftovers, Odd, Switch
    <3>2. request' = s
      BY <2>1, <3>1 DEF Prepare, Odd, NoLeftovers
    <3>3. claimed' = (claimed \ s.stop) \cup s.start
      BY <2>1, <3>1 DEF Prepare, Claims, Reached, Switch, TypeOK
    <3>4. claimed \cap Modes = s.from \cap Modes
      BY <2>1 DEF Prepare
    <3>5. claimed' \cap Modes = Granted(s) \cap Modes
      BY <3>3, <3>4 DEF Granted
    <3>6. QED
      BY <2>1, <3>1, <3>2, <3>5 DEF Prepare
  <2>2. CASE Activate \/ Deactivate \/ Read \/ ReadThrows \/ Control \/ Update
    BY <2>2 DEF Activate, Deactivate, Read, ReadThrows, Control, Update
  <2>3. ASSUME NEW m \in Modes, SwitchMode(m) PROVE LoansInv'
    <3>1. request # NoSwitch
      BY <2>3 DEF SwitchMode, StartMode, StartModeThrows, StopMode, KeepMode, DoneInv, Switching
    <3>2. claimed' \cap Modes = claimed \cap Modes
      BY <2>3 DEF SwitchMode, StartMode, StartModeThrows, StopMode, KeepMode, StoppedWith,
                  Modes, JointModes, CartesianModes
    <3>3. CASE UNCHANGED <<request, loaned>>
      BY <3>2, <3>3
    <3>4. CASE StartModeThrows(m) /\ HandOver
      BY <3>1, <3>2, <3>4 DEF HandOver
    <3>5. QED
      BY <2>3, <3>3, <3>4 DEF SwitchMode, StartMode, StartModeThrows, StopMode, KeepMode
  <2>4. CASE FinishSwitch
    BY <2>4 DEF FinishSwitch, HandOver, DoneInv, Switching
  <2>5. CASE Write
    BY <2>5 DEF Write, WriteBlocked, WriteNothing, WriteOnce
  <2>6. CASE UNCHANGED vars
    BY <2>6 DEF vars
  <2>7. QED
    BY <2>1, <2>2, <2>3, <2>4, <2>5, <2>6 DEF Next, RealTime
<1>3. QED
  BY <1>1, <1>2, TypeCorrect, DoneInvariant, PTL DEF Spec

LEMMA HeldControlInvariant == ASSUME NoLeftovers PROVE Spec => []HeldControlInv
<1> USE DEF HeldControlInv
<1>1. Init => HeldControlInv
  BY DEF Init
<1>2. TypeOK /\ DoneInv /\ LoansInv /\ HeldControlInv /\ [Next]_vars => HeldControlInv'
  <2> SUFFICES ASSUME TypeOK, DoneInv, LoansInv, HeldControlInv, [Next]_vars PROVE HeldControlInv'
    OBVIOUS
  <2> USE DEF robot, flags, buffers, manager, Halt, Switching, Modes, JointModes, CartesianModes
  <2>1. ASSUME NEW s \in Switches, Prepare(s) PROVE HeldControlInv'
    <3>1. ~Switching /\ UNCHANGED <<running, control, loaned>>
      BY <2>1 DEF Prepare, DoneInv
    <3>2. QED
      BY <3>1
  <2>2. CASE Activate \/ Deactivate
    BY <2>2 DEF Activate, Deactivate, StopRobot
  <2>3. CASE Read \/ ReadThrows \/ Control \/ Update
    BY <2>3 DEF Read, ReadThrows, Control, Update
  <2>4. ASSUME NEW m \in Modes, SwitchMode(m) PROVE HeldControlInv'
    <3>1. NextBlock[m] \in Modes \cup {"elbowCheck"}
      BY DEF NextBlock
    <3>2. CASE StartModeThrows(m)
      BY <3>2 DEF StartModeThrows, StopRobot
    <3>3. QED
      BY <2>4, <3>1, <3>2 DEF SwitchMode, StartMode, StopMode, KeepMode
  <2>5. CASE FinishSwitch
    <3>1. running \cap Modes = claimed \cap Modes
      BY <2>5 DEF FinishSwitch, DoneInv, Done, Later
    <3>2. claimed \cap Modes = Granted(request) \cap Modes
      BY <2>5 DEF FinishSwitch, DoneInv, LoansInv
    <3>3. QED
      BY <2>5, <3>1, <3>2 DEF FinishSwitch, HandOver
  <2>6. CASE Write
    BY <2>6 DEF Write, WriteBlocked, WriteNothing, WriteOnce
  <2>7. CASE UNCHANGED vars
    BY <2>7 DEF vars
  <2>8. QED
    BY <2>1, <2>2, <2>3, <2>4, <2>5, <2>6, <2>7 DEF Next, RealTime
<1>3. QED
  BY <1>1, <1>2, TypeCorrect, DoneInvariant, LoansInvariant, PTL DEF Spec

(* While no switch leaves claims behind, the robot gets buffers of held    *)
(* modes only, however many are held at once.                              *)
THEOREM HeldBuffersOnly == ASSUME NoLeftovers PROVE Spec => [](sent.buffers \cap Modes \subseteq loaned)
<1> DEFINE OnlyHeldIsSent == sent.buffers \cap Modes \subseteq loaned
<1> USE DEF Idle
<1>1. Init => OnlyHeldIsSent
  BY DEF Init
<1>2. FreshInv /\ HeldControlInv /\ OnlyHeldIsSent /\ [Next]_vars => OnlyHeldIsSent'
  <2> SUFFICES ASSUME FreshInv, HeldControlInv, OnlyHeldIsSent, [Next]_vars PROVE OnlyHeldIsSent'
    OBVIOUS
  <2> USE DEF robot, flags, buffers, manager, Halt, Modes, JointModes, CartesianModes
  <2>1. ASSUME NEW m \in Modes, SwitchMode(m) PROVE OnlyHeldIsSent'
    <3>1. sent = Idle /\ sent' = sent
      BY <2>1 DEF SwitchMode, StartMode, StartModeThrows, StopMode, KeepMode, FreshInv
    <3>2. QED
      BY <3>1
  <2>2. CASE FinishSwitch
    BY <2>2 DEF FinishSwitch, FreshInv
  <2>3. ASSUME NEW k \in 1 .. 7, WriteOnce(k) PROVE OnlyHeldIsSent'
    <3>1. CASE control = NoControl
      BY <2>3, <3>1 DEF WriteOnce
    <3>2. CASE control # NoControl
      <4>1. running \cap Modes \subseteq loaned
        BY <2>3, <3>2 DEF WriteOnce, HeldControlInv, Switching
      <4>2. Branches[k] \subseteq running
        BY <2>3 DEF WriteOnce, Taken, Open, Ready
      <4>3. sent' \in {sent, [buffers |-> Branches[k], as |-> Message(k)]} /\ loaned' = loaned
        BY <2>3 DEF WriteOnce
      <4>4. QED
        BY <4>1, <4>2, <4>3
    <3>3. QED
      BY <3>1, <3>2
  <2>4. ASSUME NEW s \in Switches, Prepare(s) PROVE OnlyHeldIsSent'
    BY <2>4 DEF Prepare
  <2>5. CASE Activate \/ Deactivate \/ Read \/ ReadThrows \/ Update \/ Control
    BY <2>5 DEF Activate, Deactivate, Read, ReadThrows, Update, Control
  <2>6. CASE WriteBlocked \/ WriteNothing \/ UNCHANGED vars
    BY <2>6 DEF WriteBlocked, WriteNothing, vars
  <2>7. QED
    BY <2>1, <2>2, <2>3, <2>4, <2>5, <2>6 DEF Next, RealTime, Write
<1>3. QED
  BY <1>1, <1>2, FreshInvariant, HeldControlInvariant, PTL DEF Spec

-----------------------------------------------------------------------------
(***************************************************************************)
(* Exclusive use.  One mode is claimed at most, and during a switch one of *)
(* those at most runs whose block is yet to come.                          *)
(***************************************************************************)
ClaimsInv == DoneInv /\ LoansInv /\ OneMode(claimed)

RunningInv == OneMode(running \ Done)

LEMMA ClaimsInvariant == ASSUME Exclusive PROVE Spec => []ClaimsInv
<1>0. NoLeftovers
  BY DEF Exclusive
<1>1. Init => OneMode(loaned)
  BY DEF Init, OneMode
<1>2. TypeOK /\ OneMode(loaned) /\ [Next]_vars => OneMode(loaned)'
  <2> SUFFICES ASSUME TypeOK, OneMode(loaned), [Next]_vars, loaned' # loaned PROVE OneMode(loaned')
    OBVIOUS
  <2>1. loaned' = Granted(request)
    BY DEF Next, RealTime, Prepare, Activate, Deactivate, Read, ReadThrows, Update, SwitchMode,
       StartMode, StartModeThrows, StopMode, KeepMode, FinishSwitch, HandOver, Control, Write,
       WriteBlocked, WriteNothing, WriteOnce, manager, vars
  <2>2. request = NoSwitch \/ request \in Switches
    BY DEF TypeOK
  <2>3. QED
    BY <2>1, <2>2 DEF Exclusive, OneMode, Granted, NoSwitch
<1>3. TypeOK /\ DoneInv /\ LoansInv /\ OneMode(loaned) => ClaimsInv
  <2> SUFFICES ASSUME TypeOK, DoneInv, LoansInv, OneMode(loaned) PROVE OneMode(claimed)
    BY DEF ClaimsInv
  <2>1. CASE request = NoSwitch
    BY <2>1 DEF LoansInv, OneMode
  <2>2. CASE request # NoSwitch
    <3>1. OneMode(Granted(request))
      BY <2>2 DEF TypeOK, Exclusive
    <3>2. QED
      BY <2>2, <3>1 DEF LoansInv, OneMode
  <2>3. QED
    BY <2>1, <2>2
<1>4. QED
  BY <1>0, <1>1, <1>2, <1>3, TypeCorrect, DoneInvariant, LoansInvariant, PTL DEF Spec

LEMMA RunningInvariant == ASSUME Exclusive PROVE Spec => []RunningInv
<1> USE DEF RunningInv, Modes, JointModes, CartesianModes, Later
<1>1. Init => RunningInv
  BY DEF Init, OneMode, Done
<1>2. TypeOK /\ ClaimsInv /\ RunningInv /\ [Next]_vars => RunningInv'
  <2> SUFFICES ASSUME TypeOK, ClaimsInv, RunningInv, [Next]_vars PROVE RunningInv'
    OBVIOUS
  <2> USE DEF robot, flags, buffers, manager, Halt
  <2>0. ASSUME Done = {}, Done' = {}, running' = running PROVE RunningInv'
    <3>1. running' \ Done' = running \ Done
      BY <2>0
    <3>2. QED
      BY <2>0, <3>1
  <2>1. ASSUME NEW s \in Switches, Prepare(s) PROVE RunningInv'
    <3>1. Done = {} /\ Done' = {} /\ running' = running
      BY <2>1 DEF Prepare, Done, ClaimsInv, DoneInv, Switching
    <3>2. QED
      BY <2>0, <3>1
  <2>2. CASE Activate \/ Deactivate
    BY <2>2 DEF Activate, Deactivate, Done
  <2>3. CASE Read \/ ReadThrows \/ Update \/ Control
    <3>1. Done = {} /\ Done' = {} /\ running' = running
      BY <2>3 DEF Read, ReadThrows, Update, Control, Done
    <3>2. QED
      BY <2>0, <3>1
  <2>4. ASSUME NEW m \in Modes, SwitchMode(m) PROVE RunningInv'
    <3>1. phase = m /\ m \notin Done
      BY <2>4 DEF SwitchMode, StartMode, StartModeThrows, StopMode, KeepMode, Done
    <3>2. ASSUME phase' = NextBlock[m] PROVE Done' = Done \cup {m}
      BY <3>1, <3>2 DEF Done, NextBlock
    <3>3. CASE StartMode(m)
      <4>1. running' \cap Modes = (running \cap Modes) \cup {m}
        BY <3>3 DEF StartMode, StartedWith
      <4>2. QED
        BY <3>2, <3>3, <4>1 DEF StartMode, OneMode
    <3>4. CASE StartModeThrows(m)
      <4>1. running \cap Done = {}
        <5>1. running \cap Done = claimed \cap Done
          BY <3>1 DEF ClaimsInv, DoneInv, Switching
        <5>2. m \in claimed
          BY <3>4 DEF StartModeThrows
        <5>3. QED
          BY <3>1, <5>1, <5>2 DEF ClaimsInv, OneMode, Done
      <4>2. Done' = {} /\ running' = running
        BY <3>4 DEF StartModeThrows, HandOver, Done
      <4>3. QED
        BY <4>1, <4>2 DEF OneMode
    <3>5. CASE StopMode(m) \/ KeepMode(m)
      BY <3>2, <3>5 DEF StopMode, KeepMode, OneMode
    <3>6. QED
      BY <2>4, <3>3, <3>4, <3>5 DEF SwitchMode
  <2>5. CASE FinishSwitch
    <3>1. Done = Modes /\ Done' = {} /\ running' = running
      BY <2>5 DEF FinishSwitch, HandOver, Done
    <3>2. running \cap Modes = claimed \cap Modes
      BY <2>5, <3>1 DEF FinishSwitch, ClaimsInv, DoneInv, Switching
    <3>3. QED
      BY <3>1, <3>2 DEF ClaimsInv, OneMode
  <2>6. CASE Write
    <3>1. Done = {} /\ Done' = {} /\ running' = running
      BY <2>6 DEF Write, WriteBlocked, WriteNothing, WriteOnce, Done
    <3>2. QED
      BY <2>0, <3>1
  <2>7. CASE UNCHANGED vars
    BY <2>7 DEF vars, Done
  <2>8. QED
    BY <2>1, <2>2, <2>3, <2>4, <2>5, <2>6, <2>7 DEF Next, RealTime
<1>3. QED
  BY <1>1, <1>2, TypeCorrect, ClaimsInvariant, PTL DEF Spec

(* When write takes a branch while one mode runs at most, the branch is    *)
(* that of the control, and it carries an elbow or the mode alone.         *)
LEMMA BranchOfControl ==
  ASSUME RunningInv, ControlIsRunning, phase = "write", NEW k \in 1 .. 7, Open(k), control # NoControl,
         control \in Modes
  PROVE  /\ control \in Branches[k] \ first
         /\ \/ Branches[k] = {control}
            \/ control \in CartesianModes /\ Branches[k] = {control, "elbow"}
<1> USE DEF Modes, JointModes, CartesianModes
<1>1. OneMode(running)
  BY DEF RunningInv, Done, Later
<1>2. Branches[k] \subseteq running \ first
  BY DEF Open, Ready
<1>3. \E m \in Modes :
        (Branches[k] = {m}) \/ (m \in CartesianModes /\ Branches[k] = {m, "elbow"})
  BY DEF Branches
<1>4. QED
  BY <1>1, <1>2, <1>3 DEF OneMode, ControlIsRunning

(* Under exclusive use, what a message carries is what its kind says.      *)
THEOREM MessagesOfTheirKind == ASSUME Exclusive PROVE Spec => []OwnKind
<1> USE DEF OwnKind, Idle
<1>1. Init => OwnKind
  BY DEF Init
<1>2. TypeOK /\ ControlInv /\ RunningInv /\ OwnKind /\ [Next]_vars => OwnKind'
  <2> SUFFICES ASSUME TypeOK, ControlInv, RunningInv, OwnKind, [Next]_vars PROVE OwnKind'
    OBVIOUS
  <2>1. ASSUME NEW k \in 1 .. 7, WriteOnce(k) PROVE OwnKind'
    <3>1. CASE sent' = sent
      BY <3>1
    <3>2. CASE sent' = [buffers |-> Branches[k], as |-> control] /\ control # NoControl
      <4>1. control \in Branches[k]
        BY <2>1, <3>2, BranchOfControl DEF WriteOnce, Taken, ControlInv, TypeOK
      <4>2. QED
        BY <3>2, <4>1
    <3>3. QED
      BY <2>1, <3>1, <3>2 DEF WriteOnce
  <2>2. ASSUME NEW m \in Modes, SwitchMode(m) PROVE sent' = sent
    BY <2>2 DEF SwitchMode, StartMode, StartModeThrows, StopMode, KeepMode
  <2>3. CASE sent' \in {sent, Idle}
    BY <2>3
  <2>4. QED
    BY <2>1, <2>2, <2>3 DEF Next, RealTime, Prepare, Activate, Deactivate, Read, ReadThrows, Update,
       FinishSwitch, Control, Write, WriteBlocked, WriteNothing, vars
<1>3. QED
  BY <1>1, <1>2, TypeCorrect, ControlInvariant, RunningInvariant, PTL DEF Spec

-----------------------------------------------------------------------------
(* Under exclusive use, every step of the component is a step of           *)
(* ControlSession, or invisible to the robot.                              *)
THEOREM ComponentImplementsSession == ASSUME Exclusive PROVE Spec => ImplementsSession
<1> DEFINE armed == control # NoControl /\ control \notin first
<1> USE DEF Idle, Session!Silence
<1>1. Init => Session!Init
  BY DEF Init, Session!Init
<1>2. TypeOK /\ ControlInv /\ ClaimsInv /\ RunningInv /\ [Next]_vars
      => [Session!Next]_(Session!svars)
  <2> SUFFICES ASSUME TypeOK, ControlInv, ClaimsInv, RunningInv, [Next]_vars
               PROVE  [Session!Next]_(Session!svars)
    OBVIOUS
  <2> USE DEF Session!Next, Session!svars, robot, flags, buffers, manager, Halt
  <2>1. CASE UNCHANGED <<control, first, sent>>
    BY <2>1
  <2>2. CASE control' = NoControl /\ sent' = sent
    BY <2>2 DEF Session!End
  <2>3. ASSUME NEW k \in 1 .. 7, WriteOnce(k), sent' # sent PROVE Session!Send
    <3>1. control \in Modes /\ sent' = [buffers |-> Branches[k], as |-> control]
          /\ UNCHANGED <<control, first>>
      BY <2>3 DEF WriteOnce, TypeOK
    <3>2. control # NoControl
      BY <3>1 DEF Modes, JointModes, CartesianModes, NoControl
    <3>3. /\ control \in Branches[k] \ first
          /\ \/ Branches[k] = {control}
             \/ control \in CartesianModes /\ Branches[k] = {control, "elbow"}
      BY <2>3, <3>1, <3>2, BranchOfControl DEF WriteOnce, Taken, ControlInv
    <3>4. sent' \in Session!Messages(control)
      BY <3>1, <3>3 DEF Session!Messages
    <3>5. QED
      BY <3>1, <3>2, <3>3, <3>4 DEF Session!Send
  <2>4. CASE Read
    <3>1. sent' = Idle /\ control' = control
      BY <2>4 DEF Read
    <3>2. CASE control = NoControl
      BY <3>1, <3>2 DEF Session!Hush
    <3>3. CASE control # NoControl
      <4>1. armed'
        BY <2>4, <3>1, <3>3 DEF Read, InitializePositionCommands, ControlInv, ControlIsRunning
      <4>2. QED
        BY <3>1, <3>3, <4>1 DEF Session!Arm
    <3>4. QED
      BY <3>2, <3>3
  <2>5. CASE Activate
    <3>1. control = NoControl /\ UNCHANGED <<control, sent>>
      BY <2>5 DEF Activate, ClaimsInv, DoneInv
    <3>2. QED
      BY <3>1
  <2>6. ASSUME NEW m \in Modes, StartMode(m) PROVE Session!Begin(m)
    <3>1. control' = m /\ sent' = sent /\ first' = first \cup (StartedWith(m) \cap Refreshed)
      BY <2>6 DEF StartMode, StartControl, Awaiting
    <3>2. m \in first' <=> m \in Refreshed
      BY <3>1 DEF StartedWith, TypeOK
    <3>3. m # NoControl
      BY DEF Modes, JointModes, CartesianModes, NoControl
    <3>4. armed' = (m \notin Refreshed \cap Modes)
      BY <3>1, <3>2, <3>3
    <3>5. QED
      BY <3>1, <3>4 DEF Session!Begin
  <2>7. ASSUME NEW m \in Modes, SwitchMode(m) PROVE [Session!Next]_(Session!svars)
    <3>1. CASE StartMode(m)
      BY <2>6, <3>1
    <3>2. CASE StartModeThrows(m) \/ StopMode(m) \/ KeepMode(m)
      BY <2>1, <2>2, <3>2 DEF StartModeThrows, StopMode, KeepMode, StopRobot
    <3>3. QED
      BY <2>7, <3>1, <3>2 DEF SwitchMode
  <2>8. ASSUME NEW s \in Switches, Prepare(s) PROVE UNCHANGED <<control, first, sent>>
    BY <2>8 DEF Prepare
  <2>9. CASE Deactivate
    BY <2>2, <2>9 DEF Deactivate, StopRobot
  <2>10. CASE ReadThrows \/ Update \/ FinishSwitch \/ Control
    BY <2>1, <2>10 DEF ReadThrows, Update, FinishSwitch, Control
  <2>11. CASE Write
    BY <2>1, <2>3, <2>11 DEF Write, WriteBlocked, WriteNothing, WriteOnce
  <2>12. CASE UNCHANGED vars
    BY <2>1, <2>12 DEF vars
  <2>13. QED
    BY <2>1, <2>4, <2>5, <2>7, <2>8, <2>9, <2>10, <2>11, <2>12 DEF Next, RealTime
<1>3. QED
  BY <1>1, <1>2, TypeCorrect, ControlInvariant, ClaimsInvariant, RunningInvariant, PTL
     DEF Spec, ImplementsSession, Session!Spec

-----------------------------------------------------------------------------
(***************************************************************************)
(* Switches that go forward.  The mode that runs is that of the control,   *)
(* and it is held or, once its block has started it, claimed: the block    *)
(* that stops the old mode comes before the block that starts the new one. *)
(***************************************************************************)
ForwardInv ==
  /\ running \cap Modes \subseteq {control}
  /\ running \cap Modes \subseteq loaned \cup claimed
  /\ ~Switching => running \cap Modes \subseteq loaned

LEMMA LaterBlocks ==
  ASSUME NEW m \in Modes, NEW n \in Modes, phase = n, m # n, Block[m] <= Block[n] PROVE m \in Done
  BY DEF Modes, JointModes, CartesianModes, Done, Later, Block

(* When a block starts its mode, no other mode runs.                       *)
LEMMA NothingElseRuns ==
  ASSUME Forward, TypeOK, ClaimsInv, RunningInv, ForwardInv,
         NEW m \in Modes, phase = m, m \in claimed \ running
  PROVE  running \cap Modes = {}
<1>1. request \in Switches /\ request.from = loaned
  BY DEF TypeOK, ClaimsInv, DoneInv, LoansInv, Switching
<1>2. claimed \cap Modes = Granted(request) \cap Modes /\ OneMode(claimed)
  BY <1>1 DEF ClaimsInv, DoneInv, LoansInv, Switching
<1>3. ASSUME NEW n \in running \cap Modes PROVE FALSE
  <2>1. n # m
    BY <1>3
  <2>2. n \notin claimed
    BY <1>2, <1>3, <2>1 DEF OneMode
  <2>3. n \in request.from \cap Modes /\ m \in Granted(request) \cap Modes
    BY <1>1, <1>2, <1>3, <2>2 DEF ForwardInv
  <2>4. Block[n] <= Block[m]
    BY <1>1, <2>3 DEF Forward, GoesForward
  <2>5. n \in Done
    BY <2>1, <2>4, <1>3, LaterBlocks
  <2>6. QED
    BY <1>3, <2>2, <2>5 DEF ClaimsInv, DoneInv, Switching
<1>4. QED
  BY <1>3

LEMMA ForwardInvariant == ASSUME Forward PROVE Spec => []ForwardInv
<1>0. Exclusive
  BY DEF Forward
<1> USE DEF ForwardInv, Modes, JointModes, CartesianModes
<1>1. Init => ForwardInv
  BY DEF Init
<1>2. TypeOK /\ ClaimsInv /\ RunningInv /\ ForwardInv /\ [Next]_vars => ForwardInv'
  <2> SUFFICES ASSUME TypeOK, ClaimsInv, RunningInv, ForwardInv, [Next]_vars PROVE ForwardInv'
    OBVIOUS
  <2> USE DEF robot, flags, buffers, manager, Halt, Switching
  <2>1. ASSUME NEW s \in Switches, Prepare(s) PROVE ForwardInv'
    <3>1. ~Switching /\ UNCHANGED <<running, control, loaned>>
      BY <2>1 DEF Prepare, ClaimsInv, DoneInv
    <3>2. QED
      BY <3>1
  <2>2. CASE Activate \/ Read \/ ReadThrows \/ Update \/ Control \/ Write \/ UNCHANGED vars
    BY <2>2 DEF Activate, Read, ReadThrows, Update, Control, Write, WriteBlocked, WriteNothing,
       WriteOnce, vars
  <2>3. CASE Deactivate
    <3>1. loaned = {} /\ ~Switching /\ UNCHANGED <<running, phase, loaned, claimed>>
      BY <2>3 DEF Deactivate, BetweenCalls, Forward
    <3>2. running \cap Modes = {}
      BY <3>1
    <3>3. QED
      BY <3>1, <3>2
  <2>4. ASSUME NEW m \in Modes, SwitchMode(m) PROVE ForwardInv'
    <3>1. phase = m /\ claimed \cap Modes = Granted(request) \cap Modes
      BY <2>4 DEF SwitchMode, StartMode, StartModeThrows, StopMode, KeepMode,
         ClaimsInv, DoneInv, LoansInv
    <3>2. CASE StartMode(m)
      <4>1. running \cap Modes = {}
        BY <3>1, <3>2, NothingElseRuns DEF StartMode
      <4>2. running' \cap Modes = {m} /\ m \in claimed /\ claimed' = claimed /\ control' = m
        BY <3>2, <4>1 DEF StartMode, StartControl, StartedWith
      <4>3. phase' \in Modes \cup {"elbowCheck"}
        BY <3>2 DEF StartMode, NextBlock
      <4>4. QED
        BY <4>2, <4>3
    <3>3. CASE StartModeThrows(m)
      <4>1. running \cap Modes = {} /\ running' = running
        BY <3>1, <3>3, NothingElseRuns DEF StartModeThrows
      <4>2. QED
        BY <4>1
    <3>4. CASE StopMode(m)
      <4>1. running' \cap Modes = (running \cap Modes) \ {m}
        BY <3>4 DEF StopMode, StoppedWith
      <4>2. running' \cap Modes = {}
        BY <3>4, <4>1 DEF StopMode
      <4>3. QED
        BY <4>2
    <3>5. CASE KeepMode(m)
      <4>1. phase' \in Modes \cup {"elbowCheck"} /\ UNCHANGED <<running, control, loaned, claimed>>
        BY <3>5 DEF KeepMode, NextBlock
      <4>2. QED
        BY <4>1
    <3>6. QED
      BY <2>4, <3>2, <3>3, <3>4, <3>5 DEF SwitchMode
  <2>5. CASE FinishSwitch
    <3>1. running \cap Modes \subseteq claimed /\ claimed \cap Modes = Granted(request) \cap Modes
      BY <2>5 DEF FinishSwitch, RunningInv, ClaimsInv, DoneInv, LoansInv, Done, Later
    <3>2. loaned' = Granted(request) /\ UNCHANGED <<running, control>>
      BY <2>5 DEF FinishSwitch, HandOver
    <3>3. QED
      BY <3>1, <3>2
  <2>6. QED
    BY <2>1, <2>2, <2>3, <2>4, <2>5 DEF Next, RealTime
<1>3. QED
  BY <1>0, <1>1, <1>2, TypeCorrect, ClaimsInvariant, RunningInvariant, PTL DEF Spec

(* A branch of write finds the control of its own mode.                    *)
LEMMA BranchFindsControl ==
  ASSUME FlagsFollowControl, ForwardInv, phase = "write", NEW k \in 1 .. 7, Taken(k)
  PROVE  control # NoControl /\ Message(k) = control /\ control \in loaned
<1> USE DEF Modes, JointModes, CartesianModes, NoControl
<1>1. Branches[k] \subseteq running
  BY DEF Taken, Open, Ready
<1>2. running \cap Modes \subseteq {control} /\ running \cap Modes \subseteq loaned
  BY DEF ForwardInv, Switching
<1>3. CASE k \in 1 .. 3
  BY <1>1, <1>2, <1>3 DEF Branches, Message, JointMessage, FlagsFollowControl
<1>4. CASE k \in 4 .. 7
  BY <1>1, <1>2, <1>4 DEF Branches, Message
<1>5. QED
  BY <1>3, <1>4

(* While switches go forward, no write finds the robot without a control,  *)
(* or with one of another kind, however starts fail and whatever survives  *)
(* the failure.                                                            *)
THEOREM ControlWhenWriting == ASSUME Forward PROVE Spec => []WriteAfterSwitch
<1> USE DEF WriteAfterSwitch
<1>1. Init => WriteAfterSwitch
  BY DEF Init
<1>2. TypeOK /\ ControlInv /\ ForwardInv /\ WriteAfterSwitch /\ [Next]_vars => WriteAfterSwitch'
  <2> SUFFICES ASSUME TypeOK, ControlInv, ForwardInv, WriteAfterSwitch, [Next]_vars
               PROVE  WriteAfterSwitch'
    OBVIOUS
  <2> USE DEF manager, Halt
  <2>1. ASSUME NEW k \in 1 .. 7, WriteOnce(k) PROVE failure' = failure
    BY <2>1, BranchFindsControl DEF WriteOnce, ControlInv
  <2>2. ASSUME NEW m \in Modes, SwitchMode(m) PROVE failure' \in {failure, "start_failed"}
    BY <2>2 DEF SwitchMode, StartMode, StartModeThrows, StopMode, KeepMode
  <2>3. ASSUME NEW s \in Switches, Prepare(s) PROVE failure' \in {failure, "odd_count"}
    BY <2>3 DEF Prepare
  <2>4. QED
    BY <2>1, <2>2, <2>3 DEF Next, RealTime, Activate, Deactivate, Read, ReadThrows, Update,
       FinishSwitch, Control, Write, WriteBlocked, WriteNothing, vars
<1>3. QED
  BY <1>1, <1>2, TypeCorrect, ControlInvariant, ForwardInvariant, PTL DEF Spec

-----------------------------------------------------------------------------
(***************************************************************************)
(* The elbow.  It runs with a cartesian mode only, and with the one that   *)
(* runs exactly if it is held, or claimed, together with that mode.        *)
(***************************************************************************)
ElbowInv ==
  /\ claimed = IF request = NoSwitch THEN loaned ELSE Granted(request)
  /\ "elbow" \in running => running \cap CartesianModes # {}
  /\ \A m \in running \cap CartesianModes :
       /\ m \in loaned => ("elbow" \in running <=> "elbow" \in loaned)
       /\ m \in claimed => ("elbow" \in running <=> "elbow" \in claimed)
  /\ "cartPose" \in running \ first => "elbow" \notin running \cap first

LEMMA ElbowOfSwitch ==
  ASSUME NEW s \in Switches, ElbowFollows(s), OneMode(s.from), OneMode(Granted(s)),
         NEW m \in s.from \cap Modes
  PROVE  /\ m \in Granted(s) => ("elbow" \in s.from <=> "elbow" \in Granted(s))
         /\ m \notin Granted(s) => "elbow" \notin s.from \cap Granted(s)
<1>1. CASE m \in Granted(s)
  <2>1. s.from \cap Modes = {m} /\ Granted(s) \cap Modes = {m}
    BY <1>1 DEF OneMode
  <2>2. QED
    BY <1>1, <2>1 DEF ElbowFollows
<1>2. CASE m \notin Granted(s)
  BY <1>2 DEF ElbowFollows
<1>3. QED
  BY <1>1, <1>2

LEMMA ElbowInvariant ==
  ASSUME Forward, \A s \in Switches : ElbowFollows(s)
  PROVE  Spec => []ElbowInv
<1>0. Exclusive
  BY DEF Forward
<1> USE DEF ElbowInv
<1>1. Init => ElbowInv
  BY DEF Init, Refreshed
<1>2. TypeOK /\ ClaimsInv /\ RunningInv /\ ForwardInv /\ ElbowInv /\ [Next]_vars => ElbowInv'
  <2> SUFFICES ASSUME TypeOK, ClaimsInv, RunningInv, ForwardInv, ElbowInv, [Next]_vars
               PROVE  ElbowInv'
    OBVIOUS
  <2> USE DEF robot, flags, buffers, manager, Halt
  <2>0. CartesianModes \subseteq Modes
    BY DEF Modes
  <2>1. ASSUME NEW s \in Switches, Prepare(s) PROVE ElbowInv'
    <3>1. s \in Switch /\ s # NoSwitch /\ s.oddStart = {} /\ s.oddStop = {}
          /\ OneMode(s.from) /\ OneMode(Granted(s))
      BY <1>0, SwitchesLegal DEF Legal, NoSwitch, Exclusive, NoLeftovers, Odd, Switch
    <3>2. /\ request = NoSwitch /\ request' = s /\ s.from = loaned
          /\ UNCHANGED <<loaned, running, first>>
      BY <1>0, <2>1, <3>1 DEF Prepare, Odd, Exclusive, NoLeftovers
    <3>3. claimed = loaned /\ claimed' = (claimed \ s.stop) \cup s.start
      BY <2>1, <3>1, <3>2 DEF Prepare, Claims, Reached, Switch, TypeOK
    <3>4. claimed' = Granted(s)
      BY <3>2, <3>3 DEF Granted
    <3>5. ASSUME NEW m \in running \cap CartesianModes
          PROVE  /\ m \in loaned => ("elbow" \in running <=> "elbow" \in loaned)
                 /\ m \in claimed' => ("elbow" \in running <=> "elbow" \in claimed')
      <4>1. m \in s.from \cap Modes
        BY <2>0, <2>1, <3>2, <3>5 DEF Prepare, ForwardInv, Switching, ClaimsInv, DoneInv, LoansInv
      <4>2. QED
        BY <3>1, <3>2, <3>4, <3>5, <4>1, ElbowOfSwitch
    <3>6. QED
      BY <3>1, <3>2, <3>4, <3>5
  <2>2. CASE Activate \/ Read
    BY <2>2 DEF Activate, Read, InitializePositionCommands
  <2>3. CASE Deactivate \/ ReadThrows \/ Update \/ Control \/ Write \/ UNCHANGED vars
    BY <2>3 DEF Deactivate, ReadThrows, Update, Control, Write, WriteBlocked, WriteNothing, WriteOnce,
       vars
  <2>4. ASSUME NEW m \in Modes, SwitchMode(m) PROVE ElbowInv'
    <3>1. phase = m /\ request # NoSwitch /\ request \in Switches
      BY <2>4 DEF SwitchMode, StartMode, StartModeThrows, StopMode, KeepMode,
         ClaimsInv, DoneInv, LoansInv, Switching,
         TypeOK
    <3>2. request.from = loaned /\ claimed = Granted(request)
      BY <3>1 DEF ClaimsInv, DoneInv, LoansInv
    <3>3. OneMode(loaned) /\ OneMode(claimed) /\ ElbowFollows(request)
      BY <1>0, <3>1, <3>2 DEF Exclusive
    <3>4. CASE StartMode(m)
      <4>1. running \cap Modes = {} /\ "elbow" \notin running
        BY <2>0, <3>1, <3>4, NothingElseRuns DEF StartMode
      <4>2. /\ running' \cap Modes = {m}
            /\ "elbow" \in running' <=> m \in CartesianModes /\ "elbow" \in claimed
            /\ first' = first \cup (StartedWith(m) \cap Refreshed)
            /\ UNCHANGED <<claimed, loaned, request>> /\ m \in claimed
        BY <3>4, <4>1 DEF StartMode, StartedWith, ElbowStarts, Awaiting, Modes, JointModes,
           CartesianModes
      <4>3. m \in loaned => ("elbow" \in loaned <=> "elbow" \in claimed)
        BY <3>1, <3>2, <3>3, <4>2, ElbowOfSwitch
      <4>4. "cartPose" \in running' => "cartPose" \in first'
        BY <4>2 DEF StartedWith, Refreshed, Modes, JointModes, CartesianModes
      <4>5. "elbow" \in running' => running' \cap CartesianModes # {}
        BY <4>2
      <4>6. running' \cap CartesianModes \subseteq {m}
        BY <2>0, <4>2
      <4>7. QED
        BY <4>2, <4>3, <4>4, <4>5, <4>6
    <3>5. CASE StartModeThrows(m)
      <4>1. running \cap CartesianModes = {} /\ "elbow" \notin running
        BY <2>0, <3>1, <3>5, NothingElseRuns DEF StartModeThrows
      <4>2. UNCHANGED <<running, claimed, first>>
        BY <3>5 DEF StartModeThrows
      <4>3. \/ UNCHANGED <<request, loaned>>
            \/ request' = NoSwitch /\ loaned' = Granted(request)
        BY <3>5 DEF StartModeThrows, HandOver
      <4>4. claimed' = IF request' = NoSwitch THEN loaned' ELSE Granted(request')
        BY <3>1, <3>2, <4>2, <4>3
      <4>5. QED
        BY <4>1, <4>2, <4>4
    <3>6. CASE StopMode(m)
      <4>1. m \in running /\ m \notin claimed /\ m \in loaned
        BY <3>6 DEF StopMode, ForwardInv
      <4>2. ASSUME m \in CartesianModes, "elbow" \in running PROVE "elbow" \notin claimed
        BY <3>1, <3>2, <3>3, <4>1, <4>2, ElbowOfSwitch
      <4>3. claimed' = claimed /\ UNCHANGED <<loaned, request, first>>
        BY <3>6, <4>1, <4>2 DEF StopMode, StoppedWith
      <4>4. running \cap Modes = {m}
        BY <4>1 DEF ForwardInv
      <4>5. running' \cap CartesianModes = {} /\ "elbow" \notin running'
        BY <2>0, <3>6, <4>4 DEF StopMode, StoppedWith, CartesianModes
      <4>6. QED
        BY <4>3, <4>5 DEF CartesianModes
    <3>7. CASE KeepMode(m)
      BY <3>7 DEF KeepMode
    <3>8. QED
      BY <2>4, <3>4, <3>5, <3>6, <3>7 DEF SwitchMode
  <2>5. CASE FinishSwitch
    <3>1. request # NoSwitch /\ running \cap Modes \subseteq claimed
      BY <2>5 DEF FinishSwitch, RunningInv, ClaimsInv, DoneInv, LoansInv, Switching, Done, Later,
         Modes, JointModes,
         CartesianModes
    <3>2. loaned' = claimed /\ claimed' = claimed /\ request' = NoSwitch /\ UNCHANGED <<running, first>>
      BY <2>5, <3>1 DEF FinishSwitch, HandOver
    <3>3. QED
      BY <2>0, <3>1, <3>2
  <2>6. QED
    BY <2>1, <2>2, <2>3, <2>4, <2>5 DEF Next, RealTime
<1>3. QED
  BY <1>0, <1>1, <1>2, TypeCorrect, ClaimsInvariant, RunningInvariant, ForwardInvariant, PTL DEF Spec

(* The branch of a cartesian mode carries the elbow exactly if it is held. *)
LEMMA BranchOfElbow ==
  ASSUME FlagsFollowControl, ForwardInv, ElbowInv, phase = "write", NEW k \in 4 .. 7, Taken(k)
  PROVE  "elbow" \in Branches[k] <=> "elbow" \in loaned
<1> USE DEF CartesianModes
<1>1. Open(k) /\ Branches[k] \subseteq running \ first
  BY DEF Taken, Open, Ready
<1>2. running \cap Modes \subseteq loaned
  BY DEF ForwardInv, Switching, Modes, JointModes
<1>3. \E m \in CartesianModes : m \in running
  BY <1>1 DEF Branches
<1>4. "elbow" \in running <=> "elbow" \in loaned
  BY <1>2, <1>3 DEF ElbowInv, Modes
<1>5. CASE k \in {4, 5}
  BY <1>1, <1>4, <1>5 DEF Branches
<1>6. CASE k = 6
  <2>1. ~Open(5)
    BY <1>6 DEF Taken
  <2>2. "elbow" \notin running
    BY <1>1, <1>6, <2>1 DEF Branches, Open, Ready, ElbowInv
  <2>3. QED
    BY <1>4, <1>6, <2>2 DEF Branches
<1>7. CASE k = 7
  BY <1>1, <1>4, <1>7 DEF Branches, Open
<1>8. QED
  BY <1>5, <1>6, <1>7

(* While switches go forward and take no elbow along, the elbow goes with  *)
(* the cartesian commands of those who hold it, and with no others.        *)
THEOREM ElbowGoesAlong ==
  ASSUME Forward, \A s \in Switches : ElbowFollows(s)
  PROVE  Spec => []ElbowAsHeld
<1> USE DEF ElbowAsHeld, Idle, Modes, JointModes, CartesianModes
<1>1. Init => ElbowAsHeld
  BY DEF Init, NoControl
<1>2. TypeOK /\ ControlInv /\ FreshInv /\ ForwardInv /\ ElbowInv /\ ElbowAsHeld /\ [Next]_vars
      => ElbowAsHeld'
  <2> SUFFICES ASSUME TypeOK, ControlInv, FreshInv, ForwardInv, ElbowInv, ElbowAsHeld, [Next]_vars
               PROVE  ElbowAsHeld'
    OBVIOUS
  <2> USE DEF manager, flags, buffers, robot, Halt
  <2>1. ASSUME NEW k \in 1 .. 7, WriteOnce(k) PROVE ElbowAsHeld'
    <3>1. phase = "write" /\ Taken(k) /\ phase' = "read" /\ loaned' = loaned
          /\ sent' = [buffers |-> Branches[k], as |-> Message(k)]
      BY <2>1, BranchFindsControl DEF WriteOnce, ControlInv
    <3>2. k \in 4 .. 7 => ("elbow" \in Branches[k] <=> "elbow" \in loaned)
      BY <3>1, BranchOfElbow DEF ControlInv
    <3>3. k \in 1 .. 3 => Message(k) \notin CartesianModes
      BY DEF Message, JointMessage, NoControl
    <3>4. QED
      BY <3>1, <3>2, <3>3
  <2>2. ASSUME NEW m \in Modes, SwitchMode(m) PROVE ElbowAsHeld'
    <3>1. phase \in Modes /\ sent' = sent /\ phase' # "read"
      BY <2>2 DEF SwitchMode, StartMode, StartModeThrows, StopMode, KeepMode, NextBlock, HandOver
    <3>2. QED
      BY <3>1
  <2>3. ASSUME NEW s \in Switches, Prepare(s) PROVE ElbowAsHeld'
    BY <2>3 DEF Prepare
  <2>4. CASE Activate \/ Deactivate \/ UNCHANGED vars
    BY <2>4 DEF Activate, Deactivate, vars
  <2>5. CASE Read \/ ReadThrows \/ Update \/ FinishSwitch \/ Control
    BY <2>5 DEF Read, ReadThrows, Update, FinishSwitch, HandOver, Control
  <2>6. CASE WriteBlocked \/ WriteNothing
    BY <2>6 DEF WriteBlocked, WriteNothing, FreshInv, NoControl
  <2>7. QED
    BY <2>1, <2>2, <2>3, <2>4, <2>5, <2>6 DEF Next, RealTime, Write
<1>3. QED
  BY <1>1, <1>2, TypeCorrect, ControlInvariant, FreshInvariant, ForwardInvariant, ElbowInvariant,
     PTL DEF Spec

-----------------------------------------------------------------------------
(* A block that stops a mode after an earlier block has started another    *)
(* takes the control of the new one away and leaves its flag: the robot    *)
(* has no control and the component counts on one.  This is what every     *)
(* switch to an earlier block comes to, whatever the faults.               *)
THEOREM HandoverLosesControl ==
  Spec => [][\A m, n \in Modes :
               StopMode(m) /\ n \in claimed \cap Done => control' = NoControl /\ n \in running']_vars
<1>1. DoneInv /\ [Next]_vars
      => [\A m, n \in Modes :
           StopMode(m) /\ n \in claimed \cap Done => control' = NoControl /\ n \in running']_vars
  <2> SUFFICES ASSUME DoneInv, NEW m \in Modes, NEW n \in Modes, StopMode(m),
                      n \in claimed \cap Done
               PROVE  control' = NoControl /\ n \in running'
    OBVIOUS
  <2>1. control' = NoControl
    BY DEF StopMode, StopRobot
  <2>2. n \in running /\ n # m
    BY DEF StopMode, DoneInv, Switching, Modes, JointModes, CartesianModes
  <2>3. n \notin StoppedWith(m)
    BY <2>2 DEF StoppedWith, Modes, JointModes, CartesianModes
  <2>4. QED
    BY <2>1, <2>2, <2>3 DEF StopMode
<1>2. QED
  BY <1>1, DoneInvariant, PTL DEF Spec

-----------------------------------------------------------------------------
(***************************************************************************)
(* What is safe in the liveness of switches and of held modes.             *)
(***************************************************************************)

(* How far the real-time thread is from handing a prepared switch over.    *)
Ahead ==
  [control |-> 10, write |-> 9, read |-> 8, update |-> 7, effort |-> 6, velocity |-> 5,
   position |-> 4, cartVel |-> 3, cartPose |-> 2, elbowCheck |-> 1, halted |-> 0]

(* A prepared switch is handed over within ten steps of the real-time      *)
(* thread, or a step of that thread ends it: no call of the service thread *)
(* comes between, and no step of the loop goes back.                       *)
THEOREM SwitchTakesFewSteps ==
  Spec => [][request # NoSwitch =>
               request' = NoSwitch \/ phase' = "halted" \/ Ahead[phase'] < Ahead[phase]]_vars
<1>1. [Next]_vars
      => [request # NoSwitch =>
            request' = NoSwitch \/ phase' = "halted" \/ Ahead[phase'] < Ahead[phase]]_vars
  <2> SUFFICES ASSUME Next, request # NoSwitch
               PROVE  request' = NoSwitch \/ phase' = "halted" \/ Ahead[phase'] < Ahead[phase]
    OBVIOUS
  <2> USE DEF Ahead, Halt
  <2>1. ASSUME NEW m \in Modes, SwitchMode(m)
        PROVE  request' = NoSwitch \/ phase' = "halted" \/ Ahead[phase'] < Ahead[phase]
    BY <2>1 DEF SwitchMode, StartMode, StartModeThrows, HandOver, StopMode, KeepMode, NextBlock,
       Modes, JointModes, CartesianModes
  <2>2. CASE Read \/ ReadThrows \/ Update
    BY <2>2 DEF Read, ReadThrows, Update
  <2>3. CASE FinishSwitch \/ Control
    BY <2>3 DEF FinishSwitch, HandOver, Control
  <2>4. CASE Write
    BY <2>4 DEF Write, WriteBlocked, WriteNothing, WriteOnce
  <2>5. ASSUME Activate \/ Deactivate \/ \E s \in Switches : Prepare(s) PROVE FALSE
    BY <2>5 DEF Activate, Deactivate, BetweenCalls, Prepare
  <2>6. QED
    BY <2>1, <2>2, <2>3, <2>4, <2>5 DEF Next, RealTime
<1>2. QED
  BY <1>1, PTL DEF Spec

(* After a switch that went well every mode that controllers hold runs.    *)
HeldInv == ~Switching /\ switched = "ok" => loaned \cap Modes \subseteq running

LEMMA HeldInvariant == ASSUME Exclusive PROVE Spec => []HeldInv
<1> USE DEF HeldInv
<1>1. Init => HeldInv
  BY DEF Init
<1>2. TypeOK /\ ClaimsInv /\ HeldInv /\ [Next]_vars => HeldInv'
  <2> SUFFICES ASSUME TypeOK, ClaimsInv, HeldInv, [Next]_vars PROVE HeldInv'
    OBVIOUS
  <2> USE DEF robot, flags, buffers, manager, Halt, Switching
  <2>1. ASSUME NEW m \in Modes, SwitchMode(m) PROVE HeldInv'
    <3>1. NextBlock[m] \in Modes \cup {"elbowCheck"}
      BY DEF NextBlock, Modes, JointModes, CartesianModes
    <3>2. CASE StartModeThrows(m)
      BY <3>2 DEF StartModeThrows
    <3>3. QED
      BY <2>1, <3>1, <3>2 DEF SwitchMode, StartMode, StopMode, KeepMode
  <2>2. CASE FinishSwitch
    <3>1. claimed \cap Modes \subseteq running
      BY <2>2 DEF FinishSwitch, ClaimsInv, DoneInv, Switching, Done, Later, Modes, JointModes,
         CartesianModes
    <3>2. loaned' \cap Modes = claimed \cap Modes /\ running' = running
      BY <2>2 DEF FinishSwitch, HandOver, ClaimsInv, DoneInv, LoansInv
    <3>3. QED
      BY <3>1, <3>2
  <2>3. CASE Update
    BY <2>3 DEF Update, Modes, JointModes, CartesianModes
  <2>4. ASSUME NEW s \in Switches, Prepare(s) PROVE HeldInv'
    <3>1. ~Switching /\ UNCHANGED <<running, loaned, switched>>
      BY <2>4 DEF Prepare, ClaimsInv, DoneInv
    <3>2. QED
      BY <3>1
  <2>5. CASE Activate \/ Deactivate \/ Read \/ ReadThrows \/ Control
    <3>1. ~Switching /\ UNCHANGED <<running, loaned, switched>>
      BY <2>5 DEF Activate, Deactivate, BetweenCalls, Read, ReadThrows, Control, Modes, JointModes,
         CartesianModes
    <3>2. QED
      BY <3>1
  <2>6. CASE Write \/ UNCHANGED vars
    <3>1. UNCHANGED <<running, loaned, switched>>
      BY <2>6 DEF Write, WriteBlocked, WriteNothing, WriteOnce, vars
    <3>2. Write => ~Switching
      BY DEF Write, WriteBlocked, WriteNothing, WriteOnce, Modes, JointModes, CartesianModes
    <3>3. UNCHANGED vars => (Switching <=> Switching')
      BY DEF vars
    <3>4. QED
      BY <2>6, <3>1, <3>2, <3>3
  <2>7. QED
    BY <2>1, <2>2, <2>3, <2>4, <2>5, <2>6 DEF Next, RealTime
<1>3. QED
  BY <1>1, <1>2, TypeCorrect, ClaimsInvariant, PTL DEF Spec

(* A mode that runs and does not wait for the robot's state has a branch.  *)
LEMMA BranchIsOpen ==
  ASSUME NEW m \in running \cap Modes, running \cap first = {} PROVE \E k \in 1 .. 7 : Open(k)
<1> USE DEF Open, Ready, Branches
<1>1. CASE m \in JointModes
  <2>1. Open(1) \/ Open(2) \/ Open(3)
    BY <1>1 DEF JointModes
  <2>2. QED
    BY <2>1
<1>2. CASE m = "cartPose"
  <2>1. Open(6)
    BY <1>2
  <2>2. QED
    BY <2>1
<1>3. CASE m = "cartVel"
  <2>1. Open(4) \/ Open(7)
    BY <1>3
  <2>2. QED
    BY <2>1
<1>4. QED
  BY <1>1, <1>2, <1>3 DEF Modes, CartesianModes

(* While switches go forward, every write that does not throw sends a      *)
(* command of the mode that controllers hold, from the first read after    *)
(* the switch on and whatever was deactivated or failed before; and it     *)
(* sends commands of no mode that they do not hold.                        *)
THEOREM HeldIsSent ==
  ASSUME Forward
  PROVE  Spec => [][phase = "write" /\ phase' = "read" =>
                      /\ sent'.as \in loaned \cup {NoControl}
                      /\ switched = "ok" /\ running \cap first = {} =>
                           \A m \in loaned \cap Modes : sent'.as = m]_vars
<1>0. Exclusive
  BY DEF Forward
<1>1. ControlInv /\ FreshInv /\ ForwardInv /\ HeldInv /\ [Next]_vars
      => [phase = "write" /\ phase' = "read" =>
            /\ sent'.as \in loaned \cup {NoControl}
            /\ switched = "ok" /\ running \cap first = {} =>
                 \A m \in loaned \cap Modes : sent'.as = m]_vars
  <2> SUFFICES ASSUME ControlInv, FreshInv, ForwardInv, HeldInv, Next, phase = "write", phase' = "read"
               PROVE  /\ sent'.as \in loaned \cup {NoControl}
                      /\ switched = "ok" /\ running \cap first = {} =>
                           \A m \in loaned \cap Modes : sent'.as = m
    OBVIOUS
  <2>1. Write
    BY DEF Next, RealTime, Read, ReadThrows, Update, SwitchMode, StartMode, StartModeThrows, StopMode,
       KeepMode, FinishSwitch, Control, Activate, Deactivate, Prepare, Halt, Modes, JointModes,
       CartesianModes
  <2>2. switched = "ok" => \A m \in loaned \cap Modes : m \in running /\ m = control
    BY DEF HeldInv, ForwardInv, Switching, Modes, JointModes, CartesianModes
  <2>3. CASE WriteNothing
    <3>1. sent'.as = NoControl
      BY <2>3 DEF WriteNothing, FreshInv, Idle
    <3>2. ~\E k \in 1 .. 7 : Open(k)
      BY <2>3 DEF WriteNothing
    <3>3. switched = "ok" /\ running \cap first = {} => loaned \cap Modes = {}
      BY <2>2, <3>2, BranchIsOpen
    <3>4. QED
      BY <3>1, <3>3
  <2>4. ASSUME NEW k \in 1 .. 7, WriteOnce(k)
        PROVE  sent'.as = control /\ control \in loaned
    <3>1. Taken(k)
      BY <2>4 DEF WriteOnce
    <3>2. control # NoControl /\ Message(k) = control /\ control \in loaned
      BY <3>1, BranchFindsControl DEF ControlInv
    <3>3. sent' = [buffers |-> Branches[k], as |-> Message(k)]
      BY <2>4, <3>2 DEF WriteOnce
    <3>4. QED
      BY <3>2, <3>3
  <2>5. CASE WriteBlocked
    BY <2>5 DEF WriteBlocked, Halt
  <2>6. QED
    BY <2>1, <2>2, <2>3, <2>4, <2>5 DEF Write
<1>2. QED
  BY <1>0, <1>1, ControlInvariant, FreshInvariant, ForwardInvariant, HeldInvariant, PTL DEF Spec

=============================================================================
