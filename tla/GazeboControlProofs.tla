------------------------- MODULE GazeboControlProofs -------------------------
(***************************************************************************)
(* Safety of GazeboControl for any set of joints and any period.  The      *)
(* argument has two halves.  A joint's commands always come from the       *)
(* branch that its bits select, because the bits change only in an         *)
(* iteration whose physics has taken the commands (RunInv).  The bits      *)
(* select what a controller holds when controllers hold one method of a    *)
(* joint at most (BitsInv).                                                *)
(***************************************************************************)
EXTENDS GazeboControl, TLAPS

NoCommand == {"absent", "zero"}

CommandsTaken ==
  \A j \in Joints : velocity[j] \in NoCommand /\ force[j] \in NoCommand

FromBranch(j) ==
  /\ velocity[j] \in NoCommand \/ (velocity[j] = Branch(j) /\ Branch(j) # "effort")
  /\ force[j] \in NoCommand \/ (force[j] = Branch(j) /\ Branch(j) = "effort")

RunInv ==
  /\ phase \in {"pre", "physics"} => age < Period
  /\ phase = "post" /\ age = Period => CommandsTaken
  /\ \A j \in Joints \ Mimics : FromBranch(j)

Inv == TypeOK /\ RunInv

-----------------------------------------------------------------------------
USE JointsAssumption

LEMMA InvInit == Init => Inv
  <1>. SUFFICES ASSUME Init PROVE Inv
    OBVIOUS
  <1>1. TypeOK
    BY DEF Init, TypeOK, Methods, Handles
  <1>2. RunInv
    BY DEF Init, RunInv, FromBranch, NoCommand
  <1>. QED BY <1>1, <1>2 DEF Inv

(* The values that a write may leave in the components.                    *)
LEMMA WrittenType ==
  ASSUME TypeOK, NEW j \in Joints
  PROVE  /\ VelocityOf(j) \in {"absent", "zero", "velocity", "position", "hold", "mimic"}
         /\ ForceOf(j) \in {"absent", "zero", "effort", "mimic"}
         /\ MimicVelocity(j) \in {"absent", "zero", "velocity", "position", "hold", "mimic"}
         /\ MimicForce(j) \in {"absent", "zero", "effort", "mimic"}
  BY DEF TypeOK, VelocityOf, ForceOf, MimicVelocity, MimicForce, Put

LEMMA PreUpdateStep == ASSUME Inv, PreUpdate PROVE Inv'
  <1>1. TypeOK'
    BY WrittenType DEF Inv, TypeOK, PreUpdate
  <1>2. ASSUME NEW j \in Joints \ Mimics PROVE FromBranch(j)'
    <2>1. /\ velocity'[j] = VelocityOf(j) /\ force'[j] = ForceOf(j)
          /\ method' = method /\ FromBranch(j)
      BY DEF Inv, RunInv, PreUpdate
    <2>2. Branch(j)' = Branch(j)
      BY <2>1 DEF Branch
    <2>. QED
      BY <2>1, <2>2 DEF FromBranch, NoCommand, VelocityOf, ForceOf, Put
  <1>3. RunInv'
    BY <1>2 DEF Inv, RunInv, PreUpdate
  <1>. QED BY <1>1, <1>3 DEF Inv

LEMMA StepStep == ASSUME Inv, Step PROVE Inv'
  <1>1. TypeOK'
    BY DEF Inv, TypeOK, RunInv, Step, Taken
  <1>2. CommandsTaken'
    BY DEF Inv, TypeOK, Step, Taken, CommandsTaken, NoCommand
  <1>3. RunInv'
    BY <1>2 DEF RunInv, Step, CommandsTaken, FromBranch
  <1>. QED BY <1>1, <1>3 DEF Inv

(* What a performed switch leaves of the bits is a set of methods.         *)
LEMMA PostUpdateStep == ASSUME Inv, PostUpdate PROVE Inv'
  <1>1. CASE Due
    <2>1. TypeOK'
      <3>1. request \in Switch
        BY DEF Inv, TypeOK, NoSwitch, Switch
      <3>2. Granted(request) \subseteq Handles
        BY <3>1 DEF Granted, Switch
      <3>3. ASSUME NEW j \in Joints PROVE Switched(j, request) \in SUBSET Methods
        BY DEF Inv, TypeOK, Switched
      <3>4. method' \in [Joints -> SUBSET Methods]
        BY <1>1, <3>3 DEF PostUpdate
      <3>5. held' \subseteq Handles
        BY <1>1, <3>2 DEF Inv, TypeOK, PostUpdate
      <3>. QED BY <1>1, <3>4, <3>5 DEF Inv, TypeOK, PostUpdate
    <2>2. CommandsTaken
      BY <1>1 DEF Inv, TypeOK, RunInv, PostUpdate, Due
    <2>3. RunInv'
      BY <1>1, <2>2 DEF RunInv, PostUpdate, CommandsTaken, FromBranch
    <2>. QED BY <2>1, <2>3 DEF Inv
  <1>2. CASE ~Due
    <2>1. TypeOK'
      BY <1>2 DEF Inv, TypeOK, PostUpdate
    <2>2. ASSUME NEW j \in Joints \ Mimics PROVE FromBranch(j)'
      BY <1>2 DEF Inv, RunInv, PostUpdate, FromBranch, Branch
    <2>3. RunInv'
      BY <1>2, <2>2 DEF Inv, TypeOK, RunInv, PostUpdate, Due
    <2>. QED BY <2>1, <2>3 DEF Inv
  <1>. QED BY <1>1, <1>2

LEMMA OtherStep ==
  ASSUME Inv, Paused \/ (\E s \in Switches : Request(s)) \/ UNCHANGED vars PROVE Inv'
  <1>1. UNCHANGED <<method, velocity, force, age>>
    BY DEF Paused, Request, vars
  <1>2. TypeOK'
    BY <1>1 DEF Inv, TypeOK, Paused, Request, vars
  <1>3. ASSUME NEW j \in Joints \ Mimics PROVE FromBranch(j)'
    BY <1>1 DEF Inv, RunInv, FromBranch, Branch
  <1>4. RunInv'
    BY <1>1, <1>3 DEF Inv, TypeOK, RunInv, CommandsTaken, Paused, Request, vars
  <1>. QED BY <1>2, <1>4 DEF Inv

LEMMA InvNext == Inv /\ [Next]_vars => Inv'
  BY PreUpdateStep, StepStep, PostUpdateStep, OtherStep DEF Next, Simulation

THEOREM Invariance == Spec => []Inv
  BY InvInit, InvNext, PTL DEF Spec

(* The variables keep their types and the clock its bound, for any joints. *)
THEOREM GazeboTypeCorrect == Spec => []TypeOK
  <1>1. Inv => TypeOK BY DEF Inv
  <1>. QED BY <1>1, Invariance, PTL

(* The controllers are updated as soon as their period has passed.         *)
THEOREM ControllersKeepRate == Spec => []RateKept
  <1>1. Inv => RateKept BY DEF Inv, RunInv, RateKept
  <1>. QED BY <1>1, Invariance, PTL

(* No joint gets a velocity and a force in the same iteration.             *)
THEOREM JointsGetOneCommand == Spec => []OneCommand
  <1>1. Inv => OneCommand BY DEF Inv, RunInv, FromBranch, NoCommand, OneCommand
  <1>. QED BY <1>1, Invariance, PTL

-----------------------------------------------------------------------------
(***************************************************************************)
(* The bits, when controllers hold one method of a joint.                  *)
(***************************************************************************)

Unheld(j) == \A m \in Methods : <<j, m>> \notin held

BitsInv ==
  /\ request # NoSwitch => request.from = held
  /\ OneMethod(held)
  /\ \A j \in Joints \ Mimics :
       /\ Unheld(j) => method[j] \subseteq {"effort"}
       /\ \A m \in Methods :
            <<j, m>> \in held => m \in method[j] /\ method[j] \subseteq {m, "effort"}

LEMMA BitsInit == Init => BitsInv
  BY DEF Init, BitsInv, OneMethod

(* A switch keeps the bits: what it stops leaves none, what it starts      *)
(* without a stop finds at most the initial one.                           *)
LEMMA BitsSwitch ==
  ASSUME Exclusive, TypeOK, BitsInv, PostUpdate, Due, request # NoSwitch
  PROVE  BitsInv'
  <1>. DEFINE s == request
  <1>1. s \in Switches /\ s.from = held /\ held' = Granted(s) /\ request' = NoSwitch
    BY DEF TypeOK, BitsInv, PostUpdate
  <1>2. /\ s.stop \subseteq held /\ held' = (held \ s.stop) \cup s.start
        /\ s.start \cap (held \ s.stop) = {}
    BY <1>1 DEF Granted
  <1>3. OneMethod(held')
    BY <1>1 DEF Exclusive
  <1>4. ASSUME NEW m \in Methods PROVE Kept(m) = {}
    BY DEF Kept, Methods
  <1>5. ASSUME NEW j \in Joints \ Mimics
        PROVE  /\ \A k : k \in method'[j] =>
                     (k \in method[j] /\ \A n \in Methods : <<j, n>> \notin s.stop)
                     \/ (k \in Methods /\ <<j, k>> \in s.start)
               /\ \A k \in Methods : <<j, k>> \in s.start => k \in method'[j]
               /\ (\A n \in Methods : <<j, n>> \notin s.stop) => method[j] \subseteq method'[j]
    <2>1. method'[j] = Switched(j, s)
      BY DEF PostUpdate
    <2>. QED BY <1>4, <2>1 DEF Switched, TypeOK
  <1>6. ASSUME NEW j \in Joints \ Mimics, Unheld(j)' PROVE method'[j] \subseteq {"effort"}
    <2>1. \A n \in Methods : <<j, n>> \notin s.start /\ (<<j, n>> \in held => <<j, n>> \in s.stop)
      BY <1>2, <1>6 DEF Unheld
    <2>2. CASE \E n \in Methods : <<j, n>> \in s.stop
      BY <1>5, <2>1, <2>2
    <2>3. CASE \A n \in Methods : <<j, n>> \notin s.stop
      <3>1. method[j] \subseteq {"effort"}
        BY <2>1, <2>3 DEF BitsInv, Unheld
      <3>. QED BY <1>5, <2>1, <3>1
    <2>. QED BY <2>2, <2>3
  <1>7. ASSUME NEW j \in Joints \ Mimics, NEW m \in Methods, <<j, m>> \in held'
        PROVE  m \in method'[j] /\ method'[j] \subseteq {m, "effort"}
    <2>1. \A n \in Methods : <<j, n>> \in held' => n = m
      BY <1>3, <1>7 DEF OneMethod
    <2>2. \A n \in Methods : <<j, n>> \in s.start => n = m
      BY <1>2, <2>1
    <2>3. CASE <<j, m>> \in s.start
      <3>1. m \in method'[j]
        BY <1>5, <2>3
      <3>2. \A n \in Methods : <<j, n>> \in held => <<j, n>> \in s.stop
        BY <1>2, <2>1, <2>3
      <3>3. CASE \E n \in Methods : <<j, n>> \in s.stop
        BY <1>5, <2>2, <3>1, <3>3
      <3>4. CASE \A n \in Methods : <<j, n>> \notin s.stop
        <4>1. method[j] \subseteq {"effort"}
          BY <3>2, <3>4 DEF BitsInv, Unheld
        <4>. QED BY <1>5, <2>2, <3>1, <4>1
      <3>. QED BY <3>3, <3>4
    <2>4. CASE <<j, m>> \notin s.start
      <3>1. <<j, m>> \in held /\ <<j, m>> \notin s.stop
        BY <1>2, <1>7, <2>4
      <3>2. \A n \in Methods : <<j, n>> \notin s.stop
        BY <1>2, <3>1 DEF BitsInv, OneMethod
      <3>3. m \in method[j] /\ method[j] \subseteq {m, "effort"}
        BY <3>1 DEF BitsInv
      <3>. QED BY <1>5, <2>2, <3>2, <3>3
    <2>. QED BY <2>3, <2>4
  <1>. QED BY <1>1, <1>3, <1>6, <1>7 DEF BitsInv, OneMethod

LEMMA BitsNext == ASSUME Exclusive, TypeOK, BitsInv, [Next]_vars PROVE BitsInv'
  <1>1. CASE UNCHANGED <<method, held, request>>
    BY <1>1 DEF BitsInv, OneMethod, Unheld
  <1>2. ASSUME NEW s \in Switches, Request(s) PROVE BitsInv'
    BY <1>2 DEF Request, BitsInv, OneMethod, Unheld
  <1>3. CASE PostUpdate /\ Due /\ request = NoSwitch
    <2>1. \A j \in Joints : Switched(j, NoSwitch) = method[j]
      BY DEF Switched, NoSwitch, TypeOK
    <2>2. method' = method
      BY <1>3, <2>1 DEF PostUpdate, TypeOK
    <2>. QED BY <1>1, <1>3, <2>2 DEF PostUpdate
  <1>4. CASE PostUpdate /\ Due /\ request # NoSwitch
    BY <1>4, BitsSwitch
  <1>. QED
    BY <1>1, <1>2, <1>3, <1>4 DEF Next, Simulation, PreUpdate, Step, Paused, PostUpdate, vars

(* With the bits, the branch is that of the method that is held.           *)
LEMMA HeldSelects ==
  ASSUME Inv, BitsInv, NEW j \in Joints \ Mimics, NEW m \in Methods, <<j, m>> \in held
  PROVE  Command(j) \subseteq {m}
  <1>1. m \in method[j] /\ method[j] \subseteq {m, "effort"}
    BY DEF BitsInv
  <1>2. Branch(j) = m
    BY <1>1 DEF Branch, Methods
  <1>. QED BY <1>2 DEF Inv, RunInv, FromBranch, NoCommand, Command

(* Whatever is switched to whatever, as long as controllers hold one       *)
(* method of each joint, a joint gets commands of the method that is held. *)
THEOREM JointsDrivenAsHeld == ASSUME Exclusive PROVE Spec => []DrivenAsHeld
  <1>1. TypeOK /\ BitsInv /\ [Next]_vars => BitsInv'
    BY BitsNext
  <1>2. Inv /\ BitsInv => DrivenAsHeld
    BY HeldSelects DEF DrivenAsHeld
  <1>3. Spec => []BitsInv
    BY <1>1, BitsInit, GazeboTypeCorrect, PTL DEF Spec
  <1>. QED BY <1>2, <1>3, Invariance, PTL

-----------------------------------------------------------------------------
(***************************************************************************)
(* What is safe in that a held joint comes to be driven.                   *)
(***************************************************************************)

(* Components are never removed.                                           *)
ComponentsStay ==
  \A j \in Joints :
    /\ velocity[j] # "absent" => velocity'[j] # "absent"
    /\ force[j] # "absent" => force'[j] # "absent"

(* The component that takes method m of joint j is made by this write.     *)
Creates(j, m) ==
  \/ m = "velocity" /\ velocity[j] = "absent" /\ velocity'[j] # "absent"
  \/ m = "effort" /\ force[j] = "absent" /\ force'[j] # "absent"

LEMMA ComponentsRemain == ASSUME Inv, [Next]_vars PROVE ComponentsStay
  <1>1. CASE PreUpdate
    <2>. SUFFICES ASSUME NEW j \in Joints
                  PROVE  /\ velocity[j] # "absent" => velocity'[j] # "absent"
                         /\ force[j] # "absent" => force'[j] # "absent"
      BY DEF ComponentsStay
    <2>1. velocity[j] # "absent" => VelocityOf(j) # "absent" /\ MimicVelocity(j) # "absent"
      BY DEF VelocityOf, MimicVelocity, Put
    <2>2. force[j] # "absent" => ForceOf(j) # "absent" /\ MimicForce(j) # "absent"
      BY DEF ForceOf, MimicForce, Put
    <2>. QED BY <1>1, <2>1, <2>2 DEF PreUpdate
  <1>2. CASE Step
    BY <1>2 DEF Step, Taken, ComponentsStay
  <1>3. CASE Paused \/ PostUpdate \/ (\E s \in Switches : Request(s)) \/ UNCHANGED vars
    BY <1>3 DEF Paused, PostUpdate, Request, vars, ComponentsStay
  <1>. QED BY <1>1, <1>2, <1>3 DEF Next, Simulation

LEMMA WriteTakesHeld ==
  ASSUME Inv, BitsInv, PreUpdate, NEW j \in Joints \ Mimics, NEW m \in Methods, <<j, m>> \in held
  PROVE  Command(j)' = {m} \/ Creates(j, m)
  <1>1. m \in method[j] /\ method[j] \subseteq {m, "effort"}
    BY DEF BitsInv
  <1>2. Branch(j) = m
    BY <1>1 DEF Branch, Methods
  <1>3. velocity'[j] = VelocityOf(j) /\ force'[j] = ForceOf(j)
    BY DEF PreUpdate
  <1>4. CASE m = "effort"
    <2>1. velocity'[j] \in NoCommand
      BY <1>2, <1>3, <1>4 DEF Inv, RunInv, FromBranch, VelocityOf
    <2>2. force'[j] = IF force[j] = "absent" THEN "zero" ELSE "effort"
      BY <1>2, <1>3, <1>4 DEF ForceOf, Put
    <2>. QED BY <1>4, <2>1, <2>2 DEF NoCommand, Command, Creates
  <1>5. CASE m # "effort"
    <2>1. force'[j] \in NoCommand
      BY <1>2, <1>3, <1>5 DEF Inv, RunInv, FromBranch, ForceOf
    <2>2. velocity'[j] = IF m = "velocity" /\ velocity[j] = "absent" THEN "zero" ELSE m
      BY <1>2, <1>3, <1>5 DEF VelocityOf, Put, Methods
    <2>. QED BY <1>5, <2>1, <2>2 DEF NoCommand, Command, Creates, Methods
  <1>. QED BY <1>4, <1>5

(* While controllers hold one method of each joint, every write drives     *)
(* every held joint, but for the one write in which the component of its   *)
(* velocity or effort is made: components stay once they are there.        *)
THEOREM HeldIsWritten ==
  ASSUME Exclusive
  PROVE  Spec => [][/\ ComponentsStay
                    /\ PreUpdate =>
                         \A j \in Joints \ Mimics, m \in Methods :
                           <<j, m>> \in held => Command(j)' = {m} \/ Creates(j, m)]_vars
  <1>1. Inv /\ BitsInv /\ [Next]_vars
        => [/\ ComponentsStay
            /\ PreUpdate =>
                 \A j \in Joints \ Mimics, m \in Methods :
                   <<j, m>> \in held => Command(j)' = {m} \/ Creates(j, m)]_vars
    BY ComponentsRemain, WriteTakesHeld
  <1>2. Inv /\ BitsInv /\ [Next]_vars => BitsInv'
    BY BitsNext DEF Inv
  <1>. QED BY <1>1, <1>2, BitsInit, Invariance, PTL DEF Spec

(* A switch that stops any method of a joint leaves of its bits only what  *)
(* it starts: the mask of a stopped method has no bit at all.  With        *)
(* controllers that hold two methods of a joint, stopping one stops both.  *)
THEOREM StopClearsEveryMethod ==
  Spec => [][PostUpdate /\ Due =>
               \A j \in Joints \ Mimics, m \in Methods :
                 <<j, m>> \in request.stop =>
                   method'[j] = {k \in Methods : <<j, k>> \in request.start}]_vars
  <1>1. [Next]_vars
        => [PostUpdate /\ Due =>
              \A j \in Joints \ Mimics, m \in Methods :
                <<j, m>> \in request.stop =>
                  method'[j] = {k \in Methods : <<j, k>> \in request.start}]_vars
    <2>. SUFFICES ASSUME PostUpdate, Due, NEW j \in Joints \ Mimics, NEW m \in Methods,
                         <<j, m>> \in request.stop
                  PROVE  method'[j] = {k \in Methods : <<j, k>> \in request.start}
      OBVIOUS
    <2>1. method'[j] = Switched(j, request)
      BY DEF PostUpdate
    <2>2. Kept(m) = {}
      BY DEF Kept, Methods
    <2>. QED BY <2>1, <2>2 DEF Switched
  <1>. QED BY <1>1, PTL DEF Spec
=============================================================================
