----------------------- MODULE ExampleControllersProofs -----------------------
(***************************************************************************)
(* Safety of ExampleControllers for any joints, any longest motion, with   *)
(* and without elbow, and any number of activations.                       *)
(*                                                                         *)
(* A torque is never computed from a part of the target that was not       *)
(* assigned because the vector stops being empty after its elements are    *)
(* there (TargetInv).  Whose torque is in the buffer follows from who held *)
(* the efforts without a rest (TorqueInv).  The references are live        *)
(* because every component but the robot model releases what it had before *)
(* it is assigned anew, and the robot model reads its pointers in the      *)
(* activation that follows its construction, or has idled (LoanInv).       *)
(***************************************************************************)
EXTENDS ExampleControllers, SequenceTheorems, TLAPS

USE BoundsAssumption

-----------------------------------------------------------------------------
(***************************************************************************)
(* The target of the inverse kinematics.                                   *)
(***************************************************************************)

AnswerOK ==
  /\ activation \in 0 .. MaxActivations /\ asked \subseteq 1 .. activation
  /\ target \in [Parts -> 0 .. activation] /\ filled \in BOOLEAN
  /\ adopting \in 0 .. activation /\ copied \in 0 .. 2
  /\ active = "ik" => activation # 0

TargetInv ==
  /\ copied > 0 => adopting # 0
  /\ copied >= 1 => target[1] # 0
  /\ copied = 2 => target[2] # 0
  /\ filled => \A p \in Parts : target[p] # 0

LEMMA AnswersKept ==
  ASSUME AnswerOK, TargetInv, UNCHANGED <<active, activation, answers>>, asked' \subseteq asked
  PROVE  AnswerOK' /\ TargetInv'
  <1>1. /\ target' = target /\ filled' = filled /\ adopting' = adopting /\ copied' = copied
        /\ activation' = activation /\ active' = active
    BY DEF answers
  <1>. QED BY <1>1 DEF AnswerOK, TargetInv

LEMMA AnswersNext ==
  ASSUME AnswerOK, TargetInv, [Next]_vars
  PROVE  AnswerOK' /\ TargetInv'
  <1>1. CASE Manager
    <2>1. UNCHANGED <<active, activation, answers>> /\ asked' \subseteq asked
      BY <1>1 DEF Manager, ConfigureMove, ConfigureIK, ConfigurePose, Configured, Cleanup, Becomes, loop
    <2>. QED BY <2>1, AnswersKept
  <1>2. CASE NoSwitch \/ UpdateNone \/ UpdateMove \/ UpdatePose \/ UNCHANGED vars
    <2>1. UNCHANGED <<active, activation, answers>> /\ asked' \subseteq asked
      BY <1>2 DEF NoSwitch, UpdateNone, UpdateMove, UpdatePose, Updates, vars, loop
    <2>. QED BY <2>1, AnswersKept
  <1>3. ASSUME NEW c \in Controllers \cup {"none"}, SwitchTo(c) PROVE AnswerOK' /\ TargetInv'
    <2>1. \/ c # "ik" /\ activation' = activation
          \/ c = "ik" /\ activation < MaxActivations /\ activation' = activation + 1
      BY <1>3 DEF SwitchTo, Allowed
    <2>2. active' = c /\ asked' = asked /\ UNCHANGED answers
      BY <1>3 DEF SwitchTo
    <2>3. /\ target' = target /\ filled' = filled /\ adopting' = adopting /\ copied' = copied
      BY <2>2 DEF answers
    <2>4. activation \in Nat /\ activation' \in 0 .. MaxActivations /\ activation <= activation'
      BY <2>1 DEF AnswerOK
    <2>5. AnswerOK'
      BY <2>1, <2>2, <2>3, <2>4 DEF AnswerOK
    <2>. QED BY <2>3, <2>5 DEF TargetInv
  <1>4. CASE UpdateIK
    <2>1. activation \in 1 .. activation
      BY <1>4 DEF UpdateIK, Updates, AnswerOK
    <2>2. UNCHANGED <<active, activation, answers>>
      BY <1>4 DEF UpdateIK, Updates
    <2>3. asked' \subseteq 1 .. activation
      BY <1>4, <2>1 DEF UpdateIK, AnswerOK
    <2>4. /\ target' = target /\ filled' = filled /\ adopting' = adopting /\ copied' = copied
      BY <2>2 DEF answers
    <2>. QED BY <2>2, <2>3, <2>4 DEF AnswerOK, TargetInv
  <1>5. ASSUME NEW last \in BOOLEAN, Fails(last) PROVE AnswerOK' /\ TargetInv'
    <2>1. UNCHANGED <<active, activation, answers>> /\ asked' \subseteq asked
      BY <1>5 DEF Fails, Answered, loop
    <2>. QED BY <2>1, AnswersKept
  <1>6. ASSUME NEW last \in BOOLEAN, Solves(last) PROVE AnswerOK' /\ TargetInv'
    <2>1. PICK a \in asked : Answered(a, last) /\ adopting' = a
      BY <1>6 DEF Solves
    <2>2. /\ asked' \subseteq asked /\ a \in 1 .. activation
          /\ UNCHANGED <<active, activation, target, filled, copied>>
      BY <1>6, <2>1 DEF Solves, Answered, loop, AnswerOK
    <2>. QED BY <2>1, <2>2 DEF AnswerOK, TargetInv
  <1>7. CASE Copy
    <2>1. /\ copied \in 0 .. 1 /\ adopting \in (0 .. activation) \ {0} /\ copied' = copied + 1
          /\ target' = [target EXCEPT ![copied + 1] = adopting]
          /\ UNCHANGED <<active, activation, asked, filled, adopting>>
      BY <1>7 DEF Copy, loop, AnswerOK
    <2>2. target' \in [Parts -> 0 .. activation] /\ target'[copied + 1] = adopting
          /\ \A p \in Parts : p # copied + 1 => target'[p] = target[p]
      BY <2>1 DEF AnswerOK, Parts
    <2>3. AnswerOK'
      BY <2>1, <2>2 DEF AnswerOK
    <2>4. TargetInv'
      BY <2>1, <2>2 DEF TargetInv, AnswerOK, Parts
    <2>. QED BY <2>3, <2>4
  <1>8. CASE Grow
    BY <1>8 DEF Grow, Complete, loop, AnswerOK, TargetInv, Parts
  <1>9. CASE Adopted
    BY <1>9 DEF Adopted, loop, AnswerOK, TargetInv, Parts
  <1>. QED BY <1>1, <1>2, <1>3, <1>4, <1>5, <1>6, <1>7, <1>8, <1>9 DEF Next, Switches, Update, Assigns

-----------------------------------------------------------------------------
(***************************************************************************)
(* The loop, the motion and the torque.                                    *)
(***************************************************************************)

LoopOK ==
  /\ life \in [Controllers -> {"unconfigured", "configuring", "inactive", "finalized"}]
  /\ active \in Controllers \cup {"none"} /\ step \in {"switch", "update"}
  /\ inherited \in BOOLEAN
  /\ active # "none" => life[active] = "inactive"

MotionOK ==
  /\ distances \in [Joints -> Distances] /\ ends \in [Joints -> 0 .. Never]
  /\ time \in 0 .. Longest

TorqueInv ==
  /\ torque \in {"zero", "move", "ik"}
  /\ active \in Efforts => torque \in {"zero", active} \/ inherited
  /\ step = "switch" /\ active = "move" => torque \in {"zero", "move"}

LEMMA LoopNext == ASSUME LoopOK, [Next]_vars PROVE LoopOK'
  <1>1. ASSUME NEW c \in Controllers, NEW l \in {"unconfigured", "configuring", "inactive", "finalized"},
               Becomes(c, l), active # c \/ l = "inactive"
        PROVE  LoopOK'
    BY <1>1 DEF Becomes, LoopOK, loop
  <1>2. CASE Manager
    <2>1. ASSUME NEW c \in Controllers, life[c] # "inactive" PROVE active # c
      BY <2>1 DEF LoopOK, Controllers
    <2>2. CASE ConfigureMove \/ ConfigureIK \/ ConfigurePose
      BY <1>1, <2>1, <2>2 DEF ConfigureMove, ConfigureIK, ConfigurePose, Controllers
    <2>3. ASSUME NEW c \in Controllers, Configured(c) \/ Cleanup(c) PROVE LoopOK'
      BY <1>1, <2>1, <2>3 DEF Configured, Cleanup
    <2>. QED BY <1>2, <2>2, <2>3 DEF Manager
  <1>3. ASSUME NEW c \in Controllers \cup {"none"}, SwitchTo(c) PROVE LoopOK'
    BY <1>3 DEF SwitchTo, Allowed, LoopOK, Efforts, Controllers
  <1>4. CASE NoSwitch \/ Update \/ UNCHANGED vars
    BY <1>4 DEF NoSwitch, Update, UpdateMove, UpdateIK, UpdatePose, UpdateNone, Updates, vars, loop, LoopOK
  <1>5. CASE Assigns \/ \E last \in BOOLEAN : Fails(last) \/ Solves(last)
    BY <1>5 DEF Assigns, Copy, Grow, Adopted, Fails, Solves, loop, LoopOK
  <1>. QED BY <1>2, <1>3, <1>4, <1>5 DEF Next, Switches

LEMMA MotionNext == ASSUME MotionOK, [Next]_vars PROVE MotionOK'
  <1>1. ASSUME NEW c \in Controllers \cup {"none"}, SwitchTo(c) PROVE MotionOK'
    <2>1. distances' \in [Joints -> Distances]
      BY <1>1 DEF SwitchTo, Plan, Still, Distances
    <2>2. ends' \in [Joints -> 0 .. Never] /\ time' = 0
      BY <1>1 DEF SwitchTo, Plan, Plans
    <2>. QED BY <2>1, <2>2 DEF MotionOK
  <1>2. CASE UpdateMove
    BY <1>2 DEF UpdateMove, MotionOK
  <1>3. CASE UNCHANGED motion
    BY <1>3 DEF motion, MotionOK
  <1>4. CASE Manager \/ NoSwitch \/ UpdateIK \/ UpdatePose \/ UpdateNone \/ Assigns \/ UNCHANGED vars
             \/ \E last \in BOOLEAN : Fails(last) \/ Solves(last)
    BY <1>3, <1>4 DEF Manager, ConfigureMove, ConfigureIK, ConfigurePose, Configured, Cleanup, Becomes,
         NoSwitch, UpdateIK, UpdatePose, UpdateNone, Assigns, Copy, Grow, Adopted, Fails, Solves, vars
  <1>. QED BY <1>1, <1>2, <1>4 DEF Next, Switches, Update

LEMMA TorqueNext ==
  ASSUME LoopOK, TorqueInv, TargetInv, [Next]_vars PROVE TorqueInv'
  <1>1. ASSUME NEW c \in Controllers \cup {"none"}, SwitchTo(c) PROVE TorqueInv'
    BY <1>1 DEF SwitchTo, EffortsStart, TorqueInv, Efforts
  <1>2. CASE UpdateMove
    BY <1>2 DEF UpdateMove, Updates, TorqueInv, Efforts
  <1>3. CASE UpdateIK
    BY <1>3 DEF UpdateIK, Updates, TorqueInv, TargetInv, Efforts
  <1>4. CASE UpdatePose \/ UpdateNone \/ NoSwitch
    BY <1>4 DEF UpdatePose, UpdateNone, Updates, NoSwitch, TorqueInv, Efforts
  <1>5. CASE UNCHANGED loop
    BY <1>5 DEF loop, TorqueInv
  <1>6. CASE Manager \/ Assigns \/ UNCHANGED vars \/ \E last \in BOOLEAN : Fails(last) \/ Solves(last)
    BY <1>5, <1>6 DEF Manager, ConfigureMove, ConfigureIK, ConfigurePose, Configured, Cleanup, Becomes,
         Assigns, Copy, Grow, Adopted, Fails, Solves, vars
  <1>. QED BY <1>1, <1>2, <1>3, <1>4, <1>6 DEF Next, Switches, Update

-----------------------------------------------------------------------------
(***************************************************************************)
(* The loans.                                                              *)
(***************************************************************************)

LivePose == [g \in DOMAIN Groups(Elbow) |-> "live"]

LoanInv ==
  /\ references \in [Components -> Seq(References)]
  /\ references["pose"] = IF active = "pose" THEN LivePose ELSE << >>
  /\ references["ikPose"] = IF active = "ik" THEN <<"live">> ELSE << >>
  /\ active = "ik" => references["ikModel"] # << >>
  /\ model \in {"unset"} \cup References /\ idled \in BOOLEAN
  /\ model # "unset" => (model = "gone" <=> idled)
  /\ model = "unset" /\ ~idled =>
       references["ikModel"] = IF active = "ik" THEN <<"live">> ELSE << >>
  /\ model = "unset" /\ idled =>
       references["ikModel"] # << >> /\ references["ikModel"][1] = "gone"
  /\ outcome = "ok"

LEMMA LivePoseType == LivePose \in Seq(References) /\ Len(LivePose) = Len(Groups(Elbow))
  <1>1. CASE Elbow = TRUE
    <2>1. DOMAIN Groups(Elbow) = 1 .. 2 /\ Len(Groups(Elbow)) = 2
      BY <1>1 DEF Groups
    <2>2. LivePose = <<"live", "live">>
      BY <2>1 DEF LivePose
    <2>. QED BY <2>1, <2>2 DEF References
  <1>2. CASE Elbow = FALSE
    <2>1. DOMAIN Groups(Elbow) = 1 .. 1 /\ Len(Groups(Elbow)) = 1
      BY <1>2 DEF Groups
    <2>2. LivePose = <<"live">>
      BY <2>1 DEF LivePose
    <2>. QED BY <2>1, <2>2 DEF References
  <1>. QED BY <1>1, <1>2

LEMMA Accepted == Accepts(Elbow, Groups(Elbow), LivePose)
  <1>1. CASE Elbow = TRUE
    <2>1. Len(Groups(Elbow)) = Len(Groups(TRUE))
      BY <1>1
    <2>. QED BY <1>1, <2>1, LivePoseType DEF Accepts, Fits
  <1>2. CASE Elbow = FALSE
    <2>1. Len(Groups(Elbow)) = 1
      BY <1>2 DEF Groups
    <2>2. Len(Groups(TRUE)) = 2
      BY DEF Groups
    <2>3. Len(Groups(Elbow)) # Len(Groups(TRUE))
      <3>. DEFINE l == Len(Groups(Elbow))
                  f == Len(Groups(TRUE))
      <3>1. l = 1 /\ f = 2
        BY <2>1, <2>2
      <3>. HIDE DEF l, f
      <3>2. l # f
        BY <3>1
      <3>. QED BY <3>2 DEF l, f
    <2>4. Elbow = (Len(Groups(Elbow)) = Len(Groups(TRUE)))
      BY ONLY <1>2, <2>3, Zenon
    <2>. QED BY <2>4, LivePoseType DEF Accepts, Fits
  <1>. QED BY <1>1, <1>2 DEF BoundsAssumption

LEMMA AssignOne ==
  ASSUME NEW s \in Seq(References), NEW k
  PROVE  /\ Assign(s, <<k>>) \in Seq(References) /\ Assign(s, <<k>>) # << >>
         /\ s = << >> => Assign(s, <<k>>) = <<"live">>
         /\ s # << >> => Assign(s, <<k>>)[1] = s[1]
  <1>1. DOMAIN <<k>> = 1 .. 1
    OBVIOUS
  <1>2. [g \in DOMAIN <<k>> |-> "live"] = <<"live">>
    BY <1>1
  <1>3. <<"live">> \in Seq(References) /\ Len(<<"live">>) = 1
    BY DEF References
  <1>4. s \o <<"live">> \in Seq(References) /\ Len(s \o <<"live">>) = Len(s) + 1
    BY <1>3, ConcatProperties
  <1>5. s \o <<"live">> # << >>
    BY <1>4, LenProperties, EmptySeq
  <1>6. s # << >> => (s \o <<"live">>)[1] = s[1]
    BY <1>3, ConcatProperties, LenProperties, EmptySeq
  <1>. QED BY <1>2, <1>3, <1>4, <1>5, <1>6, ConcatEmptySeq DEF Assign

LEMMA EndedType ==
  ASSUME NEW s \in Seq(References)
  PROVE  /\ Ended(s) \in Seq(References)
         /\ s = << >> => Ended(s) = << >>
         /\ s # << >> => Ended(s) # << >> /\ Ended(s)[1] = "gone"
  <1>1. Len(s) \in Nat /\ DOMAIN s = 1 .. Len(s)
    BY LenProperties
  <1>2. Ended(s) \in [1 .. Len(s) -> References]
    BY <1>1 DEF Ended, References
  <1>3. [1 .. Len(s) -> References] \in {[1 .. m -> References] : m \in Nat}
    BY <1>1
  <1>4. Seq(References) = UNION {[1 .. m -> References] : m \in Nat}
    BY SeqDef
  <1>5. Ended(s) \in Seq(References)
    BY <1>2, <1>3, <1>4, Zenon
  <1>6. s = << >> => Ended(s) = << >>
    BY DEF Ended
  <1>7. s # << >> => Ended(s) # << >> /\ Ended(s)[1] = "gone"
    <2>1. s # << >> => 1 \in 1 .. Len(s)
      BY <1>1, EmptySeq
    <2>2. s # << >> => 1 \in DOMAIN Ended(s) /\ Ended(s)[1] = "gone"
      BY <1>1, <2>1 DEF Ended
    <2>. QED BY <2>2
  <1>. QED BY <1>5, <1>6, <1>7

(* Every component but the robot model has let its references go.          *)
LEMMA LeaveType ==
  ASSUME LoanInv
  PROVE  /\ Leave("pose") = << >> /\ Leave("ikPose") = << >>
         /\ Leave("ikModel") \in Seq(References)
         /\ references["ikModel"] = << >> => Leave("ikModel") = << >>
         /\ references["ikModel"] # << >> => Leave("ikModel") # << >> /\ Leave("ikModel")[1] = "gone"
  <1>1. << >> \in Seq(References) /\ Ended(<< >>) = << >>
    BY EmptySeq, EndedType
  <1>2. Leave("pose") = << >>
    BY <1>1 DEF LoanInv, Leave, Released
  <1>3. Leave("ikPose") = << >>
    BY <1>1 DEF LoanInv, Leave, Released
  <1>4. Leave("ikModel") = Ended(references["ikModel"]) /\ references["ikModel"] \in Seq(References)
    BY DEF LoanInv, Leave, Components
  <1>. QED BY <1>2, <1>3, <1>4, EndedType

LEMMA LoansSwitch ==
  ASSUME LoanInv, NEW c \in Controllers \cup {"none"}, SwitchTo(c) PROVE LoanInv'
  <1>1. /\ active' = c /\ model' = model /\ outcome' = outcome
        /\ idled' = (idled \/ (active = "ik" /\ model = "unset"))
        /\ references' = [k \in Components |-> Enter(c, k)]
    BY DEF SwitchTo
  <1>2. /\ references'["pose"] = Enter(c, "pose") /\ references'["ikPose"] = Enter(c, "ikPose")
        /\ references'["ikModel"] = Enter(c, "ikModel")
    BY <1>1 DEF Components
  <1>3. Enter(c, "pose") = IF c = "pose" THEN LivePose ELSE << >>
    BY LeaveType, LivePoseType, ConcatEmptySeq DEF Enter, Assign, LivePose
  <1>4. Enter(c, "ikPose") = IF c = "ik" THEN <<"live">> ELSE << >>
    BY LeaveType, AssignOne, EmptySeq DEF Enter
  <1>5. /\ Enter(c, "ikModel") \in Seq(References)
        /\ c = "ik" => Enter(c, "ikModel") # << >>
        /\ Leave("ikModel") = << >> =>
             Enter(c, "ikModel") = IF c = "ik" THEN <<"live">> ELSE << >>
        /\ Leave("ikModel") # << >> =>
             Enter(c, "ikModel") # << >> /\ Enter(c, "ikModel")[1] = Leave("ikModel")[1]
    BY LeaveType, AssignOne DEF Enter
  <1>6. references' \in [Components -> Seq(References)]
    <2>1. << >> \in Seq(References) /\ <<"live">> \in Seq(References)
      BY EmptySeq DEF References
    <2>2. \A k \in Components : Enter(c, k) \in Seq(References)
      BY <1>3, <1>4, <1>5, <2>1, LivePoseType DEF Components
    <2>. QED BY <1>1, <2>2
  <1>7. model' = "unset" /\ ~idled' =>
          references'["ikModel"] = IF active' = "ik" THEN <<"live">> ELSE << >>
    BY <1>1, <1>2, <1>5, LeaveType DEF LoanInv
  <1>8. idled' \in BOOLEAN /\ (model' # "unset" => (model' = "gone" <=> idled'))
    BY <1>1 DEF LoanInv
  <1>9. model' = "unset" /\ idled' =>
          references'["ikModel"] # << >> /\ references'["ikModel"][1] = "gone"
    <2>1. model = "unset" /\ idled' => references["ikModel"] # << >>
      BY <1>1 DEF LoanInv
    <2>. QED BY <1>1, <1>2, <1>5, <2>1, LeaveType
  <1>. QED BY <1>1, <1>2, <1>3, <1>4, <1>5, <1>6, <1>7, <1>8, <1>9 DEF LoanInv

LEMMA LoansNext == ASSUME LoopOK, LoanInv, [Next]_vars PROVE LoanInv'
  <1>1. CASE UNCHANGED <<active, references, model, idled, outcome>>
    BY <1>1 DEF LoanInv
  <1>2. CASE ConfigureIK
    <2>1. active # "ik" /\ active' = active /\ outcome' = outcome
      BY <1>2 DEF ConfigureIK, Becomes, loop, LoopOK
    <2>2. /\ references' = [references EXCEPT !["ikModel"] = << >>]
          /\ model' = "unset" /\ idled' = FALSE
      BY <1>2 DEF ConfigureIK
    <2>3. /\ references' \in [Components -> Seq(References)] /\ references'["ikModel"] = << >>
          /\ references'["pose"] = references["pose"] /\ references'["ikPose"] = references["ikPose"]
      BY <2>2, EmptySeq DEF LoanInv, Components
    <2>. QED BY <2>1, <2>2, <2>3 DEF LoanInv
  <1>3. CASE UpdateIK
    <2>1. active = "ik" /\ active' = active /\ UNCHANGED <<references, idled>> /\ outcome' = "ok"
      BY <1>3 DEF UpdateIK, Updates
    <2>2. model' = model \/ (model = "unset" /\ model' = references["ikModel"][1])
      BY <1>3 DEF UpdateIK
    <2>3. references["ikModel"] \in Seq(References) /\ references["ikModel"] # << >>
      BY <2>1 DEF LoanInv, Components
    <2>4. references["ikModel"][1] \in References
      BY <2>3, EmptySeq, LenProperties
    <2>5. model = "unset" => references["ikModel"][1] = IF idled THEN "gone" ELSE "live"
      BY <2>1 DEF LoanInv
    <2>. QED BY <2>1, <2>2, <2>3, <2>4, <2>5 DEF LoanInv, References
  <1>4. CASE UpdatePose
    <2>1. active = "pose" /\ active' = active /\ UNCHANGED <<references, model, idled>>
      BY <1>4 DEF UpdatePose, Updates, loans
    <2>2. outcome' = "ok"
      BY <1>4, <2>1, Accepted DEF UpdatePose, LoanInv
    <2>. QED BY <2>1, <2>2 DEF LoanInv
  <1>5. CASE UpdateMove
    BY <1>5 DEF UpdateMove, Updates, loans, LoanInv
  <1>6. CASE NoSwitch \/ UpdateNone \/ Assigns \/ UNCHANGED vars
             \/ \E last \in BOOLEAN : Fails(last) \/ Solves(last)
    BY <1>1, <1>6 DEF NoSwitch, UpdateNone, Updates, Assigns, Copy, Grow, Adopted, Fails, Solves,
         loop, loans, vars
  <1>7. CASE ConfigureMove \/ ConfigurePose \/ \E c \in Controllers : Configured(c) \/ Cleanup(c)
    BY <1>1, <1>7 DEF ConfigureMove, ConfigurePose, Configured, Cleanup, Becomes, loop, loans
  <1>. QED BY <1>2, <1>3, <1>4, <1>5, <1>6, <1>7, LoansSwitch DEF Next, Manager, Switches, Update

-----------------------------------------------------------------------------
Inv == LoopOK /\ MotionOK /\ TorqueInv /\ AnswerOK /\ TargetInv /\ LoanInv

LEMMA InvInit == Init => Inv
  <1>. SUFFICES ASSUME Init PROVE Inv
    OBVIOUS
  <1>1. LoopOK
    BY DEF Init, LoopOK, Controllers
  <1>2. TorqueInv
    BY DEF Init, TorqueInv, Efforts
  <1>3. AnswerOK
    <2>1. activation = 0 /\ 0 \in 0 .. MaxActivations
      BY DEF BoundsAssumption, Init
    <2>2. target \in [Parts -> 0 .. 0] /\ adopting \in 0 .. 0 /\ copied \in 0 .. 2
      BY DEF Init
    <2>3. asked = {} /\ filled = FALSE /\ active = "none"
      BY DEF Init
    <2>. QED BY <2>1, <2>2, <2>3 DEF AnswerOK
  <1>4. TargetInv
    BY DEF Init, TargetInv, Parts
  <1>5. Still \in [Joints -> Distances]
    BY DEF Still, Distances
  <1>6. MotionOK
    BY <1>5 DEF Init, MotionOK, Plans
  <1>7. LoanInv
    BY EmptySeq DEF Init, LoanInv, Components
  <1>. QED BY <1>1, <1>6, <1>7, <1>2, <1>3, <1>4 DEF Inv

LEMMA InvNext == Inv /\ [Next]_vars => Inv'
  BY LoopNext, MotionNext, TorqueNext, AnswersNext, LoansNext DEF Inv

(* The parts of the invariant hold together: those of the loans and of the *)
(* target need only their own parts and LoopOK, AnswerOK.                  *)
THEOREM Invariance == Spec => []Inv
  BY InvInit, InvNext, PTL DEF Spec

(* The variables keep their types: no torque is ever computed from a part  *)
(* of the target that was not assigned.                                    *)
THEOREM ControllersTypeCorrect == Spec => []TypeOK
  <1>1. Inv => TypeOK
    BY DEF Inv, LoopOK, MotionOK, TorqueInv, AnswerOK, LoanInv, TypeOK
  <1>. QED BY <1>1, Invariance, PTL

(* The robot gets no torque of a controller that has left the efforts,     *)
(* unless the inverse kinematics took them over without a rest.            *)
THEOREM TorquesAreOwn == Spec => []OwnTorque
  <1>1. Inv => OwnTorque
    BY DEF Inv, TorqueInv, OwnTorque, Efforts
  <1>. QED BY <1>1, Invariance, PTL

(* No command goes through an earlier activation's loan or is refused for  *)
(* one that was left behind, with and without elbow.                       *)
THEOREM ReferencesAreLive == Spec => []LoansAreLive
  <1>1. Inv => LoansAreLive
    BY DEF Inv, LoanInv, LoansAreLive, LivePose
  <1>. QED BY <1>1, Invariance, PTL

-----------------------------------------------------------------------------
(***************************************************************************)
(* The order of the answers, on which it rests that the inverse kinematics *)
(* comes to follow its own.                                                *)
(***************************************************************************)

(* Nothing under way is older than what has been answered, and parts of    *)
(* the target are of different answers only while one is being assigned.   *)
OrderInv ==
  /\ \A a \in asked : adopting <= a /\ \A p \in Parts : target[p] <= a
  /\ adopting # 0 => \A p \in Parts : target[p] <= adopting
  /\ copied = 0 => target[1] = target[2]
  /\ copied > 0 => target[1] = adopting
  /\ copied = 2 => target[2] = adopting

LEMMA OrderKept ==
  ASSUME OrderInv, UNCHANGED answers, asked' \subseteq asked
  PROVE  OrderInv' /\ \A p \in Parts : target'[p] = target[p]
  <1>1. target' = target /\ adopting' = adopting /\ copied' = copied
    BY DEF answers
  <1>. QED BY <1>1 DEF OrderInv

LEMMA OrderNext ==
  ASSUME AnswerOK, TargetInv, OrderInv, [Next]_vars
  PROVE  OrderInv' /\ \A p \in Parts : target'[p] >= target[p]
  <1>0. \A p \in Parts : target[p] \in Nat
    BY DEF AnswerOK
  <1>1. CASE UNCHANGED answers /\ asked' \subseteq asked
    BY <1>0, <1>1, OrderKept
  <1>2. CASE Manager \/ Switches \/ UNCHANGED vars \/ UpdateMove \/ UpdatePose \/ UpdateNone
    BY <1>1, <1>2 DEF Manager, ConfigureMove, ConfigureIK, ConfigurePose, Configured, Cleanup, Becomes,
       Switches, SwitchTo, NoSwitch, UpdateMove, UpdatePose, UpdateNone, vars
  <1>3. CASE UpdateIK
    <2>1. target' = target /\ adopting' = adopting /\ copied' = copied
      BY <1>3 DEF UpdateIK, answers
    <2>2. \A a \in asked' : a \in asked \/ a = activation
      BY <1>3 DEF UpdateIK
    <2>3. adopting <= activation /\ \A p \in Parts : target[p] <= activation
      BY DEF AnswerOK
    <2>. QED BY <1>0, <2>1, <2>2, <2>3 DEF OrderInv
  <1>4. ASSUME NEW last \in BOOLEAN, Fails(last)
        PROVE  OrderInv' /\ \A p \in Parts : target'[p] >= target[p]
    <2>1. UNCHANGED answers /\ asked' \subseteq asked
      BY <1>4 DEF Fails, Answered
    <2>. QED BY <1>1, <2>1
  <1>5. ASSUME NEW last \in BOOLEAN, Solves(last)
        PROVE  OrderInv' /\ \A p \in Parts : target'[p] >= target[p]
    <2>1. PICK a \in asked : Answered(a, last) /\ adopting' = a
      BY <1>5 DEF Solves
    <2>2. /\ asked' \subseteq asked /\ \A b \in asked : a <= b
          /\ adopting = 0 /\ target' = target /\ copied' = copied
      BY <1>5, <2>1 DEF Solves, Answered
    <2>3. a \in Nat /\ a # 0 /\ \A p \in Parts : target[p] <= a
      BY DEF OrderInv, AnswerOK
    <2>4. copied = 0
      BY <2>2 DEF TargetInv, AnswerOK
    <2>. QED BY <1>0, <2>1, <2>2, <2>3, <2>4 DEF OrderInv
  <1>6. CASE Copy
    <2>1. /\ adopting # 0 /\ copied \in 0 .. 1 /\ copied' = copied + 1
          /\ target' = [target EXCEPT ![copied + 1] = adopting]
          /\ adopting' = adopting /\ asked' = asked
      BY <1>6 DEF Copy, AnswerOK
    <2>2. /\ target'[copied + 1] = adopting
          /\ \A p \in Parts : p # copied + 1 => target'[p] = target[p]
      BY <2>1 DEF AnswerOK, Parts
    <2>3. adopting \in Nat
      BY DEF AnswerOK
    <2>4. \A p \in Parts : target'[p] >= target[p] /\ target'[p] <= adopting
      BY <1>0, <2>1, <2>2, <2>3 DEF OrderInv
    <2>5. OrderInv'
      BY <1>0, <2>1, <2>2, <2>3, <2>4 DEF OrderInv, Parts
    <2>. QED BY <2>4, <2>5
  <1>7. CASE Grow
    BY <1>0, <1>7 DEF Grow, OrderInv
  <1>8. CASE Adopted
    <2>1. copied = 2 /\ adopting' = 0 /\ copied' = 0 /\ target' = target /\ asked' = asked
      BY <1>8 DEF Adopted
    <2>2. \A a \in asked : 0 <= a
      BY DEF AnswerOK
    <2>. QED BY <1>0, <2>1, <2>2 DEF OrderInv
  <1>. QED BY <1>2, <1>3, <1>4, <1>5, <1>6, <1>7, <1>8 DEF Next, Update, Assigns

(* However late answers come, and whatever activation they were asked in,  *)
(* none replaces a later one, so that an activation that follows its own   *)
(* answers does so until the next; and the target is of one answer except  *)
(* while the next is being assigned, when it is of two.                    *)
THEOREM AnswersInOrder ==
  /\ Spec => [](adopting = 0 => target[1] = target[2])
  /\ Spec => [][\A p \in Parts : target'[p] >= target[p]]_vars
  /\ Spec => [][\A p \in Parts : target[p] = activation /\ activation' = activation
                                => target'[p] = activation]_vars
  <1>1. Init => OrderInv
    BY DEF Init, OrderInv, Parts
  <1>2. Inv /\ OrderInv /\ [Next]_vars => OrderInv'
    BY OrderNext DEF Inv
  <1>3. Spec => [](Inv /\ OrderInv)
    BY <1>1, <1>2, Invariance, PTL DEF Spec
  <1>4. Inv /\ OrderInv => (adopting = 0 => target[1] = target[2])
    BY DEF Inv, AnswerOK, TargetInv, OrderInv
  <1>5. Inv /\ OrderInv /\ [Next]_vars => \A p \in Parts : target'[p] >= target[p]
    BY OrderNext DEF Inv
  <1>6. ASSUME Inv, Inv', \A p \in Parts : target'[p] >= target[p]
        PROVE  \A p \in Parts : target[p] = activation /\ activation' = activation
                               => target'[p] = activation
    BY <1>6 DEF Inv, AnswerOK
  <1>7. Spec => [](adopting = 0 => target[1] = target[2])
    BY <1>3, <1>4, PTL
  <1>8. Spec => [][\A p \in Parts : target'[p] >= target[p]]_vars
    BY <1>3, <1>5, PTL DEF Spec
  <1>9. Spec => [][\A p \in Parts : target[p] = activation /\ activation' = activation
                                   => target'[p] = activation]_vars
    BY <1>3, <1>5, <1>6, PTL DEF Spec
  <1>. QED BY <1>7, <1>8, <1>9

-----------------------------------------------------------------------------
(* A cartesian component that is assigned takes its commands exactly when  *)
(* it had let everything go before: one release that is missed makes it    *)
(* refuse every command from then on.                                      *)
THEOREM ReleaseIsNeeded ==
  ASSUME NEW s \in Seq(References)
  PROVE  Accepts(Elbow, Groups(Elbow), Assign(s, Groups(Elbow))) <=> s = << >>
  <1>1. Assign(s, Groups(Elbow)) = s \o LivePose
    BY DEF Assign, LivePose
  <1>2. Len(s) \in Nat /\ Len(LivePose) \in Nat /\ Len(s \o LivePose) = Len(s) + Len(LivePose)
    BY LivePoseType, LenProperties, ConcatProperties
  <1>3. Len(s) = 0 <=> s = << >>
    BY LenProperties, EmptySeq
  <1>4. Elbow = (Len(Groups(Elbow)) = Len(Groups(TRUE)))
    BY Accepted DEF Accepts
  <1>5. Fits(Groups(Elbow), Assign(s, Groups(Elbow))) <=> s = << >>
    BY <1>1, <1>2, <1>3, LivePoseType DEF Fits
  <1>. QED BY <1>4, <1>5 DEF Accepts
=============================================================================
