---------------------- MODULE GripperActionServerProofs ----------------------
(***************************************************************************)
(* Safety of GripperActionServer for any number of goals.  The invariant   *)
(* says of each goal what its thread's place implies about its state and   *)
(* its command; no step of one goal disturbs another's, except that a step *)
(* of the executor may turn "executing" into "canceling" at any place.     *)
(***************************************************************************)
EXTENDS GripperActionServer, TLAPS

Waiting == {"wait", "poll", "feedback", "finish"}
Stopping == {"stop", "collect"}

GoalInv(g) ==
  /\ pc[g] = "idle" <=> status[g] = "unknown"
  /\ pc[g] = "check" => TaskOf[g] = "command"
  /\ pc[g] \in {"idle", "check", "launch"} => command[g].state = "none"
  /\ pc[g] \in Waiting \cup Stopping => command[g].state # "none"
  /\ pc[g] \in {"check", "launch"} \cup Waiting => status[g] \in Active
  /\ pc[g] \in Stopping => status[g] = "canceling"
  /\ pc[g] = "finish" => ~Pending(g) \/ ~ok
  /\ pc[g] = "done" => ~Pending(g)
  /\ pc[g] # "crashed"
  /\ status[g] \in Terminal => pc[g] = "done"
  /\ status[g] = "succeeded" =>
       command[g].state = "true" \/ (TaskOf[g] = "command" /\ command[g].state = "none")
  /\ status[g] = "aborted" => command[g].state \in {"false", "none"}

Inv == TypeOK /\ \A g \in Goals : GoalInv(g)

-----------------------------------------------------------------------------
USE GoalsAssumption
USE DEF Inv, TypeOK, GoalInv, Waiting, Stopping,
        Active, Terminal, Commands, Running, Pending, Widths, Tasks, Alive

LEMMA InvInit == Init => Inv
  <1>. SUFFICES ASSUME Init PROVE Inv
    OBVIOUS
  <1>1. target \in [Goals -> Int]
    BY DEF Init
  <1>2. TypeOK
    BY <1>1 DEF Init, NoCommand
  <1>3. \A g \in Goals : GoalInv(g)
    BY DEF Init, NoCommand
  <1>. QED BY <1>2, <1>3

(* A step of the thread of goal h, or of its command, or of the executor   *)
(* on its behalf.                                                          *)
LEMMA HandleGoalStep == ASSUME Inv, NEW h \in Goals, HandleGoal(h) PROVE Inv'
  <1>1. TypeOK'
    BY DEF HandleGoal
  <1>2. ASSUME NEW g \in Goals PROVE GoalInv(g)'
    BY DEF HandleGoal
  <1>. QED BY <1>1, <1>2

LEMMA HandleCancelStep == ASSUME Inv, NEW h \in Goals, HandleCancel(h) PROVE Inv'
  <1>1. TypeOK'
    BY DEF HandleCancel
  <1>2. ASSUME NEW g \in Goals PROVE GoalInv(g)'
    BY DEF HandleCancel
  <1>. QED BY <1>1, <1>2

LEMMA CheckStep == ASSUME Inv, NEW h \in Goals, Check(h) PROVE Inv'
  <1>0. status[h] \in Active
    BY DEF Check
  <1>1. CASE OutOfRange(h) \/ target[h] = known
    <2>1. PICK as \in {"aborted", "succeeded"} : Conclude(h, as)
      BY <1>1 DEF Check
    <2>2. /\ status' = [status EXCEPT ![h] = as]
          /\ pc' = [pc EXCEPT ![h] = "done"]
          /\ UNCHANGED <<target, command, width, known, reading, interrupted, ok>>
      BY <1>0, <1>1, <2>1 DEF Check, Conclude
    <2>3. TypeOK'
      BY <2>2
    <2>4. GoalInv(h)'
      BY <2>2 DEF Check
    <2>5. ASSUME NEW g \in Goals, g # h PROVE GoalInv(g)'
      BY <2>2, <2>5
    <2>. QED BY <2>3, <2>4, <2>5
  <1>2. CASE ~(OutOfRange(h) \/ target[h] = known)
    <2>1. PICK as \in {"move", "grasp"} : SetCommand(h, "none", as)
      BY <1>2 DEF Check
    <2>2. /\ pc' = [pc EXCEPT ![h] = "launch"]
          /\ UNCHANGED <<target, status, width, known, reading, interrupted, ok>>
      BY <1>2 DEF Check, Go
    <2>3. TypeOK'
      BY <2>1, <2>2 DEF SetCommand
    <2>4. ASSUME NEW g \in Goals PROVE GoalInv(g)'
      BY <2>1, <2>2 DEF Check, SetCommand
    <2>. QED BY <2>3, <2>4
  <1>. QED BY <1>1, <1>2

LEMMA LaunchStep == ASSUME Inv, NEW h \in Goals, Launch(h) PROVE Inv'
  <1>1. TypeOK'
    BY DEF Launch, SetCommand, Go
  <1>2. ASSUME NEW g \in Goals PROVE GoalInv(g)'
    BY DEF Launch, SetCommand, Go
  <1>. QED BY <1>1, <1>2

LEMMA WaitStep == ASSUME Inv, NEW h \in Goals, Wait(h) PROVE Inv'
  <1>1. TypeOK'
    BY DEF Wait, Go, LoopEnds
  <1>2. ASSUME NEW g \in Goals PROVE GoalInv(g)'
    BY DEF Wait, Go, LoopEnds
  <1>. QED BY <1>1, <1>2

LEMMA PollStep == ASSUME Inv, NEW h \in Goals, Poll(h) PROVE Inv'
  <1>1. TypeOK'
    BY DEF Poll, Go
  <1>2. ASSUME NEW g \in Goals PROVE GoalInv(g)'
    BY DEF Poll, Go
  <1>. QED BY <1>1, <1>2

LEMMA FeedbackStep == ASSUME Inv, NEW h \in Goals, Feedback(h) PROVE Inv'
  <1>1. TypeOK'
    BY DEF Feedback, Go
  <1>2. ASSUME NEW g \in Goals PROVE GoalInv(g)'
    BY DEF Feedback, Go
  <1>. QED BY <1>1, <1>2

LEMMA StopStep == ASSUME Inv, NEW h \in Goals, Stop(h) PROVE Inv'
  <1>1. TypeOK'
    BY DEF Stop, Go, StopGripper
  <1>2. ASSUME NEW g \in Goals PROVE GoalInv(g)'
    BY DEF Stop, Go, StopGripper
  <1>. QED BY <1>1, <1>2

LEMMA CollectStep == ASSUME Inv, NEW h \in Goals, Collect(h) PROVE Inv'
  <1>1. TypeOK'
    <2>1. status[h] = "canceling"
      BY DEF Collect
    <2>2. status' = [status EXCEPT ![h] = "canceled"] /\ pc' = [pc EXCEPT ![h] = "done"]
      BY <2>1 DEF Collect, Conclude
    <2>3. UNCHANGED <<target, command, width, known, reading, interrupted, ok>>
      BY DEF Collect
    <2>. QED BY <2>2, <2>3
  <1>2. ASSUME NEW g \in Goals PROVE GoalInv(g)'
    BY DEF Collect, Conclude, MayCollect
  <1>. QED BY <1>1, <1>2

LEMMA FinishStep == ASSUME Inv, NEW h \in Goals, Finish(h) PROVE Inv'
  <1>1. CASE ok
    <2>1. status[h] \in Active /\ ~Pending(h) /\ command[h].state \in {"true", "false"}
      BY <1>1 DEF Finish
    <2>2. PICK as \in {"succeeded", "aborted"} :
            as = FinalStatus(h) /\ Conclude(h, as)
      BY <1>1 DEF Finish, FinalStatus
    <2>3. /\ status' = [status EXCEPT ![h] = as]
          /\ pc' = [pc EXCEPT ![h] = "done"]
          /\ UNCHANGED <<target, command, width, known, reading, interrupted, ok>>
      BY <2>1, <2>2 DEF Finish, Conclude
    <2>4. TypeOK'
      BY <2>3
    <2>5. GoalInv(h)'
      BY <2>1, <2>2, <2>3 DEF FinalStatus
    <2>6. ASSUME NEW g \in Goals, g # h PROVE GoalInv(g)'
      BY <2>3, <2>6
    <2>. QED BY <2>4, <2>5, <2>6
  <1>2. CASE ~ok
    BY <1>2 DEF Finish, Go
  <1>. QED BY <1>1, <1>2

LEMMA CommandBeginsStep ==
  ASSUME Inv, NEW h \in Goals, CommandBegins(h) \/ FingersMove(h) PROVE Inv'
  <1>1. CASE CommandBegins(h)
    <2>1. TypeOK'
      BY <1>1 DEF CommandBegins, SetCommand
    <2>2. ASSUME NEW g \in Goals PROVE GoalInv(g)'
      BY <1>1 DEF CommandBegins, SetCommand
    <2>. QED BY <2>1, <2>2
  <1>2. CASE FingersMove(h)
    BY <1>2 DEF FingersMove
  <1>. QED BY <1>1, <1>2

LEMMA CommandEndsStep == ASSUME Inv, NEW h \in Goals, CommandEnds(h) PROVE Inv'
  <1>1. PICK answer \in {"true", "false"} : SetCommand(h, answer, command[h].as)
    BY DEF CommandEnds
  <1>2. /\ command[h].state = "running" /\ width' \in Widths /\ interrupted' \subseteq Goals
        /\ UNCHANGED <<target, status, pc, known, reading, ok>>
    BY DEF CommandEnds, Met
  <1>3. TypeOK'
    BY <1>1, <1>2 DEF SetCommand
  <1>4. GoalInv(h)'
    BY <1>1, <1>2 DEF SetCommand
  <1>5. ASSUME NEW g \in Goals, g # h PROVE GoalInv(g)'
    BY <1>1, <1>2, <1>5 DEF SetCommand
  <1>. QED BY <1>3, <1>4, <1>5

(* The steps of the executor and of the node that concern no goal.         *)
LEMMA NodeStep == ASSUME Inv, StopService \/ LockState \/ ReadState \/ Shutdown PROVE Inv'
  <1>1. CASE StopService BY <1>1 DEF StopService, StopGripper
  <1>2. CASE LockState BY <1>2 DEF LockState
  <1>3. CASE ReadState BY <1>3 DEF ReadState
  <1>4. CASE Shutdown BY <1>4 DEF Shutdown
  <1>. QED BY <1>1, <1>2, <1>3, <1>4

LEMMA Stuttering == ASSUME Inv, UNCHANGED vars PROVE Inv'
  BY DEF vars

HIDE DEF Inv, TypeOK, GoalInv

LEMMA InvNext == Inv /\ [Next]_vars => Inv'
  <1>. SUFFICES ASSUME Inv, [Next]_vars PROVE Inv'
    OBVIOUS
  <1>1. CASE Executor
    BY <1>1, HandleGoalStep, HandleCancelStep, NodeStep DEF Executor
  <1>2. ASSUME NEW g \in Goals, Thread(g) PROVE Inv'
    BY <1>2, CheckStep, LaunchStep, WaitStep, PollStep, FeedbackStep, StopStep, CollectStep,
       FinishStep DEF Thread
  <1>3. ASSUME NEW g \in Goals, Async(g) \/ FingersMove(g) PROVE Inv'
    BY <1>3, CommandBeginsStep, CommandEndsStep DEF Async
  <1>. QED BY <1>1, <1>2, <1>3, Stuttering DEF Next

THEOREM Invariance == Spec => []Inv
  BY InvInit, InvNext, PTL DEF Spec

-----------------------------------------------------------------------------
(* The variables keep their types, for any set of goals.                   *)
THEOREM GripperTypeCorrect == Spec => []TypeOK
  <1>1. Inv => TypeOK BY DEF Inv
  <1>. QED BY <1>1, Invariance, PTL

(* No goal ends while its command is still moving the gripper: the result  *)
(* of the asynchronous call is awaited on every path that concludes a goal.*)
THEOREM EndedGoalsAreAtRest == Spec => []EndedGoalsRest
  <1>1. Inv => EndedGoalsRest BY DEF Inv, GoalInv, EndedGoalsRest
  <1>. QED BY <1>1, Invariance, PTL

(* However cancel requests interleave with the threads, no goal is taken   *)
(* through a transition that rclcpp_action refuses.                        *)
THEOREM TransitionsAllowed == Spec => []NoBadTransition
  <1>1. Inv => NoBadTransition BY DEF Inv, GoalInv, NoBadTransition
  <1>. QED BY <1>1, Invariance, PTL

-----------------------------------------------------------------------------
(***************************************************************************)
(* Honest results.  The last reading is right until the fingers have been  *)
(* moved for some goal, and what a goal's command has reached holds until  *)
(* they have been moved for another.                                       *)
(***************************************************************************)
Kept(g) == width \in Met(g) \/ \E h \in Goals \ {g} : HasMoved(h)

HonestInv ==
  /\ known = width \/ \E h \in Goals : HasMoved(h)
  /\ \A g \in Goals :
       /\ pc[g] \in {"idle", "check"} => command[g] = NoCommand
       /\ command[g].state = "true" \/ status[g] = "succeeded" => Kept(g)
       /\ status[g] = "aborted" /\ command[g].state = "none" => OutOfRange(g)

LEMMA HonestInit == Init => HonestInv
  BY DEF Init, HonestInv, NoCommand

(* Steps that move no fingers and keep the commands' states: what a goal   *)
(* has become in such a step is all there is to show.                      *)
LEMMA HonestAtRest ==
  ASSUME Inv, HonestInv, NEW h \in Goals, UNCHANGED <<target, width, known, command>>,
         \A g \in Goals \ {h} : pc'[g] = pc[g] /\ status'[g] = status[g],
         pc'[h] \in {"idle", "check"} => pc[h] \in {"idle", "check"},
         status'[h] = "succeeded" => Kept(h),
         status'[h] = "aborted" /\ command[h].state = "none" => OutOfRange(h)
  PROVE  HonestInv'
  BY DEF HonestInv, Kept, Met, HasMoved, OutOfRange

LEMMA HonestLaunched ==
  ASSUME HonestInv, NEW h \in Goals, UNCHANGED <<target, status, width, known>>,
         status[h] \in Active, command'[h].state \in {"none", "launched"},
         \A g \in Goals : (HasMoved(g)' <=> HasMoved(g)) /\ (g # h => command'[g] = command[g]),
         pc'[h] \notin {"idle", "check"}, \A g \in Goals \ {h} : pc'[g] = pc[g]
  PROVE  HonestInv'
  <1>1. (known = width \/ \E g \in Goals : HasMoved(g))'
    BY DEF HonestInv
  <1>2. ASSUME NEW g \in Goals \ {h}
        PROVE  /\ (pc[g] \in {"idle", "check"} => command[g] = NoCommand)'
               /\ (command[g].state = "true" \/ status[g] = "succeeded" => Kept(g))'
               /\ (status[g] = "aborted" /\ command[g].state = "none" => OutOfRange(g))'
    <2>1. Kept(g) => Kept(g)'
      BY DEF Kept, Met
    <2>. QED BY <2>1 DEF HonestInv, OutOfRange, NoCommand
  <1>3. /\ (pc[h] \in {"idle", "check"} => command[h] = NoCommand)'
        /\ (command[h].state = "true" \/ status[h] = "succeeded" => Kept(h))'
        /\ (status[h] = "aborted" /\ command[h].state = "none" => OutOfRange(h))'
    OBVIOUS
  <1>. QED BY <1>1, <1>2, <1>3 DEF HonestInv

LEMMA HonestCheck == ASSUME Inv, HonestInv, NEW h \in Goals, Check(h) PROVE HonestInv'
  <1>0. /\ status[h] \in Active /\ command[h] = NoCommand /\ pc[h] = "check"
        /\ status \in [Goals -> {"unknown"} \cup Active \cup Terminal]
        /\ DOMAIN pc = Goals /\ command \in [Goals -> Commands] /\ width \in Widths
    BY DEF Inv, TypeOK, GoalInv, HonestInv, Check
  <1>1. CASE OutOfRange(h) \/ target[h] = known
    <2>1. PICK as \in {"aborted", "succeeded"} :
            /\ Conclude(h, as) /\ (as = "aborted" => OutOfRange(h))
            /\ (as = "succeeded" => target[h] = known)
      BY <1>1 DEF Check
    <2>2. /\ status' = [status EXCEPT ![h] = as] /\ pc' = [pc EXCEPT ![h] = "done"]
          /\ UNCHANGED <<target, width, known, command>>
      BY <1>0, <1>1, <2>1 DEF Check, Conclude
    <2>3. as = "succeeded" => Kept(h)
      <3>1. known = width \/ \E g \in Goals \ {h} : HasMoved(g)
        BY <1>0 DEF HonestInv, HasMoved, NoCommand
      <3>2. target[h] = width => width \in Met(h)
        BY <1>0 DEF Met, NoCommand
      <3>. QED BY <2>1, <3>1, <3>2 DEF Kept
    <2>. QED BY <1>0, <2>1, <2>2, <2>3, HonestAtRest
  <1>2. CASE ~(OutOfRange(h) \/ target[h] = known)
    <2>1. PICK as : command' = [command EXCEPT ![h] = [state |-> "none", as |-> as]]
      BY <1>2 DEF Check, SetCommand
    <2>2. pc' = [pc EXCEPT ![h] = "launch"] /\ UNCHANGED <<target, status, width, known>>
      BY <1>2 DEF Check, Go
    <2>4. command'[h].state = "none" /\ command[h].state = "none"
      BY <1>0, <2>1 DEF NoCommand
    <2>5. \A g \in Goals \ {h} : command'[g] = command[g]
      BY <1>0, <2>1
    <2>3. \A g \in Goals : (HasMoved(g)' <=> HasMoved(g)) /\ (g # h => command'[g] = command[g])
      BY <2>4, <2>5 DEF HasMoved
    <2>. QED BY <1>0, <2>2, <2>3, <2>4, HonestLaunched
  <1>. QED BY <1>1, <1>2

LEMMA HonestLaunch == ASSUME Inv, HonestInv, NEW h \in Goals, Launch(h) PROVE HonestInv'
  <1>0. /\ status[h] \in Active /\ command[h].state = "none" /\ DOMAIN pc = Goals
        /\ command \in [Goals -> Commands]
    BY DEF Inv, TypeOK, GoalInv, Launch, Go
  <1>1. PICK as : command' = [command EXCEPT ![h] = [state |-> "launched", as |-> as]]
    BY DEF Launch, SetCommand
  <1>2. pc' = [pc EXCEPT ![h] = "wait"] /\ UNCHANGED <<target, status, width, known>>
    BY DEF Launch, Go
  <1>3. \A g \in Goals : (HasMoved(g)' <=> HasMoved(g)) /\ (g # h => command'[g] = command[g])
    BY <1>0, <1>1 DEF HasMoved
  <1>4. command'[h].state = "launched"
    BY <1>0, <1>1
  <1>. QED BY <1>0, <1>2, <1>3, <1>4, HonestLaunched

(* The other steps of a goal's thread, and those of the executor for it.   *)
LEMMA HonestThread ==
  ASSUME Inv, HonestInv, NEW h \in Goals,
         \/ HandleGoal(h) \/ HandleCancel(h) \/ Wait(h) \/ Poll(h) \/ Feedback(h) \/ Stop(h)
         \/ Collect(h) \/ Finish(h)
  PROVE  HonestInv'
  <1>0. /\ UNCHANGED <<target, width, known, command>> /\ DOMAIN pc = Goals /\ DOMAIN status = Goals
        /\ command \in [Goals -> Commands]
    BY DEF Inv, TypeOK, HandleGoal, HandleCancel, Wait, Poll, Feedback, Stop, Collect, Finish
  <1>1. \A g \in Goals \ {h} : pc'[g] = pc[g] /\ status'[g] = status[g]
    BY <1>0 DEF HandleGoal, HandleCancel, Wait, Poll, Feedback, Stop, Collect, Finish, Go, Conclude
  <1>2. pc'[h] \in {"idle", "check"} => pc[h] \in {"idle", "check"}
    BY <1>0 DEF Inv, GoalInv, HandleGoal, HandleCancel, Wait, Poll, Feedback, Stop, Collect, Finish,
       Go, Conclude
  <1>3. /\ status'[h] = "succeeded" => Kept(h)
        /\ status'[h] = "aborted" /\ command[h].state = "none" => OutOfRange(h)
    <2>1. CASE HandleGoal(h) \/ HandleCancel(h) \/ Collect(h)
      BY <1>0, <2>1 DEF HandleGoal, HandleCancel, Collect, Conclude, HonestInv
    <2>2. CASE Wait(h) \/ Poll(h) \/ Feedback(h) \/ Stop(h)
      BY <1>0, <2>2 DEF Wait, Poll, Feedback, Stop, HonestInv
    <2>3. CASE Finish(h)
      <3>1. command[h].state # "none"
        BY <2>3 DEF Inv, GoalInv, Waiting, Finish
      <3>2. status'[h] = "succeeded" => status[h] = "succeeded" \/ command[h].state = "true"
        BY <1>0, <2>3 DEF Finish, Conclude, FinalStatus
      <3>. QED BY <3>1, <3>2 DEF HonestInv
    <2>. QED BY <2>1, <2>2, <2>3
  <1>. QED BY <1>0, <1>1, <1>2, <1>3, HonestAtRest

(* The steps of a command: it may now have moved the fingers.              *)
LEMMA HonestAsync ==
  ASSUME Inv, HonestInv, NEW h \in Goals, Async(h) \/ FingersMove(h) PROVE HonestInv'
  <1>0. /\ command \in [Goals -> Commands] /\ Pending(h) /\ UNCHANGED <<target, status, pc, known>>
        /\ pc[h] \notin {"idle", "check"} /\ status[h] \notin {"succeeded", "aborted"}
    BY DEF Inv, TypeOK, GoalInv, Async, CommandBegins, CommandEnds, FingersMove
  <1>1. HasMoved(h)' /\ \A g \in Goals \ {h} : command'[g] = command[g]
    BY <1>0 DEF HasMoved, Async, CommandBegins, CommandEnds, FingersMove, SetCommand
  <1>2. command'[h].state = "true" => width' \in Met(h)'
    <2>1. CASE CommandBegins(h) \/ FingersMove(h)
      BY <1>0, <2>1 DEF CommandBegins, FingersMove, SetCommand
    <2>2. ASSUME CommandEnds(h), command'[h].state = "true" PROVE width' \in Met(h)'
      <3>1. width' \in Met(h) /\ command'[h].as = command[h].as
        BY <1>0, <2>2 DEF CommandEnds, SetCommand
      <3>. QED BY <1>0, <3>1 DEF Met
    <2>. QED BY <2>1, <2>2 DEF Async
  <1>3. \A g \in Goals \ {h} : Kept(g)'
    BY <1>1 DEF Kept
  <1>4. (command[h].state = "true")' => Kept(h)'
    BY <1>2 DEF Kept
  <1>5. \E g \in Goals : HasMoved(g)'
    BY <1>1
  <1>. QED BY <1>0, <1>1, <1>3, <1>4, <1>5 DEF HonestInv, OutOfRange

LEMMA HonestNext == Inv /\ HonestInv /\ [Next]_vars => HonestInv'
  <1>. SUFFICES ASSUME Inv, HonestInv, [Next]_vars PROVE HonestInv'
    OBVIOUS
  <1>1. CASE StopService \/ LockState \/ ReadState \/ Shutdown \/ UNCHANGED vars
    <2>1. known' \in {known, width} /\ UNCHANGED <<target, status, pc, width, command>>
      BY <1>1 DEF StopService, LockState, ReadState, Shutdown, vars
    <2>. QED BY <2>1 DEF HonestInv, Kept, Met, HasMoved, OutOfRange
  <1>2. ASSUME NEW g \in Goals, HandleGoal(g) \/ HandleCancel(g) \/ Thread(g) PROVE HonestInv'
    BY <1>2, HonestCheck, HonestLaunch, HonestThread DEF Thread
  <1>3. ASSUME NEW g \in Goals, Async(g) \/ FingersMove(g) PROVE HonestInv'
    BY <1>3, HonestAsync
  <1>. QED BY <1>1, <1>2, <1>3 DEF Next, Executor

(* A goal that succeeds, with or without a command of its own, leaves the  *)
(* fingers where it wanted them, unless another goal has moved them; one   *)
(* that is aborted failed or was out of range.                             *)
THEOREM ResultsAreHonest == Spec => []HonestResult
  <1>1. Inv /\ HonestInv => HonestResult
    BY DEF Inv, GoalInv, HonestInv, HonestResult, Kept
  <1>. QED BY <1>1, Invariance, HonestInit, HonestNext, PTL DEF Spec

-----------------------------------------------------------------------------
(* The state of every goal's command, as the clients' view has it.         *)
Told == [g \in Goals |-> IF Pending(g) THEN "running" ELSE command[g].state]

LEMMA ToldChanges ==
  ASSUME NEW h \in Goals, NEW state, NEW as, command \in [Goals -> Commands],
         SetCommand(h, state, as)
  PROVE  Told' = [Told EXCEPT ![h] = IF state = "launched" THEN "running" ELSE state]
  <1>1. \A g \in Goals : command'[g].state = IF g = h THEN state ELSE command[g].state
    BY DEF SetCommand
  <1>. QED BY <1>1 DEF Told, Pending

LEMMA ToldStays == UNCHANGED command => UNCHANGED Told
  BY DEF Told, Pending

LEMMA ServiceBegins == Init => Service!ServiceInit
  BY DEF Init, NoCommand, Service!ServiceInit

USE DEF Service!Turn, Service!Active, Service!Terminal, Active, Terminal, Told, Running, Pending

(* What a step of each kind is to the clients.                             *)
LEMMA AcceptStep == ASSUME NEW h \in Goals, HandleGoal(h) PROVE Service!Accept(h)
  BY DEF HandleGoal, Service!Accept

LEMMA CancelStep == ASSUME NEW h \in Goals, HandleCancel(h) PROVE Service!Cancel(h)
  BY DEF HandleCancel, Service!Cancel

LEMMA BeginStep == ASSUME Inv, NEW h \in Goals, Launch(h) PROVE Service!Begin(h)
  <1>1. command \in [Goals -> Commands] /\ status[h] \in Active /\ command[h].state = "none"
    BY DEF Inv, TypeOK, GoalInv, Launch, Go
  <1>2. PICK as : SetCommand(h, "launched", as)
    BY DEF Launch
  <1>3. UNCHANGED status
    BY DEF Launch
  <1>. QED BY <1>1, <1>2, <1>3, ToldChanges DEF Service!Begin

LEMMA BegunStep ==
  ASSUME Inv, NEW h \in Goals, CommandBegins(h) \/ FingersMove(h) PROVE UNCHANGED <<status, Told>>
  <1>1. command \in [Goals -> Commands] /\ UNCHANGED status
    BY DEF Inv, TypeOK, CommandBegins, FingersMove
  <1>2. CASE CommandBegins(h)
    <2>1. Told' = [Told EXCEPT ![h] = "running"] /\ Told[h] = "running"
      BY <1>1, <1>2, ToldChanges DEF CommandBegins, Pending
    <2>. QED BY <1>1, <2>1
  <1>3. CASE FingersMove(h)
    BY <1>1, <1>3, ToldStays DEF FingersMove
  <1>. QED BY <1>2, <1>3

LEMMA EndStep == ASSUME Inv, NEW h \in Goals, CommandEnds(h) PROVE Service!End(h)
  <1>1. command \in [Goals -> Commands] /\ command[h].state = "running" /\ UNCHANGED status
    BY DEF Inv, TypeOK, CommandEnds
  <1>2. PICK answer \in {"true", "false"} : SetCommand(h, answer, command[h].as)
    BY DEF CommandEnds
  <1>. QED BY <1>1, <1>2, ToldChanges DEF Service!End

(* A goal's conclusion is one the service allows for what its command      *)
(* returned.                                                               *)
LEMMA ConcludeStep ==
  ASSUME Inv, NEW h \in Goals, NEW as \in Terminal, Conclude(h, as), UNCHANGED command,
         status[h] \in Active,
         as = "succeeded" =>
           command[h].state = "true" \/ (TaskOf[h] = "command" /\ command[h].state = "none"),
         as = "aborted" =>
           command[h].state = "false" \/ (TaskOf[h] = "command" /\ command[h].state = "none"),
         as = "canceled" => status[h] = "canceling" /\ command[h].state \in {"true", "false"}
  PROVE  Service!Conclude(h)
  <1>1. status' = [status EXCEPT ![h] = as]
    BY DEF Conclude
  <1>. QED BY <1>1 DEF Service!Conclude, Service!Answer

LEMMA CheckConcludes ==
  ASSUME Inv, NEW h \in Goals, Check(h) PROVE Service!Conclude(h) \/ UNCHANGED <<status, Told>>
  <1>1. /\ status[h] \in Active /\ command[h].state = "none" /\ TaskOf[h] = "command"
        /\ command \in [Goals -> Commands]
    BY DEF Inv, TypeOK, GoalInv, Check
  <1>2. CASE OutOfRange(h) \/ target[h] = known
    <2>1. PICK as \in {"aborted", "succeeded"} : Conclude(h, as)
      BY <1>2 DEF Check
    <2>2. UNCHANGED command
      BY <1>2 DEF Check
    <2>. QED BY <1>1, <2>1, <2>2, ConcludeStep
  <1>3. CASE ~(OutOfRange(h) \/ target[h] = known)
    <2>1. PICK as : SetCommand(h, "none", as)
      BY <1>3 DEF Check
    <2>2. Told' = [Told EXCEPT ![h] = "none"]
      BY <1>1, <2>1, ToldChanges
    <2>3. UNCHANGED status
      BY <1>3 DEF Check
    <2>. QED BY <1>1, <2>2, <2>3
  <1>. QED BY <1>2, <1>3

LEMMA CollectConcludes == ASSUME Inv, NEW h \in Goals, Collect(h) PROVE Service!Conclude(h)
  <1>1. status[h] = "canceling" /\ command[h].state \in {"true", "false"}
    BY DEF Inv, TypeOK, GoalInv, Commands, Stopping, Collect, MayCollect
  <1>2. Conclude(h, "canceled") /\ UNCHANGED command
    BY DEF Collect
  <1>. QED BY <1>1, <1>2, ConcludeStep

LEMMA FinishConcludes ==
  ASSUME Inv, NEW h \in Goals, Finish(h) PROVE Service!Conclude(h) \/ UNCHANGED <<status, Told>>
  <1>1. UNCHANGED command
    BY DEF Finish
  <1>2. CASE ok
    <2>1. status[h] \in Active /\ command[h].state \in {"true", "false"}
      BY <1>2 DEF Inv, TypeOK, GoalInv, Commands, Waiting, Finish
    <2>2. Conclude(h, FinalStatus(h))
      BY <1>2 DEF Finish
    <2>. QED BY <1>1, <2>1, <2>2, ConcludeStep DEF FinalStatus
  <1>3. CASE ~ok
    BY <1>1, <1>3 DEF Finish
  <1>. QED BY <1>2, <1>3

LEMMA ServiceSteps == Inv /\ [Next]_vars => [Service!ServiceNext]_(Service!service)
  <1>. SUFFICES ASSUME Inv, [Next]_vars
                PROVE  Service!ServiceNext \/ UNCHANGED <<status, Told>>
    BY DEF Service!service
  <1>1. CASE Executor
    <2>1. CASE \E g \in Goals : HandleGoal(g) \/ HandleCancel(g)
      BY <2>1, AcceptStep, CancelStep DEF Service!ServiceNext
    <2>2. CASE StopService \/ LockState \/ ReadState \/ Shutdown
      BY <2>2 DEF StopService, LockState, ReadState, Shutdown
    <2>. QED BY <1>1, <2>1, <2>2 DEF Executor
  <1>2. ASSUME NEW g \in Goals, Thread(g)
        PROVE  Service!ServiceNext \/ UNCHANGED <<status, Told>>
    <2>1. CASE Check(g) BY <2>1, CheckConcludes DEF Service!ServiceNext
    <2>2. CASE Launch(g) BY <2>2, BeginStep DEF Service!ServiceNext
    <2>3. CASE Wait(g) \/ Poll(g) \/ Feedback(g) \/ Stop(g)
      BY <2>3 DEF Wait, Poll, Feedback, Stop
    <2>4. CASE Collect(g) BY <2>4, CollectConcludes DEF Service!ServiceNext
    <2>5. CASE Finish(g) BY <2>5, FinishConcludes DEF Service!ServiceNext
    <2>. QED BY <1>2, <2>1, <2>2, <2>3, <2>4, <2>5 DEF Thread
  <1>3. ASSUME NEW g \in Goals, Async(g) \/ FingersMove(g)
        PROVE  Service!ServiceNext \/ UNCHANGED <<status, Told>>
    BY <1>3, EndStep, BegunStep DEF Async, Service!ServiceNext
  <1>4. CASE UNCHANGED vars
    BY <1>4 DEF vars
  <1>. QED BY <1>1, <1>2, <1>3, <1>4 DEF Next

(* Every behaviour of the node is one GripperService promises: for any set *)
(* of goals, the threads conclude no goal before its command has ended or  *)
(* with another end than the command's.                                    *)
THEOREM ActionServerImplementsService == Spec => ImplementsService
  BY Invariance, ServiceBegins, ServiceSteps, PTL DEF Spec, ImplementsService, Service!ServiceSpec

-----------------------------------------------------------------------------
(***************************************************************************)
(* What is safe in the liveness of the end: after a shutdown every step of *)
(* a goal's thread and of its command's is one towards its end.            *)
(***************************************************************************)
Place ==
  [check |-> 6, launch |-> 5, poll |-> 4, feedback |-> 3, wait |-> 2, stop |-> 2, collect |-> 1,
   finish |-> 1, idle |-> 0, done |-> 0, crashed |-> 0, terminated |-> 0]

Ahead ==
  [none |-> 0, launched |-> 2, running |-> 1, true |-> 0, false |-> 0]

Left(g) == Place[pc[g]] + Ahead[command[g].state]

USE DEF Place, Ahead, Left, Go, Thread

LeftBounded == \A g \in Goals : Left(g) \in 0 .. 6

LEMMA LeftType == Inv => LeftBounded
  <1>. SUFFICES ASSUME Inv, NEW g \in Goals PROVE Left(g) \in 0 .. 6
    BY DEF LeftBounded
  <1>1. Place[pc[g]] \in 0 .. 6 /\ (pc[g] \in {"check", "launch"} => Ahead[command[g].state] = 0)
    BY DEF Inv, TypeOK, GoalInv
  <1>2. pc[g] \notin {"check", "launch"} => Place[pc[g]] \in 0 .. 4
    BY DEF Inv, TypeOK
  <1>3. Ahead[command[g].state] \in 0 .. 2
    BY DEF Inv, TypeOK
  <1>. QED BY <1>1, <1>2, <1>3

LEMMA LeftTypeNext == Inv' => LeftBounded'
  BY LeftType, PTL

(* A step of one goal takes it forward, whatever its loop was doing,       *)
LEMMA OwnSteps ==
  ASSUME Inv, ~ok, NEW g \in Goals, Thread(g) \/ Async(g)
  PROVE  Left(g)' < Left(g)
  <1>0. /\ pc \in [Goals -> DOMAIN Place] /\ command \in [Goals -> Commands]
        /\ pc[g] \in Waiting \cup Stopping => command[g].state # "none"
        /\ pc[g] \in {"check", "launch"} => command[g].state = "none"
    BY DEF Inv, TypeOK, GoalInv
  <1>1. CASE Check(g)
    <2>1. pc[g] = "check" /\ pc'[g] \in {"done", "crashed", "launch"}
      BY <1>0, <1>1 DEF Check, Conclude
    <2>2. command'[g].state = "none" /\ command[g].state = "none"
      BY <1>0, <1>1, <2>1 DEF Check, SetCommand
    <2>. QED BY <2>1, <2>2
  <1>2. CASE Launch(g)
    <2>1. /\ pc[g] = "launch" /\ pc'[g] = "wait"
          /\ command[g].state = "none" /\ command'[g].state = "launched"
      BY <1>0, <1>2 DEF Launch, SetCommand
    <2>. QED BY <2>1
  <1>3. CASE Wait(g)
    BY <1>0, <1>3 DEF Wait, LoopEnds
  <1>4. CASE Poll(g) \/ Feedback(g)
    BY <1>0, <1>4 DEF Poll, Feedback
  <1>5. CASE Stop(g)
    BY <1>0, <1>5 DEF Stop
  <1>6. CASE Collect(g)
    BY <1>0, <1>6 DEF Collect, Conclude
  <1>7. CASE Finish(g)
    BY <1>0, <1>7 DEF Finish, Conclude
  <1>8. CASE Async(g)
    <2>1. \/ command[g].state = "launched" /\ command'[g].state = "running"
          \/ command[g].state = "running" /\ command'[g].state \in {"true", "false"}
      BY <1>0, <1>8 DEF Async, CommandBegins, CommandEnds, SetCommand
    <2>2. pc' = pc /\ Place[pc[g]] \in 0 .. 6
      BY <1>0, <1>8 DEF Async, CommandBegins, CommandEnds
    <2>. QED BY <2>1, <2>2
  <1>. QED BY <1>1, <1>2, <1>3, <1>4, <1>5, <1>6, <1>7, <1>8

(* and leaves the others where they are.                                   *)
LEMMA OthersStay ==
  ASSUME Inv, NEW g \in Goals, NEW h \in Goals, g # h, Thread(h) \/ Async(h)
  PROVE  Left(g)' = Left(g)
  <1>0. pc \in [Goals -> DOMAIN Place] /\ command \in [Goals -> Commands]
    BY DEF Inv, TypeOK
  <1>1. CASE Check(h)
    <2>1. pc'[g] = pc[g]
      BY <1>0, <1>1 DEF Check, Conclude
    <2>2. command'[g] = command[g]
      BY <1>0, <1>1 DEF Check, SetCommand
    <2>. QED BY <2>1, <2>2
  <1>2. CASE Launch(h)
    <2>1. pc'[g] = pc[g] /\ command'[g] = command[g]
      BY <1>0, <1>2 DEF Launch, SetCommand
    <2>. QED BY <2>1
  <1>3. CASE Wait(h) \/ Poll(h) \/ Feedback(h) \/ Stop(h)
    BY <1>0, <1>3 DEF Wait, Poll, Feedback, Stop
  <1>4. CASE Collect(h) \/ Finish(h)
    BY <1>0, <1>4 DEF Collect, Finish, Conclude
  <1>5. CASE Async(h)
    <2>1. command'[g] = command[g] /\ pc' = pc
      BY <1>0, <1>5 DEF Async, CommandBegins, CommandEnds, SetCommand
    <2>. QED BY <2>1
  <1>. QED BY <1>1, <1>2, <1>3, <1>4, <1>5

(* After a shutdown the thread of a goal and its command take at most six  *)
(* more steps, whatever the loop was doing; no other goal, call of stop or *)
(* reading of the gripper takes them back, and no goal is begun.           *)
THEOREM ThreadsEndInFewSteps ==
  Spec => [][~ok =>
               \A g \in Goals :
                 /\ Left(g) \in 0 .. 6 /\ Left(g)' <= Left(g)
                 /\ Thread(g) \/ Async(g) => Left(g)' < Left(g)]_vars
  <1>1. Inv /\ [Next]_vars
        => [~ok =>
              \A g \in Goals :
                /\ Left(g) \in 0 .. 6 /\ Left(g)' <= Left(g)
                /\ Thread(g) \/ Async(g) => Left(g)' < Left(g)]_vars
    <2>. SUFFICES ASSUME Inv, Next, ~ok, NEW g \in Goals
                  PROVE  /\ Left(g) \in 0 .. 6 /\ Left(g)' <= Left(g)
                         /\ Thread(g) \/ Async(g) => Left(g)' < Left(g)
      OBVIOUS
    <2>. HIDE DEF Left, Thread
    <2>1. Left(g) \in 0 .. 6 /\ Left(g)' \in 0 .. 6
      BY LeftType, LeftTypeNext, InvNext DEF LeftBounded
    <2>2. ASSUME Executor PROVE Left(g)' <= Left(g)
      <3>1. pc'[g] = pc[g] /\ command' = command
        BY <2>2 DEF Executor, HandleGoal, HandleCancel, StopService, LockState, ReadState, Shutdown
      <3>2. Left(g)' = Left(g)
        BY <3>1 DEF Left
      <3>. QED BY <2>1, <3>2
    <2>3. ASSUME NEW h \in Goals, Thread(h) \/ Async(h) PROVE Left(g)' <= Left(g)
      BY <2>1, <2>3, OwnSteps, OthersStay
    <2>4. ASSUME NEW h \in Goals, FingersMove(h) PROVE Left(g)' <= Left(g)
      <3>1. Left(g)' = Left(g)
        BY <2>4 DEF FingersMove, Left
      <3>. QED BY <2>1, <3>1
    <2>5. Left(g)' <= Left(g)
      BY <2>1, <2>2, <2>3, <2>4 DEF Next
    <2>. QED BY <2>1, <2>5, OwnSteps
  <1>. QED BY <1>1, Invariance, PTL DEF Spec

-----------------------------------------------------------------------------
(***************************************************************************)
(* While the node lives: a goal whose command has ended is concluded.      *)
(***************************************************************************)
Over(g) == command[g].state \in {"true", "false"} /\ pc[g] \in Waiting \cup Stopping

(* A goal whose command has ended, whoever ended it, is four steps of its  *)
(* own thread from its conclusion at most: a cancel that comes meanwhile   *)
(* and whatever other goals, the stop service and the timer do lead it to  *)
(* none of them again.  Instead of being concluded it can only be left by  *)
(* a shutdown, or by a stop that throws where nothing catches it.          *)
THEOREM EndedCommandsConclude ==
  Spec => [][\A g \in Goals : Over(g) =>
               /\ Place[pc[g]] \in 1 .. 4
               /\ \/ Over(g)' /\ pc'[g] = pc[g] /\ ~Thread(g)
                  \/ Over(g)' /\ Place[pc'[g]] < Place[pc[g]]
                  \/ status'[g] \in Terminal
                  \/ ~ok
                  \/ pc'[g] = "terminated"]_vars
  <1>1. ASSUME Inv, Inv', Next, NEW g \in Goals, Over(g)
        PROVE  /\ Place[pc[g]] \in 1 .. 4
               /\ \/ Over(g)' /\ pc'[g] = pc[g] /\ ~Thread(g)
                  \/ Over(g)' /\ Place[pc'[g]] < Place[pc[g]]
                  \/ status'[g] \in Terminal
                  \/ ~ok
                  \/ pc'[g] = "terminated"
    <2>0. /\ pc \in [Goals -> DOMAIN Place] /\ command \in [Goals -> Commands]
          /\ ~Pending(g) /\ pc'[g] # "crashed"
      BY <1>1 DEF Inv, TypeOK, GoalInv, Over, Pending
    <2>. HIDE DEF Left, Thread
    <2>1. Place[pc[g]] \in 1 .. 4
      BY <1>1 DEF Over, Waiting, Stopping
    <2>2. CASE Thread(g)
      <3>1. CASE Check(g) \/ Launch(g)
        BY <1>1, <3>1 DEF Over, Waiting, Stopping, Check, Launch, Conclude
      <3>2. CASE Wait(g)
        BY <1>1, <2>0, <3>2 DEF Over, Waiting, Stopping, Wait, LoopEnds
      <3>3. CASE Poll(g) \/ Feedback(g)
        BY <1>1, <2>0, <3>3 DEF Over, Waiting, Stopping, Poll, Feedback
      <3>4. CASE Stop(g)
        BY <1>1, <2>0, <3>4 DEF Over, Waiting, Stopping, Stop
      <3>5. CASE Collect(g)
        BY <1>1, <2>0, <3>5 DEF Collect, Conclude, Inv, TypeOK
      <3>6. CASE Finish(g)
        BY <1>1, <2>0, <3>6 DEF Finish, Conclude, FinalStatus, Inv, TypeOK
      <3>. QED BY <2>1, <2>2, <3>1, <3>2, <3>3, <3>4, <3>5, <3>6 DEF Thread
    <2>3. CASE ~Thread(g)
      <3>1. pc'[g] = pc[g] /\ command'[g] = command[g]
        <4>1. CASE Executor
          BY <1>1, <2>0, <4>1 DEF Executor, HandleGoal, HandleCancel, StopService, LockState, ReadState,
             Shutdown, Inv, GoalInv, Over, Waiting, Stopping
        <4>2. ASSUME NEW h \in Goals, h # g, Thread(h) \/ Async(h)
              PROVE  pc'[g] = pc[g] /\ command'[g] = command[g]
          BY <2>0, <4>2 DEF Thread, Check, Launch, Wait, Poll, Feedback, Stop, Collect, Finish,
             Conclude, SetCommand, Async, CommandBegins, CommandEnds
        <4>3. ~Async(g)
          BY <2>0 DEF Async, CommandBegins, CommandEnds
        <4>4. ASSUME NEW h \in Goals, FingersMove(h) PROVE pc'[g] = pc[g] /\ command'[g] = command[g]
          BY <4>4 DEF FingersMove
        <4>. QED BY <1>1, <2>3, <4>1, <4>2, <4>3, <4>4 DEF Next
      <3>. QED BY <1>1, <2>1, <2>3, <3>1 DEF Over
    <2>. QED BY <2>1, <2>2, <2>3
  <1>2. Inv /\ Inv' /\ [Next]_vars
        => [\A g \in Goals : Over(g) =>
              /\ Place[pc[g]] \in 1 .. 4
              /\ \/ Over(g)' /\ pc'[g] = pc[g] /\ ~Thread(g)
                 \/ Over(g)' /\ Place[pc'[g]] < Place[pc[g]]
                 \/ status'[g] \in Terminal
                 \/ ~ok
                 \/ pc'[g] = "terminated"]_vars
    BY <1>1
  <1>. QED BY <1>2, Invariance, PTL DEF Spec
=============================================================================
