------------------------- MODULE GripperActionServer -------------------------
(***************************************************************************)
(* The gripper node.  Every goal of its four actions runs in a detached    *)
(* thread of its own, which starts the blocking libfranka command in a     *)
(* second thread (std::async) and polls for its end, for a cancel request  *)
(* and for the end of the node.  The node's executor thread accepts goals  *)
(* and cancels, serves the stop service and, on a timer, reads the gripper *)
(* under gripper_state_mutex_.                                             *)
(*                                                                         *)
(* Widths are small integers; two widths closer than the threshold of      *)
(* onExecuteGripperCommand are equal here.                                 *)
(***************************************************************************)
EXTENDS Integers

CONSTANTS
  Goals,     (* the goals clients may send, each once                       *)
  TaskOf,    (* the task of each goal                                       *)
  Targets,   (* the widths each goal may ask for                            *)
  MaxWidth,  (* the widest opening                                          *)
  Epsilon    (* how far from its target a grasp may end and still succeed   *)

Tasks == {"homing", "move", "grasp", "command"}
Widths == 0 .. MaxWidth

ASSUME GoalsAssumption ==
  /\ TaskOf \in [Goals -> Tasks] /\ Targets \in [Goals -> SUBSET Int]
  /\ MaxWidth \in Nat /\ Epsilon \in Nat

VARIABLES
  target,       (* the width each goal asks for                             *)
  status,       (* the goal's state in the action server                    *)
  pc,           (* where the goal's thread is                               *)
  command,      (* the goal's command: its async call and what it does      *)
  width,        (* the opening of the gripper                               *)
  known,        (* current_gripper_state_.width                             *)
  reading,      (* the timer holds gripper_state_mutex_ and reads           *)
  interrupted,  (* the goals whose running command a stop has interrupted   *)
  ok            (* rclcpp::ok()                                             *)

vars == <<target, status, pc, command, width, known, reading, interrupted, ok>>

Active == {"executing", "canceling"}
Terminal == {"succeeded", "aborted", "canceled"}
Commands == [state: {"none", "launched", "running", "true", "false"},
             as: {"none", "homing", "move", "grasp"}]
NoCommand == [state |-> "none", as |-> "none"]

(* The gripper carries the command out; its future has no result yet.      *)
Running(g) == command[g].state = "running"
Pending(g) == command[g].state \in {"launched", "running"}

SetCommand(g, state, as) == command' = [command EXCEPT ![g] = [state |-> state, as |-> as]]

Init ==
  /\ target \in [Goals -> UNION {Targets[g] : g \in Goals}]
  /\ \A g \in Goals : target[g] \in Targets[g]
  /\ status = [g \in Goals |-> "unknown"]
  /\ pc = [g \in Goals |-> "idle"]
  /\ command = [g \in Goals |-> NoCommand]
  /\ width \in Widths /\ known = width
  /\ reading = FALSE /\ interrupted = {} /\ ok = TRUE

Go(g, from, to) == pc[g] = from /\ pc' = [pc EXCEPT ![g] = to]

(* ServerGoalHandle::succeed, abort and canceled.  rclcpp_action throws    *)
(* when the goal is not in a state the transition may start from.  What is *)
(* thrown in a goal's thread ends the process: nothing catches it there.   *)
Conclude(g, as) ==
  IF status[g] \in (IF as = "canceled" THEN {"canceling"} ELSE Active)
  THEN status' = [status EXCEPT ![g] = as] /\ pc' = [pc EXCEPT ![g] = "done"]
  ELSE pc' = [pc EXCEPT ![g] = "crashed"] /\ UNCHANGED status

Alive == \A g \in Goals : pc[g] \notin {"crashed", "terminated"}

-----------------------------------------------------------------------------
(***************************************************************************)
(* The executor thread: one callback at a time, none while the timer's     *)
(* callback waits for the gripper's answer.                                *)
(***************************************************************************)

(* handleGoal accepts every goal; the accepted callback starts its thread. *)
HandleGoal(g) ==
  /\ ok /\ Alive /\ ~reading /\ status[g] = "unknown"
  /\ status' = [status EXCEPT ![g] = "executing"]
  /\ pc' = [pc EXCEPT ![g] = IF TaskOf[g] = "command" THEN "check" ELSE "launch"]
  /\ UNCHANGED <<target, command, width, known, reading, interrupted, ok>>

(* handleCancel accepts every cancel of a goal that has not ended.         *)
HandleCancel(g) ==
  /\ ok /\ Alive /\ ~reading /\ status[g] = "executing"
  /\ status' = [status EXCEPT ![g] = "canceling"]
  /\ UNCHANGED <<target, pc, command, width, known, reading, interrupted, ok>>

(* gripper_->stop(): whatever the gripper is doing, for whichever goal.    *)
StopGripper == interrupted' = interrupted \cup {g \in Goals : Running(g)}

(* stopServiceCallback: an exception becomes a negative answer.            *)
StopService ==
  /\ ok /\ Alive /\ ~reading
  /\ StopGripper \/ UNCHANGED interrupted
  /\ UNCHANGED <<target, status, pc, command, width, known, reading, ok>>

(* publishGripperState: the mutex is held while the gripper is read.  When *)
(* readOnce throws the old state stays and is published.                   *)
LockState ==
  /\ ok /\ Alive /\ ~reading
  /\ reading' = TRUE
  /\ UNCHANGED <<target, status, pc, command, width, known, interrupted, ok>>

(* Mutant: the width of both fingers taken for the position of one.        *)
MutReadState ==
  /\ reading /\ Alive
  /\ known' \in {2 * width, known}
  /\ reading' = FALSE
  /\ UNCHANGED <<target, status, pc, command, width, interrupted, ok>>

ReadState ==
  /\ reading /\ Alive
  /\ known' \in {width, known}
  /\ reading' = FALSE
  /\ UNCHANGED <<target, status, pc, command, width, interrupted, ok>>

Shutdown ==
  /\ ok /\ ok' = FALSE
  /\ UNCHANGED <<target, status, pc, command, width, known, reading, interrupted>>

-----------------------------------------------------------------------------
(***************************************************************************)
(* The thread of a goal.                                                   *)
(***************************************************************************)

OutOfRange(g) == target[g] \notin Widths

(* Mutant: no std::abs around the distance to the last reading.            *)
MutCheck(g) ==
  /\ Alive /\ pc[g] = "check" /\ ~reading
  /\ \/ OutOfRange(g) /\ Conclude(g, "aborted") /\ UNCHANGED command
     \/ ~OutOfRange(g) /\ target[g] <= known /\ Conclude(g, "succeeded") /\ UNCHANGED command
     \/ /\ ~OutOfRange(g) /\ target[g] > known
        /\ Go(g, "check", "launch") /\ SetCommand(g, "none", "move") /\ UNCHANGED status
  /\ UNCHANGED <<target, width, known, reading, interrupted, ok>>

(* onExecuteGripperCommand: decided under the mutex from the last reading. *)
(* Opening is a move, closing is a grasp.                                  *)
Check(g) ==
  /\ Alive /\ pc[g] = "check" /\ ~reading
  /\ \/ OutOfRange(g) /\ Conclude(g, "aborted") /\ UNCHANGED command
     \/ ~OutOfRange(g) /\ target[g] = known /\ Conclude(g, "succeeded") /\ UNCHANGED command
     \/ /\ ~OutOfRange(g) /\ target[g] # known
        /\ Go(g, "check", "launch")
        /\ SetCommand(g, "none", IF target[g] >= known THEN "move" ELSE "grasp")
        /\ UNCHANGED status
  /\ UNCHANGED <<target, width, known, reading, interrupted, ok>>

(* std::async of the command: the thread of it is yet to call the gripper. *)
Launch(g) ==
  /\ Alive /\ Go(g, "launch", "wait")
  /\ SetCommand(g, "launched", IF TaskOf[g] = "command" THEN command[g].as ELSE TaskOf[g])
  /\ UNCHANGED <<target, status, width, known, reading, interrupted, ok>>

(* Mutants: the result is not waited for; || for && in the loop.           *)
MutLoopIgnoresResult(g) == ~ok
MutLoopNeedsOk(g) == ~Pending(g) /\ ok

(* The loop's condition: wait_for the result, then ok().                   *)
LoopEnds(g) == ~Pending(g) \/ ~ok

Wait(g) ==
  /\ Alive
  /\ \/ LoopEnds(g) /\ Go(g, "wait", "finish")
     \/ ~LoopEnds(g) /\ Go(g, "wait", "poll")
  /\ UNCHANGED <<target, status, command, width, known, reading, interrupted, ok>>

(* Mutant: a call of the stop service taken for a cancel of the goal.      *)
MutPoll(g) ==
  /\ Alive
  /\ Go(g, "poll", IF status[g] = "canceling" \/ g \in interrupted THEN "stop" ELSE "feedback")
  /\ UNCHANGED <<target, status, command, width, known, reading, interrupted, ok>>

Poll(g) ==
  /\ Alive /\ Go(g, "poll", IF status[g] = "canceling" THEN "stop" ELSE "feedback")
  /\ UNCHANGED <<target, status, command, width, known, reading, interrupted, ok>>

(* publishGripperWidthFeedback, publishGripperCommandFeedback.             *)
Feedback(g) ==
  /\ Alive /\ ~reading /\ Go(g, "feedback", "wait")
  /\ UNCHANGED <<target, status, command, width, known, reading, interrupted, ok>>

(* The stop of a canceled goal.  Whether it has stopped anything, which    *)
(* stop() returns, is not looked at; nothing catches what it throws.       *)
Stop(g) ==
  /\ Alive
  /\ \/ Go(g, "stop", "collect") /\ (StopGripper \/ UNCHANGED interrupted)
     \/ Go(g, "stop", "terminated") /\ UNCHANGED interrupted
  /\ UNCHANGED <<target, status, command, width, known, reading, ok>>

(* Mutant: the result is not awaited.                                      *)
MutMayCollect(g) == TRUE

(* result_future.get() blocks until the command has ended.                 *)
MayCollect(g) == ~Pending(g)

Collect(g) ==
  /\ Alive /\ pc[g] = "collect" /\ MayCollect(g)
  /\ Conclude(g, "canceled")
  /\ UNCHANGED <<target, command, width, known, reading, interrupted, ok>>

(* After the loop: a result while the node lives; otherwise no result, but *)
(* the destructor of the future waits for the command.                     *)
FinalStatus(g) == IF command[g].state = "true" THEN "succeeded" ELSE "aborted"

Finish(g) ==
  /\ Alive /\ pc[g] = "finish"
  /\ \/ ok /\ (TaskOf[g] = "command" => ~reading) /\ Conclude(g, FinalStatus(g))
     \/ ~ok /\ ~Pending(g) /\ Go(g, "finish", "done") /\ UNCHANGED status
  /\ UNCHANGED <<target, command, width, known, reading, interrupted, ok>>

(* The async thread: the command reaches the gripper, which moves its      *)
(* fingers until libfranka's answer.  A stop that comes before does not    *)
(* interrupt it; a command that stop interrupted does not succeed.         *)
CommandBegins(g) ==
  /\ Alive /\ command[g].state = "launched"
  /\ SetCommand(g, "running", command[g].as)
  /\ UNCHANGED <<target, status, pc, width, known, reading, interrupted, ok>>

FingersMove(g) ==
  /\ Alive /\ Running(g)
  /\ width' \in Widths
  /\ UNCHANGED <<target, status, pc, command, known, reading, interrupted, ok>>

(* The openings at which a command counts as having succeeded.             *)
Met(g) ==
  {w \in Widths :
     CASE command[g].as = "homing" -> w = MaxWidth
       [] command[g].as = "grasp" -> target[g] - Epsilon <= w /\ w <= target[g] + Epsilon
       [] OTHER -> w = target[g]}

CommandEnds(g) ==
  /\ Alive /\ Running(g)
  /\ \/ g \notin interrupted /\ width' \in Met(g) /\ SetCommand(g, "true", command[g].as)
     \/ width' \in Widths /\ SetCommand(g, "false", command[g].as)
  /\ interrupted' = interrupted \ {g}
  /\ UNCHANGED <<target, status, pc, known, reading, ok>>

Async(g) == CommandBegins(g) \/ CommandEnds(g)

-----------------------------------------------------------------------------
Thread(g) ==
  Check(g) \/ Launch(g) \/ Wait(g) \/ Poll(g) \/ Feedback(g) \/ Stop(g) \/ Collect(g) \/ Finish(g)

Executor ==
  \/ \E g \in Goals : HandleGoal(g) \/ HandleCancel(g)
  \/ StopService \/ LockState \/ ReadState \/ Shutdown

Next == Executor \/ \E g \in Goals : Thread(g) \/ Async(g) \/ FingersMove(g)

Spec == Init /\ [][Next]_vars

(* Every thread is scheduled, every command and every reading ends.  A     *)
(* thread that waits for the mutex gets it between two firings of the      *)
(* timer, which is why a thread's steps are strongly fair.                 *)
Fairness ==
  /\ WF_vars(ReadState)
  /\ \A g \in Goals : SF_vars(Thread(g)) /\ WF_vars(Async(g))

FairSpec == Spec /\ Fairness

-----------------------------------------------------------------------------
(* The states the variables range over.                                    *)
TypeOK ==
  /\ status \in [Goals -> {"unknown"} \cup Active \cup Terminal]
  /\ pc \in [Goals -> {"idle", "check", "launch", "wait", "poll", "feedback", "stop",
                       "collect", "finish", "done", "crashed", "terminated"}]
  /\ command \in [Goals -> Commands]
  /\ target \in [Goals -> Int] /\ width \in Widths /\ known \in Widths
  /\ reading \in BOOLEAN /\ interrupted \subseteq Goals /\ ok \in BOOLEAN

(* A client that is told its goal has ended can rely on the gripper not    *)
(* moving for that goal any more.                                          *)
EndedGoalsRest == \A g \in Goals : status[g] \in Terminal => ~Pending(g)

(* The gripper has moved its fingers for a goal.                           *)
HasMoved(g) == command[g].state \in {"running", "true", "false"}

(* The fingers are where a goal that is reported as succeeded wanted them, *)
(* also when the last reading, on whose word a goal may succeed without    *)
(* any command, is old: unless they have been moved for another goal too.  *)
(* What is reported as aborted failed, or was asked for out of range.      *)
HonestResult ==
  \A g \in Goals :
    /\ status[g] = "succeeded" =>
         width \in Met(g) \/ \E h \in Goals \ {g} : HasMoved(h)
    /\ status[g] = "aborted" =>
         command[g].state = "false" \/ (command[g].state = "none" /\ OutOfRange(g))

(* No thread asks for a transition the goal's state does not allow,        *)
(* whenever cancels and calls of the stop service arrive.                  *)
NoBadTransition == \A g \in Goals : pc[g] # "crashed"

(* Every accepted goal ends while the node lives, whatever cancels, stops  *)
(* and readings come between.                                              *)
GoalsEnd == \A g \in Goals : status[g] \in Active ~> status[g] \in Terminal \/ ~ok \/ ~Alive

(* Every thread that was started ends after the node has been shut down.   *)
ThreadsEnd == ~ok ~> (\A g \in Goals : pc[g] \in {"idle", "done"}) \/ ~Alive

(* The threads, futures and polls amount to what clients are promised: one *)
(* command per goal and an end that agrees with how the command ended.     *)
Service ==
  INSTANCE GripperService WITH
    Immediate <- {g \in Goals : TaskOf[g] = "command"},
    command <- [g \in Goals |-> IF Pending(g) THEN "running" ELSE command[g].state]

ImplementsService == Service!ServiceSpec

=============================================================================
