----------------------- MODULE GripperExampleController -----------------------
(***************************************************************************)
(* The controller that opens and closes the gripper over and over, on top  *)
(* of what GripperService promises.  It has no loop: activation sends the  *)
(* first goal and every result callback sends the next.  on_activate and   *)
(* on_deactivate run in the thread of the controller manager, the result   *)
(* callbacks in the executor's, and both toggle the same static variable.  *)
(***************************************************************************)
EXTENDS GripperService, FiniteSets, Naturals

CONSTANT MaxActivations   (* bounds how often the controller is activated   *)

ASSUME ControllerAssumption == IsFiniteSet(Goals) /\ MaxActivations \in Nat

VARIABLES
  sent,         (* per goal, which one it is: until its result has come     *)
  ordered,      (* ordered_gripper_state                                    *)
  toggle,       (* per thread, where it is in toggleGripperState            *)
  lifecycle,    (* the controller's lifecycle state                         *)
  answer,       (* the future of the stop service's answer                  *)
  activations   (* how often the controller has been activated              *)

client == <<sent, ordered, toggle, lifecycle, answer, activations>>
vars == <<service, client>>

Threads == {"manager", "executor"}

Init ==
  /\ ServiceInit
  /\ sent = [g \in Goals |-> "none"]
  /\ ordered = "closed"
  /\ toggle = [t \in Threads |-> "idle"]
  /\ lifecycle = "inactive" /\ answer = "none" /\ activations = 0

-----------------------------------------------------------------------------
(* toggleGripperState reads the static variable and sends a goal; writing  *)
(* the variable is a step of its own.                                      *)
SendGoal(t) ==
  /\ toggle[t] = "send"
  /\ \E g \in Goals :
       /\ sent[g] = "none" /\ status[g] = "unknown"
       /\ sent' = [sent EXCEPT ![g] = IF ordered = "closed" THEN "move" ELSE "grasp"]
  /\ toggle' = [toggle EXCEPT ![t] = IF ordered = "closed" THEN "open" ELSE "closed"]
  /\ UNCHANGED <<service, ordered, lifecycle, answer, activations>>

(* Mutant: written whether the goal has been sent or not.                  *)
MutWriteOrdered(t) ==
  /\ toggle[t] # "idle"
  /\ ordered' = toggle[t]
  /\ toggle' = [toggle EXCEPT ![t] = "idle"]
  /\ UNCHANGED <<service, sent, lifecycle, answer, activations>>

WriteOrdered(t) ==
  /\ toggle[t] \in {"open", "closed"}
  /\ ordered' = toggle[t]
  /\ toggle' = [toggle EXCEPT ![t] = "idle"]
  /\ UNCHANGED <<service, sent, lifecycle, answer, activations>>

(* on_activate, once both action servers are there; otherwise it fails,    *)
(* and a failed transition finalizes the controller.                       *)
Activate ==
  /\ lifecycle = "inactive" /\ activations < MaxActivations
  /\ \/ /\ toggle' = [toggle EXCEPT !["manager"] = "send"]
        /\ lifecycle' = "activating" /\ activations' = activations + 1
     \/ lifecycle' = "finalized" /\ UNCHANGED <<toggle, activations>>
  /\ UNCHANGED <<service, sent, ordered, answer>>

Activated ==
  /\ lifecycle = "activating" /\ toggle["manager"] = "idle"
  /\ lifecycle' = "active"
  /\ UNCHANGED <<service, sent, ordered, toggle, answer, activations>>

(* on_deactivate: asks the gripper to stop, if the service is ready.  No   *)
(* goal is cancelled.                                                      *)
Deactivate ==
  /\ lifecycle = "active"
  /\ \/ lifecycle' = "stopping" /\ answer' = "pending"
     \/ lifecycle' = "inactive" /\ UNCHANGED answer
  /\ UNCHANGED <<service, sent, ordered, toggle, activations>>

StopAnswered ==
  /\ answer = "pending" /\ answer' = "ready"
  /\ UNCHANGED <<service, sent, ordered, toggle, lifecycle, activations>>

(* result.get() takes the answer out of the future, and the condition      *)
(* calls it twice.  A get that finds no answer throws, which finalizes.    *)
FirstGet ==
  /\ lifecycle = "stopping" /\ answer = "ready"
  /\ lifecycle' = "judging" /\ answer' = "taken"
  /\ UNCHANGED <<service, sent, ordered, toggle, activations>>

SecondGet ==
  /\ lifecycle = "judging"
  /\ lifecycle' = IF answer = "taken" THEN "finalized" ELSE "inactive"
  /\ answer' = "none"
  /\ UNCHANGED <<service, sent, ordered, toggle, activations>>

(* Mutant: a grasp, too, goes on only if it has succeeded.                 *)
MutContinues(g) == status[g] = "succeeded"

(* The result callbacks: a move goes on only if it has succeeded, a grasp  *)
(* always; neither asks whether the controller is still active.            *)
Continues(g) == sent[g] = "grasp" \/ status[g] = "succeeded"

Result(g) ==
  /\ toggle["executor"] = "idle"
  /\ sent[g] # "none" /\ status[g] \in Terminal
  /\ sent' = [sent EXCEPT ![g] = "none"]
  /\ toggle' = [toggle EXCEPT !["executor"] = IF Continues(g) THEN "send" ELSE "idle"]
  /\ UNCHANGED <<service, ordered, lifecycle, answer, activations>>

(* Mutant: the acceptance of a goal toggles already.                       *)
MutResponse(g) ==
  /\ toggle["executor"] = "idle" /\ sent[g] # "none" /\ Accept(g)
  /\ toggle' = [toggle EXCEPT !["executor"] = "send"]
  /\ UNCHANGED <<sent, ordered, lifecycle, answer, activations>>

(* The goal arrives and is accepted; the response callbacks only log.      *)
Response(g) == sent[g] # "none" /\ Accept(g) /\ UNCHANGED client

Gripper(g) == (Cancel(g) \/ Begin(g) \/ End(g) \/ Conclude(g)) /\ UNCHANGED client

Forget(g) == sent[g] = "none" /\ Expire(g) /\ UNCHANGED client

-----------------------------------------------------------------------------
Toggle(t) == SendGoal(t) \/ WriteOrdered(t)

Manager == Activate \/ Activated \/ Deactivate \/ FirstGet \/ SecondGet

Goal(g) == Response(g) \/ Gripper(g) \/ Result(g) \/ Forget(g)

Next == Manager \/ StopAnswered \/ (\E t \in Threads : Toggle(t)) \/ \E g \in Goals : Goal(g)

Spec == Init /\ [][Next]_vars

(* Threads run, messages arrive, and what GripperActionServer shows of its *)
(* goals: each is served to its end.  Nobody need cancel or deactivate.    *)
Fairness ==
  /\ \A t \in Threads : WF_vars(Toggle(t))
  /\ \A g \in Goals :
       /\ WF_vars(Response(g)) /\ SF_vars(Result(g)) /\ WF_vars(Forget(g))
       /\ WF_vars((Begin(g) \/ End(g) \/ Conclude(g)) /\ UNCHANGED client)

FairSpec == Spec /\ Fairness

-----------------------------------------------------------------------------
Outstanding == {g \in Goals : sent[g] # "none"}
Sending == {t \in Threads : toggle[t] = "send"}

(* The orders that are out or about to be sent.                            *)
Orders == Cardinality(Outstanding) + Cardinality(Sending)

(* The states the variables range over.                                    *)
TypeOK ==
  /\ status \in [Goals -> {"unknown"} \cup Active \cup Terminal]
  /\ command \in [Goals -> {"none", "running", "true", "false"}]
  /\ sent \in [Goals -> {"none", "move", "grasp"}] /\ ordered \in {"open", "closed"}
  /\ toggle \in [Threads -> {"idle", "send", "open", "closed"}]
  /\ lifecycle \in {"inactive", "activating", "active", "stopping", "judging", "finalized"}
  /\ answer \in {"none", "pending", "ready", "taken"} /\ activations \in 0 .. MaxActivations

(* Callbacks and activations never multiply the cycle: each activation has *)
(* at most one command of the hand running, so that a controller activated *)
(* once never makes the hand open and close at the same time.              *)
OneCommandPerActivation ==
  Cardinality({g \in Goals : command[g] = "running"}) <= activations

(* The cycle of an activation ends only with a move that did not succeed:  *)
(* no result is dropped, whatever the gripper and the manager do meanwhile.*)
OnlyFailedMoveStops ==
  [][Orders' < Orders =>
       \E g \in Goals : sent[g] = "move" /\ status[g] \in {"aborted", "canceled"}]_vars

(* After a grasp, also one that failed, the hand is ordered to open again. *)
OpensAgain == (\E g \in Goals : sent[g] = "grasp") ~> \E g \in Goals : sent[g] = "move"

(* A deactivation in which the stop service answers ends as the code means *)
(* it to, with the controller inactive.                                    *)
StopEndsInactive ==
  [][(lifecycle \in {"stopping", "judging"})
     => lifecycle' \in {"stopping", "judging", "inactive"}]_vars

=============================================================================
