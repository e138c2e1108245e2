----------------------------- MODULE RobotServices -----------------------------
(***************************************************************************)
(* The hardware component's second thread.  on_init connects the robot and *)
(* makes a FrankaExecutor, which spins in a thread of its own and serves   *)
(* the parameter services and the error recovery action on that robot.     *)
(* The destructor of the component ends the executor, then the robot.      *)
(*                                                                         *)
(* The callbacks of one node exclude each other: one setter runs at a time *)
(* and finds write_mutex_ free; error recovery, of another node, takes no  *)
(* lock and may run beside a setter.                                       *)
(***************************************************************************)
CONSTANTS
  Params,    (* what the parameter services set                             *)
  Values,    (* the values clients ask for                                  *)
  Default    (* the value a parameter has before                            *)

ASSUME ServicesAssumption == Default \in Values

VARIABLES
  owner,       (* where the thread is that makes and destroys the component *)
  robot,       (* the life of the Robot object                              *)
  thread,      (* the life of executor_spin_                                *)
  spinning,    (* rclcpp::Executor::spinning                                *)
  ok,          (* rclcpp::ok()                                              *)
  nodes,       (* the nodes added to the executor                           *)
  call,        (* the setter that is running and what it has come to        *)
  recovering,  (* error recovery is running                                 *)
  setting,     (* what the robot has for each parameter                     *)
  told         (* what the answers so far leave possible for it             *)

component == <<owner, robot, nodes>>
served == <<call, recovering, setting, told>>
vars == <<component, thread, spinning, ok, served>>

NoCall == [param |-> Params, value |-> Default, outcome |-> "none"]
Outcomes == {"running", "done", "refused", "lost"}
Calls == [param: Params, value: Values, outcome: Outcomes]

Init ==
  /\ owner = "check" /\ robot = "none" /\ nodes = {}
  /\ thread = "none" /\ spinning = FALSE /\ ok = TRUE
  /\ call = NoCall /\ recovering = FALSE
  /\ setting = [p \in Params |-> Default] /\ told = [p \in Params |-> {Default}]

-----------------------------------------------------------------------------
(***************************************************************************)
(* The thread that makes and destroys the component.                       *)
(***************************************************************************)
Go(from, to) == owner = from /\ owner' = to

(* The checks of the hardware description.                                 *)
Check ==
  /\ Go("check", "connect") \/ Go("check", "rejected")
  /\ UNCHANGED <<robot, nodes, thread, spinning, ok, served>>

Connect ==
  /\ \/ Go("connect", "construct") /\ robot' = "connected"
     \/ Go("connect", "rejected") /\ UNCHANGED robot
  /\ UNCHANGED <<nodes, thread, spinning, ok, served>>

(* FrankaExecutor's constructor starts the thread,                         *)
StartThread ==
  /\ Go("construct", "poll") /\ thread' = "started"
  /\ UNCHANGED <<robot, nodes, spinning, ok, served>>

(* Mutant: the constructor does not wait.                                  *)
MutPoll ==
  /\ Go("poll", "add")
  /\ UNCHANGED <<robot, nodes, thread, spinning, ok, served>>

(* and returns when a poll finds the executor spinning.                    *)
Poll ==
  /\ spinning /\ Go("poll", "add")
  /\ UNCHANGED <<robot, nodes, thread, spinning, ok, served>>

AddNode ==
  /\ \/ nodes = {} /\ nodes' = {"service"} /\ Go("add", "add")
     \/ nodes = {"service"} /\ nodes' = {"service", "action"} /\ Go("add", "up")
  /\ UNCHANGED <<robot, thread, spinning, ok, served>>

Destroy ==
  /\ Go("up", "shutdown")
  /\ UNCHANGED <<robot, nodes, thread, spinning, ok, served>>

(* FrankaExecutor's destructor: cancel, if it spins, and join.             *)
Cancel ==
  /\ Go("shutdown", "join") /\ spinning' = FALSE
  /\ UNCHANGED <<robot, nodes, thread, ok, served>>

(* Mutant: the thread is not joined.                                       *)
MutJoin ==
  /\ Go("join", "release")
  /\ UNCHANGED <<robot, nodes, thread, spinning, ok, served>>

Join ==
  /\ thread = "ended" /\ Go("join", "release")
  /\ UNCHANGED <<robot, nodes, thread, spinning, ok, served>>

(* The members declared before executor_: the nodes and the robot.         *)
Release ==
  /\ Go("release", "gone") /\ robot' = "released" /\ nodes' = {}
  /\ UNCHANGED <<thread, spinning, ok, served>>

Shutdown ==
  /\ ok /\ ok' = FALSE
  /\ UNCHANGED <<component, thread, spinning, served>>

-----------------------------------------------------------------------------
(***************************************************************************)
(* The executor.  Its workers look for work while it spins and the context *)
(* is valid; spin returns when the last of them has finished its callback. *)
(***************************************************************************)

(* Mutant: spin_some, which returns when there is nothing to do.           *)
MutSpin ==
  /\ thread = "started" /\ thread' = "ended"
  /\ UNCHANGED <<component, spinning, ok, served>>

Spin ==
  /\ thread = "started" /\ thread' = "spinning" /\ spinning' = TRUE
  /\ UNCHANGED <<component, ok, served>>

SpinEnds ==
  /\ thread = "spinning" /\ ~(ok /\ spinning) /\ call = NoCall /\ ~recovering
  /\ thread' = "ended" /\ spinning' = FALSE
  /\ UNCHANGED <<component, ok, served>>

Takes(node) == thread = "spinning" /\ spinning /\ ok /\ node \in nodes

(* A parameter service is called, and its callback calls the robot.        *)
SetParam(p, v) ==
  /\ Takes("service") /\ call = NoCall
  /\ call' = [param |-> p, value |-> v, outcome |-> "running"]
  /\ UNCHANGED <<component, thread, spinning, ok, recovering, setting, told>>

Set(v) == setting' = [setting EXCEPT ![call.param] = v]

(* Mutant: the request is not copied into the zeroed array.                *)
MutRequested == 0

Requested == call.value

(* The robot takes the value or refuses it, a CommandException; when the   *)
(* connection is lost, a NetworkException, it may have taken it or not.    *)
RobotAnswers ==
  /\ call.outcome = "running"
  /\ \/ Set(Requested) /\ call' = [call EXCEPT !.outcome = "done"]
     \/ UNCHANGED setting /\ call' = [call EXCEPT !.outcome = "refused"]
     \/ (Set(Requested) \/ UNCHANGED setting) /\ call' = [call EXCEPT !.outcome = "lost"]
  /\ UNCHANGED <<component, thread, spinning, ok, recovering, told>>

(* Mutant: a lost connection is not told from a refusal.                   *)
MutLearned == IF call.outcome = "done" THEN {call.value} ELSE told[call.param]

(* What a client may conclude from response->success and response->error.  *)
Learned ==
  {v \in Values :
     \/ call.outcome \in {"done", "lost"} /\ v = call.value
     \/ call.outcome \in {"refused", "lost"} /\ v \in told[call.param]}

Respond ==
  /\ call.outcome \in {"done", "refused", "lost"}
  /\ told' = [told EXCEPT ![call.param] = Learned] /\ call' = NoCall
  /\ UNCHANGED <<component, thread, spinning, ok, recovering, setting>>

(* errorRecoveryAction runs in the callback that accepts the goal; it      *)
(* succeeds, or aborts on both kinds of exception, but always concludes.   *)
Recover ==
  /\ Takes("action") /\ ~recovering /\ recovering' = TRUE
  /\ UNCHANGED <<component, thread, spinning, ok, call, setting, told>>

Recovered ==
  /\ recovering /\ recovering' = FALSE
  /\ UNCHANGED <<component, thread, spinning, ok, call, setting, told>>

-----------------------------------------------------------------------------
Constructor == Check \/ Connect \/ StartThread \/ Poll \/ AddNode

Destructor == Cancel \/ Join \/ Release

Executor ==
  \/ Spin \/ SpinEnds
  \/ \E p \in Params, v \in Values : SetParam(p, v)
  \/ RobotAnswers \/ Respond \/ Recover \/ Recovered

Next == Constructor \/ Destroy \/ Destructor \/ Shutdown \/ Executor

Spec == Init /\ [][Next]_vars

(* Threads run and the robot answers or the connection times out; nobody   *)
(* need call a service, destroy the component or shut down.                *)
Fairness ==
  /\ WF_vars(Constructor) /\ WF_vars(Destructor)
  /\ WF_vars(Spin) /\ WF_vars(SpinEnds)
  /\ WF_vars(RobotAnswers \/ Respond) /\ WF_vars(Recovered)

FairSpec == Spec /\ Fairness

-----------------------------------------------------------------------------
(* The states the variables range over.                                    *)
TypeOK ==
  /\ owner \in {"check", "rejected", "connect", "construct", "poll", "add", "up",
                "shutdown", "join", "release", "gone"}
  /\ robot \in {"none", "connected", "released"}
  /\ thread \in {"none", "started", "spinning", "ended"}
  /\ spinning \in BOOLEAN /\ ok \in BOOLEAN /\ recovering \in BOOLEAN
  /\ nodes \subseteq {"service", "action"} /\ call \in Calls \cup {NoCall}
  /\ setting \in [Params -> Values] /\ told \in [Params -> SUBSET Values]

(* A callback never finds the robot gone, whenever the component is        *)
(* destroyed or the context shut down.                                     *)
NoCallOnDeadRobot == call # NoCall \/ recovering => robot = "connected"

(* The answers to the parameter services tell what the robot has: a value  *)
(* that was acknowledged holds until another call may have changed it.     *)
AnswersHold ==
  \A p \in Params : setting[p] \in told[p] \/ (call # NoCall /\ call.param = p)

(* on_init gets its executor, unless the context is shut down before a     *)
(* poll of the constructor has seen it spin.                               *)
ConstructorReturns == owner = "poll" ~> owner # "poll" \/ ~ok

(* The component can be destroyed at any time: the executor that is asked  *)
(* to end has been spinning, so that it sees the request.                  *)
DestructorReturns == owner = "shutdown" ~> owner = "gone"

=============================================================================
