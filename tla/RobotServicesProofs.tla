-------------------------- MODULE RobotServicesProofs --------------------------
(***************************************************************************)
(* Safety of RobotServices for any parameters and values.  Lifetime: what  *)
(* the owner's place says of the thread and of the robot, and callbacks    *)
(* run only while the thread spins.  Answers: what a running setter has    *)
(* come to says where the robot's value is.                                *)
(***************************************************************************)
EXTENDS RobotServices, Integers, TLAPS

Lifetime ==
  /\ robot = "connected" <=>
       owner \in {"construct", "poll", "add", "up", "shutdown", "join", "release"}
  /\ thread # "none" => owner \notin {"check", "rejected", "connect", "construct"}
  /\ owner \in {"release", "gone"} => thread = "ended"
  /\ call # NoCall \/ recovering => thread = "spinning"

(* The values parameter p may have, seen from the answers and from the     *)
(* setter that is running.                                                 *)
Possible(p) ==
  {v \in Values :
     IF call # NoCall /\ call.param = p
     THEN \/ call.outcome \in {"done", "lost"} /\ v = call.value
          \/ call.outcome # "done" /\ v \in told[p]
     ELSE v \in told[p]}

Settings == \A p \in Params : setting[p] \in Possible(p)

Inv == TypeOK /\ Lifetime /\ Settings

USE ServicesAssumption
USE DEF NoCall, Calls, Outcomes, component, served, Go

-----------------------------------------------------------------------------
LEMMA InvInit == Init => Inv
  <1>. SUFFICES ASSUME Init PROVE Inv
    OBVIOUS
  <1>1. TypeOK BY DEF Init, TypeOK
  <1>2. Lifetime BY DEF Init, Lifetime
  <1>3. Settings BY DEF Init, Settings, Possible
  <1>. QED BY <1>1, <1>2, <1>3 DEF Inv

LEMMA SameSettings == Settings /\ UNCHANGED <<call, setting, told>> => Settings'
  BY DEF Settings, Possible

(* The owner's steps, the context's and the thread's leave calls alone.    *)
LEMMA OwnerStep ==
  ASSUME Inv, Constructor \/ Destroy \/ Destructor \/ Shutdown PROVE Inv'
  <1>1. TypeOK'
    <2>1. CASE Constructor
      BY <2>1 DEF Inv, TypeOK, Constructor, Check, Connect, StartThread, Poll, AddNode
    <2>2. CASE Destructor
      BY <2>2 DEF Inv, TypeOK, Destructor, Cancel, Join, Release
    <2>3. CASE Destroy \/ Shutdown
      BY <2>3 DEF Inv, TypeOK, Destroy, Shutdown
    <2>. QED BY <2>1, <2>2, <2>3
  <1>2. Lifetime'
    <2>1. CASE Constructor
      BY <2>1 DEF Inv, TypeOK, Lifetime, Constructor, Check, Connect, StartThread, Poll, AddNode
    <2>2. CASE Destructor
      BY <2>2 DEF Inv, TypeOK, Lifetime, Destructor, Cancel, Join, Release
    <2>3. CASE Destroy \/ Shutdown
      BY <2>3 DEF Inv, TypeOK, Lifetime, Destroy, Shutdown
    <2>. QED BY <2>1, <2>2, <2>3
  <1>3. Settings'
    BY SameSettings DEF Inv, Constructor, Destroy, Destructor, Shutdown, Check, Connect,
       StartThread, Poll, AddNode, Cancel, Join, Release
  <1>. QED BY <1>1, <1>2, <1>3 DEF Inv

LEMMA ThreadStep ==
  ASSUME Inv, Spin \/ SpinEnds \/ Recover \/ Recovered PROVE Inv'
  <1>1. TypeOK'
    BY DEF Inv, TypeOK, Spin, SpinEnds, Recover, Recovered
  <1>2. Lifetime'
    BY DEF Inv, TypeOK, Lifetime, Spin, SpinEnds, Recover, Recovered, Takes
  <1>3. Settings'
    BY SameSettings DEF Inv, Spin, SpinEnds, Recover, Recovered
  <1>. QED BY <1>1, <1>2, <1>3 DEF Inv

LEMMA SetParamStep ==
  ASSUME Inv, NEW p \in Params, NEW v \in Values, SetParam(p, v) PROVE Inv'
  <1>1. TypeOK'
    BY DEF Inv, TypeOK, SetParam
  <1>2. Lifetime'
    BY DEF Inv, Lifetime, SetParam, Takes
  <1>3. Settings'
    BY DEF Inv, Settings, Possible, SetParam
  <1>. QED BY <1>1, <1>2, <1>3 DEF Inv

LEMMA RobotAnswersStep == ASSUME Inv, RobotAnswers PROVE Inv'
  <1>1. call \in Calls /\ call.outcome = "running"
    BY DEF Inv, TypeOK, RobotAnswers
  <1>2. PICK outcome \in {"done", "refused", "lost"} :
          /\ call' = [call EXCEPT !.outcome = outcome]
          /\ \/ outcome # "refused" /\ Set(call.value)
             \/ outcome # "done" /\ UNCHANGED setting
    BY DEF RobotAnswers, Requested
  <1>3. UNCHANGED <<component, thread, spinning, ok, recovering, told>>
    BY DEF RobotAnswers
  <1>4. call' = [param |-> call.param, value |-> call.value, outcome |-> outcome]
    BY <1>1, <1>2
  <1>5. TypeOK'
    BY <1>1, <1>2, <1>3, <1>4 DEF Inv, TypeOK, Set
  <1>6. Lifetime'
    BY <1>1, <1>3, <1>4 DEF Inv, Lifetime
  <1>7. ASSUME NEW p \in Params PROVE setting'[p] \in Possible(p)'
    <2>1. setting[p] \in told[p] /\ setting[p] \in Values
      BY <1>1 DEF Inv, TypeOK, Settings, Possible
    <2>2. CASE Set(call.value) /\ outcome # "refused" /\ p = call.param
      BY <1>1, <1>3, <1>4, <2>2 DEF Possible, Set, Inv, TypeOK
    <2>3. CASE p # call.param \/ (outcome # "done" /\ UNCHANGED setting)
      <3>1. setting'[p] = setting[p]
        BY <1>1, <1>2, <2>3 DEF Set, Inv, TypeOK
      <3>. QED BY <1>1, <1>3, <1>4, <2>1, <2>3, <3>1 DEF Possible
    <2>. QED BY <1>2, <2>2, <2>3
  <1>. QED BY <1>5, <1>6, <1>7 DEF Inv, Settings

LEMMA RespondStep == ASSUME Inv, Respond PROVE Inv'
  <1>1. call \in Calls /\ call # NoCall
    BY DEF Inv, TypeOK, Respond
  <1>2. /\ told' = [told EXCEPT ![call.param] = Learned] /\ call' = NoCall
        /\ UNCHANGED <<component, thread, spinning, ok, recovering, setting>>
    BY DEF Respond
  <1>3. TypeOK'
    BY <1>1, <1>2 DEF Inv, TypeOK, Learned
  <1>4. Lifetime'
    BY <1>2 DEF Inv, Lifetime
  <1>5. ASSUME NEW p \in Params PROVE setting'[p] \in Possible(p)'
    <2>1. setting[p] \in Possible(p)
      BY DEF Inv, Settings
    <2>2. CASE p = call.param
      BY <1>1, <1>2, <2>1, <2>2 DEF Possible, Learned, Respond, Inv, TypeOK
    <2>3. CASE p # call.param
      BY <1>1, <1>2, <2>1, <2>3 DEF Possible, Inv, TypeOK
    <2>. QED BY <2>2, <2>3
  <1>. QED BY <1>3, <1>4, <1>5 DEF Inv, Settings

LEMMA InvNext == Inv /\ [Next]_vars => Inv'
  <1>. SUFFICES ASSUME Inv, [Next]_vars PROVE Inv'
    OBVIOUS
  <1>1. CASE UNCHANGED vars
    BY <1>1, SameSettings DEF vars, Inv, TypeOK, Lifetime
  <1>. QED BY <1>1, OwnerStep, ThreadStep, SetParamStep, RobotAnswersStep, RespondStep
           DEF Next, Executor

THEOREM Invariance == Spec => []Inv
  BY InvInit, InvNext, PTL DEF Spec

-----------------------------------------------------------------------------
(* The variables keep their types, for any parameters and values.          *)
THEOREM ServicesTypeCorrect == Spec => []TypeOK
  <1>1. Inv => TypeOK BY DEF Inv
  <1>. QED BY <1>1, Invariance, PTL

(* The order of destruction keeps the robot until the last callback, of    *)
(* whichever node, has ended.                                              *)
THEOREM CallbacksFindTheRobot == Spec => []NoCallOnDeadRobot
  <1>1. Inv => NoCallOnDeadRobot
    BY DEF Inv, TypeOK, Lifetime, NoCallOnDeadRobot
  <1>. QED BY <1>1, Invariance, PTL

(* What the services have acknowledged is what the robot has.              *)
THEOREM AnswersAreKept == Spec => []AnswersHold
  <1>1. Inv => AnswersHold
    BY DEF Inv, Settings, Possible, AnswersHold
  <1>. QED BY <1>1, Invariance, PTL

-----------------------------------------------------------------------------
(***************************************************************************)
(* The end of the executor.  The constructor's poll makes sure that the    *)
(* thread has come to spin before there is anything to destroy, so that a  *)
(* cancel meets a thread that will look at it.                             *)
(***************************************************************************)
Polled == owner \in {"add", "up", "shutdown", "join", "release", "gone"}

Hearing ==
  /\ Polled => thread \in {"spinning", "ended"}
  /\ spinning => thread = "spinning"
  /\ owner \in {"join", "release", "gone"} => ~spinning

LEMMA HearingInvariant == Spec => []Hearing
  <1>1. Init => Hearing
    BY DEF Init, Hearing, Polled
  <1>2. Inv /\ Hearing /\ [Next]_vars => Hearing'
    <2>. SUFFICES ASSUME Inv, Hearing, [Next]_vars PROVE Hearing'
      OBVIOUS
    <2>1. CASE Constructor
      BY <2>1 DEF Inv, Lifetime, Hearing, Polled, Constructor, Check, Connect, StartThread, Poll, AddNode
    <2>2. CASE Destroy \/ Destructor \/ Shutdown
      BY <2>2 DEF Hearing, Polled, Destroy, Destructor, Cancel, Join, Release, Shutdown
    <2>3. CASE Spin \/ SpinEnds
      BY <2>3 DEF Hearing, Polled, Spin, SpinEnds
    <2>4. ASSUME NEW p \in Params, NEW v \in Values, SetParam(p, v) PROVE Hearing'
      BY <2>4 DEF Hearing, Polled, SetParam
    <2>5. CASE RobotAnswers \/ Respond \/ Recover \/ Recovered
      BY <2>5 DEF Hearing, Polled, RobotAnswers, Respond, Recover, Recovered
    <2>6. CASE UNCHANGED vars
      BY <2>6 DEF Hearing, Polled, vars
    <2>. QED BY <2>1, <2>2, <2>3, <2>4, <2>5, <2>6 DEF Next, Executor
  <1>. QED BY <1>1, <1>2, Invariance, PTL DEF Spec

(* What may still happen before the thread can be joined.                  *)
Left ==
  (IF call = NoCall THEN 0 ELSE IF call.outcome = "running" THEN 2 ELSE 1)
  + (IF recovering THEN 1 ELSE 0)
  + (IF thread = "ended" THEN 0 ELSE 1)
  + (IF ok THEN 1 ELSE 0)

(* The destructor's join waits for at most five steps of others: the       *)
(* robot's answer and the response to the setter that runs, the recovery   *)
(* that runs, the return of spin, a shutdown.  No callback is begun any    *)
(* more, and the cancel is not lost.                                       *)
THEOREM JoinWaitsForFewSteps ==
  Spec => [][owner = "join" =>
               /\ Left \in 0 .. 5
               /\ owner' = "release" \/ Left' < Left]_vars
  <1>1. Inv /\ Hearing /\ [Next]_vars
        => [owner = "join" => Left \in 0 .. 5 /\ (owner' = "release" \/ Left' < Left)]_vars
    <2>. SUFFICES ASSUME Inv, Hearing, Next, owner = "join"
                  PROVE  Left \in 0 .. 5 /\ (owner' = "release" \/ Left' < Left)
      OBVIOUS
    <2>1. thread \in {"spinning", "ended"} /\ ~spinning /\ call \in Calls \cup {NoCall}
          /\ NoCall \notin Calls
      BY DEF Hearing, Polled, Inv, TypeOK
    <2>2. Left \in 0 .. 5
      BY DEF Left
    <2>3. CASE Constructor \/ Destroy \/ Destructor
      BY <2>2, <2>3 DEF Constructor, Check, Connect, StartThread, Poll, AddNode, Destroy, Destructor,
                  Cancel, Join, Release
    <2>4. CASE Shutdown
      BY <2>4 DEF Shutdown, Left
    <2>5. CASE Spin \/ SpinEnds
      BY <2>1, <2>5 DEF Spin, SpinEnds, Left
    <2>6. CASE Recover \/ Recovered
      BY <2>1, <2>6 DEF Recover, Recovered, Takes, Left
    <2>7. ASSUME NEW p \in Params, NEW v \in Values, SetParam(p, v) PROVE FALSE
      BY <2>1, <2>7 DEF SetParam, Takes
    <2>8. CASE RobotAnswers
      <3>1. call \in Calls /\ call.outcome = "running"
        BY <2>1, <2>8 DEF RobotAnswers
      <3>2. PICK outcome \in {"done", "refused", "lost"} : call' = [call EXCEPT !.outcome = outcome]
        BY <2>8 DEF RobotAnswers
      <3>3. call'.outcome # "running" /\ call' \in Calls
        BY <3>1, <3>2
      <3>4. UNCHANGED <<recovering, thread, ok>>
        BY <2>8 DEF RobotAnswers
      <3>. QED BY <2>1, <3>1, <3>3, <3>4 DEF Left
    <2>9. CASE Respond
      BY <2>1, <2>9 DEF Respond, Left
    <2>. QED BY <2>2, <2>3, <2>4, <2>5, <2>6, <2>7, <2>8, <2>9 DEF Next, Executor
  <1>. QED BY <1>1, Invariance, HearingInvariant, PTL DEF Spec

-----------------------------------------------------------------------------
(* The poll of the constructor finds the thread before spin, in it, or     *)
(* after it; after it only because the context was shut down.              *)
PollInv ==
  owner = "poll" =>
    \/ thread = "started" /\ ~spinning
    \/ thread = "spinning" /\ spinning
    \/ thread = "ended" /\ ~spinning /\ ~ok

LEMMA PollInvariant == Spec => []PollInv
  <1>1. Init => PollInv
    BY DEF Init, PollInv
  <1>2. Inv /\ Hearing /\ PollInv /\ [Next]_vars => PollInv'
    <2>. SUFFICES ASSUME Inv, Hearing, PollInv, [Next]_vars PROVE PollInv'
      OBVIOUS
    <2>1. CASE Constructor
      BY <2>1 DEF Inv, Lifetime, Hearing, PollInv, Constructor, Check, Connect, StartThread, Poll, AddNode, Go
    <2>2. CASE Destroy \/ Destructor \/ Shutdown
      BY <2>2 DEF PollInv, Destroy, Destructor, Cancel, Join, Release, Shutdown, Go
    <2>3. CASE Spin \/ SpinEnds
      BY <2>3 DEF PollInv, Spin, SpinEnds, component
    <2>4. ASSUME NEW p \in Params, NEW v \in Values, SetParam(p, v) PROVE PollInv'
      BY <2>4 DEF PollInv, SetParam, component
    <2>5. CASE RobotAnswers \/ Respond \/ Recover \/ Recovered
      BY <2>5 DEF PollInv, RobotAnswers, Respond, Recover, Recovered, component
    <2>6. CASE UNCHANGED vars
      BY <2>6 DEF PollInv, vars, component
    <2>. QED BY <2>1, <2>2, <2>3, <2>4, <2>5, <2>6 DEF Next, Executor
  <1>. QED BY <1>1, <1>2, Invariance, HearingInvariant, PTL DEF Spec

(* The constructor's poll, however long it sleeps in between, never misses *)
(* that the executor spins: while the context lasts, it is before spin or  *)
(* in it.  A shutdown before a poll has seen it is not survived: once spin *)
(* has returned the constructor polls for ever.                            *)
THEOREM PollMissesNothing ==
  /\ Spec => [](owner = "poll" /\ ok => thread = "started" \/ spinning)
  /\ Spec => [][owner = "poll" /\ thread = "ended" => owner' = "poll" /\ thread' = "ended"]_vars
  <1>1. PollInv => (owner = "poll" /\ ok => thread = "started" \/ spinning)
    BY DEF PollInv
  <1>2. PollInv /\ [Next]_vars
        => [owner = "poll" /\ thread = "ended" => owner' = "poll" /\ thread' = "ended"]_vars
    <2>. SUFFICES ASSUME PollInv, Next, owner = "poll", thread = "ended"
                  PROVE  owner' = "poll" /\ thread' = "ended"
      OBVIOUS
    <2>1. ~spinning
      BY DEF PollInv
    <2>2. ~Constructor
      BY <2>1 DEF Constructor, Check, Connect, StartThread, Poll, AddNode, Go
    <2>3. ~Destroy /\ ~Destructor /\ ~Spin /\ ~SpinEnds
      BY DEF Destroy, Destructor, Cancel, Join, Release, Spin, SpinEnds, Go
    <2>4. \A p \in Params, v \in Values : ~SetParam(p, v)
      BY DEF SetParam, Takes
    <2>5. CASE Shutdown \/ RobotAnswers \/ Respond \/ Recover \/ Recovered
      BY <2>5 DEF Shutdown, RobotAnswers, Respond, Recover, Recovered, component
    <2>. QED BY <2>2, <2>3, <2>4, <2>5 DEF Next, Executor
  <1>3. Spec => [](owner = "poll" /\ ok => thread = "started" \/ spinning)
    BY <1>1, PollInvariant, PTL
  <1>4. Spec => [][owner = "poll" /\ thread = "ended" => owner' = "poll" /\ thread' = "ended"]_vars
    BY <1>2, PollInvariant, PTL DEF Spec
  <1>. QED BY <1>3, <1>4
=============================================================================
