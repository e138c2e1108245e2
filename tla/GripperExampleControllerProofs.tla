-------------------- MODULE GripperExampleControllerProofs --------------------
(***************************************************************************)
(* The cycle of GripperExampleController for any number of goals and of    *)
(* activations.  What no step may change is counted: an order, which is a  *)
(* goal without a result or a thread about to send one, comes into being   *)
(* only by an activation.  With the service's promise that a goal ends no  *)
(* sooner than its command, every running command belongs to an order.     *)
(***************************************************************************)
EXTENDS GripperExampleController, FiniteSetTheorems, TLAPS

Served ==
  \A g \in Goals :
    /\ command[g] = "running" => status[g] \in Active
    /\ status[g] \in Active => sent[g] # "none"

Inv == TypeOK /\ Served /\ Orders <= activations

USE ControllerAssumption
USE DEF Active, Terminal, Threads, service, client

-----------------------------------------------------------------------------
(* Both sets are finite, so that their sizes add up.                       *)
LEMMA OrdersFinite ==
  /\ IsFiniteSet(Outstanding) /\ Cardinality(Outstanding) \in Nat
  /\ IsFiniteSet(Sending) /\ Cardinality(Sending) \in Nat
  <1>1. IsFiniteSet(Outstanding)
    BY FS_Subset DEF Outstanding
  <1>2. IsFiniteSet({"manager", "executor"})
    <2>1. IsFiniteSet({"manager"} \cup {"executor"})
      BY FS_Singleton, FS_AddElement
    <2>. QED BY <2>1
  <1>3. IsFiniteSet(Sending)
    BY <1>2, FS_Subset DEF Sending
  <1>. QED BY <1>1, <1>3, FS_CardinalityType

LEMMA OrdersNat == Orders \in Nat /\ Orders' \in Nat
  <1>1. IsFiniteSet(Outstanding')
    BY FS_Subset DEF Outstanding
  <1>2. Sending' \subseteq {"manager"} \cup {"executor"}
    BY DEF Sending
  <1>3. IsFiniteSet({"manager"} \cup {"executor"})
    BY FS_Singleton, FS_AddElement
  <1>4. IsFiniteSet(Sending')
    BY <1>2, <1>3, FS_Subset
  <1>5. Cardinality(Outstanding') \in Nat /\ Cardinality(Sending') \in Nat
    BY <1>1, <1>4, FS_CardinalityType
  <1>. QED BY <1>5, OrdersFinite DEF Orders

LEMMA TypeInit == Init => TypeOK
  BY DEF Init, ServiceInit, TypeOK

LEMMA InvInit == Init => Inv
  <1>. SUFFICES ASSUME Init PROVE Inv
    OBVIOUS
  <1>1. Outstanding = {} /\ Sending = {}
    BY DEF Init, Outstanding, Sending
  <1>2. Orders <= activations
    BY <1>1, FS_EmptySet DEF Init, Orders
  <1>3. Served
    BY DEF Init, ServiceInit, Served
  <1>. QED BY <1>2, <1>3, TypeInit DEF Inv

(* The steps of the gripper do not concern the controller's orders.        *)
LEMMA GripperStep ==
  ASSUME TypeOK, Served, NEW h \in Goals, Gripper(h) \/ Response(h) \/ Forget(h)
  PROVE  TypeOK' /\ Served' /\ UNCHANGED client
  <1>1. TypeOK'
    BY DEF TypeOK, Gripper, Response, Forget, Accept, Cancel, Begin, End, Conclude, Expire, Turn
  <1>2. Served'
    BY DEF TypeOK, Served, Gripper, Response, Forget, Accept, Cancel, Begin, End, Conclude,
           Expire, Turn, Answer
  <1>. QED BY <1>1, <1>2 DEF Gripper, Response, Forget

LEMMA SameOrders == UNCHANGED <<sent, toggle>> => UNCHANGED Orders
  BY DEF Orders, Outstanding, Sending

(* What is sent was about to be sent.                                      *)
LEMMA SendGoalStep ==
  ASSUME TypeOK, Served, NEW t \in Threads, SendGoal(t)
  PROVE  TypeOK' /\ Served' /\ Orders' = Orders
  <1>1. PICK g \in Goals :
          /\ sent[g] = "none" /\ status[g] = "unknown"
          /\ sent' = [sent EXCEPT ![g] = IF ordered = "closed" THEN "move" ELSE "grasp"]
    BY DEF SendGoal
  <1>2. /\ toggle[t] = "send"
        /\ toggle' = [toggle EXCEPT ![t] = IF ordered = "closed" THEN "open" ELSE "closed"]
        /\ UNCHANGED <<service, ordered, lifecycle, answer, activations>>
    BY DEF SendGoal
  <1>3. TypeOK'
    BY <1>1, <1>2 DEF TypeOK
  <1>4. Served'
    BY <1>1, <1>2 DEF Served, TypeOK
  <1>5. Outstanding' = Outstanding \cup {g} /\ g \notin Outstanding
    BY <1>1 DEF Outstanding, TypeOK
  <1>6. Sending' = Sending \ {t} /\ t \in Sending
    BY <1>2 DEF Sending, TypeOK
  <1>7. Cardinality(Outstanding \cup {g}) = Cardinality(Outstanding) + 1
    BY <1>5, OrdersFinite, FS_AddElement
  <1>8. Cardinality(Sending \ {t}) = Cardinality(Sending) - 1
    BY <1>6, OrdersFinite, FS_RemoveElement
  <1>9. Orders' = Orders
    BY <1>5, <1>6, <1>7, <1>8, OrdersFinite DEF Orders
  <1>. QED BY <1>3, <1>4, <1>9

LEMMA WriteOrderedStep ==
  ASSUME TypeOK, Served, NEW t \in Threads, WriteOrdered(t)
  PROVE  TypeOK' /\ Served' /\ Orders' = Orders
  <1>1. TypeOK'
    BY DEF WriteOrdered, TypeOK
  <1>2. Served'
    BY DEF WriteOrdered, Served
  <1>3. Sending' = Sending /\ Outstanding' = Outstanding
    BY DEF WriteOrdered, Sending, Outstanding, TypeOK
  <1>. QED BY <1>1, <1>2, <1>3 DEF Orders

(* A thread that begins to toggle adds one order at most.                  *)
LEMMA OneMore ==
  ASSUME TypeOK, NEW t \in Threads, NEW place \in {"idle", "send"},
         toggle' = [toggle EXCEPT ![t] = place], place = "send" \/ toggle[t] = "idle"
  PROVE  Cardinality(Sending') \in Nat /\ Cardinality(Sending') <= Cardinality(Sending) + 1
         /\ Cardinality(Sending') >= Cardinality(Sending)
         /\ (place = "send" /\ toggle[t] = "idle"
               => Cardinality(Sending') = Cardinality(Sending) + 1)
  <1>1. CASE place = "idle"
    <2>1. Sending' = Sending
      BY <1>1 DEF Sending, TypeOK
    <2>. QED BY <1>1, <2>1, OrdersFinite
  <1>2. CASE place = "send"
    <2>1. Sending' = Sending \cup {t} /\ (toggle[t] = "idle" => t \notin Sending)
      BY <1>2 DEF Sending, TypeOK
    <2>2. Cardinality(Sending \cup {t})
            = IF t \in Sending THEN Cardinality(Sending) ELSE Cardinality(Sending) + 1
      BY OrdersFinite, FS_AddElement
    <2>. QED BY <1>2, <2>1, <2>2, OrdersFinite
  <1>. QED BY <1>1, <1>2

LEMMA ActivateStep ==
  ASSUME TypeOK, Served, Activate
  PROVE  TypeOK' /\ Served' /\ Orders' >= Orders
         /\ (Orders <= activations => Orders' <= activations')
  <1>1. Served' /\ UNCHANGED sent
    BY DEF Activate, Served
  <1>2. Outstanding' = Outstanding
    BY <1>1 DEF Outstanding
  <1>3. CASE lifecycle' = "activating"
    <2>1. /\ toggle' = [toggle EXCEPT !["manager"] = "send"]
          /\ activations' = activations + 1
          /\ UNCHANGED <<service, sent, ordered, answer>>
      BY <1>3 DEF Activate
    <2>2. TypeOK'
      BY <1>3, <2>1 DEF Activate, TypeOK
    <2>3. /\ Cardinality(Sending') \in Nat /\ Cardinality(Sending') <= Cardinality(Sending) + 1
          /\ Cardinality(Sending') >= Cardinality(Sending)
      BY <2>1, OneMore
    <2>4. activations \in Nat
      BY DEF TypeOK
    <2>. QED BY <1>1, <1>2, <2>1, <2>2, <2>3, <2>4, OrdersFinite DEF Orders
  <1>4. CASE lifecycle' # "activating"
    <2>1. UNCHANGED <<toggle, activations>> /\ TypeOK'
      BY <1>4 DEF Activate, TypeOK
    <2>. QED BY <1>1, <2>1, SameOrders, OrdersFinite DEF Orders
  <1>. QED BY <1>3, <1>4

(* The other steps of the manager.                                         *)
LEMMA ManagerStep ==
  ASSUME TypeOK, Served, Activated \/ Deactivate \/ StopAnswered \/ FirstGet \/ SecondGet
  PROVE  TypeOK' /\ Served' /\ UNCHANGED <<sent, toggle, activations>>
  BY DEF TypeOK, Served, Activated, Deactivate, StopAnswered, FirstGet, SecondGet

(* A result takes an order away and gives it back, unless it ends the cycle.*)
LEMMA ResultStep ==
  ASSUME TypeOK, Served, NEW g \in Goals, Result(g)
  PROVE  /\ TypeOK' /\ Served' /\ Orders' <= Orders
         /\ Orders' < Orders => sent[g] = "move" /\ status[g] \in {"aborted", "canceled"}
  <1>1. /\ toggle["executor"] = "idle" /\ sent[g] # "none" /\ status[g] \in Terminal
        /\ sent' = [sent EXCEPT ![g] = "none"]
        /\ UNCHANGED <<service, ordered, lifecycle, answer, activations>>
    BY DEF Result
  <1>2. PICK place \in {"idle", "send"} :
          /\ place = IF Continues(g) THEN "send" ELSE "idle"
          /\ toggle' = [toggle EXCEPT !["executor"] = place]
    BY DEF Result
  <1>3. TypeOK'
    BY <1>1, <1>2 DEF TypeOK
  <1>4. Served'
    BY <1>1 DEF TypeOK, Served
  <1>5. Outstanding' = Outstanding \ {g} /\ g \in Outstanding
    BY <1>1 DEF Outstanding, TypeOK
  <1>6. Cardinality(Outstanding \ {g}) = Cardinality(Outstanding) - 1
    BY <1>5, OrdersFinite, FS_RemoveElement
  <1>7. /\ Cardinality(Sending') \in Nat /\ Cardinality(Sending') <= Cardinality(Sending) + 1
        /\ Cardinality(Sending') >= Cardinality(Sending)
        /\ place = "send" => Cardinality(Sending') = Cardinality(Sending) + 1
    BY <1>1, <1>2, OneMore
  <1>8. Orders' <= Orders /\ (Orders' < Orders => place # "send")
    BY <1>5, <1>6, <1>7, OrdersFinite DEF Orders
  <1>9. place # "send" => sent[g] = "move" /\ status[g] \in {"aborted", "canceled"}
    BY <1>1, <1>2 DEF Continues, TypeOK
  <1>. QED BY <1>3, <1>4, <1>8, <1>9

-----------------------------------------------------------------------------
(* Every step keeps the invariant, and takes an order away only as said.   *)
LostOrder == \E g \in Goals : sent[g] = "move" /\ status[g] \in {"aborted", "canceled"}

LEMMA InvNext ==
  Inv /\ [Next]_vars => Inv' /\ (Orders' < Orders => LostOrder)
  <1>. SUFFICES ASSUME Inv, [Next]_vars PROVE Inv' /\ (Orders' < Orders => LostOrder)
    OBVIOUS
  <1>0. TypeOK /\ Served /\ Orders <= activations /\ activations \in Nat
    BY DEF Inv, TypeOK
  <1>1. CASE Activate
    BY <1>0, OrdersNat, <1>1, ActivateStep DEF Inv
  <1>2. CASE Activated \/ Deactivate \/ StopAnswered \/ FirstGet \/ SecondGet
    BY <1>0, OrdersNat, <1>2, ManagerStep, SameOrders DEF Inv
  <1>3. ASSUME NEW t \in Threads, Toggle(t) PROVE Inv' /\ (Orders' < Orders => LostOrder)
    <2>1. UNCHANGED activations
      BY <1>3 DEF Toggle, SendGoal, WriteOrdered
    <2>. QED BY <1>0, OrdersNat, <1>3, <2>1, SendGoalStep, WriteOrderedStep DEF Toggle, Inv
  <1>4. ASSUME NEW g \in Goals, Result(g) PROVE Inv' /\ (Orders' < Orders => LostOrder)
    <2>1. UNCHANGED activations
      BY <1>4 DEF Result
    <2>2. TypeOK' /\ Served' /\ Orders' <= Orders /\ (Orders' < Orders => LostOrder)
      BY <1>0, <1>4, ResultStep DEF LostOrder
    <2>. QED BY <1>0, OrdersNat, <2>1, <2>2 DEF Inv
  <1>5. ASSUME NEW g \in Goals, Gripper(g) \/ Response(g) \/ Forget(g)
        PROVE  Inv' /\ (Orders' < Orders => LostOrder)
    BY <1>0, OrdersNat, <1>5, GripperStep, SameOrders DEF Inv
  <1>6. CASE UNCHANGED vars
    <2>1. TypeOK' /\ Served'
      BY <1>0, <1>6 DEF vars, TypeOK, Served
    <2>. QED BY <1>0, OrdersNat, <1>6, <2>1, SameOrders DEF vars, Inv
  <1>. QED BY <1>1, <1>2, <1>3, <1>4, <1>5, <1>6 DEF Next, Manager, Goal

THEOREM Invariance == Spec => []Inv
  BY InvInit, InvNext, PTL DEF Spec

-----------------------------------------------------------------------------
(* The variables keep their types, for any finite set of goals.            *)
THEOREM ControllerTypeCorrect == Spec => []TypeOK
  <1>1. Inv => TypeOK BY DEF Inv
  <1>. QED BY <1>1, Invariance, PTL

(* A controller that was activated n times never has more than n commands  *)
(* of the hand running, however callbacks and activations interleave.      *)
THEOREM OneCommandEach == Spec => []OneCommandPerActivation
  <1>1. Inv => OneCommandPerActivation
    <2>. SUFFICES ASSUME Inv PROVE OneCommandPerActivation
      OBVIOUS
    <2>. DEFINE Busy == {g \in Goals : command[g] = "running"}
    <2>1. Busy \subseteq Outstanding
      BY DEF Inv, Served, Outstanding
    <2>2. Cardinality(Busy) <= Cardinality(Outstanding) /\ Cardinality(Busy) \in Nat
      BY <2>1, OrdersFinite, FS_Subset, FS_CardinalityType
    <2>3. activations \in Nat /\ Cardinality(Outstanding) + Cardinality(Sending) <= activations
      BY DEF Inv, TypeOK, Orders
    <2>. QED BY <2>2, <2>3, OrdersFinite DEF OneCommandPerActivation
  <1>. QED BY <1>1, Invariance, PTL

(* No result is lost: the cycle of an activation ends with a move that did *)
(* not succeed, and with nothing else.                                     *)
THEOREM CyclesGoOn == Spec => OnlyFailedMoveStops
  <1>1. Inv /\ [Next]_vars => [Orders' < Orders => LostOrder]_vars
    BY InvNext
  <1>. QED BY <1>1, Invariance, PTL DEF Spec, OnlyFailedMoveStops, LostOrder

-----------------------------------------------------------------------------
(* The future has been emptied by the time that the condition judges it.   *)
FutureInv ==
  /\ lifecycle = "stopping" => answer \in {"pending", "ready"}
  /\ lifecycle = "judging" => answer = "taken"

(* A deactivation that asks the stop service ends with the controller      *)
(* finalized, whatever the service answers and whatever goals are under    *)
(* way, because the condition calls get() twice; and a finalized           *)
(* controller stays so, which leaves its cycle to go on without it.        *)
THEOREM StopFinalizes ==
  /\ Spec => [][lifecycle = "judging" => lifecycle' \in {"judging", "finalized"}]_vars
  /\ Spec => [][lifecycle = "stopping" => lifecycle' \in {"stopping", "judging"}]_vars
  /\ Spec => [][lifecycle = "finalized" => lifecycle' = "finalized"]_vars
  <1>1. Init => FutureInv
    BY DEF Init, FutureInv
  <1>2. ASSUME FutureInv, [Next]_vars
        PROVE  /\ FutureInv'
               /\ lifecycle = "judging" => lifecycle' \in {"judging", "finalized"}
               /\ lifecycle = "stopping" => lifecycle' \in {"stopping", "judging"}
               /\ lifecycle = "finalized" => lifecycle' = "finalized"
    <2>1. CASE Manager
      BY <1>2, <2>1 DEF Manager, Activate, Activated, Deactivate, FirstGet, SecondGet, FutureInv
    <2>2. CASE StopAnswered
      BY <1>2, <2>2 DEF StopAnswered, FutureInv
    <2>3. CASE UNCHANGED <<lifecycle, answer>>
      BY <1>2, <2>3 DEF FutureInv
    <2>4. ASSUME NEW t \in Threads, Toggle(t) PROVE UNCHANGED <<lifecycle, answer>>
      BY <2>4 DEF Toggle, SendGoal, WriteOrdered
    <2>5. ASSUME NEW g \in Goals, Goal(g) PROVE UNCHANGED <<lifecycle, answer>>
      BY <2>5 DEF Goal, Response, Gripper, Result, Forget
    <2>6. CASE UNCHANGED vars
      BY <2>3, <2>6 DEF vars
    <2>. QED BY <1>2, <2>1, <2>2, <2>3, <2>4, <2>5, <2>6 DEF Next
  <1>3. Spec => []FutureInv
    BY <1>1, <1>2, PTL DEF Spec
  <1>4. Spec => [][lifecycle = "judging" => lifecycle' \in {"judging", "finalized"}]_vars
    BY <1>2, <1>3, PTL DEF Spec
  <1>5. Spec => [][lifecycle = "stopping" => lifecycle' \in {"stopping", "judging"}]_vars
    BY <1>2, <1>3, PTL DEF Spec
  <1>6. Spec => [][lifecycle = "finalized" => lifecycle' = "finalized"]_vars
    BY <1>2, <1>3, PTL DEF Spec
  <1>. QED BY <1>4, <1>5, <1>6
=============================================================================
