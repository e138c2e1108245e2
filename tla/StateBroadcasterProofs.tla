----------------------- MODULE StateBroadcasterProofs -----------------------
(***************************************************************************)
(* Safety of StateBroadcaster for any description and any number of        *)
(* cycles.  That nothing is lost rests on who may touch the message: an    *)
(* update between trylock and unlock, which finds the last message taken,  *)
(* or the publisher's thread while it copies (LockInv), so that what is    *)
(* handed over is of one cycle and stays so until it is copied             *)
(* (ContentInv).                                                           *)
(***************************************************************************)
EXTENDS StateBroadcaster, SequenceTheorems, TLAPS

LockInv ==
  /\ rt \in {"locked", "filled"} <=> mutex = "update"
  /\ thread \in {"looking", "copying"} <=> mutex = "thread"
  /\ mutex = "update" => turn = "realtime"
  /\ turn = "notStarted" <=> thread = "starting"
  /\ turn = "none" <=> thread = "none"
  /\ rt # "idle" => life = "active" /\ cycle \in Cycles

ContentInv ==
  /\ rt = "locked" => msg.stamp = cycle
  /\ rt = "filled" => msg = Whole(cycle)
  /\ thread = "copying" => turn = "nonRealtime" /\ outgoing.stamp = msg.stamp

Inv == TypeOK /\ LockInv /\ ContentInv /\ NothingLost

-----------------------------------------------------------------------------
USE DescriptionAssumption, BoundAssumption, NamesAssumption

MessagesOf(a) == [i \in DOMAIN a |-> Whole(a[i])]

LEMMA WholeType == ASSUME NEW c \in 0 .. MaxCycle PROVE Whole(c) \in Messages
  BY DEF Whole, Messages

LEMMA FunctionIsSequence ==
  ASSUME NEW S, NEW n \in Nat, NEW f \in [1 .. n -> S]
  PROVE  f \in Seq(S)
  <1>1. [1 .. n -> S] \in {[1 .. m -> S] : m \in Nat}
    OBVIOUS
  <1>2. f \in UNION {[1 .. m -> S] : m \in Nat}
    BY <1>1
  <1>3. Seq(S) = UNION {[1 .. m -> S] : m \in Nat}
    BY SeqDef
  <1>. QED BY <1>2, <1>3, Zenon

LEMMA MessagesAppend ==
  ASSUME NEW a \in Seq(Cycles), NEW c \in Cycles
  PROVE  /\ MessagesOf(a) \in Seq(Messages)
         /\ MessagesOf(Append(a, c)) = Append(MessagesOf(a), Whole(c))
         /\ MessagesOf(Append(a, c)) = MessagesOf(a) \o <<Whole(c)>>
  <1>1. \A i \in DOMAIN a : a[i] \in Cycles /\ Whole(a[i]) \in Messages
    BY WholeType DEF Cycles
  <1>2. MessagesOf(a) \in Seq(Messages) /\ Len(MessagesOf(a)) = Len(a)
    <2>1. Len(a) \in Nat /\ DOMAIN a = 1 .. Len(a)
      BY LenProperties
    <2>2. MessagesOf(a) \in [1 .. Len(a) -> Messages]
      BY <1>1, <2>1 DEF MessagesOf
    <2>3. MessagesOf(a) \in Seq(Messages)
      BY <2>1, <2>2, FunctionIsSequence
    <2>4. DOMAIN MessagesOf(a) = 1 .. Len(a) /\ DOMAIN MessagesOf(a) = 1 .. Len(MessagesOf(a))
          /\ Len(MessagesOf(a)) \in Nat
      BY <2>2, <2>3, LenProperties
    <2>. QED BY <2>1, <2>3, <2>4
  <1>3. Whole(c) \in Messages
    BY WholeType DEF Cycles
  <1>4. MessagesOf(Append(a, c)) = Append(MessagesOf(a), Whole(c))
    BY <1>1, <1>2, <1>3 DEF MessagesOf
  <1>. QED BY <1>2, <1>3, <1>4, AppendIsConcat

(* The two halves of NothingLost.                                          *)
Sent == sent \o Copied \o Given = MessagesOf(accepted)
Told == told \o (IF rt = "handed" THEN <<msg>> ELSE << >>) = MessagesOf(accepted)

LEMMA Halves == NothingLost <=> Sent /\ Told
  BY DEF NothingLost, Sent, Told, MessagesOf

LEMMA Parts ==
  ASSUME TypeOK
  PROVE  Copied \in Seq(Messages) /\ Given \in Seq(Messages)
  BY DEF TypeOK, Copied, Given

LEMMA AssignOnce == Assign(<< >>, <<"state">>) = <<"live">>
  <1>1. DOMAIN <<"state">> = 1 .. 1
    OBVIOUS
  <1>2. [g \in DOMAIN <<"state">> |-> "live"] = <<"live">>
    BY <1>1
  <1>. QED BY <1>2, ConcatEmptySeq DEF Assign

-----------------------------------------------------------------------------
LEMMA InvInit == Init => Inv
  <1>. SUFFICES ASSUME Init PROVE Inv
    OBVIOUS
  <1>1. TypeOK
    <2>1. Blank \in Messages /\ [f \in Frames |-> Root] \in [Frames -> Links]
      BY DEF Blank, Messages, Frames
    <2>2. << >> \in Seq(Cycles) /\ << >> \in Seq(Messages)
      BY EmptySeq
    <2>3. frames \in [Frames -> Links] /\ msg \in Messages /\ outgoing \in Messages
      BY <2>1 DEF Init
    <2>4. accepted \in Seq(Cycles) /\ sent \in Seq(Messages) /\ told \in Seq(Messages)
      BY <2>2 DEF Init
    <2>5. cycle \in 0 .. MaxCycle
      BY DEF Init
    <2>. QED BY <2>3, <2>4, <2>5 DEF Init, TypeOK
  <1>2. LockInv /\ ContentInv
    BY DEF Init, LockInv, ContentInv
  <1>3. NothingLost
    BY DEF Init, NothingLost, Copied, Given
  <1>. QED BY <1>1, <1>2, <1>3 DEF Inv

(* Steps of the lifecycle and the start of a cycle leave messages alone.   *)
LEMMA QuietStep ==
  ASSUME Inv, ConfigureFails \/ Activate \/ Deactivate \/ Cleanup \/ Cycle
  PROVE  Inv'
  <1>1. TypeOK'
    <2>1. CASE Activate
      BY <2>1, AssignOnce DEF Inv, TypeOK, Activate, loop, publisher, history
    <2>2. CASE Deactivate
      BY <2>2 DEF Inv, TypeOK, Deactivate, Left, Released, Ended, loop, publisher, history
    <2>3. CASE Cycle
      BY <2>3 DEF Inv, TypeOK, Cycle, controller, publisher, history
    <2>4. CASE ConfigureFails \/ Cleanup
      BY <2>4 DEF Inv, TypeOK, ConfigureFails, Cleanup, loop, publisher, history
    <2>. QED BY <2>1, <2>2, <2>3, <2>4
  <1>2. LockInv' /\ ContentInv'
    BY DEF Inv, TypeOK, LockInv, ContentInv, ConfigureFails, Activate, Deactivate, Cleanup, Cycle,
           controller, loop, publisher, history, Cycles
  <1>3. NothingLost'
    BY DEF Inv, NothingLost, Copied, Given, ConfigureFails, Activate, Deactivate, Cleanup, Cycle,
           controller, loop, publisher, history
  <1>. QED BY <1>1, <1>2, <1>3 DEF Inv

LEMMA ReloadStep == ASSUME Inv, Reload PROVE Inv'
  <1>1. TypeOK'
    <2>1. Blank \in Messages /\ [f \in Frames |-> Root] \in [Frames -> Links]
      BY DEF Blank, Messages
    <2>2. << >> \in Seq(Cycles) /\ << >> \in Seq(Messages)
      BY EmptySeq
    <2>3. frames' \in [Frames -> Links] /\ msg' \in Messages /\ outgoing' \in Messages
      BY <2>1 DEF Reload
    <2>4. accepted' \in Seq(Cycles) /\ sent' \in Seq(Messages) /\ told' \in Seq(Messages)
      BY <2>2 DEF Reload
    <2>. QED BY <2>3, <2>4 DEF Inv, TypeOK, Reload, loop
  <1>2. LockInv' /\ ContentInv'
    BY DEF Inv, LockInv, ContentInv, Reload, loop
  <1>3. NothingLost'
    BY DEF Inv, LockInv, NothingLost, Copied, Given, Reload, loop
  <1>. QED BY <1>1, <1>2, <1>3 DEF Inv

LEMMA ConfigureStep == ASSUME Inv, Configure PROVE Inv'
  <1>1. TypeOK'
    BY DEF Inv, TypeOK, Configure, controller, loop, Blank, Messages
  <1>2. LockInv' /\ ContentInv'
    BY DEF Inv, LockInv, ContentInv, Configure, loop
  <1>3. NothingLost'
    BY DEF Inv, LockInv, NothingLost, Copied, Given, Configure, loop
  <1>. QED BY <1>1, <1>2, <1>3 DEF Inv

(* A failing update, whatever the controller manager makes of it.          *)
LEMMA FailStep ==
  ASSUME Inv, rt # "idle", Fail
  PROVE  /\ life' \in {"inactive", "active"}
         /\ references' = IF life' = "active" THEN <<"live">> ELSE << >>
         /\ rt' = "idle" /\ cycle' = cycle
  BY DEF Inv, TypeOK, LockInv, Fail, Left, Released, Ended, controller

-----------------------------------------------------------------------------
LEMMA TryLockStep == ASSUME Inv, TryLock PROVE Inv'
  <1>1. TypeOK' /\ msg'.stamp = cycle
    BY DEF Inv, TypeOK, LockInv, TryLock, controller, history, Messages, Cycles
  <1>2. LockInv' /\ ContentInv'
    BY <1>1 DEF Inv, LockInv, ContentInv, TryLock, MayWrite, controller, history
  <1>3. NothingLost'
    BY DEF Inv, NothingLost, Copied, Given, TryLock, MayWrite, history
  <1>. QED BY <1>1, <1>2, <1>3 DEF Inv

LEMMA TryLockFailsStep == ASSUME Inv, TryLockFails PROVE Inv'
  <1>0. rt # "idle" /\ rt # "handed"
    BY DEF TryLockFails
  <1>1. TypeOK'
    BY <1>0, FailStep DEF Inv, TypeOK, TryLockFails, publisher, history
  <1>2. LockInv' /\ ContentInv'
    BY <1>0, FailStep DEF Inv, LockInv, ContentInv, TryLockFails, publisher, history
  <1>3. NothingLost'
    BY <1>0, FailStep DEF Inv, NothingLost, Copied, Given, TryLockFails, publisher, history
  <1>. QED BY <1>1, <1>2, <1>3 DEF Inv

LEMMA GetValuesStep == ASSUME Inv, GetValues PROVE Inv'
  <1>0. /\ rt = "locked" /\ mutex = "update" /\ turn = "realtime" /\ msg \in Messages
        /\ cycle \in Cycles /\ msg.stamp = cycle /\ references # << >>
    BY DEF Inv, TypeOK, LockInv, ContentInv, GetValues
  <1>1. /\ msg' = [msg EXCEPT !.values = cycle] /\ rt' = "filled"
        /\ UNCHANGED <<controller, cycle, mutex, frames, turn, thread, outgoing, history>>
    BY <1>0 DEF GetValues
  <1>2. msg' = Whole(cycle) /\ msg' \in Messages
    BY <1>0, <1>1 DEF Whole, Messages, Cycles
  <1>3. TypeOK'
    BY <1>1, <1>2 DEF Inv, TypeOK, controller, history
  <1>4. LockInv' /\ ContentInv'
    BY <1>0, <1>1, <1>2 DEF Inv, LockInv, ContentInv, controller, Whole
  <1>5. NothingLost'
    BY <1>0, <1>1 DEF Inv, NothingLost, Copied, Given, history
  <1>. QED BY <1>3, <1>4, <1>5 DEF Inv

LEMMA UnlockAndPublishStep == ASSUME Inv, UnlockAndPublish PROVE Inv'
  <1>0. /\ rt = "filled" /\ mutex = "update" /\ turn = "realtime"
        /\ cycle \in Cycles /\ msg = Whole(cycle) /\ accepted \in Seq(Cycles)
        /\ sent \in Seq(Messages) /\ told \in Seq(Messages) /\ msg \in Messages
    BY DEF Inv, TypeOK, LockInv, ContentInv, UnlockAndPublish
  <1>1. /\ rt' = "handed" /\ turn' = "nonRealtime" /\ mutex' = "free" /\ msg' = msg
        /\ accepted' = Append(accepted, cycle) /\ sent' = sent /\ told' = told
        /\ UNCHANGED <<controller, cycle, frames, thread, outgoing>>
    BY DEF UnlockAndPublish, HandedOver
  <1>2. TypeOK'
    BY <1>0, <1>1 DEF Inv, TypeOK, controller
  <1>3. LockInv' /\ ContentInv'
    BY <1>0, <1>1 DEF Inv, LockInv, ContentInv, controller
  <1>4. MessagesOf(accepted') = MessagesOf(accepted) \o <<msg>> /\ MessagesOf(accepted) \in Seq(Messages)
    BY <1>0, <1>1, MessagesAppend
  <1>5. Copied' = Copied /\ Given = << >> /\ Given' = <<msg>>
    BY <1>0, <1>1 DEF Copied, Given
  <1>6. Sent'
    <2>1. sent \o Copied \in Seq(Messages) /\ Copied \in Seq(Messages)
      BY <1>0, Parts, ConcatProperties DEF Inv
    <2>2. sent \o Copied = MessagesOf(accepted)
      BY <2>1, <1>5, Halves, ConcatEmptySeq DEF Inv, Sent
    <2>3. sent' \o Copied' \o Given' = (sent \o Copied) \o <<msg>>
      BY <1>1, <1>5
    <2>. QED BY <2>2, <2>3, <1>4 DEF Sent
  <1>7. Told'
    <2>1. told = MessagesOf(accepted)
      BY <1>0, Halves, ConcatEmptySeq DEF Inv, Told
    <2>. QED BY <2>1, <1>1, <1>4 DEF Told
  <1>8. NothingLost'
    BY <1>6, <1>7, Halves, PTL
  <1>. QED BY <1>2, <1>3, <1>8 DEF Inv

LEMMA PublishPartsStep == ASSUME Inv, PublishParts PROVE Inv'
  <1>1. TypeOK'
    BY DEF Inv, TypeOK, PublishParts, controller, publisher
  <1>2. LockInv' /\ ContentInv'
    BY DEF Inv, LockInv, ContentInv, PublishParts, controller, publisher
  <1>3. NothingLost'
    <2>1. Append(told, msg) = told \o <<msg>> /\ Append(told, msg) \in Seq(Messages)
      BY AppendIsConcat, AppendProperties DEF Inv, TypeOK
    <2>2. Append(told, msg) \o << >> = told \o <<msg>>
      BY <2>1, ConcatEmptySeq
    <2>. QED BY <2>2 DEF Inv, NothingLost, Copied, Given, PublishParts, publisher
  <1>. QED BY <1>1, <1>2, <1>3 DEF Inv

-----------------------------------------------------------------------------
(* Steps of the thread that touch no message.                              *)
LEMMA WaitingStep == ASSUME Inv, ThreadStarts \/ Look \/ SeeNothing PROVE Inv'
  <1>1. TypeOK'
    BY DEF Inv, TypeOK, ThreadStarts, Look, SeeNothing, controller, loop, history
  <1>2. LockInv' /\ ContentInv'
    BY DEF Inv, TypeOK, LockInv, ContentInv, ThreadStarts, Look, SeeNothing, controller, loop, history
  <1>3. NothingLost'
    BY DEF Inv, LockInv, NothingLost, Copied, Given, ThreadStarts, Look, SeeNothing, loop, history
  <1>. QED BY <1>1, <1>2, <1>3 DEF Inv

LEMMA CopyStampStep == ASSUME Inv, CopyStamp PROVE Inv'
  <1>1. TypeOK' /\ outgoing'.stamp = msg.stamp
    BY DEF Inv, TypeOK, CopyStamp, controller, loop, history, Messages
  <1>2. LockInv' /\ ContentInv'
    BY <1>1 DEF Inv, LockInv, ContentInv, CopyStamp, controller, loop, history
  <1>3. NothingLost'
    BY DEF Inv, NothingLost, Copied, Given, CopyStamp, loop, history
  <1>. QED BY <1>1, <1>2, <1>3 DEF Inv

LEMMA CopyValuesStep == ASSUME Inv, CopyValues PROVE Inv'
  <1>0. /\ thread = "copying" /\ turn = "nonRealtime" /\ mutex = "thread"
        /\ msg \in Messages /\ outgoing \in Messages /\ outgoing.stamp = msg.stamp
        /\ sent \in Seq(Messages)
    BY DEF Inv, TypeOK, LockInv, ContentInv, CopyValues
  <1>1. /\ outgoing' = msg /\ thread' = "publishing" /\ turn' = "realtime" /\ mutex' = "free"
        /\ UNCHANGED <<controller, loop, frames, msg, history>>
    BY <1>0 DEF CopyValues, Messages
  <1>2. TypeOK'
    BY <1>0, <1>1 DEF Inv, TypeOK, controller, loop, history
  <1>3. LockInv' /\ ContentInv'
    BY <1>0, <1>1 DEF Inv, LockInv, ContentInv, controller, loop
  <1>4. sent' \o Copied' \o Given' = sent \o Copied \o Given
    <2>1. Copied = << >> /\ Given = <<msg>> /\ Copied' = <<msg>> /\ Given' = << >> /\ sent' = sent
      BY <1>0, <1>1 DEF Copied, Given, history
    <2>2. sent \o << >> = sent /\ (sent \o <<msg>>) \o << >> = sent \o <<msg>>
      BY <1>0, ConcatEmptySeq, ConcatProperties
    <2>. QED BY <2>1, <2>2
  <1>5. NothingLost'
    BY <1>1, <1>4 DEF Inv, NothingLost, loop, history
  <1>. QED BY <1>2, <1>3, <1>5 DEF Inv

LEMMA PublishStep == ASSUME Inv, Publish PROVE Inv'
  <1>0. /\ outgoing \in Messages /\ sent \in Seq(Messages)
        /\ thread = "publishing" /\ thread' = "polling" /\ sent' = Append(sent, outgoing)
        /\ UNCHANGED <<controller, loop, frames, msg, turn, mutex, outgoing, accepted, told>>
    BY DEF Inv, TypeOK, Publish
  <1>1. sent' = sent \o <<outgoing>> /\ sent' \in Seq(Messages)
    BY <1>0, AppendIsConcat, AppendProperties
  <1>2. TypeOK'
    BY <1>0, <1>1 DEF Inv, TypeOK, controller, loop
  <1>3. LockInv' /\ ContentInv'
    BY <1>0 DEF Inv, LockInv, ContentInv, controller, loop
  <1>4. sent' \o Copied' \o Given' = sent \o Copied \o Given
    <2>1. Copied = <<outgoing>> /\ Copied' = << >> /\ Given' = Given
      BY <1>0 DEF Copied, Given
    <2>2. sent' \o << >> = sent'
      BY <1>1, ConcatEmptySeq
    <2>. QED BY <2>1, <2>2, <1>1
  <1>5. NothingLost'
    BY <1>0, <1>4 DEF Inv, NothingLost, loop
  <1>. QED BY <1>2, <1>3, <1>5 DEF Inv

-----------------------------------------------------------------------------
LEMMA InvNext == Inv /\ [Next]_vars => Inv'
  <1>. SUFFICES ASSUME Inv, [Next]_vars PROVE Inv'
    OBVIOUS
  <1>1. CASE Lifecycle \/ Cycle
    BY <1>1, QuietStep, ReloadStep, ConfigureStep DEF Lifecycle
  <1>2. CASE Update
    BY <1>2, TryLockStep, TryLockFailsStep, GetValuesStep, UnlockAndPublishStep, PublishPartsStep DEF Update
  <1>3. CASE Thread
    BY <1>3, WaitingStep, CopyStampStep, CopyValuesStep, PublishStep DEF Thread
  <1>4. CASE UNCHANGED vars
    <2>1. TypeOK' /\ LockInv' /\ ContentInv'
      BY <1>4 DEF Inv, TypeOK, LockInv, ContentInv, vars, controller, loop, publisher, history
    <2>2. NothingLost'
      BY <1>4 DEF Inv, NothingLost, Copied, Given, vars, loop, publisher, history
    <2>. QED BY <2>1, <2>2 DEF Inv
  <1>. QED BY <1>1, <1>2, <1>3, <1>4 DEF Next

LEMMA InvHolds == Spec => []Inv
  BY InvInit, InvNext, PTL DEF Spec

(* The variables keep their types, and the broadcaster never refers to a   *)
(* loan that has ended, for any description that has the links which the   *)
(* constants count.                                                        *)
THEOREM BroadcasterTypeCorrect == Spec => []TypeOK
  BY InvHolds, PTL DEF Inv

(* However the publisher's thread and the updates interleave, every        *)
(* message that is handed over is whole and published once and in order.   *)
THEOREM MessagesAreKept == Spec => []NothingLost
  BY InvHolds, PTL DEF Inv

-----------------------------------------------------------------------------
(***************************************************************************)
(* The way of a message to the other threads.                              *)
(***************************************************************************)

(* The steps of the publisher's thread until it has copied the message     *)
(* that it was given: at most one to publish the message before, three for *)
(* this one.                                                               *)
UntilCopied ==
  IF thread = "publishing" THEN 4
  ELSE IF thread = "polling" THEN 3
  ELSE IF thread = "looking" THEN 2
  ELSE 1

(* A message that has been handed over is copied after at most four steps  *)
(* of the publisher's thread, none of which waits: the mutex is free when  *)
(* the thread comes to it, however many updates try meanwhile, none takes  *)
(* it or touches the message, and the thread does not go round without the *)
(* message.  Only a new publisher, or the end of this one, drops it.       *)
THEOREM MessageWaitsFewSteps ==
  /\ Spec => [](turn = "nonRealtime" =>
               /\ thread \in {"publishing", "polling", "looking", "copying"}
               /\ mutex # "update" /\ (thread = "polling" => mutex = "free"))
  /\ Spec => [][turn = "nonRealtime" =>
                 \/ Configure \/ Reload
                 \/ UNCHANGED <<msg, publisher, accepted, sent>>
                 \/ turn' = "nonRealtime" /\ msg' = msg /\ UntilCopied' = UntilCopied - 1
                 \/ turn' = "realtime" /\ UntilCopied = 1 /\ Copied' = <<msg>>]_vars
  <1>1. Inv => (turn = "nonRealtime" =>
                 /\ thread \in {"publishing", "polling", "looking", "copying"}
                 /\ mutex # "update" /\ (thread = "polling" => mutex = "free"))
    BY DEF Inv, TypeOK, LockInv
  <1>2. ASSUME Inv, turn = "nonRealtime", [Next]_vars
        PROVE  \/ Configure \/ Reload
               \/ UNCHANGED <<msg, publisher, accepted, sent>>
               \/ turn' = "nonRealtime" /\ msg' = msg /\ UntilCopied' = UntilCopied - 1
               \/ turn' = "realtime" /\ UntilCopied = 1 /\ Copied' = <<msg>>
    <2>1. CASE Lifecycle \/ Cycle \/ UNCHANGED vars
      BY <2>1 DEF Lifecycle, ConfigureFails, Activate, Deactivate, Cleanup, Cycle, vars, history
    <2>2. CASE Update
      <3>1. ~TryLock /\ ~GetValues /\ ~UnlockAndPublish
        BY <1>2 DEF Inv, LockInv, TryLock, MayWrite, GetValues, UnlockAndPublish
      <3>2. CASE TryLockFails
        BY <3>2 DEF TryLockFails, history
      <3>3. CASE PublishParts
        BY <3>3 DEF PublishParts
      <3>. QED BY <2>2, <3>1, <3>2, <3>3 DEF Update
    <2>3. CASE Thread
      <3>1. ~ThreadStarts /\ ~SeeNothing
        BY <1>2 DEF Inv, LockInv, ThreadStarts, SeeNothing
      <3>2. CASE Publish \/ Look \/ CopyStamp
        <4>1. turn' = turn /\ msg' = msg
          BY <3>2 DEF Publish, Look, CopyStamp
        <4>2. UntilCopied' = UntilCopied - 1
          BY <3>2 DEF Publish, Look, CopyStamp, UntilCopied
        <4>. QED BY <1>2, <4>1, <4>2
      <3>3. CASE CopyValues
        <4>1. outgoing' = msg
          BY <1>2, <3>3 DEF Inv, TypeOK, ContentInv, CopyValues, Messages
        <4>2. turn' = "realtime" /\ UntilCopied = 1 /\ Copied' = <<outgoing'>>
          BY <3>3 DEF CopyValues, UntilCopied, Copied
        <4>. QED BY <4>1, <4>2
      <3>. QED BY <2>3, <3>1, <3>2, <3>3 DEF Thread
    <2>. QED BY <1>2, <2>1, <2>2, <2>3 DEF Next
  <1>3. Spec => []Inv
    BY InvHolds
  <1>4. Spec => [](turn = "nonRealtime" =>
                    /\ thread \in {"publishing", "polling", "looking", "copying"}
                    /\ mutex # "update" /\ (thread = "polling" => mutex = "free"))
    BY <1>1, <1>3, PTL
  <1>5. Spec => [][turn = "nonRealtime" =>
                     \/ Configure \/ Reload
                     \/ UNCHANGED <<msg, publisher, accepted, sent>>
                     \/ turn' = "nonRealtime" /\ msg' = msg /\ UntilCopied' = UntilCopied - 1
                     \/ turn' = "realtime" /\ UntilCopied = 1 /\ Copied' = <<msg>>]_vars
    BY <1>2, <1>3, PTL DEF Spec
  <1>. QED BY <1>4, <1>5
=============================================================================
