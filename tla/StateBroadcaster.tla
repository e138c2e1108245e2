-------------------------- MODULE StateBroadcaster --------------------------
(***************************************************************************)
(* The robot state broadcaster: a controller whose update copies the state *)
(* of the robot into a message, hands the message to the thread of a       *)
(* real-time publisher and publishes parts of it itself.                   *)
(*                                                                         *)
(* The real-time thread updates the broadcaster; a service thread          *)
(* configures it.  A message has a stamp and values, written one after the *)
(* other; the state of the robot is the number of the cycle that read it,  *)
(* and so is the time.                                                     *)
(***************************************************************************)
EXTENDS SemanticComponent, Integers

CONSTANTS
  Links,     (* of the description                                          *)
  Root,
  Children,  (* the links below a link, in order                            *)
  Tcp,       (* the link of the gripper's tool, not a link without gripper  *)
  MaxCycle   (* bound: cycles in which the broadcaster is active            *)

ASSUME DescriptionAssumption == Root \in Links /\ Children \in [Links -> Seq(Links)]
ASSUME BoundAssumption == MaxCycle \in Nat \ {0}

Cycles == 1 .. MaxCycle
Messages == [stamp : 0 .. MaxCycle, values : 0 .. MaxCycle]
Blank == [stamp |-> 0, values |-> 0]

VARIABLES
  life,       (* of the controller                                          *)
  references, (* to the interface with the robot's state                    *)
  cycle,      (* of the real-time loop                                      *)
  rt,         (* where the update of this cycle is                          *)
  frames,     (* the frames in the headers of msg_                          *)
  msg,        (* msg_ of the real-time publisher                            *)
  turn,       (* of the real-time publisher                                 *)
  mutex,      (* of the real-time publisher: "free" or who has it           *)
  thread,     (* where the publisher's thread is                            *)
  outgoing,   (* its copy of the message                                    *)
  accepted,   (* messages handed to the present publisher                   *)
  sent,       (* messages it has published                                  *)
  told        (* messages whose parts the update has published              *)

controller == <<life, references>>
loop == <<cycle, rt>>
publisher == <<turn, mutex, thread, outgoing>>
history == <<accepted, sent, told>>
vars == <<controller, loop, frames, msg, publisher, history>>

Frames == {"base", "flange", "load", "endEffector"}

Init ==
  /\ life = "unconfigured" /\ references = << >>
  /\ cycle = 0 /\ rt = "idle"
  /\ frames = [f \in Frames |-> Root] /\ msg = Blank
  /\ turn = "none" /\ mutex = "free" /\ thread = "none" /\ outgoing = Blank
  /\ accepted = << >> /\ sent = << >> /\ told = << >>

-----------------------------------------------------------------------------
(***************************************************************************)
(* The links of the description.                                           *)
(***************************************************************************)

(* set_child_links: the links that a stack of links leads to, the children *)
(* of a link on top of what is left.                                       *)
Below[stack \in Seq(Links)] ==
  IF stack = << >> THEN << >>
  ELSE LET top == stack[Len(stack)]
       IN  <<top>> \o Below[SubSeq(stack, 1, Len(stack) - 1) \o Children[top]]

(* The root is pushed before the walk, which begins with it.               *)
LinkNames == <<Root>> \o Below[<<Root>>]

(* The constants kBaseLinkIndex, kFlangeLinkIndex and kLoadLinkIndex; with *)
(* a gripper the end effector is its tool.                                 *)
FramesOf(names) ==
  [base |-> names[0 + 1], flange |-> names[8 + 1], load |-> names[8 + 1],
   endEffector |-> IF Tcp \in Links THEN Tcp ELSE names[8 + 1]]

(* The description has the links that the constants count: there is no     *)
(* check of their number.                                                  *)
ASSUME NamesAssumption == FramesOf(LinkNames) \in [Frames -> Links]

-----------------------------------------------------------------------------
(***************************************************************************)
(* Lifecycle, in the service thread and, on a switch, between updates.     *)
(***************************************************************************)

(* No description, one that does not parse, or topics that cannot be made. *)
(* The publisher of an earlier configuration stays.                        *)
ConfigureFails ==
  /\ life = "unconfigured" /\ life' = "finalized"
  /\ UNCHANGED <<references, loop, frames, msg, publisher, history>>

(* The controller manager unloads it, with its publisher, and loads        *)
(* another.                                                                *)
Reload ==
  /\ life = "finalized" /\ life' = "unconfigured"
  /\ frames' = [f \in Frames |-> Root] /\ msg' = Blank
  /\ turn' = "none" /\ mutex' = "free" /\ thread' = "none" /\ outgoing' = Blank
  /\ accepted' = << >> /\ sent' = << >> /\ told' = << >>
  /\ UNCHANGED <<references, loop>>

(* A new publisher with a thread of its own; the one it replaces is        *)
(* destroyed, which ends its thread without the message that it was given. *)
Configure ==
  /\ life = "unconfigured" /\ life' = "inactive"
  /\ frames' = FramesOf(LinkNames) /\ msg' = Blank
  /\ turn' = "notStarted" /\ mutex' = "free" /\ thread' = "starting" /\ outgoing' = Blank
  /\ accepted' = << >> /\ sent' = << >> /\ told' = << >>
  /\ UNCHANGED <<references, loop>>

Activate ==
  /\ life = "inactive" /\ life' = "active"
  /\ references' = Assign(references, <<"state">>)
  /\ UNCHANGED <<loop, frames, msg, publisher, history>>

(* The loans end after on_deactivate.                                      *)
Left == Ended(Released(references))

Deactivate ==
  /\ life = "active" /\ rt = "idle" /\ life' = "inactive"
  /\ references' = Left
  /\ UNCHANGED <<loop, frames, msg, publisher, history>>

Cleanup ==
  /\ life = "inactive" /\ life' = "unconfigured"
  /\ UNCHANGED <<references, loop, frames, msg, publisher, history>>

-----------------------------------------------------------------------------
(***************************************************************************)
(* update, in the real-time thread.                                        *)
(***************************************************************************)

Cycle ==
  /\ life = "active" /\ rt = "idle" /\ cycle < MaxCycle
  /\ cycle' = cycle + 1 /\ rt' = "trying"
  /\ UNCHANGED <<controller, frames, msg, publisher, history>>

(* An update that fails is logged; the controller managers of later        *)
(* distributions deactivate the controller.                                *)
Fail ==
  /\ rt' = "idle" /\ UNCHANGED cycle
  /\ \/ UNCHANGED controller
     \/ life' = "inactive" /\ references' = Left

(* Mutant: a message that is not yet taken is no obstacle.                 *)
MutMayWrite == turn # "notStarted"

(* trylock of the real-time publisher, beyond the mutex itself.            *)
MayWrite == turn = "realtime"

TryLock ==
  /\ rt = "trying" /\ mutex = "free" /\ MayWrite
  /\ mutex' = "update" /\ rt' = "locked" /\ msg' = [msg EXCEPT !.stamp = cycle]
  /\ UNCHANGED <<controller, cycle, frames, turn, thread, outgoing, history>>

(* The publisher's thread has the mutex, has not started or has not taken  *)
(* the last message.                                                       *)
TryLockFails ==
  /\ rt = "trying" /\ ~(mutex = "free" /\ MayWrite)
  /\ Fail
  /\ UNCHANGED <<frames, msg, publisher, history>>

(* Without the interface the lock is given back and nothing handed over.   *)
GetValues ==
  /\ rt = "locked"
  /\ IF references # << >>
     THEN msg' = [msg EXCEPT !.values = cycle] /\ rt' = "filled" /\ UNCHANGED <<controller, cycle, mutex>>
     ELSE Fail /\ mutex' = "free" /\ UNCHANGED msg
  /\ UNCHANGED <<frames, turn, thread, outgoing, history>>

(* Mutant: unlock instead of unlockAndPublish.                             *)
MutHandedOver == turn

HandedOver == "nonRealtime"

UnlockAndPublish ==
  /\ rt = "filled" /\ rt' = "handed"
  /\ turn' = HandedOver /\ mutex' = "free"
  /\ accepted' = Append(accepted, cycle)
  /\ UNCHANGED <<controller, cycle, frames, msg, thread, outgoing, sent, told>>

(* The message is read again, without the lock.                            *)
PublishParts ==
  /\ rt = "handed" /\ rt' = "idle"
  /\ told' = Append(told, msg)
  /\ UNCHANGED <<controller, cycle, frames, msg, publisher, accepted, sent>>

-----------------------------------------------------------------------------
(***************************************************************************)
(* The thread of the real-time publisher.                                  *)
(***************************************************************************)

ThreadStarts ==
  /\ thread = "starting" /\ thread' = "polling" /\ turn' = "realtime"
  /\ UNCHANGED <<controller, loop, frames, msg, mutex, outgoing, history>>

Look ==
  /\ thread = "polling" /\ mutex = "free"
  /\ mutex' = "thread" /\ thread' = "looking"
  /\ UNCHANGED <<controller, loop, frames, msg, turn, outgoing, history>>

SeeNothing ==
  /\ thread = "looking" /\ turn # "nonRealtime"
  /\ mutex' = "free" /\ thread' = "polling"
  /\ UNCHANGED <<controller, loop, frames, msg, turn, outgoing, history>>

CopyStamp ==
  /\ thread = "looking" /\ turn = "nonRealtime"
  /\ outgoing' = [outgoing EXCEPT !.stamp = msg.stamp] /\ thread' = "copying"
  /\ UNCHANGED <<controller, loop, frames, msg, turn, mutex, history>>

CopyValues ==
  /\ thread = "copying" /\ thread' = "publishing"
  /\ outgoing' = [outgoing EXCEPT !.values = msg.values]
  /\ turn' = "realtime" /\ mutex' = "free"
  /\ UNCHANGED <<controller, loop, frames, msg, history>>

Publish ==
  /\ thread = "publishing" /\ thread' = "polling"
  /\ sent' = Append(sent, outgoing)
  /\ UNCHANGED <<controller, loop, frames, msg, turn, mutex, outgoing, accepted, told>>

-----------------------------------------------------------------------------
Lifecycle == ConfigureFails \/ Reload \/ Configure \/ Activate \/ Deactivate \/ Cleanup
Update == TryLock \/ TryLockFails \/ GetValues \/ UnlockAndPublish \/ PublishParts
Thread == ThreadStarts \/ Look \/ SeeNothing \/ CopyStamp \/ CopyValues \/ Publish

Next == Lifecycle \/ Cycle \/ Update \/ Thread

Spec == Init /\ [][Next]_vars

(* The publisher's thread runs, and tries for the mutex again and again.   *)
(* No more is asked, of it or of the updates: one that has handed a        *)
(* message over does not take the mutex until the message is copied.       *)
Fairness == WF_vars(Thread)

FairSpec == Spec /\ Fairness

-----------------------------------------------------------------------------
(* The states the variables range over.  The broadcaster refers to the     *)
(* robot's state once and only while it is lent to it: the pointer is not  *)
(* read through a loan of an earlier activation.                           *)
TypeOK ==
  /\ life \in {"unconfigured", "inactive", "active", "finalized"}
  /\ references = IF life = "active" THEN <<"live">> ELSE << >>
  /\ cycle \in 0 .. MaxCycle /\ rt \in {"idle", "trying", "locked", "filled", "handed"}
  /\ frames \in [Frames -> Links] /\ msg \in Messages
  /\ turn \in {"none", "notStarted", "realtime", "nonRealtime"}
  /\ mutex \in {"free", "update", "thread"}
  /\ thread \in {"none", "starting", "polling", "looking", "copying", "publishing"}
  /\ outgoing \in Messages
  /\ accepted \in Seq(Cycles) /\ sent \in Seq(Messages) /\ told \in Seq(Messages)

Whole(c) == [stamp |-> c, values |-> c]

(* What the publisher has been given and has not yet published.            *)
Copied == IF thread = "publishing" THEN <<outgoing>> ELSE << >>
Given == IF turn = "nonRealtime" THEN <<msg>> ELSE << >>

(* Every message that an update hands over is the robot's state of one     *)
(* cycle, with the stamp of that cycle, and is published once and in       *)
(* order: no update overwrites a message that the thread has not taken or  *)
(* is copying, and the parts that update publishes after it has let the    *)
(* message go are those of the same cycle.                                 *)
NothingLost ==
  /\ sent \o Copied \o Given = [i \in DOMAIN accepted |-> Whole(accepted[i])]
  /\ told \o (IF rt = "handed" THEN <<msg>> ELSE << >>)
       = [i \in DOMAIN accepted |-> Whole(accepted[i])]

(* Every message that is handed over is published, unless the broadcaster  *)
(* is configured anew or unloaded before.                                  *)
EveryMessageOut ==
  \A c \in Cycles :
    (\E i \in DOMAIN accepted : accepted[i] = c)
      ~> (\E i \in DOMAIN sent : sent[i] = Whole(c)) \/ ~\E i \in DOMAIN accepted : accepted[i] = c
=============================================================================
