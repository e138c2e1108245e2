---------------------------- MODULE GripperService ----------------------------
(***************************************************************************)
(* What the clients of the gripper node rely on: what becomes of a goal of *)
(* its actions and of the libfranka command that the goal makes run.       *)
(* GripperActionServer implements this; GripperExampleController is        *)
(* composed with it.                                                       *)
(***************************************************************************)

CONSTANTS
  Goals,      (* the goals there may be at a time                           *)
  Immediate   (* those that may end without a command: gripper commands     *)

VARIABLES status, command

service == <<status, command>>

Active == {"executing", "canceling"}
Terminal == {"succeeded", "aborted", "canceled"}

ServiceInit ==
  /\ status = [g \in Goals |-> "unknown"]
  /\ command = [g \in Goals |-> "none"]

Turn(g, s) == status' = [status EXCEPT ![g] = s] /\ UNCHANGED command

(* Every goal is accepted, and every cancel of a goal that has not ended.  *)
Accept(g) == status[g] = "unknown" /\ Turn(g, "executing")

Cancel(g) == status[g] = "executing" /\ Turn(g, "canceling")

(* A goal runs one command at most.                                        *)
Begin(g) ==
  /\ status[g] \in Active /\ command[g] = "none"
  /\ command' = [command EXCEPT ![g] = "running"]
  /\ UNCHANGED status

(* The command ends by itself, because it fails, or because of a stop.     *)
End(g) ==
  /\ command[g] = "running"
  /\ \E answer \in {"true", "false"} : command' = [command EXCEPT ![g] = answer]
  /\ UNCHANGED status

Answer(g) == IF command[g] = "none" /\ g \in Immediate THEN {"true", "false"} ELSE {command[g]}

(* The goal ends as its command did, or canceled once that has ended.      *)
Conclude(g) ==
  /\ status[g] \in Active
  /\ \/ "true" \in Answer(g) /\ Turn(g, "succeeded")
     \/ "false" \in Answer(g) /\ Turn(g, "aborted")
     \/ status[g] = "canceling" /\ command[g] \in {"true", "false"} /\ Turn(g, "canceled")

(* The action server forgets goals that have ended.                        *)
Expire(g) ==
  /\ status[g] \in Terminal
  /\ status' = [status EXCEPT ![g] = "unknown"]
  /\ command' = [command EXCEPT ![g] = "none"]

ServiceNext ==
  \E g \in Goals : Accept(g) \/ Cancel(g) \/ Begin(g) \/ End(g) \/ Conclude(g) \/ Expire(g)

ServiceSpec == ServiceInit /\ [][ServiceNext]_service
=============================================================================
