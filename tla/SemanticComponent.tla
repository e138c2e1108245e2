-------------------------- MODULE SemanticComponent --------------------------
(***************************************************************************)
(* The semantic components of the controllers: sequences of references to  *)
(* the interfaces that a controller has on loan.  The loans of a           *)
(* controller end with its activation, the references only when they are   *)
(* released.                                                               *)
(*                                                                         *)
(* A reference stands for the references to all interfaces of a group: the *)
(* sixteen of a pose, the two of an elbow.                                 *)
(***************************************************************************)
EXTENDS Sequences

References == {"live", "gone"}

(* What is assigned is appended to what is there.                          *)
Assign(references, groups) == references \o [g \in DOMAIN groups |-> "live"]

(* Mutant: only the state interfaces are let go.                           *)
MutReleased(references) == references

Released(references) == << >>

(* After the loans have ended.                                             *)
Ended(references) == [i \in DOMAIN references |-> "gone"]

(* The groups of interfaces of a cartesian component.                      *)
Groups(elbow) == IF elbow THEN <<"pose", "elbow">> ELSE <<"pose">>

(* set_values: the room of the values, which every setCommand makes as     *)
(* large as the values, has to be that of the references.                  *)
Fits(command, references) == Len(command) = Len(references)

(* setCommand: commands with an elbow are for components with an elbow.    *)
Accepts(elbow, command, references) ==
  /\ elbow = (Len(command) = Len(Groups(TRUE)))
  /\ Fits(command, references)
=============================================================================
