--------------------------- MODULE MotionGenerator ---------------------------
(***************************************************************************)
(* The motion generator of the move-to-start controller: the joints of a   *)
(* robot that move from where they are to a goal and end together.         *)
(*                                                                         *)
(* Of the distance of a joint the model keeps how it compares with the     *)
(* threshold below which the joint counts as arrived; time is counted in   *)
(* updates.                                                                *)
(***************************************************************************)
EXTENDS Integers, FiniteSetsExt

CONSTANTS
  Joints,
  Longest  (* the longest motion                                            *)

Distances == {"below", "threshold", "short", "long"}

(* Mutant: joints that do not reach their top speed are left out.          *)
MutApart(distance) == distance = "long"

(* The distances that calculateSynchronizedValues makes a plan for.        *)
Apart(distance) == distance \in {"short", "long"}

(* The time a joint would take alone.                                      *)
Alone(distance) ==
  IF distance = "long" THEN Longest ELSE IF distance = "short" THEN 1 ELSE 0

Slowest(distances) == Max({Alone(distances[j]) : j \in Joints})

(* A time that no motion reaches.                                          *)
Never == Longest + 1

Still == [j \in Joints |-> "below"]

(* When the motion of each joint ends: joints with a plan end with the     *)
(* slowest one.  The times of the others are never set.  Of a joint below  *)
(* the threshold nobody reads them; at the threshold they are whatever the *)
(* memory held: a time that has passed, that comes, or that never comes.   *)
Plans(distances) ==
  {ends \in [Joints -> 0 .. Never] :
     \A j \in Joints :
       /\ Apart(distances[j]) => ends[j] = Slowest(distances)
       /\ distances[j] = "below" => ends[j] = 0}

(* calculateDesiredValues: a joint at the threshold has not arrived.       *)
Arrived(distances, ends, time) ==
  \A j \in Joints : distances[j] = "below" \/ time >= ends[j]
=============================================================================
