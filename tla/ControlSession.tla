--------------------------- MODULE ControlSession ---------------------------
(***************************************************************************)
(* What the arm may see of the driver: at most one control session at a    *)
(* time, of one mode; messages inside a session only, of its mode, and,    *)
(* where a message is a place to be in rather than a rate or an effort,    *)
(* none before the session has been armed with the place the arm is in.    *)
(***************************************************************************)
CONSTANTS
  Modes,      (* the control modes                                          *)
  Cartesian,  (* the modes whose messages may carry an elbow                *)
  Measured,   (* the modes that have to be armed with the robot's state     *)
  NoControl   (* no session                                                 *)

VARIABLES session, armed, message

svars == <<session, armed, message>>

Silence == [buffers |-> {}, as |-> NoControl]

(* The messages of a mode: its own buffer, with or without the elbow's.    *)
Messages(m) ==
  {[buffers |-> {m}, as |-> m]} \cup
  (IF m \in Cartesian THEN {[buffers |-> {m, "elbow"}, as |-> m]} ELSE {})

Init == session = NoControl /\ armed = FALSE /\ message = Silence

Begin(m) == session' = m /\ armed' = (m \notin Measured) /\ UNCHANGED message

Arm == session # NoControl /\ armed' = TRUE /\ UNCHANGED session /\ message' = Silence

End == session' = NoControl /\ armed' = FALSE /\ UNCHANGED message

Send == armed /\ message' \in Messages(session) /\ UNCHANGED <<session, armed>>

Hush == message' = Silence /\ UNCHANGED <<session, armed>>

Next == (\E m \in Modes : Begin(m)) \/ Arm \/ End \/ Send \/ Hush

Spec == Init /\ [][Next]_svars

=============================================================================
