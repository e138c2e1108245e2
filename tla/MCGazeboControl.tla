-------------------------- MODULE MCGazeboControl --------------------------
(* Two joints with every command interface, one that is passive and one    *)
(* that mimics; controllers hold one method of a joint, or mix them.       *)
EXTENDS GazeboControl

CONSTANTS arm, finger, passive, mimic

Turn(a, b) == [from |-> a, start |-> b \ a, stop |-> a \ b]

Turns(Configurations) ==
  {Turn(p[1], p[2]) : p \in {q \in Configurations \X Configurations : q[1] # q[2]}}

Single == {{}} \cup {{<<arm, m>>} : m \in Methods} \cup
          {{<<arm, m>>, <<finger, "position">>} : m \in Methods}

Restart(a) == [from |-> a, start |-> a, stop |-> a]

ExclusiveSwitches == Turns(Single) \cup {Restart(a) : a \in Single \ {{}}}

Both == {<<arm, "position">>, <<arm, "effort">>}
MixedSwitches == Turns({{}, Both, {<<arm, "effort">>}})
=============================================================================
