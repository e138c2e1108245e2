------------------------ MODULE MCStateBroadcaster ------------------------
(***************************************************************************)
(* The broadcaster with the description of an FR3 with its hand, as in     *)
(* agimus_franka_semantic_components/test/robot_description_test.txt.      *)
(***************************************************************************)
EXTENDS StateBroadcaster

Chain == <<"link0", "link1", "link2", "link3", "link4", "link5", "link6", "link7", "link8", "hand">>
Fingers == {"hand_tcp", "leftfinger", "rightfinger"}

MCLinks == {Chain[i] : i \in DOMAIN Chain} \cup Fingers

MCChildren ==
  [l \in MCLinks |->
     IF l = "hand" THEN <<"hand_tcp", "leftfinger", "rightfinger">>
     ELSE IF l \in Fingers THEN << >>
     ELSE <<Chain[1 + CHOOSE i \in DOMAIN Chain : Chain[i] = l]>>]
=============================================================================
