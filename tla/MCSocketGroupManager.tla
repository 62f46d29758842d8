------------------------ MODULE MCSocketGroupManager ------------------------
(* A small instance: one group that is used again and again.               *)
EXTENDS SocketGroupManager, TLC

CONSTANTS g1, s1, s2, s3

OneGroup == {g1}
ThreeSockets == {s1, s2, s3}
TwoTalk == {s1, s2}

(* The third client uses the port number of the first one. *)
SharedPorts == s1 :> 1 @@ s2 :> 2 @@ s3 :> 1
=============================================================================
