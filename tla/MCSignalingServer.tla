------------------------- MODULE MCSignalingServer -------------------------
(* Instances of SignalingServer for model checking. *)
EXTENDS SignalingServer, TLC

Symmetric == Permutations(Conn) \cup Permutations(Group)
=============================================================================
