-------------------------- MODULE MCSignalingClient --------------------------
(* Instances of SignalingClient for model checking. *)
EXTENDS SignalingClient
=============================================================================
