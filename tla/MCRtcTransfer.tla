---------------------------- MODULE MCRtcTransfer ----------------------------
(* Instances of RtcTransfer for model checking. *)
EXTENDS RtcTransfer
=============================================================================
