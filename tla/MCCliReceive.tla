---------------------------- MODULE MCCliReceive ----------------------------
(* Instances of CliReceive for model checking. *)
EXTENDS CliReceive

CONSTANTS s1, f1

\* Both files in the first session, one in the others.
TwoThenOne == [s \in Session |-> IF s = s1 THEN File ELSE {f1}]
=============================================================================
