---------------------------- MODULE MCFileUpload ----------------------------
(* Instances of FileUpload for model checking. *)
EXTENDS FileUpload

\* An empty file, and one of two blocks.
EmptyOrTwo == {0, 2}
=============================================================================
