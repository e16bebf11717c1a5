------------------------------ MODULE MCWebSend ------------------------------
(* Instances of WebSend for model checking. *)
EXTENDS WebSend, TLC

Symmetric == Permutations(Client) \cup Permutations(Prepare) \cup
             Permutations(Download) \cup Permutations(File)
=============================================================================
