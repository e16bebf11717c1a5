--------------------------- MODULE MCUploadServer ---------------------------
(* Instances of UploadServer for model checking. *)
EXTENDS UploadServer, TLC

\* Every sender offers every file.
OfferAll == {File}
\* Some senders offer nothing.
OfferAllOrNone == {{}, File}

Symmetric == Permutations(Request) \cup Permutations(Upload) \cup
             Permutations(Cancel) \cup Permutations(Peer) \cup Permutations(File)
=============================================================================
