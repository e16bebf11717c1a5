----------------------------- MODULE MCCliSend -----------------------------
(* Instances of CliSend for model checking. *)
EXTENDS CliSend

\* A directory with a file and a directory with another one: what is typed, y,
\* hides the one entry of the first and both of the second.
Tree ==
    [top |-> <<DirEntry("sub", <<"x">>), FileEntry("f1", <<"x", "y">>)>>,
     sub |-> <<DirEntry("top", <<"x">>), FileEntry("f2", <<"x">>)>>]
ParentOf == [top |-> "top", sub |-> "top"]

\* Typing ahead finds what can be embedded, for all short filters and names.
Words(n) == UNION {[1..k -> {"x", "y"}] : k \in 0..n}
ASSUME MatchesSubsequences ==
    \A query \in Words(3), name \in Words(4) : MatchesQuery(query, name) <=> Embeds(query, name)
=============================================================================
