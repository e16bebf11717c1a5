------------------------ MODULE MCMulticastDiscovery ------------------------
(* Instances of MulticastDiscovery for model checking. *)
EXTENDS MulticastDiscovery

E(name, index, address, v6) ==
    [name |-> name, index |-> index, address |-> address, v6 |-> v6,
     loopback |-> name = "lo"]

\* An interface of both families and one of IPv4, and one without an index.
EntrySet == {E("lo", 1, <<"1", ".", "0">>, FALSE),
             E("eth", 2, <<"1", ".", "1">>, FALSE),
             E("eth", 2, <<"2", ":", "1">>, TRUE),
             E("wlan", 3, <<"3", ".", "1">>, FALSE),
             E("tun", None, <<"1", ":", "1">>, TRUE)}

\* First a whitelist that names an address of the first interface, then a
\* blacklist that names its other one.
FilterOf == [v \in 0..MaxSettings |->
    IF v = 0
    THEN [whitelist |-> {<<"1", ".", "*">>}, blacklist |-> None]
    ELSE [whitelist |-> {<<"1", ".", "*">>, <<"3", ".", "*">>},
          blacklist |-> {<<"2", ":", "*">>}]]

Symbols == {"1", "2", "."}
Strings(chars, length) == UNION {[1..n -> chars] : n \in 0..length}

\* The match is the documented one, for all short patterns.
ASSUME FilterAsDocumented ==
    \A p \in Strings(Symbols \cup {"*"}, 3), a \in Strings(Symbols, 4) :
        MatchesIpFilter(p, a) <=> Documented(p, a)
=============================================================================
