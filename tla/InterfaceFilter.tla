--------------------------- MODULE InterfaceFilter ---------------------------
(***************************************************************************)
(* The choice of the network interfaces that discovery uses                *)
(* (core/src/multicast/interface.rs).  An address, or a pattern, is the    *)
(* sequence of its characters.  What the system lists are entries, one for *)
(* each address of an interface:                                           *)
(*   [name, index, address, v6, loopback]                                  *)
(* The broadcast address of an entry is left out: it is only a second      *)
(* target of what is sent.                                                 *)
(***************************************************************************)
EXTENDS Naturals, Sequences, FiniteSets, FiniteSetsExt

CONSTANT None  \* a list that is not set, an index that is not known

\* Where the label ends that begins at a: a "*" does not cross a ".".
LabelEnd(address, a) ==
    Min({k \in a..Len(address) : address[k] = "."} \cup {Len(address) + 1}) - 1

\* matches_ip_filter: matched[p] has the positions of the address from which on
\* it matches the rest of the pattern, from p on. A "*" consumes at least one
\* character, any other is itself.
MatchesIpFilter(pattern, address) ==
    LET matched[p \in 1..(Len(pattern) + 1)] ==
            IF p > Len(pattern) THEN {Len(address) + 1}
            ELSE {a \in 1..Len(address) :
                    IF pattern[p] = "*"
                    THEN \E n \in a..LabelEnd(address, a) : n + 1 \in matched[p + 1]
                    ELSE address[a] = pattern[p] /\ a + 1 \in matched[p + 1]}
    IN  1 \in matched[1]

AnyAddressMatches(addresses, patterns) ==
    \E a \in addresses, p \in patterns : MatchesIpFilter(p, a)

\* InterfaceFilter::is_ignored
IsIgnored(filter, addresses) ==
    \/ filter.whitelist # None /\ ~AnyAddressMatches(addresses, filter.whitelist)
    \/ filter.blacklist # None /\ AnyAddressMatches(addresses, filter.blacklist)

\* The entries of an interface, found by its name.
ByName(entries, name) == {e \in entries : ~e.loopback /\ e.name = name}

Addresses(entries) == {e.address : e \in entries}

\* Mutant: the filter is asked for each address on its own.
ByAddress(entries, filter, e) ==
    ~e.loopback /\ ~IsIgnored(filter, {e.address})

\* A filter applies to an interface as a whole.
Usable(entries, filter, e) ==
    ~e.loopback /\ ~IsIgnored(filter, Addresses(ByName(entries, e.name)))

\* The first index an entry of the interface has, if any (they agree).
IndexOf(entries, name) ==
    LET known == {e.index : e \in ByName(entries, name)} \ {None}
    IN  IF known = {} THEN None ELSE CHOOSE i \in known : TRUE

\* local_interfaces: an IPv4 membership is joined per address, an IPv6 one per
\* interface, for which its index is needed.
LocalInterfaces(entries, filter) ==
    LET usable == {e \in entries : Usable(entries, filter, e)}
        v6     == {e.name : e \in {u \in usable : u.v6}}
    IN  {[name |-> e.name, address |-> e.address, index |-> None] : e \in {u \in usable : ~u.v6}}
        \cup {[name |-> n, address |-> None, index |-> IndexOf(entries, n)] :
                n \in {m \in v6 : IndexOf(entries, m) # None}}
-----------------------------------------------------------------------------
(* The filter as its documentation defines it.                             *)

\* What a piece of the pattern matches: the symbols from one position to
\* another. A "*" is one or more characters that are not a ".".
Covers(symbol, address, from, to) ==
    IF symbol = "*"
    THEN from < to /\ \A k \in (from + 1)..to : address[k] # "."
    ELSE to = from + 1 /\ address[to] = symbol

\* The address can be cut so that each symbol of the pattern matches its part.
Documented(pattern, address) ==
    \E cut \in [0..Len(pattern) -> 0..Len(address)] :
        /\ cut[0] = 0 /\ cut[Len(pattern)] = Len(address)
        /\ \A k \in 1..Len(pattern) : Covers(pattern[k], address, cut[k - 1], cut[k])
=============================================================================
