------------------------------- MODULE Picker -------------------------------
(***************************************************************************)
(* The file picker of the command-line client (src/cli/src/picker.rs). A   *)
(* picker is a record, and each key a function of it: typing filters the   *)
(* listing, and the keys must act on what is highlighted on the screen     *)
(* then, never on an entry the filter hides. The explorer (a library) has  *)
(* the directory, its entries and the index of the current one; the name   *)
(* of an entry is a sequence of symbols. Drawing shows `matches`, with the *)
(* row `row` highlighted.                                                  *)
(***************************************************************************)
EXTENDS Naturals, Sequences, FiniteSets, FiniteSetsExt

CONSTANTS
    Listing,     \* directory -> its entries; the first is ../ where there is a parent
    Parent,      \* directory -> its parent, or itself
    Home,        \* the directory the client was started in
    Symbol,      \* what can be typed
    MaxQuery,    \* bound: symbols typed into the filter
    ScrollCount  \* SCROLL_COUNT

Folder == DOMAIN Listing

\* An entry is a file, or leads to a directory.
FileEntry(file, name) == [file |-> file, dir |-> "none", name |-> name]
DirEntry(dir, name) == [file |-> "none", dir |-> dir, name |-> name]
IsDir(entry) == entry.dir # "none"
Nowhere == DirEntry("nowhere", <<>>)

\* The directories are a tree of their own: no entry leads out of it.
ASSUME TreeAssumption ==
    /\ Home \in Folder /\ Parent \in [Folder -> Folder]
    /\ \A d \in Folder : Listing[d] \in Seq({Listing[d][i] : i \in DOMAIN Listing[d]})
    /\ \A d \in Folder : \A i \in DOMAIN Listing[d] :
          IsDir(Listing[d][i]) => Listing[d][i].dir \in Folder
    /\ ScrollCount \in Nat

FilesOf(p) == Listing[p.cwd]

\* The explorer's current entry, and the one highlighted on the screen.
Current(p) == FilesOf(p)[p.index]
Highlighted(p) == IF p.row = 0 THEN Nowhere ELSE FilesOf(p)[p.matches[p.row]]

\* Each symbol is searched for behind the one found before it: found[k] is where
\* the k-th is, or beyond the end of the name.
MatchesQuery(query, name) ==
    LET found[k \in 0..Len(query)] ==
            IF k = 0 THEN 0
            ELSE Min({i \in (found[k - 1] + 1)..Len(name) : name[i] = query[k]}
                     \cup {Len(name) + 1})
    IN  found[Len(query)] <= Len(name)

\* What a filter is to find: a name in which its symbols occur, in their order.
Embeds(query, name) ==
    \E f \in [1..Len(query) -> 1..Len(name)] :
        \A i, j \in 1..Len(query) : query[i] = name[f[i]] /\ (i < j => f[i] < f[j])

\* Where the current entry is among the matches, 0 when it is hidden.
Cursor(p) ==
    IF \E i \in DOMAIN p.matches : p.matches[i] = p.index
    THEN CHOOSE i \in DOMAIN p.matches : p.matches[i] = p.index ELSE 0

\* Mutant: keys act on the explorer's entry, hidden or not.
VisibleAlways(p) == TRUE

Visible(p) == Cursor(p) # 0
OrFirst(cursor) == IF cursor = 0 THEN 1 ELSE cursor

SelectMatch(p, cursor) ==
    IF cursor \in DOMAIN p.matches
    THEN [p EXCEPT !.index = p.matches[cursor], !.row = cursor]
    ELSE [p EXCEPT !.row = 0]

\* The indices of the entries that match, in the order of the listing.
Matching(p) ==
    LET shown == {i \in DOMAIN FilesOf(p) : MatchesQuery(p.query, FilesOf(p)[i].name)}
    IN  [k \in 1..Cardinality(shown) |->
            CHOOSE i \in shown : Cardinality({j \in shown : j <= i}) = k]

\* The current entry stays the current one if it still matches.
RefreshMatches(p) ==
    LET filtered == [p EXCEPT !.matches = Matching(p)]
    IN  SelectMatch(filtered, OrFirst(Cursor(filtered)))

SelectFirstEntry(p) ==
    SelectMatch(p, IF Parent[p.cwd] # p.cwd /\ Len(p.matches) > 1 THEN 2 ELSE 1)

OpenPicker(slot, device) ==
    SelectFirstEntry(RefreshMatches(
        [slot |-> slot, device |-> device, cwd |-> Home, index |-> 1, query |-> <<>>,
         matches |-> <<>>, row |-> 0, selected |-> {}]))

\* A directory that cannot be read changes nothing.
Navigate(p, dir) ==
    IF dir = p.cwd THEN p
    ELSE SelectFirstEntry(RefreshMatches([p EXCEPT !.cwd = dir, !.index = 1, !.query = <<>>]))

\* Up and Down go round, the page keys stop at the ends.
MoveTo(p, cursor) == IF p.matches = <<>> THEN p ELSE SelectMatch(p, cursor)
Up(p) == MoveTo(p, IF OrFirst(Cursor(p)) = 1 THEN Len(p.matches) ELSE Cursor(p) - 1)
Down(p) == MoveTo(p, IF OrFirst(Cursor(p)) = Len(p.matches) THEN 1 ELSE OrFirst(Cursor(p)) + 1)
PageUp(p) == MoveTo(p, IF Cursor(p) > ScrollCount THEN Cursor(p) - ScrollCount ELSE 1)
PageDown(p) ==
    LET cursor == OrFirst(Cursor(p)) + ScrollCount
    IN  MoveTo(p, IF cursor > Len(p.matches) THEN Len(p.matches) ELSE cursor)

\* The pickers that a key which moves the highlight leads to,
Moved(p) ==
    {Up(p), Down(p), PageUp(p), PageDown(p), SelectMatch(p, 1), SelectMatch(p, Len(p.matches))}

\* one that types into the filter, or erases (Backspace) or clears (Esc) it,
Typed(p) == {Append(p.query, c) : c \in IF Len(p.query) < MaxQuery THEN Symbol ELSE {}}
Erased(p) == IF p.query = <<>> THEN {} ELSE {SubSeq(p.query, 1, Len(p.query) - 1)}
Cleared(p) == IF p.query = <<>> THEN {} ELSE {<<>>}
Filtered(p) ==
    {RefreshMatches([p EXCEPT !.query = q]) : q \in Typed(p) \cup Erased(p) \cup Cleared(p)}

\* one that leaves the directory (Left) or enters the current one (Right, Enter),
Navigated(p) ==
    {Navigate(p, Parent[p.cwd])}
    \cup IF Visible(p) /\ IsDir(Current(p)) THEN {Navigate(p, Current(p).dir)} ELSE {}

\* and Space, which selects the current file or takes it back.
Toggled(p) ==
    LET file == Current(p).file
    IN  IF Visible(p) /\ ~IsDir(Current(p))
        THEN {[p EXCEPT !.selected = IF file \in @ THEN @ \ {file} ELSE @ \cup {file}]}
        ELSE {}

\* Enter confirms, on a file or where nothing matches.
Confirms(p) == IF Visible(p) THEN ~IsDir(Current(p)) ELSE p.selected # {}
Picked(p) == IF p.selected # {} THEN p.selected ELSE {Current(p).file}
=============================================================================
