SPECIFICATION FairSpec
CONSTANTS
    r1 = r1  r2 = r2
    d1 = d1  d2 = d2  me = me
    Run = {r1, r2}
    File = {"f1", "f2"}
    Device = {d1, d2, me}
    Me = me
    Slots = {1}
    Listing <- Tree
    Parent <- ParentOf
    Home = "sub"
    Symbol = {"y"}
    MaxQuery = 1
    ScrollCount = 12
    MaxKeys = 5
    None = None
CHECK_DEADLOCK FALSE
INVARIANTS HonestLine NoSessionLeft
PROPERTIES SendEnds PicksTheShown
