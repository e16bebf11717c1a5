SPECIFICATION ClientFairSpec
CONSTANTS
    s1 = s1  s2 = s2  i1 = i1
    Session = {s1, s2}
    Incoming = {i1}
    MaxEvents = 1
    EventCapacity = 1
    None = None
CHECK_DEADLOCK FALSE
INVARIANTS HeardInOrder
PROPERTIES WaitingIsAnswered
