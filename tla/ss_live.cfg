SPECIFICATION FairSpec
CONSTANTS
    a = a  b = b  c = c
    g = g  h = h
    Conn = {a, b}
    Group = {g}
    MaxConnections = 2
    MaxRequests = 2
    Capacity = 2
    ClientKinds = {"Update"}
CHECK_DEADLOCK FALSE
PROPERTIES GreetedUnlessJammed LeaverLeaves
