SPECIFICATION Spec
CONSTANTS
    a = a  b = b  c = c
    g = g  h = h
    Conn = {a, b, c}
    Group = {g, h}
    MaxConnections = 2
    MaxRequests = 1
    Capacity = 1
    ClientKinds = {"Update", "Sdp"}
SYMMETRY Symmetric
CHECK_DEADLOCK FALSE
INVARIANTS RoomExact NobodyMissing LeaveAnnounced
