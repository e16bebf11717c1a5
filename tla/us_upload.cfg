SPECIFICATION Spec
CONSTANTS
    r1 = r1  r2 = r2
    u1 = u1  u2 = u2  u3 = u3
    p1 = p1
    f1 = f1  f2 = f2
    Request = {r1, r2}
    Upload = {u1, u2, u3}
    Cancel = {}
    Peer = {p1}
    File = {f1, f2}
    Offers <- OfferAll
    PinRequired = FALSE
    MaxPinAttempts = 1
    MaxUploadAttempts = 2
    QueueCapacity = 1
    NoSession = NoSession
    Foreign = Foreign
SYMMETRY Symmetric
CHECK_DEADLOCK FALSE
INVARIANTS FilesInOrder FinishedIsQuiet
PROPERTIES EndedOnce
