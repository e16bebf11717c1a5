SPECIFICATION FairSpec
CONSTANTS
    r1 = r1  r2 = r2
    c1 = c1  p1 = p1
    f1 = f1
    Request = {r1, r2}
    Upload = {}
    Cancel = {c1}
    Peer = {p1}
    File = {f1}
    Offers <- OfferAllOrNone
    PinRequired = TRUE
    MaxPinAttempts = 1
    MaxUploadAttempts = 1
    QueueCapacity = 1
    NoSession = NoSession
    Foreign = Foreign
CHECK_DEADLOCK FALSE
INVARIANTS SlotOwned
PROPERTIES ImplementsSlot GivenUpIsReleased
