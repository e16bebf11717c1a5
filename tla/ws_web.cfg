SPECIFICATION FairSpec
CONSTANTS
    a = a  b = b
    p1 = p1  p2 = p2
    d1 = d1  d2 = d2
    f1 = f1
    Client = {a, b}
    Prepare = {p1, p2}
    Download = {d1, d2}
    File = {f1}
    PinRequired = TRUE
    MaxPinAttempts = 1
    QueueCapacity = 1
    None = None
CHECK_DEADLOCK FALSE
INVARIANTS NobodyForgotten OneYesOneRequest DownloadConsented
PROPERTIES AcceptedStays WaitingEnds
