SPECIFICATION FairSpec
CONSTANTS
    p1 = p1
    Entries <- EntrySet
    Filter <- FilterOf
    Peer = {p1}
    Self = self
    MaxSettings = 1
    MaxHeard = 2
    MaxErrors = 2
    MaxBursts = 1
    QueueSize = 1
    None = None
CHECK_DEADLOCK FALSE
INVARIANTS StoppedIsClosed QueuedIsHandled 
PROPERTIES RestartTakesEffect
