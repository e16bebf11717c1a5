SPECIFICATION FairSpec
CONSTANTS
    s1 = s1  s2 = s2
    f1 = f1  f2 = f2
    Session = {s1, s2}
    File = {f1, f2}
    FilesOf <- TwoThenOne
    MaxUploads = 2
    MaxTries = 2
    MaxCancels = 1
    None = None
CHECK_DEADLOCK FALSE
INVARIANTS SummaryExact WaitingIsAsked
PROPERTIES ReceivingEnds
