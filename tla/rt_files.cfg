SPECIFICATION FairSpec
CONSTANTS
    f1 = f1  f2 = f2
    File = {f1, f2}
    Size = 1
    MaxFrames = 2
    MaxTries = 2
    None = None
CHECK_DEADLOCK FALSE
INVARIANTS ListAfterProofs EachOfItsFile
PROPERTIES Concludes
