SPECIFICATION FileFairSpec
CONSTANTS
    Sizes <- EmptyOrTwo
    Longest = 3
    Capacity = 1
    MaxAttempts = 2
CHECK_DEADLOCK FALSE
INVARIANTS SuccessIsTheFile PeersAgree
PROPERTIES SavedStays Concludes
