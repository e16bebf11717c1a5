SPECIFICATION FairSpec
CONSTANTS

    None = 0
    c1 = c1  c2 = c2
    k1 = k1  k2 = k2  k3 = k3
    Op = {1, 2}
    Server = {1, 2}
    Call = {c1}
    Cert = {k1, k2, k3}
    Expired = {}
    Goals <- GoalSet
    Requests <- RequestSet
    QueueCapacity = 1
CHECK_DEADLOCK FALSE
INVARIANTS NobodyImpersonated StopMeansStopped StateTrue
PROPERTIES Ends
