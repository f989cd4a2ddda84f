SPECIFICATION Spec
CONSTANTS
    Users = {u1, u2, u3}
    Ips = {i1}
    Devices = {d1}
    Buckets = 2
    MaxMembers = 2
    MemberCapacity = 2
    CandidateTtl = 3
    MaxExpireAt = 9
    UserWidth = 1
    DistinctWidth = 1
    UserTtl = 3
    DistinctTtl = 3
    Thresholds <- LowThresholds
    Loads <- MCLoads
INVARIANTS
    NeverOvercounted
    ExactWhenSerial
PROPERTIES
    ProposedOnlyGuilty
    ReclaimKeepsLive
SYMMETRY Symmetry
CHECK_DEADLOCK FALSE
