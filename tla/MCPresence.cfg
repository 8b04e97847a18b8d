CONSTANTS
    alice = alice
    pc = pc
    g1 = g1
    c1 = c1
    c2 = c2
    c3 = c3
    Users = {alice}
    Devices = {pc}
    PC = pc
    Gateways = {g1}
    Nowhere = Nowhere
    Conns = {c1, c2}
    Frontends = {"gateway", "dispatch"}
    MaxLogins = 2
    MaxLogouts = 1
    FullLogouts = TRUE
    PacketLogins = TRUE
    Overlap = TRUE
    BadPackets = TRUE
    MaxFaults = 1
    RedisFails = FALSE
    Parts = {"overlapping", "oneByOne"}
SPECIFICATION FairPartsSpec
CHECK_DEADLOCK FALSE
INVARIANTS
    PresenceTypeOK
    LocationHasSession
    KickReachesPresent
    OneLoginRemains
    OnlyConflictsKick
PROPERTY
    SupersededLeave
