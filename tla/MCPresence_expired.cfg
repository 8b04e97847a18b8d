CONSTANTS
    alice = alice
    pc = pc
    g1 = g1
    c1 = c1
    c2 = c2
    c3 = c3
    Users = {alice}
    Devices = {pc}
    PC = pc
    Gateways = {g1}
    Nowhere = Nowhere
    Conns = {c1, c2, c3}
    Frontends = {"gateway", "dispatch"}
    MaxLogins = 2
    MaxLogouts = 1
    FullLogouts = FALSE
    PacketLogins = FALSE
    Overlap = TRUE
    BadPackets = FALSE
    MaxFaults = 0
    RedisFails = FALSE
    Parts = {"oneByOne"}
SYMMETRY Symmetry
SPECIFICATION PartsSpec
CHECK_DEADLOCK FALSE
INVARIANTS
    OneLoginPerDevice
