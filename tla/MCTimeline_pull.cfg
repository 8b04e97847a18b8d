CONSTANTS
    alice = alice
    bob = bob
    team = team
    h1 = h1
    h2 = h2
    s1 = s1
    Nobody = Nobody
    Users = {alice}
    Groups = {team}
    Handlers = {h1}
    Slaves = {s1}
    MsgTypes = {"text"}
    Friends <- MCSelf
    InitialMembers <- MCMembers
    MaxMessages = 2
    Clients = {alice}
    LoggedIn = {alice}
    PageLimit = 1
    RPCsFail = TRUE
    MaxConnects = 2
SPECIFICATION TimelineSpec
CHECK_DEADLOCK FALSE
INVARIANTS
    ClientTypeOK
    LocalSeqCoversInbox
PROPERTY
    LocalSeqNeverBack
