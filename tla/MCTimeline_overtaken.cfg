CONSTANTS
    alice = alice
    bob = bob
    team = team
    h1 = h1
    h2 = h2
    s1 = s1
    Nobody = Nobody
    Users = {alice, bob}
    Groups = {}
    Handlers = {h1, h2}
    Slaves = {}
    MsgTypes = {"text"}
    Friends <- MCFriends
    InitialMembers = {}
    MaxMessages = 2
    Clients = {alice}
    LoggedIn = {alice}
    PageLimit = 2
    RPCsFail = FALSE
    MaxConnects = 1
SPECIFICATION TimelineSpec
CHECK_DEADLOCK FALSE
INVARIANT
    LocalSeqCoversInbox
