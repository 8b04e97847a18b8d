CONSTANTS
    alice = alice
    bob = bob
    team = team
    h1 = h1
    h2 = h2
    s1 = s1
    Nobody = Nobody
    Users = {alice, bob}
    Groups = {}
    Handlers = {h1}
    Slaves = {}
    MsgTypes = {"text"}
    Friends <- MCFriends
    InitialMembers = {}
    MaxMessages = 2
    Clients = {alice}
    LoggedIn = {alice}
    PageLimit = 2
    RPCsFail = TRUE
    MaxConnects = 1
SPECIFICATION FairTimelineSpec
CHECK_DEADLOCK FALSE
PROPERTY
    CatchesUp
