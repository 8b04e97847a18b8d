CONSTANTS
    alice = alice
    bob = bob
    team = team
    h1 = h1
    h2 = h2
    s1 = s1
    Nobody = Nobody
    Users = {alice}
    Groups = {team}
    Handlers = {h1}
    Slaves = {}
    MsgTypes = {"text"}
    Friends <- MCSelf
    InitialMembers = {}
    MaxMessages = 2
    Clients = {alice}
    LoggedIn = {alice}
    PageLimit = 2
    RPCsFail = FALSE
    MaxConnects = 1
SPECIFICATION FairTimelineSpec
CHECK_DEADLOCK FALSE
PROPERTY
    CallsReturn
    CatchesUp
