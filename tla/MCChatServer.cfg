CONSTANTS
    alice = alice
    bob = bob
    team = team
    h1 = h1
    h2 = h2
    Nobody = Nobody
    s1 = s1
    Users = {alice, bob}
    Groups = {team}
    Handlers = {h1, h2}
    Slaves = {}
    MsgTypes = {"text"}
    Friends <- MCFriends
    InitialMembers <- MCOneMember
    MaxMessages = 2
SPECIFICATION Spec
SYMMETRY HandlerSymmetry
CHECK_DEADLOCK FALSE
INVARIANTS
    TypeOK
    NoSharedSeq
    AnsweredFirstIsFirst
    BodyBeforeIndex
    RepliedIsStored
    FanOutIsAtomic
PROPERTY
    ImplementsInbox
