CONSTANTS
    alice = alice
    bob = bob
    Slaves = {}
    Users = {alice, bob}
    MaxCalls = 3
    MaxOf <- TwoOfEach
    GroupNumbers = {1}
    Failing <- EveryStep
    NoConnections = TRUE
SYMMETRY Symmetry
CONSTRAINT OneKind
SPECIFICATION Spec
CHECK_DEADLOCK FALSE
INVARIANTS
    RelationTypeOK
    FriendsMutual
    AnswersHold
    AnnouncedOnce
    ToldOfRequests
    OwnersOwn
