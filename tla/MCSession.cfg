CONSTANTS
    r1 = r1
    r2 = r2
    noAnswer = noAnswer
    noMagic = noMagic
    p1 = p1
    Requests = {r1, r2, noAnswer, noMagic}
    Answered = {r1, r2}
    Junk = {noMagic}
    Body <- MCBody
    MaxRequests = 2
    Pushes = {p1}
    Packets = {r1, r2, p1}
    Logout = Logout
    MaxKicks = 2
SPECIFICATION FairSessionSpec
CHECK_DEADLOCK FALSE
INVARIANTS
    WriterTypeOK
    OneWriteAtATime
    NothingLost
    LogoutBeforeClose
    RequestsAnsweredInOrder
PROPERTIES
    EveryPacketSent
    KickedSessionLeaves
