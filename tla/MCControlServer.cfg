CONSTANTS
    Fds = {1, 2, 3}
    MaxClients = 2
    MaxEvents = 2
    Limit = 1
    ReplySize = 2
    Window = 1
    MaxConns = 3
    MaxBytes = 3
SPECIFICATION FairSpec
INVARIANTS
    TypeOK
    EventReachesItsConnection
    AnswerIgnoresSegmentation
PROPERTIES ClosedAfterWholeReply DueIsClosed
