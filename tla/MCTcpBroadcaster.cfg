CONSTANTS
    Subscribers = {s1, s2}
    Workers = {w1, w2}
    LineBytes = 2
    Window = 3
    Count = 2
    MaxLines = 3
SPECIFICATION FairSpec
INVARIANTS StreamOfWholeLines SameOrderEverywhere EveryClientServed
PROPERTY BroadcastReturns
