CONSTANTS
    c1 = c1
    c2 = c2
    c3 = c3
    Consumers <- ThreeConsumers
    Capacity = 2
    MaxPushes = 5
SPECIFICATION FairSpec
INVARIANTS TypeOK NoLostWakeup EndIsFinal
PROPERTY ImplementsFifo
