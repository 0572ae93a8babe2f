CONSTANTS
    Workers = {w1}
    Capacity = 1
    MaxPushes = 1
SPECIFICATION Spec
INVARIANT SignalsGoThroughEpoll
