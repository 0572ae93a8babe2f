CONSTANTS
    Procs = {p1, p2}
    SampleBytes = 1
    Slots = 2
    BatchSlots = 2
    Counts = {1}
    MaxSeq = 2
SPECIFICATION Spec
INVARIANT ReadNeverReturnsZero
