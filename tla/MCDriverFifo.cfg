CONSTANTS
    Procs = {p1, p2}
    SampleBytes = 2
    Slots = 2
    BatchSlots = 2
    Counts = {1, 3, 5}
    MaxSeq = 4
SPECIFICATION FairSpec
INVARIANTS TypeOK SamplesIntact DeliveredOnceInOrder BooksBalance GapsAreCounted NoStrandedSleeper
PROPERTIES DropOnlyWhenFull SleeperWakes
