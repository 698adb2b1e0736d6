SPECIFICATION FairSpec
CONSTANTS
    MaxId = 3
    Producer = {p1, p2}
    Worker = {w1, w2}
    Sweeper = Sweeper
    BatchSize = 2
    Free = Free
INVARIANT TypeOK
INVARIANT RelayedOnce
INVARIANT SentBeforeDeleted
INVARIANT BatchesDisjoint
PROPERTY KeepsPromise
PROPERTY Drained
