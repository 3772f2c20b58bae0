CONSTANTS
    Callers = {r1, r2}
    Files = {f1, f2, f3}
    Times <- Milliseconds
    Epoch = 0
    Workers = 2
    Worker = 1
    MaxSequence = 1
    MaxBoots = 1
    None = None
SPECIFICATION FairSpec
INVARIANTS
    ShipmentsTypeOK
    FilesHaveRows
    RowsHaveFiles
PROPERTIES
    NumbersIncrease
    PicturesStay
    SpinEnds
