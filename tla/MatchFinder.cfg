\* One compression: every interleaving of the three threads, a read or a write error
\* anywhere, a refused thread.
CONSTANTS
    NumBlocks <- MCNumBlocks
    Text <- MCText
    NumSymbols = 3
    NumHashBytes = 4
    MatchMaxLen = 5
    HistorySize = 2
    AddBefore = 1
    AddAfter = 1
    Reserve = 2
    MoveAlign = 2
    HashBlockSize = 4
    BtBlockSize = 21
    MaxVal = 28
SPECIFICATION Spec
INVARIANTS TypeOK RecordsMatch OffersAreMatches WindowHolds NoRace OkMeansAll ThreadsGone
PROPERTY EncodeEnds
CHECK_DEADLOCK FALSE
