CONSTANTS
    c1 = c1
    c2 = c2
    c3 = c3
    w1 = w1
    w2 = w2
    r0 = r0
    r1 = r1
    itemBad = itemBad
    old = old
    new = new
    itemOld = itemOld
    itemNew = itemNew
    Chars = {c1, c2, c3}
    Content = {old, new}
    Update <- MCUpdateFew
    NoMatch = NoMatch
    Fail = Fail
    Torn = Torn
    NoFile = NoFile
    Idle = Idle
    Workers = {w1, w2}
    BatchSize = 2
    Rows = {}
    Targets = 0
    TableOf <- NoFunction
    Items = {}
    UpdateItem <- NoFunction
    NoUpdate = NoUpdate
    Throws = Throws
    NoItem = NoItem
    HalfWritten = HalfWritten
    NoRow = NoRow
    CoercedKeys = {}
    Options <- OneVaultRun
    Online = TRUE
INIT Init
NEXT Next
SYMMETRY Symmetric
INVARIANT TypeOK
INVARIANT Recoverable
INVARIANT RecoverableInv
INVARIANT StagedHasBackup
PROPERTY AppliedMeansUpdated
