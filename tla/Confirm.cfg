CONSTANTS
    c1 = c1
    c2 = c2
    c3 = c3
    w1 = w1
    w2 = w2
    r0 = r0
    r1 = r1
    itemBad = itemBad
    old = old
    new = new
    itemOld = itemOld
    itemNew = itemNew
    Chars = {c1}
    Content = {old, new}
    Update <- MCUpdateFew
    NoMatch = NoMatch
    Fail = Fail
    Torn = Torn
    NoFile = NoFile
    Idle = Idle
    Workers = {w1}
    BatchSize = 2
    Rows = {r0, r1}
    Targets = 2
    TableOf <- MCTableOf
    Items = {itemOld, itemNew, itemBad}
    UpdateItem <- MCUpdateItem
    NoUpdate = NoUpdate
    Throws = Throws
    NoItem = NoItem
    HalfWritten = HalfWritten
    NoRow = NoRow
    CoercedKeys = {r0}
    Options <- SqlOnly
    Online = FALSE
INIT Init
NEXT Next
PROPERTY NothingEffectiveUntilConfirm
