CONSTANTS
    Props <- MCProps
    Values <- MCValues
    Variables <- MCVariables
    Things = {"o1", "o2", "o3", "o4", "o5"}
    Absent = "absent"
    BlueprintOnly = {"Comment"}
    Fixed <- MCFixed
    Empty = "empty"
    ByResref <- MCByResref
    ByTag <- MCByTag
    NoBag = NoBag
    MaxItems = 2
    Slots = {1, 2}
    Characters <- MCCharacters
    Locals <- MCLocals
SPECIFICATION Spec
INVARIANTS
    RoomRespected
    VarsByPolicy
    UpdateIsStable
PROPERTIES
    NothingLost
    UpdatedIsUnequipped
