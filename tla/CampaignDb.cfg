SPECIFICATION Spec
CONSTANTS
    Campaigns = {"a", "A", "b"}
    Lower <- MCLower
    Kept <- MCKept
    Chars = {c1, c2}
    PcId <- MCPcId
    Variables <- MCVariables
    Names = {"n"}
    TextTypes = {"int"}
    Values = {1, 2}
    Nobody = nobody
    Null = null
    MaxOps = 2
    MaxMigrations = 2
    c1 = c1
    c2 = c2
INVARIANTS TypeOK SetIsGot MigratedIsRead
PROPERTIES EmulatesCampaign
CHECK_DEADLOCK FALSE
SYMMETRY Symmetry
