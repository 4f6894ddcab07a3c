SPECIFICATION Spec
CONSTANTS
    Campaigns = {"a", "A", "b"}
    Lower <- MCLower
    Kept <- MCKept
    Chars = {c1, c2}
    PcId <- MCPcId
    Variables <- MCVariables
    Names = {"n"}
    TextTypes = {"int"}
    Values = {1, 2}
    Nobody = nobody
    Null = null
    MaxOps = 2
    MaxMigrations = 0
    c1 = c1
    c2 = c2
INVARIANT StoredMeansTrue
CHECK_DEADLOCK FALSE
