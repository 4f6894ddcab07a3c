CONSTANTS
    Commits = {1, 2, 3}
    Paths = {"area.ifo", "chest.utp", "script.nss", "sub/key.uti", ".ci/door.utd"}
    Content = {"old", "new"}
    Nested = {"sub/key.uti", ".ci/door.utd"}
    Hidden = {".ci/door.utd"}
    Tree <- MCTree
    Dest <- MCDest
    DirOf <- MCDirOf
    Rank <- MCRank
    Edited = {"chest.utp"}
    Strip = Strip
    NoFile = NoFile
    Torn = Torn
    NoVersion = NoVersion
    Blank = Blank
SPECIFICATION Spec
INVARIANTS
    TypeOK
    Faithful
    NoFalseAlarm
PROPERTIES
    CopyPromise
