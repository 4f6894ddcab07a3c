CONSTANTS
    Commits = {1, 2}
    Paths = {"Foo.utc", "foo.utc"}
    Content = {"old"}
    Nested = {}
    Hidden = {}
    Tree <- RenameTree
    Dest <- RenameDest
    DirOf <- RenameDirOf
    Rank <- RenameRank
    Edited = {}
    Strip = Strip
    NoFile = NoFile
    Torn = Torn
    NoVersion = NoVersion
    Blank = Blank
SPECIFICATION Spec
INVARIANTS
    NoFileMissing
