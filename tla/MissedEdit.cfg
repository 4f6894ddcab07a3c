CONSTANTS
    Files = {"hak/A.hak"}
    NameOf <- OneName
    Content = {"old", "new"}
    Threads = 1
    EditsDuringRuns = TRUE
    MaxTime = 2
    NoFile = NoFile
    Torn = Torn
SPECIFICATION Spec
INVARIANTS
    UpToDate
