CONSTANTS
    Files = {"hak/A.hak", "tlk/b.tlk"}
    NameOf <- MCNameOf
    Content = {"old", "new"}
    Threads = 2
    EditsDuringRuns = FALSE
    MaxTime = 2
    NoFile = NoFile
    Torn = Torn
SPECIFICATION Spec
INVARIANTS
    TypeOK
    UpToDate
    Published
PROPERTIES
    SweepSparesPresent
