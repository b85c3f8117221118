SPECIFICATION Spec
CONSTANTS
    MaxUsize = 65535
    MaxFinite = 9
    MaxDecibels = 7
    Files <- ReferenceFiles
    Hints <- DataHints
    Slacks <- OneSlack
INVARIANTS
    ListFitsTheFile
