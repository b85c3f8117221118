SPECIFICATION Spec
CONSTANTS
    MaxUsize = 255
    MaxFinite = 9
    MaxDecibels = 7
    Files <- HeaderFiles
    Hints <- DataHints
    Slacks <- OneSlack
INVARIANTS
    IgnoresLaterOptionLines
