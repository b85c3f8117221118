SPECIFICATION Spec
CONSTANTS
    MaxUsize = 255
    MaxFinite = 9
    MaxDecibels = 7
    Files <- DataFiles
    Hints <- DataHints
    Slacks <- OneSlack
INVARIANTS
    SweepAscends
    EveryEntryIsWritten
    PointKnowsItsLine
    AcceptsExactlyTheGrammar
    ReadsWhatTheFileSays
PROPERTIES
    KeepsThePromise
