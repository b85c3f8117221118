SPECIFICATION Spec
CONSTANTS
    MaxUsize = 40
    MaxHz = 5
    MaxDataLines = 4
    MaxNoiseLines = 5
    Files <- PortFiles
    Hints <- PortHints
INVARIANTS
    TypeOK
    NothingPanics
    BlockStaysShort
    PairsStayTogether
    BlamesTheSetItRejects
    AcceptsExactlyTheGrammar
    ReadsWhatTheFileSays
PROPERTIES
    KeepsThePromise
