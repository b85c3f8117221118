SPECIFICATION Spec
CONSTANTS
    MaxUsize = 255
    MaxFinite = 9
    MaxDecibels = 7
    Files <- KeywordFiles
    Hints <- HeaderHints
    Slacks <- FileSlacks
INVARIANTS
    TypeOK
    DataFitsTheFile
    AcceptsExactlyTheGrammar
    ReferencesEveryPort
PROPERTIES
    EveryFileIsAnswered
