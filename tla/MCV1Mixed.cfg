SPECIFICATION Spec
CONSTANTS
    MaxUsize = 40
    MaxHz = 5
    MaxDataLines = 4
    MaxNoiseLines = 5
    Files <- MixedFiles
    Hints <- MixedHints
INVARIANTS
    SweepAscends
    NoiseFollowsTwoPortSweep
    AcceptsExactlyTheGrammar
    ReadsWhatTheFileSays
    KeepsHeaderComments
    ReferencesEveryPort
PROPERTIES
    NoiseIsTerminal
    EveryFileIsAnswered
