SPECIFICATION Spec
CONSTANTS
    MaxUsize = 255
    Frequencies = {1, 2}
    PortCounts = {1, 2, 3}
    MaxText = 5
    MaxKeyword = 4
    MaxExtension = 4
    Calls <- AllCalls
INVARIANTS
    KeepsEveryCharacter
    KeywordsAreSpelledExactly
    ReaderSuitsTheFile
    CountIsHonoured
    ObjectsAreWhole
    ObjectsHoldWhatWasGiven
    ReadRaisesOnlyTouchstoneError
PROPERTIES
    EveryCallReturns
