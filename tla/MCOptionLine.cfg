SPECIFICATION Spec
CONSTANTS
    MaxTokens = 6
    Tokens <- SmallAlphabet
    OptionLines <- LinesToMaxTokens
    Ohms = {"75", "25"}
    NotOhms = {"0"}
INVARIANTS
    AcceptsExactlyLegalLines
    MeansWhatItSays
