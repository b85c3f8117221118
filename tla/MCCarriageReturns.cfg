SPECIFICATION Spec
CONSTANTS
    MaxUsize = 255
    Frequencies = {1, 2}
    PortCounts = {1, 2, 3}
    MaxText = 5
    MaxKeyword = 1
    MaxExtension = 1
    Calls <- TextCalls
INVARIANTS
    ReadersSeeRealLineEndings
