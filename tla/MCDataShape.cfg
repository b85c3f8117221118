SPECIFICATION Spec
CONSTANTS
    MaxUsize = 255
    Largest = 300
INVARIANTS
    SizesAreExact
    LengthNamesPorts
    TrianglesFit
CHECK_DEADLOCK FALSE
