SPECIFICATION Spec
CONSTANTS
    Operands <- MCOperands
    IDs <- MCIDs
    Filler <- MCFiller
    SomeBytes <- MCSomeBytes
    Garbage <- MCGarbage
    MaxLength = 4
INVARIANTS
    WireFaithful
    PythonWithinC
    ArithmeticReference
    SumsAgree
    SealedAccepted
    OneByteNoticed
    PlaceSurvives
    TypedIsPrinted
CHECK_DEADLOCK FALSE
