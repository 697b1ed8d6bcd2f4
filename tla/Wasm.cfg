CONSTANTS
    Bits = 8
    Objects <- MCObjects
    Programs <- MCPrograms
    Sigs <- MCSigs
    Chars <- MCChars
    Modulefield <- MCModulefield
    Contents <- MCContents
    Sound <- MCSound
SPECIFICATION Spec
INVARIANTS
    TextReadsBack
    BinaryMeans
CHECK_DEADLOCK FALSE
