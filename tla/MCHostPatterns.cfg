SPECIFICATION Spec
CONSTANTS
    Chars <- Alphabet
    Cases <- AllCases
    DefaultPort = "22"
    Garbled = Garbled
CHECK_DEADLOCK FALSE
INVARIANTS
    ListCorrect
    GlobCorrect
    RecordedExact
