SPECIFICATION Spec
CONSTANTS
    WordBytes = 2
    HashBlockWords = 4
    LengthWords = 2
    Pieces <- MCPieces
    MaxMessage = 18
    CipherBlockWords = 2
    CipherPieces <- MCPieces
    MaxText = 11
    CounterWraps = 3
    KdfBlockWords = 3
    DigestWords = 2
    KeySizes <- MCKeySizes
    Iterations <- MCIterations
    PasswordSizes <- MCPasswordSizes
INVARIANTS
    TypeOK
    DigestOfMessage
    RoundTrip
    CiphertextOfMessage
    DerivedKeyCorrect
CHECK_DEADLOCK FALSE
