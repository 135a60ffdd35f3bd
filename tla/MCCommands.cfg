SPECIFICATION Spec

CONSTANTS
    SsidLengths = {1, 32}
    Lengths = {0, 5, 13, 63, 88, 89, 104, 105, 113, 114, 231}
    ArgSizes = {0, 16, 24}
    Strays = {33280, 8197, 32784, 4097}
    MaxStrays = 1
    NetworkKeys <- MCNetworkKeys
    AesKey <- MCAesKey

INVARIANTS
    TypeOK
    ArgumentsWhole
    FieldsPoint
    StopsWhenTooLong
    AnswerFills
    RoundsAreStandard
    KeyRecovered

PROPERTY
    Returns

\* The program stops for good when a packet overruns a buffer.
CHECK_DEADLOCK FALSE
