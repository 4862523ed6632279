\* All lines with two words, an odd part and one JSON value, followed by a read;
\* up to five bytes and the line ending, in chunks of up to three bytes.
\* No deadlock check: the loop ends when the client closes the connection.
SPECIFICATION Spec
CONSTANTS
    Words = {"m", "p"}
    Odd = {"."}
    Values = {"1"}
    Null = "null"
    NoJson = "{"
    Absent = Absent
    RecvBufLen = 3
    MaxMsgLen = 2
    MaxWidth = 5
    Second <- ReadLine
INVARIANTS
    ChunkingInvisible
    LengthLimit
    ComesBack
CHECK_DEADLOCK FALSE
