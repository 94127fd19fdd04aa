\* Topics and texts of up to two characters, with each that a program escapes or looks for.
SPECIFICATION ProtocolSpec
CONSTANTS
    Chars = {"t", ":", "backslash", "newline", "return", "n", "r"}
    TopicChars = {"t", ":", "newline"}
    MaxLength = 2
INVARIANTS
    GrammarAgrees
    LogIsOneLine
    ShownAsPublished
    TypedIsRead
CHECK_DEADLOCK FALSE
