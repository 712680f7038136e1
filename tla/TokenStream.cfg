SPECIFICATION Spec
CONSTANTS
    Chars = {"a", "f", "1", "/", "*", "=", ".", ";", "?", "sp", "nl"}
    MaxLength = 3
    CommentChars = {"/", "*", "nl"}
    MaxComment = 6
    Texts <- MCTexts
    MaxAhead = 2
INVARIANTS
    TypeOK
    LineNumbers
    PlainCommentsHidden
PROPERTIES
    QueueSpec
