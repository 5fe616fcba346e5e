\* A buffer of three characters, one key in its four columns; enough unread
\* characters for the position to go round twice.
CONSTANTS
    BUFFERSIZE = 3
    Keys = {"k"}
    MaxUnread = 6
    MaxRead = 3
SPECIFICATION Spec
INVARIANTS
    TypeOK
    ContentsInOrder
    IgnoredOnlyWhenFull
