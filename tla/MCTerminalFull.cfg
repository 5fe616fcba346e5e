\* As MCTerminal.cfg, for what the comment says of a full buffer.
CONSTANTS
    BUFFERSIZE = 3
    Keys = {"k"}
    MaxUnread = 6
    MaxRead = 3
SPECIFICATION Spec
INVARIANTS
    KeptUntilRead
