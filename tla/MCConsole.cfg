\* A screen of three rows below the header and five columns, a prompt of two.
CONSTANTS
    WIDTH = 5
    HEIGHT = 6
    Prompt <- PromptOfTwo
    ScanSize = 2
    Foreground = {"help", "clear", "echo off", "./noProgram", "./program", "while1", "kill"}
    Background = {"&clear", "&help", "&echo off", "&./program", "&kill"}
    MaxThreads = 2
    MaxKeys = 4
    BUFFERSIZE = 5
    Keys = {"a", "backspace", "newline"}
    MaxUnread = 3
    MaxRead = 1
SPECIFICATION ConsoleSpec
CHECK_DEADLOCK FALSE
INVARIANTS
    CursorInRegion
    HeaderKept
    LineShown
