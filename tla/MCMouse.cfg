\* A screen of two by two; steps of one position, one too small, one too large
\* and one that turns round.  The buffer holds two characters, a paste has up to
\* four.
CONSTANTS
    WIDTH = 2
    HEIGHT = 2
    Text <- TextOfTwo
    Moves <- MovesOfOne
    BUFFERSIZE = 3
    Keys = {"k"}
    MaxUnread = 3
    MaxRead = 1
SPECIFICATION MouseSpec
INVARIANTS
    MouseTypeOK
    OnlySelectionLit
    CopyIsSelection
    PasteInOrder
