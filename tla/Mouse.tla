-------------------------------- MODULE Mouse --------------------------------
(***************************************************************************)
(* The mouse (Kernel/mouse.c) and what it does to the screen's attributes  *)
(* (Kernel/video.c): the pointer, the selection with the left button, and  *)
(* the paste, at the release of the right one, into the terminal's buffer  *)
(* (module Terminal).                                                      *)
(*                                                                         *)
(* The handler is one step for each byte it takes from the controller,     *)
(* except that putTerminalBuffer enables interrupts: the paste is a step   *)
(* for each character, with keys and readers in between, but no other      *)
(* mouse interrupt, which waits for the end of this one (for ever, if the  *)
(* process it interrupted is removed meanwhile).  The text on the screen   *)
(* does not change.                                                        *)
(***************************************************************************)
EXTENDS Terminal, FiniteSets

CONSTANTS
    WIDTH, HEIGHT,
    Text,       \* the character at each position of the screen
    Moves       \* the movements that the mouse reports, in its units

Columns == 0..(WIDTH - 1)
Rows == 0..(HEIGHT - 1)
Cells == 0..(WIDTH * HEIGHT - 1)

ASSUME MouseAssumption ==
    /\ WIDTH \in Nat \ {0} /\ HEIGHT \in Nat \ {0}
    /\ Moves \subseteq -256..255
    /\ Text \in [Cells -> Char]

VARIABLES
    mouse_cycle,     \* the bytes of the packet that have come; 3 in the paste
    mouse_byte,      \* what they say: left, right, over(flow), and dx and dy,
                     \* in positions of the screen
    x, y,            \* the pointer
    selecting,
    init, fin,       \* the ends of the selection, as positions
    flag,            \* the right button is down
    lit,             \* the positions whose attribute is that of the mouse
    mouseSelect,     \* the characters copied
    h,               \* how many of them paste() has taken
    origin,          \* history: for each unread character its number in the
                     \* paste, 0 if it is a key's or if the paste is over
    dropped          \* history: the numbers of those a full buffer ignored

handlerVars == <<mouse_cycle, mouse_byte, x, y, selecting, init, fin, flag, lit,
                 mouseSelect, h, dropped>>
mouseVars == <<handlerVars, origin>>
allVars == <<vars, mouseVars>>

NoPacket == [left |-> FALSE, right |-> FALSE, over |-> FALSE, dx |-> 0, dy |-> 0]

MouseInit ==
    /\ Init
    /\ mouse_cycle = 0
    /\ mouse_byte = NoPacket
    /\ \E c \in Columns, r \in Rows : x = c /\ y = r
    /\ selecting = FALSE
    /\ init = 0 /\ fin = 0
    /\ flag = FALSE
    /\ lit = {}
    /\ mouseSelect = <<>>
    /\ h = 0
    /\ origin = <<>>
    /\ dropped = {}

-----------------------------------------------------------------------------
Position(c, r) == r * WIDTH + c
Pointer == Position(x, y)

\* The positions between two ends, whichever comes first.
Span(a, b) == IF a <= b THEN a..b ELSE b..a

\* Mutant: the ends are taken in the order in which they were set.
copyMouseInOrder(a, b) == [n \in 1..(b - a + 1) |-> Text[a + n - 1]]

\* selection and copyMouse: the text from the end that comes first on.
copyMouse(a, b) ==
    LET first == IF a <= b THEN a ELSE b
    IN  [n \in 1..Cardinality(Span(a, b)) |-> Text[first + n - 1]]

\* The byte of a movement is read as a number with sign; the sign in the
\* packet's first byte only completes a negative one, so that a movement of 128
\* or more to the right or up comes out as one to the left or down.
rel(m) == IF m >= 128 THEN m - 256 ELSE m

\* Ten units are one position; C rounds towards zero.
Tenth(n) == IF n < 0 THEN -((-n) \div 10) ELSE n \div 10

\* Mutant: the pointer may be one past the edge.
MovedPast(at, by, size) == IF at + by \in 0..size THEN at + by ELSE at

\* A coordinate after a movement, which is ignored if it leaves the screen.
Moved(at, by, size) == IF at + by \in 0..(size - 1) THEN at + by ELSE at

-----------------------------------------------------------------------------
(***************************************************************************)
(* mouse_handlerC.  A first byte without its fourth bit, and a byte of the *)
(* keyboard, are taken and change nothing.                                 *)
(***************************************************************************)

Byte0(left, right, over) ==
    /\ mouse_cycle = 0
    /\ mouse_cycle' = 1
    /\ mouse_byte' = [NoPacket EXCEPT !.left = left, !.right = right, !.over = over]
    /\ UNCHANGED <<vars, x, y, selecting, init, fin, flag, lit, mouseSelect,
                   h, origin, dropped>>

Byte1(dx) ==
    /\ mouse_cycle = 1
    /\ mouse_cycle' = 2
    /\ mouse_byte' = [mouse_byte EXCEPT !.dx = Tenth(rel(dx))]
    /\ UNCHANGED <<vars, x, y, selecting, init, fin, flag, lit, mouseSelect,
                   h, origin, dropped>>

\* undoSelection, of what is selected so far.
Unselected == IF selecting THEN lit \ Span(init, fin) ELSE lit

\* Mutant: the selection so far stays.
LeftKeeps ==
    /\ selecting' = TRUE
    /\ init' = IF selecting THEN init ELSE Pointer
    /\ fin' = Pointer
    /\ mouseSelect' = copyMouse(init', fin')
    /\ lit' = lit \cup Span(init', fin')

\* The left button is down: the selection goes to the pointer.
LeftDown ==
    /\ selecting' = TRUE
    /\ init' = IF selecting THEN init ELSE Pointer
    /\ fin' = Pointer
    /\ mouseSelect' = copyMouse(init', fin')
    /\ lit' = Unselected \cup Span(init', fin')

LeftUp ==
    /\ selecting' = FALSE
    /\ lit' = Unselected
    /\ UNCHANGED <<init, fin, mouseSelect>>

\* The third byte of a packet that is thrown away ...
Byte2Overflow ==
    /\ mouse_cycle = 2
    /\ mouse_byte.over
    /\ mouse_cycle' = 0
    /\ mouse_byte' = NoPacket
    /\ UNCHANGED <<vars, x, y, selecting, init, fin, flag, lit, mouseSelect,
                   h, origin, dropped>>

\* ... and of one that is not, up to the paste.
Byte2(dy) ==
    /\ mouse_cycle = 2
    /\ ~mouse_byte.over
    /\ IF mouse_byte.left THEN LeftDown ELSE LeftUp
    /\ flag' = mouse_byte.right
    /\ h' = IF flag /\ ~mouse_byte.right THEN 0 ELSE Len(mouseSelect')
    /\ mouse_cycle' = 3
    /\ mouse_byte' = [mouse_byte EXCEPT !.dy = Tenth(rel(dy))]
    /\ UNCHANGED <<vars, x, y, origin, dropped>>

\* The history of a character that putTerminalBuffer is called with.
Entered(n) == IF isBufferFull THEN origin ELSE Append(origin, n)

\* Mutant: a full buffer makes the paste begin again.
PasteAgain ==
    /\ mouse_cycle = 3
    /\ h < Len(mouseSelect)
    /\ Len(unread) < MaxUnread
    /\ Put(mouseSelect[h + 1])
    /\ h' = IF isBufferFull THEN 0 ELSE h + 1
    /\ origin' = Entered(h + 1)
    /\ dropped' = IF isBufferFull THEN dropped \cup {h + 1} ELSE dropped
    /\ UNCHANGED <<mouse_cycle, mouse_byte, x, y, selecting, init, fin, flag, lit,
                   mouseSelect>>

\* One turn of paste's loop.
Paste ==
    /\ mouse_cycle = 3
    /\ h < Len(mouseSelect)
    /\ Len(unread) < MaxUnread                   \* bound
    /\ Put(mouseSelect[h + 1])
    /\ h' = h + 1
    /\ origin' = Entered(h + 1)
    /\ dropped' = IF isBufferFull THEN dropped \cup {h + 1} ELSE dropped
    /\ UNCHANGED <<mouse_cycle, mouse_byte, x, y, selecting, init, fin, flag, lit,
                   mouseSelect>>

\* The pointer moves, and is drawn again.
Move ==
    /\ mouse_cycle = 3
    /\ h = Len(mouseSelect)
    /\ x' = Moved(x, mouse_byte.dx, WIDTH)
    /\ y' = Moved(y, -mouse_byte.dy, HEIGHT)
    /\ lit' = (lit \ {Pointer}) \cup {Position(x', y')}
    /\ mouse_cycle' = 0
    /\ mouse_byte' = NoPacket
    /\ origin' = [n \in 1..Len(unread) |-> 0]
    /\ dropped' = {}
    /\ UNCHANGED <<vars, selecting, init, fin, flag, mouseSelect, h>>

mouse_handlerC ==
    \/ \E left, right, over \in BOOLEAN : Byte0(left, right, over)
    \/ \E m \in Moves : Byte1(m) \/ Byte2(m)
    \/ Byte2Overflow
    \/ Paste
    \/ Move

\* Keys, and the system calls of programs, in the middle of a paste too.
Others ==
    /\ \/ \E k \in Keys : Key(k) /\ origin' = Entered(0)
       \/ \E length \in 1..MaxRead :
             Read(length) /\ origin' = LastOf(origin, Len(unread'))
       \/ Reset /\ origin' = <<>>
    /\ UNCHANGED handlerVars

MouseNext == mouse_handlerC \/ Others

MouseSpec == MouseInit /\ [][MouseNext]_allVars

-----------------------------------------------------------------------------
(***************************************************************************)
(* Properties.                                                             *)
(***************************************************************************)

\* The type invariant: the pointer and what is lit are on the screen.
MouseTypeOK ==
    /\ mouse_cycle \in 0..3
    /\ x \in Columns /\ y \in Rows
    /\ init \in Cells /\ fin \in Cells
    /\ lit \subseteq Cells

\* Between two packets nothing is lit but the pointer and the selection, however
\* the mouse went back and forth over the selection's first end; and all of the
\* selection is lit, except where the pointer was taken away from.
OnlySelectionLit ==
    mouse_cycle = 0 =>
        LET selected == IF selecting THEN Span(init, fin) ELSE {}
        IN  /\ lit \subseteq selected \cup {Pointer}
            /\ selected \ {fin} \subseteq lit

\* What a paste would put into the terminal's buffer is the text that was
\* selected last, each character once and in the order of the screen.
CopyIsSelection ==
    selecting \/ mouseSelect # <<>> =>
        /\ Len(mouseSelect) = Cardinality(Span(init, fin))
        /\ \A p \in Span(init, fin) :
              mouseSelect[1 + Cardinality({ q \in Span(init, fin) : q < p })]
                  = Text[p]

\* While a paste runs, with keys, readers and runC between its characters, what
\* is in the buffer of it is the text that was selected, in the order of the
\* screen; and from the oldest of them on nothing is missing that paste() has
\* taken, except what it offered to a full buffer.
PasteInOrder ==
    LET from == LastOf(origin, Len(Contents))
        mine == { n \in 1..Len(Contents) : from[n] # 0 }
    IN  mouse_cycle = 3 => \A n \in mine :
            /\ from[n] <= h /\ Contents[n] = mouseSelect[from[n]]
            /\ \A m \in mine : n < m => from[n] < from[m]
            /\ (from[n]..h) \ dropped \subseteq { from[m] : m \in mine }
=============================================================================
