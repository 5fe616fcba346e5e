------------------------------- MODULE Screen -------------------------------
(***************************************************************************)
(* The text screen (Kernel/video.c): what is printed where, and what the   *)
(* cursor does.  A screen s is the record of the static variables: video,  *)
(* the cursor (column i, row j) and the corner (iStart, jStart) of the     *)
(* region of the program that runs (iStartModule, jStartModule).           *)
(*                                                                         *)
(* lineJump moves the cursor to the next row one column at a time, which   *)
(* ends only if it starts left of the right edge; so it is where programs  *)
(* set the region's corner, though changeStartModule allows one past it.   *)
(***************************************************************************)
EXTENDS Integers

CONSTANTS WIDTH, HEIGHT

\* The rows above this one belong to the clock and to the kernel's messages.
Top == 3

ASSUME ScreenAssumption ==
    WIDTH \in Nat \ {0} /\ HEIGHT \in Nat /\ HEIGHT > Top + 1

Rows == 0..(HEIGHT - 1)
Columns == 0..(WIDTH - 1)
validPosition(f, c) == f \in Rows /\ c \in Columns

BlankRow == [c \in Columns |-> " "]

\* The static variables of video.c, after clear() has blanked the screen.
Blank ==
    [video |-> [f \in Rows |-> BlankRow],
     i |-> 0, j |-> Top, iStart |-> 0, jStart |-> Top]

-----------------------------------------------------------------------------
\* Mutant: every row moves up, those above the region too.
scrollAll(s) ==
    [s EXCEPT !.video = [f \in Rows |-> IF f < HEIGHT - 1 THEN s.video[f + 1]
                                        ELSE BlankRow],
              !.j = HEIGHT - 1,
              !.i = s.iStart]

\* The rows of the region move up by one.
scroll(s) ==
    [s EXCEPT !.video = [f \in Rows |->
                            IF f \in s.jStart..(HEIGHT - 2) THEN s.video[f + 1]
                            ELSE IF f = HEIGHT - 1 THEN BlankRow
                            ELSE s.video[f]],
              !.j = HEIGHT - 1,
              !.i = s.iStart]

forwardCursor(s) ==
    IF s.i # WIDTH - 1 THEN [s EXCEPT !.i = s.i + 1]
    ELSE IF s.j = HEIGHT - 1 THEN scroll(s)
    ELSE [s EXCEPT !.j = s.j + 1, !.i = s.iStart]

lineJump(s) ==
    IF s.j = HEIGHT - 1 THEN scroll(s)
    ELSE [s EXCEPT !.j = s.j + 1, !.i = s.iStart]

printChar(s, f, c, a) ==
    IF validPosition(f, c) THEN [s EXCEPT !.video[f][c] = a] ELSE s

putChar(s, a) == forwardCursor(printChar(s, s.j, s.i, a))

\* Mutant: the left edge of the region is not looked at.
backInLineAlways(s) == [s EXCEPT !.i = s.i - 1]

backInLine(s) == IF s.i = s.iStart THEN s ELSE [s EXCEPT !.i = s.i - 1]

setCursor(s, f, c) ==
    IF validPosition(f, c) THEN [s EXCEPT !.i = c, !.j = f] ELSE s

changeStartModule(s, f, c) ==
    IF f \in 0..WIDTH /\ c \in Top..HEIGHT
    THEN [s EXCEPT !.jStart = c, !.iStart = f, !.i = f]
    ELSE s

-----------------------------------------------------------------------------
(***************************************************************************)
(* What the terminal and the system calls do with the screen.              *)
(***************************************************************************)

\* sys_call_writeC of one character.
writeC(s, a) == IF a = "newline" THEN lineJump(s) ELSE putChar(s, a)

\* sys_call_clearC: all rows below the first three.
clearC(s) ==
    setCursor([s EXCEPT !.video = [f \in Rows |-> IF f < Top THEN s.video[f]
                                                  ELSE BlankRow]], Top, 0)

erase(s) == backInLine(putChar(backInLine(s), " "))

\* The echo of putTerminalBuffer.
echo(s, c, isEcho) ==
    IF c = "backspace" THEN erase(s)
    ELSE IF c = "newline" THEN lineJump(s)
    ELSE IF isEcho THEN putChar(s, c)
    ELSE s
=============================================================================
