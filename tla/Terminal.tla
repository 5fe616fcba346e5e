------------------------------ MODULE Terminal ------------------------------
(***************************************************************************)
(* The keyboard (Kernel/keyboard.c) and the terminal's circular buffer     *)
(* (Kernel/terminal.c), read by the read system call.  The keyboard        *)
(* interrupt and the system calls run with interrupts disabled, so each is *)
(* one step.  A scan code is what its table row makes of it: a modifier, a *)
(* key with a column of characters, a key without one, or a release.       *)
(***************************************************************************)
EXTENDS Integers, Sequences

CONSTANTS
    BUFFERSIZE,
    Keys,          \* the keys that have characters (rows of kbd_EN)
    MaxUnread,     \* bound on the characters put and not read, for TLC
    MaxRead        \* bound on the length a program passes to read

ASSUME BufferAssumption ==
    BUFFERSIZE \in Nat \ {0} /\ MaxRead \in Nat /\ MaxUnread \in Nat

VARIABLES
    Buffer,            \* the array, indexed from bufferStart
    bufferConsume,     \* offsets from bufferStart
    bufferPosition,
    shift, caps,
    unread             \* history: the characters accepted and not yet read

vars == <<Buffer, bufferConsume, bufferPosition, shift, caps, unread>>

Offset == 0..(BUFFERSIZE - 1)

\* A character: the key's row and the column the modifiers choose.
Char == Keys \X (1..4)
Column == CASE caps /\ shift -> 4
            [] caps /\ ~shift -> 3
            [] ~caps /\ shift -> 2
            [] OTHER -> 1

\* The array is static, so it starts as zeros; they are never read.
Zero == <<"", 0>>

-----------------------------------------------------------------------------
\* Mutant: full is taken for empty.
FullWhenEmpty == bufferConsume = bufferPosition

\* The second disjunct is about a bufferConsume one past the end, where
\* getTerminalBuffer never leaves it.
isBufferFull ==
    \/ bufferConsume = bufferPosition + 1
    \/ bufferConsume = BUFFERSIZE /\ bufferPosition = 0

\* Mutant: the position runs past the end of the array.
AfterUnwrapped(o) == o + 1

\* The offset after o, back to the start at the end of the array.
After(o) == IF o + 1 = BUFFERSIZE THEN 0 ELSE o + 1

\* The characters getTerminalBuffer would find, oldest first; none (the buffer
\* is empty) where the offsets are equal.
Contents ==
    LET n == (bufferPosition - bufferConsume) % BUFFERSIZE
    IN  [i \in 1..n |-> Buffer[(bufferConsume + i - 1) % BUFFERSIZE]]

Init ==
    /\ Buffer = [o \in Offset |-> Zero]
    /\ bufferConsume = 0
    /\ bufferPosition = 0
    /\ shift = FALSE
    /\ caps = FALSE
    /\ unread = <<>>

-----------------------------------------------------------------------------
(***************************************************************************)
(* keyboardHandlerC.                                                       *)
(***************************************************************************)

CapsLock ==
    /\ caps' = ~caps
    /\ UNCHANGED <<Buffer, bufferConsume, bufferPosition, shift, unread>>

\* Either shift key: make, or break.
Shift(on) ==
    /\ shift' = on
    /\ UNCHANGED <<Buffer, bufferConsume, bufferPosition, caps, unread>>

\* What putTerminalBuffer does to the buffer.
Put(c) ==
    /\ IF isBufferFull
       THEN UNCHANGED <<Buffer, bufferPosition, unread>>
       ELSE /\ Buffer' = [Buffer EXCEPT ![bufferPosition] = c]
            /\ bufferPosition' = After(bufferPosition)
            /\ unread' = Append(unread, c)
    /\ UNCHANGED <<bufferConsume, shift, caps>>

\* The character under the modifiers.
Key(k) ==
    /\ Len(unread) < MaxUnread                   \* bound
    /\ Put(<<k, Column>>)

\* Mutant: only the position of the next character is reset.
ResetPosition ==
    /\ bufferPosition' = 0
    /\ unread' = <<>>
    /\ UNCHANGED <<Buffer, bufferConsume, shift, caps>>

\* resetBuffer: runC, or Shift+F1 through restartSHELL, which ends in runC.
Reset ==
    /\ bufferPosition' = 0
    /\ bufferConsume' = 0
    /\ unread' = <<>>
    /\ UNCHANGED <<Buffer, shift, caps>>

-----------------------------------------------------------------------------
(***************************************************************************)
(* getTerminalBuffer(buffer, length): as many of the oldest characters as  *)
(* there are, at most length.  unread forgets what was returned, and what  *)
(* came before it and was not.                                             *)
(***************************************************************************)

LastOf(s, n) == SubSeq(s, Len(s) - n + 1, Len(s))

Read(length) ==
    LET n == IF length < Len(Contents) THEN length ELSE Len(Contents)
    IN  /\ bufferConsume' = (bufferConsume + n) % BUFFERSIZE
        /\ unread' = LastOf(unread, Len(Contents) - n)
        /\ UNCHANGED <<Buffer, bufferPosition, shift, caps>>

Next ==
    \/ CapsLock
    \/ \E on \in BOOLEAN : Shift(on)
    \/ \E k \in Keys : Key(k)
    \/ Reset
    \/ \E length \in 0..MaxRead : Read(length)

Spec == Init /\ [][Next]_vars

-----------------------------------------------------------------------------
(***************************************************************************)
(* Properties.                                                             *)
(***************************************************************************)

\* The type invariant: both offsets stay inside the array.
TypeOK ==
    /\ Buffer \in [Offset -> Char \cup {Zero}]
    /\ bufferConsume \in Offset
    /\ bufferPosition \in Offset
    /\ shift \in BOOLEAN
    /\ caps \in BOOLEAN
    /\ unread \in Seq(Char)

\* What a program can read is the most recent of the accepted characters, in
\* the order they were typed and with the modifiers they were typed under; and
\* it is all of them, whatever was typed, read and reset before, as long as
\* putTerminalBuffer has not accepted more than there is room for (that it never
\* does is KeptUntilRead).
ContentsInOrder ==
    /\ Len(Contents) <= Len(unread)
    /\ Contents = LastOf(unread, Len(Contents))
    /\ Len(unread) < BUFFERSIZE => Contents = unread

\* A full buffer ignores the key, as the comment before putTerminalBuffer says:
\* so a character that was accepted stays until it is read.  (The code does not
\* keep this: isBufferFull does not see a full buffer whose oldest character is
\* the array's first.)
KeptUntilRead == Contents = unread

\* A key is ignored only when BUFFERSIZE - 1 characters are waiting.
IgnoredOnlyWhenFull == isBufferFull => Len(Contents) = BUFFERSIZE - 1
=============================================================================
