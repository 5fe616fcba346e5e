--------------------------- MODULE Console_proofs ---------------------------
(***************************************************************************)
(* The cursor stays on the screen and in the columns of its region, and    *)
(* the rows of the clock stay as they are, for a screen of any size, any   *)
(* prompt, any commands and any number of threads that print and clear     *)
(* while keys are echoed.                                                  *)
(***************************************************************************)
EXTENDS Console, SequenceTheorems, TLAPS

-----------------------------------------------------------------------------
(***************************************************************************)
(* What the routines of video.c keep.                                      *)
(***************************************************************************)

\* The record of video.c's variables, with the cursor below the header.
IsScreen(s) ==
    /\ s = [video |-> s.video, i |-> s.i, j |-> s.j,
            iStart |-> s.iStart, jStart |-> s.jStart]
    /\ s.video = [f \in Rows |-> s.video[f]]
    /\ s.i \in Int /\ s.i <= WIDTH - 1
    /\ s.j \in Top..(HEIGHT - 1)
    /\ s.iStart \in 0..(WIDTH - 2)
    /\ s.jStart \in Top..(HEIGHT - 1)

HeaderBlank(s) == \A f \in 0..(Top - 1) : s.video[f] = BlankRow

Inside(s) == s.iStart <= s.i

\* From s to t the header and the region stay, and the cursor does not leave
\* the region.
Keeps(s, t) ==
    /\ IsScreen(t)
    /\ t.iStart = s.iStart
    /\ HeaderBlank(s) => HeaderBlank(t)
    /\ Inside(s) => Inside(t)

\* Keeping is transitive.
LEMMA Kept ==
    ASSUME NEW s, NEW t, NEW u, Keeps(s, t), Keeps(t, u)
    PROVE  Keeps(s, u)
BY DEF Keeps

\* What does nothing keeps.
LEMMA KeptSame ==
    ASSUME NEW s, IsScreen(s)
    PROVE  Keeps(s, s)
BY DEF Keeps

\* A screen with other rows below the header and another cursor.
LEMMA KeptWith ==
    ASSUME NEW s, IsScreen(s), NEW v, NEW c \in Int, NEW f \in Top..(HEIGHT - 1),
           v = [g \in Rows |-> v[g]],
           \A g \in 0..(Top - 1) : v[g] = s.video[g],
           c <= WIDTH - 1, Inside(s) => s.iStart <= c
    PROVE  Keeps(s, [video |-> v, i |-> c, j |-> f,
                     iStart |-> s.iStart, jStart |-> s.jStart])
BY DEF Keeps, IsScreen, HeaderBlank, Inside

\* scroll moves the rows below the header only.
LEMMA ScrollKeeps ==
    ASSUME NEW s, IsScreen(s)
    PROVE  Keeps(s, scroll(s))
<1> DEFINE v == [f \in Rows |-> IF f \in s.jStart..(HEIGHT - 2) THEN s.video[f + 1]
                                ELSE IF f = HEIGHT - 1 THEN BlankRow
                                ELSE s.video[f]]
<1>1. \A g \in 0..(Top - 1) : v[g] = s.video[g]
  BY ScreenAssumption DEF IsScreen, Rows, Top
<1>2. v = [f \in Rows |-> v[f]]
  OBVIOUS
<1>3. scroll(s) = [s EXCEPT !.video = v, !.j = HEIGHT - 1, !.i = s.iStart]
  BY DEF scroll
<1> HIDE DEF v
<1>4. scroll(s) = [video |-> v, i |-> s.iStart, j |-> HEIGHT - 1,
                   iStart |-> s.iStart, jStart |-> s.jStart]
  BY <1>3 DEF IsScreen
<1>5. /\ s.iStart \in Int /\ s.iStart <= WIDTH - 1 /\ s.iStart <= s.iStart
      /\ HEIGHT - 1 \in Top..(HEIGHT - 1)
  BY ScreenAssumption DEF IsScreen, Top
<1> QED BY <1>1, <1>2, <1>4, <1>5, KeptWith

\* The cursor in another place.
LEMMA MovedRecord ==
    ASSUME NEW s, NEW c, NEW f,
           s = [video |-> s.video, i |-> s.i, j |-> s.j,
                iStart |-> s.iStart, jStart |-> s.jStart]
    PROVE  [s EXCEPT !.j = f, !.i = c]
             = [video |-> s.video, i |-> c, j |-> f,
                iStart |-> s.iStart, jStart |-> s.jStart]
<1> SUFFICES ASSUME NEW t, t = [s EXCEPT !.j = f, !.i = c]
             PROVE  t = [video |-> s.video, i |-> c, j |-> f,
                         iStart |-> s.iStart, jStart |-> s.jStart]
  OBVIOUS
<1> QED OBVIOUS

\* The cursor goes to a place of the region.
LEMMA MovedKeeps ==
    ASSUME NEW s, IsScreen(s), NEW c \in Int, NEW f \in Top..(HEIGHT - 1),
           c <= WIDTH - 1, Inside(s) => s.iStart <= c
    PROVE  Keeps(s, [s EXCEPT !.j = f, !.i = c])
<1>1. [s EXCEPT !.j = f, !.i = c]
        = [video |-> s.video, i |-> c, j |-> f,
           iStart |-> s.iStart, jStart |-> s.jStart]
  BY MovedRecord DEF IsScreen
<1>2. s.video = [g \in Rows |-> s.video[g]]
  BY DEF IsScreen
<1> QED BY <1>1, <1>2, KeptWith

\* The cursor goes to the start of the next row.
LEMMA NextRowKeeps ==
    ASSUME NEW s, IsScreen(s), s.j # HEIGHT - 1
    PROVE  Keeps(s, [s EXCEPT !.j = s.j + 1, !.i = s.iStart])
<1>1. /\ s.iStart \in Int /\ s.iStart <= WIDTH - 1 /\ s.iStart <= s.iStart
      /\ s.j + 1 \in Top..(HEIGHT - 1)
  BY ScreenAssumption DEF IsScreen, Top
<1> QED BY <1>1, MovedKeeps

\* forwardCursor goes on in the row, to the next or scrolls.
LEMMA ForwardCursorKeeps ==
    ASSUME NEW s, IsScreen(s)
    PROVE  Keeps(s, forwardCursor(s))
<1>1. CASE s.i # WIDTH - 1
  <2>1. /\ s.i + 1 \in Int /\ s.i + 1 <= WIDTH - 1
        /\ Inside(s) => s.iStart <= s.i + 1
        /\ s.j \in Top..(HEIGHT - 1)
    BY <1>1, ScreenAssumption DEF IsScreen, Inside
  <2>2. forwardCursor(s) = [s EXCEPT !.j = s.j, !.i = s.i + 1]
    BY <1>1 DEF forwardCursor, IsScreen
  <2>3. ASSUME NEW c, NEW f, c = s.i + 1, f = s.j
        PROVE  Keeps(s, [s EXCEPT !.j = f, !.i = c])
    BY <2>1, <2>3, MovedKeeps
  <2> QED BY <2>2, <2>3
<1>2. CASE s.i = WIDTH - 1 /\ s.j = HEIGHT - 1
  BY <1>2, ScrollKeeps DEF forwardCursor
<1>3. CASE s.i = WIDTH - 1 /\ s.j # HEIGHT - 1
  BY <1>3, NextRowKeeps DEF forwardCursor
<1> QED BY <1>1, <1>2, <1>3

\* lineJump goes to the next row or scrolls.
LEMMA LineJumpKeeps ==
    ASSUME NEW s, IsScreen(s)
    PROVE  Keeps(s, lineJump(s))
BY ScrollKeeps, NextRowKeeps DEF lineJump

\* The cursor is below the header, so what is printed at it is too.
LEMMA PrintCharKeeps ==
    ASSUME NEW s, IsScreen(s), NEW a
    PROVE  Keeps(s, printChar(s, s.j, s.i, a))
<1> DEFINE t == printChar(s, s.j, s.i, a)
<1>1. CASE ~validPosition(s.j, s.i)
  BY <1>1, KeptSame DEF printChar
<1>2. CASE validPosition(s.j, s.i)
  <2>1. t = [s EXCEPT !.video = [s.video EXCEPT ![s.j] =
                                    [s.video[s.j] EXCEPT ![s.i] = a]]]
    BY <1>2 DEF printChar
  <2>2. \A f \in 0..(Top - 1) : t.video[f] = s.video[f]
    BY <2>1, ScreenAssumption DEF IsScreen, Top, Rows
  <2>3. IsScreen(t)
    BY <2>1, ScreenAssumption DEF IsScreen
  <2>4. t.iStart = s.iStart /\ t.i = s.i
    BY <2>1 DEF IsScreen
  <2> QED BY <2>2, <2>3, <2>4 DEF Keeps, HeaderBlank, Inside
<1> QED BY <1>1, <1>2

\* putChar writes where the cursor is.
LEMMA PutCharKeeps ==
    ASSUME NEW s, IsScreen(s), NEW a
    PROVE  Keeps(s, putChar(s, a))
<1>1. Keeps(s, printChar(s, s.j, s.i, a))
  BY PrintCharKeeps
<1>2. IsScreen(printChar(s, s.j, s.i, a))
  BY <1>1 DEF Keeps
<1> QED BY <1>1, <1>2, ForwardCursorKeeps, Kept DEF putChar

\* backInLine stops at the start of the region.
LEMMA BackInLineKeeps ==
    ASSUME NEW s, IsScreen(s)
    PROVE  Keeps(s, backInLine(s))
BY ScreenAssumption DEF Keeps, IsScreen, HeaderBlank, Inside, backInLine

\* erase writes where the cursor has gone back to.
LEMMA EraseKeeps ==
    ASSUME NEW s, IsScreen(s)
    PROVE  Keeps(s, erase(s))
<1> DEFINE t == backInLine(s)
           u == putChar(t, " ")
<1>1. Keeps(s, t) /\ IsScreen(t)
  BY BackInLineKeeps DEF Keeps
<1>2. Keeps(t, u) /\ IsScreen(u)
  BY <1>1, PutCharKeeps DEF Keeps
<1>3. Keeps(u, backInLine(u))
  BY <1>2, BackInLineKeeps
<1>4. Keeps(s, backInLine(u))
  BY <1>1, <1>2, <1>3, Kept
<1> QED BY <1>4 DEF erase

\* The echo of a key.
LEMMA EchoKeeps ==
    ASSUME NEW s, IsScreen(s), NEW c, NEW on
    PROVE  Keeps(s, echo(s, c, on))
BY EraseKeeps, LineJumpKeeps, PutCharKeeps, KeptSame DEF echo

\* A character printed by a program.
LEMMA WriteKeeps ==
    ASSUME NEW s, IsScreen(s), NEW a
    PROVE  Keeps(s, writeC(s, a))
BY LineJumpKeeps, PutCharKeeps DEF writeC

\* clear puts the cursor into the first column, whatever the region.
LEMMA ClearKeeps ==
    ASSUME NEW s, IsScreen(s)
    PROVE  /\ IsScreen(clearC(s))
           /\ clearC(s).iStart = s.iStart
           /\ HeaderBlank(s) => HeaderBlank(clearC(s))
           /\ s.iStart = 0 => Inside(clearC(s))
<1> DEFINE v == [f \in Rows |-> IF f < Top THEN s.video[f] ELSE BlankRow]
           t == [s EXCEPT !.video = v]
<1>1. validPosition(Top, 0)
  BY ScreenAssumption DEF validPosition, Rows, Columns, Top
<1>2. clearC(s) = [t EXCEPT !.i = 0, !.j = Top]
  BY <1>1 DEF clearC, setCursor
<1>3. \A f \in 0..(Top - 1) : v[f] = s.video[f]
  BY ScreenAssumption DEF Rows, Top
<1>4. v = [f \in Rows |-> v[f]]
  OBVIOUS
<1> HIDE DEF v
<1>5. clearC(s) = [video |-> v, i |-> 0, j |-> Top,
                   iStart |-> s.iStart, jStart |-> s.jStart]
  BY <1>2 DEF IsScreen
<1> QED BY <1>3, <1>4, <1>5, ScreenAssumption
        DEF IsScreen, HeaderBlank, Inside, Top

\* A new region begins with the cursor in its first column.
LEMMA RegionKeeps ==
    ASSUME NEW s, IsScreen(s), NEW f \in 0..(WIDTH - 2)
    PROVE  /\ IsScreen(changeStartModule(s, f, shellRow))
           /\ changeStartModule(s, f, shellRow).iStart = f
           /\ HeaderBlank(s) => HeaderBlank(changeStartModule(s, f, shellRow))
           /\ Inside(changeStartModule(s, f, shellRow))
<1>1. f \in 0..WIDTH /\ shellRow \in Top..HEIGHT
  BY ScreenAssumption DEF shellRow, Top
<1>2. changeStartModule(s, f, shellRow)
        = [video |-> s.video, i |-> f, j |-> s.j,
           iStart |-> f, jStart |-> shellRow]
  BY <1>1 DEF changeStartModule, IsScreen
<1> QED BY <1>2, ScreenAssumption
        DEF IsScreen, HeaderBlank, Inside, Top, shellRow

-----------------------------------------------------------------------------
(***************************************************************************)
(* The calls that programs make.                                           *)
(***************************************************************************)

\* What a command can do; it does something.
Scripts == {Message, <<"clear">>, <<"echoOn">>, <<"echoOff">>,
            Message \o <<"echoOn">>, <<"run">>, <<"kill">>, <<"while1">>}

\* What commands do is one of the scripts.
LEMMA ScriptOfCommand ==
    ASSUME NEW c \in Commands \cup AsyncCommands
    PROVE  Script(c) \in Scripts
BY Zenon DEF Script, Scripts, Commands, AsyncCommands

\* What a call does to the screen.
LEMMA EffectOf ==
    ASSUME NEW call
    PROVE  /\ call = "clear" => Effect(call) = clearC(screen)
           /\ call = "shellEnv" => Effect(call) = changeStartModule(screen, 0, shellRow)
           /\ call = "userEnv" =>
                 Effect(call) = changeStartModule(screen, PromptWidth, shellRow)
           /\ call \notin {"clear", "shellEnv", "userEnv"} =>
                 Effect(call) \in {screen, writeC(screen, call)}
<1>1. Background \cap {"clear", "shellEnv", "userEnv"} = {}
  BY ConsoleAssumption DEF AsyncCommands
<1> QED BY <1>1, Zenon DEF Effect

ThreadCalls == {"o", "newline", "clear", "echoOn", "echoOff", "run", "kill",
                "while1"}
ThreadScripts == Seq(ThreadCalls) \ {<<>>}
ShellCalls == ThreadCalls \cup {"shellEnv", "userEnv", "ended"}
              \cup Background \cup Range(Prompt)

\* The calls of commands are calls a thread may make.
LEMMA ScriptsOfThreads ==
    ASSUME NEW c \in Foreground \cup Background
    PROVE  Script(c) \in Seq(ThreadCalls)
<1>1. c \in Commands \cup AsyncCommands
  BY ConsoleAssumption
<1>2. Message \in Seq(ThreadCalls) /\ <<"echoOn">> \in Seq(ThreadCalls)
  BY DEF ThreadCalls, Message
<1>3. Message \o <<"echoOn">> \in Seq(ThreadCalls)
  BY <1>2
<1>4. /\ <<"clear">> \in Seq(ThreadCalls) /\ <<"echoOff">> \in Seq(ThreadCalls)
      /\ <<"run">> \in Seq(ThreadCalls) /\ <<"while1">> \in Seq(ThreadCalls)
      /\ <<"kill">> \in Seq(ThreadCalls)
  BY DEF ThreadCalls
<1>5. Script(c) \in Scripts
  BY <1>1, ScriptOfCommand
<1> QED BY <1>2, <1>3, <1>4, <1>5, Zenon DEF Scripts

\* And those of a thread are scripts of threads.
LEMMA ScriptsOfBackground ==
    ASSUME NEW c \in Background
    PROVE  Script(c) \in ThreadScripts
<1>1. Message # <<>> /\ Message \o <<"echoOn">> # <<>>
  BY DEF Message
<1>2. /\ <<"clear">> # <<>> /\ <<"echoOn">> # <<>> /\ <<"echoOff">> # <<>>
      /\ <<"run">> # <<>> /\ <<"while1">> # <<>> /\ <<"kill">> # <<>>
  OBVIOUS
<1>3. Script(c) \in Scripts
  BY ConsoleAssumption, ScriptOfCommand
<1>4. Script(c) # <<>>
  BY <1>1, <1>2, <1>3, Zenon DEF Scripts
<1> QED BY <1>4, ScriptsOfThreads DEF ThreadScripts

\* Only clear clears, and it does nothing else.
LEMMA ClearAlone ==
    ASSUME NEW s \in Scripts, NEW n \in 1..Len(s), s[n] = "clear"
    PROVE  n = 1
BY DEF Scripts, Message

\* What main does before it reads a line clears nothing.
LEMMA AskCalls ==
    /\ Ask \in Seq(ShellCalls)
    /\ \A n \in 1..Len(Ask) : Ask[n] # "clear"
<1> DEFINE R == Range(Prompt)
           Other == {"newline", "shellEnv", "userEnv"} \cup R
<1>1. Prompt \in Seq(R) /\ "clear" \notin R
  BY ConsoleAssumption DEF Calls
<1> HIDE DEF R
<1>2. /\ <<"newline", "shellEnv">> \in Seq(Other) /\ Prompt \in Seq(Other)
      /\ <<"userEnv">> \in Seq(Other)
  BY <1>1
<1>3. Ask \in Seq(Other)
  BY <1>2 DEF Ask
<1>4. Other \subseteq ShellCalls /\ "clear" \notin Other
  BY <1>1 DEF R, ShellCalls, ThreadCalls
<1> HIDE DEF Other
<1> QED BY <1>3, <1>4

(***************************************************************************)
(* The shell clears the screen only when its region starts in the first    *)
(* column: changeStartModule is the call before, and no thread moves the   *)
(* region.                                                                 *)
(***************************************************************************)
ClearReady(s, col) ==
    \A n \in 1..Len(s) :
        s[n] = "clear" => (n = 1 /\ col = 0) \/ (n = 2 /\ s[1] = "shellEnv")

ConsoleTypes ==
    /\ IsScreen(screen)
    /\ shell \in Seq(ShellCalls)
    /\ threads \in Seq(ThreadScripts)
    /\ cleared \in {"no", "yes"}

ConsoleInv ==
    /\ ConsoleTypes
    /\ ClearReady(shell, screen.iStart)
    /\ HeaderBlank(screen)
    /\ cleared = "no" => Inside(screen)

\* A line is an overflow or a command.
LEMMA AfterALine ==
    ASSUME NEW s, NEW col,
           \/ s = Overflow \o Ask
           \/ \E f \in Foreground : s = <<"shellEnv">> \o parser(f) \o Ask
           \/ \E b \in Background : s = <<"shellEnv">> \o asyncParser(b) \o Ask
    PROVE  s \in Seq(ShellCalls) /\ ClearReady(s, col)
<1>1. Ask \in Seq(ShellCalls) /\ \A n \in 1..Len(Ask) : Ask[n] # "clear"
  BY AskCalls
<1>2. CASE s = Overflow \o Ask
  <2>1. Overflow = <<"newline", "o">> /\ Overflow \in Seq(ShellCalls)
    BY DEF Overflow, ShellCalls, ThreadCalls
  <2> QED BY <1>1, <1>2, <2>1 DEF ClearReady
<1>3. ASSUME NEW t \in Seq(ShellCalls), s = <<"shellEnv">> \o t \o Ask,
             \A n \in 1..Len(t) : t[n] = "clear" => n = 1
      PROVE  s \in Seq(ShellCalls) /\ ClearReady(s, col)
  <2>1. <<"shellEnv">> \in Seq(ShellCalls)
    BY DEF ShellCalls
  <2>2. s \in Seq(ShellCalls)
    BY <1>1, <1>3, <2>1
  <2>3. Len(s) = 1 + Len(t) + Len(Ask) /\ s[1] = "shellEnv"
    BY <1>1, <1>3, <2>1
  <2>4. ASSUME NEW n \in 1..Len(s)
        PROVE  s[n] = IF n = 1 THEN "shellEnv"
                      ELSE IF n <= 1 + Len(t) THEN t[n - 1]
                      ELSE Ask[n - 1 - Len(t)]
    BY <1>1, <1>3, <2>1, <2>3
  <2> QED BY <1>1, <1>3, <2>2, <2>3, <2>4 DEF ClearReady
<1>4. ASSUME NEW c \in Foreground \cup Background
      PROVE  /\ Script(c) \in Seq(ShellCalls)
             /\ \A n \in 1..Len(Script(c)) : Script(c)[n] = "clear" => n = 1
  <2>1. Script(c) \in Seq(ThreadCalls)
    BY ScriptsOfThreads
  <2>2. ThreadCalls \subseteq ShellCalls
    BY DEF ShellCalls
  <2>3. Script(c) \in Scripts
    BY ConsoleAssumption, ScriptOfCommand
  <2> QED BY <2>1, <2>2, <2>3, ClearAlone
<1>5. CASE \E f \in Foreground : s = <<"shellEnv">> \o parser(f) \o Ask
  BY <1>3, <1>4, <1>5 DEF parser
<1>6. CASE \E b \in Background : s = <<"shellEnv">> \o asyncParser(b) \o Ask
  <2>1. PICK b \in Background : s = <<"shellEnv">> \o asyncParser(b) \o Ask
    BY <1>6
  <2>2. CASE asyncParser(b) = Script(b)
    BY <1>3, <1>4, <2>1, <2>2
  <2>3. CASE asyncParser(b) = <<b>>
    <3>1. b # "clear" /\ b \in ShellCalls
      BY ConsoleAssumption DEF AsyncCommands, ShellCalls
    <3>2. ASSUME NEW t, t = <<b>>
          PROVE  /\ t \in Seq(ShellCalls)
                 /\ \A n \in 1..Len(t) : t[n] = "clear" => n = 1
      BY <3>1, <3>2
    <3> QED BY <1>3, <2>1, <2>3, <3>2
  <2> QED BY <2>2, <2>3 DEF asyncParser
<1> QED BY <1>2, <1>5, <1>6

-----------------------------------------------------------------------------
(***************************************************************************)
(* The steps.                                                              *)
(***************************************************************************)

\* A step that keeps the screen, the shell's calls and the mark.
LEMMA ScreenKept ==
    ASSUME ConsoleInv, Keeps(screen, screen'), threads' \in Seq(ThreadScripts),
           cleared' = cleared,
           shell' \in Seq(ShellCalls), ClearReady(shell', screen'.iStart)
    PROVE  ConsoleInv'
BY DEF ConsoleInv, ConsoleTypes, Keeps

\* terminalInitialize and the shell begin with the invariant.
LEMMA InitConsole ==
    ASSUME ConsoleInit
    PROVE  ConsoleInv
<1>1. IsScreen(Blank) /\ HeaderBlank(Blank) /\ Inside(Blank)
  <2>1. Len(Prompt) \in Nat
    BY ConsoleAssumption
  <2> QED BY <2>1, ScreenAssumption, ConsoleAssumption
          DEF IsScreen, HeaderBlank, Inside, Blank, Rows, Top
<1>2. <<>> \in Seq(ThreadScripts)
  OBVIOUS
<1> QED BY <1>1, <1>2, AskCalls
        DEF ConsoleInit, ConsoleInv, ConsoleTypes, ClearReady

\* A key keeps the invariant.
LEMMA PressKeyKeeps ==
    ASSUME ConsoleInv, NEW k, PressKey(k)
    PROVE  ConsoleInv'
<1>1. IsScreen(screen) /\ ClearReady(shell, screen.iStart)
  BY DEF ConsoleInv, ConsoleTypes
<1>2. Keeps(screen, screen')
  BY <1>1, EchoKeeps, KeptSame DEF PressKey
<1>3. shell' = shell /\ threads' = threads /\ cleared' = cleared
  BY DEF PressKey, shellVars
<1>4. ClearReady(shell', screen'.iStart)
  BY <1>1, <1>2, <1>3 DEF Keeps
<1> QED BY <1>2, <1>3, <1>4, ScreenKept DEF ConsoleInv, ConsoleTypes

\* Shift+F1 keeps the invariant.
LEMMA RestartKeeps ==
    ASSUME ConsoleInv, Restart
    PROVE  ConsoleInv'
<1>1. <<>> \in Seq(ThreadScripts)
  OBVIOUS
<1> QED BY <1>1, AskCalls DEF Restart, ConsoleInv, ConsoleTypes, ClearReady

\* scanFF and the parser keep the invariant.
LEMMA ScanKeeps ==
    ASSUME ConsoleInv, Scan
    PROVE  ConsoleInv'
<1>1. screen' = screen /\ threads' = threads /\ cleared' = cleared
  BY DEF Scan, historyVars
<1>2. \/ shell' = shell
      \/ shell' = Overflow \o Ask
      \/ \E f \in Foreground : shell' = <<"shellEnv">> \o parser(f) \o Ask
      \/ \E b \in Background : shell' = <<"shellEnv">> \o asyncParser(b) \o Ask
  BY DEF Scan
<1>3. shell' \in Seq(ShellCalls) /\ ClearReady(shell', screen.iStart)
  BY <1>2, AfterALine DEF ConsoleInv, ConsoleTypes
<1> QED BY <1>1, <1>3 DEF ConsoleInv, ConsoleTypes

\* A program that the shell runs keeps the invariant.
LEMMA RunKeeps ==
    ASSUME ConsoleInv, Run
    PROVE  ConsoleInv'
<1>1. screen' = screen /\ cleared' = cleared /\ shell' = <<"ended">> /\ threads' = <<>>
  BY DEF Run, historyVars
<1>2. <<"ended">> \in Seq(ShellCalls) /\ <<>> \in Seq(ThreadScripts)
  BY DEF ShellCalls
<1>3. ClearReady(<<"ended">>, screen.iStart)
  BY DEF ClearReady
<1> QED BY <1>1, <1>2, <1>3 DEF ConsoleInv, ConsoleTypes

\* The kill of the shell keeps the invariant.
LEMMA KillShellKeeps ==
    ASSUME ConsoleInv, KillShell
    PROVE  ConsoleInv'
<1>1. screen' = screen /\ cleared' = cleared /\ shell' = <<"ended">> /\ threads' = <<>>
  BY DEF KillShell, historyVars
<1>2. <<"ended">> \in Seq(ShellCalls) /\ <<>> \in Seq(ThreadScripts)
  BY DEF ShellCalls
<1>3. ClearReady(<<"ended">>, screen.iStart)
  BY DEF ClearReady
<1> QED BY <1>1, <1>2, <1>3 DEF ConsoleInv, ConsoleTypes

\* The calls that are left, after the first, in the region that it leaves.
LEMMA ClearReadyTail ==
    ASSUME NEW s \in Seq(ShellCalls), s # <<>>, NEW col, ClearReady(s, col),
           NEW new, Head(s) = "shellEnv" => new = 0
    PROVE  Tail(s) \in Seq(ShellCalls) /\ ClearReady(Tail(s), new)
<1>1. /\ Tail(s) \in Seq(ShellCalls) /\ Len(Tail(s)) = Len(s) - 1
      /\ \A n \in 1..Len(Tail(s)) : Tail(s)[n] = s[n + 1]
      /\ Head(s) = s[1] /\ Len(s) \in Nat
  OBVIOUS
<1>2. ASSUME NEW n \in 1..Len(Tail(s)), Tail(s)[n] = "clear"
      PROVE  n = 1 /\ new = 0
  <2>1. n + 1 \in 1..Len(s) /\ s[n + 1] = "clear" /\ n + 1 # 1
    BY <1>1, <1>2
  <2>2. n + 1 = 2 /\ s[1] = "shellEnv"
    BY <2>1 DEF ClearReady
  <2> QED BY <1>1, <2>2
<1> QED BY <1>1, <1>2 DEF ClearReady

\* A system call of the shell keeps the invariant.
LEMMA ShellCallKeeps ==
    ASSUME ConsoleInv, ShellCall
    PROVE  ConsoleInv'
<1> DEFINE call == Head(shell)
<1>1. /\ IsScreen(screen) /\ HeaderBlank(screen)
      /\ shell \in Seq(ShellCalls) /\ shell # <<>>
      /\ ClearReady(shell, screen.iStart)
      /\ threads \in Seq(ThreadScripts)
  BY DEF ConsoleInv, ConsoleTypes, ShellCall
<1>2. /\ screen' = Effect(call) /\ shell' = Tail(shell)
      /\ threads' = ThreadsAfter(call)
      /\ cleared' = IF call \in {"shellEnv", "userEnv"} THEN "no" ELSE cleared
  BY DEF ShellCall
<1>3. threads' \in Seq(ThreadScripts)
  <2>1. call \in Background => Script(call) \in ThreadScripts
    BY ScriptsOfBackground
  <2> HIDE DEF call
  <2> QED BY <1>1, <1>2, <2>1 DEF ThreadsAfter
<1> HIDE DEF call
<1>4. CASE call = "clear"
  <2>1. screen' = clearC(screen) /\ cleared' = cleared
    BY <1>2, <1>4, EffectOf
  <2>2. screen.iStart = 0
    BY <1>1, <1>4 DEF call, ClearReady
  <2>3. /\ IsScreen(screen') /\ HeaderBlank(screen') /\ Inside(screen')
    BY <1>1, <2>1, <2>2, ClearKeeps
  <2>4. shell' \in Seq(ShellCalls) /\ ClearReady(shell', screen'.iStart)
    BY <1>1, <1>2, <1>4, ClearReadyTail DEF call
  <2> QED BY <1>3, <2>1, <2>3, <2>4 DEF ConsoleInv, ConsoleTypes
<1>5. ASSUME NEW f \in 0..(WIDTH - 2),
             screen' = changeStartModule(screen, f, shellRow),
             cleared' = "no", call = "shellEnv" => f = 0
      PROVE  ConsoleInv'
  <2>1. /\ IsScreen(screen') /\ HeaderBlank(screen') /\ Inside(screen')
        /\ screen'.iStart = f
    BY <1>1, <1>5, RegionKeeps
  <2>2. shell' \in Seq(ShellCalls) /\ ClearReady(shell', screen'.iStart)
    BY <1>1, <1>2, <1>5, <2>1, ClearReadyTail DEF call
  <2> QED BY <1>3, <1>5, <2>1, <2>2 DEF ConsoleInv, ConsoleTypes
<1>6. PromptWidth \in 0..(WIDTH - 2) /\ 0 \in 0..(WIDTH - 2)
  <2>1. Len(Prompt) \in Nat
    BY ConsoleAssumption
  <2> QED BY <2>1, ConsoleAssumption, ScreenAssumption DEF PromptWidth
<1>7. CASE call = "shellEnv"
  <2>1. screen' = changeStartModule(screen, 0, shellRow) /\ cleared' = "no"
    BY <1>2, <1>7, EffectOf
  <2> QED BY <1>5, <1>6, <2>1
<1>8. CASE call = "userEnv"
  <2>1. screen' = changeStartModule(screen, PromptWidth, shellRow) /\ cleared' = "no"
    BY <1>2, <1>8, EffectOf
  <2> QED BY <1>5, <1>6, <1>8, <2>1
<1>9. CASE call \notin {"clear", "shellEnv", "userEnv"}
  <2>1. screen' \in {screen, writeC(screen, call)} /\ cleared' = cleared
    BY <1>2, <1>9, EffectOf
  <2>2. Keeps(screen, screen')
    BY <1>1, <2>1, KeptSame, WriteKeeps
  <2>3. shell' \in Seq(ShellCalls) /\ ClearReady(shell', screen'.iStart)
    BY <1>1, <1>2, <1>9, ClearReadyTail DEF call
  <2> QED BY <1>3, <2>1, <2>2, <2>3, ScreenKept
<1> QED BY <1>4, <1>7, <1>8, <1>9

\* One thread less.
LEMMA ThreadRemoved ==
    ASSUME NEW S, NEW s \in Seq(S), NEW t \in 1..Len(s)
    PROVE  RemoveAt(s, t) \in Seq(S)
<1>1. t - 1 \in 0..Len(s) /\ t + 1 \in 1..(Len(s) + 1) /\ Len(s) \in Nat
  OBVIOUS
<1>2. SubSeq(s, 1, t - 1) \in Seq(S)
  BY <1>1, SubSeqProperties
<1>3. SubSeq(s, t + 1, Len(s)) \in Seq(S)
  BY <1>1, SubSeqProperties
<1> QED BY <1>2, <1>3 DEF RemoveAt

\* A system call of a thread keeps the invariant.
LEMMA ThreadCallKeeps ==
    ASSUME ConsoleInv, NEW t \in 1..Len(threads), ThreadCall(t)
    PROVE  ConsoleInv'
<1> DEFINE call == Head(threads[t])
           rest == Tail(threads[t])
<1>1. /\ IsScreen(screen) /\ HeaderBlank(screen)
      /\ ClearReady(shell, screen.iStart)
      /\ threads \in Seq(ThreadScripts)
      /\ shell \in Seq(ShellCalls)
      /\ cleared = "no" => Inside(screen)
  BY DEF ConsoleInv, ConsoleTypes
<1>2. /\ screen' = Effect(call) /\ shell' = shell
      /\ threads' = IF rest = <<>> THEN RemoveAt(threads, t)
                    ELSE [threads EXCEPT ![t] = rest]
      /\ cleared' = IF call = "clear" /\ screen.iStart # 0 THEN "yes" ELSE cleared
  BY DEF ThreadCall
<1>3. /\ threads[t] \in Seq(ThreadCalls) /\ threads[t] # <<>>
      /\ call \in ThreadCalls /\ rest \in Seq(ThreadCalls)
  BY <1>1 DEF ThreadScripts
<1> HIDE DEF call, rest
<1>4. threads' \in Seq(ThreadScripts)
  <2>1. RemoveAt(threads, t) \in Seq(ThreadScripts)
    BY <1>1, ThreadRemoved
  <2>2. rest # <<>> => rest \in ThreadScripts
    BY <1>3 DEF ThreadScripts
  <2>3. rest # <<>> => [threads EXCEPT ![t] = rest] \in Seq(ThreadScripts)
    BY <1>1, <2>2
  <2> QED BY <1>2, <2>1, <2>3
<1>5. CASE call = "clear"
  <2>1. screen' = clearC(screen)
    BY <1>2, <1>5, EffectOf
  <2>2. /\ IsScreen(screen') /\ HeaderBlank(screen')
        /\ screen'.iStart = screen.iStart
        /\ screen.iStart = 0 => Inside(screen')
    BY <1>1, <2>1, ClearKeeps
  <2>3. cleared' \in {"no", "yes"} /\ (cleared' = "no" => Inside(screen'))
    BY <1>2, <1>5, <2>2 DEF ConsoleInv, ConsoleTypes
  <2> QED BY <1>1, <1>2, <1>4, <2>2, <2>3 DEF ConsoleInv, ConsoleTypes
<1>6. CASE call # "clear"
  <2>1. call \notin {"clear", "shellEnv", "userEnv"}
    BY <1>3, <1>6 DEF ThreadCalls
  <2>2. Keeps(screen, screen')
    BY <1>1, <1>2, <2>1, EffectOf, KeptSame, WriteKeeps
  <2>3. ClearReady(shell', screen'.iStart) /\ cleared' = cleared
    BY <1>1, <1>2, <1>6, <2>2 DEF Keeps
  <2> QED BY <1>1, <1>2, <1>4, <2>2, <2>3, ScreenKept
<1> QED BY <1>5, <1>6

\* The inductive invariant of the console.
THEOREM ConsoleInvariance == ConsoleSpec => []ConsoleInv
<1>1. ConsoleInit => ConsoleInv
  BY InitConsole
<1>2. ConsoleInv /\ [ConsoleNext]_allVars => ConsoleInv'
  <2> SUFFICES ASSUME ConsoleInv, [ConsoleNext]_allVars PROVE ConsoleInv'
    OBVIOUS
  <2>1. CASE UNCHANGED allVars
    BY <2>1 DEF allVars, shellVars, historyVars, ConsoleInv, ConsoleTypes
  <2>2. CASE ConsoleNext
    BY <2>2, PressKeyKeeps, RestartKeeps, ScanKeeps, ShellCallKeeps, RunKeeps,
       KillShellKeeps, ThreadCallKeeps DEF ConsoleNext
  <2> QED BY <2>1, <2>2
<1> QED BY <1>1, <1>2, PTL DEF ConsoleSpec

\* The cursor is on the screen and in the columns of the region, however keys,
\* the shell and its threads alternate, unless a thread has cleared the screen
\* behind a prompt (clear puts it into column 0, left of the region).
THEOREM CursorStaysInRegion == ConsoleSpec => []CursorInRegion
<1>1. ConsoleInv => CursorInRegion
  BY ScreenAssumption
     DEF ConsoleInv, ConsoleTypes, IsScreen, Inside, CursorInRegion, Top
<1> QED BY <1>1, ConsoleInvariance, PTL

\* What is typed and printed, scrolling and clear never reach the rows of the
\* clock; a cursor that has left its region does not either.
THEOREM HeaderIsKept == ConsoleSpec => []HeaderKept
<1>1. ConsoleInv => HeaderKept
  BY DEF ConsoleInv, HeaderBlank, HeaderKept
<1> QED BY <1>1, ConsoleInvariance, PTL

=============================================================================
