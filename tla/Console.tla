------------------------------- MODULE Console -------------------------------
(***************************************************************************)
(* The shell's command line: the keyboard interrupt, which puts characters *)
(* into the terminal's buffer (module Terminal) and echoes them on the     *)
(* screen (module Screen), the shell (Userland/SHELL), which reads them in *)
(* scanFF, and the threads that commands with & start.  Each system call   *)
(* is one step, each key is one; between them anybody may come.            *)
(*                                                                         *)
(* A program is the sequence of the system calls it has still to make.     *)
(* Which command a line names is left open, and a message is one character *)
(* and a line feed; of the processes that kill removes only the shell is   *)
(* seen here.                                                              *)
(***************************************************************************)
EXTENDS Terminal, Screen, SequencesExt

CONSTANTS
    Prompt,       \* the characters of "shell>"
    ScanSize,     \* BUFFERSIZE of Userland/SHELL/stdio.c
    Foreground,   \* the commands that are typed
    Background,   \* those that are typed with an & in front
    MaxThreads,   \* the threads a process has room for besides its first
    MaxKeys       \* bound on the keys pressed

\* The system calls of the model besides the characters that are printed, and
\* the lines that are commands, without and with &.
Calls == {"newline", "clear", "shellEnv", "userEnv", "echoOn", "echoOff",
          "run", "kill", "while1", "ended"}
Commands == {"help", "man", "ls", "ps", "error", "clear", "echo on", "echo off",
             "./noProgram", "./program", "while1", "kill"}
AsyncCommands == {"&help", "&man", "&ls", "&ps", "&error", "&clear", "&echo on",
                  "&echo off", "&./noProgram", "&./program", "&while1",
                  "&kill"}

ASSUME ConsoleAssumption ==
    /\ ScanSize \in Nat /\ MaxThreads \in Nat /\ MaxKeys \in Nat
    /\ Prompt \in Seq(Range(Prompt)) /\ Range(Prompt) \cap Calls = {}
    /\ Len(Prompt) < WIDTH - 1
    /\ Foreground \subseteq Commands /\ Background \subseteq AsyncCommands

VARIABLES
    screen,       \* the screen of video.c
    isEcho,
    shell,        \* the calls the shell has to make; it is in scanFF when none
    line,         \* what scanFF has stored
    threads,      \* the calls of each thread that & has started
    keys,         \* history: the keys pressed
    quiet,        \* history: since the prompt nobody else has printed, the echo
                  \* was on and the line has not left its row
    cleared       \* history: a thread has cleared the screen behind a prompt

shellVars == <<shell, line, threads>>
historyVars == <<keys, quiet, cleared>>
allVars == <<vars, screen, isEcho, shellVars, historyVars>>

PromptWidth == Len(Prompt)
shellRow == 4

\* What main does before it reads a line.
Ask == <<"newline", "shellEnv">> \o Prompt \o <<"userEnv">>

\* A message printed with printFF and putchar: one character stands for all.
Message == <<"o", "newline">>

\* What a command does, in the shell or in a thread of its own.
Script(c) ==
    CASE c \in {"help", "man", "ls", "ps", "error"} -> Message
      [] c \in {"&help", "&man", "&ls", "&ps", "&error"} -> Message
      [] c \in {"clear", "&clear"} -> <<"clear">>
      [] c \in {"echo on", "&echo on"} -> <<"echoOn">>
      [] c \in {"echo off", "&echo off"} -> <<"echoOff">>
      [] c \in {"./noProgram", "&./noProgram"} -> Message \o <<"echoOn">>
      [] c \in {"./program", "&./program"} -> <<"run">>
      [] c \in {"while1", "&while1"} -> <<"while1">>
      [] c \in {"kill", "&kill"} -> <<"kill">>

\* The shell carries out a command, or asks for a thread that does; a program,
\* and what is no command, it does not leave to a thread.
parser(c) == Script(c)
asyncParser(c) == IF c \in {"&./program", "&./noProgram", "&error"}
                  THEN Script(c) ELSE <<c>>

\* What main does when scanFF returns 1.
Overflow == <<"newline", "o">>

ConsoleInit ==
    /\ Init
    /\ screen = Blank
    /\ isEcho = TRUE
    /\ shell = Ask
    /\ line = <<>>
    /\ threads = <<>>
    /\ keys = 0
    /\ quiet = "no"
    /\ cleared = "no"

-----------------------------------------------------------------------------
(***************************************************************************)
(* The keyboard interrupt.                                                 *)
(***************************************************************************)

Typed(k) == k \notin {"newline", "backspace"}

PressKey(k) ==
    /\ keys < MaxKeys
    /\ keys' = keys + 1
    /\ Key(k)
    /\ screen' = IF isBufferFull THEN screen ELSE echo(screen, k, isEcho)
    /\ quiet' = IF shell # <<>> \/ (Typed(k) /\ screen.i = WIDTH - 1)
                THEN "no" ELSE quiet
    /\ UNCHANGED <<isEcho, shellVars, cleared>>

\* Shift+F1: restartSHELL.
Restart ==
    /\ keys < MaxKeys
    /\ keys' = keys + 1
    /\ Reset
    /\ shell' = Ask
    /\ line' = <<>>
    /\ threads' = <<>>
    /\ quiet' = "no"
    /\ UNCHANGED <<screen, isEcho, cleared>>

-----------------------------------------------------------------------------
(***************************************************************************)
(* scanFF("%s"), one getchar at a time, and the parser.                    *)
(***************************************************************************)

\* Mutant: a backspace is stored like any other character.
StoredAll(l, c) == Append(l, c)

\* The line after one more character.
Stored(l, c) ==
    IF c # "backspace" THEN Append(l, c)
    ELSE IF l = <<>> THEN l
    ELSE SubSeq(l, 1, Len(l) - 1)

\* Character or end of line: scanFF also ends, without it, at a character for
\* which there is no room.
Ends(c) == c = "newline" \/ (Typed(c) /\ Len(line) = ScanSize)

Scan ==
    /\ shell = <<>>
    /\ Contents # <<>>
    /\ Read(1)
    /\ LET c == Contents[1][1] IN
       IF ~Ends(c)
       THEN line' = Stored(line, c) /\ shell' = shell
       ELSE /\ line' = <<>>
            /\ IF Len(line) = ScanSize
               THEN shell' = Overflow \o Ask
               ELSE \/ \E f \in Foreground :
                          shell' = <<"shellEnv">> \o parser(f) \o Ask
                    \/ \E b \in Background :
                          shell' = <<"shellEnv">> \o asyncParser(b) \o Ask
    /\ UNCHANGED <<screen, isEcho, threads, historyVars>>

-----------------------------------------------------------------------------
(***************************************************************************)
(* The system calls of the shell and of its threads.                       *)
(***************************************************************************)

Effect(call) ==
    CASE call = "clear" -> clearC(screen)
      [] call = "shellEnv" -> changeStartModule(screen, 0, shellRow)
      [] call = "userEnv" -> changeStartModule(screen, PromptWidth, shellRow)
      [] call \in {"echoOn", "echoOff", "kill"} \cup Background -> screen
      [] OTHER -> writeC(screen, call)

EchoAfter(call) ==
    IF call = "echoOn" THEN TRUE ELSE IF call = "echoOff" THEN FALSE ELSE isEcho

\* createThread: without a place for it the thread is not started.
ThreadsAfter(call) ==
    IF call \in Background /\ Len(threads) < MaxThreads
    THEN Append(threads, Script(call)) ELSE threads

ShellCall ==
    /\ shell # <<>>
    /\ LET call == Head(shell) IN
       /\ call \notin {"run", "while1", "ended"}
       /\ screen' = Effect(call)
       /\ isEcho' = EchoAfter(call)
       /\ threads' = ThreadsAfter(call)
       /\ shell' = Tail(shell)
       /\ quiet' = IF call = "newline" /\ Tail(shell) = Tail(Ask)
                   THEN IF Contents = <<>> /\ isEcho THEN "yes" ELSE "no"
                   ELSE quiet
       /\ cleared' = IF call \in {"shellEnv", "userEnv"} THEN "no" ELSE cleared
    /\ UNCHANGED <<vars, line, keys>>

\* sys_call_runC: the terminal's buffer is emptied, the program takes the place
\* of the shell and of its threads.
Run ==
    /\ shell # <<>> /\ Head(shell) = "run"
    /\ Reset
    /\ shell' = <<"ended">>
    /\ threads' = <<>>
    /\ UNCHANGED <<screen, isEcho, line, historyVars>>

\* sys_call_kill of the shell's own pid: it goes, and its threads with it.  The
\* kill of another process is a call like the others.
KillShell ==
    /\ \/ shell # <<>> /\ Head(shell) = "kill"
       \/ \E t \in 1..Len(threads) : Head(threads[t]) = "kill"
    /\ shell' = <<"ended">>
    /\ threads' = <<>>
    /\ UNCHANGED <<vars, screen, isEcho, line, historyVars>>

ThreadCall(t) ==
    /\ LET call == Head(threads[t])
           rest == Tail(threads[t]) IN
       /\ call # "while1"
       /\ screen' = Effect(call)
       /\ isEcho' = EchoAfter(call)
       /\ threads' = IF rest = <<>> THEN RemoveAt(threads, t)
                     ELSE [threads EXCEPT ![t] = rest]
       /\ cleared' = IF call = "clear" /\ screen.iStart # 0 THEN "yes" ELSE cleared
    /\ quiet' = "no"
    /\ UNCHANGED <<vars, shell, line, keys>>

ConsoleNext ==
    \/ \E k \in Keys : PressKey(k)
    \/ Restart
    \/ Scan
    \/ ShellCall
    \/ Run
    \/ KillShell
    \/ \E t \in 1..Len(threads) : ThreadCall(t)

ConsoleSpec == ConsoleInit /\ [][ConsoleNext]_allVars

-----------------------------------------------------------------------------
(***************************************************************************)
(* Properties.                                                             *)
(***************************************************************************)

\* The type invariant of the screen: the cursor stays on it, and in the columns
\* of the region, unless a thread has cleared the screen behind a prompt.
CursorInRegion ==
    cleared = "no" => /\ screen.i \in screen.iStart..(WIDTH - 1)
                      /\ screen.j \in Top..(HEIGHT - 1)

\* Nothing that is typed or printed, no scrolling and no clear reaches the rows
\* of the clock.
HeaderKept == \A f \in 0..(Top - 1) : screen.video[f] = BlankRow

\* The row that ends at the cursor, and blanks behind it.
Shown(text) ==
    /\ screen.i = Len(text)
    /\ screen.video[screen.j] =
          [c \in Columns |-> IF c < Len(text) THEN text[c + 1] ELSE " "]

\* What the user sees is what the shell will get: behind the prompt stands the
\* line that scanFF returns when it has read what is still in the buffer, with
\* the same characters taken back by the interrupt on the screen and by scanFF
\* in its array, however the two are interleaved.
LineShown ==
    LET pending == [n \in DOMAIN Contents |-> Contents[n][1]]
    IN  shell = <<>> /\ quiet = "yes" /\ ~Contains(pending, "newline")
            => Shown(Prompt \o FoldLeft(Stored, line, pending))
=============================================================================
