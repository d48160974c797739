-------------------------------- MODULE Shell --------------------------------
(***************************************************************************)
(* A1/Q1/myshell.cpp: a shell with built-in commands, batch files, a       *)
(* history file that outlives it, and programs that it runs.  A batch file *)
(* may run others, and itself: each is a frame of the stack.  All commands *)
(* share one vector of arguments, userArgs, which each line refills.       *)
(*                                                                         *)
(* A command line is a record of its command and its arguments; <<>> as an *)
(* argument vector leaves userArgs[0] to what the memory holds: nothing,   *)
(* and the shell dies, or the first argument of an earlier command.        *)
(***************************************************************************)
EXTENDS Integers, Sequences, FiniteSets, SequencesExt

CONSTANTS Lines,     \* command lines that are typed
          Files,     \* the batch files: functions of a name to its lines
          Dirs, Home,  \* directories; the files are in Home
          Nothing,   \* no argument; what is left of one that was overwritten
          MaxDepth,  \* batch files inside each other that the stack has room for
          Limits,    \* what the system may allow in a life: a number of files that
                     \*   may be open, and whether the history can be written to
          MaxTyped,  \* bound: lines the user types
          MaxLives   \* bound: how often the shell is started

CommandLines == Lines \union UNION {Range(Files[name]) : name \in DOMAIN Files}
Arguments == UNION {Range(l.args) : l \in CommandLines}

ASSUME ShellAssumption ==
  /\ Home \in Dirs /\ Nothing \notin DOMAIN Files \union Dirs \union Arguments
  /\ \A name \in DOMAIN Files : Files[name] \in Seq(CommandLines)
  /\ \A l \in CommandLines : l.args \in Seq(Arguments)
  /\ {MaxDepth, MaxTyped, MaxLives} \subseteq Nat
  /\ Limits \subseteq [files : Nat, writable : SUBSET BOOLEAN]

VARIABLES at,        \* where the shell is; how it ended
          stack,     \* the batch files being executed: their names and the lines left
          batch,     \* whether it was started with a batch file
          line, userArgs,  \* the current line, and its arguments
          first,     \* what is where userArgs[0] is, or was
          cwd, PWD,  \* the working directory, and what the environment says it is
          eof,       \* cin has met the end of the input
          limit,     \* of this life; each batch file of the stack is one open file
          history,   \* the history file: the lines, each with its number
          typed, lives,  \* how often a line was typed, the shell was started
          number,    \* history: of the last line read;
          executed,  \* of those executed;
          lost       \* of those that could not be written to the history file

vars == <<at, stack, batch, line, userArgs, first, cwd, PWD, eof, limit, history, typed, lives,
          number, executed, lost>>
bounds == <<typed, lives>>
directory == <<cwd, PWD>>
recorded == <<limit, history, lost>>
arguments == <<line, userArgs, first>>

Ended == {"exited", "crashed", "killed"}
Empty == ""
Blank == [command |-> Empty, args |-> <<>>]

Init == /\ at = "exited"
        /\ stack = <<>> /\ batch = FALSE
        /\ line = Blank /\ userArgs = <<>> /\ first = Nothing
        /\ cwd = Home /\ PWD = Home
        /\ eof = FALSE
        /\ limit = [files |-> 0, writable |-> {}] /\ history = <<>> /\ lost = {}
        /\ typed = 0 /\ lives = 0
        /\ number = 0 /\ executed = {}

Goes(from, to) == at = from /\ at' = to

-----------------------------------------------------------------------------
(* executeBatchFile: realpath looks the name up in the current directory.  *)
Frame(name) == [of |-> name, lines |-> Files[name]]
Found(name) == name \in DOMAIN Files /\ cwd = Home

(* main, from Home.  Where argv[0] is no path from here, its realpath is  *)
(* null and the shell dies, whatever the arguments.  With none it goes to  *)
(* its prompt; with the name of a batch file it executes that, and ends at *)
(* once if there is no such file, or it cannot be opened; as it does with  *)
(* more arguments.                                                         *)
Start == /\ at \in Ended /\ lives < MaxLives /\ lives' = lives + 1
         /\ limit' \in Limits
         /\ \/ batch' = FALSE /\ stack' = <<>> /\ at' \in {"next", "crashed"}
            \/ batch' = TRUE /\ stack' = <<>> /\ at' \in {"exited", "crashed"}
            \/ /\ batch' = TRUE /\ limit'.files > 0 /\ at' = "next"
               /\ \E name \in DOMAIN Files : stack' = <<Frame(name)>>
         /\ line' = Blank /\ userArgs' = <<>> /\ first' = Nothing
         /\ cwd' = Home /\ PWD' = Home
         /\ eof' = FALSE
         /\ UNCHANGED <<history, typed, number, executed, lost>>

(* A signal; while it pauses the shell ignores all that can be ignored.    *)
Kill == /\ at \notin Ended /\ lives < MaxLives
        /\ at' = "killed"
        /\ UNCHANGED <<stack, batch, arguments, directory, eof, recorded, bounds, number, executed>>

-----------------------------------------------------------------------------
(* The arguments are cleared, their memory is kept.                        *)
parseCommand(l) == /\ line' = l
                   /\ userArgs' = l.args
                   /\ first' = IF l.args = <<>> THEN first ELSE l.args[1]

Reads(l) == /\ at' = IF l.command = Empty THEN "next" ELSE "record"
            /\ number' = number + 1
            /\ parseCommand(l)
            /\ UNCHANGED <<batch, directory, recorded, executed>>

(* The next line: of the innermost batch file, or from the user.           *)
ReadsBatch(rest) == /\ at = "next" /\ stack # <<>> /\ Last(stack).lines # <<>>
                    /\ stack' = [stack EXCEPT ![Len(stack)].lines = rest]
                    /\ Reads(Head(Last(stack).lines))
                    /\ UNCHANGED <<eof, bounds>>

(* As ReadBatch, a line left to be read again.                             *)
ReadBatchAgain == ReadsBatch(Last(stack).lines)

ReadBatch == ReadsBatch(Tail(Last(stack).lines))

EndsBatch(rest) == /\ stack # <<>> /\ Last(stack).lines = <<>>
                   /\ stack' = rest
                   /\ Goes("next", IF rest = <<>> /\ batch THEN "exited" ELSE "next")
                   /\ UNCHANGED <<batch, arguments, directory, eof, recorded, bounds, number, executed>>

(* As EndBatch, the loop not left at the end of the file.                  *)
EndBatchStays == EndsBatch(stack)

EndBatch == EndsBatch(Front(stack))

Type(l) == /\ at = "next" /\ stack = <<>> /\ ~eof
           /\ typed < MaxTyped /\ typed' = typed + 1
           /\ Reads(l)
           /\ UNCHANGED <<stack, eof, lives>>

(* The user ends the input, at the prompt or before.                       *)
EndInput == /\ at \notin Ended /\ ~eof /\ eof' = TRUE
            /\ UNCHANGED <<at, stack, batch, arguments, directory, recorded, bounds, number, executed>>

LeaveAtEof == /\ eof /\ stack = <<>> /\ Goes("next", "exited")
              /\ UNCHANGED <<stack, batch, arguments, directory, eof, recorded, bounds, number, executed>>

(* updateHistory, before the line is executed.  Nobody asks whether the    *)
(* file could be opened and written: it cannot where the directory does    *)
(* not allow it, nor when the batch files are all the process may open.    *)
Records(lines) == /\ Goes("record", "execute")
                  /\ \/ /\ TRUE \in limit.writable /\ Len(stack) < limit.files
                        /\ history' = lines /\ UNCHANGED lost
                     \/ /\ FALSE \in limit.writable \/ Len(stack) >= limit.files
                        /\ lost' = lost \union {number} /\ UNCHANGED history
                  /\ UNCHANGED <<stack, batch, arguments, directory, eof, limit, bounds, number, executed>>

(* As updateHistory, the file opened for writing and not for appending.    *)
updateHistoryOver == Records(<<number>>)

updateHistory == Records(Append(history, number))

-----------------------------------------------------------------------------
(* A command that leads to the point to.                                   *)
Executes(commands, to) == /\ line.command \in commands
                          /\ Goes("execute", to)
                          /\ executed' = executed \union {number}
                          /\ UNCHANGED <<batch, arguments, eof, recorded, bounds, number>>

(* clr, help, history, environ, echo, pwd; and dir, when it has one        *)
(* argument, too many, or one left by an earlier command, which it finds   *)
(* out is not its own.                                                     *)
Display == /\ Executes({"echo", "dir"}, "next")
           /\ line.command = "dir" => userArgs # <<>> \/ first # Nothing
           /\ UNCHANGED <<stack, directory>>

(* userArgs[0] of a vector that never had an element.                      *)
NoArgument == /\ Executes({"dir", "myshell"}, "crashed")
              /\ userArgs = <<>> /\ first = Nothing
              /\ UNCHANGED <<stack, directory>>

quitShell == Executes({"quit"}, "exited") /\ UNCHANGED <<stack, directory>>

executePause == Executes({"pause"}, "paused") /\ UNCHANGED <<stack, directory>>

(* Enter; at the end of the input cin.get returns no newline any more.     *)
Enter == /\ ~eof /\ Goes("paused", "next")
         /\ UNCHANGED <<stack, batch, arguments, directory, eof, recorded, bounds, number, executed>>

(* cd: without an argument it reports, with two it complains; otherwise it *)
(* goes to a directory there is, unless chdir fails.                       *)
changeDirectory == /\ Executes({"cd"}, "next")
                   /\ \/ UNCHANGED directory
                      \/ /\ Len(userArgs) = 1 /\ userArgs[1] \in Dirs
                         /\ cwd' = userArgs[1] /\ PWD' = userArgs[1]
                   /\ UNCHANGED stack

(* fork, execvp, wait: the shell goes on when the program has ended, or    *)
(* could not be started.                                                   *)
executeProg == /\ \E to \in {"next", "waiting"} : Executes({"program"}, to)
               /\ UNCHANGED <<stack, directory>>

ProgramEnds == /\ Goes("waiting", "next")
               /\ UNCHANGED <<stack, batch, arguments, directory, eof, recorded, bounds, number, executed>>

(* myshell: at most one argument; the memory of an earlier one if none, as *)
(* far as it is still intact.  A file that cannot be opened, because those *)
(* that lead to it are all the process may open, is one without lines.     *)
Target == IF userArgs # <<>> THEN {userArgs[1]} ELSE {first, Nothing}

executeMyshell ==
  /\ userArgs # <<>> \/ first # Nothing
  /\ UNCHANGED directory
  /\ \/ Executes({"myshell"}, "next") /\ Len(userArgs) > 1 /\ UNCHANGED stack
     \/ /\ Len(userArgs) <= 1
        /\ \E name \in Target :
             \/ ~Found(name) /\ Executes({"myshell"}, "next") /\ UNCHANGED stack
             \/ /\ Found(name) /\ Len(stack) < MaxDepth /\ Len(stack) < limit.files
                /\ Executes({"myshell"}, "next")
                /\ stack' = Append(stack, Frame(name))
             \/ /\ Found(name) /\ Len(stack) < MaxDepth /\ Len(stack) >= limit.files
                /\ Executes({"myshell"}, "next") /\ UNCHANGED stack
             \/ /\ Found(name) /\ Len(stack) = MaxDepth
                /\ Executes({"myshell"}, "crashed") /\ UNCHANGED stack

shell == \/ ReadBatch \/ EndBatch \/ LeaveAtEof \/ updateHistory
         \/ Display \/ NoArgument \/ quitShell \/ executePause
         \/ changeDirectory \/ executeProg \/ executeMyshell

Next == \/ Start \/ Kill \/ EndInput \/ Enter \/ ProgramEnds \/ shell
        \/ \E l \in Lines : Type(l)

Spec == Init /\ [][Next]_vars

(* The shell runs; the user need not type, nor a program end.              *)
FairSpec == Spec /\ WF_vars(shell)

-----------------------------------------------------------------------------
(* The history file lists the lines in the order in which they were read,  *)
(* across all lives of the shell and all batch files.  Every line that was *)
(* executed is in it, but for those that were executed while the file      *)
(* could not be opened or written: it was not writable, or the batch files *)
(* inside each other were all the process may open.  Of the lines that     *)
(* were not executed only the one about to be is in it, or was lost in     *)
(* this way, and for each life that was cut off the one it was about to.   *)
HistoryComplete ==
  /\ \A k \in 1..Len(history) - 1 : history[k] < history[k + 1]
  /\ executed \subseteq Range(history) \union lost
  /\ Cardinality((Range(history) \union lost) \ executed) <= lives

(* What help says of history: it lists the commands executed, "even on     *)
(* shell restart".  This holds only where the file can be written and the  *)
(* process may open more files than the stack has room for: elsewhere a    *)
(* file that runs itself opens itself until it may open no more, and what  *)
(* it executes there is in no history file.                                *)
ListsExecuted == executed \subseteq Range(history)

(* A batch file is only run by one that stands at a line which names it,   *)
(* or names nothing; so that only files that call themselves in one of     *)
(* these ways fill the stack, and the shell dies of nothing else - unless  *)
(* a line needs an argument and no line of this life had one: then no file *)
(* is being executed, but perhaps the one it was started with.             *)
Done(frame) == SubSeq(Files[frame.of], 1, Len(Files[frame.of]) - Len(frame.lines))

CrashHasCause ==
  /\ \A k \in 1..Len(stack) - 1 :
       LET done == Done(stack[k]) IN
       /\ done # <<>> /\ Last(done).command = "myshell"
       /\ Last(done).args \in {<<>>, <<stack[k + 1].of>>}
  /\ at = "crashed" /\ Len(stack) < MaxDepth =>
       /\ line.command \in {Empty, "dir", "myshell"}
       /\ stack # <<>> => /\ batch /\ Len(stack) = 1
                          /\ \A k \in DOMAIN Done(stack[1]) : Done(stack[1])[k].args = <<>>

(* A line that is typed, and whatever batch files it leads to, comes to an *)
(* end: the shell is at its prompt again, or has ended, or waits for a     *)
(* program, or for Enter - for ever, when the input has ended before.      *)
Settled == \/ at \in Ended \union {"waiting", "paused"}
           \/ at = "next" /\ stack = <<>>
LineEnds == at = "record" ~> Settled
=============================================================================
