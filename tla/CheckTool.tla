------------------------------ MODULE CheckTool ------------------------------
(***************************************************************************)
(* The programs checkisomd5 and checkisosha: main(), which runs the media  *)
(* check of MediaCheck with outputCB() as its callback, and the user, who  *)
(* types while it runs.  outputCB() prints the progress and looks at the   *)
(* keyboard; what it answers is what the check does next.                  *)
(***************************************************************************)
EXTENDS MediaCheck

CONSTANTS
  Options,   \* the command lines: records of what the options ask for
  Platforms, \* the builds: "unix", "windows"
  MaxKeys    \* how many keys the user types at most

VARIABLES
  platform,    \* the build
  options,     \* what the command line asks for
  main,        \* where main() is
  status,      \* what the last library call, or the command line, came to
  exit_status, \* the exit status of the process
  gaugeat,     \* the percentage printed last
  \* the terminal
  terminal,    \* "cooked", or "raw" when keys are to be read at once
  tty,         \* the keys that the kernel has and no read() took
  stdin,       \* the keys that stdio has and getchar() did not return
  typed,       \* how many keys were typed
  escaped,     \* whether Esc was one of them
  \* history
  correct      \* whether there is a checksum on the medium that is correct

command == <<platform, options>>

keyboard == <<tty, stdin>>

user == <<typed, escaped, correct>>

toolvars == <<vars, command, main, status, exit_status, gaugeat, terminal, keyboard, user>>

ASSUME ToolAssumption ==
  /\ HasCallback
  /\ Options \subseteq [bad : BOOLEAN, help : BOOLEAN, md5sumonly : BOOLEAN,
                        verbose : BOOLEAN, gauge : BOOLEAN]
  /\ Platforms \subseteq {"unix", "windows"}
  /\ MaxKeys \in Nat

NotExited == 3

ToolInit ==
  /\ Init
  /\ platform \in Platforms
  /\ options \in Options
  /\ main = "options"
  /\ status = "none"
  /\ exit_status = NotExited
  /\ gaugeat = 0
  /\ terminal = "cooked"
  /\ tty = <<>>
  /\ stdin = <<>>
  /\ typed = 0
  /\ escaped = FALSE
  /\ correct = (HasVolumeInfo(image, unreadable) /\ ChecksumIsCorrect)

-----------------------------------------------------------------------------
(* The callback.                                                           *)

INT_MIN == -2147483647 - 1

\* What (int) pct may be for an offset and a total.  Only the top is capped:
\* for a volume shorter than the skipped sectors the total is negative, and
\* 0 of 0 is a NaN whose conversion is undefined.  (Mutant first: the cap is
\* forgotten.)
GaugeValues_Uncapped(told, total) ==
  IF total > 0 THEN {(100 * told) \div total} ELSE {0}

GaugeValues(told, total) ==
  IF total > 0 THEN {MIN(100, (100 * told) \div total)}
  ELSE IF total < 0 THEN {-((100 * told) \div (-total))}
  ELSE IF told > 0 THEN {100} ELSE {0, INT_MIN}

\* A number is printed when it is another than the one before.  (Mutant
\* first: another option decides.)
PrintGauge_Verbose(told, total) ==
  IF options.verbose THEN gaugeat' \in GaugeValues(told, total) ELSE UNCHANGED gaugeat

PrintGauge(told, total) ==
  IF options.gauge THEN gaugeat' \in GaugeValues(told, total) ELSE UNCHANGED gaugeat

\* Mutants: any key aborts; the key is looked at but not taken.
UserBailingOut_AnyKey(answer) ==
  /\ answer = (tty # <<>>)
  /\ tty' = <<>>
  /\ UNCHANGED stdin

UserBailingOut_Peeks(answer) ==
  /\ answer = (tty # <<>> /\ Head(tty) = "Esc")
  /\ UNCHANGED keyboard

\* user_bailing_out().  select() tells whether the kernel has a key, but
\* getchar() takes one from stdio, which reads all that the kernel has when
\* it has none itself.  _kbhit() and _getch() look at the same keys.  (An
\* input that is closed is as one without keys: getchar() returns EOF, which
\* is not Esc.  That select() itself fails is not modelled.)
UserBailingOut(answer) ==
  \/ /\ tty = <<>>
     /\ answer = FALSE
     /\ UNCHANGED keyboard
  \/ /\ tty # <<>>
     /\ platform = "windows"
     /\ answer = (Head(tty) = "Esc")
     /\ tty' = Tail(tty)
     /\ UNCHANGED stdin
  \/ /\ tty # <<>>
     /\ platform = "unix"
     /\ stdin = <<>>
     /\ answer = (Head(tty) = "Esc")
     /\ stdin' = Tail(tty)
     /\ tty' = <<>>
  \/ /\ tty # <<>>
     /\ platform = "unix"
     /\ stdin # <<>>
     /\ answer = (Head(stdin) = "Esc")
     /\ stdin' = Tail(stdin)
     /\ UNCHANGED tty

outputCB(told, answer) ==
  PrintGauge(told, total_size') /\ UserBailingOut(answer)

-----------------------------------------------------------------------------
(* main().                                                                 *)

Finish(result) == main' = "exit" /\ status' = result

\* A bad option, no file, or --help.
ShowUsage ==
  /\ main = "options"
  /\ options.bad \/ options.help
  /\ Finish(IF options.bad THEN "usage" ELSE "help")
  /\ UNCHANGED <<vars, command, exit_status, gaugeat, terminal, keyboard, user>>

ReadOptions ==
  /\ main = "options"
  /\ ~options.bad /\ ~options.help
  /\ main' = IF options.md5sumonly \/ options.verbose THEN "print" ELSE "terminal"
  /\ UNCHANGED <<vars, command, status, exit_status, gaugeat, terminal, keyboard, user>>

\* printMD5SUM() opens and parses the file by itself.
PrintMD5SUM ==
  /\ main = "print"
  /\ \/ Finish("FILE_NOT_FOUND")
     \/ ~HasVolumeInfo(image, unreadable) /\ Finish("CHECK_NOT_FOUND")
     \/ HasVolumeInfo(image, unreadable) /\ options.md5sumonly /\ Finish("printed")
     \/ /\ HasVolumeInfo(image, unreadable)
        /\ ~options.md5sumonly
        /\ main' = "terminal"
        /\ UNCHANGED status
  /\ UNCHANGED <<vars, command, exit_status, gaugeat, terminal, keyboard, user>>

\* tcsetattr() switches to single keys without echo.  _kbhit() needs none of it.
SetTerminal ==
  /\ main = "terminal"
  /\ terminal' = IF platform = "unix" THEN "raw" ELSE terminal
  /\ main' = "check"
  /\ UNCHANGED <<vars, command, status, exit_status, gaugeat, keyboard, user>>

\* A step of mediaCheckFile() in which it calls nobody.
CheckOn ==
  /\ main = "check"
  /\ \/ FileNotFound
     \/ NotFound
     \/ ReadBlock
     \/ StopReading
     \/ AllRead
  /\ UNCHANGED <<command, main, status, exit_status, gaugeat, terminal, keyboard, user>>

\* A step in which it calls outputCB() and heeds, or not, its answer.
CheckCalls ==
  /\ main = "check"
  /\ \E answer \in BOOLEAN :
       \/ /\ Rewind
          /\ bail' = answer
          /\ outputCB(0, answer)
       \/ /\ CallBack
          /\ (rc' = "CHECK_ABORTED") = answer
          /\ outputCB(offset, answer)
       \/ /\ Conclude
          /\ bail' = (bail \/ answer)
          /\ outputCB(info.isosize, answer)
  /\ UNCHANGED <<command, main, status, exit_status, terminal, user>>

\* Mutant: the terminal is left as it is if the check is aborted.
CheckReturns_Raw ==
  /\ main = "check"
  /\ pc = "done"
  /\ terminal' = IF rc = "CHECK_ABORTED" THEN terminal ELSE "cooked"
  /\ Finish(rc)
  /\ UNCHANGED <<vars, command, exit_status, gaugeat, keyboard, user>>

\* mediaCheckFile() returns and the terminal is as before again.
CheckReturns ==
  /\ main = "check"
  /\ pc = "done"
  /\ terminal' = "cooked"
  /\ Finish(rc)
  /\ UNCHANGED <<vars, command, exit_status, gaugeat, keyboard, user>>

\* Mutant: the process ends with the status itself, -1 for no checksum.
processExitStatus_Status(result) ==
  CASE result \in {"CHECK_PASSED", "printed", "help"} -> 0
    [] result = "CHECK_ABORTED" -> 2
    [] result = "CHECK_NOT_FOUND" -> 255
    [] OTHER -> 1

processExitStatus(result) ==
  CASE result \in {"CHECK_PASSED", "printed", "help"} -> 0
    [] result = "CHECK_ABORTED" -> 2
    [] OTHER -> 1

Exit ==
  /\ main = "exit"
  /\ exit_status' = processExitStatus(status)
  /\ main' = "done"
  /\ UNCHANGED <<vars, command, status, gaugeat, terminal, keyboard, user>>

\* The user presses a key.
Type ==
  /\ main # "done"
  /\ typed < MaxKeys
  /\ \E key \in {"Esc", "other"} :
       /\ tty' = Append(tty, key)
       /\ escaped' = (escaped \/ key = "Esc")
  /\ typed' = typed + 1
  /\ UNCHANGED <<correct, vars, command, main, status, exit_status, gaugeat, terminal, stdin>>

Exited == main = "done" /\ UNCHANGED toolvars

Main ==
  \/ ShowUsage
  \/ ReadOptions
  \/ PrintMD5SUM
  \/ SetTerminal
  \/ CheckOn
  \/ CheckCalls
  \/ CheckReturns
  \/ Exit

ToolNext == Main \/ Type \/ Exited

\* The program never waits for the user.
ToolSpec == ToolInit /\ [][ToolNext]_toolvars /\ WF_toolvars(Main)

-----------------------------------------------------------------------------

\* The types of the variables.
ToolTypeOK ==
  /\ TypeOK
  /\ platform \in Platforms
  /\ options \in Options
  /\ main \in {"options", "print", "terminal", "check", "exit", "done"}
  /\ status \in isomd5sum_status \cup {"none", "usage", "help", "printed"}
  /\ exit_status \in {0, 1, 2, NotExited}
  /\ gaugeat \in Int
  /\ terminal \in {"cooked", "raw"}
  /\ tty \in Seq({"Esc", "other"})
  /\ stdin \in Seq({"Esc", "other"})
  /\ typed \in 0 .. MaxKeys
  /\ escaped \in BOOLEAN
  /\ correct \in BOOLEAN

\* What the tool's exit status says is what the manual page promises: 0 only
\* for a correct checksum, 1 only for one that is incorrect or not there,
\* 2 only if the user pressed Esc; and the tool ends.
Promise == INSTANCE CheckPromise WITH
  asked   <- ~(options.bad \/ options.help \/ options.md5sumonly),
  missing <- "FILE_NOT_FOUND" \in {rc, status}

KeepsPromise == Promise!Spec

\* checkisomd5.1 on --gauge: "Display a series of numbers from 0 to 100".  The
\* numbers increase and end at 100 where the medium passes, for every volume
\* longer than the sectors that are skipped.
GaugeIncreases ==
  [][gaugeat' # gaugeat /\ total_size' > 0
       => gaugeat < gaugeat' /\ gaugeat' <= 100]_toolvars

GaugeIsFull ==
  rc = "CHECK_PASSED" /\ options.gauge /\ total_size > 0 => gaugeat = 100

\* While an Esc waits to be seen, every call of the callback in the loop
\* aborts the check or takes a key before the Esc away; but on Unix not where
\* stdio has read the Esc together with another key: it then stays unseen
\* until the user types once more.
EscIsApproached ==
  [][/\ pc = "callback" /\ pc' = "read"
     /\ \E i \in 1 .. Len(stdin \o tty) : (stdin \o tty)[i] = "Esc"
     => \/ Len(stdin' \o tty') < Len(stdin \o tty)
        \/ platform = "unix" /\ tty = <<>>]_toolvars

\* The terminal is never left without echo.
TerminalRestored == [](terminal = "raw" => <>(terminal = "cooked"))
=============================================================================
