--------------------------- MODULE CheckToolProofs ---------------------------
(***************************************************************************)
(* What holds of checkisomd5 and checkisosha for every medium, command     *)
(* line, build and user: the types, the progress that is printed, how an   *)
(* Esc is answered, and, step by step, what the manual pages promise.      *)
(* Every step of a tool is one of the media check or leaves it alone, so   *)
(* the lemmas of MediaCheckProofs hold of the tools.                       *)
(***************************************************************************)
EXTENDS CheckTool, MediaCheckProofs

\* The tool is asked for a check.
Asks == ~(options.bad \/ options.help \/ options.md5sumonly)

HasEsc(keys) == \E i \in 1 .. Len(keys) : keys[i] = "Esc"

Keys == {"Esc", "other"}

\* An Esc is not seen but where it was typed; Windows has no buffer of keys.
KeysWereTyped ==
  /\ HasEsc(tty) \/ HasEsc(stdin) => escaped
  /\ platform = "windows" => stdin = <<>>

\* What the answer of the media check says of the medium and the user.
CheckKnows ==
  /\ correct = (HasVolumeInfo(image, unreadable) /\ ChecksumIsCorrect)
  /\ pc \in Loop \/ rc = "CHECK_PASSED" => HasVolumeInfo(image, unreadable)
  /\ rc = "CHECK_NOT_FOUND" => ~HasVolumeInfo(image, unreadable)
  /\ rc = "CHECK_ABORTED" => escaped
  /\ pc = "done" => rc # "none"

\* What main() knows at each place, and what its status stands for.
MainKnows ==
  /\ main \in {"options", "print", "terminal"} => pc = "open" /\ rc = "none"
  /\ main \in {"options", "print", "terminal", "check"} => status = "none"
  /\ main \in {"print", "terminal", "check"} => ~options.bad /\ ~options.help
  /\ main \in {"terminal", "check"} => Asks
  /\ main = "exit" => status # "none"
  /\ main # "done" => exit_status = NotExited
  /\ status \in {"usage", "help", "printed"} => ~Asks
  /\ status = "CHECK_NOT_FOUND" => ~HasVolumeInfo(image, unreadable)
  /\ status \in {"CHECK_PASSED", "CHECK_FAILED", "CHECK_ABORTED"} => rc = status /\ Asks

ToolInv ==
  /\ Inv
  /\ OnMedium
  /\ ToolTypeOK
  /\ KeysWereTyped
  /\ CheckKnows
  /\ MainKnows

-----------------------------------------------------------------------------
(* The steps of the tools and those of the media check.                    *)

\* Every step is one of mediaCheckFile(), or none.
LEMMA ToolSteps == [ToolNext]_toolvars => [Next]_vars
BY DEF ToolNext, toolvars, Main, ShowUsage, ReadOptions, PrintMD5SUM, SetTerminal,
       CheckOn, CheckCalls, CheckReturns, Exit, Type, Exited, Next

\* No step changes the medium, and each status has one way to be returned.
LEMMA CheckStep ==
  ASSUME Inv, OnMedium, [Next]_vars
  PROVE  /\ UNCHANGED <<image, unreadable>>
         /\ pc' \in Loop => pc \in Loop \/ HasVolumeInfo(image, unreadable)
         /\ rc' # rc \/ (pc' = "done" /\ pc # "done") =>
              \/ FileNotFound /\ rc' = "FILE_NOT_FOUND"
              \/ NotFound /\ rc' = "CHECK_NOT_FOUND" /\ ~HasVolumeInfo(image, unreadable)
              \/ ReadBlock /\ rc' = "CHECK_FAILED"
              \/ CallBack /\ rc' = "CHECK_ABORTED"
              \/ Conclude /\ rc' \in {"CHECK_PASSED", "CHECK_FAILED"} /\ pc \in Loop
<1>1. CASE FileNotFound \/ NotFound
  BY <1>1 DEF FileNotFound, NotFound, Return, medium, Loop
<1>2. CASE Rewind
  BY <1>2 DEF Rewind, medium, Loop
<1>3. CASE ReadBlock
  <2>1. PICK r \in 1 .. (buffer_size + Prefetch) : HashBlock(r)
    BY <1>3 DEF ReadBlock
  <2>2. /\ UNCHANGED <<image, unreadable>> /\ pc = "read"
        /\ \/ UNCHANGED rc /\ pc' # "done"
           \/ rc' = "CHECK_FAILED"
    BY <2>1, HashBlockFacts
  <2> QED
    BY <1>3, <2>2 DEF Loop
<1>4. CASE StopReading \/ AllRead
  BY <1>4 DEF StopReading, AllRead, medium, Loop
<1>5. CASE CallBack
  BY <1>5 DEF CallBack, Return, medium, Loop
<1>6. CASE Conclude
  BY <1>6 DEF Conclude, Return, Verdict, medium, Loop
<1>7. CASE Returned \/ UNCHANGED vars
  BY <1>7 DEF Returned, vars, medium, Loop
<1> QED
  BY <1>1, <1>2, <1>3, <1>4, <1>5, <1>6, <1>7 DEF Next

\* The steps in which main() leaves the media check alone.
LEMMA MainAlone ==
  ASSUME ShowUsage \/ ReadOptions \/ PrintMD5SUM \/ SetTerminal \/ CheckReturns \/ Exit
           \/ Type \/ Exited \/ UNCHANGED toolvars
  PROVE  UNCHANGED vars
BY DEF ShowUsage, ReadOptions, PrintMD5SUM, SetTerminal, CheckReturns, Exit, Type,
       Exited, toolvars

-----------------------------------------------------------------------------
(* The keyboard.                                                           *)

\* What is behind the first key was typed as well.
LEMMA BehindTheFirst ==
  ASSUME NEW keys \in Seq(Keys), keys # <<>>
  PROVE  /\ Head(keys) \in Keys /\ Tail(keys) \in Seq(Keys)
         /\ Len(keys) \in Nat /\ Len(Tail(keys)) = Len(keys) - 1
         /\ Head(keys) = "Esc" => HasEsc(keys)
         /\ HasEsc(Tail(keys)) => HasEsc(keys)
<1>1. /\ Len(keys) \in Nat \ {0} /\ Head(keys) = keys[1] /\ Head(keys) \in Keys
      /\ Tail(keys) \in Seq(Keys) /\ Len(Tail(keys)) = Len(keys) - 1
  OBVIOUS
<1>2. \A i \in 1 .. Len(Tail(keys)) : Tail(keys)[i] = keys[i + 1] /\ i + 1 \in 1 .. Len(keys)
  BY <1>1
<1> QED
  BY <1>1, <1>2 DEF HasEsc

\* outputCB() tells of an Esc only where one was typed.
LEMMA BailingOut ==
  ASSUME tty \in Seq(Keys), stdin \in Seq(Keys), KeysWereTyped,
         NEW answer \in BOOLEAN, UserBailingOut(answer)
  PROVE  /\ tty' \in Seq(Keys) /\ stdin' \in Seq(Keys)
         /\ answer \/ HasEsc(tty') \/ HasEsc(stdin') => escaped
         /\ platform = "windows" => stdin' = <<>>
<1>1. <<>> \in Seq(Keys) /\ ~HasEsc(<<>>)
  BY DEF HasEsc
<1>2. CASE tty = <<>> /\ ~answer /\ UNCHANGED keyboard
  BY <1>2 DEF KeysWereTyped, keyboard
<1>3. CASE /\ tty # <<>>
           /\ answer = (Head(tty) = "Esc")
           /\ \/ tty' = Tail(tty) /\ UNCHANGED stdin
              \/ tty' = <<>> /\ stdin' = Tail(tty) /\ platform = "unix"
  <2>1. /\ Tail(tty) \in Seq(Keys)
        /\ answer \/ HasEsc(Tail(tty)) => HasEsc(tty)
    BY <1>1, <1>3, BehindTheFirst
  <2>2. HasEsc(tty) \/ HasEsc(stdin) => escaped
    BY DEF KeysWereTyped
  <2>3. CASE tty' = Tail(tty) /\ stdin' = stdin
    BY <1>1, <2>1, <2>2, <2>3 DEF KeysWereTyped
  <2>4. CASE tty' = <<>> /\ stdin' = Tail(tty) /\ platform = "unix"
    BY <1>1, <2>1, <2>2, <2>4
  <2> QED
    BY <1>3, <2>3, <2>4
<1>4. CASE /\ stdin # <<>> /\ platform = "unix"
           /\ answer = (Head(stdin) = "Esc")
           /\ stdin' = Tail(stdin) /\ UNCHANGED tty
  BY <1>4, BehindTheFirst DEF KeysWereTyped
<1>5. CASE tty # <<>> /\ platform = "unix" /\ stdin # <<>>
  BY <1>4, <1>5 DEF UserBailingOut
<1> QED
  BY <1>2, <1>3, <1>5 DEF UserBailingOut

\* A key is taken wherever the kernel has one.
LEMMA KeyIsTaken ==
  ASSUME tty \in Seq(Keys), stdin \in Seq(Keys), tty # <<>>,
         NEW answer \in BOOLEAN, UserBailingOut(answer)
  PROVE  Len(stdin' \o tty') < Len(stdin \o tty)
<1>1. Len(stdin \o tty) = Len(stdin) + Len(tty) /\ Len(stdin) \in Nat
  OBVIOUS
<1>2. CASE tty' = Tail(tty) /\ UNCHANGED stdin
  <2>1. Len(stdin' \o tty') = Len(stdin) + (Len(tty) - 1)
    BY <1>2, BehindTheFirst
  <2> QED
    BY <1>1, <2>1, BehindTheFirst
<1>3. CASE stdin = <<>> /\ tty' = <<>> /\ stdin' = Tail(tty)
  <2>1. Len(stdin' \o tty') = Len(tty) - 1
    BY <1>3, BehindTheFirst
  <2> QED
    BY <1>1, <1>3, <2>1, BehindTheFirst
<1>4. CASE stdin # <<>> /\ stdin' = Tail(stdin) /\ UNCHANGED tty
  <2>1. Len(stdin' \o tty') = (Len(stdin) - 1) + Len(tty)
    BY <1>4, BehindTheFirst
  <2> QED
    BY <1>1, <1>4, <2>1, BehindTheFirst
<1> QED
  BY <1>2, <1>3, <1>4 DEF UserBailingOut

\* A key that is typed is a key.
LEMMA TypedKeys ==
  ASSUME ToolTypeOK, KeysWereTyped, Type
  PROVE  tty' \in Seq(Keys) /\ KeysWereTyped'
<1>1. PICK key \in Keys : tty' = Append(tty, key) /\ escaped' = (escaped \/ key = "Esc")
  BY DEF Type, Keys
<1>2. tty \in Seq(Keys) /\ Len(tty) \in Nat
  BY DEF ToolTypeOK, Keys
<1>3. /\ tty' \in Seq(Keys) /\ Len(tty') = Len(tty) + 1
      /\ \A i \in 1 .. Len(tty) : tty'[i] = tty[i]
      /\ tty'[Len(tty) + 1] = key
  BY <1>1, <1>2
<1>4. HasEsc(tty') => HasEsc(tty) \/ key = "Esc"
  BY <1>2, <1>3 DEF HasEsc
<1>5. UNCHANGED <<stdin, platform>>
  BY DEF Type, command
<1> QED
  BY <1>1, <1>3, <1>4, <1>5 DEF KeysWereTyped

\* The steps that leave the keys alone.
LEMMA KeysStay ==
  ASSUME ShowUsage \/ ReadOptions \/ PrintMD5SUM \/ SetTerminal \/ CheckOn \/ CheckReturns
           \/ Exit \/ Exited \/ UNCHANGED toolvars
  PROVE  UNCHANGED <<tty, stdin, escaped, platform, options, typed, correct>>
BY DEF ShowUsage, ReadOptions, PrintMD5SUM, SetTerminal, CheckOn, CheckReturns, Exit,
       Exited, toolvars, keyboard, user, command

-----------------------------------------------------------------------------
(* Types and what main() knows.                                            *)

\* A step of the tool is one of main() alone, of the check alone, of both
\* with a callback, or of the user.
LEMMA ToolNextIs ==
  ASSUME [ToolNext]_toolvars
  PROVE  \/ /\ ShowUsage \/ ReadOptions \/ PrintMD5SUM \/ SetTerminal \/ CheckReturns
               \/ Exit \/ Exited \/ UNCHANGED toolvars
            /\ UNCHANGED vars
         \/ CheckOn \/ CheckCalls
         \/ Type /\ UNCHANGED vars
BY MainAlone DEF ToolNext, Main

\* What the callback does to keys and progress.
LEMMA CallsBack ==
  ASSUME CheckCalls
  PROVE  /\ main = "check"
         /\ UNCHANGED <<platform, options, main, status, exit_status, terminal,
                        typed, escaped, correct>>
         /\ \E answer \in BOOLEAN : \E told :
              /\ PrintGauge(told, total_size') /\ UserBailingOut(answer)
              /\ \/ Rewind /\ told = 0
                 \/ CallBack /\ (rc' = "CHECK_ABORTED") = answer /\ told = offset
                 \/ Conclude /\ told = info.isosize
BY DEF CheckCalls, outputCB, command, user

\* Keys move from the kernel to stdio and away, and Esc is only there if it was
\* typed.
LEMMA KeysNext ==
  ASSUME ToolTypeOK, KeysWereTyped, [ToolNext]_toolvars
  PROVE  tty' \in Seq(Keys) /\ stdin' \in Seq(Keys) /\ KeysWereTyped'
<1>1. tty \in Seq(Keys) /\ stdin \in Seq(Keys)
  BY DEF ToolTypeOK, Keys
<1>2. CASE UNCHANGED <<tty, stdin, escaped, platform>>
  BY <1>1, <1>2 DEF KeysWereTyped
<1>3. CASE CheckCalls
  <2>1. PICK answer \in BOOLEAN : UserBailingOut(answer)
    BY <1>3, CallsBack
  <2>2. UNCHANGED <<escaped, platform>>
    BY <1>3, CallsBack
  <2> QED
    BY <1>1, <2>1, <2>2, BailingOut DEF KeysWereTyped
<1>4. CASE Type
  BY <1>1, <1>4, TypedKeys DEF Type
<1> QED
  BY <1>2, <1>3, <1>4, KeysStay, ToolNextIs

\* An aborted check is one of a user who typed Esc.
LEMMA AbortedIsEscaped ==
  ASSUME ToolTypeOK, KeysWereTyped, CheckCalls, CallBack, rc' = "CHECK_ABORTED"
  PROVE  escaped
<1>1. tty \in Seq(Keys) /\ stdin \in Seq(Keys)
  BY DEF ToolTypeOK, Keys
<1>2. PICK answer \in BOOLEAN :
        /\ UserBailingOut(answer)
        /\ \/ Rewind
           \/ (rc' = "CHECK_ABORTED") = answer
           \/ Conclude
  BY CallsBack
<1>3. pc = "callback"
  BY DEF CallBack
<1>4. answer
  BY <1>2, <1>3 DEF Rewind, Conclude
<1> QED
  BY <1>1, <1>2, <1>4, BailingOut

\* An abort of the check comes of an Esc.
LEMMA CheckKnowsNext ==
  ASSUME Inv, OnMedium, ToolTypeOK, KeysWereTyped, CheckKnows, [ToolNext]_toolvars
  PROVE  CheckKnows'
<1>1. [Next]_vars
  BY ToolSteps
<1>2. UNCHANGED <<image, unreadable>>
  BY <1>1, CheckStep
<1>3. ChecksumIsCorrect' = ChecksumIsCorrect
  BY <1>2, SameChecksum DEF ChecksumIsCorrect, ReadableSize
<1>4. correct' = correct /\ (escaped => escaped')
  <2>1. CASE UNCHANGED <<correct, escaped>>
    BY <2>1
  <2>2. CASE Type
    <3>1. PICK key : escaped' = (escaped \/ key = "Esc")
      BY <2>2 DEF Type
    <3> QED
      BY <2>2, <3>1 DEF Type
  <2> QED
    BY <2>1, <2>2, ToolNextIs, KeysStay, CallsBack
<1>5. pc' \in Loop => HasVolumeInfo(image, unreadable)
  BY <1>1, CheckStep DEF CheckKnows
<1>6. CASE rc' = rc /\ ~(pc' = "done" /\ pc # "done")
  BY <1>2, <1>3, <1>4, <1>5, <1>6 DEF CheckKnows
<1>7. CASE rc' # rc \/ (pc' = "done" /\ pc # "done")
  <2>1. CASE CallBack /\ rc' = "CHECK_ABORTED"
    <3>1. CheckCalls
      <4>1. pc = "callback" /\ ~(UNCHANGED vars)
        BY <1>7, <2>1 DEF CallBack, vars
      <4> QED
        BY <4>1, ToolNextIs
        DEF CheckOn, FileNotFound, NotFound, ReadBlock, HashBlock, StopReading, AllRead
    <3>2. escaped
      BY <2>1, <3>1, AbortedIsEscaped
    <3> QED
      BY <1>2, <1>3, <1>4, <1>5, <2>1, <3>2 DEF CheckKnows
  <2>2. CASE NotFound /\ rc' = "CHECK_NOT_FOUND" /\ ~HasVolumeInfo(image, unreadable)
    BY <1>2, <1>3, <1>4, <1>5, <2>2 DEF CheckKnows
  <2>3. CASE Conclude /\ rc' \in {"CHECK_PASSED", "CHECK_FAILED"} /\ pc \in Loop
    BY <1>2, <1>3, <1>4, <1>5, <2>3 DEF CheckKnows
  <2>4. CASE rc' \in {"FILE_NOT_FOUND", "CHECK_FAILED"}
    BY <1>2, <1>3, <1>4, <1>5, <2>4 DEF CheckKnows
  <2> QED
    BY <1>1, <1>7, <2>1, <2>2, <2>3, <2>4, CheckStep
<1> QED
  BY <1>6, <1>7

\* What the callback is told is a number, and so is the size of the volume.
LEMMA CallsAreOfVolume ==
  ASSUME Inv, Rewind \/ CallBack \/ Conclude
  PROVE  /\ total_size' \in Int
         /\ pc \in Loop => offset \in Nat /\ info.isosize \in Nat /\ info' = info
<1>1. CASE Rewind
  <2>1. IsVolumeInfo(info') /\ pc = "open"
    BY <1>1 DEF Inv, Unopened, Rewind
  <2>2. total_size' \in Int
    BY <2>1, Sizes DEF total_size, IsVolumeInfo
  <2> QED
    BY <2>1, <2>2 DEF Loop
<1>2. CASE CallBack \/ Conclude
  <2>1. IsVolumeInfo(info) /\ offset \in Nat /\ info' = info
    BY <1>2 DEF Inv, TypeOK, CallBack, Conclude
  <2>2. total_size' \in Int
    BY <2>1, Sizes DEF total_size, IsVolumeInfo
  <2> QED
    BY <2>1, <2>2 DEF IsVolumeInfo
<1> QED
  BY <1>1, <1>2

\* What is printed is a number.
LEMMA GaugeValuesType ==
  ASSUME NEW told \in Nat, NEW total \in Int
  PROVE  GaugeValues(told, total) \subseteq Int
<1>1. CASE total > 0
  <2>1. (100 * told) \div total \in Int
    BY <1>1, Division
  <2> QED
    BY <1>1, <2>1 DEF GaugeValues, MIN
<1>2. CASE total < 0
  <2>1. -total \in Nat \ {0} /\ 100 * told \in Int
    BY <1>2
  <2>2. (100 * told) \div (-total) \in Int
    BY <2>1, Division
  <2> QED
    BY <1>2, <2>2 DEF GaugeValues
<1>3. CASE total = 0
  BY <1>3 DEF GaugeValues, INT_MIN
<1> QED
  BY <1>1, <1>2, <1>3

\* So it is after every step.
LEMMA GaugeNext ==
  ASSUME Inv, ToolTypeOK, [ToolNext]_toolvars
  PROVE  gaugeat' \in Int
<1>1. gaugeat \in Int
  BY DEF ToolTypeOK
<1>2. CASE UNCHANGED gaugeat
  BY <1>1, <1>2
<1>3. CASE CheckCalls
  <2>1. PICK told : /\ PrintGauge(told, total_size')
                    /\ \/ Rewind /\ told = 0
                       \/ CallBack /\ told = offset
                       \/ Conclude /\ told = info.isosize
    BY <1>3, CallsBack
  <2>2. total_size' \in Int
    BY <2>1, CallsAreOfVolume
  <2>3. told \in Nat
    <3>1. CallBack \/ Conclude => pc \in Loop
      BY DEF CallBack, Conclude, Loop
    <3> QED
      BY <2>1, <3>1, CallsAreOfVolume
  <2> QED
    BY <1>1, <2>1, <2>2, <2>3, GaugeValuesType DEF PrintGauge
<1> QED
  BY <1>2, <1>3 DEF ToolNext, Main, toolvars, ShowUsage, ReadOptions, PrintMD5SUM,
                    SetTerminal, CheckOn, CheckReturns, Exit, Type, Exited

\* Every step keeps the types.
LEMMA ToolTypeNext ==
  ASSUME Inv, ToolTypeOK, KeysWereTyped, CheckKnows, [ToolNext]_toolvars
  PROVE  ToolTypeOK'
<1>1. [Next]_vars
  BY ToolSteps
<1>2. TypeOK'
  BY <1>1, InvNext DEF Inv
<1>3. tty' \in Seq(Keys) /\ stdin' \in Seq(Keys) /\ gaugeat' \in Int
  BY KeysNext, GaugeNext
<1>4. CASE ShowUsage \/ ReadOptions \/ PrintMD5SUM \/ SetTerminal \/ CheckReturns
  <2>1. /\ main' \in {"print", "terminal", "check", "exit"}
        /\ terminal' \in {terminal, "cooked", "raw"}
        /\ UNCHANGED <<platform, options, exit_status, typed, escaped, correct>>
    BY <1>4 DEF ShowUsage, ReadOptions, PrintMD5SUM, SetTerminal, CheckReturns, Finish,
                command, user
  <2>2. CASE CheckReturns
    <3>1. status' = rc /\ rc # "none"
      BY <2>2 DEF CheckReturns, Finish, CheckKnows
    <3>2. status' \in isomd5sum_status
      BY <3>1 DEF ToolTypeOK, TypeOK
    <3> QED
      BY <1>2, <1>3, <2>1, <3>2 DEF ToolTypeOK, Keys
  <2>3. CASE ~CheckReturns
    <3>1. status' \in {status, "usage", "help", "printed", "FILE_NOT_FOUND", "CHECK_NOT_FOUND"}
      BY <1>4, <2>3 DEF ShowUsage, ReadOptions, PrintMD5SUM, SetTerminal, Finish
    <3>2. status' \in isomd5sum_status \cup {"none", "usage", "help", "printed"}
      BY <3>1 DEF ToolTypeOK, isomd5sum_status
    <3> QED
      BY <1>2, <1>3, <2>1, <3>2 DEF ToolTypeOK, Keys
  <2> QED
    BY <2>2, <2>3
<1>5. CASE Exit
  BY <1>2, <1>3, <1>5 DEF ToolTypeOK, Exit, processExitStatus, command, user, Keys
<1>6. CASE CheckOn \/ CheckCalls
  BY <1>2, <1>3, <1>6 DEF ToolTypeOK, CheckOn, CheckCalls, command, user, Keys
<1>7. CASE Type
  <2>1. PICK key : escaped' = (escaped \/ key = "Esc")
    BY <1>7 DEF Type
  <2>2. typed' \in 0 .. MaxKeys
    BY <1>7, ToolAssumption DEF Type, ToolTypeOK, ToolAssumption
  <2>3. escaped' \in BOOLEAN
    BY <2>1
  <2> QED
    BY <1>2, <1>3, <1>7, <2>2, <2>3 DEF ToolTypeOK, Type, command, Keys
<1>8. CASE Exited \/ UNCHANGED toolvars
  BY <1>2, <1>3, <1>8 DEF ToolTypeOK, Exited, toolvars, command, user, Keys
<1> QED
  BY <1>4, <1>5, <1>6, <1>7, <1>8 DEF ToolNext, Main

\* main() goes on with what it was told.
LEMMA MainKnowsNext ==
  ASSUME Inv, OnMedium, ToolTypeOK, CheckKnows, MainKnows, [ToolNext]_toolvars
  PROVE  MainKnows'
<1>1. [Next]_vars
  BY ToolSteps
<1>2. UNCHANGED <<image, unreadable>>
  BY <1>1, CheckStep
<1>3. HasVolumeInfo(image, unreadable)' = HasVolumeInfo(image, unreadable)
  BY <1>2
<1>4. pc = "done" => rc # "none"
  BY DEF CheckKnows
<1>5. CASE ShowUsage \/ ReadOptions \/ PrintMD5SUM \/ SetTerminal
  <2>1. UNCHANGED <<pc, rc, options, exit_status>> /\ main # "done"
    BY <1>5 DEF ShowUsage, ReadOptions, PrintMD5SUM, SetTerminal, command, vars
  <2>2. pc = "open" /\ rc = "none" /\ exit_status = NotExited /\ status = "none"
    BY <1>5 DEF ShowUsage, ReadOptions, PrintMD5SUM, SetTerminal, MainKnows
  <2>3. \/ main' = "exit" /\ status' \in {"usage", "help", "printed"} /\ ~Asks
        \/ main' = "exit" /\ status' = "FILE_NOT_FOUND"
        \/ main' = "exit" /\ status' = "CHECK_NOT_FOUND" /\ ~HasVolumeInfo(image, unreadable)
        \/ main' \in {"print", "terminal", "check"} /\ status' = "none"
    BY <1>5, <2>2 DEF ShowUsage, ReadOptions, PrintMD5SUM, SetTerminal, Finish, Asks
  <2>4. /\ main' \in {"print", "terminal", "check"} => ~options.bad /\ ~options.help
        /\ main' \in {"terminal", "check"} => Asks
    <3>1. CASE SetTerminal
      BY <3>1 DEF SetTerminal, MainKnows
    <3>2. CASE ShowUsage \/ ReadOptions
      BY <3>2 DEF ShowUsage, ReadOptions, Finish, Asks
    <3>3. CASE PrintMD5SUM
      BY <3>3 DEF PrintMD5SUM, Finish, Asks, MainKnows
    <3> QED
      BY <1>5, <3>1, <3>2, <3>3
  <2> QED
    BY <1>3, <2>1, <2>2, <2>3, <2>4 DEF MainKnows, Asks
<1>6. CASE CheckReturns
  <2>1. /\ main' = "exit" /\ status' = rc /\ rc' = rc /\ pc' = pc
        /\ Asks' = Asks /\ Asks /\ exit_status' = exit_status /\ rc # "none"
    BY <1>4, <1>6 DEF CheckReturns, Finish, command, vars, MainKnows, Asks
  <2>2. rc \in isomd5sum_status
    BY <2>1 DEF Inv, TypeOK
  <2>3. rc = "CHECK_NOT_FOUND" => ~HasVolumeInfo(image, unreadable)
    BY DEF CheckKnows
  <2>4. exit_status = NotExited
    BY <1>6 DEF CheckReturns, MainKnows
  <2> QED
    BY <1>3, <2>1, <2>2, <2>3, <2>4 DEF MainKnows, isomd5sum_status
<1>7. CASE CheckOn \/ CheckCalls
  <2>1. UNCHANGED <<main, status, exit_status, options>> /\ main = "check"
    BY <1>7 DEF CheckOn, CheckCalls, command
  <2> QED
    BY <1>3, <2>1 DEF MainKnows, Asks
<1>8. CASE Exit
  BY <1>3, <1>8 DEF MainKnows, Exit, command, Asks, vars
<1>9. CASE Type \/ Exited \/ UNCHANGED toolvars
  BY <1>3, <1>9 DEF MainKnows, Type, Exited, toolvars, command, Asks, vars
<1> QED
  BY <1>5, <1>6, <1>7, <1>8, <1>9 DEF ToolNext, Main

\* The invariant holds before the options are read.
LEMMA ToolInvInit == ToolInit => ToolInv
<1> SUFFICES ASSUME ToolInit
             PROVE  ToolInv
  OBVIOUS
<1> USE DEF ToolInit
<1>1. Inv /\ OnMedium
  BY InvInit, OnMediumInit
<1>2. pc = "open" /\ rc = "none"
  BY DEF Init
<1>3. ToolTypeOK
  <2>1. <<>> \in Seq({"Esc", "other"})
    OBVIOUS
  <2>2. correct \in BOOLEAN /\ 0 \in 0 .. MaxKeys
    BY ToolAssumption DEF ToolAssumption
  <2> QED
    <3>1. TypeOK
      BY <1>1 DEF Inv
    <3>2. /\ main \in {"options", "print", "terminal", "check", "exit", "done"}
          /\ status \in isomd5sum_status \cup {"none", "usage", "help", "printed"}
          /\ exit_status \in {0, 1, 2, NotExited} /\ gaugeat \in Int
          /\ terminal \in {"cooked", "raw"}
      OBVIOUS
    <3>3. tty \in Seq({"Esc", "other"}) /\ stdin \in Seq({"Esc", "other"})
      BY <2>1
    <3>4. typed \in 0 .. MaxKeys /\ escaped \in BOOLEAN /\ correct \in BOOLEAN
      BY <2>2
    <3>5. platform \in Platforms /\ options \in Options
      OBVIOUS
    <3> QED
      BY <3>1, <3>2, <3>3, <3>4, <3>5, Zenon DEF ToolTypeOK
<1>4. KeysWereTyped
  BY DEF KeysWereTyped, HasEsc
<1>5. CheckKnows
  BY <1>2 DEF CheckKnows, Loop
<1>6. MainKnows
  BY <1>2 DEF MainKnows
<1> QED
  BY <1>1, <1>3, <1>4, <1>5, <1>6 DEF ToolInv

\* Every step keeps the invariant.
LEMMA ToolInvNext == ToolInv /\ [ToolNext]_toolvars => ToolInv'
<1> SUFFICES ASSUME ToolInv, [ToolNext]_toolvars
             PROVE  ToolInv'
  OBVIOUS
<1>1. Inv' /\ OnMedium'
  BY ToolSteps, InvNext, OnMediumNext DEF ToolInv
<1> QED
  BY <1>1, ToolTypeNext, KeysNext, CheckKnowsNext, MainKnowsNext DEF ToolInv

\* The inductive invariant holds of every behaviour of the tools.
THEOREM ToolInvariance == ToolSpec => []ToolInv
<1> QED
  BY ToolInvInit, ToolInvNext, PTL DEF ToolSpec

\* The variables keep their types, and so does what is printed.
THEOREM ToolTypeCorrect == ToolSpec => []ToolTypeOK
<1>1. ToolInv => ToolTypeOK
  BY DEF ToolInv
<1> QED
  BY <1>1, ToolInvariance, PTL

-----------------------------------------------------------------------------
(* The progress that is printed.                                           *)

Percent(told, total) == MIN(100, (100 * told) \div total)

\* The number printed last is that of what the callback was told last.
GaugeShows ==
  /\ pc = "open" => gaugeat = 0
  /\ options.gauge /\ total_size > 0 /\ pc \in Loop => gaugeat = Percent(reported, total_size)
  /\ GaugeIsFull

\* The percentage is monotone, from 0 to 100.
LEMMA PercentIs ==
  ASSUME NEW total \in Nat \ {0}, NEW told \in Nat, NEW more \in Nat, told <= more
  PROVE  /\ Percent(told, total) \in Int
         /\ Percent(told, total) <= Percent(more, total)
         /\ Percent(told, total) <= 100
         /\ Percent(0, total) = 0
         /\ total <= told => Percent(told, total) = 100
         /\ GaugeValues(told, total) = {Percent(told, total)}
<1>1. 100 * told \in Int /\ 100 * more \in Int /\ 100 * told <= 100 * more
  OBVIOUS
<1>2. /\ (100 * told) \div total \in Int /\ (100 * more) \div total \in Int
      /\ (100 * told) \div total <= (100 * more) \div total
  BY <1>1, Division, DivisionOrder
<1>3. (100 * 0) \div total = 0
  <2>1. 100 * 0 = total * 0 + 0 /\ 0 \in 0 .. (total - 1)
    OBVIOUS
  <2> QED
    BY <2>1, DivisionIs
<1>4. ASSUME total <= told
      PROVE  100 <= (100 * told) \div total
  <2>1. (total * 100 + 0) \div total = 100
    <3>1. 0 \in 0 .. (total - 1)
      OBVIOUS
    <3> QED
      BY <3>1, DivisionIs
  <2>2. total * 100 + 0 = 100 * total /\ 100 * total \in Int /\ 100 * total <= 100 * told
    BY <1>4
  <2>3. (100 * total) \div total <= (100 * told) \div total
    BY <1>1, <2>2, DivisionOrder
  <2> QED
    BY <2>1, <2>2, <2>3
<1>5. Percent(told, total) <= 100 /\ Percent(0, total) = 0
  BY <1>2, <1>3 DEF Percent, MIN
<1>6. total <= told => Percent(told, total) = 100
  BY <1>2, <1>4 DEF Percent, MIN
<1>7. GaugeValues(told, total) = {Percent(told, total)}
  BY DEF GaugeValues, Percent
<1>8. Percent(told, total) <= Percent(more, total) /\ Percent(told, total) \in Int
  BY <1>2 DEF Percent, MIN
<1> QED
  BY <1>5, <1>6, <1>7, <1>8

\* A call of the callback prints what it is told.
LEMMA GaugeOfCall ==
  ASSUME SkipsAreCounts, ToolInv, Told, GaugeShows, CheckCalls
  PROVE  /\ GaugeShows'
         /\ gaugeat' # gaugeat /\ total_size' > 0 => gaugeat < gaugeat' /\ gaugeat' <= 100
<1>1. PICK told : /\ PrintGauge(told, total_size')
                  /\ \/ Rewind /\ told = 0
                     \/ CallBack /\ told = offset
                     \/ Conclude /\ told = info.isosize
  BY CallsBack
<1>2. options' = options /\ HasCallback
  BY CallsBack, ToolAssumption DEF ToolAssumption
<1>3. /\ total_size' \in Int
      /\ pc \in Loop => offset \in Nat /\ info.isosize \in Nat /\ info' = info
  BY <1>1, CallsAreOfVolume DEF ToolInv
<1>4. gaugeat \in Int
  BY DEF ToolInv, ToolTypeOK
<1>5. CASE options.gauge /\ total_size' > 0
  <2>1. total_size' \in Nat \ {0}
    BY <1>3, <1>5
  <2>2. gaugeat' \in GaugeValues(told, total_size')
    BY <1>1, <1>5 DEF PrintGauge
  <2>3. CASE Rewind
    <3>1. told = 0 /\ pc = "open" /\ pc' = "read" /\ rc = "none" /\ rc' = rc
      BY <1>1, <2>3 DEF Rewind, CallBack, Conclude, ToolInv, Inv, Unopened
    <3>2. gaugeat = 0 /\ reported' = 0
      BY <2>3, <1>2, <3>1 DEF GaugeShows, Rewind, Report
    <3>3. gaugeat' = 0
      BY <2>1, <2>2, <3>1, PercentIs
    <3>4. Percent(reported', total_size') = 0
      BY <2>1, <3>2, PercentIs
    <3> QED
      BY <3>1, <3>2, <3>3, <3>4 DEF GaugeShows, GaugeIsFull, Percent
  <2>4. CASE CallBack \/ Conclude
    <3>1. pc \in Loop /\ pc # "open" /\ info' = info /\ pc' # "open"
      BY <2>4, <1>3 DEF CallBack, Conclude, Return, Loop
    <3>2. /\ told \in Nat /\ reported' = told
          /\ Conclude => told = info.isosize
      BY <1>1, <1>2, <1>3, <2>4, <3>1 DEF CallBack, Conclude, Report, Rewind
    <3>3. reported \in Nat /\ reported <= told
      <4>1. reported \in Nat
        BY DEF Told
      <4>2. [Next]_vars
        BY <2>4 DEF Next
      <4>3. reported' # reported => reported < reported'
        BY <4>2, ToldNext DEF ToolInv
      <4> QED
        BY <3>2, <4>1, <4>3
    <3>4. total_size' = total_size
      BY <3>1 DEF total_size
    <3>5. gaugeat = Percent(reported, total_size)
      BY <1>5, <3>1, <3>4 DEF GaugeShows
    <3>6. gaugeat' = Percent(told, total_size)
      BY <2>1, <2>2, <3>2, <3>4, PercentIs
    <3>7. /\ gaugeat <= gaugeat' /\ gaugeat' <= 100 /\ gaugeat' \in Int
          /\ total_size <= told => gaugeat' = 100
      BY <2>1, <3>2, <3>3, <3>4, <3>5, <3>6, PercentIs
    <3>8. rc' = "CHECK_PASSED" => gaugeat' = 100
      <4>1. rc' = "CHECK_PASSED" => Conclude
        BY <2>4, <3>1 DEF CallBack, Return, Conclude, ToolInv, Inv, InTheVolume, Loop
      <4>2. total_size <= info.isosize
        BY <3>1, HashedIsOfVolume DEF ToolInv
      <4> QED
        BY <3>2, <3>7, <4>1, <4>2
    <3>9. GaugeShows'
      BY <3>1, <3>2, <3>4, <3>6, <3>8 DEF GaugeShows, GaugeIsFull, Percent
    <3> QED
      BY <1>4, <3>7, <3>9
  <2> QED
    BY <1>1, <2>3, <2>4
<1>6. CASE ~options.gauge \/ ~(total_size' > 0)
  <2>1. pc' # "open"
    BY <1>1 DEF Rewind, CallBack, Conclude, Return
  <2>2. GaugeShows'
    BY <1>2, <1>6, <2>1 DEF GaugeShows, GaugeIsFull
  <2>3. ~options.gauge => gaugeat' = gaugeat
    BY <1>1 DEF PrintGauge
  <2> QED
    BY <1>6, <2>2, <2>3
<1> QED
  BY <1>5, <1>6

\* No other step prints a number, or is told more.
LEMMA GaugeStays ==
  ASSUME ToolInv, GaugeShows, [ToolNext]_toolvars, ~CheckCalls
  PROVE  GaugeShows' /\ gaugeat' = gaugeat
<1>1. gaugeat' = gaugeat /\ options' = options
  BY DEF ToolNext, Main, toolvars, ShowUsage, ReadOptions, PrintMD5SUM, SetTerminal, CheckOn,
         CheckReturns, Exit, Type, Exited, command
<1>2. CASE CheckOn
  <2>1. CASE FileNotFound \/ NotFound
    <3>1. pc' = "done" /\ rc' # "CHECK_PASSED"
      BY <2>1 DEF FileNotFound, NotFound, Return
    <3> QED
      BY <1>1, <3>1 DEF GaugeShows, GaugeIsFull, Loop
  <2>2. CASE ReadBlock \/ StopReading \/ AllRead
    <3>1. /\ UNCHANGED <<info, reported>>
          /\ pc \in Loop /\ pc' # "open"
          /\ rc' # "CHECK_PASSED"
      <4>1. CASE ReadBlock
        <5>1. [Next]_vars /\ Inv /\ OnMedium
          BY <4>1 DEF Next, ToolInv
        <5>2. pc = "read" /\ UNCHANGED <<info, reported>> /\ pc' # "open"
          BY <4>1, <5>1, HashBlockGrows
        <5>3. rc = "none"
          BY <5>1, <5>2 DEF Inv, InTheVolume
        <5>4. rc' = rc \/ rc' = "CHECK_FAILED"
          <6>1. PICK r \in 1 .. (buffer_size + Prefetch) : HashBlock(r)
            BY <4>1 DEF ReadBlock
          <6> QED
            BY <6>1, HashBlockFacts
        <5> QED
          BY <5>2, <5>3, <5>4 DEF Loop
      <4>2. CASE StopReading \/ AllRead
        BY <4>2 DEF StopReading, AllRead, progress, Loop, ToolInv, Inv, InTheVolume
      <4> QED
        BY <2>2, <4>1, <4>2
    <3>2. total_size' = total_size
      BY <3>1 DEF total_size
    <3> QED
      BY <1>1, <3>1, <3>2 DEF GaugeShows, GaugeIsFull, Percent
  <2> QED
    BY <1>2, <2>1, <2>2 DEF CheckOn
<1>3. CASE UNCHANGED vars
  <2>1. UNCHANGED <<pc, info, reported, rc>>
    BY <1>3 DEF vars, progress
  <2>2. total_size' = total_size
    BY <2>1 DEF total_size
  <2> QED
    BY <1>1, <2>1, <2>2 DEF GaugeShows, GaugeIsFull, Percent
<1> QED
  BY <1>2, <1>3, ToolNextIs

\* Every number printed is that of a larger offset.
LEMMA GaugeShowsNext ==
  ASSUME SkipsAreCounts, ToolInv, Told, GaugeShows, [ToolNext]_toolvars
  PROVE  /\ GaugeShows' /\ Told'
         /\ gaugeat' # gaugeat /\ total_size' > 0 => gaugeat < gaugeat' /\ gaugeat' <= 100
<1>1. Told'
  BY ToolSteps, ToldNext DEF ToolInv
<1> QED
  BY <1>1, GaugeOfCall, GaugeStays

\* So the gauge shows what was told in every state.
LEMMA GaugeKept ==
  ASSUME SkipsAreCounts
  PROVE  ToolSpec => [](ToolInv /\ Told /\ GaugeShows)
<1>1. ToolInit => Told /\ GaugeShows
  BY DEF ToolInit, Init, Told, GaugeShows, GaugeIsFull, Loop
<1>2. ToolInv /\ Told /\ GaugeShows /\ [ToolNext]_toolvars => Told' /\ GaugeShows'
  BY GaugeShowsNext
<1> QED
  BY <1>1, <1>2, ToolInvariance, PTL DEF ToolSpec

\* checkisomd5.1 on --gauge: where the medium passes, the last number is 100.
THEOREM GaugeFull ==
  ASSUME SkipsAreCounts
  PROVE  ToolSpec => []GaugeIsFull
<1>1. GaugeShows => GaugeIsFull
  BY DEF GaugeShows
<1> QED
  BY <1>1, GaugeKept, PTL

\* ... and every number is above the one before and at most 100.
THEOREM GaugeGrows ==
  ASSUME SkipsAreCounts
  PROVE  ToolSpec => GaugeIncreases
<1>1. ToolInv /\ Told /\ GaugeShows /\ [ToolNext]_toolvars =>
        [gaugeat' # gaugeat /\ total_size' > 0
           => gaugeat < gaugeat' /\ gaugeat' <= 100]_toolvars
  BY GaugeShowsNext
<1> QED
  BY <1>1, GaugeKept, PTL DEF ToolSpec, GaugeIncreases

-----------------------------------------------------------------------------
(* The answer to an Esc.                                                   *)

\* Every call in the loop that does not abort takes a key away, or there is
\* none that the kernel still has.
LEMMA EscStep ==
  ASSUME ToolInv, [ToolNext]_toolvars, pc = "callback", pc' = "read",
         \E i \in 1 .. Len(stdin \o tty) : (stdin \o tty)[i] = "Esc"
  PROVE  \/ Len(stdin' \o tty') < Len(stdin \o tty)
         \/ platform = "unix" /\ tty = <<>>
<1>1. tty \in Seq(Keys) /\ stdin \in Seq(Keys) /\ platform \in {"unix", "windows"}
  BY ToolAssumption DEF ToolInv, ToolTypeOK, Keys, ToolAssumption
<1>2. CheckCalls
  BY ToolNextIs DEF CheckOn, FileNotFound, NotFound, ReadBlock, HashBlock, StopReading,
                    AllRead, vars
<1>3. PICK answer \in BOOLEAN : UserBailingOut(answer)
  BY <1>2, CallsBack
<1>4. CASE tty # <<>>
  BY <1>1, <1>3, <1>4, KeyIsTaken
<1>5. CASE tty = <<>> /\ platform = "windows"
  <2>1. stdin = <<>>
    BY <1>5 DEF ToolInv, KeysWereTyped
  <2>2. Len(stdin \o tty) = 0
    BY <1>5, <2>1
  <2> QED
    BY <2>2
<1> QED
  BY <1>1, <1>4, <1>5

\* "The check can be aborted by pressing Esc key.": no call of the callback
\* leaves an Esc as far away as it was, but on Unix where stdio has it.
THEOREM EscApproached == ToolSpec => EscIsApproached
<1>1. ToolInv /\ [ToolNext]_toolvars =>
        [/\ pc = "callback" /\ pc' = "read"
         /\ \E i \in 1 .. Len(stdin \o tty) : (stdin \o tty)[i] = "Esc"
         => \/ Len(stdin' \o tty') < Len(stdin \o tty)
            \/ platform = "unix" /\ tty = <<>>]_toolvars
  BY EscStep
<1> QED
  BY <1>1, ToolInvariance, PTL DEF ToolSpec, EscIsApproached

-----------------------------------------------------------------------------
(* The promise of the manual pages.                                        *)

\* Where a correct checksum passes, the check tells the truth.
Judged == ToolInv /\ CorrectChecksumPasses

\* So the check judges as it should in every state of a tool.
LEMMA JudgedKept ==
  ASSUME CertificatesAreStandard, CertificatesAgree, ~ShortReads
  PROVE  ToolSpec => [](Judged /\ InStep)
<1>1. ToolInit => CorrectChecksumPasses /\ InStep
  BY OnMediumInit DEF ToolInit
<1>2. ToolInv /\ CorrectChecksumPasses /\ InStep /\ [ToolNext]_toolvars =>
        CorrectChecksumPasses' /\ InStep'
  <2> SUFFICES ASSUME ToolInv, CorrectChecksumPasses, InStep, [ToolNext]_toolvars
               PROVE  CorrectChecksumPasses' /\ InStep'
    OBVIOUS
  <2>1. [Next]_vars /\ Inv /\ OnMedium
    BY ToolSteps DEF ToolInv
  <2> QED
    BY <2>1, CorrectChecksumNext, InStepNext
<1>3. ToolInv /\ CorrectChecksumPasses /\ InStep <=> Judged /\ InStep
  BY DEF Judged
<1> QED
  BY <1>1, <1>2, <1>3, ToolInvariance, PTL DEF ToolSpec

\* The exit status is what is promised for what the check found.
LEMMA ExitAsPromised ==
  ASSUME Judged, Exit
  PROVE  Promise!Exit
<1>1. /\ main = "exit" /\ exit_status' = processExitStatus(status)
      /\ UNCHANGED <<options, rc, status, correct, escaped>>
  BY DEF Exit, command, vars, user
<1>2. /\ status \in isomd5sum_status \cup {"usage", "help", "printed"}
      /\ exit_status = NotExited
  BY <1>1 DEF Judged, ToolInv, ToolTypeOK, MainKnows
<1>3. status \in {"CHECK_PASSED", "CHECK_FAILED", "CHECK_ABORTED"} => rc = status /\ Asks
  BY DEF Judged, ToolInv, MainKnows
<1>4. CASE status \in {"usage", "help", "printed"}
  <2>1. ~Asks /\ exit_status' \in {0, 1}
    BY <1>1, <1>4 DEF Judged, ToolInv, MainKnows, processExitStatus
  <2> QED
    BY <1>1, <1>2, <2>1 DEF Promise!Exit, Promise!NotExited, NotExited, Asks
<1>5. CASE status = "CHECK_PASSED"
  <2>1. correct /\ exit_status' = 0
    BY <1>1, <1>3, <1>5
    DEF Judged, ToolInv, CheckKnows, Inv, PassedIsGenuine, processExitStatus
  <2> QED
    BY <1>1, <1>2, <2>1 DEF Promise!Exit, Promise!NotExited, NotExited
<1>6. CASE status \in {"CHECK_FAILED", "CHECK_NOT_FOUND"}
  <2>1. ~correct
    BY <1>3, <1>6 DEF Judged, ToolInv, CheckKnows, MainKnows, CorrectChecksumPasses
  <2>2. exit_status' = 1
    BY <1>1, <1>6 DEF processExitStatus
  <2> QED
    BY <1>1, <1>2, <2>1, <2>2 DEF Promise!Exit, Promise!NotExited, NotExited
<1>7. CASE status = "FILE_NOT_FOUND"
  <2>1. exit_status' = 1
    BY <1>1, <1>7 DEF processExitStatus
  <2> QED
    BY <1>1, <1>2, <1>7, <2>1 DEF Promise!Exit, Promise!NotExited, NotExited
<1>8. CASE status = "CHECK_ABORTED"
  <2>1. escaped /\ Asks /\ exit_status' = 2
    BY <1>1, <1>3, <1>8 DEF Judged, ToolInv, CheckKnows, processExitStatus
  <2> QED
    BY <1>1, <1>2, <2>1 DEF Promise!Exit, Promise!NotExited, NotExited, Asks
<1> QED
  BY <1>2, <1>4, <1>5, <1>6, <1>7, <1>8 DEF isomd5sum_status

\* A file that could not be opened stays one.
LEMMA MissingStays ==
  ASSUME ToolInv, [ToolNext]_toolvars, "FILE_NOT_FOUND" \in {rc, status}
  PROVE  "FILE_NOT_FOUND" \in {rc', status'}
<1>1. CASE rc = "FILE_NOT_FOUND"
  <2>1. pc # "open" /\ pc \notin Loop
    BY <1>1 DEF ToolInv, Inv, InTheVolume, Unopened, Loop
  <2>2. rc' = rc
    <3>1. [Next]_vars
      BY ToolSteps
    <3> QED
      BY <2>1, <3>1
      DEF Next, FileNotFound, NotFound, Rewind, ReadBlock, HashBlock, StopReading, AllRead,
          CallBack, Conclude, Returned, vars, Loop
  <2> QED
    BY <1>1, <2>2
<1>2. CASE status = "FILE_NOT_FOUND"
  <2>1. main \notin {"options", "print", "terminal", "check"}
    BY <1>2 DEF ToolInv, MainKnows
  <2>2. status' = status
    BY <2>1 DEF ToolNext, Main, toolvars, ShowUsage, ReadOptions, PrintMD5SUM, SetTerminal,
                CheckOn, CheckCalls, CheckReturns, Exit, Type, Exited
  <2> QED
    BY <1>2, <2>2
<1> QED
  BY <1>1, <1>2

\* Every step of a tool is one that is promised, or changes nothing of it.
LEMMA StepAsPromised ==
  ASSUME Judged, [ToolNext]_toolvars
  PROVE  [Promise!Next]_(Promise!vars)
<1>1. CASE Exit
  BY <1>1, ExitAsPromised DEF Promise!Next
<1>2. CASE Type
  <2>1. PICK key : escaped' = (escaped \/ key = "Esc")
    BY <1>2 DEF Type
  <2>2. UNCHANGED <<options, correct, rc, status, exit_status>> /\ escaped \in BOOLEAN
    BY <1>2 DEF Type, command, vars, Judged, ToolInv, ToolTypeOK
  <2>3. escaped' = TRUE \/ escaped' = escaped
    BY <2>1, <2>2
  <2> QED
    BY <2>2, <2>3 DEF Promise!Next, Promise!PressEsc, Promise!vars
<1>3. ASSUME ~Exit, ~Type
      PROVE  [Promise!Next]_(Promise!vars)
  <2>1. UNCHANGED <<options, correct, escaped>>
    <3>1. CASE CheckCalls
      BY <3>1, CallsBack
    <3>2. CASE ~CheckCalls
      BY <1>3, <3>2, ToolNextIs, KeysStay
    <3> QED
      BY <3>1, <3>2
  <2>2. exit_status' = exit_status
    BY <1>3 DEF ToolNext, Main, toolvars, ShowUsage, ReadOptions, PrintMD5SUM, SetTerminal,
                CheckOn, CheckCalls, CheckReturns, Exited
  <2>3. CASE UNCHANGED <<rc, status>>
    BY <2>1, <2>2, <2>3 DEF Promise!vars
  <2>4. CASE ~UNCHANGED <<rc, status>>
    <3>1. main # "done"
      BY <1>3, <2>4
      DEF ToolNext, Main, toolvars, ShowUsage, ReadOptions, PrintMD5SUM, SetTerminal,
          CheckOn, CheckCalls, CheckReturns, Exited, vars
    <3>2. exit_status = NotExited
      BY <3>1 DEF Judged, ToolInv, MainKnows
    <3>3. "FILE_NOT_FOUND" \in {rc, status} => "FILE_NOT_FOUND" \in {rc', status'}
      BY MissingStays DEF Judged
    <3>4. \/ ("FILE_NOT_FOUND" \in {rc', status'}) = ("FILE_NOT_FOUND" \in {rc, status})
          \/ ("FILE_NOT_FOUND" \in {rc', status'}) = TRUE
      BY <3>3
    <3> QED
      BY <2>1, <2>2, <3>2, <3>4
      DEF Promise!Next, Promise!OpenFails, Promise!vars, Promise!NotExited, NotExited
  <2> QED
    BY <2>3, <2>4
<1> QED
  BY <1>1, <1>2, <1>3

\* "Program returns exit status 0 if the checksum is correct, 1 if the checksum
\* is incorrect or non-existent, or 2 if the check was aborted.": every
\* behaviour of the tools is, step by step, one of CheckPromise.
THEOREM StepsAsPromised ==
  ASSUME CertificatesAreStandard, CertificatesAgree, ~ShortReads
  PROVE  ToolSpec => Promise!Init /\ [][Promise!Next]_(Promise!vars)
<1>1. ToolInit => Promise!Init
  <2> SUFFICES ASSUME ToolInit
               PROVE  Promise!Init
    OBVIOUS
  <2>1. rc = "none" /\ status = "none" /\ escaped = FALSE /\ exit_status = NotExited
    BY DEF ToolInit, Init
  <2>2. correct \in BOOLEAN
    BY DEF ToolInit
  <2> QED
    BY <2>1, <2>2 DEF Promise!Init, Promise!NotExited, NotExited
<1>2. Judged /\ [ToolNext]_toolvars => [Promise!Next]_(Promise!vars)
  BY StepAsPromised
<1> QED
  BY <1>1, <1>2, JudgedKept, PTL DEF ToolSpec

\* So a tool that ends keeps the whole promise; that it ends is checked by TLC.
THEOREM PromiseIsKept ==
  ASSUME CertificatesAreStandard, CertificatesAgree, ~ShortReads
  PROVE  ToolSpec /\ <>(exit_status # NotExited) => KeepsPromise
<1>1. (exit_status # NotExited) <=> (exit_status # Promise!NotExited)
  BY DEF NotExited, Promise!NotExited
<1> QED
  BY <1>1, StepsAsPromised, PTL DEF KeepsPromise, Promise!Spec
=============================================================================
