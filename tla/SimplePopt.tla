----------------------------- MODULE SimplePopt -----------------------------
(***************************************************************************)
(* simple_popt.h, which stands in for the popt library on Windows:         *)
(* poptGetNextOpt() one round of its loop a step, and what popt itself     *)
(* makes of a command line.  All options are flags whose val is 0, as in   *)
(* every program here, so one call goes through all of them.               *)
(*                                                                         *)
(* An argument is "--name", "-letters" or another text:                    *)
(*   <<"long", name>>  <<"short", letters>>  <<"text", text>>              *)
(* where "--" has the empty name and "-" no letters.  The arguments that    *)
(* poptGetArgs() returns, in their order, are a set of places in argv.     *)
(***************************************************************************)
EXTENDS Integers, Sequences

CONSTANTS
  Options,     \* the program's table: records of longName and shortName, no two
               \* with the same
  CommandLines \* sequences of arguments

VARIABLES
  argv,     \* the arguments after the name of the program
  current,  \* which of them is looked at
  flags,    \* the long names of the options whose variable was set
  returned  \* what poptGetNextOpt() returned

parser == <<argv, current, flags, returned>>

Arguments == ({"long", "text"} \X STRING) \cup ({"short"} \X Seq(STRING))

\* Before poptGetNextOpt() returns.  (The code has no such value.)
NotYet == 1

Init ==
  /\ argv \in CommandLines
  /\ current = 1
  /\ flags = {}
  /\ returned = NotYet

-----------------------------------------------------------------------------

EndOfOptions == <<"long", "">>

\* "-" and every text that does not begin with one.
IsOperand(arg) == arg[1] = "text" \/ arg = <<"short", <<>>>>

\* An option is given by its name or by its letter alone.
Matches(arg, opt) ==
  \/ arg = <<"long", opt.longName>>
  \/ arg = <<"short", <<opt.shortName>>>>

InLoop == returned = NotYet /\ current <= Len(argv)

Return(value) == returned' = value /\ UNCHANGED argv

NoMoreOptions ==
  /\ returned = NotYet
  /\ current > Len(argv)
  /\ Return(-1)
  /\ UNCHANGED <<current, flags>>

StopAtOperand ==
  /\ InLoop
  /\ IsOperand(argv[current])
  /\ Return(-1)
  /\ UNCHANGED <<current, flags>>

StopAtDashes ==
  /\ InLoop
  /\ argv[current] = EndOfOptions
  /\ current' = current + 1
  /\ Return(-1)
  /\ UNCHANGED flags

\* (Mutant first: the loop is left after the first flag, as if val were not 0.)
SetFlag_Returns ==
  /\ InLoop
  /\ \E opt \in Options :
       Matches(argv[current], opt) /\ flags' = flags \cup {opt.longName}
  /\ current' = current + 1
  /\ Return(-1)

\* The variable of the option is set, and the loop goes on.
SetFlag ==
  /\ InLoop
  /\ \E opt \in Options :
       Matches(argv[current], opt) /\ flags' = flags \cup {opt.longName}
  /\ current' = current + 1
  /\ UNCHANGED <<argv, returned>>

BadOption ==
  /\ InLoop
  /\ ~IsOperand(argv[current]) /\ argv[current] # EndOfOptions
  /\ \A opt \in Options : ~Matches(argv[current], opt)
  /\ current' = current + 1
  /\ Return(-2)
  /\ UNCHANGED flags

\* A round of the loop of poptGetNextOpt(), or its end.
poptGetNextOpt ==
  \/ NoMoreOptions
  \/ StopAtOperand
  \/ StopAtDashes
  \/ SetFlag
  \/ BadOption

\* What poptGetArgs() returns then.
poptGetArgs == current .. Len(argv)

-----------------------------------------------------------------------------
(* popt itself, as far as the programs use it: options may come anywhere   *)
(* before "--", letters may be put together, and what is no option is left *)
(* for poptGetArgs().                                                      *)

\* How many arguments there are before "--".
BeforeDashes(line) ==
  CHOOSE n \in 0 .. Len(line) :
    /\ \A i \in 1 .. n : line[i] # EndOfOptions
    /\ n = Len(line) \/ line[n + 1] = EndOfOptions

\* The options an argument names.
Named(arg) ==
  {opt \in Options :
     \/ arg = <<"long", opt.longName>>
     \/ arg[1] = "short" /\ \E i \in DOMAIN arg[2] : arg[2][i] = opt.shortName}

\* Every name or letter in it is that of an option.
Known(arg) ==
  IF arg[1] = "long" THEN Named(arg) # {}
  ELSE \A i \in DOMAIN arg[2] : \E opt \in Options : opt.shortName = arg[2][i]

popt(line) ==
  LET n       == BeforeDashes(line)
      options == {line[i] : i \in {j \in 1 .. n : ~IsOperand(line[j])}}
  IN  [bad   |-> \E arg \in options : ~Known(arg),
       flags |-> {opt.longName : opt \in UNION {Named(arg) : arg \in options}},
       args  |-> {i \in DOMAIN line : i > n + 1 \/ (i <= n /\ IsOperand(line[i]))}]

\* All options come first, each letter by itself.
IsConventional(line) ==
  \E n \in 0 .. Len(line) :
    /\ \A i \in 1 .. n : ~IsOperand(line[i]) /\ line[i] # EndOfOptions
    /\ \A i \in 1 .. n : line[i][1] = "short" => Len(line[i][2]) = 1
    /\ \/ \A i \in (n + 1) .. Len(line) : IsOperand(line[i])
       \/ n < Len(line) /\ line[n + 1] = EndOfOptions
=============================================================================
