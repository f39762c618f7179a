----------------------------- MODULE ImplantTool -----------------------------
(***************************************************************************)
(* main() of implantisomd5.c and implantisosha.c, which differ in the      *)
(* library they call only: the command line is parsed, by popt or on       *)
(* Windows by simple_popt.h, the image is implanted, and the exit status   *)
(* tells whether it was.                                                   *)
(***************************************************************************)
EXTENDS Implant

CONSTANTS
  CommandLines, \* the command lines, see SimplePopt
  ImageName     \* the argument that names the image

VARIABLES
  platform,    \* "unix" or "windows"
  main,        \* where main() is
  exit_status, \* the exit status, or NotExited
  argv, current, flags, returned \* the option parser, see SimplePopt

Options ==
  {[longName |-> "force", shortName |-> "f"],
   [longName |-> "supported-iso", shortName |-> "S"],
   [longName |-> "help", shortName |-> "h"]}

Parser == INSTANCE SimplePopt

\* The library may be asked for anything.
ASSUME ToolAssumption ==
  /\ CommandLines \subseteq Seq(Parser!Arguments)
  /\ Requests = [alg : Algorithms, forceit : BOOLEAN, supported : {0, 1}]

\* What the variables forceit and supported of main() begin with.
NothingAsked == [alg : Algorithms, forceit : {FALSE}, supported : {0}]

parser == <<argv, current, flags, returned>>

library ==
  <<image, unreadable, faults, pc, volume, fdpos, hashing, rc>>

toolvars == <<vars, platform, main, exit_status, parser>>

NotExited == -1

ToolInit ==
  /\ Init
  /\ request \in NothingAsked
  /\ platform \in {"unix", "windows"}
  /\ main = "options"
  /\ exit_status = NotExited
  /\ Parser!Init

-----------------------------------------------------------------------------

Exit(status) == main' = "exit" /\ exit_status' = status

\* (Mutant first: the arguments of the library are swapped.)
Asked_Swapped(set) ==
  [alg |-> request.alg, forceit |-> "supported-iso" \in set,
   supported |-> IF "force" \in set THEN 1 ELSE 0]

\* What the library is called with for the flags that are set.
Asked(set) ==
  [alg |-> request.alg, forceit |-> "force" \in set,
   supported |-> IF "supported-iso" \in set THEN 1 ELSE 0]

\* What main() does with what the parser found: it asks the library for an
\* image, or it exits with a status.
Proceeds(bad, set, args) ==
  LET first == argv[CHOOSE i \in args : \A j \in args : i <= j]
  IN  IF bad THEN [to |-> "exit", status |-> 1]
      ELSE IF "help" \in set THEN [to |-> "exit", status |-> 0]
      ELSE IF args = {} \/ first = <<"text", "">> THEN [to |-> "exit", status |-> 1]
      ELSE [to      |-> IF first = ImageName THEN "implant" ELSE "nofile",
            request |-> Asked(set)]

ParseOptions(bad, set, args) ==
  LET next == Proceeds(bad, set, args)
  IN  /\ main' = next.to
      /\ IF next.to = "exit" THEN exit_status' = next.status /\ UNCHANGED request
         ELSE request' = next.request /\ UNCHANGED exit_status

\* popt parses the command line.
ParseOnUnix ==
  /\ main = "options"
  /\ platform = "unix"
  /\ LET line == Parser!popt(argv) IN ParseOptions(line.bad, line.flags, line.args)
  /\ UNCHANGED <<platform, parser, library>>

\* poptGetNextOpt() of simple_popt.h goes on.
NextOption ==
  /\ main = "options"
  /\ platform = "windows"
  /\ Parser!poptGetNextOpt
  /\ UNCHANGED <<vars, platform, main, exit_status>>

ParseOnWindows ==
  /\ main = "options"
  /\ platform = "windows"
  /\ returned # Parser!NotYet
  /\ ParseOptions(returned < -1, flags, Parser!poptGetArgs)
  /\ UNCHANGED <<platform, parser, library>>

\* The library is at work.
Implanting ==
  /\ main = "implant"
  /\ Step
  /\ UNCHANGED <<platform, main, exit_status, parser>>

\* There is no file of the name.
NoFile ==
  /\ main = "nofile"
  /\ pc = "open"
  /\ OpenFails
  /\ UNCHANGED <<platform, main, exit_status, parser>>

\* (Mutant first: the value of the library is not looked at.)
ImplantReturns_Unchecked ==
  /\ main \in {"implant", "nofile"}
  /\ pc = "done"
  /\ Exit(0)
  /\ UNCHANGED <<vars, platform, parser>>

\* Whatever error the library returns, the status is 1.
ImplantReturns ==
  /\ main \in {"implant", "nofile"}
  /\ pc = "done"
  /\ Exit(IF rc = 0 THEN 0 ELSE 1)
  /\ UNCHANGED <<vars, platform, parser>>

Exited == main = "exit" /\ UNCHANGED toolvars

ToolNext ==
  \/ ParseOnUnix
  \/ NextOption
  \/ ParseOnWindows
  \/ Implanting
  \/ NoFile
  \/ ImplantReturns
  \/ Exited

ToolSpec == ToolInit /\ [][ToolNext]_toolvars

-----------------------------------------------------------------------------

\* simple_popt.h: "mimic real popt".  On Windows the tools do what they do on
\* Unix for every command line that has its options first and one by one: the
\* same flags, the same file, the same complaints.
WindowsAsUnix ==
  [][main = "options" /\ main' # "options" /\ Parser!IsConventional(argv) =>
       LET line == Parser!popt(argv)
           next == Proceeds(line.bad, line.flags, line.args)
       IN  /\ main' = next.to
           /\ IF next.to = "exit" THEN exit_status' = next.status
              ELSE request' = next.request]_toolvars

\* Whether the command line has the letter or name of the option somewhere.
OnTheLine(opt) == \E i \in DOMAIN argv : opt \in {o.longName : o \in Parser!Named(argv[i])}

\* What the two properties below require of the devices: no read or write
\* stops early, and the application data can be read.  Writes may fail.
DevicesAreWhole ==
  \A m \in Media :
    /\ m.faults \subseteq {"write error"}
    /\ \A o \in AppDataStart(m.image) .. (AppDataStart(m.image) + APPDATA_SIZE - 1) :
         o \notin m.unreadable

\* An exit status of 0 says that the usage was asked for, or that the image
\* has a certificate of its content, marked as supported only if that was
\* asked for; or else, where errno may be 0, that the file ends before its
\* application data and is as it was: the one success that is none.
ZeroMeansImplanted ==
  exit_status = 0 /\ ~OnTheLine("help") =>
    \/ /\ HoldsAppData
       /\ \E supported \in IF OnTheLine("supported-iso") THEN {0, 1} ELSE {0},
             alg \in Algorithms :
            AppDataOf(image)
              = NewAppData(alg, HashSum(image, ReadablePart(image, unreadable), alg), supported,
                           FragmentSums(image, ReadablePart(image, unreadable), alg))
    \/ ~HoldsAppData /\ Untouched /\ 0 \in Errnos

\* implantisomd5.1: "Force an existing checksum to be overwritten."  Nothing
\* but the force option makes the tools touch application data in use, on
\* either platform, wherever the option stands.
UsedDataNeedsForce ==
  [][image' # image => AppDataOf(image) = BlankAppData \/ OnTheLine("force")]_toolvars
=============================================================================
