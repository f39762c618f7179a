------------------------------ MODULE PyBinding ------------------------------
(***************************************************************************)
(* The Python module pyisomd5sum: a Python program implants and checks an  *)
(* image, with or without a callback, as often as it likes.  The module    *)
(* keeps the interpreter lock, so the program does nothing during a check  *)
(* but what its callback does.  The callback is a Python object: it may    *)
(* answer, raise an exception, or answer what has no truth value, and it   *)
(* lives as long as its reference count is above zero.                     *)
(***************************************************************************)
EXTENDS Certificate

CONSTANTS
  Media,    \* the media, see MediaCheck
  Prefetch, \* by how much the kernel may overstate what it returned
  Held,     \* how many references to its callback the program begins with
  MaxCalls  \* how many calls of the module it makes at most

ASSUME BindingAssumption == Held \in Nat /\ MaxCalls \in Nat

VARIABLES
  \* the check, see MediaCheck
  image, unreadable, pc, info, fdpos, offset, ctx, previous_fragment, reported, bail, rc,
  \* the Python program and the interpreter
  running,  \* the function of the module that runs, or "program"
  calls,    \* how many calls were made
  checks,   \* how many of them were checks with the callback
  outcome,  \* what the program got from the last: a value or "exception"
  pending,  \* whether an exception is set in the interpreter
  held,     \* the references to the callback that the program has
  refs,     \* the reference count of the callback
  \* history of the check
  answered, \* whether the callback answered true when told how much is hashed
  raised    \* whether the callback, or the truth of its answer, raised an exception

medium == <<image, unreadable>>

check == <<pc, info, fdpos, offset, ctx, previous_fragment, reported, bail, rc>>

references == <<held, refs>>

history == <<answered, raised>>

vars == <<medium, check, running, calls, checks, outcome, pending, references, history>>

WithCallback == INSTANCE MediaCheck WITH HasCallback <- TRUE, ShortReads <- FALSE

WithoutCallback == INSTANCE MediaCheck WITH HasCallback <- FALSE, ShortReads <- FALSE

Init ==
  /\ WithCallback!Init
  /\ running = "program"
  /\ calls = 0
  /\ checks = 0
  /\ outcome = "none"
  /\ pending = FALSE
  /\ held = Held
  /\ refs = Held
  /\ answered = FALSE
  /\ raised = FALSE

-----------------------------------------------------------------------------

\* A new call of mediaCheckFile() has variables of its own.
FreshCheck ==
  /\ pc' = "open"
  /\ info' = Uninitialized
  /\ fdpos' = 0
  /\ offset' = 0
  /\ ctx' = <<>>
  /\ previous_fragment' = 0
  /\ reported' = 0
  /\ bail' = FALSE
  /\ rc' = "none"

Call ==
  /\ running = "program"
  /\ calls < MaxCalls
  /\ calls' = calls + 1

\* What a call of the callback can lead to.
Results == {"true", "false", "no truth value", "exception"}

\* (Mutant first: the exception is printed, and so cleared.)
pythonCB_Prints(result) ==
  [value |-> result \in {"true", "exception"}, pending |-> FALSE]

\* pythonCB(): 1 if the object returned true or no result came of the call,
\* 0 if it returned false or its truth cannot be told.  An exception stays
\* set, and with one set the interpreter takes any result for an error.
pythonCB(result) ==
  [value   |-> pending \/ result \in {"true", "exception"},
   pending |-> pending \/ result \in {"no truth value", "exception"}]

\* The argument tuple has a reference to the callback; PyArg_ParseTuple()
\* gives doCheckIsoMD5Sum() the pointer without one.
TakeReference == refs' = refs + 1

\* (Mutant first: once more, as if pythonCB() had taken one.)
ReleaseReferences_Twice == refs' = refs - 3

\* doCheckIsoMD5Sum() releases a reference it does not have, then the
\* interpreter releases the argument tuple.
ReleaseReferences == refs' = refs - 2

-----------------------------------------------------------------------------

\* checkisomd5sum(isofile, callback).  A program that has no reference to the
\* callback cannot pass it; what becomes of one that was freed is not said.
CheckWithCallback ==
  /\ Call
  /\ held > 0 /\ refs > 0
  /\ running' = "doCheckIsoMD5Sum"
  /\ TakeReference
  /\ FreshCheck
  /\ answered' = FALSE
  /\ raised' = FALSE
  /\ UNCHANGED <<medium, checks, outcome, pending, held>>

\* checkisomd5sum(isofile)
CheckWithoutCallback ==
  /\ Call
  /\ running' = "doCheckIsoMD5Sum without callback"
  /\ FreshCheck
  /\ UNCHANGED <<medium, checks, outcome, pending, references, history>>

\* checkisomd5sum(isofile, object) of an object that cannot be called.
NotCallable ==
  /\ Call
  /\ FreshCheck
  /\ outcome' = "exception"
  /\ UNCHANGED <<medium, running, checks, pending, references, history>>

\* What mediaCheckFile() does between two calls of its callback.
CheckRuns ==
  /\ running = "doCheckIsoMD5Sum"
  /\ \/ WithCallback!FileNotFound
     \/ WithCallback!NotFound
     \/ WithCallback!ReadBlock
     \/ WithCallback!StopReading
     \/ WithCallback!AllRead
  /\ UNCHANGED <<running, calls, checks, outcome, pending, references, history>>

\* mediaCheckFile() calls pythonCB(): before and after the loop, where the
\* value is not looked at, and in the loop, where it may abort the check.
CallsBack ==
  /\ running = "doCheckIsoMD5Sum"
  /\ \E result \in Results :
       LET cb == pythonCB(result)
       IN  /\ \/ /\ WithCallback!Rewind \/ WithCallback!Conclude
                /\ bail' = (bail \/ cb.value)
                /\ UNCHANGED answered
             \/ /\ WithCallback!CallBack
                /\ (rc' = "CHECK_ABORTED") = cb.value
                /\ answered' = (answered \/ result = "true")
           /\ pending' = cb.pending
           /\ raised' = (raised \/ result \in {"no truth value", "exception"})
  /\ UNCHANGED <<running, calls, checks, outcome, references>>

PlainCheckRuns ==
  /\ running = "doCheckIsoMD5Sum without callback"
  /\ pc # "done"
  /\ WithoutCallback!Next
  /\ UNCHANGED <<running, calls, checks, outcome, pending, references, history>>

\* A reference to the callback is dropped by the program, which may happen in
\* the callback itself.
Forget ==
  /\ running = "program" \/ (running = "doCheckIsoMD5Sum" /\ pc = "callback")
  /\ held > 0
  /\ held' = held - 1
  /\ refs' = refs - 1
  /\ UNCHANGED <<medium, check, running, calls, checks, outcome, pending, history>>

\* The value is returned, or the exception that is set when it is returned.
CheckReturns ==
  /\ running = "doCheckIsoMD5Sum"
  /\ pc = "done"
  /\ running' = "program"
  /\ outcome' = IF pending THEN "exception" ELSE rc
  /\ pending' = FALSE
  /\ checks' = checks + 1
  /\ ReleaseReferences
  /\ UNCHANGED <<medium, check, calls, held, history>>

PlainCheckReturns ==
  /\ running = "doCheckIsoMD5Sum without callback"
  /\ pc = "done"
  /\ running' = "program"
  /\ outcome' = rc
  /\ UNCHANGED <<medium, check, calls, checks, pending, references, history>>

\* implantisomd5sum(isofile, supported, forceit).  The steps of the implanter
\* are the subject of Implant; this is what they come to when no write fails.
doImplantIsoMD5Sum ==
  /\ Call
  /\ \E supported \in {0, 1}, forceit \in BOOLEAN :
       \/ /\ HasPrimary(image, unreadable)
          /\ isosize(image) # 0
          /\ forceit \/ AppDataOf(image) = BlankAppData
          /\ image' = ImplantedUpTo(image, ReadablePart(image, unreadable), "MD5", supported)
          /\ outcome' = 0
       \/ /\ \/ ~HasPrimary(image, unreadable)
             \/ isosize(image) = 0
             \/ ~forceit /\ AppDataOf(image) # BlankAppData
          /\ outcome' = -1
          /\ UNCHANGED image
  /\ FreshCheck
  /\ UNCHANGED <<unreadable, running, checks, pending, references, history>>

Exit == running = "program" /\ UNCHANGED vars

Next ==
  \/ CheckWithCallback
  \/ CheckWithoutCallback
  \/ NotCallable
  \/ CheckRuns
  \/ CallsBack
  \/ PlainCheckRuns
  \/ Forget
  \/ CheckReturns
  \/ PlainCheckReturns
  \/ doImplantIsoMD5Sum
  \/ Exit

Spec == Init /\ [][Next]_vars

-----------------------------------------------------------------------------

\* pyisomd5sum.c: "If the object returns true return 1 to abort the check".
\* What the program gets from a check tells what its callback did: an
\* exception if, and only if, the callback or the truth of an answer raised
\* one at any of its calls, though pythonCB() makes that a plain 0 or 1 and
\* the check goes on; "aborted" if, and only if, it answered true while the
\* volume was hashed.
OutcomeTellsTheAnswers ==
  [][running = "doCheckIsoMD5Sum" /\ running' = "program" =>
       /\ (outcome' = "exception") = raised
       /\ (outcome' = "CHECK_ABORTED") = (answered /\ ~raised)]_vars

\* pyisomd5sum.c hands the callback on without a reference of its own.  The
\* callback is alive whenever the check may call it, also if the program drops
\* references in the callback itself, as long as the program has no fewer of
\* them than it made checks with the callback before: each of those released
\* one that was not its own.  Between checks it is alive as long as the program
\* has more.  (One should be enough: see the README.)
CallbackLives ==
  /\ running = "doCheckIsoMD5Sum" /\ held >= checks => refs > 0
  /\ running # "doCheckIsoMD5Sum" /\ held > checks => refs > 0
=============================================================================
