---------------------------- MODULE CheckPromise ----------------------------
(***************************************************************************)
(* What checkisomd5.1 and checkisosha.1 promise to who runs the tool: "The *)
(* check can be aborted by pressing Esc key." and "Program returns exit    *)
(* status 0 if the checksum is correct, 1 if the checksum is incorrect or  *)
(* non-existent, or 2 if the check was aborted."  CheckTool implements it. *)
(***************************************************************************)
EXTENDS Naturals

VARIABLES
  asked,       \* the tool is asked for a check, not for its usage or the stored sums
  correct,     \* there is a checksum on the medium, and it is correct
  missing,     \* the file could not be opened
  escaped,     \* Esc was pressed
  exit_status  \* 0, 1 or 2 when the program has ended

NotExited == 3

vars == <<asked, correct, missing, escaped, exit_status>>

Init ==
  /\ asked \in BOOLEAN
  /\ correct \in BOOLEAN
  /\ missing = FALSE
  /\ escaped = FALSE
  /\ exit_status = NotExited

PressEsc ==
  /\ escaped' = TRUE
  /\ UNCHANGED <<asked, correct, missing, exit_status>>

OpenFails ==
  /\ exit_status = NotExited
  /\ missing' = TRUE
  /\ UNCHANGED <<asked, correct, escaped, exit_status>>

Exit ==
  /\ exit_status = NotExited
  /\ \/ exit_status' = 0 /\ (correct \/ ~asked)
     \/ exit_status' = 1 /\ (~correct \/ missing \/ ~asked)
     \/ exit_status' = 2 /\ asked /\ escaped
  /\ UNCHANGED <<asked, correct, missing, escaped>>

Next == PressEsc \/ OpenFails \/ Exit

Spec == Init /\ [][Next]_vars /\ <>(exit_status # NotExited)
=============================================================================
