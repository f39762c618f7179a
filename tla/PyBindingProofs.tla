--------------------------- MODULE PyBindingProofs ---------------------------
(***************************************************************************)
(* Proofs about the Python module, for programs that make any number of    *)
(* calls, with media, callbacks and checks of any kind.  Two things are    *)
(* followed through a check: each reference to the callback, and what the  *)
(* callback answered or raised.  Of the check itself the proofs use only   *)
(* that it returns a status once and that only an answer aborts it.        *)
(***************************************************************************)
EXTENDS PyBinding, TLAPS

-----------------------------------------------------------------------------
(* The steps of a check that the binding does not look into.               *)

checking == running = "doCheckIsoMD5Sum"

\* The steps between two calls of the callback return no "CHECK_ABORTED".
LEMMA RunsDoNotAbort ==
  ASSUME CheckRuns
  PROVE  /\ running' = running
         /\ UNCHANGED <<calls, checks, outcome, pending, held, refs, answered, raised>>
         /\ pc \in {"open", "read"}
         /\ \/ pc' \in {"open", "read", "callback", "finish"} /\ rc' = rc
            \/ pc' = "done" /\ rc' \in {"FILE_NOT_FOUND", "CHECK_NOT_FOUND", "CHECK_FAILED"}
<1>1. /\ running' = running
      /\ UNCHANGED <<calls, checks, outcome, pending, held, refs, answered, raised>>
  BY DEF CheckRuns, references, history
<1>2. CASE WithCallback!FileNotFound
  BY <1>1, <1>2 DEF WithCallback!FileNotFound, WithCallback!Return
<1>3. CASE WithCallback!NotFound
  BY <1>1, <1>3 DEF WithCallback!NotFound, WithCallback!Return
<1>4. CASE WithCallback!ReadBlock
  <2>1. PICK r \in 1 .. (WithCallback!buffer_size + Prefetch) : WithCallback!HashBlock(r)
    BY <1>4 DEF WithCallback!ReadBlock
  <2> QED
    BY <1>1, <2>1 DEF WithCallback!HashBlock, WithCallback!Return
<1>5. CASE WithCallback!StopReading
  BY <1>1, <1>5 DEF WithCallback!StopReading
<1>6. CASE WithCallback!AllRead
  BY <1>1, <1>6 DEF WithCallback!AllRead
<1> QED
  BY <1>2, <1>3, <1>4, <1>5, <1>6 DEF CheckRuns

-----------------------------------------------------------------------------
(* The inductive invariant.                                                *)

\* Every check with the callback gives away a reference of the program's;
\* while one runs, its arguments have one more.
ReferencesGiven ==
  /\ held \in Nat
  /\ checks \in Nat
  /\ refs = held - checks + (IF checking THEN 1 ELSE 0)

Statuses ==
  {"FILE_NOT_FOUND", "CHECK_NOT_FOUND", "CHECK_FAILED", "CHECK_PASSED", "CHECK_ABORTED"}

\* A check has a status when it is done, and not before.
StatusWhenDone ==
  checking =>
    /\ pc \in {"open", "read", "callback", "finish", "done"}
    /\ pc # "done" => rc = "none"
    /\ pc = "done" => rc \in Statuses

\* What was raised is pending until the check returns.  As long as nothing
\* was, the check was aborted if and only if the callback answered true.
AnswersTold ==
  /\ running \in {"program", "doCheckIsoMD5Sum", "doCheckIsoMD5Sum without callback"}
  /\ pending \in BOOLEAN /\ raised \in BOOLEAN /\ answered \in BOOLEAN
  /\ ~checking => ~pending
  /\ checking => (pending <=> raised)
  /\ checking /\ ~raised => (rc = "CHECK_ABORTED" <=> answered)

Inv == ReferencesGiven /\ StatusWhenDone /\ AnswersTold

\* At the beginning the program has all references.
LEMMA InitInv == Init => Inv
<1> SUFFICES ASSUME Init
             PROVE  Inv
  OBVIOUS
<1>1. ReferencesGiven
  <2>1. Held \in Nat
    BY BindingAssumption
  <2> QED
    BY <2>1 DEF Init, ReferencesGiven, checking
<1>2. StatusWhenDone /\ AnswersTold
  BY DEF Init, StatusWhenDone, AnswersTold, checking
<1> QED
  BY <1>1, <1>2 DEF Inv

\* References change hands in three places only.
LEMMA ReferencesStep ==
  ASSUME Inv, [Next]_vars
  PROVE  ReferencesGiven'
<1>0. /\ held \in Nat /\ checks \in Nat
      /\ refs = held - checks + (IF checking THEN 1 ELSE 0)
  BY DEF Inv, ReferencesGiven
<1>1. CASE CheckWithCallback
  <2>1. ~checking /\ checking' /\ refs' = refs + 1 /\ held' = held /\ checks' = checks
    BY <1>1 DEF CheckWithCallback, Call, TakeReference, checking
  <2> QED
    BY <1>0, <2>1 DEF ReferencesGiven
<1>2. CASE CheckWithoutCallback \/ NotCallable \/ PlainCheckRuns \/ PlainCheckReturns \/ doImplantIsoMD5Sum
  <2>1. ~checking /\ ~checking' /\ UNCHANGED <<refs, held, checks>>
    BY <1>2 DEF CheckWithoutCallback, NotCallable, PlainCheckRuns, PlainCheckReturns,
                doImplantIsoMD5Sum, Call, references, checking
  <2> QED
    BY <1>0, <2>1 DEF ReferencesGiven
<1>3. CASE CheckRuns \/ CallsBack
  <2>1. running' = running /\ UNCHANGED <<refs, held, checks>>
    BY <1>3, RunsDoNotAbort DEF CallsBack, references
  <2> QED
    BY <1>0, <2>1 DEF ReferencesGiven, checking
<1>4. CASE Forget
  <2>1. held > 0 /\ held' = held - 1 /\ refs' = refs - 1 /\ running' = running /\ checks' = checks
    BY <1>4 DEF Forget
  <2> QED
    BY <1>0, <2>1 DEF ReferencesGiven, checking
<1>5. CASE CheckReturns
  <2>1. checking /\ ~checking' /\ refs' = refs - 2 /\ checks' = checks + 1 /\ held' = held
    BY <1>5 DEF CheckReturns, ReleaseReferences, checking
  <2> QED
    BY <1>0, <2>1 DEF ReferencesGiven
<1>6. CASE UNCHANGED vars
  BY <1>0, <1>6 DEF vars, references, ReferencesGiven, checking
<1> QED
  BY <1>1, <1>2, <1>3, <1>4, <1>5, <1>6 DEF Next, Exit

\* What a call of the callback does to the check, for each result.
LEMMA CallsBackDoes ==
  ASSUME CallsBack
  PROVE  /\ checking /\ running' = running
         /\ \E result \in Results :
              /\ pending' = (pending \/ result \in {"no truth value", "exception"})
              /\ raised' = (raised \/ result \in {"no truth value", "exception"})
              /\ \/ /\ pc = "open" /\ pc' = "read" /\ rc' = rc /\ answered' = answered
                 \/ /\ pc = "finish" /\ pc' = "done" /\ rc' \in {"CHECK_PASSED", "CHECK_FAILED"}
                    /\ answered' = answered
                 \/ /\ pc = "callback"
                    /\ \/ pc' = "read" /\ rc' = rc
                       \/ pc' = "done" /\ rc' = "CHECK_ABORTED"
                    /\ (rc' = "CHECK_ABORTED") = (pending \/ result \in {"true", "exception"})
                    /\ answered' = (answered \/ result = "true")
<1>1. PICK result \in Results :
        LET cb == pythonCB(result)
        IN  /\ \/ /\ WithCallback!Rewind \/ WithCallback!Conclude
                  /\ bail' = (bail \/ cb.value)
                  /\ UNCHANGED answered
               \/ /\ WithCallback!CallBack
                  /\ (rc' = "CHECK_ABORTED") = cb.value
                  /\ answered' = (answered \/ result = "true")
            /\ pending' = cb.pending
            /\ raised' = (raised \/ result \in {"no truth value", "exception"})
  BY DEF CallsBack
<1>2. /\ pythonCB(result).value = (pending \/ result \in {"true", "exception"})
      /\ pythonCB(result).pending = (pending \/ result \in {"no truth value", "exception"})
  BY DEF pythonCB
<1>3. WithCallback!Rewind => pc = "open" /\ pc' = "read" /\ rc' = rc
  BY DEF WithCallback!Rewind
<1>4. WithCallback!Conclude =>
        pc = "finish" /\ pc' = "done" /\ rc' \in {"CHECK_PASSED", "CHECK_FAILED"}
  BY DEF WithCallback!Conclude, WithCallback!Return, WithCallback!Verdict
<1>5. WithCallback!CallBack =>
        /\ pc = "callback"
        /\ \/ pc' = "read" /\ rc' = rc
           \/ pc' = "done" /\ rc' = "CHECK_ABORTED"
  BY DEF WithCallback!CallBack, WithCallback!Return
<1>6. checking /\ running' = running
  BY DEF CallsBack, checking
<1> HIDE DEF pythonCB
<1> QED
  BY <1>1, <1>2, <1>3, <1>4, <1>5, <1>6, Zenon

\* A status is given once, and what the callback answered and raised is not
\* lost before the check returns.
LEMMA AnswersStep ==
  ASSUME Inv, [Next]_vars
  PROVE  StatusWhenDone' /\ AnswersTold'
<1>0. StatusWhenDone /\ AnswersTold
  BY DEF Inv
<1>1. CASE CheckWithCallback
  <2>1. /\ ~checking /\ running' = "doCheckIsoMD5Sum" /\ pc' = "open" /\ rc' = "none"
        /\ answered' = FALSE /\ raised' = FALSE /\ pending' = pending
    BY <1>1 DEF CheckWithCallback, Call, FreshCheck, checking
  <2>2. pending' = FALSE
    BY <1>0, <2>1 DEF AnswersTold
  <2> QED
    BY <2>1, <2>2 DEF StatusWhenDone, AnswersTold, checking
<1>2. CASE CheckWithoutCallback \/ NotCallable \/ PlainCheckRuns \/ PlainCheckReturns \/ doImplantIsoMD5Sum
  <2>1. /\ ~checking /\ ~checking'
        /\ running' \in {running, "program", "doCheckIsoMD5Sum without callback"}
        /\ UNCHANGED <<pending, answered, raised>>
    BY <1>2 DEF CheckWithoutCallback, NotCallable, PlainCheckRuns, PlainCheckReturns,
                doImplantIsoMD5Sum, Call, history, checking
  <2> QED
    BY <1>0, <2>1 DEF StatusWhenDone, AnswersTold, checking
<1>3. CASE CheckRuns
  <2>1. /\ running' = running /\ UNCHANGED <<pending, answered, raised>>
        /\ pc \in {"open", "read"}
        /\ \/ pc' \in {"open", "read", "callback", "finish"} /\ rc' = rc
           \/ pc' = "done" /\ rc' \in {"FILE_NOT_FOUND", "CHECK_NOT_FOUND", "CHECK_FAILED"}
    BY <1>3, RunsDoNotAbort
  <2>2. checking /\ checking'
    BY <1>3, <2>1 DEF CheckRuns, checking
  <2>3. rc = "none"
    BY <1>0, <2>1, <2>2 DEF StatusWhenDone
  <2>4. StatusWhenDone'
    BY <2>1, <2>2, <2>3 DEF StatusWhenDone, Statuses
  <2>5. rc # "CHECK_ABORTED" /\ rc' # "CHECK_ABORTED"
    BY <2>1, <2>3
  <2>6. AnswersTold'
    BY <1>0, <2>1, <2>2, <2>5 DEF AnswersTold, checking
  <2> QED
    BY <2>4, <2>6
<1>4. CASE CallsBack
  <2>1. checking /\ checking' /\ running' = running
    BY <1>4, CallsBackDoes DEF checking
  <2>2. PICK result \in Results :
          /\ pending' = (pending \/ result \in {"no truth value", "exception"})
          /\ raised' = (raised \/ result \in {"no truth value", "exception"})
          /\ \/ /\ pc = "open" /\ pc' = "read" /\ rc' = rc /\ answered' = answered
             \/ /\ pc = "finish" /\ pc' = "done" /\ rc' \in {"CHECK_PASSED", "CHECK_FAILED"}
                /\ answered' = answered
             \/ /\ pc = "callback"
                /\ \/ pc' = "read" /\ rc' = rc
                   \/ pc' = "done" /\ rc' = "CHECK_ABORTED"
                /\ (rc' = "CHECK_ABORTED") = (pending \/ result \in {"true", "exception"})
                /\ answered' = (answered \/ result = "true")
    BY <1>4, CallsBackDoes
  <2>3. rc = "none" /\ pending \in BOOLEAN /\ raised \in BOOLEAN /\ answered \in BOOLEAN
    BY <1>0, <2>1, <2>2 DEF StatusWhenDone, AnswersTold
  <2>4. (pending <=> raised) /\ (~raised => ~answered)
    BY <1>0, <2>1, <2>3 DEF AnswersTold
  <2>5. StatusWhenDone'
    BY <2>1, <2>2, <2>3 DEF StatusWhenDone, Statuses
  <2>6. pending' \in BOOLEAN /\ raised' \in BOOLEAN /\ answered' \in BOOLEAN
    BY <2>2, <2>3
  <2>7. pending' <=> raised'
    BY <2>2, <2>4
  <2>8. ASSUME ~raised'
        PROVE  rc' = "CHECK_ABORTED" <=> answered'
    <3>1. ~raised /\ ~pending /\ ~answered /\ result # "exception"
      BY <2>2, <2>4, <2>8
    <3>2. CASE answered' = answered /\ rc' \in {rc, "CHECK_PASSED", "CHECK_FAILED"}
      BY <2>3, <3>1, <3>2
    <3>3. CASE /\ (rc' = "CHECK_ABORTED") = (pending \/ result \in {"true", "exception"})
               /\ answered' = (answered \/ result = "true")
      BY <3>1, <3>3
    <3> QED
      BY <2>2, <3>2, <3>3
  <2>9. AnswersTold'
    BY <1>0, <2>1, <2>6, <2>7, <2>8 DEF AnswersTold, checking
  <2> QED
    BY <2>5, <2>9
<1>5. CASE Forget
  <2>1. UNCHANGED <<pc, rc, running, pending, answered, raised>>
    BY <1>5 DEF Forget, check, history
  <2> QED
    BY <1>0, <2>1 DEF StatusWhenDone, AnswersTold, checking
<1>6. CASE CheckReturns
  <2>1. running' = "program" /\ pending' = FALSE /\ UNCHANGED <<answered, raised>>
    BY <1>6 DEF CheckReturns, history
  <2> QED
    BY <1>0, <2>1 DEF StatusWhenDone, AnswersTold, checking
<1>7. CASE UNCHANGED vars
  <2>1. UNCHANGED <<pc, rc, running, pending, answered, raised>>
    BY <1>7 DEF vars, check, history
  <2> QED
    BY <1>0, <2>1 DEF StatusWhenDone, AnswersTold, checking
<1> QED
  BY <1>1, <1>2, <1>3, <1>4, <1>5, <1>6, <1>7 DEF Next, Exit

\* The invariant holds in every state of every program.
THEOREM Invariance == Spec => []Inv
<1>1. Inv /\ [Next]_vars => Inv'
  BY ReferencesStep, AnswersStep DEF Inv
<1> QED
  BY <1>1, InitInv, PTL DEF Spec

-----------------------------------------------------------------------------

\* The callback that a check calls is alive while the program has as many
\* references to it as it made checks with it before, whatever those came to
\* and wherever it drops some; and so it is between checks if it has more.
THEOREM CallbackIsAlive == Spec => []CallbackLives
<1>1. Inv => CallbackLives
  BY DEF Inv, ReferencesGiven, CallbackLives, checking
<1> QED
  BY <1>1, Invariance, PTL

\* A check that returns tells the program whether the callback raised an
\* exception in any of its calls and, if not, whether it answered true while
\* the volume was hashed.
THEOREM AnswersAreTold == Spec => OutcomeTellsTheAnswers
<1>1. ASSUME Inv, [Next]_vars, running = "doCheckIsoMD5Sum", running' = "program"
      PROVE  /\ (outcome' = "exception") = raised
             /\ (outcome' = "CHECK_ABORTED") = (answered /\ ~raised)
  <2>1. CheckReturns
    <3>1. CASE CheckRuns \/ CallsBack
      BY <1>1, <3>1, RunsDoNotAbort DEF CallsBack
    <3>2. CASE UNCHANGED vars
      BY <1>1, <3>2 DEF vars
    <3> QED
      BY <1>1, <3>1, <3>2 DEF Next, CheckWithCallback, CheckWithoutCallback, NotCallable,
           PlainCheckRuns, PlainCheckReturns, doImplantIsoMD5Sum, Call, Forget, Exit
  <2>2. /\ pc = "done"
        /\ outcome' = IF pending THEN "exception" ELSE rc
    BY <2>1 DEF CheckReturns
  <2>3. rc \in Statuses
    BY <1>1, <2>2 DEF Inv, StatusWhenDone, checking
  <2>4. pending \in BOOLEAN /\ raised \in BOOLEAN /\ answered \in BOOLEAN
    BY <1>1 DEF Inv, AnswersTold
  <2>5. (pending <=> raised) /\ (~raised => (rc = "CHECK_ABORTED" <=> answered))
    BY <1>1 DEF Inv, AnswersTold, checking
  <2>6. CASE pending
    <3>1. outcome' = "exception" /\ raised
      BY <2>2, <2>5, <2>6
    <3> QED
      BY <2>4, <3>1
  <2>7. CASE ~pending
    <3>1. outcome' = rc /\ ~raised /\ rc # "exception" /\ (rc = "CHECK_ABORTED" <=> answered)
      BY <2>2, <2>3, <2>5, <2>7 DEF Statuses
    <3> QED
      BY <2>4, <3>1
  <2> QED
    BY <2>6, <2>7
<1> QED
  BY <1>1, Invariance, PTL DEF Spec, OutcomeTellsTheAnswers
=============================================================================
