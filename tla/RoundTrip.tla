------------------------------ MODULE RoundTrip ------------------------------
(***************************************************************************)
(* The purpose of the tools together: one implants a certificate in an     *)
(* image, another checks the medium, and in between the medium may be      *)
(* damaged.  All work on the same file and nothing keeps them apart, so    *)
(* their system calls interleave: a check may run while the certificate of *)
(* the same volume is made anew, two implanters may run at once, and each  *)
(* may be killed.  The reads of the checker are those of a device that     *)
(* returns what it is asked for; other devices are MediaCheck's subject.   *)
(***************************************************************************)
EXTENDS Certificate

CONSTANTS
  Media,     \* the media to begin with, see Implant
  RequestsA, \* what the one implanter may be asked for
  RequestsB, \* what the other
  Errnos,
  DamageAt,  \* the offsets where the medium may be damaged
  MaxDamage  \* how many of them at most

VARIABLES
  image, unreadable, faults,
  \* one implanter
  a_request, a_pc, a_total_size, a_pvd_offset, a_fdpos, a_offset, a_ctx,
  a_previous_fragment, a_fragmentsums, a_rc,
  \* the other
  b_request, b_pc, b_total_size, b_pvd_offset, b_fdpos, b_offset, b_ctx,
  b_previous_fragment, b_fragmentsums, b_rc,
  \* the checker
  c_pc, info, c_fdpos, c_offset, c_ctx, c_previous_fragment, reported, bail, c_rc,
  \* history
  damaged,    \* the offsets damaged since the last successful implant
  implanted,  \* whether the last to change the application data was the last
              \* step of a successful implant
  overlapped, \* whether two implanters were at work at the same time
  begun       \* what these and the image were when the checker parsed the
              \* volume descriptor

A == INSTANCE Implant WITH
  Requests <- RequestsA, request <- a_request, pc <- a_pc, total_size <- a_total_size,
  pvd_offset <- a_pvd_offset, fdpos <- a_fdpos, offset <- a_offset, ctx <- a_ctx,
  previous_fragment <- a_previous_fragment, fragmentsums <- a_fragmentsums, rc <- a_rc

B == INSTANCE Implant WITH
  Requests <- RequestsB, request <- b_request, pc <- b_pc, total_size <- b_total_size,
  pvd_offset <- b_pvd_offset, fdpos <- b_fdpos, offset <- b_offset, ctx <- b_ctx,
  previous_fragment <- b_previous_fragment, fragmentsums <- b_fragmentsums, rc <- b_rc

Checker == INSTANCE MediaCheck WITH
  HasCallback <- FALSE, ShortReads <- FALSE, Prefetch <- 0,
  pc <- c_pc, fdpos <- c_fdpos, offset <- c_offset, ctx <- c_ctx,
  previous_fragment <- c_previous_fragment, rc <- c_rc

a == <<a_request, a_pc, a_total_size, a_pvd_offset, a_fdpos, a_offset, a_ctx,
       a_previous_fragment, a_fragmentsums, a_rc>>

b == <<b_request, b_pc, b_total_size, b_pvd_offset, b_fdpos, b_offset, b_ctx,
       b_previous_fragment, b_fragmentsums, b_rc>>

checker == <<c_pc, info, c_fdpos, c_offset, c_ctx, c_previous_fragment, reported,
             bail, c_rc>>

marks == [image |-> image, damaged |-> damaged, implanted |-> implanted,
          overlapped |-> overlapped]

history == <<damaged, implanted, overlapped, begun>>

vars == <<image, unreadable, faults, a, b, checker, history>>

\* What the tools are assumed to work on, for all three of them.
ASSUME ToolsAssumption ==
  /\ \A m \in Media :
       /\ m.image \in Seq(Cell)
       /\ m.unreadable \subseteq Nat
       /\ m.faults \subseteq A!Faults
       /\ StopDescriptors(m.image) # {}
       /\ HasPrimary(m.image, m.unreadable) => SectorsOf(m.image) \in Nat
       /\ HasVolumeInfo(m.image, m.unreadable)
            => Checker!IsVolumeInfo(VolumeInfo(m.image))
  /\ FRAGMENT_SUM_SIZE \div FRAGMENT_COUNT <= 16
  /\ RequestsA \cup RequestsB
       \subseteq [alg : Algorithms, forceit : BOOLEAN, supported : {0, 1}]
  /\ Errnos \subseteq Nat
  /\ DamageAt \subseteq Nat
  /\ MaxDamage \in Nat

Init ==
  /\ A!Init
  /\ B!Init
  /\ Checker!Init
  /\ damaged = {}
  /\ implanted = FALSE
  /\ overlapped = FALSE
  /\ begun = marks

-----------------------------------------------------------------------------

AtWork(pc) == pc \notin {"open", "done"}

\* What becomes of the history when an implanter has returned rc.
Record(rc) ==
  /\ damaged' = IF rc' = 0 /\ rc # 0 THEN {} ELSE damaged
  /\ implanted' = ((rc' = 0 /\ rc # 0) \/ (implanted /\ image' = image))
  /\ overlapped' = (overlapped \/ (AtWork(a_pc') /\ AtWork(b_pc')))
  /\ UNCHANGED begun

ImplantA == A!Step /\ UNCHANGED <<b, checker>> /\ Record(a_rc)

ImplantB == B!Step /\ UNCHANGED <<a, checker>> /\ Record(b_rc)

CrashA == A!Crash /\ UNCHANGED <<b, checker, history>>

CrashB == B!Crash /\ UNCHANGED <<a, checker, history>>

Check ==
  /\ c_pc # "done"
  /\ Checker!Next
  /\ begun' = IF c_pc = "open" THEN marks ELSE begun
  /\ UNCHANGED <<faults, a, b, damaged, implanted, overlapped>>

\* The medium is damaged while no tool uses it.
Damage ==
  /\ ~AtWork(a_pc) /\ ~AtWork(b_pc)
  /\ c_pc = "open"
  /\ Cardinality(damaged) < MaxDamage
  /\ \E at \in DamageAt :
       /\ at < Len(image)
       /\ Damaged(image, at) # image
       /\ image' = Damaged(image, at)
       /\ damaged' = damaged \cup {at}
  /\ UNCHANGED <<unreadable, faults, a, b, checker, implanted, overlapped, begun>>

AllReturned ==
  /\ a_pc = "done" /\ b_pc = "done" /\ c_pc = "done"
  /\ UNCHANGED vars

Next ==
  \/ ImplantA
  \/ ImplantB
  \/ CrashA
  \/ CrashB
  \/ Check
  \/ Damage
  \/ AllReturned

\* The tools are processes of their own, none of which waits for another:
\* as long as one of them can go on, one of them does.
Spec ==
  /\ Init
  /\ [][Next]_vars
  /\ WF_vars(ImplantA \/ ImplantB \/ Check)

-----------------------------------------------------------------------------

\* The offsets that a certificate covers, made or checked on this medium.
Covered ==
  {o \in 0 .. (ReadablePart(image, unreadable) - 1) :
     o \notin AppDataStart(image) .. (AppDataStart(image) + APPDATA_SIZE - 1)}

\* checkisomd5.c: "PASS.  It is OK to use this media."  A medium that was
\* damaged after its certificate was made, anywhere in the volume up to the
\* first cell that cannot be read but in the application data, does not pass:
\* whatever two implanters do meanwhile, however they ended, and if their
\* writes fail or stop early.
PassedIsUndamaged == c_rc = "CHECK_PASSED" => begun.damaged \cap Covered = {}

\* A medium that was not damaged since its certificate was made is not
\* condemned, even if the certificate is made anew, by two implanters at
\* once, or an implanter is killed or fails to write, during the check.  But
\* if two were at work at once before it, the one may have hashed the other's
\* certificate as content, a write that stops early may leave half a
\* certificate, and reads that return less than they were asked for give
\* other fragment sums; volumes of narrow fragments are condemned anyway.
UndamagedIsNotCondemned ==
  c_rc = "CHECK_FAILED" =>
    \/ begun.damaged # {}
    \/ begun.overlapped
    \/ faults \cap {"short read", "short write"} # {}
    \/ ~WideFragments(image)

\* An implant that reported success, and whose certificate no other erased
\* since, is found by every check.
SuccessIsFound ==
  c_rc = "CHECK_NOT_FOUND" =>
    \/ ~begun.implanted
    \/ begun.damaged # {}
    \/ "short write" \in faults

\* All three come to an end, whatever the others do.
AllReturn == <>(a_pc = "done" /\ b_pc = "done" /\ c_pc = "done")
=============================================================================
