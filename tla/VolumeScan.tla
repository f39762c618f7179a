----------------------------- MODULE VolumeScan -----------------------------
(***************************************************************************)
(* read_primary_volume_descriptor() of utilities.c, one read() a step: the *)
(* search for the primary volume descriptor that the implanters and the    *)
(* checker begin with.  The modules of the tools take its result from      *)
(* IsoLayout; here that result is what the steps of the search lead to.    *)
(***************************************************************************)
EXTENDS Certificate

CONSTANTS
  Media,          \* the media to search: records of an image and its unreadable cells
  ShortReads,     \* a read() may return less than a sector
  INT64_MODULUS   \* how many values an int64_t has

VARIABLES
  image,         \* the cells of the medium
  unreadable,    \* the offsets where a read() fails
  pc,            \* where the search is
  fdpos,         \* the file offset of fd
  nbyte,         \* the offset of the descriptor, as the code computes it
  sector_buffer, \* the sector read last
  result         \* "NULL" or "found" when the search has ended

vars == <<image, unreadable, pc, fdpos, nbyte, sector_buffer, result>>

ASSUME ScanAssumption ==
  /\ \A m \in Media : m.image \in Seq(Cell) /\ m.unreadable \subseteq Nat
  /\ ShortReads \in BOOLEAN
  /\ INT64_MODULUS \in Nat
  /\ SYSTEM_AREA_SIZE < INT64_MODULUS

\* What the buffer may hold before anything is read to it: memory that looks
\* like either descriptor the search stops at, or like none.
AllocatedMemory == {<<"type", "PRIMARY">>, <<"type", "SET_TERMINATOR">>, <<"hole">>}

Init ==
  /\ \E m \in Media : image = m.image /\ unreadable = m.unreadable
  /\ pc = "seek"
  /\ fdpos = 0
  /\ nbyte = SYSTEM_AREA_SIZE
  /\ \E cell \in AllocatedMemory : sector_buffer = [i \in 1 .. SECTOR_SIZE |-> cell]
  /\ result = "none"

Return(value) ==
  /\ pc' = "done"
  /\ result' = value

\* The offset for the next sector: multiplied, where the sector begins
\* SECTOR_SIZE later.  (Mutant first: the offset stays.)
NextOffset_Stays == nbyte

NextOffset == (nbyte * SECTOR_SIZE) % INT64_MODULUS

\* The buffer after r cells were read to it.
SectorRead(r) ==
  [i \in 1 .. SECTOR_SIZE |-> IF i <= r THEN image[fdpos + i] ELSE sector_buffer[i]]

\* The seek over the system area fails: a pipe, for one.
SeekFails ==
  /\ pc = "seek"
  /\ Return("NULL")
  /\ UNCHANGED <<image, unreadable, fdpos, nbyte, sector_buffer>>

\* (Mutant first: one sector too many is skipped.)
SkipSystemArea_OneMore ==
  /\ pc = "seek"
  /\ fdpos' = SYSTEM_AREA_SIZE + SECTOR_SIZE
  /\ pc' = "read"
  /\ UNCHANGED <<image, unreadable, nbyte, sector_buffer, result>>

SkipSystemArea ==
  /\ pc = "seek"
  /\ fdpos' = SYSTEM_AREA_SIZE
  /\ pc' = "read"
  /\ UNCHANGED <<image, unreadable, nbyte, sector_buffer, result>>

ReadFails ==
  /\ pc = "read"
  /\ ReadReturns(image, unreadable, fdpos, SECTOR_SIZE, ShortReads, 0, -1)
  /\ Return("NULL")
  /\ UNCHANGED <<image, unreadable, fdpos, nbyte, sector_buffer>>

\* A sector, or less, or at the end of the medium nothing is read over the
\* one before, and the first byte of the buffer decides.
ReadSector ==
  /\ pc = "read"
  /\ \E r \in 0 .. SECTOR_SIZE :
       LET buffer == SectorRead(r)
       IN  /\ ReadReturns(image, unreadable, fdpos, SECTOR_SIZE, ShortReads, 0, r)
           /\ fdpos' = fdpos + r
           /\ sector_buffer' = buffer
           /\ \/ /\ buffer[1] = <<"type", "PRIMARY">>
                 /\ Return("found")
                 /\ UNCHANGED nbyte
              \/ /\ buffer[1] = <<"type", "SET_TERMINATOR">>
                 /\ Return("NULL")
                 /\ UNCHANGED nbyte
              \/ /\ buffer[1] \notin {<<"type", "PRIMARY">>, <<"type", "SET_TERMINATOR">>}
                 /\ nbyte' = NextOffset
                 /\ UNCHANGED <<pc, result>>
  /\ UNCHANGED <<image, unreadable>>

Returned == pc = "done" /\ UNCHANGED vars

Next == SeekFails \/ SkipSystemArea \/ ReadFails \/ ReadSector \/ Returned

\* The search is a loop of system calls that all return.
Spec == Init /\ [][Next]_vars /\ WF_vars(Next)

-----------------------------------------------------------------------------

\* The types of the variables.
TypeOK ==
  /\ image \in Seq(Cell)
  /\ unreadable \subseteq Nat
  /\ pc \in {"seek", "read", "done"}
  /\ fdpos \in Nat
  /\ nbyte \in 0 .. (INT64_MODULUS - 1)
  /\ DOMAIN sector_buffer = 1 .. SECTOR_SIZE
  /\ result \in {"none", "NULL", "found"}

\* What is to be said of a medium before the search can find anything on it:
\* it has a descriptor that ends the search, whole, and each sector up to that
\* one can be read as a whole or not at all.
HasDescriptors(img, bad) ==
  /\ StopDescriptors(img) # {}
  /\ DescriptorStart(ScanStop(img)) + SECTOR_SIZE <= Len(img)
  /\ \A k \in 0 .. ScanStop(img), i \in 0 .. (SECTOR_SIZE - 1) :
       DescriptorStart(k) + i \in bad => DescriptorStart(k) \in bad

\* What the search returns is the first primary descriptor before any
\* terminator: its whole sector, and no descriptor only if there is none or
\* the medium cannot be read or sought.
FindsThePrimary ==
  /\ result = "found" =>
       /\ HasPrimary(image, unreadable)
       /\ sector_buffer = SubSeq(image, DescriptorStart(ScanStop(image)) + 1,
                                 DescriptorStart(ScanStop(image)) + SECTOR_SIZE)
  /\ result = "NULL" /\ fdpos # 0 => ~HasPrimary(image, unreadable)

\* The offset that goes with it is the one that IsoLayout says, in the width
\* of the variable.
OffsetIsPvdOffset == result = "found" => nbyte = PvdOffset(image) % INT64_MODULUS

\* The search ends.
Terminates == <>(pc = "done")
=============================================================================
