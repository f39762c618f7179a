----------------------------- MODULE MediaCheck -----------------------------
(***************************************************************************)
(* The media check of libcheckisomd5.c: mediaCheckFile() and the loop of   *)
(* checkmd5sum() that hashes the volume block by block, compares a         *)
(* fragment sum whenever a read begins in another fragment than the one    *)
(* before, tells a callback how far it is and ends with a status.          *)
(*                                                                         *)
(* One read() with everything the loop does to its block is one step; a    *)
(* call of the callback, which may take arbitrarily long and answer either *)
(* way, is a step of its own.  parsepvd() is one step here.                *)
(***************************************************************************)
EXTENDS Certificate

CONSTANTS
  Media,       \* the media to check: records of an image and its unreadable cells
  HasCallback, \* the caller passes a callback
  ShortReads,  \* the device may return less than was asked for
  Prefetch     \* by how much the kernel may overstate what it returned

VARIABLES
  image,             \* the cells of the medium
  unreadable,        \* the offsets where a read() fails
  pc,                \* where checkmd5sum() is
  info,              \* the struct volume_info parsepvd() returned
  fdpos,             \* the file offset of isofd
  offset,            \* how much was hashed, as the loop counts it
  ctx,               \* the content hashed so far
  previous_fragment, \* the fragment of the last comparison
  reported,          \* the offset the callback was last told
  bail,              \* whether any call of the callback returned non-zero
  rc                 \* the status returned

medium == <<image, unreadable>>

hashing == <<offset, ctx, previous_fragment>>

progress == <<reported, bail>>

vars == <<medium, pc, info, fdpos, hashing, progress, rc>>

\* enum isomd5sum_status
isomd5sum_status ==
  {"FILE_NOT_FOUND", "CHECK_NOT_FOUND", "CHECK_FAILED", "CHECK_PASSED",
   "CHECK_ABORTED"}

\* What parsepvd() returns is used as numbers and an algorithm.  A volume
\* has no more fragments than bytes: the loop divides by their size.
IsVolumeInfo(v) ==
  /\ v.algorithm \in Algorithms
  /\ v.skipsectors \in Int
  /\ v.fragmentcount \in Nat
  /\ v.offset \in Nat
  /\ v.isosize \in Nat
  /\ LET size == v.isosize - v.skipsectors * SECTOR_SIZE
     IN  size > 0 => v.fragmentcount < size

\* The media are finite, and their descriptor sets end within the image: a
\* scan that does not end is the subject of VolumeScan.
ASSUME MediaAssumption ==
  /\ \A m \in Media :
       /\ m.image \in Seq(Cell)
       /\ m.unreadable \subseteq Nat
       /\ StopDescriptors(m.image) # {}
       /\ HasVolumeInfo(m.image, m.unreadable) => IsVolumeInfo(VolumeInfo(m.image))
  /\ HasCallback \in BOOLEAN
  /\ ShortReads \in BOOLEAN
  /\ Prefetch \in Nat

Init ==
  /\ \E m \in Media : image = m.image /\ unreadable = m.unreadable
  /\ pc = "open"
  /\ info = Uninitialized
  /\ fdpos = 0
  /\ offset = 0
  /\ ctx = <<>>
  /\ previous_fragment = 0
  /\ reported = 0
  /\ bail = FALSE
  /\ rc = "none"

-----------------------------------------------------------------------------

total_size == info.isosize - info.skipsectors * SECTOR_SIZE

fragment_size == total_size \div (info.fragmentcount + 1)

\* Blank what the buffer holds of the application data.  The buffer holds
\* size cells of the image, from offset start on.  (Mutant first: the length
\* is not reduced by the start.)
clear_appdata_WithoutStart(buffer, size, appdata_offset, start) ==
  LET difference  == appdata_offset - start
      clear_start == MAX(0, difference)
      clear_len   == MIN(size, difference + APPDATA_SIZE)
  IN  IF -APPDATA_SIZE <= difference /\ difference <= size
      THEN [k \in DOMAIN buffer |->
              IF k \in (clear_start + 1) .. (clear_start + clear_len)
              THEN Space ELSE buffer[k]]
      ELSE buffer

clear_appdata(buffer, size, appdata_offset, start) ==
  LET difference  == appdata_offset - start
      clear_start == MAX(0, difference)
      clear_len   == MIN(size, difference + APPDATA_SIZE) - clear_start
  IN  IF -APPDATA_SIZE <= difference /\ difference <= size
      THEN [k \in DOMAIN buffer |->
              IF k \in (clear_start + 1) .. (clear_start + clear_len)
              THEN Space ELSE buffer[k]]
      ELSE buffer

\* The bytes of a digest, which bound the characters taken from it.
DigestBytes(alg) == IF alg = "SHA256" THEN 32 ELSE 16

\* What validate_fragment() may answer for content hashed: it compares the
\* characters of its digest with those stored for the fragment.  The string
\* of sums ends in a NUL, which equals no character; past it is memory that
\* nothing was written to.
FragmentValid(hashed, fragment) ==
  LET fragmentsize == FRAGMENT_SUM_SIZE \div info.fragmentcount
      n    == MIN(fragmentsize, DigestBytes(info.algorithm))
      j    == (fragment - 1) * fragmentsize
      sums == info.fragmentsums
      sum  == FragmentSum(Digest(info.algorithm, hashed), n)
  IN  IF sums = Uninitialized THEN BOOLEAN
      ELSE IF j > Len(sums) THEN IF n = 0 THEN {TRUE} ELSE BOOLEAN
      ELSE {\A i \in 1 .. n : j + i <= Len(sums) /\ sums[j + i] = sum[i]}

\* Mutant: the callback is told what is left.
Report_Remaining(told) ==
  IF HasCallback
  THEN reported' = info'.isosize - told /\ UNCHANGED bail
  ELSE UNCHANGED progress

\* The callback is told an offset and answers whether to go on.
Report(told) ==
  IF HasCallback
  THEN /\ reported' = told
       /\ \E answer \in BOOLEAN : bail' = (bail \/ answer)
  ELSE UNCHANGED progress

Return(status) ==
  /\ pc' = "done"
  /\ rc' = status

-----------------------------------------------------------------------------

\* open() fails.
FileNotFound ==
  /\ pc = "open"
  /\ Return("FILE_NOT_FOUND")
  /\ UNCHANGED <<medium, info, fdpos, hashing, progress>>

\* parsepvd() finds no primary descriptor, or no hash in it.
NotFound ==
  /\ pc = "open"
  /\ ~HasVolumeInfo(image, unreadable)
  /\ Return("CHECK_NOT_FOUND")
  /\ UNCHANGED <<medium, info, fdpos, hashing, progress>>

\* parsepvd() succeeds: the callback is told 0 (its answer is not looked at),
\* the medium is rewound.
Rewind ==
  /\ pc = "open"
  /\ HasVolumeInfo(image, unreadable)
  /\ info' = VolumeInfo(image)
  /\ Report(0)
  /\ fdpos' = 0
  /\ pc' = "read"
  /\ UNCHANGED <<medium, hashing, rc>>

\* Mutants: the fragment of the last comparison is not remembered; only the
\* last fragment is compared.
EndsFragment_NotRemembered(current_fragment) ==
  info.fragmentcount # 0 /\ current_fragment # 0

EndsFragment_LastOnly(current_fragment) ==
  info.fragmentcount # 0 /\ current_fragment = info.fragmentcount
    /\ current_fragment # previous_fragment

\* Whether a read that began in the fragment ends the one before.
EndsFragment(current_fragment) ==
  /\ info.fragmentcount # 0
  /\ current_fragment # previous_fragment

\* Mutants: the seek goes back by the excess, from the wrong end; a count
\* that is too high is taken as it is.
SeekedTo_Excess(r, nbyte) == IF r > nbyte THEN offset - (r - nbyte) ELSE fdpos + r

SeekedTo_Uncorrected(r, nbyte) == fdpos + r

\* The file offset after a read() that returned r for nbyte cells: a count
\* that is too high is corrected.
SeekedTo(r, nbyte) == IF r > nbyte THEN offset + nbyte ELSE fdpos + r

\* A block is read, blanked and hashed.  If the read began in another
\* fragment than the one before, all that is hashed, this block included,
\* is compared with the sum stored for the fragments that ended.
HashBlock(r) ==
  LET nbyte == MIN(total_size - offset, buffer_size)
      nread == MIN(r, nbyte)
      block == clear_appdata(CellsAt(image, fdpos, nread), nread,
                             info.offset + APPDATA_OFFSET, offset)
      hashed == ctx \o block
      current_fragment == offset \div fragment_size
  IN  /\ pc = "read"
      /\ offset < total_size
      /\ ReadReturns(image, unreadable, fdpos, nbyte, ShortReads, Prefetch, r)
      /\ r > 0
      /\ fdpos' = SeekedTo(r, nbyte)
      /\ ctx' = hashed
      /\ \/ /\ EndsFragment(current_fragment)
              => TRUE \in FragmentValid(hashed, current_fragment)
            /\ previous_fragment' = IF EndsFragment(current_fragment)
                                    THEN current_fragment ELSE previous_fragment
            /\ offset' = offset + nread
            /\ pc' = IF HasCallback THEN "callback" ELSE "read"
            /\ UNCHANGED rc
         \/ /\ EndsFragment(current_fragment)
            /\ FALSE \in FragmentValid(hashed, current_fragment)
            /\ Return("CHECK_FAILED")
            /\ UNCHANGED <<previous_fragment, offset>>
      /\ UNCHANGED <<medium, info, progress>>

\* Mutant: a failed read() is tried again.
StopReading_Retries ==
  /\ pc = "read"
  /\ offset < total_size
  /\ UNCHANGED vars

\* read() fails or is at the end of the medium: the loop is left as if the
\* whole volume were hashed.
StopReading ==
  /\ pc = "read"
  /\ offset < total_size
  /\ \E r \in {-1, 0} :
       ReadReturns(image, unreadable, fdpos, MIN(total_size - offset, buffer_size),
                   ShortReads, Prefetch, r)
  /\ pc' = "finish"
  /\ UNCHANGED <<medium, info, fdpos, hashing, progress, rc>>

AllRead ==
  /\ pc = "read"
  /\ offset >= total_size
  /\ pc' = "finish"
  /\ UNCHANGED <<medium, info, fdpos, hashing, progress, rc>>

\* The callback is told how much is hashed; a non-zero answer aborts.
CallBack ==
  /\ pc = "callback"
  /\ reported' = offset
  /\ \/ /\ pc' = "read"
        /\ UNCHANGED <<bail, rc>>
     \/ /\ bail' = TRUE
        /\ Return("CHECK_ABORTED")
  /\ UNCHANGED <<medium, info, fdpos, hashing>>

\* Mutant: the fragment sums are trusted if there are any.
Verdict_FragmentsOnly ==
  IF info.fragmentcount # 0 \/ info.hashsum = Digest(info.algorithm, ctx)
  THEN "CHECK_PASSED" ELSE "CHECK_FAILED"

\* The digest of all that was hashed decides.
Verdict ==
  IF info.hashsum = Digest(info.algorithm, ctx)
  THEN "CHECK_PASSED" ELSE "CHECK_FAILED"

\* The callback is told the size of the volume (its answer is not looked at)
\* and the digest is compared with the one stored.
Conclude ==
  /\ pc = "finish"
  /\ Report(info.isosize)
  /\ Return(Verdict)
  /\ UNCHANGED <<medium, info, fdpos, hashing>>

ReadBlock == \E r \in 1 .. (buffer_size + Prefetch) : HashBlock(r)

Returned == pc = "done" /\ UNCHANGED vars

Next ==
  \/ FileNotFound
  \/ NotFound
  \/ Rewind
  \/ ReadBlock
  \/ StopReading
  \/ AllRead
  \/ CallBack
  \/ Conclude
  \/ Returned

\* The check is a sequential program whose callback returns.
Spec == Init /\ [][Next]_vars /\ WF_vars(Next)

-----------------------------------------------------------------------------

\* The types of the variables, and that what parsepvd() returned is there
\* wherever checkmd5sum() uses it.
TypeOK ==
  /\ image \in Seq(Cell)
  /\ unreadable \subseteq Nat
  /\ pc \in {"open", "read", "callback", "finish", "done"}
  /\ pc \in {"read", "callback", "finish"} => IsVolumeInfo(info)
  /\ fdpos \in Nat
  /\ offset \in Nat
  /\ ctx \in Seq(Cell)
  /\ previous_fragment \in Int
  /\ reported \in Int
  /\ bail \in BOOLEAN
  /\ rc \in isomd5sum_status \cup {"none"}

\* How much of the volume the medium lets be read: all of it, or all up to
\* the end of the medium or the first cell that cannot be read.
ReadableSize(v) ==
  LET size == MAX(0, v.isosize - v.skipsectors * SECTOR_SIZE)
  IN  CHOOSE n \in 0 .. size :
        /\ n <= Len(image)
        /\ \A i \in 0 .. (n - 1) : i \notin unreadable
        /\ n = size \/ n = Len(image) \/ n \in unreadable

\* The stored digest is the digest of all that can be read of the volume.
ChecksumIsCorrect ==
  LET v == VolumeInfo(image)
  IN  v.hashsum = Digest(v.algorithm, BlankedAt(image, v.offset + APPDATA_OFFSET,
                                                ReadableSize(v)))

\* However the reads cut the volume into blocks, and whatever counts the
\* kernel returns, what is hashed is a prefix of the image in which exactly
\* the application data is blanked: the boundary arithmetic of
\* clear_appdata() and the seek after an overstated count lose no cell,
\* repeat none and blank none too many.
HashedIsBlankedPrefix ==
  /\ ctx = BlankedAt(image, info.offset + APPDATA_OFFSET, Len(ctx))
  /\ rc # "CHECK_FAILED" => Len(ctx) = offset

\* A medium passes only if the digest stored on it is the digest of all that
\* can be read of its volume: no read pattern, answer of the callback or
\* fragment comparison makes another medium pass.
PassedIsGenuine == rc = "CHECK_PASSED" => ChecksumIsCorrect

\* checkisomd5.1: "Program returns exit status 0 if the checksum is correct".
\* A medium is not condemned, by a fragment sum or in the end, if the digest
\* stored on it is correct.
CorrectChecksumPasses == rc = "CHECK_FAILED" => ~ChecksumIsCorrect

\* libcheckisomd5.c: "Exits media check as soon as bad fragment md5sum'ed".
\* Once the block at a fragment's end is hashed and the check goes on, the
\* stored sum of that fragment is right for what the medium holds: no
\* fragment is passed over.
BadFragmentStopsCheck ==
  LET width == FRAGMENT_SUM_SIZE \div FRAGMENT_COUNT
      size == ReadablePart(image, unreadable)
      sum(f) == FragmentSum(Digest(info.algorithm, HashedAt(image, size, f)), width)
  IN  offset > 0 /\ info.fragmentcount # 0 =>
        \A f \in 1 .. Cardinality(FragmentEnds(image, size)) :
          FragmentEnd(image, size, f) < offset
          => SubSeq(info.fragmentsums, (f - 1) * width + 1, f * width) = sum(f)

\* Before the volume descriptor is parsed nothing has happened.
Unopened ==
  pc = "open" =>
    /\ offset = 0
    /\ ctx = <<>>
    /\ rc = "none"
    /\ HasVolumeInfo(image, unreadable) => IsVolumeInfo(VolumeInfo(image))

\* From then on the file offset is where the next cell to hash is, and all
\* before it is on the medium and can be read.
InTheVolume ==
  pc \in {"read", "callback", "finish"} =>
    /\ info = VolumeInfo(image)
    /\ fdpos = offset
    /\ offset <= MAX(0, total_size)
    /\ offset <= Len(image)
    /\ \A i \in 0 .. (offset - 1) : i \notin unreadable
    /\ rc = "none"

\* The loop is left only where nothing more can be read.
ReadToTheEnd == pc = "finish" => offset = ReadableSize(info)

\* Why PassedIsGenuine holds: the inductive invariant.
Inv ==
  /\ TypeOK
  /\ Unopened
  /\ InTheVolume
  /\ ReadToTheEnd
  /\ HashedIsBlankedPrefix
  /\ PassedIsGenuine

\* The callback is never told less than before, the last call with the size
\* of the whole volume included, and never more than the volume has.
ProgressMonotone ==
  [][reported' # reported
       => reported < reported' /\ reported' <= info'.isosize]_vars

\* libcheckisomd5.h: "For non-zero return value, check is aborted."
NonZeroAborts == rc # "none" /\ bail => rc = "CHECK_ABORTED"

\* Every check returns, whatever the medium, the reads and the callback do.
Terminates == <>(pc = "done")
=============================================================================
