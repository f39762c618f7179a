------------------------------- MODULE Implant -------------------------------
(***************************************************************************)
(* implantISOFile() of libimplantisomd5.c and implantISOSHAFile() of       *)
(* libimplantisosha.c, which differ in the algorithm only: find the        *)
(* primary volume, see that its application data is blank or make it       *)
(* blank, hash the volume and write the digest and the fragment sums into  *)
(* the application data.                                                   *)
(*                                                                         *)
(* Every system call is one step, with what the program does up to the     *)
(* next one.  The tool may be killed between any two steps.                *)
(***************************************************************************)
EXTENDS Certificate

CONSTANTS
  Media,    \* the media to implant: records of an image, the cells that cannot
            \* be read, and the faults of the device
  Requests, \* records of alg, forceit and supported: what the tool is asked for
  Errnos    \* the values errno may have when implantISOFD() is called

VARIABLES
  image,             \* the cells of the image file
  unreadable,        \* the offsets where a read() fails
  faults,            \* what the device may do: see Faults
  request,           \* what the tool was asked for
  pc,                \* where implantISOFD() is
  total_size,        \* the size of the volume without the skipped sectors
  pvd_offset,        \* where read_primary_volume_descriptor() saw the descriptor
  fdpos,             \* the file offset of isofd
  offset,            \* how much was hashed, as the loop counts it
  ctx,               \* the content hashed so far
  previous_fragment, \* the fragment of the last sum
  fragmentsums,      \* the characters of the sums so far
  rc                 \* the value returned

volume == <<total_size, pvd_offset>>

hashing == <<offset, ctx, previous_fragment, fragmentsums>>

vars == <<image, unreadable, faults, request, pc, volume, fdpos, hashing, rc>>

\* A read() may return less than was asked for, a write() may write less than
\* it was given, and a write() may fail.
Faults == {"short read", "short write", "write error"}

\* The volume space size is a number, of four bytes in the code, and a digest
\* has a byte for each character that is taken from it.
ASSUME RequestAssumption ==
  /\ \A m \in Media :
       /\ m.image \in Seq(Cell)
       /\ m.unreadable \subseteq Nat
       /\ m.faults \subseteq Faults
       /\ StopDescriptors(m.image) # {}
       /\ HasPrimary(m.image, m.unreadable) => SectorsOf(m.image) \in Nat
  /\ FRAGMENT_SUM_SIZE \div FRAGMENT_COUNT <= 16
  /\ Requests \subseteq [alg : Algorithms, forceit : BOOLEAN, supported : {0, 1}]
  /\ Errnos \subseteq Nat

NotReturned == 1

EIO == 5

Init ==
  /\ \E m \in Media :
       image = m.image /\ unreadable = m.unreadable /\ faults = m.faults
  /\ request \in Requests
  /\ pc = "open"
  /\ total_size = 0
  /\ pvd_offset = 0
  /\ fdpos = 0
  /\ offset = 0
  /\ ctx = <<>>
  /\ previous_fragment = 0
  /\ fragmentsums = <<>>
  /\ rc = NotReturned

-----------------------------------------------------------------------------

\* (Mutant first: one fragment too many.)
fragment_size_OneMore == total_size \div (FRAGMENT_COUNT + 2)

fragment_size == total_size \div (FRAGMENT_COUNT + 1)

MayBeShort == "short read" \in faults

fragmentsize == FRAGMENT_SUM_SIZE \div FRAGMENT_COUNT

DigestBytes(alg) == IF alg = "SHA256" THEN 32 ELSE 16

\* Mutant: a character is lost.
SumOf_OneShort(hashed) == FragmentSum(Digest(request.alg, hashed), fragmentsize - 1)

\* What validate_fragment() appends to the sums for content hashed.
SumOf(hashed) ==
  FragmentSum(Digest(request.alg, hashed),
              MIN(fragmentsize, DigestBytes(request.alg)))

Return(value) ==
  /\ pc' = "done"
  /\ rc' = value

\* Mutant: one cell too far.
WriteAppData_Shifted(cells) ==
  image' = WriteAt(image, pvd_offset + APPDATA_OFFSET + 1, cells)

\* A write() at the application data that does not fail.  That less is
\* written than was given is not noticed.
WriteAppData(cells) ==
  \E n \in IF "short write" \in faults THEN 1 .. Len(cells) ELSE {Len(cells)} :
    image' = WriteAt(image, pvd_offset + APPDATA_OFFSET, SubSeq(cells, 1, n))

-----------------------------------------------------------------------------

\* open() for reading and writing fails.
OpenFails ==
  /\ pc = "open"
  /\ Return(-1)
  /\ UNCHANGED <<image, unreadable, faults, request, volume, fdpos, hashing>>

\* primary_volume_size() returns 0.
NoVolume ==
  /\ pc = "open"
  /\ HasPrimary(image, unreadable) => isosize(image) = 0
  /\ Return(-1)
  /\ UNCHANGED <<image, unreadable, faults, request, volume, fdpos, hashing>>

FindVolume ==
  /\ pc = "open"
  /\ HasPrimary(image, unreadable)
  /\ isosize(image) # 0
  /\ total_size' = isosize(image) - SKIPSECTORS * SECTOR_SIZE
  /\ pvd_offset' = PvdOffset(image)
  /\ fdpos' = PvdOffset(image) + APPDATA_OFFSET
  /\ pc' = "appdata"
  /\ UNCHANGED <<image, unreadable, faults, request, hashing, rc>>

\* Mutant: the sign of errno is forgotten.
AppDataUnreadable_Positive ==
  /\ pc = "appdata"
  /\ ReadReturns(image, unreadable, fdpos, APPDATA_SIZE, MayBeShort, 0, 0)
  /\ \E errno \in Errnos : Return(errno)
  /\ UNCHANGED <<image, unreadable, faults, request, volume, fdpos, hashing>>

\* Mutant: the end of the file is no failure.
AppDataUnreadable_Retries ==
  /\ pc = "appdata"
  /\ ReadReturns(image, unreadable, fdpos, APPDATA_SIZE, MayBeShort, 0, -1)
  /\ Return(-EIO)
  /\ UNCHANGED <<image, unreadable, faults, request, volume, fdpos, hashing>>

\* The application data cannot be read.  At the end of the file read()
\* returns 0 and leaves errno as it was.
AppDataUnreadable ==
  /\ pc = "appdata"
  /\ \/ /\ ReadReturns(image, unreadable, fdpos, APPDATA_SIZE, MayBeShort, 0, 0)
        /\ \E errno \in Errnos : Return(-errno)
     \/ /\ ReadReturns(image, unreadable, fdpos, APPDATA_SIZE, MayBeShort, 0, -1)
        /\ Return(-EIO)
  /\ UNCHANGED <<image, unreadable, faults, request, volume, fdpos, hashing>>

\* The application data is read.  Without force it must be blank; of what a
\* short read left out, the stack may hold anything.
ReadAppData ==
  /\ pc = "appdata"
  /\ \E r \in 1 .. APPDATA_SIZE :
       /\ ReadReturns(image, unreadable, fdpos, APPDATA_SIZE, MayBeShort, 0, r)
       /\ \/ /\ request.forceit
             /\ pc' = "erase"
             /\ fdpos' = pvd_offset + APPDATA_OFFSET
             /\ UNCHANGED rc
          \/ /\ ~request.forceit
             /\ \A i \in 1 .. r : image[fdpos + i] = Space
             /\ pc' = "hash"
             /\ fdpos' = 0
             /\ UNCHANGED rc
          \/ /\ ~request.forceit
             /\ r < APPDATA_SIZE \/ \E i \in 1 .. r : image[fdpos + i] # Space
             /\ fdpos' = fdpos + r
             /\ Return(-1)
  /\ UNCHANGED <<image, unreadable, faults, request, volume, hashing>>

\* Mutant: nothing is erased.
Erase_Forgotten ==
  /\ pc = "erase"
  /\ pc' = "hash"
  /\ fdpos' = 0
  /\ UNCHANGED <<image, unreadable, faults, request, volume, hashing, rc>>

\* With force, blanks are written over the application data first.
Erase ==
  /\ pc = "erase"
  /\ \/ /\ WriteAppData(BlankAppData)
        /\ pc' = "hash"
        /\ fdpos' = 0
        /\ UNCHANGED rc
     \/ /\ "write error" \in faults
        /\ Return(-1)
        /\ UNCHANGED <<image, fdpos>>
  /\ UNCHANGED <<unreadable, faults, request, volume, hashing>>

\* A block is read and hashed.  If the read began in another fragment than
\* the one before, a sum of all that is hashed, this block included, is
\* appended to the sums.
HashBlock ==
  LET nbyte == MIN(total_size - offset, buffer_size)
      current_fragment == offset \div fragment_size
  IN  /\ pc = "hash"
      /\ offset < total_size
      /\ \E nread \in 1 .. nbyte :
           LET hashed == ctx \o CellsAt(image, fdpos, nread)
           IN  /\ ReadReturns(image, unreadable, fdpos, nbyte, MayBeShort, 0, nread)
               /\ ctx' = hashed
               /\ fragmentsums' = IF current_fragment # previous_fragment
                                  THEN fragmentsums \o SumOf(hashed) ELSE fragmentsums
               /\ fdpos' = fdpos + nread
               /\ offset' = offset + nread
      /\ previous_fragment' = current_fragment
      /\ UNCHANGED <<image, unreadable, faults, request, pc, volume, rc>>

\* The loop ends: all is read, or read() fails or is at the end of the file,
\* which is not told apart.
EndOfVolume ==
  /\ pc = "hash"
  /\ \/ offset >= total_size
     \/ /\ offset < total_size
        /\ \E r \in {-1, 0} :
             ReadReturns(image, unreadable, fdpos,
                         MIN(total_size - offset, buffer_size), MayBeShort, 0, r)
  /\ pc' = "write"
  /\ fdpos' = pvd_offset + APPDATA_OFFSET
  /\ UNCHANGED <<image, unreadable, faults, request, volume, hashing, rc>>

\* The digest and the sums are written into the application data.  The file
\* offset is not followed any further: isofd is closed next.
WriteCertificate ==
  /\ pc = "write"
  /\ \/ /\ WriteAppData(NewAppData(request.alg, Digest(request.alg, ctx),
                                   request.supported, fragmentsums))
        /\ Return(0)
     \/ /\ "write error" \in faults
        /\ Return(-1)
        /\ UNCHANGED image
  /\ UNCHANGED <<unreadable, faults, request, volume, fdpos, hashing>>

\* The tool is killed.  What was written stays.
Crash ==
  /\ pc # "done"
  /\ pc' = "done"
  /\ UNCHANGED <<image, unreadable, faults, request, volume, fdpos, hashing, rc>>

Returned == pc = "done" /\ UNCHANGED vars

\* What implantISOFD() does of itself.
Step ==
  \/ OpenFails
  \/ NoVolume
  \/ FindVolume
  \/ AppDataUnreadable
  \/ ReadAppData
  \/ Erase
  \/ HashBlock
  \/ EndOfVolume
  \/ WriteCertificate

Next == Step \/ Crash \/ Returned

\* The implanter is a sequential program that waits for nothing but the file.
Spec == Init /\ [][Next]_vars /\ WF_vars(Step)

-----------------------------------------------------------------------------

\* The types of the variables.
TypeOK ==
  /\ image \in Seq(Cell)
  /\ unreadable \subseteq Nat
  /\ faults \subseteq Faults
  /\ request \in Requests
  /\ pc \in {"open", "appdata", "erase", "hash", "write", "done"}
  /\ total_size \in Int
  /\ pvd_offset \in Nat
  /\ fdpos \in Nat
  /\ offset \in Nat
  /\ ctx \in Seq(Cell)
  /\ previous_fragment \in Int
  /\ Len(fragmentsums) \in Nat
  /\ rc \in {NotReturned, 0, -1, -EIO} \cup {-e : e \in Errnos}

\* What the program takes for granted of its device: that it writes all it is
\* given and, without force, that it reads all of the application data.
DeviceIsWhole == "short write" \notin faults /\ (request.forceit \/ ~MayBeShort)

\* Whether no step has changed the image yet.
Untouched == \E m \in Media : image = m.image

\* The application data of the volume begins within the file.
HoldsAppData == AppDataStart(image) < Len(image)

\* implantisomd5.1: the tool "embeds an MD5 checksum".  If it reports success,
\* and no write, or read of the application data, was cut short unnoticed, the
\* image has the certificate of its own content up to the first cell that
\* cannot be read: the digest of the volume with blank application data and,
\* if every read returned what it was asked for, the fragment sums.  The
\* exception is a file that ends before its application data: it is left
\* alone, and that is success if errno was 0.
SuccessMeansImplanted ==
  rc = 0 /\ DeviceIsWhole =>
    LET n == ReadablePart(image, unreadable)
    IN  \/ /\ HoldsAppData
           /\ image = WriteAt(image, AppDataStart(image),
                              NewAppData(request.alg, HashSum(image, n, request.alg),
                                         request.supported, fragmentsums))
           /\ MayBeShort \/ fragmentsums = FragmentSums(image, n, request.alg)
        \/ ~HoldsAppData /\ Untouched /\ 0 \in Errnos

\* Whatever step changes the image leaves its application data blank or a
\* complete certificate of its own content.  So when the tool is killed or
\* fails, at whatever moment, the image is as it was, or has no certificate,
\* or is implanted; a certificate of another content is never on it.  Only a
\* write that is cut short may leave a part of a certificate, and only a read
\* of application data in use that is cut short may put it under the digest.
NoFalseCertificate ==
  [][image' # image /\ DeviceIsWhole =>
       \/ AppDataOf(image') = BlankAppData
       \/ LET n == ReadablePart(image', unreadable)
          IN  AppDataOf(image')
                = NewAppData(request.alg, HashSum(image', n, request.alg),
                             request.supported, fragmentsums)]_vars

\* implantisomd5.1: the checksum goes to "an unused section" of the image.
\* No step changes a cell outside the application data of the primary volume
\* descriptor, or the length of the image; without force, none changes
\* application data that is in use, unless the read that should tell is cut
\* short, by the device or before a cell that cannot be read.
OnlyUnusedChanges ==
  [][image' # image =>
       /\ Len(image') = Len(image)
       /\ BlankedAt(image', AppDataStart(image), Len(image))
            = BlankedAt(image, AppDataStart(image), Len(image))
       /\ \/ request.forceit \/ MayBeShort \/ AppDataOf(image) = BlankAppData
          \/ \E o \in AppDataStart(image) .. (AppDataStart(image) + APPDATA_SIZE - 1) :
               o \in unreadable]_vars

\* The sums fit into the FRAGMENT_SUM_SIZE characters the code has for them,
\* if every read returns what it is asked for: strncat() is not told how much
\* room is left.
FragmentSumsFit == MayBeShort \/ Len(fragmentsums) <= FRAGMENT_SUM_SIZE

\* Every implant returns or is killed.
Terminates == <>(pc = "done")
=============================================================================
