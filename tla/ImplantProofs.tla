---------------------------- MODULE ImplantProofs ----------------------------
(***************************************************************************)
(* Proofs about Implant, for every layout, medium, device and request: the *)
(* fragment sums fit, nothing but unused application data changes, and an  *)
(* image is never left with the certificate of another content.  And about *)
(* ImplantTool, for every command line: on Windows it means what it means  *)
(* on Unix, the exit status is true, and force must be asked for.          *)
(***************************************************************************)
EXTENDS ImplantTool, CertificateLemmas

\* What the theorems require of the media: the offset the search computes is
\* that of the descriptor it finds, and no file ends within the application
\* data.  With a descriptor before the primary one it is not so, and the
\* promises are broken (run implant_boot).
MediaAreWellFormed == \A m \in Media : WellPlaced(m.image)

-----------------------------------------------------------------------------
(* The inductive invariant.                                                *)

States == {"open", "appdata", "erase", "hash", "write", "done"}

\* The types, as far as they do not depend on what a cell is.
Shape ==
  /\ IsSequence(image)
  /\ request \in Requests
  /\ pc \in States
  /\ total_size \in Int
  /\ pvd_offset \in Nat
  /\ fdpos \in Nat
  /\ offset \in Nat
  /\ previous_fragment \in Int
  /\ IsSequence(fragmentsums)
  /\ rc \in {NotReturned, 0, -1, -EIO} \cup {-e : e \in Errnos}
  /\ pc # "done" => rc = NotReturned

\* Before anything is hashed.
Early == {"open", "appdata", "erase"}

\* While anything is hashed, and when all is.
Late == {"hash", "write"}

\* The image is one of the media, but for its application data.
FromMedium ==
  \E m \in Media :
    /\ unreadable = m.unreadable
    /\ faults = m.faults
    /\ SameOutside(m.image, image)
    /\ pc \in Early => image = m.image

NothingHashed ==
  pc \in Early =>
    /\ offset = 0
    /\ ctx = <<>>
    /\ previous_fragment = 0
    /\ fragmentsums = <<>>

\* What FindVolume found stays so, and once the application data was read
\* all of it is known to be in the file.
VolumeFound ==
  pc \in (Early \cup Late) \ {"open"} =>
    /\ HasPrimary(image, unreadable)
    /\ SectorsOf(image) \in Nat
    /\ total_size = VolumeSize(image)
    /\ pvd_offset + APPDATA_OFFSET = AppDataStart(image)
    /\ pc = "appdata" => fdpos = AppDataStart(image)
    /\ pc = "erase" => request.forceit
    /\ pc # "appdata" => AppDataStart(image) + APPDATA_SIZE <= Len(image)

\* The application data is blank when the volume is hashed, up to the first
\* cell that cannot be read: it was seen to be so, or made so.
WritesAreFull == "short write" \notin faults

BlanksAreSure == IF request.forceit THEN WritesAreFull ELSE ~MayBeShort

AppDataIsBlank ==
  pc \in Late /\ BlanksAreSure =>
    \A i \in AppDataPlaces(image) :
      image[i] = Space \/ \E o \in AppDataStart(image) .. (i - 1) : o \in unreadable

\* What is hashed is the beginning of the image as it is.
HashedIsBeginning ==
  pc \in Late =>
    /\ offset <= HashedSize(image)
    /\ \A o \in 0 .. (offset - 1) : o \notin unreadable
    /\ ctx = CellsAt(image, 0, offset)
    /\ pc = "hash" => fdpos = offset
    /\ pc = "write" => offset = HashedSize(image) \/ offset \in unreadable

-----------------------------------------------------------------------------
(* The fragment sums, as they come about.                                  *)

Readable == ReadablePart(image, unreadable)

\* The fragment ends that were passed when o cells are hashed.
EndsBelow(o) == {p \in FragmentEnds(image, Readable) : p < o}

\* What is hashed when the sum of fragment end f is taken.
HashedThen(f) ==
  CellsAt(image, 0, MIN(FragmentEnd(image, Readable, f) + buffer_size, Readable))

\* The sums of the first count fragment ends.
SumsOf(count) ==
  [i \in 1 .. (fragmentsize * count) |->
     <<Digest(request.alg, HashedThen(((i - 1) \div fragmentsize) + 1)),
       ((i - 1) % fragmentsize) + 1>>]

\* Without short reads, a read begins at a multiple of buffer_size, and
\* previous_fragment is the fragment the last one began in.
InStep ==
  pc \in Late /\ ~MayBeShort =>
    /\ offset % buffer_size = 0 \/ offset = Readable
    /\ offset = 0 => previous_fragment = 0
    /\ offset > 0 /\ offset % buffer_size = 0
         => previous_fragment = (offset - buffer_size) \div FragmentSize(image)

\* So the sums are those of the fragment ends passed, and these are no more
\* than the number of the fragment.
SumsOfEnds ==
  pc \in Late /\ ~MayBeShort =>
    /\ fragmentsums = SumsOf(Cardinality(EndsBelow(offset)))
    /\ Cardinality(EndsBelow(offset)) <= previous_fragment
    /\ previous_fragment <= FRAGMENT_COUNT

Inv ==
  /\ Shape
  /\ FromMedium
  /\ NothingHashed
  /\ VolumeFound
  /\ AppDataIsBlank
  /\ HashedIsBeginning
  /\ InStep
  /\ SumsOfEnds
  /\ FragmentSumsFit
  /\ SuccessMeansImplanted

-----------------------------------------------------------------------------
(* What the steps have to do with.                                         *)

\* What is assumed of the media.
LEMMA AboutMedia ==
  ASSUME NEW m \in Media
  PROVE  /\ IsSequence(m.image)
         /\ StopDescriptors(m.image) # {}
         /\ HasPrimary(m.image, m.unreadable) => SectorsOf(m.image) \in Nat
BY RequestAssumption, SeqIsSequence DEF RequestAssumption

\* What is assumed of the requests.
LEMMA AboutRequests ==
  /\ Requests \subseteq [alg : Algorithms, forceit : BOOLEAN, supported : {0, 1}]
  /\ Errnos \subseteq Nat
BY RequestAssumption DEF RequestAssumption

\* A sum has all its characters.
LEMMA AboutWidth ==
  /\ fragmentsize \in Nat
  /\ fragmentsize * FRAGMENT_COUNT = FRAGMENT_SUM_SIZE
  /\ \A alg : MIN(fragmentsize, DigestBytes(alg)) = fragmentsize
<1>1. /\ fragmentsize \in Int
      /\ FRAGMENT_SUM_SIZE = FRAGMENT_COUNT * fragmentsize
  <2>1. FRAGMENT_SUM_SIZE \in Int /\ FRAGMENT_COUNT \in Nat \ {0}
        /\ FRAGMENT_SUM_SIZE % FRAGMENT_COUNT = 0
    BY Layout
  <2>2. /\ FRAGMENT_SUM_SIZE \div FRAGMENT_COUNT \in Int
        /\ FRAGMENT_SUM_SIZE = FRAGMENT_COUNT * (FRAGMENT_SUM_SIZE \div FRAGMENT_COUNT)
                                 + (FRAGMENT_SUM_SIZE % FRAGMENT_COUNT)
    BY <2>1, Division
  <2> HIDE DEF fragmentsize
  <2>3. FRAGMENT_COUNT * (FRAGMENT_SUM_SIZE \div FRAGMENT_COUNT) \in Int
    BY <2>1, <2>2
  <2> QED
    BY <2>1, <2>2, <2>3 DEF fragmentsize
<1>2. fragmentsize <= 16
  BY RequestAssumption DEF RequestAssumption, fragmentsize
<1>3. fragmentsize >= 0
  <2>1. fragmentsize < 0 => FRAGMENT_COUNT * fragmentsize + FRAGMENT_COUNT <= FRAGMENT_COUNT * 0
    BY <1>1, Layout, ProductOrder
  <2>2. FRAGMENT_COUNT * 0 = 0
    BY Layout
  <2> QED
    BY <1>1, <2>1, <2>2, Layout
<1>4. fragmentsize * FRAGMENT_COUNT = FRAGMENT_COUNT * fragmentsize
  BY <1>1, Layout
<1>5. \A alg : MIN(fragmentsize, DigestBytes(alg)) = fragmentsize
  BY <1>1, <1>2 DEF MIN, DigestBytes
<1> QED
  BY <1>1, <1>3, <1>4, <1>5

\* An image that came of a medium is placed as the medium is.
LEMMA AboutImage ==
  ASSUME MediaAreWellFormed, Shape, FromMedium
  PROVE  /\ StopDescriptors(image) # {}
         /\ WellPlaced(image)
         /\ Len(image) \in Nat
         /\ AppDataStart(image) \in Nat
         /\ pc \in Early /\ HasPrimary(image, unreadable) => SectorsOf(image) \in Nat
<1>1. PICK m \in Media : /\ unreadable = m.unreadable
                         /\ SameOutside(m.image, image)
                         /\ pc \in Early => image = m.image
  BY DEF FromMedium
<1>2. /\ IsSequence(m.image)
      /\ StopDescriptors(m.image) # {}
      /\ HasPrimary(m.image, m.unreadable) => SectorsOf(m.image) \in Nat
      /\ WellPlaced(m.image)
  BY AboutMedia DEF MediaAreWellFormed
<1>3. /\ StopDescriptors(image) # {}
      /\ ScanStop(image) = ScanStop(m.image)
      /\ AppDataStart(image) = AppDataStart(m.image)
      /\ PvdOffset(image) = PvdOffset(m.image)
  BY <1>1, <1>2, SameVolume
<1>4. Len(image) = Len(m.image)
  BY <1>1 DEF SameOutside
<1>5. WellPlaced(image)
  BY <1>2, <1>3, <1>4 DEF WellPlaced
<1> QED
  BY <1>1, <1>2, <1>3, <1>5, AppDataStartType DEF Shape, IsSequence

\* What the results of a read() of n cells say when the kernel does not
\* overstate.
LEMMA ReadSome ==
  ASSUME NEW img, NEW unread, NEW pos \in Nat, NEW n \in Nat, NEW short, NEW r \in 1 .. n,
         ReadReturns(img, unread, pos, n, short, 0, r)
  PROVE  /\ pos + r <= Len(img)
         /\ \A i \in pos .. (pos + r - 1) : i \notin unread
         /\ short \/ r = n \/ pos + r = Len(img) \/ pos + r \in unread
BY DEF ReadReturns

\* A read() of nothing is at the end of the file.
LEMMA ReadNothing ==
  ASSUME NEW img, NEW unread, NEW pos \in Nat, NEW n \in Nat, NEW short,
         ReadReturns(img, unread, pos, n, short, 0, 0)
  PROVE  pos >= Len(img)
BY DEF ReadReturns

\* A read() that fails is at a cell that cannot be read.
LEMMA ReadFails ==
  ASSUME NEW img, NEW unread, NEW pos \in Nat, NEW n \in Nat, NEW short,
         ReadReturns(img, unread, pos, n, short, 0, -1)
  PROVE  pos < Len(img) /\ pos \in unread
BY DEF ReadReturns

\* Nothing is hashed at the beginning.
LEMMA NoCells == \A img : CellsAt(img, 0, 0) = <<>>
BY DEF CellsAt

-----------------------------------------------------------------------------
(* The invariant holds at first, and steps that give up keep it.           *)

\* At the beginning nothing is hashed, and nothing is promised.
LEMMA InitInv == Init => Inv
<1> SUFFICES ASSUME Init
             PROVE  Inv
  OBVIOUS
<1>1. PICK m \in Media : image = m.image /\ unreadable = m.unreadable /\ faults = m.faults
  BY DEF Init
<1>2. IsSequence(image)
  BY <1>1, AboutMedia
<1>3. IsSequence(<<>>) /\ Len(<<>>) = 0
  BY DEF IsSequence
<1>4. Shape
  BY <1>2, <1>3 DEF Init, Shape, States, NotReturned
<1>5. FromMedium
  BY <1>1 DEF FromMedium, SameOutside
<1>6. NothingHashed /\ VolumeFound /\ AppDataIsBlank /\ HashedIsBeginning /\ InStep /\ SumsOfEnds
  BY DEF Init, NothingHashed, VolumeFound, AppDataIsBlank, HashedIsBeginning, InStep,
         SumsOfEnds, Early, Late
<1>7. FragmentSumsFit
  BY <1>3, Layout DEF Init, FragmentSumsFit
<1>8. SuccessMeansImplanted
  BY DEF Init, SuccessMeansImplanted, NotReturned
<1> QED
  BY <1>4, <1>5, <1>6, <1>7, <1>8 DEF Inv

\* A return that leaves the image as it is keeps all but the promise of
\* success.
LEMMA DoneKeepsInv ==
  ASSUME Inv, pc # "done", pc' = "done",
         UNCHANGED <<image, unreadable, faults, request, volume, hashing>>,
         fdpos' \in Nat,
         rc' \in {NotReturned, 0, -1, -EIO} \cup {-e : e \in Errnos},
         SuccessMeansImplanted'
  PROVE  Inv'
<1>1. Shape'
  BY DEF Inv, Shape, volume, hashing, States
<1>2. FromMedium'
  BY DEF Inv, FromMedium, Early
<1>3. /\ NothingHashed' /\ VolumeFound' /\ AppDataIsBlank' /\ HashedIsBeginning'
      /\ InStep' /\ SumsOfEnds'
  BY DEF NothingHashed, VolumeFound, AppDataIsBlank, HashedIsBeginning, InStep,
         SumsOfEnds, Early, Late
<1>4. FragmentSumsFit'
  BY DEF Inv, FragmentSumsFit, MayBeShort, hashing
<1> QED
  BY <1>1, <1>2, <1>3, <1>4 DEF Inv

\* Any value but 0 says nothing of the image.
LEMMA FailureKeepsInv ==
  ASSUME Inv, pc # "done", pc' = "done",
         UNCHANGED <<image, unreadable, faults, request, volume, hashing>>,
         fdpos' \in Nat,
         rc' \in {NotReturned, 0, -1, -EIO} \cup {-e : e \in Errnos},
         rc' # 0
  PROVE  Inv'
<1>1. SuccessMeansImplanted'
  BY DEF SuccessMeansImplanted
<1> QED
  BY <1>1, DoneKeepsInv

\* Without a volume nothing is touched.
LEMMA OpenFailsKeepsInv ==
  ASSUME Inv, OpenFails \/ NoVolume
  PROVE  Inv'
<1>1. fdpos' \in Nat
  BY DEF Inv, Shape, OpenFails, NoVolume
<1>2. /\ pc # "done" /\ pc' = "done" /\ rc' = -1
      /\ UNCHANGED <<image, unreadable, faults, request, volume, hashing>>
  BY DEF OpenFails, NoVolume, Return
<1> QED
  BY <1>1, <1>2, FailureKeepsInv

\* A kill leaves what was written.
LEMMA CrashKeepsInv ==
  ASSUME Inv, Crash
  PROVE  Inv'
<1>1. fdpos' \in Nat /\ rc' = NotReturned
  BY DEF Inv, Shape, Crash
<1>2. /\ pc # "done" /\ pc' = "done"
      /\ UNCHANGED <<image, unreadable, faults, request, volume, hashing>>
  BY DEF Crash
<1> QED
  BY <1>1, <1>2, FailureKeepsInv DEF NotReturned

\* A file that ends before its application data is left alone.
LEMMA AppDataUnreadableKeepsInv ==
  ASSUME Inv, AppDataUnreadable
  PROVE  Inv'
<1>1. /\ pc = "appdata" /\ pc' = "done"
      /\ UNCHANGED <<image, unreadable, faults, request, volume, fdpos, hashing>>
  BY DEF AppDataUnreadable, Return
<1>2. fdpos' \in Nat
  BY <1>1 DEF Inv, Shape
<1>3. CASE rc' = -EIO
  BY <1>1, <1>2, <1>3, FailureKeepsInv DEF EIO
<1>4. ASSUME NEW errno \in Errnos, rc' = -errno,
             ReadReturns(image, unreadable, fdpos, APPDATA_SIZE, MayBeShort, 0, 0)
      PROVE  Inv'
  <2>1. errno \in Nat
    BY AboutRequests
  <2>2. CASE errno # 0
    BY <1>1, <1>2, <1>4, <2>1, <2>2, FailureKeepsInv
  <2>3. CASE errno = 0
    <3>1. fdpos >= Len(image) /\ fdpos = AppDataStart(image) /\ Len(image) \in Nat
      <4>1. fdpos \in Nat /\ APPDATA_SIZE \in Nat
        BY Layout DEF Inv, Shape
      <4>2. fdpos >= Len(image)
        BY <1>4, <4>1, ReadNothing
      <4> QED
        BY <1>1, <4>2 DEF Inv, VolumeFound, Shape, IsSequence, Early, Late
    <3>2. ~HoldsAppData
      <4>1. AppDataStart(image) \in Nat
        BY <3>1 DEF Inv, Shape
      <4> QED
        BY <3>1, <4>1 DEF HoldsAppData
    <3>3. Untouched
      BY <1>1 DEF Inv, FromMedium, Untouched, Early
    <3>4. SuccessMeansImplanted'
      BY <1>1, <1>4, <2>3, <3>2, <3>3 DEF SuccessMeansImplanted, HoldsAppData, Untouched
    <3> QED
      BY <1>1, <1>2, <1>4, <3>4, DoneKeepsInv
  <2> QED
    BY <2>2, <2>3
<1> QED
  BY <1>3, <1>4 DEF AppDataUnreadable, Return

-----------------------------------------------------------------------------
(* The steps up to the hashing.                                            *)

\* The volume that is found is that of IsoLayout.
LEMMA FindVolumeKeepsInv ==
  ASSUME MediaAreWellFormed, Inv, FindVolume
  PROVE  Inv'
<1>1. /\ pc = "open" /\ pc' = "appdata"
      /\ HasPrimary(image, unreadable)
      /\ UNCHANGED <<image, unreadable, faults, request, hashing, rc>>
      /\ total_size' = VolumeSize(image)
      /\ pvd_offset' = PvdOffset(image)
      /\ fdpos' = PvdOffset(image) + APPDATA_OFFSET
  BY DEF FindVolume, VolumeSize
<1>2. SectorsOf(image) \in Nat /\ WellPlaced(image) /\ Len(image) \in Nat
  BY <1>1, AboutImage DEF Inv, Early
<1>3. PvdOffset(image) \in Nat /\ PvdOffset(image) + APPDATA_OFFSET = AppDataStart(image)
  <2>1. StopDescriptors(image) # {}
    BY AboutImage DEF Inv
  <2>2. PvdOffset(image) = DescriptorStart(ScanStop(image))
    BY <1>2 DEF WellPlaced
  <2> QED
    BY <2>1, <2>2, AppDataStartType DEF AppDataStart
<1>4. VolumeSize(image) \in Int
  BY <1>2, VolumeSizeIs
<1>5. Shape'
  BY <1>1, <1>3, <1>4, Layout DEF Inv, Shape, hashing, States
<1>6. FromMedium'
  BY <1>1 DEF Inv, FromMedium, Early
<1>7. NothingHashed'
  BY <1>1 DEF Inv, NothingHashed, Early, hashing
<1>8. VolumeFound'
  BY <1>1, <1>2, <1>3 DEF VolumeFound
<1>9. AppDataIsBlank' /\ HashedIsBeginning' /\ InStep' /\ SumsOfEnds'
  BY <1>1 DEF AppDataIsBlank, HashedIsBeginning, InStep, SumsOfEnds, Late
<1>10. FragmentSumsFit'
  BY <1>1 DEF Inv, FragmentSumsFit, MayBeShort, hashing
<1>11. SuccessMeansImplanted'
  <2>1. rc' # 0
    BY <1>1 DEF Inv, Shape, NotReturned
  <2> QED
    BY <2>1 DEF SuccessMeansImplanted
<1> QED
  BY <1>5, <1>6, <1>7, <1>8, <1>9, <1>10, <1>11 DEF Inv

\* Nothing is hashed yet and no fragment end is passed.
LEMMA HashStartsWithInv ==
  ASSUME Shape', FromMedium', VolumeFound', AppDataIsBlank', pc' = "hash",
         offset' = 0, ctx' = <<>>, previous_fragment' = 0, fragmentsums' = <<>>, fdpos' = 0
  PROVE  Inv'
<1>1. SectorsOf(image') \in Nat /\ Len(image') \in Nat
  BY DEF VolumeFound, Shape, IsSequence, Late
<1>2. HashedSize(image') \in Nat
  BY <1>1, VolumeSizeIs
<1>3. HashedIsBeginning'
  BY <1>2, NoCells DEF HashedIsBeginning
<1>4. InStep'
  <2>1. 0 % buffer_size = 0
    BY BufferSize
  <2> QED
    BY <2>1 DEF InStep
<1>5. SumsOfEnds'
  <2>1. Readable' \in Nat
    BY <1>2, ReadablePartExists DEF Readable
  <2>2. FragmentEnds(image', Readable') \subseteq 1 .. (Readable' - 1)
    BY <2>1, FragmentEndsFinite
  <2>3. EndsBelow(0)' = {}
    BY <2>2 DEF EndsBelow
  <2>4. Cardinality(EndsBelow(offset)') = 0
    BY <2>3, FS_EmptySet
  <2>5. SumsOf(0)' = <<>>
    <3>1. fragmentsize * 0 = 0
      BY AboutWidth
    <3> QED
      BY <3>1 DEF SumsOf
  <2> QED
    BY <2>4, <2>5, Layout DEF SumsOfEnds
<1>6. FragmentSumsFit'
  BY Layout DEF FragmentSumsFit
<1>7. NothingHashed' /\ SuccessMeansImplanted'
  BY DEF NothingHashed, Early, SuccessMeansImplanted, Shape, NotReturned
<1> QED
  BY <1>3, <1>4, <1>5, <1>6, <1>7 DEF Inv

-----------------------------------------------------------------------------
(* Reading and erasing the application data.                               *)

\* The application data was seen to be blank, or force was asked for.
LEMMA ReadAppDataKeepsInv ==
  ASSUME MediaAreWellFormed, Inv, ReadAppData
  PROVE  Inv'
<1>1. /\ pc = "appdata"
      /\ UNCHANGED <<image, unreadable, faults, request, volume, hashing>>
  BY DEF ReadAppData
<1>2. PICK r \in 1 .. APPDATA_SIZE :
        /\ ReadReturns(image, unreadable, fdpos, APPDATA_SIZE, MayBeShort, 0, r)
        /\ \/ /\ request.forceit
              /\ pc' = "erase"
              /\ fdpos' = pvd_offset + APPDATA_OFFSET
              /\ UNCHANGED rc
           \/ /\ ~request.forceit
              /\ \A i \in 1 .. r : image[fdpos + i] = Space
              /\ pc' = "hash"
              /\ fdpos' = 0
              /\ UNCHANGED rc
           \/ /\ fdpos' = fdpos + r
              /\ Return(-1)
  BY DEF ReadAppData
<1>3. /\ fdpos \in Nat /\ fdpos = AppDataStart(image) /\ Len(image) \in Nat
      /\ pvd_offset \in Nat /\ APPDATA_SIZE \in Nat
  BY <1>1, Layout DEF Inv, Shape, VolumeFound, IsSequence, Early, Late
<1>4. /\ fdpos + r <= Len(image)
      /\ MayBeShort \/ r = APPDATA_SIZE \/ fdpos + r = Len(image) \/ fdpos + r \in unreadable
  BY <1>2, <1>3, ReadSome
<1>5. AppDataStart(image) + APPDATA_SIZE <= Len(image)
  BY <1>3, <1>4, AboutImage DEF Inv, WellPlaced
<1>6. CASE pc' = "done"
  <2>1. fdpos' \in Nat /\ rc' = -1
    BY <1>2, <1>3, <1>6, Layout DEF Return
  <2> QED
    BY <1>1, <1>6, <2>1, FailureKeepsInv
<1>7. CASE pc' = "erase"
  <2>1. request.forceit /\ fdpos' = pvd_offset + APPDATA_OFFSET /\ rc' = rc
    BY <1>2, <1>7 DEF Return
  <2>2. Shape'
    BY <1>1, <1>3, <1>7, <2>1, Layout DEF Inv, Shape, volume, hashing, States
  <2>3. FromMedium'
    BY <1>1 DEF Inv, FromMedium, Early
  <2>4. NothingHashed'
    BY <1>1 DEF Inv, NothingHashed, Early, hashing
  <2>5. VolumeFound'
    BY <1>1, <1>5, <1>7, <2>1 DEF Inv, VolumeFound, volume, Early, Late
  <2>6. AppDataIsBlank' /\ HashedIsBeginning' /\ InStep' /\ SumsOfEnds'
    BY <1>7 DEF AppDataIsBlank, HashedIsBeginning, InStep, SumsOfEnds, Late
  <2>7. FragmentSumsFit'
    BY <1>1 DEF Inv, FragmentSumsFit, MayBeShort, hashing
  <2>8. SuccessMeansImplanted'
    BY <1>1, <2>1 DEF Inv, Shape, SuccessMeansImplanted, NotReturned
  <2> QED
    BY <2>2, <2>3, <2>4, <2>5, <2>6, <2>7, <2>8 DEF Inv
<1>8. CASE pc' = "hash"
  <2>1. /\ ~request.forceit
        /\ \A i \in 1 .. r : image[fdpos + i] = Space
        /\ fdpos' = 0
        /\ rc' = rc
    BY <1>2, <1>8 DEF Return
  <2>2. Shape'
    BY <1>1, <1>8, <2>1 DEF Inv, Shape, volume, hashing, States
  <2>3. FromMedium'
    BY <1>1 DEF Inv, FromMedium, Early
  <2>4. /\ offset' = 0
        /\ ctx' = <<>>
        /\ previous_fragment' = 0
        /\ fragmentsums' = <<>>
    BY <1>1 DEF Inv, NothingHashed, Early, hashing
  <2>5. VolumeFound'
    BY <1>1, <1>5, <1>8 DEF Inv, VolumeFound, volume, Early, Late
  <2>6. ASSUME ~MayBeShort, NEW i \in AppDataPlaces(image)
        PROVE  \/ image[i] = Space
               \/ \E o \in AppDataStart(image) .. (i - 1) : o \in unreadable
    <3> DEFINE at == AppDataStart(image)
    <3>1. at \in Nat /\ i \in (at + 1) .. (at + APPDATA_SIZE)
      BY <1>3 DEF AppDataPlaces
    <3> HIDE DEF at
    <3>2. CASE i <= at + r
      <4>1. i - at \in 1 .. r /\ at + (i - at) = i
        BY <1>3, <3>1, <3>2
      <4> QED
        BY <1>3, <2>1, <4>1 DEF at
    <3>3. CASE ~(i <= at + r)
      <4>1. at + r \in at .. (i - 1)
        BY <1>3, <3>1, <3>3
      <4>2. at + r \in unreadable
        BY <1>3, <1>4, <1>5, <2>6, <3>1, <3>3 DEF at
      <4> QED
        BY <4>1, <4>2 DEF at
    <3> QED
      BY <3>2, <3>3
  <2>7. AppDataIsBlank'
    BY <1>1, <2>1, <2>6 DEF AppDataIsBlank, BlanksAreSure, MayBeShort
  <2> QED
    BY <1>8, <2>1, <2>2, <2>3, <2>4, <2>5, <2>7, HashStartsWithInv
<1> QED
  BY <1>2, <1>6, <1>7, <1>8 DEF Return

\* What is written has a cell for each place of the application data.
LEMMA AppDataIsFunction ==
  /\ BlankAppData = [i \in 1 .. APPDATA_SIZE |-> BlankAppData[i]]
  /\ \A alg, sum, supported, sums :
       LET cells == NewAppData(alg, sum, supported, sums)
       IN  cells = [i \in 1 .. APPDATA_SIZE |-> cells[i]]
BY DEF BlankAppData, NewAppData

\* A write() of application data, in full or in part.
LEMMA WriteAppDataFacts ==
  ASSUME MediaAreWellFormed, Inv, pc \in {"erase", "write"},
         NEW cells, cells = [i \in 1 .. APPDATA_SIZE |-> cells[i]], WriteAppData(cells)
  PROVE  /\ IsSequence(image')
         /\ SameOutside(image, image')
         /\ WritesAreFull => image' = WriteAt(image, AppDataStart(image), cells)
         /\ \A i \in 1 .. Len(image) :
              image'[i] = image[i] \/ \E j \in 1 .. APPDATA_SIZE : image'[i] = cells[j]
<1>1. /\ pvd_offset + APPDATA_OFFSET = AppDataStart(image)
      /\ AppDataStart(image) + APPDATA_SIZE <= Len(image)
      /\ IsSequence(image)
  BY DEF Inv, VolumeFound, Shape, Early, Late
<1>2. Len(cells) = APPDATA_SIZE /\ APPDATA_SIZE \in Nat \ {0}
  BY Layout, FunctionIsSequence
<1>3. PICK n \in 1 .. APPDATA_SIZE :
        /\ image' = WriteAt(image, AppDataStart(image), SubSeq(cells, 1, n))
        /\ WritesAreFull => n = APPDATA_SIZE
  <2>1. PICK n :
          /\ ~WritesAreFull => n \in 1 .. Len(cells)
          /\ WritesAreFull => n = Len(cells)
          /\ image' = WriteAt(image, pvd_offset + APPDATA_OFFSET, SubSeq(cells, 1, n))
    BY DEF WriteAppData, WritesAreFull
  <2>2. n \in 1 .. APPDATA_SIZE /\ (WritesAreFull => n = APPDATA_SIZE)
    BY <1>2, <2>1
  <2>3. image' = WriteAt(image, AppDataStart(image), SubSeq(cells, 1, n))
    BY <1>1, <2>1
  <2> QED
    BY <2>2, <2>3
<1>4. /\ Len(SubSeq(cells, 1, n)) = n
      /\ \A j \in 1 .. n : SubSeq(cells, 1, n)[j] = cells[j]
      /\ n = APPDATA_SIZE => SubSeq(cells, 1, n) = cells
  BY <1>2, FirstCells
<1>5. StopDescriptors(image) # {}
  BY AboutImage DEF Inv
<1>6. /\ IsSequence(image') /\ SameOutside(image, image')
      /\ \A i \in 1 .. Len(image) :
           image'[i] = image[i] \/ \E j \in 1 .. APPDATA_SIZE : image'[i] = cells[j]
  <2> DEFINE part == SubSeq(cells, 1, n)
             at == AppDataStart(image)
  <2>1. /\ image' = WriteAt(image, at, part) /\ Len(part) = n
        /\ \A j \in 1 .. n : part[j] = cells[j]
    BY <1>3, <1>4
  <2> HIDE DEF part
  <2>2. Len(part) \in 0 .. APPDATA_SIZE
    BY <2>1
  <2>3. IsSequence(image') /\ SameOutside(image, image')
    BY <1>1, <1>5, <2>1, <2>2, WriteAppDataSame
  <2>4. at \in Nat /\ Len(part) \in Nat /\ at + Len(part) <= Len(image)
    <3>1. at \in Nat /\ at + APPDATA_SIZE <= Len(image) /\ Len(image) \in Nat
      BY <1>1, AboutImage DEF Inv
    <3> QED
      BY <1>2, <2>1, <3>1
  <2> HIDE DEF at
  <2>5. ASSUME NEW i \in 1 .. Len(image)
        PROVE  image'[i] = image[i] \/ \E j \in 1 .. APPDATA_SIZE : image'[i] = cells[j]
    <3>1. CASE i \in (at + 1) .. (at + Len(part))
      <4>1. image'[i] = part[i - at]
        BY <1>1, <2>1, <2>4, <3>1, WriteWithin
      <4>2. i - at \in 1 .. n
        BY <2>1, <2>4, <3>1
      <4>3. image'[i] = cells[i - at]
        BY <2>1, <4>1, <4>2
      <4>4. i - at \in 1 .. APPDATA_SIZE
        BY <1>2, <4>2
      <4> QED
        BY <4>3, <4>4
    <3>2. CASE i \notin (at + 1) .. (at + Len(part))
      BY <1>1, <2>1, <2>4, <3>2, WriteWithin
    <3> QED
      BY <3>1, <3>2
  <2> QED
    BY <2>3, <2>5
<1> QED
  BY <1>3, <1>4, <1>6

\* Writing leaves the image one of the media but for its application data,
\* and the volume what it was.
LEMMA WriteKeepsVolume ==
  ASSUME MediaAreWellFormed, Inv, pc \in {"erase", "write"},
         IsSequence(image'), SameOutside(image, image'),
         pc' \notin Early, UNCHANGED <<unreadable, faults, request, volume>>
  PROVE  /\ FromMedium'
         /\ VolumeFound'
         /\ AppDataStart(image') = AppDataStart(image)
         /\ AppDataPlaces(image') = AppDataPlaces(image)
<1>1. /\ IsSequence(image) /\ Len(image) \in Nat /\ APPDATA_SIZE \in Nat \ {0}
      /\ HasPrimary(image, unreadable)
      /\ SectorsOf(image) \in Nat
      /\ total_size = VolumeSize(image)
      /\ pvd_offset + APPDATA_OFFSET = AppDataStart(image)
      /\ AppDataStart(image) + APPDATA_SIZE <= Len(image)
  BY Layout DEF Inv, Shape, VolumeFound, IsSequence, Early, Late
<1>2. StopDescriptors(image) # {} /\ AppDataStart(image) \in Nat
  BY AboutImage DEF Inv
<1>3. AppDataStart(image) < Len(image)
  BY <1>1, <1>2
<1>4. /\ AppDataStart(image') = AppDataStart(image)
      /\ AppDataPlaces(image') = AppDataPlaces(image)
      /\ HasPrimary(image', unreadable)
      /\ SectorsOf(image') = SectorsOf(image)
      /\ isosize(image') = isosize(image)
      /\ Len(image') = Len(image)
  BY <1>1, <1>2, <1>3, SameVolume DEF SameOutside
<1>5. FromMedium'
  <2>1. PICK m \in Media : /\ unreadable = m.unreadable
                           /\ faults = m.faults
                           /\ SameOutside(m.image, image)
    BY DEF Inv, FromMedium
  <2>2. SameOutside(m.image, image')
    BY <2>1, AboutMedia, SameOutsideTwice
  <2> QED
    BY <2>1, <2>2 DEF FromMedium
<1>6. VolumeFound'
  BY <1>1, <1>4 DEF VolumeFound, VolumeSize, volume, Early
<1> QED
  BY <1>4, <1>5, <1>6

\* With force, the application data is blank from here on.
LEMMA EraseKeepsInv ==
  ASSUME MediaAreWellFormed, Inv, Erase
  PROVE  Inv'
<1>1. pc = "erase" /\ UNCHANGED <<unreadable, faults, request, volume, hashing>>
  BY DEF Erase
<1>2. CASE Return(-1) /\ UNCHANGED <<image, fdpos>>
  <2>1. fdpos' \in Nat
    BY <1>2 DEF Inv, Shape
  <2> QED
    BY <1>1, <1>2, <2>1, FailureKeepsInv DEF Return
<1>3. CASE WriteAppData(BlankAppData) /\ pc' = "hash" /\ fdpos' = 0 /\ UNCHANGED rc
  <2>1. /\ IsSequence(image')
        /\ SameOutside(image, image')
        /\ WritesAreFull
             => image' = WriteAt(image, AppDataStart(image), BlankAppData)
    BY <1>1, <1>3, AppDataIsFunction, WriteAppDataFacts
  <2>2. Shape'
    BY <1>1, <1>3, <2>1 DEF Inv, Shape, volume, hashing, States
  <2>3. /\ FromMedium'
        /\ VolumeFound'
        /\ AppDataPlaces(image') = AppDataPlaces(image)
    BY <1>1, <1>3, <2>1, WriteKeepsVolume DEF Early
  <2>4. /\ offset' = 0
        /\ ctx' = <<>>
        /\ previous_fragment' = 0
        /\ fragmentsums' = <<>>
    BY <1>1 DEF Inv, NothingHashed, Early, hashing
  <2>5. AppDataIsBlank'
    <3> SUFFICES ASSUME WritesAreFull, NEW i \in AppDataPlaces(image)
                 PROVE  image'[i] = Space
      BY <1>1, <2>3 DEF AppDataIsBlank, BlanksAreSure, WritesAreFull, Inv, VolumeFound, Early, Late
    <3> DEFINE at == AppDataStart(image)
    <3>1. /\ IsSequence(image) /\ Len(image) \in Nat /\ at + APPDATA_SIZE <= Len(image)
          /\ at \in Nat /\ APPDATA_SIZE \in Nat
      BY <1>1, AboutImage, Layout DEF Inv, Shape, VolumeFound, Early, Late
    <3>2. i \in (at + 1) .. (at + APPDATA_SIZE)
      BY DEF AppDataPlaces
    <3>3. Len(BlankAppData) = APPDATA_SIZE
      BY <3>1, AppDataIsFunction, FunctionIsSequence
    <3> HIDE DEF at
    <3>4. i \in 1 .. Len(image) /\ i - at \in 1 .. APPDATA_SIZE
      <4>1. at + APPDATA_SIZE <= Len(image) /\ Len(image) \in Nat
            /\ at \in Nat /\ APPDATA_SIZE \in Nat
        BY <3>1
      <4>2. i \in Int /\ at + 1 <= i /\ i <= at + APPDATA_SIZE
        BY <3>2, <4>1
      <4> QED
        BY <4>1, <4>2
    <3>5. image' = WriteAt(image, at, BlankAppData)
      BY <2>1 DEF at
    <3>6. i \in (at + 1) .. (at + Len(BlankAppData))
      BY <3>2, <3>3
    <3>7. image'[i] = BlankAppData[i - at]
      BY <3>1, <3>3, <3>4, <3>5, <3>6, WriteWithin
    <3>8. BlankAppData[i - at] = Space
      BY <3>4 DEF BlankAppData
    <3> QED
      BY <3>7, <3>8
  <2> QED
    BY <1>3, <2>2, <2>3, <2>4, <2>5, HashStartsWithInv
<1> QED
  BY <1>2, <1>3 DEF Erase

-----------------------------------------------------------------------------
(* Hashing.                                                                *)

\* What is true of the volume while it is hashed.
LEMMA AboutVolume ==
  ASSUME MediaAreWellFormed, Inv, pc \in Late
  PROVE  /\ Len(image) \in Nat
         /\ SectorsOf(image) \in Nat
         /\ total_size = VolumeSize(image)
         /\ total_size \in Int
         /\ fragment_size = FragmentSize(image)
         /\ total_size > 0 => fragment_size \in Nat \ {0}
         /\ HashedSize(image) \in 0 .. Len(image)
         /\ total_size >= 0 => HashedSize(image) <= total_size
         /\ total_size < 0 => HashedSize(image) = 0
         /\ \A m \in Nat : m <= total_size /\ m <= Len(image) => m <= HashedSize(image)
         /\ Readable \in 0 .. HashedSize(image)
         /\ \A i \in 0 .. (Readable - 1) : i \notin unreadable
         /\ Readable = HashedSize(image) \/ Readable \in unreadable
<1>1. /\ Len(image) \in Nat
      /\ SectorsOf(image) \in Nat
      /\ total_size = VolumeSize(image)
  BY DEF Inv, Shape, VolumeFound, IsSequence, Early, Late
<1>2. /\ VolumeSize(image) \in Int
      /\ HashedSize(image) \in Nat
      /\ HashedSize(image) <= Len(image)
      /\ VolumeSize(image) >= 0 => HashedSize(image) <= VolumeSize(image)
      /\ VolumeSize(image) > 0 => FragmentSize(image) \in Nat \ {0}
  BY <1>1, VolumeSizeIs
<1>3. fragment_size = FragmentSize(image)
  BY <1>1 DEF fragment_size, FragmentSize
<1>4. ASSUME NEW m \in Nat, m <= total_size, m <= Len(image)
      PROVE  m <= HashedSize(image)
  BY <1>1, <1>2, <1>4 DEF HashedSize, MAX, MIN
<1>5. /\ Readable \in 0 .. HashedSize(image)
      /\ \A i \in 0 .. (Readable - 1) : i \notin unreadable
      /\ Readable = HashedSize(image) \/ Readable \in unreadable
  BY <1>2, ReadablePartExists DEF Readable
<1>6. total_size < 0 => HashedSize(image) = 0
  BY <1>1, <1>2 DEF HashedSize, MAX, MIN
<1> QED
  BY <1>1, <1>2, <1>3, <1>4, <1>5, <1>6

\* What was read is readable.
LEMMA ReadIsReadable ==
  ASSUME MediaAreWellFormed, Inv, pc \in Late,
         NEW m \in 0 .. HashedSize(image), \A i \in 0 .. (m - 1) : i \notin unreadable
  PROVE  m <= Readable
<1>1. /\ HashedSize(image) \in Nat
      /\ Readable \in 0 .. HashedSize(image)
      /\ Readable = HashedSize(image) \/ Readable \in unreadable
  BY AboutVolume
<1>2. Readable < m => Readable \in 0 .. (m - 1) /\ Readable # HashedSize(image)
  BY <1>1
<1> QED
  BY <1>1, <1>2

\* The sum of one more fragment end.
LEMMA SumsOfAppend ==
  ASSUME NEW K \in Nat
  PROVE  /\ IsSequence(SumsOf(K))
         /\ Len(SumsOf(K)) = fragmentsize * K
         /\ SumsOf(K) \o SumOf(HashedThen(K + 1)) = SumsOf(K + 1)
<1> DEFINE w == fragmentsize
           entry(i) == <<Digest(request.alg, HashedThen(((i - 1) \div w) + 1)),
                         ((i - 1) % w) + 1>>
           more == SumOf(HashedThen(K + 1))
<1>1. w \in Nat /\ w * K \in Nat /\ w * (K + 1) = w * K + w
  BY AboutWidth
<1>2. \A k : SumsOf(k) = [i \in 1 .. (w * k) |-> entry(i)]
  BY DEF SumsOf
<1>3. more = [i \in 1 .. w |-> <<Digest(request.alg, HashedThen(K + 1)), i>>]
  BY AboutWidth DEF SumOf, FragmentSum
<1>4. ASSUME NEW j \in 1 .. w
      PROVE  entry(w * K + j) = <<Digest(request.alg, HashedThen(K + 1)), j>>
  <2>1. w \in Nat \ {0} /\ K \in Int /\ j - 1 \in 0 .. (w - 1) /\ w * K \in Int
    BY <1>1
  <2>2. (w * K + (j - 1)) \div w = K /\ (w * K + (j - 1)) % w = j - 1
    BY <2>1, DivisionIs
  <2>3. (w * K + j) - 1 = w * K + (j - 1) /\ (j - 1) + 1 = j
    BY <2>1
  <2> QED
    BY <2>2, <2>3
<1> HIDE DEF w, entry, more
<1>5. IsSequence(SumsOf(K)) /\ Len(SumsOf(K)) = w * K
  BY <1>1, <1>2, FunctionIsSequence
<1>6. IsSequence(SumsOf(K + 1)) /\ Len(SumsOf(K + 1)) = w * K + w
  BY <1>1, <1>2, FunctionIsSequence
<1>7. IsSequence(more) /\ Len(more) = w
  BY <1>1, <1>3, FunctionIsSequence
<1>8. /\ IsSequence(SumsOf(K) \o more)
      /\ Len(SumsOf(K) \o more) = w * K + w
      /\ \A i \in 1 .. (w * K + w) :
           (SumsOf(K) \o more)[i] = IF i <= w * K THEN SumsOf(K)[i] ELSE more[i - w * K]
  <2> DEFINE s == SumsOf(K)
  <2> HIDE DEF s
  <2>1. IsSequence(s) /\ IsSequence(more) /\ Len(s) = w * K /\ Len(more) = w
    BY <1>5, <1>7 DEF s
  <2>2. /\ IsSequence(s \o more)
        /\ Len(s \o more) = Len(s) + Len(more)
        /\ \A i \in 1 .. (Len(s) + Len(more)) :
             (s \o more)[i] = IF i <= Len(s) THEN s[i] ELSE more[i - Len(s)]
    BY ONLY <2>1, Concatenation
  <2> QED
    BY <2>1, <2>2 DEF s
<1>9. ASSUME NEW i \in 1 .. (w * K + w)
      PROVE  (SumsOf(K) \o more)[i] = SumsOf(K + 1)[i]
  <2>1. SumsOf(K + 1)[i] = entry(i)
    BY <1>1, <1>2
  <2>2. CASE i <= w * K
    <3>1. i \in 1 .. (w * K)
      BY <1>1, <2>2
    <3>2. SumsOf(K)[i] = entry(i)
      BY <1>2, <3>1
    <3> QED
      BY <1>8, <2>1, <2>2, <3>2
  <2>3. CASE ~(i <= w * K)
    <3>1. i - w * K \in 1 .. w /\ w * K + (i - w * K) = i
      BY <1>1, <2>3
    <3>2. more[i - w * K] = <<Digest(request.alg, HashedThen(K + 1)), i - w * K>>
      BY <1>3, <3>1
    <3>3. entry(i) = <<Digest(request.alg, HashedThen(K + 1)), i - w * K>>
      BY <1>4, <3>1
    <3> QED
      BY <1>8, <2>1, <2>3, <3>2, <3>3
  <2> QED
    BY <2>2, <2>3
<1>10. SumsOf(K) \o more = SumsOf(K + 1)
  BY <1>6, <1>8, <1>9, SameSequence
<1> QED
  BY <1>5, <1>10 DEF w, more

\* As many sums as there are fragments fit.
LEMMA SumsFit ==
  ASSUME NEW K \in Nat, K <= FRAGMENT_COUNT
  PROVE  Len(SumsOf(K)) <= FRAGMENT_SUM_SIZE
<1>1. fragmentsize \in Nat /\ fragmentsize * FRAGMENT_COUNT = FRAGMENT_SUM_SIZE
  BY AboutWidth
<1>2. fragmentsize * K <= fragmentsize * FRAGMENT_COUNT
  <2>1. CASE fragmentsize = 0
    BY <2>1, Layout
  <2>2. CASE fragmentsize # 0
    BY <1>1, <2>2, Layout, ProductOrder
  <2> QED
    BY <2>1, <2>2
<1> QED
  BY <1>1, <1>2, SumsOfAppend

\* A step of the hash loop: what is read, and that it is the next of the
\* beginning of the image.
LEMMA HashBlockReads ==
  ASSUME MediaAreWellFormed, Inv, HashBlock
  PROVE  /\ pc = "hash"
         /\ offset \in Nat
         /\ offset < total_size
         /\ \E nread \in 1 .. buffer_size :
              /\ offset' = offset + nread
              /\ fdpos' = offset'
              /\ offset' <= HashedSize(image)
              /\ offset' <= Readable
              /\ \A i \in 0 .. (offset' - 1) : i \notin unreadable
              /\ ctx' = CellsAt(image, 0, offset')
              /\ MayBeShort \/ nread = buffer_size \/ offset' = Readable
<1>1. /\ pc = "hash" /\ offset < total_size
      /\ fdpos = offset /\ offset \in Nat
      /\ offset <= HashedSize(image)
      /\ \A i \in 0 .. (offset - 1) : i \notin unreadable
      /\ ctx = CellsAt(image, 0, offset)
  BY DEF HashBlock, Inv, Shape, HashedIsBeginning, Late
<1> DEFINE nbyte == MIN(total_size - offset, buffer_size)
<1>2. PICK nread \in 1 .. nbyte :
        /\ ReadReturns(image, unreadable, fdpos, nbyte, MayBeShort, 0, nread)
        /\ ctx' = ctx \o CellsAt(image, fdpos, nread)
        /\ fdpos' = fdpos + nread
        /\ offset' = offset + nread
  BY DEF HashBlock
<1>3. /\ total_size \in Int /\ Len(image) \in Nat
      /\ HashedSize(image) \in 0 .. Len(image)
      /\ HashedSize(image) <= total_size
      /\ \A m \in Nat : m <= total_size /\ m <= Len(image) => m <= HashedSize(image)
      /\ Readable \in 0 .. HashedSize(image)
      /\ \A i \in 0 .. (Readable - 1) : i \notin unreadable
  BY <1>1, AboutVolume DEF Late
<1>4. /\ nbyte \in Nat /\ nbyte <= total_size - offset /\ nbyte <= buffer_size
      /\ nbyte = total_size - offset \/ nbyte = buffer_size
  BY <1>1, <1>3, BufferSize DEF MIN
<1> HIDE DEF nbyte
<1>5. /\ offset + nread <= Len(image)
      /\ \A i \in offset .. (offset + nread - 1) : i \notin unreadable
      /\ MayBeShort \/ nread = nbyte \/ offset + nread = Len(image)
           \/ offset + nread \in unreadable
  BY <1>1, <1>2, <1>4, ReadSome
<1>6. offset' \in Nat /\ offset' <= total_size /\ nread \in 1 .. buffer_size
  BY <1>1, <1>2, <1>3, <1>4, BufferSize
<1>7. offset' <= HashedSize(image)
  BY <1>2, <1>3, <1>5, <1>6
<1>8. ASSUME NEW i \in 0 .. (offset' - 1)
      PROVE  i \notin unreadable
  <2>1. i \in 0 .. (offset - 1) \/ i \in offset .. (offset + nread - 1)
    BY <1>1, <1>2
  <2> QED
    BY <1>1, <1>5, <2>1
<1>9. offset' <= Readable
  <2>1. offset' \in 0 .. HashedSize(image)
    BY <1>3, <1>6, <1>7
  <2> QED
    BY <1>1, <1>8, <2>1, ReadIsReadable DEF Late
<1>10. ctx' = CellsAt(image, 0, offset')
  <2>1. ctx' = CellsAt(image, 0, offset) \o CellsAt(image, offset, nread)
    BY <1>1, <1>2
  <2>2. offset \in Nat /\ nread \in Nat
    BY <1>1, <1>6
  <2> QED
    BY <1>2, <2>1, <2>2, CellsAppend
<1>11. MayBeShort \/ nread = buffer_size \/ offset' = Readable
  <2>1. CASE nread = nbyte
    <3>1. nbyte = buffer_size \/ offset' = total_size
      BY <1>1, <1>2, <1>3, <1>4, <2>1
    <3>2. offset' = total_size => offset' = Readable
      BY <1>3, <1>6, <1>9
    <3> QED
      BY <2>1, <3>1, <3>2
  <2>2. CASE offset + nread = Len(image)
    BY <1>2, <1>3, <1>6, <1>9, <2>2
  <2>3. CASE offset + nread \in unreadable
    <3>1. offset' \in unreadable
      BY <1>2, <2>3
    <3>2. offset' \notin 0 .. (Readable - 1)
      BY <1>3, <3>1
    <3> QED
      BY <1>3, <1>6, <1>9, <3>2
  <2> QED
    BY <1>5, <2>1, <2>2, <2>3
<1>12. fdpos' = offset'
  BY <1>1, <1>2
<1> QED
  BY <1>1, <1>2, <1>6, <1>7, <1>8, <1>9, <1>10, <1>11, <1>12

\* Without short reads every block begins at a multiple of the buffer size.
LEMMA HashBlockInStep ==
  ASSUME MediaAreWellFormed, Inv, HashBlock, ~MayBeShort
  PROVE  /\ offset % buffer_size = 0
         /\ offset < Readable
         /\ offset' % buffer_size = 0 => offset' = offset + buffer_size
         /\ offset' = MIN(offset + buffer_size, Readable)
         /\ offset' = Readable \/ offset' % buffer_size = 0
<1>1. PICK nread \in 1 .. buffer_size :
        /\ offset' = offset + nread
        /\ offset' <= Readable
        /\ nread = buffer_size \/ offset' = Readable
  BY HashBlockReads
<1>2. pc = "hash" /\ offset \in Nat /\ buffer_size \in Nat \ {0}
  BY HashBlockReads, BufferSize
<1>3. Readable \in Nat
  <2>1. Readable \in 0 .. HashedSize(image) /\ HashedSize(image) \in 0 .. Len(image)
        /\ Len(image) \in Nat
    BY <1>2, AboutVolume DEF Late
  <2> QED
    BY <2>1
<1>4. offset < Readable
  BY <1>1, <1>2, <1>3
<1>5. offset % buffer_size = 0
  BY <1>2, <1>3, <1>4 DEF Inv, InStep, Late
<1>6. (offset + buffer_size) % buffer_size = 0
      /\ \A p \in Int : p % buffer_size = 0 /\ offset < p => offset + buffer_size <= p
  <2>1. offset \in Int /\ buffer_size \in Nat \ {0}
    BY <1>2
  <2> QED
    BY <1>5, <2>1, NextMultiple
<1>7. offset' % buffer_size = 0 => offset' = offset + buffer_size
  <2>1. offset' \in Int /\ offset < offset' /\ offset' <= offset + buffer_size
    BY <1>1, <1>2
  <2>2. offset' % buffer_size = 0 => offset + buffer_size <= offset'
    BY <1>6, <2>1
  <2>3. offset + buffer_size \in Int
    BY <1>2
  <2> QED
    BY <2>1, <2>2, <2>3
<1>8. offset' = MIN(offset + buffer_size, Readable)
  BY <1>1, <1>2, <1>3 DEF MIN
<1>9. offset' = Readable \/ offset' % buffer_size = 0
  BY <1>1, <1>6
<1> QED
  BY <1>4, <1>5, <1>7, <1>8, <1>9

\* A block takes a sum just when it begins at a fragment end.
LEMMA HashBlockSums ==
  ASSUME MediaAreWellFormed, Inv, HashBlock, ~MayBeShort
  PROVE  InStep' /\ SumsOfEnds' /\ FragmentSumsFit'
<1> DEFINE size == FragmentSize(image)
           ends == FragmentEnds(image, Readable)
           K == Cardinality(EndsBelow(offset))
           fragment == offset \div size
<1>1. /\ pc = "hash" /\ pc' = "hash"
      /\ UNCHANGED <<image, unreadable, faults, request, volume>>
      /\ previous_fragment' = offset \div fragment_size
      /\ fragmentsums' = IF offset \div fragment_size # previous_fragment
                         THEN fragmentsums \o SumOf(ctx') ELSE fragmentsums
  BY DEF HashBlock
<1>2. /\ offset \in Nat /\ offset < total_size
      /\ fragment_size = size
      /\ SectorsOf(image) \in Nat /\ Len(image) \in Nat
      /\ total_size \in Int
      /\ total_size = VolumeSize(image)
      /\ size \in Nat \ {0}
      /\ Readable \in Nat
  <2>1. offset \in Nat /\ offset < total_size
    BY HashBlockReads
  <2>2. /\ fragment_size = size
        /\ SectorsOf(image) \in Nat /\ Len(image) \in Nat
        /\ total_size \in Int
        /\ total_size = VolumeSize(image)
        /\ total_size > 0 => fragment_size \in Nat \ {0}
        /\ Readable \in 0 .. HashedSize(image)
        /\ HashedSize(image) \in 0 .. Len(image)
    BY <1>1, AboutVolume DEF Late
  <2>3. total_size > 0
    BY <2>1, <2>2
  <2> QED
    BY <2>1, <2>2, <2>3
<1>3. PICK nread \in 1 .. buffer_size :
        /\ offset' = offset + nread
        /\ ctx' = CellsAt(image, 0, offset')
  BY HashBlockReads
<1>4. /\ offset % buffer_size = 0
      /\ offset < Readable
      /\ offset' % buffer_size = 0 => offset' = offset + buffer_size
      /\ offset' = MIN(offset + buffer_size, Readable)
      /\ offset' = Readable \/ offset' % buffer_size = 0
  BY HashBlockInStep
<1>5. fragment \in Nat /\ fragment <= FRAGMENT_COUNT
  BY <1>2, <1>4, FragmentIsCounted
<1>6. /\ offset = 0 => previous_fragment = 0 /\ fragment = 0
      /\ offset > 0 => previous_fragment = (offset - buffer_size) \div size
      /\ fragmentsums = SumsOf(K)
      /\ K <= previous_fragment
      /\ previous_fragment <= FRAGMENT_COUNT
      /\ previous_fragment \in Int
  <2>1. offset = 0 => fragment = 0
    <3>1. (size * 0 + 0) \div size = 0 /\ size * 0 + 0 = 0
      BY <1>2, DivisionIs
    <3> QED
      BY <3>1
  <2> QED
    BY <1>1, <1>2, <1>4, <2>1 DEF Inv, InStep, SumsOfEnds, Shape, Late
<1>7. offset \in ends <=> fragment # previous_fragment
  <2>1. offset \in ends <=> /\ offset \in 1 .. (Readable - 1)
                            /\ offset % buffer_size = 0
                            /\ fragment # (offset - buffer_size) \div size
    BY DEF FragmentEnds
  <2>2. CASE offset = 0
    BY <1>6, <2>1, <2>2
  <2>3. CASE offset > 0
    BY <1>2, <1>4, <1>6, <2>1, <2>3
  <2> QED
    BY <1>2, <2>2, <2>3
<1>8. K \in Nat /\ Cardinality(EndsBelow(offset')) \in Nat
      /\ Cardinality(EndsBelow(offset')) = IF offset \in ends THEN K + 1 ELSE K
  <2>1. EndsBelow(offset) \subseteq ends /\ EndsBelow(offset') \subseteq ends
    BY DEF EndsBelow
  <2>2. K \in Nat /\ Cardinality(EndsBelow(offset')) \in Nat
    BY <1>2, <2>1, FragmentEndsFinite
  <2>3. Cardinality(EndsBelow(offset + nread)) = IF offset \in ends THEN K + 1 ELSE K
    BY <1>2, <1>4, EndsPassed DEF EndsBelow
  <2> QED
    BY <1>3, <2>2, <2>3
<1>9. previous_fragment <= fragment
  <2>1. CASE offset = 0
    BY <1>6, <2>1
  <2>2. CASE offset > 0
    <3>1. offset - buffer_size <= offset /\ offset - buffer_size \in Int
      BY <1>2, BufferSize
    <3>2. offset \in Int /\ size \in Nat \ {0}
      BY <1>2
    <3> HIDE DEF size
    <3>3. (offset - buffer_size) \div size <= offset \div size
      BY <3>1, <3>2, DivisionOrder
    <3> QED
      BY <1>6, <2>2, <3>3
  <2> QED
    BY <1>2, <2>1, <2>2
<1>10. offset \in ends => ctx' = HashedThen(K + 1)
  <2> SUFFICES ASSUME offset \in ends
               PROVE  ctx' = HashedThen(K + 1)
    OBVIOUS
  <2>1. FragmentEnd(image, Readable, K + 1) = offset
    BY <1>2, FragmentEndIs DEF EndsBelow
  <2> QED
    BY <1>3, <1>4, <2>1 DEF HashedThen
<1>11. /\ \A k : SumsOf(k)' = SumsOf(k)
       /\ Readable' = Readable
       /\ FragmentSize(image)' = size
       /\ EndsBelow(offset)' = EndsBelow(offset')
  BY <1>1 DEF SumsOf, HashedThen, EndsBelow, Readable
<1>12. previous_fragment' = fragment
  BY <1>1, <1>2
<1> HIDE DEF size, ends, K, fragment
<1>13. fragmentsums' = SumsOf(Cardinality(EndsBelow(offset')))
       /\ Cardinality(EndsBelow(offset')) <= fragment
  <2>1. CASE offset \in ends
    <3>1. fragmentsums' = SumsOf(K) \o SumOf(HashedThen(K + 1))
      BY <1>1, <1>2, <1>6, <1>7, <1>10, <2>1 DEF fragment
    <3>2. fragmentsums' = SumsOf(K + 1)
      BY <1>8, <3>1, SumsOfAppend
    <3>3. K + 1 <= fragment
      BY <1>5, <1>6, <1>7, <1>8, <1>9, <2>1
    <3> QED
      BY <1>8, <2>1, <3>2, <3>3
  <2>2. CASE offset \notin ends
    <3>1. fragmentsums' = fragmentsums /\ fragment = previous_fragment
      BY <1>1, <1>2, <1>7, <2>2 DEF fragment
    <3> QED
      BY <1>6, <1>8, <2>2, <3>1
  <2> QED
    BY <2>1, <2>2
<1>14. SumsOfEnds'
  BY <1>5, <1>11, <1>12, <1>13 DEF SumsOfEnds
<1>15. InStep'
  <2>1. offset' # 0
    BY <1>2, <1>3
  <2>2. offset' % buffer_size = 0 => offset' - buffer_size = offset
    BY <1>2, <1>4, BufferSize
  <2> QED
    BY <1>4, <1>11, <1>12, <2>1, <2>2 DEF InStep, fragment
<1>16. FragmentSumsFit'
  <2>1. Cardinality(EndsBelow(offset')) <= FRAGMENT_COUNT
    BY <1>5, <1>8, <1>13, Layout
  <2> QED
    BY <1>8, <1>13, <2>1, SumsFit DEF FragmentSumsFit
<1> QED
  BY <1>14, <1>15, <1>16

\* A block is hashed, and its sum appended, as the certificate has it.
LEMMA HashBlockKeepsInv ==
  ASSUME MediaAreWellFormed, Inv, HashBlock
  PROVE  Inv'
<1>1. /\ pc = "hash" /\ pc' = "hash"
      /\ UNCHANGED <<image, unreadable, faults, request, volume, rc>>
      /\ previous_fragment' = offset \div fragment_size
      /\ fragmentsums' = IF offset \div fragment_size # previous_fragment
                         THEN fragmentsums \o SumOf(ctx') ELSE fragmentsums
  BY DEF HashBlock
<1>2. PICK nread \in 1 .. buffer_size :
        /\ offset' = offset + nread
        /\ fdpos' = offset'
        /\ offset' <= HashedSize(image)
        /\ \A i \in 0 .. (offset' - 1) : i \notin unreadable
        /\ ctx' = CellsAt(image, 0, offset')
  BY HashBlockReads
<1>3. offset' \in Nat
  BY <1>2 DEF Inv, Shape
<1>4. previous_fragment' \in Int
  <2>1. fragment_size \in Nat \ {0} /\ offset \in Int
    <3>1. offset \in Nat /\ offset < total_size /\ total_size \in Int
          /\ (total_size > 0 => fragment_size \in Nat \ {0})
      BY <1>1, HashBlockReads, AboutVolume DEF Late
    <3> QED
      BY <3>1
  <2> QED
    BY <1>1, <2>1, Division
<1>5. IsSequence(fragmentsums')
  <2>1. IsSequence(SumOf(ctx'))
    <3>1. SumOf(ctx') = [i \in 1 .. fragmentsize |-> <<Digest(request.alg, ctx'), i>>]
      BY AboutWidth DEF SumOf, FragmentSum
    <3> HIDE DEF SumOf
    <3>2. SumOf(ctx') = [i \in 1 .. fragmentsize |-> SumOf(ctx')[i]]
      BY <3>1
    <3> QED
      BY <3>2, AboutWidth, FunctionIsSequence
  <2>2. IsSequence(fragmentsums)
    BY DEF Inv, Shape
  <2> QED
    BY <1>1, <2>1, <2>2, Concatenation
<1>6. Shape'
  BY <1>1, <1>2, <1>3, <1>4, <1>5 DEF Inv, Shape, volume
<1>7. FromMedium' /\ NothingHashed'
  BY <1>1 DEF Inv, FromMedium, NothingHashed, Early
<1>8. VolumeFound'
  BY <1>1 DEF Inv, VolumeFound, volume, Early, Late
<1>9. AppDataIsBlank'
  BY <1>1 DEF Inv, AppDataIsBlank, BlanksAreSure, WritesAreFull, MayBeShort, Late
<1>10. HashedIsBeginning'
  BY <1>1, <1>2 DEF HashedIsBeginning
<1>11. InStep' /\ SumsOfEnds' /\ FragmentSumsFit'
  <2>1. CASE MayBeShort
    BY <1>1, <2>1 DEF InStep, SumsOfEnds, FragmentSumsFit, MayBeShort
  <2>2. CASE ~MayBeShort
    BY <2>2, HashBlockSums
  <2> QED
    BY <2>1, <2>2
<1>12. SuccessMeansImplanted'
  BY <1>1 DEF Inv, Shape, SuccessMeansImplanted, NotReturned
<1> QED
  BY <1>6, <1>7, <1>8, <1>9, <1>10, <1>11, <1>12 DEF Inv

\* The loop ends where nothing more can be read.
LEMMA EndOfVolumeKeepsInv ==
  ASSUME MediaAreWellFormed, Inv, EndOfVolume
  PROVE  Inv'
<1>1. /\ pc = "hash" /\ pc' = "write"
      /\ fdpos' = pvd_offset + APPDATA_OFFSET
      /\ UNCHANGED <<image, unreadable, faults, request, volume, hashing, rc>>
  BY DEF EndOfVolume
<1>2. /\ offset \in Nat /\ fdpos = offset /\ fdpos \in Nat /\ pvd_offset \in Nat
      /\ offset <= HashedSize(image)
  BY <1>1 DEF Inv, Shape, HashedIsBeginning, Late
<1>3. /\ total_size \in Int /\ Len(image) \in Nat
      /\ HashedSize(image) \in 0 .. Len(image)
      /\ total_size >= 0 => HashedSize(image) <= total_size
      /\ total_size < 0 => HashedSize(image) = 0
  BY <1>1, AboutVolume DEF Late
<1>4. offset = HashedSize(image) \/ offset \in unreadable
  <2>1. CASE offset >= total_size
    BY <1>2, <1>3, <2>1
  <2>2. ASSUME offset < total_size, NEW r \in {-1, 0},
               ReadReturns(image, unreadable, fdpos,
                           MIN(total_size - offset, buffer_size), MayBeShort, 0, r)
        PROVE  offset = HashedSize(image) \/ offset \in unreadable
    <3>1. MIN(total_size - offset, buffer_size) \in Nat
      BY <1>2, <1>3, <2>2, BufferSize DEF MIN
    <3>2. CASE r = 0
      <4>1. fdpos >= Len(image)
        BY <1>2, <2>2, <3>1, <3>2, ReadNothing
      <4> QED
        BY <1>2, <1>3, <4>1
    <3>3. CASE r = -1
      BY <1>2, <2>2, <3>1, <3>3, ReadFails
    <3> QED
      BY <3>2, <3>3
  <2> QED
    BY <2>1, <2>2 DEF EndOfVolume
<1>5. Shape'
  BY <1>1, <1>2, Layout DEF Inv, Shape, volume, hashing, States
<1>6. FromMedium' /\ NothingHashed'
  BY <1>1 DEF Inv, FromMedium, NothingHashed, Early
<1>7. VolumeFound'
  BY <1>1 DEF Inv, VolumeFound, volume, Early, Late
<1>8. AppDataIsBlank'
  BY <1>1 DEF Inv, AppDataIsBlank, BlanksAreSure, WritesAreFull, MayBeShort, Late
<1>9. HashedIsBeginning'
  BY <1>1, <1>4 DEF Inv, HashedIsBeginning, Late, hashing
<1>10. InStep'
  BY <1>1 DEF Inv, InStep, Late, hashing, MayBeShort, Readable
<1>11. SumsOfEnds'
  BY <1>1 DEF Inv, SumsOfEnds, Late, hashing, MayBeShort, Readable, EndsBelow, SumsOf,
              HashedThen
<1>12. FragmentSumsFit'
  BY <1>1 DEF Inv, FragmentSumsFit, hashing, MayBeShort
<1>13. SuccessMeansImplanted'
  BY <1>1 DEF Inv, Shape, SuccessMeansImplanted, NotReturned
<1> QED
  BY <1>5, <1>6, <1>7, <1>8, <1>9, <1>10, <1>11, <1>12, <1>13 DEF Inv

-----------------------------------------------------------------------------
(* The certificate.                                                        *)

\* When all is hashed, the content hashed is that of the volume up to the
\* first cell that cannot be read, with blank application data.
LEMMA HashedIsBlanked ==
  ASSUME MediaAreWellFormed, Inv, pc = "write", BlanksAreSure
  PROVE  /\ offset = Readable
         /\ \A m \in 0 .. Readable : CellsAt(image, 0, m) = Blanked(image, m)
<1>1. /\ offset \in Nat
      /\ offset <= HashedSize(image)
      /\ \A o \in 0 .. (offset - 1) : o \notin unreadable
      /\ offset = HashedSize(image) \/ offset \in unreadable
      /\ \A i \in AppDataPlaces(image) :
           image[i] = Space \/ \E o \in AppDataStart(image) .. (i - 1) : o \in unreadable
  BY DEF Inv, Shape, HashedIsBeginning, AppDataIsBlank, Late
<1>2. /\ HashedSize(image) \in 0 .. Len(image) /\ Len(image) \in Nat
      /\ Readable \in 0 .. HashedSize(image)
      /\ \A i \in 0 .. (Readable - 1) : i \notin unreadable
  BY AboutVolume DEF Late
<1>3. offset = Readable
  BY <1>1, <1>2, ReadablePartIs DEF Readable
<1>4. AppDataStart(image) \in Nat
  BY AboutImage DEF Inv
<1>5. ASSUME NEW m \in 0 .. Readable, NEW i \in 1 .. m, i \in AppDataPlaces(image)
      PROVE  image[i] = Space
  <2>1. ASSUME NEW o \in AppDataStart(image) .. (i - 1)
        PROVE  o \notin unreadable
    <3>1. o \in 0 .. (Readable - 1)
      BY <1>2, <1>4
    <3> QED
      BY <1>2, <3>1
  <2> QED
    BY <1>1, <1>5, <2>1
<1>6. ASSUME NEW m \in 0 .. Readable
      PROVE  CellsAt(image, 0, m) = Blanked(image, m)
  <2>1. \A i \in 1 .. m :
          image[0 + i] = IF i \in AppDataPlaces(image) THEN Space ELSE image[i]
    BY <1>5
  <2> QED
    BY <2>1 DEF CellsAt, Blanked, BlankedAt, AppDataPlaces
<1> QED
  BY <1>3, <1>6

\* So the sums are the fragment sums of the image.
LEMMA SumsAreFragmentSums ==
  ASSUME MediaAreWellFormed, Inv, pc = "write", BlanksAreSure, ~MayBeShort
  PROVE  fragmentsums = FragmentSums(image, Readable, request.alg)
<1> DEFINE ends == FragmentEnds(image, Readable)
           K == Cardinality(ends)
           w == fragmentsize
           digests == [f \in 1 .. K |-> Digest(request.alg, HashedAt(image, Readable, f))]
<1>1. offset = Readable /\ \A m \in 0 .. Readable : CellsAt(image, 0, m) = Blanked(image, m)
  BY HashedIsBlanked
<1>2. Readable \in Nat
  <2>1. HashedSize(image) \in 0 .. Len(image) /\ Len(image) \in Nat
        /\ Readable \in 0 .. HashedSize(image)
    BY AboutVolume DEF Late
  <2> QED
    BY <2>1
<1>3. ends \subseteq 1 .. (Readable - 1) /\ K \in Nat
  BY <1>2, FragmentEndsFinite
<1>4. EndsBelow(offset) = ends
  BY <1>1, <1>2, <1>3 DEF EndsBelow
<1>5. fragmentsums = SumsOf(K)
  BY <1>4 DEF Inv, SumsOfEnds, Late
<1>6. ASSUME NEW f \in 1 .. K
      PROVE  HashedThen(f) = HashedAt(image, Readable, f)
  <2>1. FragmentEnd(image, Readable, f) \in Nat
    <3>1. f \in 1 .. Cardinality(FragmentEnds(image, Readable))
      OBVIOUS
    <3>2. FragmentEnd(image, Readable, f) \in FragmentEnds(image, Readable)
      BY ONLY <3>1, <1>2, FragmentEndExists
    <3> QED
      BY <3>2, <1>3
  <2>2. MIN(FragmentEnd(image, Readable, f) + buffer_size, Readable) \in 0 .. Readable
    BY <1>2, <2>1, BufferSize DEF MIN
  <2> QED
    BY <1>1, <2>2 DEF HashedThen, HashedAt
<1>7. w \in Nat
  BY AboutWidth
<1>8. FragmentSums(image, Readable, request.alg)
        = [i \in 1 .. (w * K) |-> <<digests[((i - 1) \div w) + 1], ((i - 1) % w) + 1>>]
  <2>1. Len(digests) = K
    BY <1>3
  <2> QED
    BY <2>1 DEF FragmentSums, fragmentsize
<1>9. ASSUME NEW i \in 1 .. (w * K)
      PROVE  ((i - 1) \div w) + 1 \in 1 .. K
  <2>1. w \in Nat \ {0} /\ i - 1 \in Nat /\ i - 1 < w * K
    <3>1. w # 0
      BY <1>3
    <3> QED
      BY <1>3, <1>7, <3>1
  <2> DEFINE q == (i - 1) \div w
  <2> HIDE DEF w
  <2>2. q \in Int /\ (i - 1) % w \in 0 .. (w - 1) /\ i - 1 = w * q + ((i - 1) % w)
    <3>1. i - 1 \in Int /\ w \in Nat \ {0}
      BY <2>1
    <3> QED
      BY <3>1, Division
  <2> HIDE DEF q
  <2>3. /\ q \in Int /\ w * q \in Int /\ w * K \in Int
        /\ w * q <= i - 1 /\ i - 1 < w * q + w
    <3>1. w * q \in Int /\ w * K \in Int
      BY <1>3, <2>1, <2>2
    <3> QED
      BY <2>1, <2>2, <3>1
  <2>4. K <= q => w * K <= w * q
    BY <1>3, <2>1, <2>3, ProductOrder
  <2>5. q < 0 => w * q + w <= w * 0
    BY <2>1, <2>3, ProductOrder
  <2>6. w * 0 = 0
    BY <2>1
  <2>7. ~(K <= q) /\ ~(q < 0)
    BY <2>1, <2>3, <2>4, <2>5, <2>6
  <2> QED
    BY <1>3, <2>3, <2>7 DEF q
<1> HIDE DEF K
<1>10. ASSUME NEW i \in 1 .. (w * K)
       PROVE  digests[((i - 1) \div w) + 1]
                = Digest(request.alg, HashedThen(((i - 1) \div w) + 1))
  BY <1>6, <1>9
<1> HIDE DEF digests
<1> QED
  BY <1>5, <1>8, <1>10 DEF SumsOf

\* The certificate that is written is one of the image it is written to.
LEMMA CertificateIsOwn ==
  ASSUME MediaAreWellFormed, Inv, pc = "write", DeviceIsWhole,
         WriteAppData(NewAppData(request.alg, Digest(request.alg, ctx),
                                 request.supported, fragmentsums)),
         unreadable' = unreadable
  PROVE  LET n == ReadablePart(image', unreadable')
             cells == NewAppData(request.alg, HashSum(image', n, request.alg),
                                 request.supported, fragmentsums)
         IN  /\ AppDataStart(image') < Len(image')
             /\ image' = WriteAt(image', AppDataStart(image'), cells)
             /\ AppDataOf(image') = cells
             /\ MayBeShort \/ fragmentsums = FragmentSums(image', n, request.alg)
<1> DEFINE at == AppDataStart(image)
           cells == NewAppData(request.alg, Digest(request.alg, ctx),
                               request.supported, fragmentsums)
<1>1. BlanksAreSure /\ WritesAreFull
  BY DEF DeviceIsWhole, BlanksAreSure, WritesAreFull
<1>2. cells = [i \in 1 .. APPDATA_SIZE |-> cells[i]]
  BY AppDataIsFunction
<1> HIDE DEF cells
<1>3. IsSequence(image') /\ SameOutside(image, image') /\ image' = WriteAt(image, at, cells)
  BY <1>1, <1>2, WriteAppDataFacts DEF cells
<1>4. /\ IsSequence(image) /\ StopDescriptors(image) # {}
      /\ at + APPDATA_SIZE <= Len(image) /\ Len(image) \in Nat
      /\ at \in Nat /\ APPDATA_SIZE \in Nat \ {0}
      /\ at < Len(image)
  <2>1. /\ IsSequence(image) /\ StopDescriptors(image) # {} /\ Len(image) \in Nat /\ at \in Nat
        /\ at + APPDATA_SIZE <= Len(image)
    BY AboutImage DEF Inv, Shape, VolumeFound, Early, Late
  <2>2. APPDATA_SIZE \in Nat \ {0}
    BY Layout
  <2> QED
    BY <2>1, <2>2
<1>5. /\ AppDataStart(image') = at
      /\ isosize(image') = isosize(image)
      /\ Len(image') = Len(image)
  BY <1>3, <1>4, SameVolume DEF SameOutside
<1>6. ReadablePart(image', unreadable') = Readable
  BY <1>5, SameReadablePart DEF Readable
<1>7. /\ HashedSize(image) \in Nat /\ HashedSize(image) <= Len(image)
      /\ Readable \in 0 .. HashedSize(image)
  <2>1. HashedSize(image) \in 0 .. Len(image) /\ Readable \in 0 .. HashedSize(image)
    BY AboutVolume DEF Late
  <2> QED
    BY <1>4, <2>1
<1>8. /\ HashSum(image', Readable, request.alg) = HashSum(image, Readable, request.alg)
      /\ FragmentSums(image', Readable, request.alg) = FragmentSums(image, Readable, request.alg)
  BY <1>3, <1>4, <1>7, SameDigests
<1>9. ctx = Blanked(image, Readable)
  <2>1. ctx = CellsAt(image, 0, offset)
    BY DEF Inv, HashedIsBeginning, Late
  <2> QED
    BY <1>1, <1>7, <2>1, HashedIsBlanked
<1>10. cells = NewAppData(request.alg, HashSum(image', Readable, request.alg),
                          request.supported, fragmentsums)
  BY <1>8, <1>9 DEF cells, HashSum
<1>11. Len(cells) = APPDATA_SIZE
  BY <1>2, <1>4, FunctionIsSequence
<1>12. image' = WriteAt(image', at, cells)
  BY <1>3, <1>4, <1>11, WriteTwice
<1>13. AppDataOf(image') = cells
  BY <1>2, <1>3, <1>4, WrittenAppData
<1>14. MayBeShort \/ fragmentsums = FragmentSums(image', Readable, request.alg)
  BY <1>1, <1>8, SumsAreFragmentSums
<1> QED
  BY <1>4, <1>5, <1>6, <1>10, <1>12, <1>13, <1>14

\* What is written is the certificate of what the image then is.
LEMMA WriteCertificateKeepsInv ==
  ASSUME MediaAreWellFormed, Inv, WriteCertificate
  PROVE  Inv'
<1>1. /\ pc = "write"
      /\ UNCHANGED <<unreadable, faults, request, volume, fdpos, hashing>>
  BY DEF WriteCertificate
<1>2. CASE Return(-1) /\ UNCHANGED image
  <2>1. fdpos' \in Nat
    BY <1>1 DEF Inv, Shape
  <2> QED
    BY <1>1, <1>2, <2>1, FailureKeepsInv DEF Return
<1> DEFINE cells == NewAppData(request.alg, Digest(request.alg, ctx),
                               request.supported, fragmentsums)
<1>3. CASE WriteAppData(cells) /\ Return(0)
  <2>1. pc' = "done" /\ rc' = 0
    BY <1>3 DEF Return
  <2>2. IsSequence(image') /\ SameOutside(image, image')
    BY <1>1, <1>3, AppDataIsFunction, WriteAppDataFacts
  <2>3. Shape'
    BY <1>1, <2>1, <2>2 DEF Inv, Shape, volume, hashing, States
  <2>4. FromMedium' /\ VolumeFound'
    BY <1>1, <2>1, <2>2, WriteKeepsVolume DEF Early
  <2>5. NothingHashed' /\ AppDataIsBlank' /\ HashedIsBeginning' /\ InStep' /\ SumsOfEnds'
    BY <2>1 DEF NothingHashed, AppDataIsBlank, HashedIsBeginning, InStep, SumsOfEnds, Early, Late
  <2>6. FragmentSumsFit'
    BY <1>1 DEF Inv, FragmentSumsFit, hashing, MayBeShort
  <2>7. SuccessMeansImplanted'
    <3> SUFFICES ASSUME DeviceIsWhole'
                 PROVE  LET n == ReadablePart(image', unreadable')
                        IN  /\ AppDataStart(image') < Len(image')
                            /\ image' = WriteAt(image', AppDataStart(image'),
                                 NewAppData(request.alg, HashSum(image', n, request.alg),
                                            request.supported, fragmentsums))
                            /\ MayBeShort
                                 \/ fragmentsums = FragmentSums(image', n, request.alg)
      BY <1>1 DEF SuccessMeansImplanted, HoldsAppData, hashing, MayBeShort
    <3>1. DeviceIsWhole
      BY <1>1 DEF DeviceIsWhole, MayBeShort
    <3> QED
      BY <1>1, <1>3, <3>1, CertificateIsOwn
  <2> QED
    BY <2>3, <2>4, <2>5, <2>6, <2>7 DEF Inv
<1> QED
  BY <1>2, <1>3 DEF WriteCertificate

-----------------------------------------------------------------------------
(* The theorems.                                                           *)

\* Every action keeps the invariant.
LEMMA InvNext ==
  ASSUME MediaAreWellFormed, Inv, [Next]_vars
  PROVE  Inv'
<1>1. CASE OpenFails \/ NoVolume
  BY <1>1, OpenFailsKeepsInv
<1>2. CASE FindVolume
  BY <1>2, FindVolumeKeepsInv
<1>3. CASE AppDataUnreadable
  BY <1>3, AppDataUnreadableKeepsInv
<1>4. CASE ReadAppData
  BY <1>4, ReadAppDataKeepsInv
<1>5. CASE Erase
  BY <1>5, EraseKeepsInv
<1>6. CASE HashBlock
  BY <1>6, HashBlockKeepsInv
<1>7. CASE EndOfVolume
  BY <1>7, EndOfVolumeKeepsInv
<1>8. CASE WriteCertificate
  BY <1>8, WriteCertificateKeepsInv
<1>9. CASE Crash
  BY <1>9, CrashKeepsInv
<1>10. CASE UNCHANGED vars
  <2>1. UNCHANGED <<image, unreadable, faults, request, pc, total_size, pvd_offset, fdpos,
                    offset, ctx, previous_fragment, fragmentsums, rc>>
    BY <1>10 DEF vars, volume, hashing
  <2>2. Shape' /\ FromMedium' /\ NothingHashed'
    BY <2>1 DEF Inv, Shape, FromMedium, NothingHashed
  <2>3. VolumeFound' /\ AppDataIsBlank' /\ HashedIsBeginning'
    BY <2>1 DEF Inv, VolumeFound, AppDataIsBlank, HashedIsBeginning, BlanksAreSure,
                WritesAreFull, MayBeShort
  <2>4. InStep' /\ SumsOfEnds' /\ FragmentSumsFit'
    BY <2>1 DEF Inv, InStep, SumsOfEnds, FragmentSumsFit, MayBeShort, Readable, EndsBelow,
                SumsOf, HashedThen
  <2>5. SuccessMeansImplanted'
    BY <2>1 DEF Inv, SuccessMeansImplanted, DeviceIsWhole, MayBeShort, HoldsAppData, Untouched
  <2> QED
    BY <2>2, <2>3, <2>4, <2>5 DEF Inv
<1> QED
  BY <1>1, <1>2, <1>3, <1>4, <1>5, <1>6, <1>7, <1>8, <1>9, <1>10 DEF Next, Step, Returned

\* The invariant holds in every state, for all well-formed media.
THEOREM Invariance ==
  ASSUME MediaAreWellFormed
  PROVE  Spec => []Inv
<1>1. Inv /\ [Next]_vars => Inv'
  BY InvNext
<1> QED
  BY <1>1, InitInv, PTL DEF Spec

\* Whatever the volume, the sums that strncat() appends fit into the room that
\* implantISOFD() has for them, on every device that returns what it is asked
\* for.
THEOREM SumsAlwaysFit ==
  ASSUME MediaAreWellFormed
  PROVE  Spec => []FragmentSumsFit
<1>1. Inv => FragmentSumsFit
  BY DEF Inv
<1> QED
  BY <1>1, Invariance, PTL

\* If the implanter returns 0 the image has the certificate of its own content,
\* digest and fragment sums, or its application data is past the end of the
\* file and nothing was changed.
THEOREM SuccessIsImplanted ==
  ASSUME MediaAreWellFormed
  PROVE  Spec => []SuccessMeansImplanted
<1>1. Inv => SuccessMeansImplanted
  BY DEF Inv
<1> QED
  BY <1>1, Invariance, PTL

\* Only two steps change the image.
LEMMA ChangesAreWrites ==
  ASSUME Inv, [Next]_vars, image' # image
  PROVE  /\ unreadable' = unreadable /\ fragmentsums' = fragmentsums /\ request' = request
         /\ \/ pc = "erase" /\ WriteAppData(BlankAppData)
            \/ /\ pc = "write"
               /\ WriteAppData(NewAppData(request.alg, Digest(request.alg, ctx),
                                          request.supported, fragmentsums))
BY DEF Next, Step, OpenFails, NoVolume, FindVolume, AppDataUnreadable, ReadAppData, Erase,
       HashBlock, EndOfVolume, WriteCertificate, Crash, Returned, vars, hashing

\* Every change of the image leaves blank application data or the certificate
\* of its own content, at whatever step the implanter is killed or fails.
THEOREM NeverFalseCertificate ==
  ASSUME MediaAreWellFormed
  PROVE  Spec => NoFalseCertificate
<1>1. ASSUME Inv, [Next]_vars, image' # image, DeviceIsWhole
      PROVE  \/ AppDataOf(image') = BlankAppData
             \/ LET n == ReadablePart(image', unreadable)
                IN  AppDataOf(image')
                      = NewAppData(request.alg, HashSum(image', n, request.alg),
                                   request.supported, fragmentsums)
  <2>1. CASE pc = "erase" /\ WriteAppData(BlankAppData)
    <3>1. image' = WriteAt(image, AppDataStart(image), BlankAppData)
      BY <1>1, <2>1, AppDataIsFunction, WriteAppDataFacts DEF DeviceIsWhole, WritesAreFull
    <3>2. /\ IsSequence(image) /\ StopDescriptors(image) # {}
          /\ AppDataStart(image) + APPDATA_SIZE <= Len(image)
      BY <1>1, <2>1, AboutImage DEF Inv, Shape, VolumeFound, Early, Late
    <3> QED
      BY <3>1, <3>2, AppDataIsFunction, WrittenAppData
  <2>2. CASE /\ pc = "write"
             /\ WriteAppData(NewAppData(request.alg, Digest(request.alg, ctx),
                                        request.supported, fragmentsums))
    <3>1. unreadable' = unreadable
      BY <1>1, ChangesAreWrites
    <3> QED
      BY <1>1, <2>2, <3>1, CertificateIsOwn
  <2> QED
    BY <1>1, <2>1, <2>2, ChangesAreWrites
<1>2. Inv /\ [Next]_vars
        => [image' # image /\ DeviceIsWhole =>
              \/ AppDataOf(image') = BlankAppData
              \/ LET n == ReadablePart(image', unreadable)
                 IN  AppDataOf(image')
                       = NewAppData(request.alg, HashSum(image', n, request.alg),
                                    request.supported, fragmentsums)]_vars
  BY <1>1
<1> QED
  BY <1>2, Invariance, PTL DEF Spec, NoFalseCertificate

\* What OnlyUnusedChanges says of one step.
ChangeIsAllowed ==
  /\ Len(image') = Len(image)
  /\ BlankedAt(image', AppDataStart(image), Len(image))
       = BlankedAt(image, AppDataStart(image), Len(image))
  /\ \/ request.forceit \/ MayBeShort \/ AppDataOf(image) = BlankAppData
     \/ \E o \in AppDataStart(image) .. (AppDataStart(image) + APPDATA_SIZE - 1) :
          o \in unreadable

\* Neither of the two writes elsewhere, or over data in use that it saw.
LEMMA ChangesAreAllowed ==
  ASSUME MediaAreWellFormed, Inv, [Next]_vars, image' # image
  PROVE  ChangeIsAllowed
<1> DEFINE at == AppDataStart(image)
<1>1. /\ pc \in {"erase", "write"}
      /\ SameOutside(image, image')
  <2>1. /\ pc \in {"erase", "write"}
        /\ \E cells : cells = [i \in 1 .. APPDATA_SIZE |-> cells[i]] /\ WriteAppData(cells)
    <3>1. CASE pc = "erase" /\ WriteAppData(BlankAppData)
      BY <3>1, AppDataIsFunction
    <3> DEFINE cells == NewAppData(request.alg, Digest(request.alg, ctx),
                                   request.supported, fragmentsums)
    <3>2. CASE pc = "write" /\ WriteAppData(cells)
      <4>1. cells = [i \in 1 .. APPDATA_SIZE |-> cells[i]]
        BY AppDataIsFunction
      <4> HIDE DEF cells
      <4> QED
        BY <3>2, <4>1
    <3> QED
      BY <3>1, <3>2, ChangesAreWrites
  <2> QED
    BY <2>1, WriteAppDataFacts
<1>2. /\ IsSequence(image) /\ StopDescriptors(image) # {}
      /\ Len(image) \in Nat /\ at \in Nat /\ APPDATA_SIZE \in Nat
      /\ at + APPDATA_SIZE <= Len(image)
  BY <1>1, AboutImage, Layout DEF Inv, Shape, VolumeFound, Early, Late
<1>3. Len(image') = Len(image)
  BY <1>1 DEF SameOutside
<1>4. BlankedAt(image', at, Len(image)) = BlankedAt(image, at, Len(image))
  BY <1>1, <1>2, SameBlanked
<1>5. pc = "erase" => request.forceit
  BY DEF Inv, VolumeFound, Early, Late
<1>6. ASSUME pc = "write", ~request.forceit, ~MayBeShort,
             ~\E o \in at .. (at + APPDATA_SIZE - 1) : o \in unreadable
      PROVE  AppDataOf(image) = BlankAppData
  <2>1. \A i \in AppDataPlaces(image) :
          image[i] = Space \/ \E o \in at .. (i - 1) : o \in unreadable
    BY <1>6 DEF Inv, AppDataIsBlank, BlanksAreSure, Late
  <2>2. ASSUME NEW j \in 1 .. APPDATA_SIZE
        PROVE  image[at + j] = Space
    <3>1. at + j \in AppDataPlaces(image)
      BY <1>2 DEF AppDataPlaces
    <3>2. \A o \in at .. ((at + j) - 1) : o \in at .. (at + APPDATA_SIZE - 1)
      BY <1>2
    <3> QED
      BY <1>6, <2>1, <3>1, <3>2
  <2>3. AppDataOf(image) = [j \in 1 .. APPDATA_SIZE |-> image[at + j]]
    BY <1>2, AppDataOfIs
  <2> QED
    BY <2>2, <2>3 DEF BlankAppData
<1> QED
  BY <1>1, <1>3, <1>4, <1>5, <1>6 DEF ChangeIsAllowed

\* No step changes a cell outside the application data of the primary volume
\* descriptor and, without force, none changes application data in use that a
\* whole read can see.
THEOREM UsedDataIsKept ==
  ASSUME MediaAreWellFormed
  PROVE  Spec => OnlyUnusedChanges
<1>1. Inv /\ [Next]_vars => [image' # image => ChangeIsAllowed]_vars
  BY ChangesAreAllowed
<1> QED
  BY <1>1, Invariance, PTL DEF Spec, OnlyUnusedChanges, ChangeIsAllowed

-----------------------------------------------------------------------------
(* Types.                                                                  *)

\* The characters of fragment sums, and what is to be said of cells: that the
\* fields of a certificate are some.
Character == {<<Digest(a, c), i>> : a \in Algorithms, c \in Seq(Cell), i \in Nat}

CellsAreClosed ==
  \A alg \in Algorithms, content \in Seq(Cell), supported \in {0, 1}, sums \in Seq(Character) :
    \A i \in 1 .. APPDATA_SIZE :
      NewAppData(alg, Digest(alg, content), supported, sums)[i] \in Cell

CellsOnly ==
  /\ image \in Seq(Cell)
  /\ ctx \in Seq(Cell)
  /\ fragmentsums \in Seq(Character)

\* At the beginning all is made of cells.
LEMMA CellsInit == Init => CellsOnly
<1> SUFFICES ASSUME Init
             PROVE  CellsOnly
  OBVIOUS
<1>1. image \in Seq(Cell)
  BY RequestAssumption DEF Init, RequestAssumption
<1>2. ctx \in Seq(Cell) /\ fragmentsums \in Seq(Character)
  BY DEF Init
<1> QED
  BY <1>1, <1>2 DEF CellsOnly

\* Every step writes and hashes cells only.
LEMMA CellsNext ==
  ASSUME MediaAreWellFormed, CellsAreClosed, Inv, CellsOnly, [Next]_vars
  PROVE  CellsOnly'
<1>1. request.alg \in Algorithms /\ request.supported \in {0, 1}
  BY AboutRequests DEF Inv, Shape
<1>2. image' \in Seq(Cell)
  <2>1. CASE image' = image
    BY <2>1 DEF CellsOnly
  <2>2. ASSUME pc \in {"erase", "write"}, NEW cells, WriteAppData(cells),
               cells = [i \in 1 .. APPDATA_SIZE |-> cells[i]],
               \A i \in 1 .. APPDATA_SIZE : cells[i] \in Cell
        PROVE  image' \in Seq(Cell)
    <3>1. /\ IsSequence(image') /\ Len(image') = Len(image) /\ Len(image) \in Nat
          /\ \A i \in 1 .. Len(image) :
               image'[i] = image[i] \/ \E j \in 1 .. APPDATA_SIZE : image'[i] = cells[j]
      BY <2>2, WriteAppDataFacts, AboutImage DEF Inv, SameOutside
    <3>2. \A i \in 1 .. Len(image) : image[i] \in Cell
      BY DEF CellsOnly
    <3>3. \A i \in 1 .. Len(image) : image'[i] \in Cell
      BY <2>2, <3>1, <3>2
    <3>4. image' = [i \in 1 .. Len(image) |-> image'[i]]
      BY <3>1 DEF IsSequence
    <3> QED
      BY <3>1, <3>3, <3>4
  <2>3. CASE pc = "erase" /\ WriteAppData(BlankAppData)
    BY <2>2, <2>3, AppDataIsFunction, Layout DEF BlankAppData
  <2>4. CASE /\ pc = "write"
             /\ WriteAppData(NewAppData(request.alg, Digest(request.alg, ctx),
                                        request.supported, fragmentsums))
    <3> DEFINE cells == NewAppData(request.alg, Digest(request.alg, ctx),
                                   request.supported, fragmentsums)
    <3>1. cells = [i \in 1 .. APPDATA_SIZE |-> cells[i]]
      BY AppDataIsFunction
    <3>2. \A i \in 1 .. APPDATA_SIZE : cells[i] \in Cell
      BY <1>1 DEF CellsAreClosed, CellsOnly
    <3> HIDE DEF cells
    <3> QED
      BY <2>2, <2>4, <3>1, <3>2 DEF cells
  <2> QED
    BY <2>1, <2>3, <2>4, ChangesAreWrites
<1>3. CASE HashBlock
  <2>1. PICK nread \in 1 .. buffer_size :
          /\ offset' = offset + nread
          /\ offset' <= HashedSize(image)
          /\ ctx' = CellsAt(image, 0, offset')
    BY <1>3, HashBlockReads
  <2>2. offset' \in Nat /\ offset' <= Len(image)
    <3>1. offset \in Nat /\ HashedSize(image) \in 0 .. Len(image) /\ Len(image) \in Nat
      BY <1>3, HashBlockReads, AboutVolume DEF Late
    <3> QED
      BY <2>1, <3>1
  <2>3. ctx' \in Seq(Cell)
    <3>1. \A i \in 1 .. offset' : image[0 + i] \in Cell
      BY <2>2 DEF CellsOnly
    <3> QED
      BY <2>1, <2>2, <3>1 DEF CellsAt
  <2>4. SumOf(ctx') \in Seq(Character)
    <3>1. SumOf(ctx') = [i \in 1 .. fragmentsize |-> <<Digest(request.alg, ctx'), i>>]
      BY AboutWidth DEF SumOf, FragmentSum
    <3>2. \A i \in 1 .. fragmentsize : <<Digest(request.alg, ctx'), i>> \in Character
      BY <1>1, <2>3 DEF Character
    <3> QED
      BY <3>1, <3>2, AboutWidth
  <2>5. fragmentsums' = fragmentsums \/ fragmentsums' = fragmentsums \o SumOf(ctx')
    BY <1>3 DEF HashBlock
  <2>6. fragmentsums' \in Seq(Character)
    BY <2>4, <2>5, ConcatProperties DEF CellsOnly
  <2> QED
    BY <1>2, <2>3, <2>6 DEF CellsOnly
<1>4. CASE ~HashBlock
  <2>1. ctx' = ctx /\ fragmentsums' = fragmentsums
    BY <1>4 DEF Next, Step, OpenFails, NoVolume, FindVolume, AppDataUnreadable, ReadAppData,
                Erase, EndOfVolume, WriteCertificate, Crash, Returned, vars, hashing
  <2> QED
    BY <1>2, <2>1 DEF CellsOnly
<1> QED
  BY <1>3, <1>4

\* The variables keep their types: the image stays one of cells whatever is
\* written, and implantISOFD() returns nothing but what it is said to.
THEOREM TypeCorrect ==
  ASSUME MediaAreWellFormed, CellsAreClosed
  PROVE  Spec => []TypeOK
<1>1. Inv /\ CellsOnly /\ [Next]_vars => CellsOnly'
  BY CellsNext
<1>2. Inv /\ CellsOnly => TypeOK
  <2> SUFFICES ASSUME Inv, CellsOnly
               PROVE  TypeOK
    OBVIOUS
  <2>1. unreadable \subseteq Nat /\ faults \subseteq Faults
    BY RequestAssumption DEF Inv, FromMedium, RequestAssumption
  <2> QED
    BY <2>1 DEF Inv, Shape, CellsOnly, TypeOK, IsSequence, States
<1> QED
  BY <1>1, <1>2, CellsInit, Invariance, PTL DEF Spec

-----------------------------------------------------------------------------
(* The tools: the parser that stands in for popt on Windows.               *)

Matched(i) == \E opt \in Options : Parser!Matches(argv[i], opt)

\* The flags of the first n arguments.
FlagsOf(n) == {opt.longName : opt \in {o \in Options :
                                         \E i \in 1 .. n : Parser!Matches(argv[i], o)}}

\* The parser has passed n options, and has returned or not.
ParsedTo(n) ==
  /\ n <= Len(argv)
  /\ \A i \in 1 .. n : Matched(i)
  /\ flags = FlagsOf(n)
  /\ \/ returned = Parser!NotYet /\ current = n + 1
     \/ /\ returned = -1
        /\ current = n + 1
        /\ n < Len(argv) => Parser!IsOperand(argv[n + 1])
     \/ /\ returned = -1
        /\ n < Len(argv)
        /\ argv[n + 1] = Parser!EndOfOptions
        /\ current = n + 2
     \/ /\ returned = -2
        /\ n < Len(argv)
        /\ ~Parser!IsOperand(argv[n + 1]) /\ argv[n + 1] # Parser!EndOfOptions
        /\ ~Matched(n + 1)

\* The invariant of the parser.  On Unix it stays where it is.
ParserInv ==
  /\ argv \in Seq(Parser!Arguments)
  /\ \E n \in Nat : ParsedTo(n)

\* At the beginning no option is passed.
LEMMA ParserInit == Parser!Init => ParserInv
<1> SUFFICES ASSUME Parser!Init
             PROVE  ParserInv
  OBVIOUS
<1>1. argv \in Seq(Parser!Arguments)
  BY ToolAssumption DEF ToolAssumption, Parser!Init
<1>2. FlagsOf(0) = {}
  BY DEF FlagsOf
<1>3. ParsedTo(0)
  BY <1>1, <1>2 DEF ParsedTo, Parser!Init
<1> QED
  BY <1>1, <1>3 DEF ParserInv

\* One flag more.
LEMMA FlagsOfNext ==
  ASSUME NEW n \in Nat, NEW opt \in Options, Parser!Matches(argv[n + 1], opt)
  PROVE  FlagsOf(n + 1) = FlagsOf(n) \cup {opt.longName}
<1>1. ASSUME NEW o \in Options, Parser!Matches(argv[n + 1], o)
      PROVE  o = opt
  BY <1>1 DEF Parser!Matches, Options
<1>2. \A i : i \in 1 .. (n + 1) <=> i \in 1 .. n \/ i = n + 1
  OBVIOUS
<1> QED
  BY <1>1, <1>2 DEF FlagsOf

\* A round of the parser passes one option more, or returns.
LEMMA ParserNext ==
  ASSUME ParserInv, Parser!poptGetNextOpt
  PROVE  ParserInv'
<1>1. PICK n \in Nat : ParsedTo(n)
  BY DEF ParserInv
<1>2. /\ argv' = argv /\ argv \in Seq(Parser!Arguments) /\ Len(argv) \in Nat
      /\ returned = Parser!NotYet /\ current = n + 1
  BY <1>1 DEF ParserInv, ParsedTo, Parser!poptGetNextOpt, Parser!NoMoreOptions,
              Parser!StopAtOperand, Parser!StopAtDashes, Parser!SetFlag, Parser!BadOption,
              Parser!Return, Parser!InLoop, Parser!NotYet
<1>3. \A k : /\ FlagsOf(k)' = FlagsOf(k)
             /\ Matched(k)' <=> Matched(k)
  BY <1>2 DEF FlagsOf, Matched, Parser!Matches, Options
<1>4. CASE Parser!NoMoreOptions
  BY <1>1, <1>2, <1>3, <1>4 DEF Parser!NoMoreOptions, Parser!Return, ParsedTo, ParserInv
<1>5. CASE Parser!StopAtOperand
  BY <1>1, <1>2, <1>3, <1>5 DEF Parser!StopAtOperand, Parser!Return, ParsedTo, ParserInv
<1>6. CASE Parser!StopAtDashes
  BY <1>1, <1>2, <1>3, <1>6 DEF Parser!StopAtDashes, Parser!InLoop, Parser!Return, ParsedTo,
                                ParserInv
<1>7. CASE Parser!SetFlag
  <2>1. PICK opt \in Options :
          Parser!Matches(argv[n + 1], opt) /\ flags' = flags \cup {opt.longName}
    BY <1>2, <1>7 DEF Parser!SetFlag
  <2>2. current' = n + 2 /\ returned' = returned /\ n + 1 <= Len(argv)
    BY <1>2, <1>7 DEF Parser!SetFlag, Parser!InLoop
  <2>3. flags' = FlagsOf(n + 1)
    BY <1>1, <2>1, FlagsOfNext DEF ParsedTo
  <2>4. \A i \in 1 .. (n + 1) : Matched(i)
    <3>1. \A i \in 1 .. (n + 1) : i \in 1 .. n \/ i = n + 1
      OBVIOUS
    <3> QED
      BY <1>1, <2>1, <3>1 DEF Matched, ParsedTo
  <2>5. n + 1 \in Nat /\ (n + 1) + 1 = n + 2
    OBVIOUS
  <2>6. ParsedTo(n + 1)'
    BY <1>2, <1>3, <2>2, <2>3, <2>4, <2>5 DEF ParsedTo
  <2> QED
    BY <1>2, <2>5, <2>6 DEF ParserInv
<1>8. CASE Parser!BadOption
  BY <1>1, <1>2, <1>3, <1>8 DEF Parser!BadOption, Parser!InLoop, Parser!Return, Matched,
                                ParsedTo, ParserInv
<1> QED
  BY <1>4, <1>5, <1>6, <1>7, <1>8 DEF Parser!poptGetNextOpt

\* What the arguments of a command line are, option by option.
LEMMA ArgumentsAre ==
  ASSUME NEW arg \in Parser!Arguments
  PROVE  /\ (\E opt \in Options : Parser!Matches(arg, opt)) =>
              ~Parser!IsOperand(arg) /\ arg # Parser!EndOfOptions
         /\ arg = Parser!EndOfOptions => ~Parser!IsOperand(arg)
         /\ (arg[1] = "short" => Len(arg[2]) = 1) /\ ~Parser!IsOperand(arg) =>
              /\ Parser!Named(arg) = {opt \in Options : Parser!Matches(arg, opt)}
              /\ Parser!Known(arg) <=> \E opt \in Options : Parser!Matches(arg, opt)
<1>1. CASE arg \in {"long", "text"} \X STRING
  <2>1. PICK k \in {"long", "text"}, t \in STRING : arg = <<k, t>>
    <3>1. arg = <<arg[1], arg[2]>> /\ arg[1] \in {"long", "text"} /\ arg[2] \in STRING
      BY <1>1
    <3> QED
      BY <3>1
  <2>2. arg[1] = k /\ arg[2] = t
    BY <2>1
  <2>3. \A opt \in Options : arg # <<"short", <<opt.shortName>>>>
    BY <2>1
  <2>4. arg # <<"short", <<>>>>
    BY <2>1
  <2>5. Parser!IsOperand(arg) <=> k = "text"
    BY <2>2, <2>4 DEF Parser!IsOperand
  <2>6. \A opt \in Options : /\ opt.longName # ""
                             /\ Parser!Matches(arg, opt) <=> k = "long" /\ t = opt.longName
    <3>1. ASSUME NEW opt \in Options
          PROVE  opt.longName # ""
      <4>1. opt.longName \in {"force", "supported-iso", "help"}
        BY DEF Options
      <4> QED
        BY <4>1
    <3>2. \A name : arg = <<"long", name>> <=> k = "long" /\ t = name
      BY <2>1, <2>2
    <3> QED
      BY <2>3, <3>1, <3>2 DEF Parser!Matches
  <2>7. arg = Parser!EndOfOptions <=> k = "long" /\ t = ""
    BY <2>1, <2>2 DEF Parser!EndOfOptions
  <2>8. k = "long" => Parser!Named(arg) = {opt \in Options : Parser!Matches(arg, opt)}
    BY <2>1, <2>2, <2>6 DEF Parser!Named
  <2>9. k = "long" => (Parser!Known(arg) <=> Parser!Named(arg) # {})
    BY <2>2 DEF Parser!Known
  <2> QED
    BY <2>5, <2>6, <2>7, <2>8, <2>9
<1>2. CASE arg \in {"short"} \X Seq(STRING)
  <2>1. PICK letters \in Seq(STRING) : arg = <<"short", letters>>
    BY <1>2
  <2>2. arg[1] = "short" /\ arg[2] = letters
    BY <2>1
  <2>3. Parser!IsOperand(arg) <=> letters = <<>>
    BY <2>1, <2>2 DEF Parser!IsOperand
  <2>4. \A opt \in Options : Parser!Matches(arg, opt) <=> letters = <<opt.shortName>>
    BY <2>1, <2>2 DEF Parser!Matches
  <2>5. arg # Parser!EndOfOptions
    BY <2>1, <2>2 DEF Parser!EndOfOptions
  <2>6. ASSUME Len(letters) = 1
        PROVE  /\ DOMAIN letters = {1}
               /\ \A opt \in Options : letters = <<opt.shortName>> <=> letters[1] = opt.shortName
    BY <2>6
  <2>7. ASSUME Len(letters) = 1
        PROVE  /\ Parser!Named(arg) = {opt \in Options : Parser!Matches(arg, opt)}
               /\ Parser!Known(arg) <=> \E opt \in Options : Parser!Matches(arg, opt)
    <3>1. \A opt \in Options : arg # <<"long", opt.longName>>
      BY <2>1, <2>2
    <3>2. \A opt \in Options :
            (\E i \in DOMAIN letters : letters[i] = opt.shortName) <=> Parser!Matches(arg, opt)
      BY <2>4, <2>6, <2>7
    <3>3. Parser!Named(arg) = {opt \in Options : Parser!Matches(arg, opt)}
      BY <2>2, <3>1, <3>2 DEF Parser!Named
    <3>4. Parser!Known(arg)
            <=> \A i \in DOMAIN letters : \E opt \in Options : opt.shortName = letters[i]
      BY <2>2 DEF Parser!Known
    <3> QED
      BY <2>4, <2>6, <2>7, <3>3, <3>4
  <2>9. \A opt \in Options : letters = <<opt.shortName>> => letters # <<>>
    OBVIOUS
  <2> QED
    BY <2>2, <2>3, <2>4, <2>5, <2>7, <2>9
<1> QED
  BY <1>1, <1>2 DEF Parser!Arguments

\* On a conventional command line, the parser finds what popt finds.
LEMMA ParsersAgree ==
  ASSUME ParserInv, returned # Parser!NotYet, Parser!IsConventional(argv)
  PROVE  LET line == Parser!popt(argv)
         IN  /\ line.bad <=> returned < -1
             /\ ~line.bad => line.flags = flags /\ line.args = Parser!poptGetArgs
<1> DEFINE IsConv(m) ==
             /\ \A i \in 1 .. m : ~Parser!IsOperand(argv[i]) /\ argv[i] # Parser!EndOfOptions
             /\ \A i \in 1 .. m : argv[i][1] = "short" => Len(argv[i][2]) = 1
             /\ \/ \A i \in (m + 1) .. Len(argv) : Parser!IsOperand(argv[i])
                \/ m < Len(argv) /\ argv[m + 1] = Parser!EndOfOptions
           all == Len(argv)
           bound == Parser!BeforeDashes(argv)
           options == {argv[i] : i \in {j \in 1 .. bound : ~Parser!IsOperand(argv[j])}}
<1>1. PICK n \in Nat : ParsedTo(n)
  BY DEF ParserInv
<1>2. PICK m \in 0 .. all : IsConv(m)
  BY DEF Parser!IsConventional
<1>3. /\ all \in Nat /\ argv \in Seq(Parser!Arguments) /\ DOMAIN argv = 1 .. all
      /\ m \in Nat /\ m <= all /\ n <= all
      /\ \A i \in 1 .. all : argv[i] \in Parser!Arguments
  BY <1>1, <1>2 DEF ParserInv, ParsedTo
<1>4. \A i \in 1 .. n : ~Parser!IsOperand(argv[i]) /\ argv[i] # Parser!EndOfOptions
  BY <1>1, <1>3, ArgumentsAre DEF ParsedTo, Matched
<1>5. \A i \in 1 .. m : /\ Parser!Named(argv[i])
                             = {opt \in Options : Parser!Matches(argv[i], opt)}
                        /\ Parser!Known(argv[i]) <=> Matched(i)
  BY <1>2, <1>3, ArgumentsAre DEF Matched
<1>6. n <= m
  <2>1. ASSUME m + 1 \in 1 .. n
        PROVE  FALSE
    BY <1>2, <1>3, <1>4, <2>1
  <2> QED
    BY <1>3, <2>1
<1>7. /\ bound \in m .. all
      /\ bound = IF \A i \in (m + 1) .. all : Parser!IsOperand(argv[i]) THEN all ELSE m
  <2> DEFINE IsBound(b) == /\ \A i \in 1 .. b : argv[i] # Parser!EndOfOptions
                           /\ b = all \/ argv[b + 1] = Parser!EndOfOptions
             b0 == IF \A i \in (m + 1) .. all : Parser!IsOperand(argv[i]) THEN all ELSE m
  <2>1. bound = CHOOSE b \in 0 .. all : IsBound(b)
    BY DEF Parser!BeforeDashes
  <2>2. b0 \in 0 .. all /\ IsBound(b0)
    <3>1. CASE \A i \in (m + 1) .. all : Parser!IsOperand(argv[i])
      <4>1. ASSUME NEW i \in 1 .. all
            PROVE  argv[i] # Parser!EndOfOptions
        <5>1. CASE i <= m
          BY <1>2, <1>3, <5>1
        <5>2. CASE i > m
          BY <1>3, <3>1, <5>2, ArgumentsAre
        <5> QED
          BY <1>3, <5>1, <5>2
      <4>2. b0 = all
        BY <3>1
      <4>3. all \in 0 .. all
        BY <1>3
      <4> HIDE DEF b0
      <4> QED
        BY <4>1, <4>2, <4>3
    <3>2. CASE ~\A i \in (m + 1) .. all : Parser!IsOperand(argv[i])
      BY <1>2, <1>3, <3>2
    <3> QED
      BY <3>1, <3>2
  <2> HIDE DEF b0
  <2>3. ASSUME NEW b \in 0 .. all, NEW c \in 0 .. all, IsBound(b), IsBound(c), b < c
        PROVE  FALSE
    <3> HIDE DEF all
    <3>1. b \in Nat /\ c \in Nat /\ c <= all /\ b < c
      BY <1>3, <2>3
    <3>2. b + 1 \in 1 .. c /\ b # all
      BY <1>3, <3>1
    <3> QED
      BY <2>3, <3>2
  <2>4. bound \in 0 .. all /\ IsBound(bound)
    BY <2>1, <2>2
  <2> HIDE DEF IsBound, bound
  <2>5. bound = b0
    BY <1>3, <2>2, <2>3, <2>4
  <2> QED
    BY <1>3, <2>2, <2>5 DEF b0
<1>8. \A i \in (m + 1) .. bound : Parser!IsOperand(argv[i])
  BY <1>3, <1>7
<1> HIDE DEF bound
<1>9. options = {argv[i] : i \in 1 .. m}
  <2>1. ASSUME NEW j \in 1 .. m
        PROVE  j \in 1 .. bound /\ ~Parser!IsOperand(argv[j])
    <3> HIDE DEF all
    <3>1. bound \in m .. all
      BY <1>7
    <3>2. bound >= m /\ bound \in Int
      BY <1>3, <3>1
    <3> QED
      BY <1>2, <1>3, <3>2
  <2>2. ASSUME NEW j \in 1 .. bound, ~Parser!IsOperand(argv[j])
        PROVE  j \in 1 .. m
    <3> HIDE DEF all
    <3>1. bound \in m .. all
      BY <1>7
    <3>2. bound \in Int
      BY <1>3, <3>1
    <3>3. j \notin (m + 1) .. bound
      BY <1>8, <2>2
    <3> QED
      BY <1>3, <3>2, <3>3
  <2> QED
    BY <2>1, <2>2
<1>10. /\ Parser!popt(argv).bad <=> \E arg \in options : ~Parser!Known(arg)
       /\ Parser!popt(argv).flags
            = {opt.longName : opt \in UNION {Parser!Named(arg) : arg \in options}}
       /\ Parser!popt(argv).args
            = {i \in DOMAIN argv : i > bound + 1 \/ (i <= bound /\ Parser!IsOperand(argv[i]))}
  BY DEF Parser!popt, bound
<1> HIDE DEF options
<1>11. Parser!popt(argv).bad <=> \E i \in 1 .. m : ~Matched(i)
  BY <1>5, <1>9, <1>10
<1>12. CASE returned = -2
  <2>1. /\ n < all
        /\ ~Parser!IsOperand(argv[n + 1]) /\ argv[n + 1] # Parser!EndOfOptions
        /\ ~Matched(n + 1)
    BY <1>1, <1>12 DEF ParsedTo, Parser!NotYet
  <2>2. n + 1 \in 1 .. m
    BY <1>2, <1>3, <1>6, <2>1
  <2> QED
    BY <1>11, <1>12, <2>1, <2>2
<1>13. CASE returned = -1
  <2>1. \/ /\ current = n + 1
           /\ n < all => Parser!IsOperand(argv[n + 1])
        \/ /\ n < all
           /\ argv[n + 1] = Parser!EndOfOptions
           /\ current = n + 2
    BY <1>1, <1>13 DEF ParsedTo, Parser!NotYet
  <2>2. n = m
    <3>1. ASSUME n + 1 \in 1 .. m
          PROVE  FALSE
      BY <1>2, <1>3, <2>1, <3>1
    <3> QED
      BY <1>3, <1>6, <3>1
  <2>3. ~Parser!popt(argv).bad
    BY <1>1, <1>11, <2>2 DEF ParsedTo
  <2>4. Parser!popt(argv).flags = flags
    <3>1. UNION {Parser!Named(arg) : arg \in options}
            = {opt \in Options : \E i \in 1 .. m : Parser!Matches(argv[i], opt)}
      BY <1>5, <1>9
    <3>2. flags = FlagsOf(m)
      BY <1>1, <2>2 DEF ParsedTo
    <3> QED
      BY <1>10, <3>1, <3>2 DEF FlagsOf
  <2>5. Parser!popt(argv).args = Parser!poptGetArgs
    <3>1. CASE \A i \in (m + 1) .. all : Parser!IsOperand(argv[i])
      <4>1. bound = all
        BY <1>7, <3>1
      <4>2. current = m + 1
        <5>1. m < all => argv[m + 1] # Parser!EndOfOptions
          BY <1>3, <3>1, ArgumentsAre
        <5> QED
          BY <1>3, <2>1, <2>2, <5>1
      <4>3. \A i : i \in 1 .. all /\ (i > bound + 1 \/ (i <= bound /\ Parser!IsOperand(argv[i])))
                     <=> i \in (m + 1) .. all
        BY <1>2, <1>3, <3>1, <4>1
      <4> QED
        BY <1>3, <1>10, <4>2, <4>3 DEF Parser!poptGetArgs
    <3>2. CASE ~\A i \in (m + 1) .. all : Parser!IsOperand(argv[i])
      <4>1. bound = m /\ m < all /\ argv[m + 1] = Parser!EndOfOptions
        BY <1>2, <1>3, <1>7, <3>2
      <4>2. current = m + 2
        <5>1. ~Parser!IsOperand(argv[m + 1])
          BY <1>3, <4>1, ArgumentsAre
        <5> QED
          BY <1>3, <2>1, <2>2, <4>1, <5>1
      <4>3. \A i : i \in 1 .. all /\ (i > bound + 1 \/ (i <= bound /\ Parser!IsOperand(argv[i])))
                     <=> i \in (m + 2) .. all
        BY <1>2, <1>3, <4>1
      <4> QED
        BY <1>3, <1>10, <4>2, <4>3 DEF Parser!poptGetArgs
    <3> QED
      BY <3>1, <3>2
  <2> QED
    BY <1>13, <2>3, <2>4, <2>5
<1> QED
  BY <1>1, <1>12, <1>13 DEF ParsedTo

\* On Windows the tools do what they do on Unix, on every conventional command
\* line, whatever the arguments and however many.
THEOREM WindowsIsAsUnix == ToolSpec => WindowsAsUnix
<1> DEFINE Agrees ==
             main = "options" /\ main' # "options" /\ Parser!IsConventional(argv) =>
               LET line == Parser!popt(argv)
                   next == Proceeds(line.bad, line.flags, line.args)
               IN  /\ main' = next.to
                   /\ IF next.to = "exit" THEN exit_status' = next.status
                      ELSE request' = next.request
<1>1. ToolInit => ParserInv
  BY ParserInit DEF ToolInit
<1>2. ParserInv /\ [ToolNext]_toolvars => ParserInv'
  <2> SUFFICES ASSUME ParserInv, [ToolNext]_toolvars
               PROVE  ParserInv'
    OBVIOUS
  <2>1. CASE NextOption
    BY <2>1, ParserNext DEF NextOption
  <2>2. CASE UNCHANGED parser
    BY <2>2 DEF parser, ParserInv, ParsedTo, FlagsOf, Matched, Parser!Matches, Options
  <2> QED
    BY <2>1, <2>2 DEF ToolNext, toolvars, ParseOnUnix, ParseOnWindows, Implanting, NoFile,
                      ImplantReturns, Exited
<1>3. ASSUME ParserInv, [ToolNext]_toolvars, main = "options", main' # "options",
             Parser!IsConventional(argv)
      PROVE  Agrees
  <2> DEFINE line == Parser!popt(argv)
  <2>1. CASE ParseOnUnix
    BY <2>1 DEF ParseOnUnix, ParseOptions
  <2>2. CASE ParseOnWindows
    <3>1. /\ line.bad <=> returned < -1
          /\ ~line.bad => line.flags = flags /\ line.args = Parser!poptGetArgs
      BY <1>3, <2>2, ParsersAgree DEF ParseOnWindows
    <3> DEFINE unix == Proceeds(line.bad, line.flags, line.args)
               windows == Proceeds(returned < -1, flags, Parser!poptGetArgs)
    <3> HIDE DEF line
    <3>2. ASSUME line.bad
          PROVE  unix = windows
      <4>1. /\ unix = [to |-> "exit", status |-> 1]
            /\ windows = [to |-> "exit", status |-> 1]
        BY <3>1, <3>2 DEF Proceeds
      <4> QED
        BY <4>1
    <3>3. ASSUME ~line.bad
          PROVE  unix = windows
      <4>1. unix = windows
        BY <3>1, <3>3 DEF Proceeds
      <4> QED
        BY <4>1
    <3>4. unix = windows
      BY <3>2, <3>3
    <3>5. /\ main' = windows.to
          /\ IF windows.to = "exit" THEN exit_status' = windows.status
             ELSE request' = windows.request
      BY <2>2 DEF ParseOnWindows, ParseOptions
    <3> HIDE DEF unix, windows
    <3>6. /\ main' = unix.to
          /\ IF unix.to = "exit" THEN exit_status' = unix.status
             ELSE request' = unix.request
      BY <3>4, <3>5
    <3> QED
      BY <3>6 DEF unix, line
  <2> QED
    BY <1>3, <2>1, <2>2 DEF ToolNext, toolvars, NextOption, Implanting, NoFile,
                            ImplantReturns, Exited
<1>4. ParserInv /\ [ToolNext]_toolvars => [Agrees]_toolvars
  <2> SUFFICES ASSUME ParserInv, [ToolNext]_toolvars, main = "options", main' # "options",
                      Parser!IsConventional(argv)
               PROVE  Agrees
    BY DEF Agrees
  <2> QED
    BY <1>3
<1> HIDE DEF Agrees
<1>5. ToolSpec => [][Agrees]_toolvars
  BY <1>1, <1>2, <1>4, PTL DEF ToolSpec
<1> QED
  BY <1>5 DEF Agrees, WindowsAsUnix

-----------------------------------------------------------------------------
(* The tools: what they were asked for, and what the exit status says.     *)

\* The arguments before "--" are arguments.
LEMMA DashesAreBounded ==
  ASSUME argv \in Seq(Parser!Arguments)
  PROVE  Parser!BeforeDashes(argv) \in 0 .. Len(argv)
<1> DEFINE IsBound(b) == /\ \A i \in 1 .. b : argv[i] # Parser!EndOfOptions
                         /\ b = Len(argv) \/ argv[b + 1] = Parser!EndOfOptions
           dashes == {i \in 0 .. (Len(argv) - 1) : argv[i + 1] = Parser!EndOfOptions}
<1>1. Len(argv) \in Nat
  OBVIOUS
<1>2. \E b \in 0 .. Len(argv) : IsBound(b)
  <2>1. CASE dashes = {}
    <3>1. ASSUME NEW i \in 1 .. Len(argv)
          PROVE  argv[i] # Parser!EndOfOptions
      <4>1. i - 1 \in 0 .. (Len(argv) - 1) /\ (i - 1) + 1 = i
        BY <1>1
      <4> QED
        BY <2>1, <4>1
    <3>2. Len(argv) \in 0 .. Len(argv)
      BY <1>1
    <3> QED
      BY <3>1, <3>2
  <2>2. CASE dashes # {}
    <3>1. dashes \subseteq Nat
      BY <1>1
    <3>2. PICK b \in dashes : \A i \in dashes : b <= i
      BY <2>2, <3>1, LeastNumber
    <3>3. ASSUME NEW i \in 1 .. b
          PROVE  argv[i] # Parser!EndOfOptions
      <4>1. /\ b \in Int /\ i \in Int
            /\ i - 1 \in 0 .. (Len(argv) - 1) /\ (i - 1) + 1 = i /\ i - 1 < b
        BY <1>1, <3>2
      <4>2. i - 1 \notin dashes
        <5> HIDE DEF dashes
        <5> QED
          BY <3>2, <4>1
      <4>3. argv[(i - 1) + 1] # Parser!EndOfOptions
        <5> HIDE DEF IsBound
        <5> QED
          BY <4>1, <4>2, Zenon
      <4> QED
        BY <4>1, <4>3, Zenon
    <3>4. b \in 0 .. Len(argv)
      BY <1>1, <3>2
    <3> QED
      BY <3>2, <3>3, <3>4
  <2> QED
    BY <2>1, <2>2
<1>3. Parser!BeforeDashes(argv) = CHOOSE b \in 0 .. Len(argv) : IsBound(b)
  BY DEF Parser!BeforeDashes
<1> HIDE DEF IsBound
<1> QED
  BY <1>2, <1>3

\* No flag is set that is not on the command line.
LEMMA FlagsAreOnTheLine ==
  ASSUME ParserInv
  PROVE  /\ \A f \in flags : OnTheLine(f)
         /\ \A f \in Parser!popt(argv).flags : OnTheLine(f)
<1>1. PICK n \in Nat : ParsedTo(n)
  BY DEF ParserInv
<1>2. argv \in Seq(Parser!Arguments) /\ DOMAIN argv = 1 .. Len(argv) /\ Len(argv) \in Nat
  BY DEF ParserInv
<1>3. ASSUME NEW arg, NEW opt \in Options, Parser!Matches(arg, opt)
      PROVE  opt \in Parser!Named(arg)
  <2>1. CASE arg = <<"long", opt.longName>>
    BY <2>1 DEF Parser!Named
  <2>2. CASE arg = <<"short", <<opt.shortName>>>>
    <3>1. arg[1] = "short" /\ 1 \in DOMAIN arg[2] /\ arg[2][1] = opt.shortName
      BY <2>2
    <3> QED
      BY <3>1 DEF Parser!Named
  <2> QED
    BY <1>3, <2>1, <2>2 DEF Parser!Matches
<1>4. ASSUME NEW f \in flags
      PROVE  OnTheLine(f)
  <2>1. PICK opt \in Options, i \in 1 .. n : f = opt.longName /\ Parser!Matches(argv[i], opt)
    BY <1>1 DEF ParsedTo, FlagsOf
  <2>2. i \in DOMAIN argv
    BY <1>1, <1>2 DEF ParsedTo
  <2> QED
    BY <1>3, <2>1, <2>2 DEF OnTheLine
<1>5. ASSUME NEW f \in Parser!popt(argv).flags
      PROVE  OnTheLine(f)
  <2>1. PICK i \in 1 .. Parser!BeforeDashes(argv) :
          \E opt \in Parser!Named(argv[i]) : f = opt.longName
    BY DEF Parser!popt
  <2>2. i \in DOMAIN argv
    BY <1>2, DashesAreBounded
  <2> QED
    BY <2>1, <2>2 DEF OnTheLine
<1> QED
  BY <1>4, <1>5

\* The command line and the parser stay as they are.
LEMMA LineStays ==
  ASSUME ParserInv, UNCHANGED parser
  PROVE  /\ ParserInv'
         /\ \A f : OnTheLine(f)' <=> OnTheLine(f)
<1>1. argv' = argv /\ current' = current /\ flags' = flags /\ returned' = returned
  BY DEF parser
<1>2. ParserInv'
  BY <1>1 DEF ParserInv, ParsedTo, FlagsOf, Matched, Parser!Matches, Options
<1>3. \A f : OnTheLine(f)' <=> OnTheLine(f)
  BY <1>1 DEF OnTheLine, Parser!Named, Options
<1> QED
  BY <1>2, <1>3

\* The library is asked for nothing that is not on the command line.
AskedOnTheLine ==
  /\ request.forceit => OnTheLine("force")
  /\ request.supported # 0 => OnTheLine("supported-iso")

\* The invariant of the tools: the library is where it began until the options
\* are parsed, does only what the command line has, and decides the status.
ToolInv ==
  /\ Inv
  /\ ParserInv
  /\ AskedOnTheLine
  /\ main \in {"options", "implant", "nofile", "exit"}
  /\ main = "options" => Init
  /\ main # "exit" => exit_status = NotExited
  /\ exit_status = 0 => OnTheLine("help") \/ rc = 0

\* A library that is where it began may be asked for anything.
LEMMA InitInvNext == Init' => Inv'
BY InitInv, PTL

\* The invariant holds before the options are parsed.
LEMMA ToolInvInit == ToolInit => ToolInv
<1> SUFFICES ASSUME ToolInit
             PROVE  ToolInv
  OBVIOUS
<1>1. Inv /\ ParserInv
  BY InitInv, ParserInit DEF ToolInit
<1>2. ~request.forceit /\ request.supported = 0
  BY DEF ToolInit, NothingAsked
<1> QED
  BY <1>1, <1>2 DEF ToolInit, ToolInv, AskedOnTheLine, NotExited

\* What the tools do with what either parser found.
LEMMA ParseOptionsKeeps ==
  ASSUME MediaAreWellFormed, ToolInv, main = "options", NEW bad, NEW set, NEW args,
         ParseOptions(bad, set, args), \A f \in set : OnTheLine(f),
         UNCHANGED <<platform, parser, library>>
  PROVE  ToolInv'
<1> DEFINE next == Proceeds(bad, set, args)
<1>1. /\ \A f : OnTheLine(f)' <=> OnTheLine(f)
      /\ ParserInv'
      /\ Init /\ exit_status = NotExited /\ rc' = rc
  BY LineStays DEF ToolInv, library
<1>2. \/ next = [to |-> "exit", status |-> 1]
      \/ next = [to |-> "exit", status |-> 0] /\ "help" \in set
      \/ /\ next.to \in {"implant", "nofile"}
         /\ next.request = Asked(set)
  BY DEF Proceeds
<1> HIDE DEF next
<1>3. CASE next.to = "exit"
  <2>1. request' = request /\ main' = "exit" /\ exit_status' = next.status
    BY <1>3 DEF ParseOptions, next
  <2>2. UNCHANGED vars
    BY <2>1 DEF vars, library, volume, hashing
  <2>3. Inv'
    BY <2>2, InvNext DEF ToolInv
  <2>4. AskedOnTheLine'
    BY <1>1, <2>1 DEF ToolInv, AskedOnTheLine
  <2>5. exit_status' = 0 => OnTheLine("help")
    <3>1. next.status = 1 \/ "help" \in set
      BY <1>2, <1>3
    <3>2. "help" \in set => OnTheLine("help")
      OBVIOUS
    <3> QED
      BY <2>1, <3>1, <3>2
  <2> QED
    BY <1>1, <2>1, <2>3, <2>4, <2>5 DEF ToolInv
<1>4. CASE next.to # "exit"
  <2>1. /\ request' = Asked(set)
        /\ main' \in {"implant", "nofile"}
        /\ exit_status' = exit_status
    BY <1>2, <1>4 DEF ParseOptions, next
  <2>2. request.alg \in Algorithms
    BY <1>1, AboutRequests DEF Init
  <2>3. request' \in Requests
    BY <2>1, <2>2, ToolAssumption DEF Asked, ToolAssumption
  <2>4. Inv'
    BY <1>1, <2>3, InitInvNext DEF Init, library, volume, hashing
  <2>5. AskedOnTheLine'
    BY <1>1, <2>1 DEF AskedOnTheLine, Asked
  <2> QED
    BY <1>1, <2>1, <2>4, <2>5 DEF ToolInv, NotExited
<1> QED
  BY <1>3, <1>4

\* Every step of a tool keeps the invariant.
LEMMA ToolInvNext ==
  ASSUME MediaAreWellFormed, ToolInv, [ToolNext]_toolvars
  PROVE  ToolInv'
<1>1. CASE ParseOnUnix
  BY <1>1, ParseOptionsKeeps, FlagsAreOnTheLine DEF ParseOnUnix, ToolInv
<1>2. CASE ParseOnWindows
  BY <1>2, ParseOptionsKeeps, FlagsAreOnTheLine DEF ParseOnWindows, ToolInv
<1>3. CASE NextOption
  <2>1. /\ UNCHANGED vars /\ main' = main /\ exit_status' = exit_status /\ main = "options"
        /\ ParserInv' /\ argv' = argv
    BY <1>3, ParserNext DEF NextOption, ToolInv, Parser!poptGetNextOpt, Parser!NoMoreOptions,
                            Parser!StopAtOperand, Parser!StopAtDashes, Parser!SetFlag,
                            Parser!BadOption, Parser!Return
  <2>2. Inv'
    BY <2>1, InvNext DEF ToolInv
  <2>3. Init' /\ request' = request /\ rc' = rc
    BY <2>1 DEF ToolInv, Init, vars, volume, hashing
  <2>4. \A f : OnTheLine(f)' <=> OnTheLine(f)
    BY <2>1 DEF OnTheLine, Parser!Named, Options
  <2> QED
    BY <2>1, <2>2, <2>3, <2>4 DEF ToolInv, AskedOnTheLine
<1>4. CASE Implanting \/ NoFile
  <2>1. /\ Next /\ UNCHANGED <<main, exit_status, parser>> /\ main \in {"implant", "nofile"}
        /\ request' = request
    BY <1>4 DEF Implanting, NoFile, Next, Step, OpenFails, NoVolume, FindVolume,
                AppDataUnreadable, ReadAppData, Erase, HashBlock, EndOfVolume,
                WriteCertificate, hashing
  <2>2. Inv'
    BY <2>1, InvNext DEF ToolInv
  <2>3. /\ ParserInv'
        /\ \A f : OnTheLine(f)' <=> OnTheLine(f)
    BY <2>1, LineStays DEF ToolInv
  <2> QED
    BY <2>1, <2>2, <2>3 DEF ToolInv, AskedOnTheLine, NotExited
<1>5. CASE ImplantReturns
  <2>1. /\ UNCHANGED vars /\ UNCHANGED parser /\ main' = "exit"
        /\ exit_status' = IF rc = 0 THEN 0 ELSE 1
    BY <1>5 DEF ImplantReturns, Exit
  <2>2. Inv'
    BY <2>1, InvNext DEF ToolInv
  <2>3. /\ ParserInv'
        /\ \A f : OnTheLine(f)' <=> OnTheLine(f)
    BY <2>1, LineStays DEF ToolInv
  <2>4. request' = request /\ rc' = rc
    BY <2>1 DEF vars
  <2> QED
    BY <2>1, <2>2, <2>3, <2>4 DEF ToolInv, AskedOnTheLine
<1>6. CASE UNCHANGED toolvars
  <2>1. UNCHANGED vars /\ UNCHANGED parser /\ main' = main /\ exit_status' = exit_status
    BY <1>6 DEF toolvars
  <2>2. Inv'
    BY <2>1, InvNext DEF ToolInv
  <2>3. /\ ParserInv'
        /\ \A f : OnTheLine(f)' <=> OnTheLine(f)
    BY <2>1, LineStays DEF ToolInv
  <2>4. request' = request /\ rc' = rc /\ (main = "options" => Init')
    BY <2>1 DEF vars, volume, hashing, ToolInv, Init
  <2> QED
    BY <2>1, <2>2, <2>3, <2>4 DEF ToolInv, AskedOnTheLine
<1> QED
  BY <1>1, <1>2, <1>3, <1>4, <1>5, <1>6 DEF ToolNext, Exited

\* The invariant of the tools holds in every state.
THEOREM ToolInvariance ==
  ASSUME MediaAreWellFormed
  PROVE  ToolSpec => []ToolInv
<1>1. ToolInv /\ [ToolNext]_toolvars => ToolInv'
  BY ToolInvNext
<1> QED
  BY <1>1, ToolInvInit, PTL DEF ToolSpec

\* The device stays as it was, whatever was written.
LEMMA DeviceFacts ==
  ASSUME MediaAreWellFormed, DevicesAreWhole, Inv
  PROVE  /\ DeviceIsWhole /\ ~MayBeShort
         /\ \A o \in AppDataStart(image) .. (AppDataStart(image) + APPDATA_SIZE - 1) :
              o \notin unreadable
<1>1. PICK m \in Media : /\ unreadable = m.unreadable
                         /\ faults = m.faults
                         /\ SameOutside(m.image, image)
  BY DEF Inv, FromMedium
<1>2. AppDataStart(image) = AppDataStart(m.image)
  BY <1>1, AboutMedia, SameVolume
<1>3. faults \subseteq {"write error"}
  BY <1>1 DEF DevicesAreWhole
<1>4. DeviceIsWhole /\ ~MayBeShort
  BY <1>3 DEF DeviceIsWhole, MayBeShort
<1> QED
  BY <1>1, <1>2, <1>4 DEF DevicesAreWhole

\* A tool that exits with 0 was asked for its usage, or has left the
\* certificate of the image's own content, marked as supported only where the
\* command line says so; or the file ends before its application data, was
\* left alone, and errno may have been 0.
THEOREM ZeroIsImplanted ==
  ASSUME MediaAreWellFormed, DevicesAreWhole
  PROVE  ToolSpec => []ZeroMeansImplanted
<1>1. ASSUME ToolInv, exit_status = 0, ~OnTheLine("help"),
             ~(~HoldsAppData /\ Untouched /\ 0 \in Errnos)
      PROVE  /\ HoldsAppData
             /\ \E supported \in IF OnTheLine("supported-iso") THEN {0, 1} ELSE {0},
                   alg \in Algorithms :
                  AppDataOf(image)
                    = NewAppData(alg, HashSum(image, ReadablePart(image, unreadable), alg),
                                 supported,
                                 FragmentSums(image, ReadablePart(image, unreadable), alg))
  <2> DEFINE n == ReadablePart(image, unreadable)
             cells == NewAppData(request.alg, HashSum(image, n, request.alg),
                                 request.supported, fragmentsums)
  <2>1. Inv /\ rc = 0
    BY <1>1 DEF ToolInv
  <2>2. DeviceIsWhole /\ ~MayBeShort
    BY <2>1, DeviceFacts
  <2>3. /\ HoldsAppData
        /\ image = WriteAt(image, AppDataStart(image), cells)
        /\ fragmentsums = FragmentSums(image, n, request.alg)
    BY <1>1, <2>1, <2>2 DEF Inv, SuccessMeansImplanted
  <2>4. cells = [i \in 1 .. APPDATA_SIZE |-> cells[i]]
    BY AppDataIsFunction
  <2>5. /\ IsSequence(image) /\ StopDescriptors(image) # {} /\ WellPlaced(image)
        /\ Len(image) \in Nat /\ AppDataStart(image) \in Nat
    BY <2>1, AboutImage DEF Inv, Shape
  <2>6. AppDataStart(image) + APPDATA_SIZE <= Len(image)
    BY <2>3, <2>5 DEF HoldsAppData, WellPlaced
  <2> HIDE DEF cells
  <2>7. AppDataOf(image) = cells
    BY <2>3, <2>4, <2>5, <2>6, WrittenAppData
  <2>8. /\ request.alg \in Algorithms /\ request.supported \in {0, 1}
        /\ request.supported \in IF OnTheLine("supported-iso") THEN {0, 1} ELSE {0}
    BY <1>1, <2>1, AboutRequests DEF ToolInv, AskedOnTheLine, Inv, Shape
  <2> QED
    BY <2>3, <2>7, <2>8 DEF cells
<1>2. ToolInv => ZeroMeansImplanted
  BY <1>1 DEF ZeroMeansImplanted
<1> QED
  BY <1>2, ToolInvariance, PTL

\* No step of a tool changes the image while its application data is in use,
\* unless the force option is on the command line.
THEOREM UsedDataIsForced ==
  ASSUME MediaAreWellFormed, DevicesAreWhole
  PROVE  ToolSpec => UsedDataNeedsForce
<1>1. ASSUME ToolInv, [ToolNext]_toolvars, image' # image
      PROVE  AppDataOf(image) = BlankAppData \/ OnTheLine("force")
  <2>1. Inv /\ [Next]_vars
    BY <1>1 DEF ToolInv, ToolNext, toolvars, vars, ParseOnUnix, NextOption, ParseOnWindows,
                library, Implanting, NoFile, Next, Step, ImplantReturns, Exited
  <2>2. ChangeIsAllowed
    BY <1>1, <2>1, ChangesAreAllowed
  <2> QED
    BY <1>1, <2>1, <2>2, DeviceFacts DEF ChangeIsAllowed, ToolInv, AskedOnTheLine
<1>2. ToolInv /\ [ToolNext]_toolvars
        => [image' # image => AppDataOf(image) = BlankAppData \/ OnTheLine("force")]_toolvars
  BY <1>1
<1> QED
  BY <1>2, ToolInvariance, PTL DEF ToolSpec, UsedDataNeedsForce

-----------------------------------------------------------------------------
(* Where others change the application data, too.                          *)

\* What is true of an implanter whatever others do to the application data
\* meanwhile: the volume that it found stays, and outside the application data
\* it hashes what is there.
Working ==
  /\ request \in Requests
  /\ pc \in States
  /\ fdpos \in Nat
  /\ total_size \in Int
  /\ offset \in Nat
  /\ ctx \in Seq(Cell)
  /\ fragmentsums \in Seq(Character)
  /\ pc # "done" => rc = NotReturned
  /\ NothingHashed
  /\ pc = "open" => total_size = 0 /\ pvd_offset = 0 /\ fdpos = 0
  /\ pc \notin {"open", "done"} =>
       /\ HasPrimary(image, unreadable)
       /\ pvd_offset + APPDATA_OFFSET = AppDataStart(image)
       /\ Len(ctx) <= Len(image)
       /\ \A i \in 1 .. Len(ctx) : i \notin AppDataPlaces(image) => ctx[i] = image[i]
  /\ pc = "appdata" => fdpos = AppDataStart(image)
  /\ pc = "hash" => fdpos = Len(ctx)

\* An implanter that has not begun.
LEMMA UnbegunIsWorking ==
  ASSUME request \in Requests, pc = "open", total_size = 0, pvd_offset = 0, fdpos = 0,
         offset = 0, ctx = <<>>, previous_fragment = 0, fragmentsums = <<>>,
         rc = NotReturned
  PROVE  Working
<1>1. <<>> \in Seq(Cell) /\ <<>> \in Seq(Character)
  OBVIOUS
<1> QED
  BY <1>1 DEF Working, NothingHashed, States

\* Whatever another writes to the application data.
LEMMA OtherKeepsWorking ==
  ASSUME Working, WellFormedImage(image, unreadable), SameOutside(image, image'),
         UNCHANGED <<unreadable, request, pc, volume, fdpos, hashing, rc>>
  PROVE  Working'
<1>1. IsSequence(image) /\ StopDescriptors(image) # {}
  BY SeqIsSequence DEF WellFormedImage
<1>2. /\ HasPrimary(image', unreadable) <=> HasPrimary(image, unreadable)
      /\ AppDataStart(image') = AppDataStart(image)
      /\ AppDataPlaces(image') = AppDataPlaces(image)
  BY <1>1, SameVolume
<1>3. /\ Len(image') = Len(image) /\ Len(image) \in Nat
      /\ \A i \in 1 .. Len(image) : i \notin AppDataPlaces(image) => image'[i] = image[i]
  BY <1>1 DEF SameOutside, IsSequence
<1>4. Len(ctx) \in Nat
  BY DEF Working
<1> QED
  BY <1>2, <1>3, <1>4 DEF Working, NothingHashed, volume, hashing

\* The image after a step of the implanter, and what it returned then.
Effect ==
  LET whole == "short write" \notin faults
  IN  \/ image' = image /\ rc' # 0
      \/ /\ pc = "erase" /\ rc' # 0
         /\ WrittenOver(image, image', BlankAppData, whole)
      \/ /\ pc = "write" /\ rc' = 0
         /\ WrittenOver(image, image', NewAppData(request.alg, Digest(request.alg, ctx),
                                                  request.supported, fragmentsums), whole)

LEMMA LastOfRange ==
  ASSUME NEW n \in Nat \ {0}
  PROVE  n \in 1 .. n
OBVIOUS

\* A write() at the application data writes over it.
LEMMA WriteAppDataIs ==
  ASSUME Working, pc \in {"erase", "write"},
         NEW cells, cells = [i \in 1 .. APPDATA_SIZE |-> cells[i]], WriteAppData(cells)
  PROVE  WrittenOver(image, image', cells, "short write" \notin faults)
<1>1. APPDATA_SIZE \in Nat \ {0}
  BY Layout
<1>2. Len(cells) = APPDATA_SIZE
  BY <1>1, FunctionIsSequence
<1>3. pvd_offset + APPDATA_OFFSET = AppDataStart(image)
  BY DEF Working
<1>4. PICK n \in (IF "short write" \in faults THEN 1 .. APPDATA_SIZE ELSE {APPDATA_SIZE}) :
        image' = WriteAt(image, AppDataStart(image), SubSeq(cells, 1, n))
  BY <1>2, <1>3 DEF WriteAppData
<1>5. n \in 1 .. APPDATA_SIZE
  <2>1. APPDATA_SIZE \in 1 .. APPDATA_SIZE
    BY <1>1, LastOfRange
  <2> QED
    BY <1>4, <2>1
<1>6. "short write" \notin faults => n = APPDATA_SIZE
  BY <1>4
<1> QED
  BY <1>4, <1>5, <1>6 DEF WrittenOver

\* What a step does to the image.
LEMMA StepHasEffect ==
  ASSUME Working, WellFormedImage(image, unreadable), Step \/ Crash
  PROVE  Effect /\ UNCHANGED <<unreadable, faults, request>> /\ pc # "done"
<1>1. UNCHANGED <<unreadable, faults, request>> /\ pc # "done"
  BY DEF Step, OpenFails, NoVolume, FindVolume, AppDataUnreadable, ReadAppData, Erase,
         HashBlock, EndOfVolume, WriteCertificate, Crash
<1>2. rc # 0
  BY <1>1 DEF Working, NotReturned
<1> SUFFICES Effect
  BY <1>1
<1>3. ASSUME image' = image, rc' # 0 PROVE Effect
  BY <1>3 DEF Effect
<1>4. -1 # 0 /\ -5 # 0
  OBVIOUS
<1>5. CASE OpenFails \/ NoVolume
  <2>1. image' = image /\ rc' = -1
    BY <1>5 DEF OpenFails, NoVolume, Return
  <2> QED
    BY <1>3, <1>4, <2>1
<1>6. CASE FindVolume \/ HashBlock \/ EndOfVolume \/ Crash
  <2>1. image' = image /\ rc' = rc
    BY <1>6 DEF FindVolume, HashBlock, EndOfVolume, Crash
  <2> QED
    BY <1>2, <1>3, <2>1
<1>7. CASE ReadAppData
  <2>1. image' = image /\ (rc' = rc \/ rc' = -1)
    BY <1>7 DEF ReadAppData, Return
  <2> QED
    BY <1>2, <1>3, <1>4, <2>1
<1>8. CASE AppDataUnreadable
  <2>1. /\ pc = "appdata" /\ image' = image
        /\ fdpos = AppDataStart(image)
        /\ AppDataStart(image) + APPDATA_SIZE <= Len(image)
        /\ AppDataStart(image) \in Nat /\ Len(image) \in Nat
    <3>1. pc = "appdata" /\ image' = image
      BY <1>8 DEF AppDataUnreadable
    <3>2. IsSequence(image)
      BY SeqIsSequence DEF WellFormedImage
    <3> QED
      BY <3>1, <3>2, AppDataStartType DEF Working, WellFormedImage, IsSequence
  <2>2. ~ReadReturns(image, unreadable, fdpos, APPDATA_SIZE, MayBeShort, 0, 0)
    <3>1. ~(fdpos >= Len(image)) /\ APPDATA_SIZE \in Nat
      BY <2>1, Layout
    <3> QED
      BY <2>1, <3>1, ReadNothing
  <2>3. rc' = -5
    BY <1>8, <2>2 DEF AppDataUnreadable, Return, EIO
  <2> QED
    BY <1>3, <1>4, <2>1, <2>3
<1>9. CASE Erase
  <2>1. pc = "erase"
    BY <1>9 DEF Erase
  <2>2. CASE image' = image /\ rc' = -1
    BY <1>3, <1>4, <2>2
  <2>3. CASE WriteAppData(BlankAppData) /\ UNCHANGED rc
    <3>1. WrittenOver(image, image', BlankAppData, "short write" \notin faults)
      BY <2>1, <2>3, AppDataIsFunction, WriteAppDataIs
    <3> QED
      BY <1>2, <2>1, <2>3, <3>1 DEF Effect
  <2> QED
    BY <1>9, <2>2, <2>3 DEF Erase, Return
<1>10. CASE WriteCertificate
  <2> DEFINE cells == NewAppData(request.alg, Digest(request.alg, ctx),
                                 request.supported, fragmentsums)
  <2>1. pc = "write"
    BY <1>10 DEF WriteCertificate
  <2>2. CASE image' = image /\ rc' = -1
    BY <1>3, <1>4, <2>2
  <2>3. CASE WriteAppData(cells) /\ rc' = 0
    <3>1. cells = [i \in 1 .. APPDATA_SIZE |-> cells[i]]
      BY AppDataIsFunction
    <3> HIDE DEF cells
    <3>2. WrittenOver(image, image', cells, "short write" \notin faults)
      BY <2>1, <2>3, <3>1, WriteAppDataIs
    <3> QED
      BY <2>1, <2>3, <3>2 DEF Effect, cells
  <2> QED
    BY <1>10, <2>2, <2>3 DEF WriteCertificate, Return
<1> QED
  BY <1>5, <1>6, <1>7, <1>8, <1>9, <1>10 DEF Step

\* It changes nothing but the application data.
LEMMA EffectFacts ==
  ASSUME CellsAreClosed, Working, WellFormedImage(image, unreadable), Effect
  PROVE  /\ SameOutside(image, image')
         /\ WellFormedImage(image', unreadable)
<1>1. CASE image' = image
  BY <1>1 DEF SameOutside
<1>2. ASSUME pc \in {"erase", "write"}, NEW cells, cells = [i \in 1 .. APPDATA_SIZE |-> cells[i]],
             \A i \in 1 .. APPDATA_SIZE : cells[i] \in Cell,
             WrittenOver(image, image', cells, "short write" \notin faults)
      PROVE  SameOutside(image, image') /\ WellFormedImage(image', unreadable)
  <2>1. HasPrimary(image, unreadable)
    BY <1>2 DEF Working
  <2> QED
    BY <1>2, <2>1, WrittenOverFacts
<1>3. CASE pc = "erase" /\ WrittenOver(image, image', BlankAppData, "short write" \notin faults)
  BY <1>2, <1>3, AppDataIsFunction, Layout DEF BlankAppData
<1> DEFINE cells == NewAppData(request.alg, Digest(request.alg, ctx),
                               request.supported, fragmentsums)
<1>4. CASE pc = "write" /\ WrittenOver(image, image', cells, "short write" \notin faults)
  <2>1. cells = [i \in 1 .. APPDATA_SIZE |-> cells[i]]
    BY AppDataIsFunction
  <2>2. request.alg \in Algorithms /\ request.supported \in {0, 1}
    BY AboutRequests DEF Working
  <2>3. \A i \in 1 .. APPDATA_SIZE : cells[i] \in Cell
    BY <2>2 DEF CellsAreClosed, Working
  <2> HIDE DEF cells
  <2> QED
    BY <1>2, <1>4, <2>1, <2>3
<1> QED
  BY <1>1, <1>3, <1>4 DEF Effect

\* A block that is hashed goes on where the one before ended.
LEMMA HashBlockKeepsWorking ==
  ASSUME Working, WellFormedImage(image, unreadable), HashBlock
  PROVE  Working'
<1>1. /\ pc = "hash" /\ rc = NotReturned
      /\ UNCHANGED <<image, unreadable, faults, request, pc, volume, rc>>
  BY DEF Working, HashBlock
<1>2. PICK nread \in 1 .. MIN(total_size - offset, buffer_size) :
        /\ ReadReturns(image, unreadable, fdpos, MIN(total_size - offset, buffer_size),
                       MayBeShort, 0, nread)
        /\ ctx' = ctx \o CellsAt(image, fdpos, nread)
        /\ fragmentsums' = fragmentsums \/ fragmentsums' = fragmentsums \o SumOf(ctx')
        /\ fdpos' = fdpos + nread
        /\ offset' = offset + nread
  BY DEF HashBlock
<1>3. /\ ctx \in Seq(Cell) /\ fdpos = Len(ctx) /\ fdpos \in Nat /\ offset \in Nat
      /\ image \in Seq(Cell) /\ Len(image) \in Nat
      /\ nread \in Nat
      /\ fdpos + nread <= Len(image)
      /\ request.alg \in Algorithms
  <2>1. request.alg \in Algorithms
    BY AboutRequests DEF Working
  <2>2. nread \in Nat /\ fdpos + nread <= Len(image)
    <3> DEFINE nbyte == MIN(total_size - offset, buffer_size)
    <3>1. nbyte \in Int
      BY Layout DEF Working, MIN, buffer_size
    <3>2. /\ nread \in 1 .. nbyte
          /\ ReadReturns(image, unreadable, fdpos, nbyte, MayBeShort, 0, nread)
      BY <1>2
    <3> HIDE DEF nbyte
    <3> QED
      BY <3>1, <3>2 DEF ReadReturns
  <2> QED
    BY <1>1, <2>1, <2>2 DEF Working, WellFormedImage
<1> DEFINE block == CellsAt(image, fdpos, nread)
<1>4. /\ block \in Seq(Cell)
      /\ Len(block) = nread
      /\ \A i \in 1 .. nread : block[i] = image[fdpos + i]
  <2>1. \A i \in 1 .. nread : image[fdpos + i] \in Cell
    BY <1>3
  <2> QED
    BY <1>3, <2>1 DEF CellsAt
<1> HIDE DEF block
<1>5. ctx' = ctx \o block
  BY <1>2 DEF block
<1>6. ctx' \in Seq(Cell) /\ Len(ctx') = fdpos' /\ fdpos' \in Nat /\ offset' \in Nat
  <2>1. fdpos' = fdpos + nread /\ offset' = offset + nread
    BY <1>2
  <2>2. ctx \o block \in Seq(Cell) /\ Len(ctx \o block) = Len(ctx) + nread
    BY <1>3, <1>4, ConcatProperties
  <2> QED
    BY <1>3, <1>5, <2>1, <2>2
<1>7. ASSUME NEW i \in 1 .. Len(ctx'), i \notin AppDataPlaces(image)
      PROVE  ctx'[i] = image[i]
  <2>1. CASE i <= Len(ctx)
    <3>1. i \in 1 .. Len(ctx) /\ ctx'[i] = ctx[i]
      BY <1>3, <1>4, <1>5, <1>6, <2>1
    <3> QED
      BY <1>1, <1>7, <3>1 DEF Working
  <2>2. CASE i > Len(ctx)
    <3>1. /\ i - fdpos \in 1 .. nread
          /\ fdpos + (i - fdpos) = i
      <4>1. Len(ctx') = fdpos + nread
        BY <1>2, <1>6
      <4> QED
        BY <1>3, <2>2, <4>1
    <3>2. ctx'[i] = block[i - fdpos]
      <4>1. i \in 1 .. (Len(ctx) + Len(block)) /\ ~(i <= Len(ctx))
        BY <1>2, <1>3, <1>4, <1>6, <2>2
      <4> QED
        BY <1>3, <1>4, <1>5, <4>1, ConcatProperties
    <3> QED
      BY <1>4, <3>1, <3>2
  <2> QED
    BY <1>3, <1>6, <2>1, <2>2
<1>8. fragmentsums' \in Seq(Character)
  <2>1. SumOf(ctx') \in Seq(Character)
    <3>1. SumOf(ctx') = [i \in 1 .. fragmentsize |-> <<Digest(request.alg, ctx'), i>>]
      BY <1>1, AboutWidth DEF SumOf, FragmentSum
    <3>2. \A i \in 1 .. fragmentsize : <<Digest(request.alg, ctx'), i>> \in Character
      BY <1>3, <1>6, AboutWidth DEF Character
    <3> QED
      BY <3>1, <3>2, AboutWidth
  <2>2. fragmentsums \in Seq(Character)
    BY DEF Working
  <2>3. fragmentsums \o SumOf(ctx') \in Seq(Character)
    BY <2>1, <2>2, ConcatProperties
  <2> QED
    BY <1>2, <2>2, <2>3
<1>9. Len(ctx') <= Len(image)
  BY <1>2, <1>3, <1>6
<1> QED
  BY <1>1, <1>6, <1>7, <1>8, <1>9 DEF Working, NothingHashed, Early, volume

\* The other steps.
LEMMA StepKeepsWorking ==
  ASSUME CellsAreClosed, Working, WellFormedImage(image, unreadable), Step \/ Crash
  PROVE  Working'
<1>1. Effect /\ UNCHANGED <<unreadable, faults, request>>
  BY StepHasEffect
<1>2. CASE OpenFails \/ NoVolume \/ AppDataUnreadable \/ WriteCertificate \/ Crash
  <2>1. pc' = "done" /\ UNCHANGED <<volume, fdpos, hashing>>
    BY <1>2 DEF OpenFails, NoVolume, AppDataUnreadable, WriteCertificate, Crash, Return
  <2> QED
    BY <1>1, <2>1 DEF Working, NothingHashed, Early, States, volume, hashing
<1>3. CASE FindVolume
  <2>1. /\ pc = "open" /\ pc' = "appdata"
        /\ HasPrimary(image, unreadable)
        /\ UNCHANGED <<image, unreadable, faults, request, hashing, rc>>
        /\ pvd_offset' = PvdOffset(image)
        /\ fdpos' = PvdOffset(image) + APPDATA_OFFSET
    BY <1>3 DEF FindVolume
  <2>2. IsSequence(image) /\ StopDescriptors(image) # {} /\ WellPlaced(image)
    BY SeqIsSequence DEF WellFormedImage
  <2>3. fdpos' = AppDataStart(image) /\ AppDataStart(image) \in Nat /\ Len(image) \in Nat
    BY <2>1, <2>2, AppDataStartType DEF WellPlaced, AppDataStart, IsSequence
  <2>4. ctx = <<>> /\ Len(ctx) = 0
    BY <2>1 DEF Working, NothingHashed, Early
  <2>5. total_size' \in Int
    <3>1. SectorsOf(image) \in Nat
      BY <2>1 DEF WellFormedImage
    <3>2. total_size' = SECTOR_SIZE * SectorsOf(image) - SKIPSECTORS * SECTOR_SIZE
      BY <1>3 DEF FindVolume, isosize
    <3> QED
      BY <3>1, <3>2, Layout
  <2> QED
    BY <2>1, <2>3, <2>4, <2>5 DEF Working, NothingHashed, Early, States, hashing
<1>4. CASE ReadAppData
  <2>1. /\ pc = "appdata"
        /\ UNCHANGED <<image, unreadable, faults, request, volume, hashing>>
        /\ \/ pc' = "erase" /\ fdpos' = pvd_offset + APPDATA_OFFSET /\ UNCHANGED rc
           \/ pc' = "hash" /\ fdpos' = 0 /\ UNCHANGED rc
           \/ pc' = "done" /\ \E r \in 1 .. APPDATA_SIZE : fdpos' = fdpos + r
    BY <1>4 DEF ReadAppData, Return
  <2>2. /\ fdpos = AppDataStart(image) /\ fdpos \in Nat
        /\ pvd_offset + APPDATA_OFFSET = AppDataStart(image)
        /\ ctx = <<>> /\ Len(ctx) = 0
    BY <2>1 DEF Working, NothingHashed, Early
  <2>3. fdpos' \in Nat
    BY <2>1, <2>2, Layout
  <2> QED
    BY <2>1, <2>2, <2>3 DEF Working, NothingHashed, Early, States, volume, hashing
<1>5. CASE Erase
  <2>1. /\ pc = "erase" /\ ctx = <<>> /\ Len(ctx) = 0
        /\ UNCHANGED <<unreadable, faults, request, volume, hashing>>
        /\ \/ pc' = "hash" /\ fdpos' = 0 /\ UNCHANGED rc
           \/ pc' = "done" /\ fdpos' = fdpos
    BY <1>5 DEF Erase, Return, Working, NothingHashed, Early
  <2>2. SameOutside(image, image')
    BY <1>1, EffectFacts
  <2>3. /\ HasPrimary(image', unreadable) <=> HasPrimary(image, unreadable)
        /\ AppDataStart(image') = AppDataStart(image)
        /\ Len(image') = Len(image)
    <3>1. IsSequence(image) /\ StopDescriptors(image) # {}
      BY SeqIsSequence DEF WellFormedImage
    <3> QED
      BY <2>2, <3>1, SameVolume DEF SameOutside
  <2> QED
    BY <2>1, <2>3 DEF Working, NothingHashed, Early, States, volume, hashing
<1>6. CASE EndOfVolume
  <2>1. /\ pc = "hash" /\ pc' = "write" /\ fdpos' = pvd_offset + APPDATA_OFFSET
        /\ UNCHANGED <<image, unreadable, faults, request, volume, hashing, rc>>
    BY <1>6 DEF EndOfVolume
  <2>2. fdpos' = AppDataStart(image) /\ AppDataStart(image) \in Nat
    BY <2>1, AppDataStartType DEF Working, WellFormedImage
  <2> QED
    BY <2>1, <2>2 DEF Working, NothingHashed, Early, States, volume, hashing
<1>7. CASE HashBlock
  BY <1>7, HashBlockKeepsWorking
<1> QED
  BY <1>2, <1>3, <1>4, <1>5, <1>6, <1>7 DEF Step
=============================================================================
