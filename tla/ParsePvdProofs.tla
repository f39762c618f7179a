--------------------------- MODULE ParsePvdProofs ---------------------------
(***************************************************************************)
(* Proofs about VolumeScan and ParsePvd: the search finds the descriptor   *)
(* and offset that IsoLayout says; the parser stays in its buffers, takes  *)
(* whole fields for what AppData says of them, and misreads no torn        *)
(* certificate.                                                            *)
(***************************************************************************)
EXTENDS ParsePvd, CertificateLemmas

-----------------------------------------------------------------------------
(* Products in the width of a variable.                                    *)

\* A product may be cut to the width before or after it is multiplied again.
LEMMA ProductModulo ==
  ASSUME NEW a \in Nat, NEW c \in Nat, NEW m \in Nat \ {0}
  PROVE  ((a % m) * c) % m = (a * c) % m
<1> DEFINE q == a \div m
           r == a % m
           p == (r * c) \div m
           z == (r * c) % m
<1>1. q \in Int /\ r \in 0 .. (m - 1) /\ a = m * q + r
  BY Division
<1>2. r * c \in Int
  BY <1>1
<1>3. p \in Int /\ z \in 0 .. (m - 1) /\ r * c = m * p + z
  BY <1>2, Division
<1>4. a * c = (m * q) * c + r * c
  BY <1>1
<1>5. (m * q) * c = m * (q * c) /\ q * c \in Int
  BY <1>1
<1>6. m * (q * c) + m * p = m * (q * c + p)
  BY <1>3, <1>5
<1> HIDE DEF q, r, p, z
<1>7. m * (q * c) \in Int /\ m * p \in Int /\ q * c + p \in Int
  BY <1>3, <1>5
<1>8. a * c = m * (q * c + p) + z
  BY <1>2, <1>3, <1>4, <1>5, <1>6, <1>7
<1>9. (a * c) % m = z
  BY <1>3, <1>7, <1>8, DivisionIs
<1> QED
  BY <1>9 DEF z, r

-----------------------------------------------------------------------------
(* The search.                                                             *)

\* What the theorems about the search ask of the media.
MediaHaveSectors ==
  /\ ~ShortReads
  /\ \A m \in Media : HasDescriptors(m.image, m.unreadable)

\* What Naturals says of the exponents of the sector size.
PowersOfSectorSize ==
  /\ SECTOR_SIZE ^ 0 = 1
  /\ \A k \in Nat : /\ SECTOR_SIZE ^ k \in Nat
                    /\ SECTOR_SIZE ^ (k + 1) = (SECTOR_SIZE ^ k) * SECTOR_SIZE

\* The medium is one of those that were assumed.
OnMedium == \E m \in Media : image = m.image /\ unreadable = m.unreadable

\* The search is at the k-th descriptor, and it could read those before.
AtDescriptor(k) ==
  /\ fdpos = DescriptorStart(k)
  /\ \A j \in 0 .. (k - 1) : DescriptorStart(j) \notin unreadable

\* The search has passed no descriptor at which it stops.
InSearch ==
  /\ pc = "seek" => fdpos = 0
  /\ pc # "done" => result = "none"
  /\ pc = "read" => \E k \in 0 .. ScanStop(image) : AtDescriptor(k)

\* The offset goes with the sector that is read next.
OffsetInStep ==
  /\ pc = "seek" => nbyte = SYSTEM_AREA_SIZE
  /\ pc = "read" =>
       \A k \in Nat : fdpos = DescriptorStart(k) =>
         nbyte = (SYSTEM_AREA_SIZE * SECTOR_SIZE ^ k) % INT64_MODULUS

\* The constants as the proofs use them.
LEMMA ScanConstants ==
  /\ INT64_MODULUS \in Nat \ {0}
  /\ SYSTEM_AREA_SIZE \in 0 .. (INT64_MODULUS - 1)
  /\ SYSTEM_AREA_SIZE \in Nat \ {0}
BY ScanAssumption, BufferSize DEF ScanAssumption

\* What is assumed of the medium.
LEMMA OnMediumFacts ==
  ASSUME OnMedium
  PROVE  /\ image \in Seq(Cell) /\ unreadable \subseteq Nat
         /\ IsSequence(image)
         /\ MediaHaveSectors => HasDescriptors(image, unreadable)
BY ScanAssumption, SeqIsSequence DEF OnMedium, MediaHaveSectors, ScanAssumption

\* The search begins on a medium.
LEMMA OnMediumInit == Init => OnMedium
BY DEF Init, OnMedium

\* No step of the search changes the medium.
LEMMA OnMediumNext == OnMedium /\ [Next]_vars => OnMedium'
BY DEF OnMedium, Next, vars, SeekFails, SkipSystemArea, ReadFails, ReadSector, Returned

\* The search begins with its types.
LEMMA ScanTypeInit == Init => TypeOK
<1> SUFFICES ASSUME Init
             PROVE  TypeOK
  OBVIOUS
<1>1. OnMedium
  BY OnMediumInit
<1>2. DOMAIN sector_buffer = 1 .. SECTOR_SIZE
  BY DEF Init
<1> QED
  BY <1>1, <1>2, OnMediumFacts, ScanConstants DEF Init, TypeOK

\* Every step of the search keeps them.
LEMMA ScanTypeNext == OnMedium /\ TypeOK /\ [Next]_vars => TypeOK'
<1> SUFFICES ASSUME OnMedium, TypeOK, [Next]_vars
             PROVE  TypeOK'
  OBVIOUS
<1>1. CASE SeekFails
  BY <1>1 DEF SeekFails, Return, TypeOK
<1>2. CASE SkipSystemArea
  BY <1>2, ScanConstants DEF SkipSystemArea, TypeOK
<1>3. CASE ReadFails
  BY <1>3 DEF ReadFails, Return, TypeOK
<1>4. CASE ReadSector
  <2>1. PICK r \in 0 .. SECTOR_SIZE :
          /\ fdpos' = fdpos + r
          /\ sector_buffer' = SectorRead(r)
          /\ nbyte' = nbyte \/ nbyte' = NextOffset
    BY <1>4 DEF ReadSector
  <2>2. fdpos' \in Nat
    BY <2>1, Layout DEF TypeOK
  <2>3. DOMAIN sector_buffer' = 1 .. SECTOR_SIZE
    BY <2>1 DEF SectorRead
  <2>4. nbyte' \in 0 .. (INT64_MODULUS - 1)
    <3>1. nbyte * SECTOR_SIZE \in Int
      BY Layout, ScanConstants DEF TypeOK
    <3>2. NextOffset \in 0 .. (INT64_MODULUS - 1)
      BY <3>1, ScanConstants, Division DEF NextOffset
    <3> QED
      BY <2>1, <3>2 DEF TypeOK
  <2>5. pc' \in {"seek", "read", "done"} /\ result' \in {"none", "NULL", "found"}
    BY <1>4 DEF ReadSector, Return, TypeOK
  <2> QED
    BY <1>4, <2>2, <2>3, <2>4, <2>5 DEF ReadSector, TypeOK
<1>5. CASE Returned \/ UNCHANGED vars
  BY <1>5 DEF Returned, vars, TypeOK
<1> QED
  BY <1>1, <1>2, <1>3, <1>4, <1>5 DEF Next

\* A read of a sector of such a medium up to the stop returns all of it.
LEMMA WholeSector ==
  ASSUME MediaHaveSectors, OnMedium, NEW k \in 0 .. ScanStop(image),
         fdpos = DescriptorStart(k), NEW r \in 0 .. SECTOR_SIZE,
         ReadReturns(image, unreadable, fdpos, SECTOR_SIZE, ShortReads, 0, r)
  PROVE  /\ r = SECTOR_SIZE
         /\ DescriptorStart(k) \notin unreadable
         /\ DescriptorStart(k) + SECTOR_SIZE <= Len(image)
<1>1. HasDescriptors(image, unreadable) /\ Len(image) \in Nat /\ ~ShortReads
  BY OnMediumFacts DEF IsSequence, MediaHaveSectors
<1>2. ScanStop(image) \in Nat /\ k \in Nat
  BY <1>1, ScanStopIsLeast DEF HasDescriptors
<1>3. fdpos \in Nat /\ DescriptorStart(ScanStop(image)) \in Nat
  BY <1>2, DescriptorStartType
<1>4. fdpos + SECTOR_SIZE <= Len(image)
  <2>1. CASE k = ScanStop(image)
    BY <1>1, <2>1 DEF HasDescriptors
  <2>2. CASE k < ScanStop(image)
    BY <1>1, <1>2, <1>3, <2>2, Layout, DescriptorsApart DEF HasDescriptors
  <2> QED
    BY <1>2, <2>1, <2>2
<1>5. r # 0
  BY <1>1, <1>3, <1>4, Layout DEF ReadReturns
<1>6. /\ r \in 1 .. SECTOR_SIZE
      /\ \A i \in fdpos .. (fdpos + r - 1) : i \notin unreadable
      /\ r = SECTOR_SIZE \/ fdpos + r = Len(image) \/ fdpos + r \in unreadable
  BY <1>1, <1>5, Layout DEF ReadReturns
<1>7. fdpos \notin unreadable
  BY <1>3, <1>6
<1>8. ~(r < SECTOR_SIZE /\ fdpos + r \in unreadable)
  <2> SUFFICES ASSUME r < SECTOR_SIZE, fdpos + r \in unreadable
               PROVE  FALSE
    OBVIOUS
  <2>1. r \in 0 .. (SECTOR_SIZE - 1)
    BY Layout
  <2> QED
    BY <1>1, <1>7, <2>1 DEF HasDescriptors
<1> QED
  BY <1>1, <1>3, <1>4, <1>6, <1>7, <1>8, Layout

\* The next sector is that of the next descriptor.
LEMMA NextDescriptor ==
  ASSUME NEW k \in Nat
  PROVE  /\ DescriptorStart(k + 1) = DescriptorStart(k) + SECTOR_SIZE
         /\ \A j \in Nat : DescriptorStart(j) = DescriptorStart(k) => j = k
<1>1. (k + 1) * SECTOR_SIZE = k * SECTOR_SIZE + SECTOR_SIZE /\ k * SECTOR_SIZE \in Nat
  BY Layout
<1>2. DescriptorStart(k + 1) = DescriptorStart(k) + SECTOR_SIZE
  BY <1>1, BufferSize, Layout DEF DescriptorStart
<1>3. ASSUME NEW j \in Nat, DescriptorStart(j) = DescriptorStart(k)
      PROVE  j = k
  <2>1. DescriptorStart(j) \in Nat
    BY DescriptorStartType
  <2>2. ~(j < k) /\ ~(k < j)
    BY <1>3, <2>1, Layout, DescriptorsApart
  <2> QED
    BY <2>2
<1> QED
  BY <1>2, <1>3

\* What a step of the search makes of a sector: it ends at the stop, with the
\* descriptor if that is a primary one, or goes on to the next sector.
LEMMA SectorIsJudged ==
  ASSUME MediaHaveSectors, OnMedium, NEW k \in 0 .. ScanStop(image), AtDescriptor(k),
         ReadSector
  PROVE  \/ /\ k = ScanStop(image)
            /\ pc' = "done" /\ UNCHANGED nbyte
            /\ \/ /\ result' = "found"
                  /\ HasPrimary(image, unreadable)
                  /\ sector_buffer' = [i \in 1 .. SECTOR_SIZE |-> image[DescriptorStart(k) + i]]
               \/ /\ result' = "NULL"
                  /\ ~HasPrimary(image, unreadable)
         \/ /\ k + 1 \in 0 .. ScanStop(image)
            /\ AtDescriptor(k + 1)'
            /\ pc' = pc /\ result' = result /\ nbyte' = NextOffset
<1>1. /\ HasDescriptors(image, unreadable)
      /\ ScanStop(image) \in StopDescriptors(image)
      /\ ScanStop(image) \in Nat
      /\ \A j \in StopDescriptors(image) : ScanStop(image) <= j
  BY OnMediumFacts, ScanStopIsLeast DEF HasDescriptors
<1>2. PICK r \in 0 .. SECTOR_SIZE :
        LET buffer_ == SectorRead(r)
        IN  /\ ReadReturns(image, unreadable, fdpos, SECTOR_SIZE, ShortReads, 0, r)
            /\ fdpos' = fdpos + r
            /\ sector_buffer' = buffer_
            /\ \/ /\ buffer_[1] = <<"type", "PRIMARY">>
                  /\ Return("found")
                  /\ UNCHANGED nbyte
               \/ /\ buffer_[1] = <<"type", "SET_TERMINATOR">>
                  /\ Return("NULL")
                  /\ UNCHANGED nbyte
               \/ /\ buffer_[1] \notin {<<"type", "PRIMARY">>, <<"type", "SET_TERMINATOR">>}
                  /\ nbyte' = NextOffset
                  /\ UNCHANGED <<pc, result>>
  BY DEF ReadSector
<1>3. /\ r = SECTOR_SIZE
      /\ DescriptorStart(k) \notin unreadable
      /\ DescriptorStart(k) + SECTOR_SIZE <= Len(image)
  BY <1>2, WholeSector DEF AtDescriptor
<1>4. SectorRead(r) = [i \in 1 .. SECTOR_SIZE |-> image[DescriptorStart(k) + i]]
  BY <1>3 DEF SectorRead, AtDescriptor
<1>5. SectorRead(r)[1] = image[DescriptorStart(k) + 1]
  BY <1>4, Layout
<1>6. \A j \in 0 .. k : DescriptorStart(j) \notin unreadable
  BY <1>3, <1>1 DEF AtDescriptor
<1>7. UNCHANGED <<image, unreadable>>
  BY DEF ReadSector
<1>8. \A j \in 0 .. ScanStop(image) :
        IsDescriptor(image, j, "PRIMARY") \/ IsDescriptor(image, j, "SET_TERMINATOR")
        => j = ScanStop(image)
  <2> SUFFICES ASSUME NEW j \in 0 .. ScanStop(image),
                      IsDescriptor(image, j, "PRIMARY")
                        \/ IsDescriptor(image, j, "SET_TERMINATOR")
               PROVE  j = ScanStop(image)
    OBVIOUS
  <2>1. Len(image) \in Nat
    BY OnMediumFacts DEF IsSequence
  <2>2. j \in 0 .. (Len(image) \div SECTOR_SIZE)
    <3>1. Len(image) \div SECTOR_SIZE \in Int
      BY <2>1, Layout
    <3>2. ScanStop(image) <= Len(image) \div SECTOR_SIZE
      BY <1>1, <3>1 DEF StopDescriptors
    <3> QED
      BY <1>1, <3>1, <3>2
  <2>3. DescriptorStart(j) < Len(image)
    <3>1. DescriptorStart(j) \in Nat /\ DescriptorStart(ScanStop(image)) \in Nat
      BY <1>1, DescriptorStartType
    <3>2. DescriptorStart(ScanStop(image)) < Len(image)
      BY <1>1 DEF StopDescriptors
    <3>3. j < ScanStop(image) => DescriptorStart(j) + SECTOR_SIZE <= DescriptorStart(ScanStop(image))
      BY <1>1, DescriptorsApart
    <3> QED
      BY <1>1, <2>1, <3>1, <3>2, <3>3, Layout
  <2>4. j \in StopDescriptors(image)
    BY <2>2, <2>3 DEF StopDescriptors
  <2> QED
    BY <1>1, <2>4
<1>9. IsDescriptor(image, ScanStop(image), "PRIMARY")
        \/ IsDescriptor(image, ScanStop(image), "SET_TERMINATOR")
  BY <1>1 DEF StopDescriptors
<1>10. CASE SectorRead(r)[1] = <<"type", "PRIMARY">>
  <2>1. IsDescriptor(image, k, "PRIMARY")
    BY <1>5, <1>10 DEF IsDescriptor
  <2>2. k = ScanStop(image)
    BY <1>8, <2>1
  <2>3. HasPrimary(image, unreadable)
    BY <1>1, <1>6, <2>1, <2>2 DEF HasPrimary, HasDescriptors
  <2>4. <<"type", "PRIMARY">> # <<"type", "SET_TERMINATOR">>
    OBVIOUS
  <2>5. Return("found") /\ UNCHANGED nbyte
    BY <1>2, <1>10, <2>4
  <2> QED
    BY <1>2, <1>4, <2>2, <2>3, <2>5 DEF Return
<1>11. CASE SectorRead(r)[1] = <<"type", "SET_TERMINATOR">>
  <2>1. IsDescriptor(image, k, "SET_TERMINATOR")
    BY <1>5, <1>11 DEF IsDescriptor
  <2>2. k = ScanStop(image)
    BY <1>8, <2>1
  <2>3. <<"type", "PRIMARY">> # <<"type", "SET_TERMINATOR">>
    OBVIOUS
  <2>4. ~HasPrimary(image, unreadable)
    BY <2>1, <2>2, <2>3 DEF HasPrimary, IsDescriptor
  <2>5. Return("NULL") /\ UNCHANGED nbyte
    BY <1>2, <1>11, <2>3
  <2> QED
    BY <2>2, <2>4, <2>5 DEF Return
<1>12. CASE SectorRead(r)[1] \notin {<<"type", "PRIMARY">>, <<"type", "SET_TERMINATOR">>}
  <2>1. k # ScanStop(image)
    BY <1>5, <1>9, <1>12 DEF IsDescriptor
  <2>2. k + 1 \in 0 .. ScanStop(image)
    BY <1>1, <2>1
  <2>3. AtDescriptor(k + 1)'
    BY <1>2, <1>3, <1>6, <1>7, NextDescriptor DEF AtDescriptor
  <2>4. nbyte' = NextOffset /\ UNCHANGED <<pc, result>>
    BY <1>2, <1>12
  <2> QED
    BY <2>2, <2>3, <2>4
<1> QED
  BY <1>10, <1>11, <1>12

\* The search begins before the first descriptor.
LEMMA InSearchInit == Init => InSearch /\ FindsThePrimary
BY DEF Init, InSearch, FindsThePrimary

\* Every step of the search looks at the next descriptor, or has found where to
\* stop.
LEMMA InSearchNext ==
  ASSUME MediaHaveSectors, OnMedium, InSearch, FindsThePrimary, [Next]_vars
  PROVE  InSearch' /\ FindsThePrimary'
<1>0. HasDescriptors(image, unreadable)
  BY OnMediumFacts
<1>1. ScanStop(image) \in Nat
  BY <1>0, ScanStopIsLeast DEF HasDescriptors
<1>2. CASE SeekFails
  BY <1>2 DEF SeekFails, Return, InSearch, FindsThePrimary
<1>3. CASE SkipSystemArea
  <2>1. DescriptorStart(0) = SYSTEM_AREA_SIZE
    BY Layout, BufferSize DEF DescriptorStart
  <2>2. AtDescriptor(0)'
    BY <1>3, <2>1 DEF SkipSystemArea, AtDescriptor
  <2>3. InSearch'
    BY <1>1, <1>3, <2>2 DEF SkipSystemArea, InSearch
  <2>4. FindsThePrimary'
    BY <1>3 DEF SkipSystemArea, InSearch, FindsThePrimary
  <2> QED
    BY <2>3, <2>4
<1>4. CASE ReadFails
  <2>1. PICK k \in 0 .. ScanStop(image) : AtDescriptor(k)
    BY <1>4 DEF ReadFails, InSearch
  <2>2. fdpos \in unreadable
    BY <1>4, Layout DEF ReadFails, ReadReturns
  <2>3. ~HasPrimary(image, unreadable)
    BY <2>1, <2>2 DEF HasPrimary, AtDescriptor
  <2> QED
    BY <1>4, <2>3 DEF ReadFails, Return, InSearch, FindsThePrimary
<1>5. CASE ReadSector
  <2>1. PICK k \in 0 .. ScanStop(image) : AtDescriptor(k)
    BY <1>5 DEF ReadSector, InSearch
  <2>2. UNCHANGED <<image, unreadable>> /\ pc = "read" /\ result = "none"
    BY <1>5 DEF ReadSector, InSearch
  <2>3. CASE /\ k = ScanStop(image)
             /\ pc' = "done"
             /\ result' = "found"
             /\ HasPrimary(image, unreadable)
             /\ sector_buffer' = [i \in 1 .. SECTOR_SIZE |-> image[DescriptorStart(k) + i]]
    <3> DEFINE start == DescriptorStart(ScanStop(image))
    <3>1. start \in Nat /\ start + SECTOR_SIZE <= Len(image)
      BY <1>0, <1>1, DescriptorStartType DEF HasDescriptors
    <3>2. SubSeq(image, start + 1, start + SECTOR_SIZE)
            = [i \in 1 .. SECTOR_SIZE |-> image[start + i]]
      BY <3>1, Layout, OnMediumFacts, SubSequence
    <3> QED
      BY <2>2, <2>3, <3>2 DEF InSearch, FindsThePrimary
  <2>4. CASE pc' = "done" /\ result' = "NULL" /\ ~HasPrimary(image, unreadable)
    BY <2>2, <2>4 DEF InSearch, FindsThePrimary
  <2>5. CASE /\ k + 1 \in 0 .. ScanStop(image)
             /\ AtDescriptor(k + 1)'
             /\ pc' = pc /\ result' = result
    BY <2>2, <2>5 DEF InSearch, FindsThePrimary
  <2> QED
    BY <1>5, <2>1, <2>3, <2>4, <2>5, SectorIsJudged
<1>6. CASE Returned \/ UNCHANGED vars
  BY <1>6 DEF Returned, vars, InSearch, FindsThePrimary, AtDescriptor
<1> QED
  BY <1>2, <1>3, <1>4, <1>5, <1>6 DEF Next

\* The offset that is computed is multiplied once for each descriptor.
LEMMA OffsetInStepNext ==
  ASSUME MediaHaveSectors, PowersOfSectorSize, OnMedium, InSearch, OffsetInStep,
         OffsetIsPvdOffset, [Next]_vars
  PROVE  OffsetInStep' /\ OffsetIsPvdOffset'
<1>0. ScanStop(image) \in Nat
  BY OnMediumFacts, ScanStopIsLeast DEF HasDescriptors
<1>1. CASE SeekFails \/ ReadFails
  BY <1>1 DEF SeekFails, ReadFails, Return, OffsetInStep, OffsetIsPvdOffset
<1>2. CASE SkipSystemArea
  <2>1. /\ fdpos' = SYSTEM_AREA_SIZE /\ nbyte' = SYSTEM_AREA_SIZE
        /\ pc' = "read" /\ result' = "none"
    BY <1>2 DEF SkipSystemArea, OffsetInStep, InSearch
  <2>2. DescriptorStart(0) = SYSTEM_AREA_SIZE
    BY Layout, BufferSize DEF DescriptorStart
  <2>3. ASSUME NEW k \in Nat, fdpos' = DescriptorStart(k)
        PROVE  nbyte' = (SYSTEM_AREA_SIZE * SECTOR_SIZE ^ k) % INT64_MODULUS
    <3>1. k = 0
      BY <2>1, <2>2, <2>3, NextDescriptor
    <3>2. SYSTEM_AREA_SIZE * SECTOR_SIZE ^ k = SYSTEM_AREA_SIZE
      BY <3>1, ScanConstants DEF PowersOfSectorSize
    <3>3. SYSTEM_AREA_SIZE % INT64_MODULUS = SYSTEM_AREA_SIZE
      BY ScanConstants
    <3> QED
      BY <2>1, <3>2, <3>3
  <2> QED
    BY <2>1, <2>3 DEF OffsetInStep, OffsetIsPvdOffset
<1>3. CASE ReadSector
  <2>1. PICK k \in 0 .. ScanStop(image) : AtDescriptor(k)
    BY <1>3 DEF ReadSector, InSearch
  <2>2. UNCHANGED image /\ pc = "read" /\ result = "none" /\ k \in Nat
    BY <1>3, <1>0 DEF ReadSector, InSearch
  <2>3. nbyte = (SYSTEM_AREA_SIZE * SECTOR_SIZE ^ k) % INT64_MODULUS
    BY <2>1, <2>2 DEF OffsetInStep, AtDescriptor
  <2>4. CASE k = ScanStop(image) /\ pc' = "done" /\ UNCHANGED nbyte
    BY <2>2, <2>3, <2>4 DEF OffsetInStep, OffsetIsPvdOffset, PvdOffset
  <2>5. CASE AtDescriptor(k + 1)' /\ pc' = pc /\ result' = result /\ nbyte' = NextOffset
    <3> DEFINE power == SECTOR_SIZE ^ k
    <3>1. power \in Nat /\ SECTOR_SIZE ^ (k + 1) = power * SECTOR_SIZE
      BY <2>2 DEF PowersOfSectorSize
    <3> HIDE DEF power
    <3>2. /\ SYSTEM_AREA_SIZE * power \in Nat
          /\ SYSTEM_AREA_SIZE * (power * SECTOR_SIZE) = (SYSTEM_AREA_SIZE * power) * SECTOR_SIZE
      BY <3>1, ScanConstants, Layout
    <3>3. nbyte' = (SYSTEM_AREA_SIZE * SECTOR_SIZE ^ (k + 1)) % INT64_MODULUS
      <4>1. nbyte' = (((SYSTEM_AREA_SIZE * power) % INT64_MODULUS) * SECTOR_SIZE) % INT64_MODULUS
        BY <2>3, <2>5 DEF NextOffset, power
      <4>2. nbyte' = ((SYSTEM_AREA_SIZE * power) * SECTOR_SIZE) % INT64_MODULUS
        BY <3>2, <4>1, ScanConstants, Layout, ProductModulo
      <4> QED
        BY <3>1, <3>2, <4>2
    <3>4. \A j \in Nat : fdpos' = DescriptorStart(j) => j = k + 1
      BY <2>2, <2>5, NextDescriptor DEF AtDescriptor
    <3> QED
      BY <2>2, <2>5, <3>3, <3>4 DEF OffsetInStep, OffsetIsPvdOffset
  <2> QED
    BY <1>3, <2>1, <2>4, <2>5, SectorIsJudged
<1>4. CASE Returned \/ UNCHANGED vars
  BY <1>4 DEF Returned, vars, OffsetInStep, OffsetIsPvdOffset
<1> QED
  BY <1>1, <1>2, <1>3, <1>4 DEF Next

\* The steps of parsepvd() are steps of the search, or leave it alone.
LEMMA ParseStepsScan == [ParseNext]_parsevars => [Next]_vars
BY DEF ParseNext, parsevars, Scan, Next, NoDescriptor, BeginParse, ReadHash, ReadSkipSectors,
       ReadSupported, ReadFragmentCount, ReadNumber, ReadFragmentSums, PassOver, EndParse,
       ParseReturned, NextRound, Fail

\* utilities.c: "Find the primary volume descriptor".  On every medium whose
\* sectors are read as a whole the search returns the first primary descriptor
\* before any terminator, in parsepvd() and wherever else it runs.
THEOREM ScanFinds ==
  ASSUME MediaHaveSectors
  PROVE  /\ Spec => []FindsThePrimary
         /\ ParseSpec => []FindsThePrimary
<1> DEFINE I == OnMedium /\ InSearch /\ FindsThePrimary
<1>1. Init => I
  BY OnMediumInit, InSearchInit
<1>2. I /\ [Next]_vars => I'
  BY OnMediumNext, InSearchNext
<1>3. ParseInit => I
  BY <1>1 DEF ParseInit
<1>4. I /\ [ParseNext]_parsevars => I'
  BY <1>2, ParseStepsScan
<1> QED
  BY <1>1, <1>2, <1>3, <1>4, PTL DEF Spec, ParseSpec

\* The offset that is returned with it is the product that IsoLayout states,
\* in the width of an int64_t: the start of the descriptor if it is the first,
\* and some other place if it is not.
THEOREM ScanOffset ==
  ASSUME MediaHaveSectors, PowersOfSectorSize
  PROVE  /\ Spec => []OffsetIsPvdOffset
         /\ ParseSpec => []OffsetIsPvdOffset
<1> DEFINE I == /\ OnMedium /\ InSearch /\ FindsThePrimary
                /\ OffsetInStep /\ OffsetIsPvdOffset
<1>1. Init => I
  BY OnMediumInit, InSearchInit DEF Init, OffsetInStep, OffsetIsPvdOffset
<1>2. I /\ [Next]_vars => I'
  BY OnMediumNext, InSearchNext, OffsetInStepNext
<1>3. ParseInit => I
  BY <1>1 DEF ParseInit
<1>4. I /\ [ParseNext]_parsevars => I'
  BY <1>2, ParseStepsScan
<1> QED
  BY <1>1, <1>2, <1>3, <1>4, PTL DEF Spec, ParseSpec

-----------------------------------------------------------------------------
(* The parser.                                                             *)

\* The constants as the proofs use them.
LEMMA ParseConstants ==
  /\ HASH_SIZE \in Nat /\ MD5_HASH_SIZE \in Nat /\ MD5_HASH_SIZE <= HASH_SIZE
  /\ APPDATA_SIZE \in Nat \ {0} /\ FRAGMENT_SUM_SIZE \in Nat
BY Layout, ParseAssumption DEF ParseAssumption

\* A struct volume_info has these fields, which keep their place.
VolumeInfoFields ==
  {"hashsum", "algorithm", "skipsectors", "supported", "fragmentsums", "fragmentcount",
   "offset", "isosize"}

\* A text that was copied from within the buffer to where n characters fit.
CopiedText(text, n) == Len(text) <= n /\ \A i \in DOMAIN text : text[i] # Beyond

\* Once the buffer is filled it keeps its size, and so does the volume_info.
Filled ==
  /\ \A i \in DOMAIN sector_buffer : sector_buffer[i] # Beyond
  /\ buffer # <<>> =>
       /\ IsSequence(buffer) /\ Len(buffer) = APPDATA_SIZE
       /\ \A i \in 1 .. APPDATA_SIZE : buffer[i] # Beyond
       /\ volinfo = [f \in VolumeInfoFields |-> volinfo[f]]
       /\ \/ volinfo.hashsum = Uninitialized
          \/ CopiedText(volinfo.hashsum, HASH_SIZE)
       /\ \/ volinfo.fragmentsums = Uninitialized
          \/ CopiedText(volinfo.fragmentsums, FRAGMENT_SUM_SIZE)
  /\ buffer = <<>> => volinfo = Uninitialized

ParseInv == OnMedium /\ Filled /\ ParseTypeOK

\* NextOf() goes forward, and no further than the end.
LEMMA NextOfIs ==
  ASSUME NEW S, NEW i \in Nat, Len(buffer) \in Nat
  PROVE  /\ NextOf(S, i) \in Nat
         /\ i <= NextOf(S, i)
         /\ NextOf(S, i) <= MAX(i, Len(buffer))
         /\ NextOf(S, i) < Len(buffer) => buffer[NextOf(S, i) + 1] \in S
         /\ \A j \in i .. (NextOf(S, i) - 1) : buffer[j + 1] \notin S
<1> DEFINE end == MAX(i, Len(buffer))
           places == {j \in i .. (Len(buffer) - 1) : buffer[j + 1] \in S} \cup {end}
           next == CHOOSE j \in places : \A k \in places : j <= k
<1>1. end \in Nat /\ i <= end /\ Len(buffer) <= end
  BY DEF MAX
<1>2. places \subseteq Nat /\ end \in places /\ \A j \in places : i <= j
  BY <1>1
<1>3. \E j \in places : \A k \in places : j <= k
  BY <1>2, LeastNumber
<1>4. next \in places /\ \A k \in places : next <= k
  BY <1>3
<1>5. NextOf(S, i) = next
  BY DEF NextOf
<1>6. \A k \in i .. (Len(buffer) - 1) : buffer[k + 1] \in S => next <= k
  BY <1>4
<1>7. next <= end
  BY <1>2, <1>4
<1>8. next < Len(buffer) => buffer[next + 1] \in S
  <2>1. next # end => buffer[next + 1] \in S
    BY <1>4
  <2> QED
    BY <1>1, <1>2, <1>4, <2>1
<1> HIDE DEF next
<1>9. next \in Nat /\ i <= next
  BY <1>2, <1>4
<1>10. \A j \in i .. (next - 1) : buffer[j + 1] \notin S
  <2> SUFFICES ASSUME NEW j \in i .. (next - 1), buffer[j + 1] \in S
               PROVE  FALSE
    OBVIOUS
  <2>1. j < end
    BY <1>1, <1>7, <1>9
  <2>2. j < Len(buffer)
    BY <1>6, <1>9, <2>1, <1>7 DEF MAX
  <2> QED
    BY <1>6, <1>9, <2>2
<1> QED
  BY <1>5, <1>7, <1>8, <1>9, <1>10

\* What is copied from within the buffer is what is there.
LEMMA CopiedWithin ==
  ASSUME Filled, buffer # <<>>, NEW i \in Nat, NEW n \in Nat, i + n <= APPDATA_SIZE
  PROVE  /\ Copied(i, n) = [k \in 1 .. n |-> buffer[i + k]]
         /\ Len(Copied(i, n)) = n
         /\ \A k \in DOMAIN Copied(i, n) : Copied(i, n)[k] # Beyond
<1>1. APPDATA_SIZE \in Nat /\ \A k \in 1 .. n : i + k \in 1 .. APPDATA_SIZE
  BY ParseConstants
<1>2. Copied(i, n) = [k \in 1 .. n |-> buffer[i + k]]
  BY <1>1 DEF Copied
<1>3. Len(Copied(i, n)) = n
  BY <1>2, FunctionIsSequence
<1> QED
  BY <1>1, <1>2, <1>3 DEF Filled

\* Nothing is parsed before a descriptor is found.
LEMMA ParseInvInit == ParseInit => ParseInv
<1> SUFFICES ASSUME ParseInit
             PROVE  ParseInv
  OBVIOUS
<1>1. Init
  BY DEF ParseInit
<1>2. \A i \in DOMAIN sector_buffer : sector_buffer[i] # Beyond
  BY <1>1 DEF Init, AllocatedMemory, Beyond
<1>3. Filled
  BY <1>2 DEF ParseInit, Filled
<1>4. ParseTypeOK
  BY <1>1, ScanTypeInit, ParseConstants DEF ParseInit, ParseTypeOK
<1> QED
  BY <1>1, <1>3, <1>4, OnMediumInit DEF ParseInv

\* The search leaves the parser alone, and reads no more than the medium has.
LEMMA ScanKeeps ==
  ASSUME ParseInv, Scan
  PROVE  ParseInv'
<1>1. [Next]_vars
  BY DEF Scan, Next
<1>2. OnMedium' /\ TypeOK'
  BY <1>1, OnMediumNext, ScanTypeNext DEF ParseInv, ParseTypeOK
<1>3. \A i \in DOMAIN sector_buffer' : sector_buffer'[i] # Beyond
  <2>1. CASE ReadSector
    <3>1. PICK r \in 0 .. SECTOR_SIZE :
            /\ ReadReturns(image, unreadable, fdpos, SECTOR_SIZE, ShortReads, 0, r)
            /\ sector_buffer' = SectorRead(r)
      BY <2>1 DEF ReadSector
    <3>2. DOMAIN sector_buffer = 1 .. SECTOR_SIZE /\ fdpos \in Nat /\ image \in Seq(Cell)
      BY DEF ParseInv, ParseTypeOK, TypeOK
    <3>3. \A i \in DOMAIN image : image[i] # Beyond
      BY ParseAssumption DEF ParseInv, OnMedium, ParseAssumption
    <3>4. ASSUME NEW i \in 1 .. SECTOR_SIZE, i <= r
          PROVE  fdpos + i \in DOMAIN image
      <4>1. Len(image) \in Nat /\ DOMAIN image = 1 .. Len(image)
        BY <3>2
      <4>2. r > 0 => fdpos + r <= Len(image)
        BY <3>1, Layout DEF ReadReturns
      <4> QED
        BY <3>2, <3>4, <4>1, <4>2, Layout
    <3>5. ASSUME NEW i \in 1 .. SECTOR_SIZE
          PROVE  SectorRead(r)[i] # Beyond
      <4>1. CASE i <= r
        BY <3>3, <3>4, <3>5, <4>1 DEF SectorRead
      <4>2. CASE ~(i <= r)
        BY <3>2, <4>2 DEF SectorRead, ParseInv, Filled
      <4> QED
        BY <4>1, <4>2
    <3> QED
      BY <3>1, <3>5 DEF SectorRead
  <2>2. CASE SeekFails \/ SkipSystemArea \/ ReadFails
    BY <2>2 DEF SeekFails, SkipSystemArea, ReadFails, ParseInv, Filled
  <2> QED
    BY <2>1, <2>2 DEF Scan
<1>4. Filled'
  BY <1>3 DEF Scan, parsing, ParseInv, Filled, CopiedText
<1>5. ParseTypeOK'
  BY <1>2 DEF Scan, parsing, ParseInv, ParseTypeOK
<1> QED
  BY <1>2, <1>4, <1>5 DEF ParseInv

\* The buffer is the application data, with a NUL for its last character.
LEMMA BeginParseKeeps ==
  ASSUME ParseInv, BeginParse
  PROVE  ParseInv'
<1> DEFINE filled == [i \in 1 .. APPDATA_SIZE |->
                        IF i = APPDATA_SIZE THEN NUL ELSE sector_buffer[APPDATA_OFFSET + i]]
<1>1. buffer' = filled /\ UNCHANGED <<vars, index, task, parsed>>
  BY DEF BeginParse
<1>2. IsSequence(filled) /\ Len(filled) = APPDATA_SIZE
  BY Layout, FunctionIsSequence
<1>3. ASSUME NEW i \in 1 .. APPDATA_SIZE
      PROVE  filled[i] # Beyond
  <2>1. NUL # Beyond
    BY DEF NUL, Beyond
  <2>2. APPDATA_OFFSET + i \in 1 .. SECTOR_SIZE
    BY Layout
  <2> QED
    BY <2>1, <2>2 DEF ParseInv, Filled, ParseTypeOK, TypeOK
<1>4. filled # <<>>
  BY <1>2, ParseConstants
<1> HIDE DEF filled
<1>5. /\ volinfo' = [f \in VolumeInfoFields |-> volinfo'[f]]
      /\ volinfo'.hashsum = Uninitialized /\ volinfo'.fragmentsums = Uninitialized
  BY DEF BeginParse, VolumeInfoFields
<1>6. UNCHANGED sector_buffer
  BY <1>1 DEF vars
<1>7. Filled'
  BY <1>1, <1>2, <1>3, <1>4, <1>5, <1>6 DEF Filled, ParseInv
<1>8. TypeOK' /\ OnMedium'
  BY <1>1 DEF vars, TypeOK, OnMedium, ParseInv, ParseTypeOK
<1>9. ParseTypeOK'
  BY <1>1, <1>5, <1>8 DEF ParseTypeOK, ParseInv
<1> QED
  BY <1>7, <1>8, <1>9 DEF ParseInv

\* What a step within the buffer must do to keep the invariant.
LEMMA StepKeeps ==
  ASSUME ParseInv, UNCHANGED <<vars, buffer>>, buffer # <<>>,
         index' \in 0 .. (APPDATA_SIZE + 1), task' \subseteq TASK_DONE,
         parsed' \in {"none", "NULL", "volume_info"},
         volinfo' = [f \in VolumeInfoFields |-> volinfo'[f]],
         \/ volinfo'.hashsum = volinfo.hashsum
         \/ CopiedText(volinfo'.hashsum, HASH_SIZE),
         \/ volinfo'.fragmentsums = volinfo.fragmentsums
         \/ CopiedText(volinfo'.fragmentsums, FRAGMENT_SUM_SIZE)
  PROVE  ParseInv'
<1>1. TypeOK' /\ OnMedium' /\ sector_buffer' = sector_buffer
  BY DEF vars, TypeOK, OnMedium, ParseInv, ParseTypeOK
<1>2. Filled'
  BY <1>1 DEF Filled, ParseInv, CopiedText
<1>3. ParseTypeOK'
  BY <1>1, <1>2 DEF ParseTypeOK, Filled, CopiedText
<1> QED
  BY <1>1, <1>2, <1>3 DEF ParseInv

\* Within the loop, index is in the buffer.
LEMMA ParsingFacts ==
  ASSUME ParseInv, Parsing
  PROVE  /\ buffer # <<>> /\ IsSequence(buffer) /\ Len(buffer) = APPDATA_SIZE
         /\ index \in Nat /\ index + 1 <= APPDATA_SIZE
         /\ volinfo = [f \in VolumeInfoFields |-> volinfo[f]]
<1>1. index \in Nat
  BY ParseConstants DEF ParseInv, ParseTypeOK
<1>2. buffer # <<>>
  <2> SUFFICES ASSUME buffer = <<>>
               PROVE  FALSE
    OBVIOUS
  <2>1. Len(buffer) = 0
    OBVIOUS
  <2> QED
    BY <1>1, <2>1 DEF Parsing
<1>3. IsSequence(buffer) /\ Len(buffer) = APPDATA_SIZE
  BY <1>2 DEF ParseInv, Filled
<1> QED
  BY <1>1, <1>2, <1>3, ParseConstants DEF Parsing, ParseInv, Filled

\* A round that ends within the area or at its end goes on within the bounds.
LEMMA RoundIndex ==
  ASSUME ParseInv, Parsing, NEW i \in Nat, i <= APPDATA_SIZE
  PROVE  /\ ToSemicolon(i) \in Nat
         /\ i <= ToSemicolon(i)
         /\ ToSemicolon(i) <= APPDATA_SIZE
BY ParsingFacts, NextOfIs, ParseConstants DEF ToSemicolon, MAX

\* Every tag has a bit.
LEMMA TasksAreTasks == \A tag \in DOMAIN TaskOf : TaskOf[tag] \in TASK_DONE
BY DEF TaskOf, TASK_DONE

\* A hash is copied from within the buffer, or the tag is passed over.
LEMMA ReadHashKeeps ==
  ASSUME ParseInv, NEW alg \in Algorithms, ReadHash(alg)
  PROVE  ParseInv'
<1> DEFINE start == index + 1
           size == HashSize(alg)
           end == ToSemicolon(start + size)
<1>1. Parsing
  BY DEF ReadHash, At
<1>2. start \in Nat /\ start <= APPDATA_SIZE /\ size \in Nat /\ size <= HASH_SIZE
  BY <1>1, ParsingFacts, ParseConstants DEF HashSize
<1>3. CASE Fail
  BY <1>1, <1>3, StepKeeps, ParsingFacts DEF Fail, ParseInv, ParseTypeOK
<1>4. CASE /\ HashFits(start, size)
           /\ volinfo' = [volinfo EXCEPT !.hashsum = Copied(start, size), !.algorithm = alg]
           /\ NextRound(end, task \cup {"TASK_HASH"})
  <2> HIDE DEF start, size
  <2>1. start + size \in Nat /\ start + size <= APPDATA_SIZE
    BY <1>2, <1>4, ParseConstants DEF HashFits
  <2>2. end \in Nat /\ end <= APPDATA_SIZE
    BY <1>1, <2>1, RoundIndex
  <2> HIDE DEF end
  <2>3. CopiedText(Copied(start, size), HASH_SIZE)
    BY <1>1, <1>2, <2>1, CopiedWithin, ParsingFacts DEF CopiedText, ParseInv
  <2>4. /\ volinfo' = [f \in VolumeInfoFields |-> volinfo'[f]]
        /\ volinfo'.hashsum = Copied(start, size)
        /\ volinfo'.fragmentsums = volinfo.fragmentsums
    BY <1>1, <1>4, ParsingFacts DEF VolumeInfoFields
  <2>5. index' \in 0 .. (APPDATA_SIZE + 1)
    BY <1>4, <2>2, ParseConstants DEF NextRound
  <2>6. task' \subseteq TASK_DONE /\ parsed' = parsed /\ UNCHANGED <<vars, buffer>>
    BY <1>4 DEF NextRound, TASK_DONE, ParseInv, ParseTypeOK
  <2>7. parsed' \in {"none", "NULL", "volume_info"}
    BY <2>6 DEF ParseInv, ParseTypeOK
  <2> QED
    BY <1>1, <2>3, <2>4, <2>5, <2>6, <2>7, ParsingFacts, StepKeeps
<1> QED
  BY <1>3, <1>4 DEF ReadHash

\* A number is read within the buffer.
LEMMA ReadSkipSectorsKeeps ==
  ASSUME ParseInv, ReadSkipSectors
  PROVE  ParseInv'
<1>1. Parsing
  BY DEF ReadSkipSectors, At
<1>2. index + 1 \in Nat /\ index + 1 <= APPDATA_SIZE /\ index \in Nat
  BY <1>1, ParsingFacts
<1>3. CASE Fail
  BY <1>1, <1>3, StepKeeps, ParsingFacts DEF Fail, ParseInv, ParseTypeOK
<1>4. ASSUME NEW value, NEW end \in Nat, NEW tasks, end <= APPDATA_SIZE, tasks \subseteq TASK_DONE,
             volinfo' = [volinfo EXCEPT !.skipsectors = value], NextRound(end, tasks)
      PROVE  ParseInv'
  <2>1. /\ volinfo' = [f \in VolumeInfoFields |-> volinfo'[f]]
        /\ volinfo'.hashsum = volinfo.hashsum
        /\ volinfo'.fragmentsums = volinfo.fragmentsums
    BY <1>1, <1>4, ParsingFacts DEF VolumeInfoFields
  <2>2. index' \in 0 .. (APPDATA_SIZE + 1)
    BY <1>4, ParseConstants DEF NextRound
  <2>3. task' \subseteq TASK_DONE /\ parsed' = parsed /\ UNCHANGED <<vars, buffer>>
    BY <1>4 DEF NextRound
  <2>4. parsed' \in {"none", "NULL", "volume_info"}
    BY <2>3 DEF ParseInv, ParseTypeOK
  <2> QED
    BY <1>1, <2>1, <2>2, <2>3, <2>4, ParsingFacts, StepKeeps
<1>5. ToSemicolon(index + 1) \in Nat /\ ToSemicolon(index + 1) <= APPDATA_SIZE
  BY <1>1, <1>2, RoundIndex
<1>6. task \subseteq TASK_DONE /\ task \cup {"TASK_SKIP"} \subseteq TASK_DONE
  BY DEF ParseInv, ParseTypeOK, TASK_DONE
<1>7. index <= APPDATA_SIZE
  BY <1>2, ParseConstants
<1> QED
  BY <1>2, <1>3, <1>4, <1>5, <1>6, <1>7 DEF ReadSkipSectors

\* The other two numbers likewise.
LEMMA ReadNumberKeeps ==
  ASSUME ParseInv, NEW tag \in DOMAIN TaskOf, NEW field \in {"supported", "fragmentcount"},
         ReadNumber(tag, field)
  PROVE  ParseInv'
<1>1. Parsing
  BY DEF ReadNumber, At
<1>2. index + 1 \in Nat /\ index + 1 <= APPDATA_SIZE /\ index \in Nat
  BY <1>1, ParsingFacts
<1>3. PICK end \in {index, ToSemicolon(index + 1)}, tasks \in {task, task \cup {TaskOf[tag]}} :
        NextRound(end, tasks)
  BY DEF ReadNumber
<1>4. end \in Nat /\ end <= APPDATA_SIZE
  BY <1>1, <1>2, RoundIndex, ParseConstants
<1>5. tasks \subseteq TASK_DONE
  BY TasksAreTasks DEF ParseInv, ParseTypeOK
<1>6. PICK value : volinfo' = [volinfo EXCEPT ![field] = value]
  BY DEF ReadNumber
<1>7. /\ volinfo' = [f \in VolumeInfoFields |-> volinfo'[f]]
      /\ volinfo'.hashsum = volinfo.hashsum
      /\ volinfo'.fragmentsums = volinfo.fragmentsums
  BY <1>1, <1>6, ParsingFacts DEF VolumeInfoFields
<1>8. index' \in 0 .. (APPDATA_SIZE + 1)
  BY <1>3, <1>4, ParseConstants DEF NextRound
<1>9. task' \subseteq TASK_DONE /\ parsed' = parsed /\ UNCHANGED <<vars, buffer>>
  BY <1>3, <1>5 DEF NextRound
<1>10. parsed' \in {"none", "NULL", "volume_info"}
  BY <1>9 DEF ParseInv, ParseTypeOK
<1> QED
  BY <1>1, <1>7, <1>8, <1>9, <1>10, ParsingFacts, StepKeeps

\* The sums are copied up to the end of the buffer at most.
LEMMA ReadFragmentSumsKeeps ==
  ASSUME ParseInv, ReadFragmentSums
  PROVE  ParseInv'
<1> DEFINE start == index + 1
           frag_len == MIN(ToSemicolon(start) - start, FRAGMENT_SUM_SIZE)
           end == ToSemicolon(start + frag_len)
<1>1. Parsing
  BY DEF ReadFragmentSums, At
<1>2. start \in Nat /\ start <= APPDATA_SIZE
  BY <1>1, ParsingFacts
<1>3. CASE Fail
  BY <1>1, <1>3, StepKeeps, ParsingFacts DEF Fail, ParseInv, ParseTypeOK
<1>4. CASE /\ start + frag_len < APPDATA_SIZE
           /\ volinfo' = [volinfo EXCEPT !.fragmentsums = Copied(start, frag_len)]
           /\ NextRound(end, task \cup {"TASK_FRAGSUM"})
  <2> HIDE DEF start
  <2>1. frag_len \in Nat /\ frag_len <= FRAGMENT_SUM_SIZE
    <3>1. ToSemicolon(start) \in Nat /\ start <= ToSemicolon(start)
      BY <1>1, <1>2, RoundIndex
    <3> QED
      BY <1>2, <3>1, ParseConstants DEF MIN
  <2> HIDE DEF frag_len
  <2>2. start + frag_len \in Nat /\ start + frag_len <= APPDATA_SIZE
    BY <1>2, <1>4, <2>1, ParseConstants
  <2>3. end \in Nat /\ end <= APPDATA_SIZE
    BY <1>1, <2>2, RoundIndex
  <2> HIDE DEF end
  <2>4. CopiedText(Copied(start, frag_len), FRAGMENT_SUM_SIZE)
    BY <1>1, <1>2, <2>1, <2>2, CopiedWithin, ParsingFacts DEF CopiedText, ParseInv
  <2>5. /\ volinfo' = [f \in VolumeInfoFields |-> volinfo'[f]]
        /\ volinfo'.hashsum = volinfo.hashsum
        /\ volinfo'.fragmentsums = Copied(start, frag_len)
    BY <1>1, <1>4, ParsingFacts DEF VolumeInfoFields
  <2>6. index' \in 0 .. (APPDATA_SIZE + 1)
    BY <1>4, <2>3, ParseConstants DEF NextRound
  <2>7. task' \subseteq TASK_DONE /\ parsed' = parsed /\ UNCHANGED <<vars, buffer>>
    BY <1>4 DEF NextRound, TASK_DONE, ParseInv, ParseTypeOK
  <2>8. parsed' \in {"none", "NULL", "volume_info"}
    BY <2>7 DEF ParseInv, ParseTypeOK
  <2> QED
    BY <1>1, <2>4, <2>5, <2>6, <2>7, <2>8, ParsingFacts, StepKeeps
<1> QED
  BY <1>3, <1>4 DEF ReadFragmentSums

\* Every round keeps the invariant.
LEMMA ParseInvNext == ParseInv /\ [ParseNext]_parsevars => ParseInv'
<1> SUFFICES ASSUME ParseInv, [ParseNext]_parsevars
             PROVE  ParseInv'
  OBVIOUS
<1>1. CASE Scan
  BY <1>1, ScanKeeps
<1>2. CASE NoDescriptor
  BY <1>2 DEF NoDescriptor, vars, ParseInv, OnMedium, Filled, CopiedText, ParseTypeOK, TypeOK
<1>3. CASE BeginParse
  BY <1>3, BeginParseKeeps
<1>4. ASSUME NEW alg \in Algorithms, ReadHash(alg)
      PROVE  ParseInv'
  BY <1>4, ReadHashKeeps
<1>5. CASE ReadSkipSectors
  BY <1>5, ReadSkipSectorsKeeps
<1>6. CASE ReadSupported \/ ReadFragmentCount
  <2>1. "RHLISOSTATUS" \in DOMAIN TaskOf /\ "FRAGMENT COUNT" \in DOMAIN TaskOf
    BY DEF TaskOf
  <2> QED
    BY <1>6, <2>1, ReadNumberKeeps DEF ReadSupported, ReadFragmentCount
<1>7. CASE ReadFragmentSums
  BY <1>7, ReadFragmentSumsKeeps
<1>8. CASE PassOver
  <2>1. index' = index + 1 /\ task' = task /\ volinfo' = volinfo /\ parsed' = parsed
        /\ UNCHANGED <<vars, buffer>>
    BY <1>8 DEF PassOver, NextRound
  <2>2. Parsing
    BY <1>8 DEF PassOver
  <2>3. index' \in 0 .. (APPDATA_SIZE + 1)
    BY <2>1, <2>2, ParsingFacts, ParseConstants
  <2> QED
    BY <2>1, <2>2, <2>3, ParsingFacts, StepKeeps DEF ParseInv, ParseTypeOK
<1>9. CASE EndParse
  BY <1>9, StepKeeps DEF EndParse, ParseInv, ParseTypeOK, Filled
<1>10. CASE ParseReturned \/ UNCHANGED parsevars
  BY <1>10 DEF ParseReturned, parsevars, parsing, vars, ParseInv, OnMedium, Filled, CopiedText,
               ParseTypeOK, TypeOK
<1> QED
  BY <1>1, <1>2, <1>3, <1>4, <1>5, <1>6, <1>7, <1>8, <1>9, <1>10 DEF ParseNext

\* parsepvd() copies nothing from past the end of the application data, and
\* nothing longer than there is room for, whatever the text on the medium.
THEOREM ParseTypeCorrect == ParseSpec => []ParseTypeOK
<1>1. ParseInv => ParseTypeOK
  BY DEF ParseInv
<1> QED
  BY <1>1, ParseInvInit, ParseInvNext, PTL DEF ParseSpec

-----------------------------------------------------------------------------
(* The parser on whole fields.                                             *)

Tags == DOMAIN TaskOf

Text == AppDataOf(image)

\* The fields of the text, each a cell at the place of its tag.
App == [i \in DOMAIN Text |-> IF IsTag(Text[i]) THEN FieldCell(Text, i) ELSE Space]

\* The field whose tag is at i ends with a semicolon at e.
EndsAt(text, i, e) ==
  /\ e \in (i + 1) .. (APPDATA_SIZE - 1)
  /\ text[e] = Semicolon
  /\ \A j \in (i + 1) .. (e - 1) :
       text[j] # Semicolon /\ text[j] \notin {Space, NUL} /\ ~IsTag(text[j])
  /\ ValueAt(text, i) = [k \in 1 .. (e - 1 - i) |-> text[i + k]]

\* A whole field ends at its semicolon.
LEMMA FieldEnds ==
  ASSUME NEW text, IsSequence(text), NEW i \in 1 .. Len(text), WellFormedField(text, i),
         Len(text) = APPDATA_SIZE \/ i + Len(ValueAt(text, i)) < Len(text)
  PROVE  \E e \in Nat : EndsAt(text, i, e) /\ Len(ValueAt(text, i)) = e - 1 - i /\ e <= Len(text)
<1> DEFINE ends == {j \in (i + 1) .. Len(text) : text[j] = Semicolon} \cup {Len(text) + 1}
           e == CHOOSE j \in ends : \A k \in ends : j <= k
           value == ValueAt(text, i)
<1>1. APPDATA_SIZE \in Nat \ {0} /\ i \in Nat /\ Len(text) \in Nat
  BY ParseConstants DEF IsSequence
<1>2. ends \subseteq Nat /\ ends # {}
  BY <1>1
<1>3. e \in ends /\ \A k \in ends : e <= k
  BY <1>2, LeastNumber
<1>4. value = SubSeq(text, i + 1, e - 1)
  BY DEF ValueAt
<1> HIDE DEF e
<1>5. e \in Nat /\ i + 1 <= e /\ e <= Len(text) + 1
  BY <1>1, <1>3
<1>6. e - 1 - i \in Nat /\ i + (e - 1 - i) = e - 1 /\ i + (e - 1 - i) <= Len(text)
  BY <1>1, <1>5
<1>7. value = [k \in 1 .. (e - 1 - i) |-> text[i + k]] /\ Len(value) = e - 1 - i
  BY <1>1, <1>4, <1>6, SubSequence
<1> HIDE DEF value
<1>8. /\ i + Len(value) + 1 < APPDATA_SIZE
      /\ \A j \in DOMAIN value : ~IsTag(value[j]) /\ value[j] \notin {Space, NUL}
  BY DEF WellFormedField, value
<1>9. e < APPDATA_SIZE
  BY <1>1, <1>5, <1>7, <1>8
<1>10. e <= Len(text)
  <2>1. CASE Len(text) = APPDATA_SIZE
    BY <1>1, <1>5, <1>9, <2>1
  <2>2. CASE i + Len(value) < Len(text)
    BY <1>1, <1>5, <1>7, <2>2
  <2> QED
    BY <2>1, <2>2 DEF value
<1>11. text[e] = Semicolon
  BY <1>1, <1>3, <1>5, <1>10
<1>12. ASSUME NEW j \in (i + 1) .. (e - 1)
       PROVE  text[j] # Semicolon /\ text[j] \notin {Space, NUL} /\ ~IsTag(text[j])
  <2>1. text[j] # Semicolon
    BY <1>1, <1>3, <1>5, <1>10
  <2>2. j - i \in 1 .. (e - 1 - i) /\ i + (j - i) = j
    BY <1>1, <1>5
  <2>3. value[j - i] = text[j] /\ j - i \in DOMAIN value
    BY <1>7, <2>2
  <2> QED
    BY <1>8, <2>1, <2>3
<1>13. e \in (i + 1) .. (APPDATA_SIZE - 1)
  BY <1>1, <1>5, <1>9
<1> QED
  BY <1>5, <1>7, <1>10, <1>11, <1>12, <1>13 DEF EndsAt, value

\* No two kinds of characters are the same.
LEMMA CharactersDiffer ==
  /\ ~IsTag(Semicolon) /\ ~IsTag(Space) /\ ~IsTag(NUL)
  /\ Semicolon # NUL /\ Space # Semicolon /\ Space # NUL
  /\ \A c \in Digits : ~IsTag(c) /\ c # Semicolon /\ c # Space /\ c # NUL
  /\ Space[1] \notin Tags
  /\ \A tag \in Tags : IsTag(<<tag>>)
<1>1. /\ \A c : IsTag(c) => \E tag \in Tags : c = <<tag>>
      /\ \A tag \in Tags : IsTag(<<tag>>)
  BY DEF IsTag, Tags
<1>2. ";" \notin Tags /\ " " \notin Tags /\ "NUL" \notin Tags
  BY DEF Tags, TaskOf
<1>3. ~IsTag(Semicolon) /\ ~IsTag(Space) /\ ~IsTag(NUL)
  <2>1. Semicolon[1] = ";" /\ Space[1] = " " /\ NUL[1] = "NUL"
    BY DEF Semicolon, Space, NUL
  <2>2. \A c : IsTag(c) => c[1] \in Tags
    BY <1>1
  <2> QED
    BY <1>2, <2>1, <2>2
<1>4. Semicolon # NUL /\ Space # Semicolon /\ Space # NUL
  BY DEF Semicolon, Space, NUL
<1>5. ASSUME NEW c \in Digits
      PROVE  ~IsTag(c) /\ c # Semicolon /\ c # Space /\ c # NUL
  <2>1. PICK d \in 0 .. 9 : c = <<"digit", d>>
    BY DEF Digits
  <2>2. Len(c) = 2
    BY <2>1
  <2>3. ASSUME NEW other
        PROVE  Len(<<other>>) = 1
    OBVIOUS
  <2>4. Len(Semicolon) = 1 /\ Len(Space) = 1 /\ Len(NUL) = 1
    BY <2>3 DEF Semicolon, Space, NUL
  <2>5. c # Semicolon /\ c # Space /\ c # NUL
    BY <2>2, <2>4
  <2>6. ~IsTag(c)
    BY <1>1, <2>2, <2>3
  <2> QED
    BY <2>5, <2>6
<1>6. Space[1] \notin Tags
  BY <1>2 DEF Space
<1> QED
  BY <1>1, <1>3, <1>4, <1>5, <1>6

\* The text is as long as the area, on a medium whose descriptor is whole.
LEMMA TextFacts ==
  ASSUME OnMedium, MediaHaveSectors
  PROVE  /\ IsSequence(Text) /\ Len(Text) = APPDATA_SIZE /\ DOMAIN Text = 1 .. APPDATA_SIZE
         /\ Text = [i \in 1 .. APPDATA_SIZE |-> image[AppDataStart(image) + i]]
         /\ StopDescriptors(image) # {} /\ IsSequence(image)
         /\ AppDataStart(image) \in Nat
         /\ AppDataStart(image) + APPDATA_SIZE <= Len(image)
<1>1. /\ IsSequence(image) /\ StopDescriptors(image) # {}
      /\ DescriptorStart(ScanStop(image)) + SECTOR_SIZE <= Len(image)
  BY OnMediumFacts DEF HasDescriptors
<1>2. DescriptorStart(ScanStop(image)) \in Nat /\ AppDataStart(image) \in Nat
  BY <1>1, AppDataStartType
<1>3. AppDataStart(image) + APPDATA_SIZE <= Len(image)
  <2> DEFINE d == DescriptorStart(ScanStop(image))
             n == Len(image)
  <2>1. d \in Nat /\ d + SECTOR_SIZE <= n /\ AppDataStart(image) = d + APPDATA_OFFSET
    BY <1>1, <1>2 DEF AppDataStart
  <2>2. n \in Nat
    BY <1>1 DEF IsSequence
  <2> HIDE DEF d, n
  <2>3. d + APPDATA_OFFSET + APPDATA_SIZE <= n
    BY <2>1, <2>2, Layout
  <2> QED
    BY <2>1, <2>3 DEF n
<1>4. Text = [i \in 1 .. APPDATA_SIZE |-> image[AppDataStart(image) + i]]
  BY <1>1, <1>3, AppDataOfIs DEF Text
<1>5. IsSequence(Text) /\ Len(Text) = APPDATA_SIZE
  BY <1>4, Layout, FunctionIsSequence
<1> QED
  BY <1>1, <1>2, <1>3, <1>4, <1>5

\* A cell is a field where the text has its tag, and nowhere else.
LEMMA AppFacts ==
  ASSUME OnMedium, MediaHaveSectors
  PROVE  /\ IsSequence(App) /\ Len(App) = APPDATA_SIZE
         /\ \A i \in 1 .. APPDATA_SIZE :
              IF IsTag(Text[i])
              THEN App[i][1] = Text[i][1] /\ App[i] = FieldCell(Text, i) /\ Text[i][1] \in Tags
              ELSE App[i][1] \notin Tags
<1>1. /\ DOMAIN Text = 1 .. APPDATA_SIZE
      /\ APPDATA_SIZE \in Nat
  BY TextFacts, ParseConstants
<1>2. App = [i \in 1 .. APPDATA_SIZE |-> IF IsTag(Text[i]) THEN FieldCell(Text, i) ELSE Space]
  BY <1>1 DEF App
<1>3. IsSequence(App) /\ Len(App) = APPDATA_SIZE
  BY <1>1, <1>2, FunctionIsSequence
<1>4. ASSUME NEW i \in 1 .. APPDATA_SIZE
      PROVE  IF IsTag(Text[i])
             THEN App[i][1] = Text[i][1] /\ App[i] = FieldCell(Text, i) /\ Text[i][1] \in Tags
             ELSE App[i][1] \notin Tags
  <2>1. CASE IsTag(Text[i])
    <3>1. App[i] = FieldCell(Text, i)
      BY <1>2, <2>1
    <3>2. FieldCell(Text, i)[1] = Text[i][1]
      BY DEF FieldCell
    <3>3. Text[i][1] \in Tags
      BY <2>1 DEF IsTag, Tags
    <3> QED
      BY <2>1, <3>1, <3>2, <3>3
  <2>2. CASE ~IsTag(Text[i])
    BY <1>2, <2>2, CharactersDiffer
  <2> QED
    BY <2>1, <2>2
<1> QED
  BY <1>3, <1>4

\* The value of the last field with one of the tags, among the first n cells.
LastValue(app, n, tags, default) ==
  LET found == FieldsAt(app, n, tags)
  IN  IF found = {} THEN default
      ELSE app[CHOOSE i \in found : \A j \in found : j <= i][2]

\* The last value is that of the fields seen.
LEMMA SameFields ==
  ASSUME NEW m, NEW n, NEW tags, FieldsAt(App, m, tags) = FieldsAt(App, n, tags), NEW default
  PROVE  LastValue(App, m, tags, default) = LastValue(App, n, tags, default)
BY DEF LastValue

\* After a field, if its semicolon is at e and no tag is in between, it is the
\* last one with its tag, and nothing changed for the others.
LEMMA OneMoreField ==
  ASSUME OnMedium, MediaHaveSectors, NEW n \in Nat, NEW e \in Nat, n < e, e <= APPDATA_SIZE,
         IsTag(Text[n + 1]), \A j \in (n + 2) .. e : ~IsTag(Text[j]),
         NEW m \in (n + 1) .. e
  PROVE  /\ \A tags \in SUBSET Tags :
              /\ Text[n + 1][1] \in tags =>
                   /\ FieldsAt(App, m, tags) = FieldsAt(App, n, tags) \cup {n + 1}
                   /\ \A j \in FieldsAt(App, m, tags) : j <= n + 1
                   /\ (CHOOSE i \in FieldsAt(App, m, tags) :
                         \A j \in FieldsAt(App, m, tags) : j <= i) = n + 1
                   /\ \A default : LastValue(App, m, tags, default) = FieldCell(Text, n + 1)[2]
              /\ Text[n + 1][1] \notin tags =>
                   /\ FieldsAt(App, m, tags) = FieldsAt(App, n, tags)
                   /\ \A default : LastValue(App, m, tags, default) = LastValue(App, n, tags, default)
         /\ TasksIn(App, m) = TasksIn(App, n) \cup {TaskOf[Text[n + 1][1]]}
<1>1. n + 1 \in 1 .. APPDATA_SIZE /\ m \in Nat /\ n + 1 <= m /\ m <= APPDATA_SIZE /\ m <= e
  BY ParseConstants
<1>2. /\ App[n + 1][1] = Text[n + 1][1] /\ App[n + 1] = FieldCell(Text, n + 1)
      /\ Text[n + 1][1] \in Tags
  BY <1>1, AppFacts
<1>3. ASSUME NEW j \in (n + 2) .. m
      PROVE  App[j][1] \notin Tags
  <2>1. j \in 1 .. APPDATA_SIZE /\ j \in (n + 2) .. e
    BY <1>1, ParseConstants
  <2> QED
    BY <2>1, AppFacts
<1>4. \A j \in 1 .. m : j \in 1 .. n \/ j = n + 1 \/ j \in (n + 2) .. m
  BY <1>1
<1>5. \A j \in 1 .. n : j \in 1 .. m
  BY <1>1
<1>6. n + 1 \in 1 .. m
  BY <1>1
<1>7. ASSUME NEW tags \in SUBSET Tags, Text[n + 1][1] \in tags
      PROVE  /\ FieldsAt(App, m, tags) = FieldsAt(App, n, tags) \cup {n + 1}
             /\ \A j \in FieldsAt(App, m, tags) : j <= n + 1
             /\ (CHOOSE i \in FieldsAt(App, m, tags) :
                   \A j \in FieldsAt(App, m, tags) : j <= i) = n + 1
             /\ \A default : LastValue(App, m, tags, default) = FieldCell(Text, n + 1)[2]
  <2> DEFINE found == FieldsAt(App, m, tags)
             last == CHOOSE i \in found : \A j \in found : j <= i
  <2>1. found = FieldsAt(App, n, tags) \cup {n + 1}
    BY <1>2, <1>3, <1>4, <1>5, <1>6, <1>7 DEF FieldsAt
  <2>2. n + 1 \in found /\ \A j \in found : j \in Nat /\ j <= n + 1
    BY <2>1 DEF FieldsAt
  <2>3. \A i \in found : (\A j \in found : j <= i) => i = n + 1
    BY <2>2
  <2>4. last = n + 1
    BY <2>2, <2>3
  <2>5. ASSUME NEW default
        PROVE  LastValue(App, m, tags, default) = FieldCell(Text, n + 1)[2]
    <3>1. LastValue(App, m, tags, default) = App[last][2]
      BY <2>2 DEF LastValue
    <3> QED
      BY <1>2, <2>4, <3>1
  <2> QED
    BY <2>1, <2>2, <2>4, <2>5
<1>8. ASSUME NEW tags \in SUBSET Tags, Text[n + 1][1] \notin tags
      PROVE  /\ FieldsAt(App, m, tags) = FieldsAt(App, n, tags)
             /\ \A default : LastValue(App, m, tags, default) = LastValue(App, n, tags, default)
  <2>1. FieldsAt(App, m, tags) = FieldsAt(App, n, tags)
    BY <1>2, <1>3, <1>4, <1>5, <1>8 DEF FieldsAt
  <2> QED
    BY <2>1 DEF LastValue
<1>9. TasksIn(App, m) = TasksIn(App, n) \cup {TaskOf[Text[n + 1][1]]}
  <2>1. FieldsAt(App, m, Tags) = FieldsAt(App, n, Tags) \cup {n + 1}
    BY <1>2, <1>7
  <2> QED
    BY <1>2, <2>1 DEF TasksIn, Tags
<1> QED
  BY <1>7, <1>8, <1>9

\* A character that begins no tag changes nothing.
LEMMA OneMoreCell ==
  ASSUME OnMedium, MediaHaveSectors, NEW n \in Nat, n + 1 <= APPDATA_SIZE, ~IsTag(Text[n + 1])
  PROVE  /\ \A tags \in SUBSET Tags :
              /\ FieldsAt(App, n + 1, tags) = FieldsAt(App, n, tags)
              /\ \A default : LastValue(App, n + 1, tags, default) = LastValue(App, n, tags, default)
         /\ TasksIn(App, n + 1) = TasksIn(App, n)
<1>1. App[n + 1][1] \notin Tags
  BY AppFacts, ParseConstants
<1>2. \A j \in 1 .. (n + 1) : j \in 1 .. n \/ j = n + 1
  OBVIOUS
<1>3. \A j \in 1 .. n : j \in 1 .. (n + 1)
  OBVIOUS
<1>4. ASSUME NEW tags \in SUBSET Tags
      PROVE  FieldsAt(App, n + 1, tags) = FieldsAt(App, n, tags)
  BY <1>1, <1>2, <1>3 DEF FieldsAt
<1>5. ASSUME NEW tags \in SUBSET Tags, NEW default
      PROVE  LastValue(App, n + 1, tags, default) = LastValue(App, n, tags, default)
  BY <1>4, SameFields
<1>6. TasksIn(App, n + 1) = TasksIn(App, n)
  <2>1. FieldsAt(App, n + 1, Tags) = FieldsAt(App, n, Tags)
    BY <1>4
  <2> QED
    BY <2>1 DEF TasksIn, Tags
<1> QED
  BY <1>4, <1>5, <1>6

\* Once it is filled, the buffer has the text but for its last character.
BufferIsText ==
  /\ buffer = <<>> =>
       /\ index = 0 /\ task = {}
       /\ parsed # "none" => result = "NULL"
  /\ buffer # <<>> =>
       /\ result = "found"
       /\ buffer = [i \in 1 .. APPDATA_SIZE |-> IF i = APPDATA_SIZE THEN NUL ELSE Text[i]]
       /\ volinfo.offset = nbyte
       /\ volinfo.isosize = isosize(image)

\* Of a field in the buffer, what the parser finds of it from behind its tag:
\* the semicolon at e, and what is copied.
LEMMA FieldInBuffer ==
  ASSUME ParseInv, MediaHaveSectors, BufferIsText, Parsing, IsTag(buffer[index + 1]),
         WellFormed(Text)
  PROVE  /\ Text[index + 1] = buffer[index + 1]
         /\ WellFormedField(Text, index + 1)
         /\ \E e \in Nat :
              /\ EndsAt(Text, index + 1, e)
              /\ Len(ValueAt(Text, index + 1)) = e - 2 - index
              /\ \A x \in (index + 1) .. (e - 1) : ToSemicolon(x) = e - 1
              /\ Copied(index + 1, e - 2 - index) = ValueAt(Text, index + 1)
              /\ \A j \in 1 .. e : buffer[j] = Text[j]
<1> DEFINE i == index + 1
<1>1. /\ buffer # <<>> /\ IsSequence(buffer) /\ Len(buffer) = APPDATA_SIZE
      /\ index \in Nat /\ i \in Nat /\ i \in 1 .. APPDATA_SIZE
      /\ APPDATA_SIZE \in Nat \ {0}
  BY ParsingFacts, ParseConstants
<1>2. buffer = [j \in 1 .. APPDATA_SIZE |-> IF j = APPDATA_SIZE THEN NUL ELSE Text[j]]
  BY <1>1 DEF BufferIsText
<1>3. i # APPDATA_SIZE
  BY <1>1, <1>2, CharactersDiffer
<1>4. Text[i] = buffer[i]
  BY <1>1, <1>2, <1>3
<1>5. IsSequence(Text) /\ Len(Text) = APPDATA_SIZE /\ DOMAIN Text = 1 .. APPDATA_SIZE
  BY TextFacts DEF ParseInv
<1>6. WellFormedField(Text, i)
  BY <1>1, <1>4, <1>5 DEF WellFormed
<1>7. PICK e \in Nat : EndsAt(Text, i, e) /\ Len(ValueAt(Text, i)) = e - 1 - i
  BY <1>1, <1>4, <1>5, <1>6, FieldEnds
<1>8. e \in (i + 1) .. (APPDATA_SIZE - 1)
  BY <1>7 DEF EndsAt
<1> HIDE DEF i
<1>9. \A j \in 1 .. e : buffer[j] = Text[j]
  BY <1>1, <1>2, <1>8
<1>10. ASSUME NEW x \in i .. (e - 1)
       PROVE  ToSemicolon(x) = e - 1
  <2> DEFINE q == ToSemicolon(x)
  <2>1. x \in Nat
    BY <1>1
  <2>2. /\ q \in Nat /\ x <= q
        /\ q < APPDATA_SIZE => buffer[q + 1] = Semicolon
        /\ \A j \in x .. (q - 1) : buffer[j + 1] # Semicolon
    BY <1>1, <2>1, NextOfIs DEF ToSemicolon
  <2> HIDE DEF q
  <2>3. buffer[e] = Semicolon
    BY <1>1, <1>7, <1>8, <1>9 DEF EndsAt
  <2>4. q <= e - 1
    <3> SUFFICES ASSUME q > e - 1
                 PROVE  FALSE
      BY <1>1, <1>8, <2>2
    <3>1. e - 1 \in x .. (q - 1) /\ (e - 1) + 1 = e
      BY <1>1, <1>8, <2>1, <2>2
    <3> QED
      BY <2>2, <2>3, <3>1
  <2>5. q + 1 \in (i + 1) .. e /\ q + 1 \in 1 .. e /\ q < APPDATA_SIZE
    BY <1>1, <1>8, <2>1, <2>2, <2>4
  <2>6. Text[q + 1] = Semicolon
    BY <1>9, <2>2, <2>5
  <2>7. q + 1 \notin (i + 1) .. (e - 1)
    BY <1>7, <2>6 DEF EndsAt
  <2>8. q = e - 1
    BY <1>1, <1>8, <2>2, <2>5, <2>7
  <2> QED
    BY <2>8 DEF q
<1>11. Copied(i, e - 1 - i) = ValueAt(Text, i)
  <2>1. e - 1 - i \in Nat /\ i + (e - 1 - i) <= APPDATA_SIZE
    BY <1>1, <1>8
  <2>2. Copied(i, e - 1 - i) = [k \in 1 .. (e - 1 - i) |-> buffer[i + k]]
    BY <1>1, <2>1, CopiedWithin DEF ParseInv
  <2>3. \A k \in 1 .. (e - 1 - i) : i + k \in 1 .. e
    BY <1>1, <1>8
  <2> QED
    BY <1>7, <1>9, <2>2, <2>3 DEF EndsAt
<1>12. e - 1 - i = e - 2 - index
  BY <1>1, <1>8 DEF i
<1> QED
  BY <1>4, <1>6, <1>7, <1>9, <1>10, <1>11, <1>12 DEF i

\* A number that is all of a field is found whole.
LEMMA NumberInBuffer ==
  ASSUME ParseInv, Parsing, NEW text, NEW e \in Nat, EndsAt(text, index + 1, e),
         \A j \in (index + 1) .. e : buffer[j] = text[j],
         ValueAt(text, index + 1) \in Seq(Digits), ValueAt(text, index + 1) # <<>>
  PROVE  /\ NumberAt(index + 1).whole
         /\ NumberAt(index + 1).value = DecimalValue(ValueAt(text, index + 1))
<1> DEFINE i == index + 1
           value == ValueAt(text, i)
           chars == {buffer[k] : k \in DOMAIN buffer}
           Others(S) == chars \ S
           first == NextOf(Others({Space}), i)
           last == NextOf(Others(Digits), first)
           end == NextOf({Semicolon, NUL}, i)
<1>1. /\ buffer # <<>> /\ IsSequence(buffer) /\ Len(buffer) = APPDATA_SIZE
      /\ index \in Nat /\ i \in Nat /\ i \in 1 .. APPDATA_SIZE
      /\ APPDATA_SIZE \in Nat \ {0}
      /\ DOMAIN buffer = 1 .. APPDATA_SIZE
  BY ParsingFacts, ParseConstants DEF IsSequence
<1>2. /\ e \in (i + 1) .. (APPDATA_SIZE - 1) /\ text[e] = Semicolon
      /\ value = [k \in 1 .. (e - 1 - i) |-> text[i + k]]
  BY DEF EndsAt
<1>3. /\ e \in (i + 1) .. (APPDATA_SIZE - 1)
      /\ buffer[e] = Semicolon
      /\ \A j \in i .. e : buffer[j] = text[j]
      /\ Len(value) = e - 1 - i
  <2>1. e - 1 - i \in Nat /\ e \in i .. e
    BY <1>1, <1>2
  <2>2. Len(value) = e - 1 - i
    BY <1>2, <2>1, FunctionIsSequence
  <2> QED
    BY <1>2, <2>1, <2>2
<1> HIDE DEF i, value
<1>4. ASSUME NEW j \in (i + 1) .. (e - 1)
      PROVE  buffer[j] \in Digits
  <2>1. j - i \in 1 .. Len(value) /\ i + (j - i) = j /\ j \in i .. e
    BY <1>1, <1>2, <1>3
  <2>2. value[j - i] \in Digits
    BY <2>1 DEF value, i
  <2> QED
    BY <1>2, <1>3, <2>1, <2>2
<1>5. e > i + 1
  <2>1. Len(value) # 0
    BY DEF value, i
  <2> QED
    BY <1>1, <1>2, <1>3, <2>1
<1>6. first = i
  <2>1. i + 1 \in (i + 1) .. (e - 1) /\ i + 1 \in 1 .. APPDATA_SIZE
    BY <1>1, <1>3, <1>5
  <2>2. buffer[i + 1] \in Others({Space})
    BY <1>1, <1>4, <2>1, CharactersDiffer
  <2>3. first \in Nat /\ i <= first /\ \A j \in i .. (first - 1) : buffer[j + 1] \notin Others({Space})
    BY <1>1, NextOfIs
  <2> HIDE DEF first, Others
  <2> SUFFICES ASSUME i < first
               PROVE  FALSE
    BY <1>1, <2>3
  <2>4. i \in i .. (first - 1)
    BY <1>1, <2>3
  <2> QED
    BY <2>2, <2>3, <2>4
<1>7. ASSUME NEW S, Semicolon \in S, \A j \in (i + 1) .. (e - 1) : buffer[j] \notin S
      PROVE  NextOf(S, i) = e - 1
  <2> DEFINE q == NextOf(S, i)
  <2>1. /\ q \in Nat /\ i <= q /\ q <= MAX(i, APPDATA_SIZE)
        /\ q < APPDATA_SIZE => buffer[q + 1] \in S
        /\ \A j \in i .. (q - 1) : buffer[j + 1] \notin S
    BY <1>1, NextOfIs
  <2> HIDE DEF q
  <2>2. q <= e - 1
    <3> SUFFICES ASSUME q > e - 1
                 PROVE  FALSE
      BY <1>1, <1>3, <2>1
    <3>1. e - 1 \in i .. (q - 1) /\ (e - 1) + 1 = e
      BY <1>1, <1>3, <2>1
    <3> QED
      BY <1>3, <1>7, <2>1, <3>1
  <2>3. q + 1 \notin (i + 1) .. (e - 1)
    BY <1>1, <1>3, <1>7, <2>1, <2>2
  <2>4. q = e - 1
    BY <1>1, <1>3, <2>1, <2>2, <2>3
  <2> QED
    BY <2>4 DEF q
<1>8. last = e - 1
  <2>1. Semicolon \in Others(Digits)
    <3>1. Semicolon \in chars
      BY <1>1, <1>3
    <3>2. Semicolon \notin Digits
      BY CharactersDiffer
    <3> QED
      BY <3>1, <3>2
  <2>2. \A j \in (i + 1) .. (e - 1) : buffer[j] \notin Others(Digits)
    BY <1>4
  <2> HIDE DEF Others, first
  <2> QED
    BY <1>6, <1>7, <2>1, <2>2
<1>9. end = e - 1
  <2>1. \A j \in (i + 1) .. (e - 1) : buffer[j] \notin {Semicolon, NUL}
    BY <1>4, CharactersDiffer
  <2> QED
    BY <1>7, <2>1
<1>10. /\ NumberAt(i).value = DecimalValue(SubSeq(buffer, first + 1, last))
       /\ NumberAt(i).whole = (end = i \/ (first < last /\ last = end))
  BY DEF NumberAt
<1> HIDE DEF first, last, end, Others
<1>11. SubSeq(buffer, first + 1, last) = value
  <2>1. e - 1 - i \in Nat /\ i + (e - 1 - i) = e - 1 /\ i + (e - 1 - i) <= Len(buffer)
    BY <1>1, <1>3
  <2>2. SubSeq(buffer, i + 1, e - 1) = [k \in 1 .. (e - 1 - i) |-> buffer[i + k]]
    BY <1>1, <2>1, SubSequence
  <2>3. \A k \in 1 .. (e - 1 - i) : i + k \in i .. e
    BY <1>1, <1>3
  <2> QED
    BY <1>2, <1>3, <1>6, <1>8, <2>2, <2>3
<1>12. NumberAt(i).whole
  <2>1. first < last /\ last = end
    BY <1>1, <1>3, <1>5, <1>6, <1>8, <1>9
  <2> QED
    BY <1>10, <2>1
<1>13. NumberAt(i).value = DecimalValue(value)
  BY <1>10, <1>11
<1> QED
  BY <1>12, <1>13 DEF i, value

HashTags == {HashTag(alg) : alg \in Algorithms}

\* The place of the last field with one of the tags.
LastField(app, n, tags) ==
  CHOOSE i \in FieldsAt(app, n, tags) : \A j \in FieldsAt(app, n, tags) : j <= i

\* What the parser has of the fields up to where it is.
FieldsRead ==
  /\ index \in 0 .. APPDATA_SIZE
  /\ task = TasksIn(App, index)
  /\ \A m \in 0 .. index :
       TasksIn(App, m) = TASK_DONE => FieldsAt(App, m, Tags) = FieldsAt(App, index, Tags)
  /\ volinfo.skipsectors = LastValue(App, index, {"SKIPSECTORS"}, SKIPSECTORS)
  /\ volinfo.supported = LastValue(App, index, {"RHLISOSTATUS"}, 0)
  /\ volinfo.fragmentsums = LastValue(App, index, {"FRAGMENT SUMS"}, Uninitialized)
  /\ volinfo.fragmentcount = LastValue(App, index, {"FRAGMENT COUNT"}, FRAGMENT_COUNT)
  /\ FieldsAt(App, index, HashTags) # {} =>
       /\ volinfo.hashsum = App[LastField(App, index, HashTags)][2]
       /\ volinfo.algorithm \in Algorithms
       /\ HashTag(volinfo.algorithm) = App[LastField(App, index, HashTags)][1]

\* What it answers when it has ended.
Answered ==
  parsed # "none" =>
    /\ index = APPDATA_SIZE \/ task = TASK_DONE
    /\ parsed = IF {"TASK_HASH", "TASK_SKIP"} \subseteq task THEN "volume_info" ELSE "NULL"

WholeFields == buffer # <<>> /\ WellFormed(Text) => FieldsRead /\ Answered

\* What the proofs about the text on the medium have in common.
TextInv == ParseInv /\ InSearch /\ FindsThePrimary /\ BufferIsText

\* The tags and their bits.
LEMMA TagsAre ==
  /\ HashTags = {"ISO SHA256SUM", "ISO MD5SUM"}
  /\ Tags = HashTags \cup {"SKIPSECTORS", "RHLISOSTATUS", "FRAGMENT SUMS", "FRAGMENT COUNT"}
  /\ \A alg \in Algorithms :
       /\ HashTag(alg) \in HashTags
       /\ \A other \in Algorithms : HashTag(other) = HashTag(alg) => other = alg
  /\ \A tag \in HashTags : TaskOf[tag] = "TASK_HASH"
  /\ TaskOf["SKIPSECTORS"] = "TASK_SKIP"
  /\ TaskOf["RHLISOSTATUS"] = "TASK_SUPPORTED"
  /\ TaskOf["FRAGMENT SUMS"] = "TASK_FRAGSUM"
  /\ TaskOf["FRAGMENT COUNT"] = "TASK_FRAGCOUNT"
BY DEF HashTags, Tags, HashTag, Algorithms, TaskOf

\* The volume_info takes the value of the cell for the field with the tag.
TakesCell(tag, cell) ==
  /\ volinfo'.skipsectors = IF tag = "SKIPSECTORS" THEN cell[2] ELSE volinfo.skipsectors
  /\ volinfo'.supported = IF tag = "RHLISOSTATUS" THEN cell[2] ELSE volinfo.supported
  /\ volinfo'.fragmentsums = IF tag = "FRAGMENT SUMS" THEN cell[2] ELSE volinfo.fragmentsums
  /\ volinfo'.fragmentcount = IF tag = "FRAGMENT COUNT" THEN cell[2] ELSE volinfo.fragmentcount
  /\ volinfo'.hashsum = IF tag \in HashTags THEN cell[2] ELSE volinfo.hashsum
  /\ IF tag \in HashTags
     THEN volinfo'.algorithm \in Algorithms /\ HashTag(volinfo'.algorithm) = tag
     ELSE volinfo'.algorithm = volinfo.algorithm

\* A round that reads a whole field reads what AppData says of it.
LEMMA FieldIsRead ==
  ASSUME TextInv, MediaHaveSectors, FieldsRead, Parsing, WellFormed(Text),
         NEW tag \in Tags, buffer[index + 1] = <<tag>>,
         NEW e \in Nat, EndsAt(Text, index + 1, e), index' = e,
         UNCHANGED <<vars, buffer, parsed>>,
         task' = task \cup {TaskOf[tag]},
         TakesCell(tag, FieldCell(Text, index + 1))
  PROVE  FieldsRead'
<1> DEFINE n == index
           cell == FieldCell(Text, n + 1)
<1>1. /\ n \in Nat /\ n + 1 \in 1 .. APPDATA_SIZE /\ APPDATA_SIZE \in Nat
      /\ task # TASK_DONE /\ OnMedium
  BY ParsingFacts, ParseConstants DEF TextInv, ParseInv, Parsing
<1>2. Text[n + 1] = <<tag>> /\ IsTag(Text[n + 1])
  BY FieldInBuffer, CharactersDiffer DEF TextInv
<1>3. Text[n + 1][1] = tag
  BY <1>2
<1>4. n < e /\ e <= APPDATA_SIZE /\ e \in (n + 1) .. e
  BY <1>1 DEF EndsAt
<1>5. \A j \in (n + 2) .. e : ~IsTag(Text[j])
  <2>1. \A j \in (n + 2) .. e : j \in ((n + 1) + 1) .. (e - 1) \/ j = e
    BY <1>1
  <2> QED
    BY <2>1, CharactersDiffer DEF EndsAt
<1>6. App' = App
  BY DEF vars, App, Text
<1>7. ASSUME NEW m \in (n + 1) .. e
      PROVE  /\ \A tags \in SUBSET Tags :
                  /\ tag \in tags =>
                       /\ FieldsAt(App, m, tags) = FieldsAt(App, n, tags) \cup {n + 1}
                       /\ LastField(App, m, tags) = n + 1
                       /\ \A default : LastValue(App, m, tags, default) = cell[2]
                  /\ tag \notin tags =>
                       /\ FieldsAt(App, m, tags) = FieldsAt(App, n, tags)
                       /\ \A default : LastValue(App, m, tags, default)
                                         = LastValue(App, n, tags, default)
             /\ TasksIn(App, m) = TasksIn(App, n) \cup {TaskOf[tag]}
  <2>1. /\ \A tags \in SUBSET Tags :
             /\ Text[n + 1][1] \in tags =>
                  /\ FieldsAt(App, m, tags) = FieldsAt(App, n, tags) \cup {n + 1}
                  /\ \A j \in FieldsAt(App, m, tags) : j <= n + 1
                  /\ (CHOOSE i \in FieldsAt(App, m, tags) :
                        \A j \in FieldsAt(App, m, tags) : j <= i) = n + 1
                  /\ \A default : LastValue(App, m, tags, default) = FieldCell(Text, n + 1)[2]
             /\ Text[n + 1][1] \notin tags =>
                  /\ FieldsAt(App, m, tags) = FieldsAt(App, n, tags)
                  /\ \A default : LastValue(App, m, tags, default) = LastValue(App, n, tags, default)
        /\ TasksIn(App, m) = TasksIn(App, n) \cup {TaskOf[Text[n + 1][1]]}
    BY <1>1, <1>2, <1>4, <1>5, OneMoreField
  <2> QED
    BY ONLY <1>3, <2>1 DEF LastField
<1>8. task' = TasksIn(App, e)
  BY <1>4, <1>7 DEF FieldsRead
<1>9. ASSUME NEW m \in 0 .. e, TasksIn(App, m) = TASK_DONE
      PROVE  FieldsAt(App, m, Tags) = FieldsAt(App, e, Tags)
  <2>1. CASE m \in 0 .. n
    <3>1. FieldsAt(App, m, Tags) = FieldsAt(App, n, Tags)
      BY <1>9, <2>1 DEF FieldsRead
    <3>2. TasksIn(App, m) = TasksIn(App, n)
      BY <3>1 DEF TasksIn, Tags
    <3> QED
      BY <1>1, <1>9, <3>2 DEF FieldsRead
  <2>2. CASE m \in (n + 1) .. e
    BY <1>4, <1>7, <2>2
  <2> QED
    BY <1>1, <1>4, <2>1, <2>2
<1>10. \A tags \in SUBSET Tags : \A default :
         LastValue(App, e, tags, default)
           = IF tag \in tags THEN cell[2] ELSE LastValue(App, n, tags, default)
  BY <1>4, <1>7
<1>11. /\ {"SKIPSECTORS"} \in SUBSET Tags /\ {"RHLISOSTATUS"} \in SUBSET Tags
       /\ {"FRAGMENT SUMS"} \in SUBSET Tags /\ {"FRAGMENT COUNT"} \in SUBSET Tags
       /\ HashTags \in SUBSET Tags
  BY TagsAre
<1>12. /\ volinfo'.skipsectors = LastValue(App, e, {"SKIPSECTORS"}, SKIPSECTORS)
       /\ volinfo'.supported = LastValue(App, e, {"RHLISOSTATUS"}, 0)
       /\ volinfo'.fragmentsums = LastValue(App, e, {"FRAGMENT SUMS"}, Uninitialized)
       /\ volinfo'.fragmentcount = LastValue(App, e, {"FRAGMENT COUNT"}, FRAGMENT_COUNT)
  BY <1>10, <1>11 DEF FieldsRead, TakesCell
<1>13. FieldsAt(App, e, HashTags) # {} =>
         /\ volinfo'.hashsum = App[LastField(App, e, HashTags)][2]
         /\ volinfo'.algorithm \in Algorithms
         /\ HashTag(volinfo'.algorithm) = App[LastField(App, e, HashTags)][1]
  <2>1. CASE tag \in HashTags
    <3>1. LastField(App, e, HashTags) = n + 1
      BY <1>4, <1>7, <1>11, <2>1
    <3>2. App[n + 1] = cell /\ App[n + 1][1] = tag
      BY <1>1, <1>2, <1>3, AppFacts
    <3> QED
      BY <2>1, <3>1, <3>2 DEF TakesCell
  <2>2. CASE tag \notin HashTags
    <3>1. FieldsAt(App, e, HashTags) = FieldsAt(App, n, HashTags)
      BY <1>4, <1>7, <1>11, <2>2
    <3>2. LastField(App, e, HashTags) = LastField(App, n, HashTags)
      BY <3>1 DEF LastField
    <3> QED
      BY <2>2, <3>1, <3>2 DEF FieldsRead, TakesCell
  <2> QED
    BY <2>1, <2>2
<1>14. index' \in 0 .. APPDATA_SIZE
  BY <1>1, <1>4
<1> QED
  BY <1>6, <1>8, <1>9, <1>12, <1>13, <1>14 DEF FieldsRead

\* A search that has ended goes on no more.
LEMMA ScanIsOver ==
  ASSUME InSearch, result # "none"
  PROVE  ~Scan
BY DEF InSearch, Scan, SeekFails, SkipSystemArea, ReadFails, ReadSector

\* The parser writes to the buffer only once, and no step of it touches the
\* medium or what the search found.
LEMMA BufferStays ==
  ASSUME TextInv, buffer # <<>>, [ParseNext]_parsevars
  PROVE  /\ UNCHANGED <<vars, buffer>>
         /\ volinfo'.offset = volinfo.offset
         /\ volinfo'.isosize = volinfo.isosize
<1>1. volinfo = [f \in VolumeInfoFields |-> volinfo[f]]
  BY DEF TextInv, ParseInv, Filled
<1>2. ASSUME NEW field \in VolumeInfoFields, NEW value, field \notin {"offset", "isosize"},
             volinfo' = [volinfo EXCEPT ![field] = value]
      PROVE  volinfo'.offset = volinfo.offset /\ volinfo'.isosize = volinfo.isosize
  BY <1>1, <1>2 DEF VolumeInfoFields
<1>3. ~Scan /\ ~BeginParse
  BY ScanIsOver DEF TextInv, BufferIsText, BeginParse
<1>4. CASE UNCHANGED volinfo
  BY <1>3, <1>4 DEF ParseNext, parsevars, parsing, NoDescriptor, ReadHash, ReadSkipSectors,
       ReadSupported, ReadFragmentCount, ReadNumber, ReadFragmentSums, PassOver, EndParse,
       ParseReturned, NextRound, Fail
<1>5. ASSUME NEW alg \in Algorithms, ReadHash(alg), ~UNCHANGED volinfo
      PROVE  /\ UNCHANGED <<vars, buffer>>
             /\ volinfo'.offset = volinfo.offset
             /\ volinfo'.isosize = volinfo.isosize
  <2>1. PICK text : volinfo' = [volinfo EXCEPT !.hashsum = text, !.algorithm = alg]
    BY <1>5 DEF ReadHash, Fail
  <2>2. volinfo'.offset = volinfo.offset /\ volinfo'.isosize = volinfo.isosize
    BY <1>1, <2>1 DEF VolumeInfoFields
  <2> QED
    BY <1>5, <2>2 DEF ReadHash, Fail, NextRound
<1>6. CASE ReadSkipSectors /\ ~UNCHANGED volinfo
  <2>1. PICK value : volinfo' = [volinfo EXCEPT !["skipsectors"] = value]
    BY <1>6 DEF ReadSkipSectors, Fail
  <2> QED
    BY <1>2, <1>6, <2>1 DEF ReadSkipSectors, Fail, NextRound, VolumeInfoFields
<1>7. CASE ReadSupported \/ ReadFragmentCount
  <2>1. PICK field \in {"supported", "fragmentcount"} :
          \E value : volinfo' = [volinfo EXCEPT ![field] = value]
    BY <1>7 DEF ReadSupported, ReadFragmentCount, ReadNumber
  <2> QED
    BY <1>2, <1>7, <2>1 DEF ReadSupported, ReadFragmentCount, ReadNumber, NextRound,
                            VolumeInfoFields
<1>8. CASE ReadFragmentSums /\ ~UNCHANGED volinfo
  <2>1. PICK value : volinfo' = [volinfo EXCEPT !["fragmentsums"] = value]
    BY <1>8 DEF ReadFragmentSums, Fail
  <2> QED
    BY <1>2, <1>8, <2>1 DEF ReadFragmentSums, Fail, NextRound, VolumeInfoFields
<1>9. CASE NoDescriptor \/ PassOver \/ EndParse \/ ParseReturned \/ UNCHANGED parsevars
  BY <1>4, <1>9 DEF NoDescriptor, PassOver, EndParse, ParseReturned, parsevars, parsing
<1> QED
  BY <1>3, <1>4, <1>5, <1>6, <1>7, <1>8, <1>9 DEF ParseNext

\* Before the buffer is filled nothing of the parser has happened.
LEMMA BufferIsTextInit == ParseInit => BufferIsText
BY DEF ParseInit, BufferIsText

\* The cells of a sector of the medium.
LEMMA SectorCells ==
  ASSUME NEW img, IsSequence(img), NEW start \in Nat, start + SECTOR_SIZE <= Len(img)
  PROVE  SubSeq(img, start + 1, start + SECTOR_SIZE) = [i \in 1 .. SECTOR_SIZE |-> img[start + i]]
<1>1. \A other : IsSequence(other) =>
        \A at \in Nat, n \in Nat : at + n <= Len(other) =>
          SubSeq(other, at + 1, at + n) = [i \in 1 .. n |-> other[at + i]]
  BY SubSequence
<1>2. \A at \in Nat, n \in Nat : at + n <= Len(img) =>
        SubSeq(img, at + 1, at + n) = [i \in 1 .. n |-> img[at + i]]
  BY <1>1, Zenon
<1>3. SECTOR_SIZE \in Nat
  BY Layout
<1> QED
  BY <1>2, <1>3

\* The buffer is filled from the sector that the search has found.
LEMMA BeginParseReads ==
  ASSUME ParseInv, InSearch, FindsThePrimary, MediaHaveSectors, BufferIsText, BeginParse
  PROVE  BufferIsText'
<1> DEFINE start == DescriptorStart(ScanStop(image))
           filled == [i \in 1 .. APPDATA_SIZE |->
                        IF i = APPDATA_SIZE THEN NUL ELSE sector_buffer[APPDATA_OFFSET + i]]
<1>1. result = "found" /\ buffer' = filled /\ UNCHANGED <<vars, index, task, parsed>>
  BY DEF BeginParse
<1>2. OnMedium
  BY DEF ParseInv
<1>3. /\ Text = [i \in 1 .. APPDATA_SIZE |-> image[AppDataStart(image) + i]]
      /\ IsSequence(image)
      /\ start \in Nat /\ start + SECTOR_SIZE <= Len(image)
  BY <1>2, TextFacts, OnMediumFacts, AppDataStartType DEF HasDescriptors
<1>4. sector_buffer = SubSeq(image, start + 1, start + SECTOR_SIZE)
  BY <1>1 DEF FindsThePrimary
<1>5. sector_buffer = [i \in 1 .. SECTOR_SIZE |-> image[start + i]]
  <2>1. SECTOR_SIZE \in Nat /\ IsSequence(image) /\ start \in Nat /\ start + SECTOR_SIZE <= Len(image)
    BY <1>3, Layout
  <2>2. SubSeq(image, start + 1, start + SECTOR_SIZE) = [i \in 1 .. SECTOR_SIZE |-> image[start + i]]
    BY <2>1, SectorCells
  <2> QED
    BY <1>4, <2>2
<1> HIDE DEF start
<1>6. ASSUME NEW i \in 1 .. APPDATA_SIZE
      PROVE  sector_buffer[APPDATA_OFFSET + i] = Text[i]
  <2>1. APPDATA_OFFSET + i \in 1 .. SECTOR_SIZE
    BY Layout
  <2>2. start + (APPDATA_OFFSET + i) = (start + APPDATA_OFFSET) + i
    BY <1>3, Layout
  <2>3. AppDataStart(image) = start + APPDATA_OFFSET
    BY DEF AppDataStart, start
  <2> QED
    BY <1>3, <1>5, <2>1, <2>2, <2>3
<1>7. filled = [i \in 1 .. APPDATA_SIZE |-> IF i = APPDATA_SIZE THEN NUL ELSE Text[i]]
  BY <1>6
<1>8. Len(filled) = APPDATA_SIZE /\ filled # <<>>
  <2>1. Len(filled) = APPDATA_SIZE
    BY Layout, FunctionIsSequence
  <2> HIDE DEF filled
  <2> QED
    BY <2>1, Layout
<1>9. sector_buffer[SIZE_OFFSET + 1][2] = SectorsOf(image)
  <2>1. SIZE_OFFSET + 1 \in 1 .. SECTOR_SIZE /\ start + (SIZE_OFFSET + 1) = start + SIZE_OFFSET + 1
    BY <1>3, Layout
  <2> QED
    BY <1>5, <2>1 DEF SectorsOf, start
<1>10. volinfo'.offset = nbyte /\ volinfo'.isosize = isosize(image)
  <2>1. /\ volinfo'.offset = nbyte
        /\ volinfo'.isosize = SECTOR_SIZE * sector_buffer[SIZE_OFFSET + 1][2]
    BY DEF BeginParse
  <2> QED
    BY <1>9, <2>1 DEF isosize
<1> HIDE DEF filled
<1>11. UNCHANGED <<image, nbyte, result>> /\ Text' = Text
  BY <1>1 DEF vars, Text
<1> QED
  BY <1>1, <1>7, <1>8, <1>10, <1>11 DEF BufferIsText

\* Every round parses the same text.
LEMMA TextInvNext ==
  ASSUME MediaHaveSectors, TextInv, [ParseNext]_parsevars
  PROVE  TextInv'
<1>1. ParseInv'
  BY ParseInvNext DEF TextInv
<1>2. InSearch' /\ FindsThePrimary'
  BY ParseStepsScan, InSearchNext DEF TextInv, ParseInv
<1>3. CASE buffer # <<>>
  <2>1. /\ UNCHANGED <<vars, buffer>>
        /\ volinfo'.offset = volinfo.offset
        /\ volinfo'.isosize = volinfo.isosize
    BY <1>3, BufferStays
  <2>2. UNCHANGED <<image, nbyte, result, buffer>> /\ Text' = Text /\ isosize(image)' = isosize(image)
    BY <2>1 DEF vars, Text
  <2>3. BufferIsText'
    BY <1>3, <2>1, <2>2 DEF BufferIsText, TextInv
  <2> QED
    BY <1>1, <1>2, <2>3 DEF TextInv
<1>4. CASE buffer = <<>>
  <2>1. index = 0 /\ task = {} /\ (parsed # "none" => result = "NULL")
    BY <1>4 DEF BufferIsText, TextInv
  <2>2. ~Parsing
    BY <1>4, ParsingFacts DEF TextInv
  <2>3. ASSUME BeginParse
        PROVE  BufferIsText'
    BY <2>3, BeginParseReads DEF TextInv
  <2>4. ASSUME Scan
        PROVE  BufferIsText'
    <3>1. result = "none"
      BY <2>4, ScanIsOver DEF TextInv
    <3> QED
      BY <1>4, <2>1, <2>4, <3>1 DEF Scan, parsing, BufferIsText
  <2>5. ASSUME NoDescriptor \/ ParseReturned \/ UNCHANGED parsevars
        PROVE  BufferIsText'
    BY <1>4, <2>1, <2>5 DEF NoDescriptor, ParseReturned, parsevars, parsing, vars, BufferIsText
  <2>6. ASSUME \/ \E alg \in Algorithms : ReadHash(alg)
               \/ ReadSkipSectors \/ ReadSupported \/ ReadFragmentCount \/ ReadFragmentSums
               \/ PassOver \/ EndParse
        PROVE  BufferIsText'
    BY <1>4, <2>2, <2>6 DEF ReadHash, ReadSkipSectors, ReadSupported, ReadFragmentCount,
         ReadNumber, ReadFragmentSums, PassOver, EndParse, At
  <2>7. BufferIsText'
    BY <2>3, <2>4, <2>5, <2>6 DEF ParseNext
  <2> QED
    BY <1>1, <1>2, <2>7 DEF TextInv
<1> QED
  BY <1>3, <1>4

\* At the beginning there is no field, and the defaults are in place.
LEMMA BeginFields ==
  ASSUME TextInv, BeginParse
  PROVE  FieldsRead' /\ Answered'
<1>1. /\ UNCHANGED <<vars, index, task, parsed>>
      /\ buffer = <<>> /\ result = "found"
  BY DEF BeginParse
<1>2. index = 0 /\ task = {} /\ parsed = "none"
  BY <1>1 DEF TextInv, BufferIsText
<1>3. App' = App
  BY <1>1 DEF vars, App, Text
<1>4. \A tags : FieldsAt(App, 0, tags) = {}
  BY DEF FieldsAt
<1>5. TasksIn(App, 0) = {}
  BY <1>4 DEF TasksIn
<1>6. \A tags : \A default : LastValue(App, 0, tags, default) = default
  BY <1>4 DEF LastValue
<1>7. /\ volinfo'.skipsectors = SKIPSECTORS /\ volinfo'.supported = 0
      /\ volinfo'.fragmentsums = Uninitialized /\ volinfo'.fragmentcount = FRAGMENT_COUNT
  BY DEF BeginParse
<1>8. 0 \in 0 .. APPDATA_SIZE /\ \A m \in 0 .. 0 : m = 0
  BY ParseConstants
<1> QED
  BY <1>1, <1>2, <1>3, <1>4, <1>5, <1>6, <1>7, <1>8 DEF FieldsRead, Answered

\* What a round finds where a field begins: where it ends, its characters, and
\* the number they are if they are one.
FieldFound(tag, e) ==
  /\ e \in Nat /\ e \in (index + 2) .. (APPDATA_SIZE - 1)
  /\ EndsAt(Text, index + 1, e)
  /\ Len(ValueAt(Text, index + 1)) = e - 2 - index
  /\ \A x \in (index + 1) .. (e - 1) : ToSemicolon(x) = e - 1
  /\ Copied(index + 1, e - 2 - index) = ValueAt(Text, index + 1)
  /\ tag \in HashTags \cup {"FRAGMENT SUMS"} =>
       FieldCell(Text, index + 1)[2] = ValueAt(Text, index + 1)
  /\ tag = "ISO SHA256SUM" => e - 2 - index = HASH_SIZE
  /\ tag = "ISO MD5SUM" => e - 2 - index = MD5_HASH_SIZE
  /\ tag = "FRAGMENT SUMS" => e - 2 - index <= FRAGMENT_SUM_SIZE
  /\ tag \notin HashTags \cup {"FRAGMENT SUMS"} =>
       /\ NumberAt(index + 1).whole
       /\ NumberAt(index + 1).value = FieldCell(Text, index + 1)[2]

\* Where a field is, all of it is in the buffer.
LEMMA FieldFoundBounds ==
  ASSUME NEW tag, NEW e, FieldFound(tag, e), index \in Nat, APPDATA_SIZE \in Nat
  PROVE  /\ e \in Nat /\ index + 2 <= e /\ e < APPDATA_SIZE
         /\ index + 1 \in (index + 1) .. (e - 1) /\ e - 1 \in (index + 1) .. (e - 1)
         /\ e - 1 < APPDATA_SIZE /\ ~(e - 1 >= APPDATA_SIZE) /\ (e - 1) + 1 = e
         /\ index + 1 + (e - 2 - index) = e - 1
<1>1. e \in Nat /\ e \in (index + 2) .. (APPDATA_SIZE - 1)
  BY DEF FieldFound
<1> QED
  BY <1>1

\* In text of whole fields, a tag begins a whole field.
LEMMA FieldIsFound ==
  ASSUME TextInv, MediaHaveSectors, Parsing, WellFormed(Text),
         NEW tag \in Tags, buffer[index + 1] = <<tag>>
  PROVE  \E e \in Nat : FieldFound(tag, e)
<1> DEFINE value == ValueAt(Text, index + 1)
<1>1. ParseInv /\ BufferIsText /\ IsTag(buffer[index + 1]) /\ index \in Nat
  BY CharactersDiffer, ParsingFacts DEF TextInv
<1>2. PICK e \in Nat :
        /\ EndsAt(Text, index + 1, e)
        /\ Len(value) = e - 2 - index
        /\ \A x \in (index + 1) .. (e - 1) : ToSemicolon(x) = e - 1
        /\ Copied(index + 1, e - 2 - index) = value
        /\ \A j \in 1 .. e : buffer[j] = Text[j]
  BY <1>1, FieldInBuffer
<1>3. Text[index + 1] = <<tag>> /\ WellFormedField(Text, index + 1)
  BY <1>1, FieldInBuffer
<1>4. Text[index + 1][1] = tag
  BY <1>3
<1>5. e \in (index + 2) .. (APPDATA_SIZE - 1)
  <2>1. (index + 1) + 1 = index + 2
    BY <1>1
  <2> QED
    BY <1>2, <2>1 DEF EndsAt
<1>6. FieldCell(Text, index + 1)[2]
        = IF tag \in {"ISO SHA256SUM", "ISO MD5SUM", "FRAGMENT SUMS"}
          THEN value ELSE DecimalValue(value)
  BY <1>4 DEF FieldCell
<1>7. (CASE tag = "ISO SHA256SUM" -> Len(value) = HASH_SIZE
         [] tag = "ISO MD5SUM" -> Len(value) = MD5_HASH_SIZE
         [] tag = "FRAGMENT SUMS" -> Len(value) <= FRAGMENT_SUM_SIZE
         [] OTHER -> value \in Seq(Digits) /\ value # <<>>)
  BY <1>3, <1>4 DEF WellFormedField
<1>8. HashTags \cup {"FRAGMENT SUMS"} = {"ISO SHA256SUM", "ISO MD5SUM", "FRAGMENT SUMS"}
  BY TagsAre
<1> HIDE DEF value
<1>9. /\ tag = "ISO SHA256SUM" => Len(value) = HASH_SIZE
      /\ tag = "ISO MD5SUM" => Len(value) = MD5_HASH_SIZE
      /\ tag = "FRAGMENT SUMS" => Len(value) <= FRAGMENT_SUM_SIZE
      /\ tag \notin HashTags \cup {"FRAGMENT SUMS"} => value \in Seq(Digits) /\ value # <<>>
  BY <1>7, <1>8
<1>10. ASSUME tag \notin HashTags \cup {"FRAGMENT SUMS"}
       PROVE  /\ NumberAt(index + 1).whole
              /\ NumberAt(index + 1).value = FieldCell(Text, index + 1)[2]
  <2>1. value \in Seq(Digits) /\ value # <<>>
    BY <1>9, <1>10
  <2>2. NumberAt(index + 1).whole /\ NumberAt(index + 1).value = DecimalValue(value)
    <3>1. \A j \in (index + 1) .. e : buffer[j] = Text[j]
      BY <1>1, <1>2
    <3> QED
      BY <1>1, <1>2, <2>1, <3>1, NumberInBuffer DEF value
  <2> QED
    BY <1>6, <1>8, <1>10, <2>2
<1> QED
  BY <1>2, <1>5, <1>6, <1>8, <1>9, <1>10 DEF FieldFound, value

\* The rounds that read a field: each takes its value, and ends at its
\* semicolon, so that none of its failures can occur.
LEMMA HashIsRead ==
  ASSUME TextInv, MediaHaveSectors, FieldsRead, WellFormed(Text),
         NEW alg \in Algorithms, ReadHash(alg)
  PROVE  FieldsRead' /\ UNCHANGED parsed
<1> DEFINE tag == HashTag(alg)
<1>1. Parsing /\ buffer[index + 1] = <<tag>>
  BY DEF ReadHash, At
<1>2. tag \in Tags /\ tag \in HashTags
  BY TagsAre
<1>3. PICK e \in Nat : FieldFound(tag, e)
  BY <1>1, <1>2, FieldIsFound
<1>4. /\ index \in Nat /\ volinfo = [f \in VolumeInfoFields |-> volinfo[f]]
      /\ APPDATA_SIZE \in Nat
  BY <1>1, ParsingFacts, ParseConstants DEF TextInv
<1>5. /\ e \in (index + 2) .. (APPDATA_SIZE - 1)
      /\ EndsAt(Text, index + 1, e)
      /\ \A x \in (index + 1) .. (e - 1) : ToSemicolon(x) = e - 1
      /\ Copied(index + 1, e - 2 - index) = FieldCell(Text, index + 1)[2]
      /\ tag = "ISO SHA256SUM" => e - 2 - index = HASH_SIZE
      /\ tag = "ISO MD5SUM" => e - 2 - index = MD5_HASH_SIZE
  BY <1>2, <1>3 DEF FieldFound
<1>6. HashSize(alg) = e - 2 - index
  BY <1>5 DEF HashSize, HashTag
<1>7. /\ index + 1 + HashSize(alg) = e - 1 /\ e - 1 \in (index + 1) .. (e - 1)
      /\ (e - 1) + 1 = e /\ e - 1 < APPDATA_SIZE
  BY <1>3, <1>4, <1>6, FieldFoundBounds
<1>8. HashFits(index + 1, HashSize(alg))
  BY <1>7 DEF HashFits
<1>9. ToSemicolon(index + 1 + HashSize(alg)) = e - 1
  BY <1>5, <1>7
<1>10. /\ volinfo' = [volinfo EXCEPT !.hashsum = FieldCell(Text, index + 1)[2], !.algorithm = alg]
       /\ NextRound(e - 1, task \cup {"TASK_HASH"})
  BY <1>5, <1>6, <1>8, <1>9 DEF ReadHash
<1>11. TakesCell(tag, FieldCell(Text, index + 1))
  <2> DEFINE cell == FieldCell(Text, index + 1)
  <2> HIDE DEF cell
  <2>1. /\ volinfo'.hashsum = cell[2] /\ volinfo'.algorithm = alg
        /\ volinfo'.skipsectors = volinfo.skipsectors
        /\ volinfo'.supported = volinfo.supported
        /\ volinfo'.fragmentsums = volinfo.fragmentsums
        /\ volinfo'.fragmentcount = volinfo.fragmentcount
    BY <1>4, <1>10 DEF VolumeInfoFields, cell
  <2>2. tag \notin {"SKIPSECTORS", "RHLISOSTATUS", "FRAGMENT SUMS", "FRAGMENT COUNT"}
    BY DEF HashTag
  <2> QED
    BY <1>2, <2>1, <2>2 DEF TakesCell, cell
<1>12. task' = task \cup {TaskOf[tag]} /\ index' = e /\ UNCHANGED <<vars, buffer, parsed>>
  BY <1>2, <1>7, <1>10, TagsAre DEF NextRound
<1> HIDE DEF tag
<1> QED
  BY <1>1, <1>2, <1>5, <1>11, <1>12, FieldIsRead

\* The member of a volume_info for a number.
NumberField(tag) ==
  CASE tag = "SKIPSECTORS" -> "skipsectors"
    [] tag = "RHLISOSTATUS" -> "supported"
    [] OTHER -> "fragmentcount"

\* A number of a whole field is read as what it says.
LEMMA NumberIsRead ==
  ASSUME TextInv, MediaHaveSectors, FieldsRead, WellFormed(Text),
         \/ ReadSkipSectors \/ ReadSupported \/ ReadFragmentCount
  PROVE  FieldsRead' /\ UNCHANGED parsed
<1>1. PICK tag \in {"SKIPSECTORS", "RHLISOSTATUS", "FRAGMENT COUNT"} :
        /\ tag = "SKIPSECTORS" => ReadSkipSectors
        /\ tag # "SKIPSECTORS" => ReadNumber(tag, NumberField(tag))
  BY DEF ReadSupported, ReadFragmentCount, NumberField
<1>2. Parsing /\ buffer[index + 1] = <<tag>>
  BY <1>1 DEF ReadSkipSectors, ReadNumber, At
<1>3. tag \in Tags /\ tag \notin HashTags \cup {"FRAGMENT SUMS"}
  BY TagsAre
<1>4. PICK e \in Nat : FieldFound(tag, e)
  BY <1>2, <1>3, FieldIsFound
<1>5. /\ index \in Nat /\ volinfo = [f \in VolumeInfoFields |-> volinfo[f]]
      /\ APPDATA_SIZE \in Nat
  BY <1>2, ParsingFacts, ParseConstants DEF TextInv
<1>6. /\ e \in (index + 2) .. (APPDATA_SIZE - 1)
      /\ EndsAt(Text, index + 1, e)
      /\ \A x \in (index + 1) .. (e - 1) : ToSemicolon(x) = e - 1
      /\ NumberAt(index + 1).whole
      /\ NumberAt(index + 1).value = FieldCell(Text, index + 1)[2]
  BY <1>3, <1>4 DEF FieldFound
<1>7. ToSemicolon(index + 1) = e - 1 /\ e - 1 < APPDATA_SIZE /\ ~(e - 1 >= APPDATA_SIZE)
      /\ (e - 1) + 1 = e
  BY <1>4, <1>5, <1>6, FieldFoundBounds
<1>8. /\ volinfo' = [volinfo EXCEPT ![NumberField(tag)] = FieldCell(Text, index + 1)[2]]
      /\ NextRound(e - 1, task \cup {TaskOf[tag]})
  <2>1. CASE tag = "SKIPSECTORS"
    BY <1>1, <1>6, <1>7, <2>1, TagsAre DEF ReadSkipSectors, NumberField
  <2>2. CASE tag # "SKIPSECTORS"
    BY <1>1, <1>6, <1>7, <2>2 DEF ReadNumber
  <2> QED
    BY <2>1, <2>2
<1>9. TakesCell(tag, FieldCell(Text, index + 1))
  <2> DEFINE cell == FieldCell(Text, index + 1)
  <2> HIDE DEF cell
  <2>1. /\ volinfo'.skipsectors = IF tag = "SKIPSECTORS" THEN cell[2] ELSE volinfo.skipsectors
        /\ volinfo'.supported = IF tag = "RHLISOSTATUS" THEN cell[2] ELSE volinfo.supported
        /\ volinfo'.fragmentcount = IF tag = "FRAGMENT COUNT" THEN cell[2]
                                    ELSE volinfo.fragmentcount
        /\ volinfo'.fragmentsums = volinfo.fragmentsums
        /\ volinfo'.hashsum = volinfo.hashsum
        /\ volinfo'.algorithm = volinfo.algorithm
    BY <1>5, <1>8 DEF VolumeInfoFields, cell, NumberField
  <2>2. tag # "FRAGMENT SUMS" /\ tag \notin HashTags
    BY <1>3
  <2> QED
    BY <2>1, <2>2 DEF TakesCell, cell
<1>10. task' = task \cup {TaskOf[tag]} /\ index' = e /\ UNCHANGED <<vars, buffer, parsed>>
  BY <1>7, <1>8 DEF NextRound
<1> QED
  BY <1>2, <1>3, <1>6, <1>9, <1>10, FieldIsRead

\* The sums of a whole field are read as what they are.
LEMMA SumsAreRead ==
  ASSUME TextInv, MediaHaveSectors, FieldsRead, WellFormed(Text), ReadFragmentSums
  PROVE  FieldsRead' /\ UNCHANGED parsed
<1> DEFINE tag == "FRAGMENT SUMS"
           start == index + 1
           frag_len == MIN(ToSemicolon(start) - start, FRAGMENT_SUM_SIZE)
<1>1. Parsing /\ buffer[index + 1] = <<tag>>
  BY DEF ReadFragmentSums, At
<1>2. tag \in Tags /\ tag \notin HashTags
  BY TagsAre
<1>3. PICK e \in Nat : FieldFound(tag, e)
  BY <1>1, <1>2, FieldIsFound
<1>4. /\ index \in Nat /\ volinfo = [f \in VolumeInfoFields |-> volinfo[f]]
      /\ APPDATA_SIZE \in Nat /\ FRAGMENT_SUM_SIZE \in Nat
  BY <1>1, ParsingFacts, ParseConstants DEF TextInv
<1>5. /\ e \in (index + 2) .. (APPDATA_SIZE - 1)
      /\ EndsAt(Text, index + 1, e)
      /\ \A x \in (index + 1) .. (e - 1) : ToSemicolon(x) = e - 1
      /\ Copied(index + 1, e - 2 - index) = FieldCell(Text, index + 1)[2]
      /\ e - 2 - index <= FRAGMENT_SUM_SIZE
  BY <1>3 DEF FieldFound
<1>6. index + 1 \in (index + 1) .. (e - 1) /\ e - 1 \in (index + 1) .. (e - 1)
  BY <1>4, <1>5
<1>7. frag_len = e - 2 - index
  <2>1. ToSemicolon(start) = e - 1
    BY <1>5, <1>6
  <2>2. (e - 1) - start = e - 2 - index
    BY <1>4, <1>5
  <2> QED
    BY <1>4, <1>5, <2>1, <2>2 DEF MIN
<1>8. start + frag_len = e - 1 /\ ~(start + frag_len >= APPDATA_SIZE) /\ (e - 1) + 1 = e
  BY <1>4, <1>5, <1>7
<1>9. ToSemicolon(start + frag_len) = e - 1
  BY <1>5, <1>6, <1>8
<1>10. /\ volinfo' = [volinfo EXCEPT !.fragmentsums = FieldCell(Text, index + 1)[2]]
       /\ NextRound(e - 1, task \cup {"TASK_FRAGSUM"})
  <2>1. /\ volinfo' = [volinfo EXCEPT !.fragmentsums = Copied(start, frag_len)]
        /\ NextRound(ToSemicolon(start + frag_len), task \cup {"TASK_FRAGSUM"})
    BY <1>8 DEF ReadFragmentSums
  <2> QED
    BY <1>5, <1>7, <1>9, <2>1
<1> HIDE DEF start, frag_len
<1>11. TakesCell(tag, FieldCell(Text, index + 1))
  <2> DEFINE cell == FieldCell(Text, index + 1)
  <2> HIDE DEF cell
  <2>1. /\ volinfo'.fragmentsums = cell[2]
        /\ volinfo'.skipsectors = volinfo.skipsectors
        /\ volinfo'.supported = volinfo.supported
        /\ volinfo'.fragmentcount = volinfo.fragmentcount
        /\ volinfo'.hashsum = volinfo.hashsum
        /\ volinfo'.algorithm = volinfo.algorithm
    BY <1>4, <1>10 DEF VolumeInfoFields, cell
  <2> QED
    BY <1>2, <2>1 DEF TakesCell, cell
<1>12. task' = task \cup {TaskOf[tag]} /\ index' = e /\ UNCHANGED <<vars, buffer, parsed>>
  BY <1>8, <1>10, TagsAre DEF NextRound
<1> QED
  BY <1>1, <1>2, <1>5, <1>11, <1>12, FieldIsRead

\* What is passed over is no field, and the last character is none either.
LEMMA NothingIsPassedOver ==
  ASSUME TextInv, MediaHaveSectors, FieldsRead, WellFormed(Text), PassOver
  PROVE  FieldsRead' /\ UNCHANGED parsed
<1> DEFINE n == index
<1>1. /\ Parsing /\ index' = n + 1 /\ task' = task /\ volinfo' = volinfo /\ parsed' = parsed
      /\ UNCHANGED <<vars, buffer>> /\ ~IsTag(buffer[n + 1])
  BY DEF PassOver, NextRound, IsTag
<1>2. /\ n \in Nat /\ n + 1 <= APPDATA_SIZE /\ buffer # <<>> /\ OnMedium
      /\ APPDATA_SIZE \in Nat
  BY <1>1, ParsingFacts, ParseConstants DEF TextInv, ParseInv
<1>3. ~IsTag(Text[n + 1])
  <2>1. CASE n + 1 = APPDATA_SIZE
    <3> SUFFICES ASSUME IsTag(Text[n + 1])
                 PROVE  FALSE
      OBVIOUS
    <3>1. IsSequence(Text) /\ Len(Text) = APPDATA_SIZE /\ DOMAIN Text = 1 .. APPDATA_SIZE
      BY <1>2, TextFacts
    <3>2. n + 1 \in 1 .. APPDATA_SIZE
      BY <1>2
    <3>3. WellFormedField(Text, n + 1)
      BY <3>1, <3>2 DEF WellFormed
    <3>4. \E e \in Nat : EndsAt(Text, n + 1, e)
      BY <3>1, <3>2, <3>3, FieldEnds
    <3> QED
      BY <1>2, <2>1, <3>4 DEF EndsAt
  <2>2. CASE n + 1 # APPDATA_SIZE
    <3>1. buffer = [j \in 1 .. APPDATA_SIZE |-> IF j = APPDATA_SIZE THEN NUL ELSE Text[j]]
      BY <1>2 DEF TextInv, BufferIsText
    <3> QED
      BY <1>1, <1>2, <2>2, <3>1
  <2> QED
    BY <2>1, <2>2
<1>4. /\ \A tags \in SUBSET Tags :
           /\ FieldsAt(App, n + 1, tags) = FieldsAt(App, n, tags)
           /\ \A default : LastValue(App, n + 1, tags, default) = LastValue(App, n, tags, default)
      /\ TasksIn(App, n + 1) = TasksIn(App, n)
  BY <1>2, <1>3, OneMoreCell
<1>5. App' = App
  BY <1>1 DEF vars, App, Text
<1>6. ASSUME NEW m \in 0 .. (n + 1), TasksIn(App, m) = TASK_DONE
      PROVE  FieldsAt(App, m, Tags) = FieldsAt(App, n + 1, Tags)
  <2>1. m \in 0 .. n \/ m = n + 1
    BY <1>2
  <2> QED
    BY <1>4, <1>6, <2>1 DEF FieldsRead
<1>7. /\ {"SKIPSECTORS"} \in SUBSET Tags /\ {"RHLISOSTATUS"} \in SUBSET Tags
      /\ {"FRAGMENT SUMS"} \in SUBSET Tags /\ {"FRAGMENT COUNT"} \in SUBSET Tags
      /\ HashTags \in SUBSET Tags
  BY TagsAre
<1>8. FieldsAt(App, n + 1, HashTags) = FieldsAt(App, n, HashTags)
      /\ LastField(App, n + 1, HashTags) = LastField(App, n, HashTags)
  <2>1. FieldsAt(App, n + 1, HashTags) = FieldsAt(App, n, HashTags)
    BY <1>4, <1>7
  <2> QED
    BY <2>1 DEF LastField
<1>9. n + 1 \in 0 .. APPDATA_SIZE
  BY <1>2
<1> QED
  BY <1>1, <1>4, <1>5, <1>6, <1>7, <1>8, <1>9 DEF FieldsRead

\* Every round reads one field more.
LEMMA WholeFieldsNext ==
  ASSUME MediaHaveSectors, TextInv, WholeFields, [ParseNext]_parsevars
  PROVE  WholeFields'
<1> SUFFICES ASSUME buffer' # <<>>, WellFormed(Text)'
             PROVE  FieldsRead' /\ Answered'
  BY DEF WholeFields
<1>1. CASE buffer = <<>>
  <2>1. BeginParse
    <3>1. ~Parsing
      BY <1>1, ParsingFacts DEF TextInv
    <3>2. UNCHANGED buffer \/ BeginParse
      BY DEF ParseNext, parsevars, parsing, Scan, NoDescriptor, ReadHash, ReadSkipSectors,
             ReadSupported, ReadFragmentCount, ReadNumber, ReadFragmentSums, PassOver, EndParse,
             ParseReturned, NextRound, Fail
    <3> QED
      BY <1>1, <3>2
  <2> QED
    BY <2>1, BeginFields
<1>2. CASE buffer # <<>>
  <2>1. UNCHANGED <<vars, buffer>>
    BY <1>2, BufferStays
  <2>2. Text' = Text /\ App' = App
    BY <2>1 DEF vars, Text, App
  <2>3. WellFormed(Text)
    BY <2>1 DEF vars, Text
  <2>4. FieldsRead /\ Answered /\ result = "found"
    BY <1>2, <2>3 DEF WholeFields, TextInv, BufferIsText
  <2>5. ~Scan /\ ~NoDescriptor /\ ~BeginParse
    BY <1>2, <2>4, ScanIsOver DEF TextInv, NoDescriptor, BeginParse
  <2>6. ASSUME FieldsRead', UNCHANGED parsed, parsed = "none"
        PROVE  FieldsRead' /\ Answered'
    BY <2>6 DEF Answered
  <2>7. Parsing => parsed = "none"
    BY DEF Parsing
  <2>8. ASSUME NEW alg \in Algorithms, ReadHash(alg)
        PROVE  FieldsRead' /\ Answered'
    <3>1. Parsing
      BY <2>8 DEF ReadHash, At
    <3>2. FieldsRead' /\ UNCHANGED parsed
      BY <2>3, <2>4, <2>8, HashIsRead
    <3> QED
      BY <2>6, <2>7, <3>1, <3>2
  <2>9. ASSUME ReadSkipSectors \/ ReadSupported \/ ReadFragmentCount
        PROVE  FieldsRead' /\ Answered'
    <3>1. Parsing
      BY <2>9 DEF ReadSkipSectors, ReadSupported, ReadFragmentCount, ReadNumber, At
    <3>2. FieldsRead' /\ UNCHANGED parsed
      BY <2>3, <2>4, <2>9, NumberIsRead
    <3> QED
      BY <2>6, <2>7, <3>1, <3>2
  <2>10. ASSUME ReadFragmentSums
         PROVE  FieldsRead' /\ Answered'
    <3>1. Parsing
      BY <2>10 DEF ReadFragmentSums, At
    <3>2. FieldsRead' /\ UNCHANGED parsed
      BY <2>3, <2>4, <2>10, SumsAreRead
    <3> QED
      BY <2>6, <2>7, <3>1, <3>2
  <2>11. ASSUME PassOver
         PROVE  FieldsRead' /\ Answered'
    <3>1. Parsing
      BY <2>11 DEF PassOver
    <3>2. FieldsRead' /\ UNCHANGED parsed
      BY <2>3, <2>4, <2>11, NothingIsPassedOver
    <3> QED
      BY <2>6, <2>7, <3>1, <3>2
  <2>12. ASSUME UNCHANGED <<index, task, volinfo>>
         PROVE  FieldsRead'
    BY <2>2, <2>4, <2>12 DEF FieldsRead
  <2>13. ASSUME EndParse
         PROVE  FieldsRead' /\ Answered'
    <3>1. UNCHANGED <<index, task, volinfo>>
      BY <2>13 DEF EndParse
    <3>2. index = APPDATA_SIZE \/ task = TASK_DONE
      <4>1. index \in 0 .. APPDATA_SIZE /\ APPDATA_SIZE \in Nat
        BY <2>4, ParseConstants DEF FieldsRead
      <4>2. index >= APPDATA_SIZE \/ task = TASK_DONE
        BY <2>13 DEF EndParse
      <4>3. index >= APPDATA_SIZE => index = APPDATA_SIZE
        BY <4>1
      <4> QED
        BY <4>2, <4>3
    <3> QED
      BY <2>12, <2>13, <3>1, <3>2 DEF EndParse, Answered
  <2>14. ASSUME ParseReturned \/ UNCHANGED parsevars
         PROVE  FieldsRead' /\ Answered'
    <3>1. UNCHANGED <<index, task, volinfo, parsed>>
      BY <2>14 DEF ParseReturned, parsevars, parsing
    <3> QED
      BY <2>4, <2>12, <3>1 DEF Answered
  <2> QED
    BY <2>5, <2>8, <2>9, <2>10, <2>11, <2>13, <2>14 DEF ParseNext
<1> QED
  BY <1>1, <1>2

-----------------------------------------------------------------------------
(* What the fields say when all of them were read.                         *)

\* The offsets of the descriptors fit an int64_t.
OffsetsFit == \A m \in Media : PvdOffset(m.image) < INT64_MODULUS

\* The image with a cell for each field is the same volume.
LEMMA FieldsImage ==
  ASSUME OnMedium, MediaHaveSectors
  PROVE  /\ AppDataOf(AsFields) = App
         /\ PvdOffset(AsFields) = PvdOffset(image)
         /\ isosize(AsFields) = isosize(image)
         /\ HasPrimary(AsFields, unreadable) <=> HasPrimary(image, unreadable)
<1>1. AsFields = WriteAt(image, AppDataStart(image), App)
  BY DEF AsFields, App, Text
<1>2. /\ StopDescriptors(image) # {} /\ IsSequence(image)
      /\ AppDataStart(image) \in Nat
      /\ AppDataStart(image) + APPDATA_SIZE <= Len(image)
  BY TextFacts
<1>3. IsSequence(App) /\ Len(App) = APPDATA_SIZE
  BY AppFacts
<1>4. App = [i \in 1 .. APPDATA_SIZE |-> App[i]]
  BY <1>3 DEF IsSequence
<1> HIDE DEF App
<1>5. AppDataOf(AsFields) = App
  BY <1>1, <1>2, <1>4, WrittenAppData
<1>6. SameOutside(image, AsFields)
  <2>1. Len(App) \in 0 .. APPDATA_SIZE
    BY <1>3, ParseConstants
  <2> QED
    BY <1>1, <1>2, <2>1, WriteAppDataSame
<1>7. AppDataStart(image) < Len(image)
  BY <1>2, ParseConstants DEF IsSequence
<1> QED
  BY <1>2, <1>5, <1>6, <1>7, SameVolume

\* Where the loop left off is where AppData says it does, or no field is in
\* between.
LEMMA EndOfFields ==
  ASSUME OnMedium, MediaHaveSectors, FieldsRead, index = APPDATA_SIZE \/ task = TASK_DONE
  PROVE  /\ \A tags \in SUBSET Tags :
              FieldsAt(App, ParseEnd(App), tags) = FieldsAt(App, index, tags)
         /\ TasksIn(App, ParseEnd(App)) = task
<1> DEFINE Ends(n) == /\ TasksIn(App, n) = TASK_DONE \/ n = Len(App)
                      /\ \A m \in 0 .. (n - 1) : TasksIn(App, m) # TASK_DONE
           ends == {n \in 0 .. Len(App) : TasksIn(App, n) = TASK_DONE \/ n = Len(App)}
           e == ParseEnd(App)
<1>1. Len(App) = APPDATA_SIZE /\ APPDATA_SIZE \in Nat
  BY AppFacts, ParseConstants
<1>2. ends \subseteq Nat /\ APPDATA_SIZE \in ends
  BY <1>1
<1>3. PICK least \in ends : \A n \in ends : least <= n
  BY <1>2, LeastNumber
<1>4. \A m \in 0 .. (least - 1) : TasksIn(App, m) # TASK_DONE
  <2> SUFFICES ASSUME NEW m \in 0 .. (least - 1), TasksIn(App, m) = TASK_DONE
               PROVE  FALSE
    OBVIOUS
  <2>1. least \in Nat /\ least <= APPDATA_SIZE
    BY <1>1, <1>3
  <2>2. m \in ends /\ m < least
    BY <1>1, <2>1
  <2> QED
    BY <1>3, <2>1, <2>2
<1>5. least \in 0 .. Len(App) /\ Ends(least)
  BY <1>3, <1>4
<1>6. e \in 0 .. Len(App) /\ Ends(e)
  <2>1. e = CHOOSE n \in 0 .. Len(App) : Ends(n)
    BY DEF ParseEnd
  <2> HIDE DEF Ends, e
  <2> QED
    BY <1>5, <2>1
<1> HIDE DEF e
<1>7. index \in 0 .. APPDATA_SIZE /\ task = TasksIn(App, index)
  BY DEF FieldsRead
<1>8. e \in Nat /\ e <= index
  <2>1. CASE index = APPDATA_SIZE
    BY <1>1, <1>6, <2>1
  <2>2. CASE TasksIn(App, index) = TASK_DONE
    <3>1. index \notin 0 .. (e - 1)
      BY <1>6, <2>2
    <3> QED
      BY <1>1, <1>6, <1>7, <3>1
  <2> QED
    BY <1>7, <2>1, <2>2
<1>9. FieldsAt(App, e, Tags) = FieldsAt(App, index, Tags)
  <2>1. CASE TasksIn(App, e) = TASK_DONE
    <3>1. e \in 0 .. index
      BY <1>7, <1>8
    <3> QED
      BY <2>1, <3>1 DEF FieldsRead
  <2>2. CASE TasksIn(App, e) # TASK_DONE
    <3>1. e = index
      BY <1>1, <1>6, <1>7, <1>8, <2>2
    <3> QED
      BY <3>1
  <2> QED
    BY <2>1, <2>2
<1>10. ASSUME NEW tags \in SUBSET Tags
       PROVE  FieldsAt(App, e, tags) = FieldsAt(App, index, tags)
  <2>1. \A n : FieldsAt(App, n, tags) = {i \in FieldsAt(App, n, Tags) : App[i][1] \in tags}
    BY DEF FieldsAt
  <2> QED
    BY <1>9, <2>1
<1>11. TasksIn(App, e) = task
  BY <1>7, <1>9 DEF TasksIn, Tags
<1> QED
  BY <1>10, <1>11 DEF e

\* A hash was among the fields if its task is completed.
LEMMA HashAmongFields ==
  ASSUME NEW n, "TASK_HASH" \in TasksIn(App, n)
  PROVE  FieldsAt(App, n, HashTags) # {}
<1>1. PICK i \in FieldsAt(App, n, Tags) : TaskOf[App[i][1]] = "TASK_HASH"
  BY DEF TasksIn, Tags
<1>2. App[i][1] \in Tags
  BY <1>1 DEF FieldsAt
<1>3. App[i][1] \in HashTags
  BY <1>1, <1>2, TagsAre
<1> QED
  BY <1>1, <1>3 DEF FieldsAt

\* The offset is that of IsoLayout, and not only in the width of the variable.
LEMMA OffsetIsWhole ==
  ASSUME OnMedium, MediaHaveSectors, PowersOfSectorSize, OffsetsFit, OffsetIsPvdOffset,
         result = "found"
  PROVE  nbyte = PvdOffset(image)
<1>1. PvdOffset(image) < INT64_MODULUS
  BY DEF OnMedium, OffsetsFit
<1>2. ScanStop(image) \in Nat
  BY OnMediumFacts, ScanStopIsLeast DEF HasDescriptors
<1>3. SECTOR_SIZE ^ ScanStop(image) \in Nat
  BY <1>2 DEF PowersOfSectorSize
<1>4. PvdOffset(image) \in Nat
  BY <1>3, ScanConstants, ProductType DEF PvdOffset
<1>5. PvdOffset(image) % INT64_MODULUS = PvdOffset(image)
  BY <1>1, <1>4, ScanConstants
<1> QED
  BY <1>5 DEF OffsetIsPvdOffset

\* The volume_info has what AppData says of the fields.
LEMMA VolumeInfoIsRead ==
  ASSUME TextInv, MediaHaveSectors, PowersOfSectorSize, OffsetsFit, OffsetIsPvdOffset,
         buffer # <<>>, FieldsRead, index = APPDATA_SIZE \/ task = TASK_DONE,
         "TASK_HASH" \in task
  PROVE  volinfo = VolumeInfo(AsFields)
<1> DEFINE end == ParseEnd(App)
           hashes == FieldsAt(App, end, HashTags)
           hash == App[CHOOSE i \in hashes : \A j \in hashes : j <= i]
<1>1. OnMedium /\ result = "found" /\ volinfo = [f \in VolumeInfoFields |-> volinfo[f]]
  BY DEF TextInv, ParseInv, BufferIsText, Filled
<1>2. /\ AppDataOf(AsFields) = App
      /\ PvdOffset(AsFields) = PvdOffset(image)
      /\ isosize(AsFields) = isosize(image)
  BY <1>1, FieldsImage
<1>3. volinfo.offset = PvdOffset(AsFields) /\ volinfo.isosize = isosize(AsFields)
  <2>1. nbyte = PvdOffset(image)
    BY <1>1, OffsetIsWhole
  <2> QED
    BY <1>2, <2>1 DEF TextInv, BufferIsText
<1>4. \A tags \in SUBSET Tags : FieldsAt(App, end, tags) = FieldsAt(App, index, tags)
  BY <1>1, EndOfFields
<1>5. /\ {"SKIPSECTORS"} \in SUBSET Tags /\ {"RHLISOSTATUS"} \in SUBSET Tags
      /\ {"FRAGMENT SUMS"} \in SUBSET Tags /\ {"FRAGMENT COUNT"} \in SUBSET Tags
      /\ HashTags \in SUBSET Tags
  BY TagsAre
<1> HIDE DEF end
<1>6. ASSUME NEW tags \in SUBSET Tags, NEW default
      PROVE  LastValue(App, end, tags, default) = LastValue(App, index, tags, default)
  <2>1. FieldsAt(App, end, tags) = FieldsAt(App, index, tags)
    BY <1>4
  <2> QED
    BY <2>1, SameFields
<1>7. \A tags : \A default : FieldValue(App, tags, default) = LastValue(App, end, tags, default)
  BY DEF FieldValue, LastValue, end
<1>8. /\ volinfo.skipsectors = FieldValue(App, {"SKIPSECTORS"}, SKIPSECTORS)
      /\ volinfo.supported = FieldValue(App, {"RHLISOSTATUS"}, 0)
      /\ volinfo.fragmentsums = FieldValue(App, {"FRAGMENT SUMS"}, Uninitialized)
      /\ volinfo.fragmentcount = FieldValue(App, {"FRAGMENT COUNT"}, FRAGMENT_COUNT)
  <2>1. \A tags \in SUBSET Tags : \A default :
          FieldValue(App, tags, default) = LastValue(App, index, tags, default)
    BY <1>6, <1>7
  <2>2. /\ FieldValue(App, {"SKIPSECTORS"}, SKIPSECTORS)
             = LastValue(App, index, {"SKIPSECTORS"}, SKIPSECTORS)
        /\ FieldValue(App, {"RHLISOSTATUS"}, 0) = LastValue(App, index, {"RHLISOSTATUS"}, 0)
    BY ONLY <1>5, <2>1
  <2>3. /\ FieldValue(App, {"FRAGMENT SUMS"}, Uninitialized)
             = LastValue(App, index, {"FRAGMENT SUMS"}, Uninitialized)
        /\ FieldValue(App, {"FRAGMENT COUNT"}, FRAGMENT_COUNT)
             = LastValue(App, index, {"FRAGMENT COUNT"}, FRAGMENT_COUNT)
    BY ONLY <1>5, <2>1
  <2> QED
    BY <2>2, <2>3 DEF FieldsRead
<1>9. FieldsAt(App, index, HashTags) # {}
  BY HashAmongFields DEF FieldsRead
<1>10. hash = App[LastField(App, index, HashTags)]
  BY <1>4, <1>5 DEF LastField
<1> HIDE DEF hash
<1>11. /\ volinfo.hashsum = hash[2]
       /\ volinfo.algorithm \in Algorithms
       /\ HashTag(volinfo.algorithm) = hash[1]
  BY <1>9, <1>10 DEF FieldsRead
<1>12. volinfo.algorithm = CHOOSE a \in Algorithms : HashTag(a) = hash[1]
  <2>1. \A a \in Algorithms : HashTag(a) = hash[1] => a = volinfo.algorithm
    BY <1>11, TagsAre
  <2> QED
    BY <1>11, <2>1
<1>13. VolumeInfo(AsFields) =
         [hashsum       |-> hash[2],
          algorithm     |-> CHOOSE a \in Algorithms : HashTag(a) = hash[1],
          skipsectors   |-> FieldValue(App, {"SKIPSECTORS"}, SKIPSECTORS),
          supported     |-> FieldValue(App, {"RHLISOSTATUS"}, 0),
          fragmentsums  |-> FieldValue(App, {"FRAGMENT SUMS"}, Uninitialized),
          fragmentcount |-> FieldValue(App, {"FRAGMENT COUNT"}, FRAGMENT_COUNT),
          offset        |-> PvdOffset(AsFields),
          isosize       |-> isosize(AsFields)]
  BY <1>2 DEF VolumeInfo, hash, end, HashTags
<1>14. volinfo =
         [hashsum       |-> volinfo.hashsum,
          algorithm     |-> volinfo.algorithm,
          skipsectors   |-> volinfo.skipsectors,
          supported     |-> volinfo.supported,
          fragmentsums  |-> volinfo.fragmentsums,
          fragmentcount |-> volinfo.fragmentcount,
          offset        |-> volinfo.offset,
          isosize       |-> volinfo.isosize]
  BY ONLY <1>1 DEF VolumeInfoFields
<1> QED
  BY <1>3, <1>8, <1>11, <1>12, <1>13, <1>14

\* So in the end all fields are read, and the result is what AppData says.
LEMMA ParsesFieldsHolds ==
  ASSUME MediaHaveSectors, PowersOfSectorSize, OffsetsFit,
         TextInv, WholeFields, OffsetIsPvdOffset
  PROVE  ParsesFields
<1> SUFFICES ASSUME parsed # "none", buffer # <<>>, WellFormed(Text)
             PROVE  /\ (parsed = "volume_info") = HasVolumeInfo(AsFields, unreadable)
                    /\ parsed = "volume_info" => volinfo = VolumeInfo(AsFields)
  BY DEF ParsesFields, Text
<1>1. FieldsRead /\ Answered /\ result = "found" /\ OnMedium
  BY DEF WholeFields, TextInv, BufferIsText, ParseInv
<1>2. /\ index = APPDATA_SIZE \/ task = TASK_DONE
      /\ parsed = IF {"TASK_HASH", "TASK_SKIP"} \subseteq task THEN "volume_info" ELSE "NULL"
  BY <1>1 DEF Answered
<1>3. HasPrimary(AsFields, unreadable) /\ AppDataOf(AsFields) = App
  BY <1>1, FieldsImage DEF TextInv, FindsThePrimary
<1>4. Parsable(App) <=> {"TASK_HASH", "TASK_SKIP"} \subseteq task
  BY <1>1, <1>2, EndOfFields DEF Parsable
<1>5. (parsed = "volume_info") = HasVolumeInfo(AsFields, unreadable)
  BY <1>2, <1>3, <1>4 DEF HasVolumeInfo, Parsable
<1>6. parsed = "volume_info" => "TASK_HASH" \in task
  BY <1>2
<1>7. parsed = "volume_info" => volinfo = VolumeInfo(AsFields)
  BY <1>1, <1>2, <1>6, VolumeInfoIsRead
<1> QED
  BY <1>5, <1>7

\* utilities.c: "Find the primary volume descriptor and return parsed
\* information from it."  From every text of whole fields, in any order, with
\* any of them missing or repeated, parsepvd() takes what AppData says of the
\* fields: the modules of the tools may take its result from there.
THEOREM ParsesWholeFields ==
  ASSUME MediaHaveSectors, PowersOfSectorSize, OffsetsFit
  PROVE  ParseSpec => []ParsesFields
<1> DEFINE I == TextInv /\ WholeFields /\ OffsetInStep /\ OffsetIsPvdOffset
<1>1. ParseInit => I
  <2> SUFFICES ASSUME ParseInit
               PROVE  I
    OBVIOUS
  <2>1. Init /\ buffer = <<>>
    BY DEF ParseInit
  <2>2. ParseInv /\ InSearch /\ FindsThePrimary /\ BufferIsText
    BY <2>1, ParseInvInit, InSearchInit, OnMediumInit, BufferIsTextInit
  <2>3. OffsetInStep /\ OffsetIsPvdOffset
    BY <2>1 DEF Init, OffsetInStep, OffsetIsPvdOffset
  <2> QED
    BY <2>1, <2>2, <2>3 DEF TextInv, WholeFields
<1>2. I /\ [ParseNext]_parsevars => I'
  <2> SUFFICES ASSUME I, [ParseNext]_parsevars
               PROVE  I'
    OBVIOUS
  <2>1. TextInv' /\ WholeFields'
    BY TextInvNext, WholeFieldsNext
  <2>2. OnMedium /\ InSearch /\ [Next]_vars
    BY ParseStepsScan DEF TextInv, ParseInv
  <2>3. OffsetInStep' /\ OffsetIsPvdOffset'
    BY <2>2, OffsetInStepNext
  <2> QED
    BY <2>1, <2>3
<1>3. I => ParsesFields
  BY ParsesFieldsHolds
<1> QED
  BY <1>1, <1>2, <1>3, PTL DEF ParseSpec

-----------------------------------------------------------------------------
(* The parser on a torn certificate.                                       *)

\* What the parser has of a certificate of which n characters were written: the
\* number of sectors only if all of its field was written, and the hash if it was.
TornRead ==
  buffer # <<>> =>
    \A text \in Certificates : \A n \in 0 .. Len(text), i \in 1 .. Len(text) :
      \A e \in (i + 1) .. Len(text) :
        Text = Torn(text, n) /\ EndsAt(text, i, e) =>
          /\ text[i] = <<"SKIPSECTORS">> /\ "TASK_SKIP" \in task =>
               e <= n /\ volinfo.skipsectors = DecimalValue(ValueAt(text, i))
          /\ text[i] \in {<<tag>> : tag \in HashTags} /\ "TASK_HASH" \in task /\ e <= n =>
               /\ volinfo.hashsum = ValueAt(text, i)
               /\ volinfo.algorithm \in Algorithms
               /\ text[i] = <<HashTag(volinfo.algorithm)>>

\* parsepvd() has both tasks when it returns a volume_info.
BothTasks ==
  parsed = "volume_info" => buffer # <<>> /\ {"TASK_HASH", "TASK_SKIP"} \subseteq task

\* What the theorem about torn certificates asks of them.
CertificatesAreWhole == \A text \in Certificates : WholeCertificate(text)

\* The buffer on a torn certificate: what was written, blanks, and the NUL.
LEMMA TornBuffer ==
  ASSUME BufferIsText, buffer # <<>>, NEW text \in Certificates, NEW n \in 0 .. Len(text),
         Text = Torn(text, n)
  PROVE  /\ IsSequence(text) /\ n \in Nat /\ n <= Len(text) /\ Len(text) <= APPDATA_SIZE
         /\ \A j \in 1 .. n : j < APPDATA_SIZE => buffer[j] = text[j]
         /\ \A j \in (n + 1) .. (APPDATA_SIZE - 1) : buffer[j] = Space
         /\ buffer[APPDATA_SIZE] = NUL
<1>1. text \in Seq(Cell) /\ Len(text) <= APPDATA_SIZE /\ APPDATA_SIZE \in Nat \ {0}
  BY ParseAssumption, ParseConstants DEF ParseAssumption
<1>2. IsSequence(text) /\ Len(text) \in Nat
  BY <1>1, SeqIsSequence
<1>3. buffer = [j \in 1 .. APPDATA_SIZE |-> IF j = APPDATA_SIZE THEN NUL ELSE Text[j]]
  BY DEF BufferIsText
<1>4. \A j \in 1 .. APPDATA_SIZE :
        Text[j] = IF j <= n /\ j <= Len(text) THEN text[j] ELSE Space
  BY DEF Torn
<1>5. \A j \in 1 .. n : j < APPDATA_SIZE => buffer[j] = text[j]
  BY <1>1, <1>2, <1>3, <1>4
<1>6. \A j \in (n + 1) .. (APPDATA_SIZE - 1) : buffer[j] = Space
  BY <1>1, <1>2, <1>3, <1>4
<1>7. buffer[APPDATA_SIZE] = NUL
  BY <1>1, <1>3
<1> QED
  BY <1>1, <1>2, <1>5, <1>6, <1>7

\* A field is read only where its tag was written.
LEMMA TornTag ==
  ASSUME ParseInv, BufferIsText, Parsing, NEW text \in Certificates, NEW n \in 0 .. Len(text),
         Text = Torn(text, n), NEW tag \in Tags, buffer[index + 1] = <<tag>>
  PROVE  index + 1 \in 1 .. n /\ index + 1 \in 1 .. Len(text) /\ text[index + 1] = <<tag>>
<1>1. /\ buffer # <<>> /\ index \in Nat /\ index + 1 <= APPDATA_SIZE /\ APPDATA_SIZE \in Nat
  BY ParsingFacts, ParseConstants
<1>2. /\ n \in Nat /\ n <= Len(text) /\ Len(text) \in Nat
      /\ \A j \in 1 .. n : j < APPDATA_SIZE => buffer[j] = text[j]
      /\ \A j \in (n + 1) .. (APPDATA_SIZE - 1) : buffer[j] = Space
      /\ buffer[APPDATA_SIZE] = NUL
  BY <1>1, TornBuffer DEF IsSequence
<1>3. buffer[index + 1] # Space /\ buffer[index + 1] # NUL
  BY CharactersDiffer
<1>4. index + 1 # APPDATA_SIZE
  BY <1>2, <1>3
<1>5. index + 1 <= n
  <2> SUFFICES ASSUME ~(index + 1 <= n)
               PROVE  FALSE
    OBVIOUS
  <2>1. index + 1 \in (n + 1) .. (APPDATA_SIZE - 1)
    BY <1>1, <1>2, <1>4
  <2> QED
    BY <1>2, <1>3, <2>1
<1>6. index + 1 \in 1 .. n /\ index + 1 \in 1 .. Len(text) /\ index + 1 < APPDATA_SIZE
  BY <1>1, <1>2, <1>4, <1>5
<1> QED
  BY <1>2, <1>6

\* A number that was torn is none.
LEMMA TornNumber ==
  ASSUME ParseInv, BufferIsText, Parsing, NEW text \in Certificates, NEW n \in 0 .. Len(text),
         Text = Torn(text, n), index + 1 <= n, NEW e \in Nat, EndsAt(text, index + 1, e), n < e
  PROVE  ~NumberAt(index + 1).whole
<1> DEFINE i == index + 1
           chars == {buffer[k] : k \in DOMAIN buffer}
           Others(S) == chars \ S
           first == NextOf(Others({Space}), i)
           last == NextOf(Others(Digits), first)
           end == NextOf({Semicolon, NUL}, i)
<1>1. /\ buffer # <<>> /\ IsSequence(buffer) /\ Len(buffer) = APPDATA_SIZE
      /\ index \in Nat /\ i \in Nat /\ i \in 1 .. APPDATA_SIZE
      /\ APPDATA_SIZE \in Nat \ {0}
      /\ DOMAIN buffer = 1 .. APPDATA_SIZE
  BY ParsingFacts, ParseConstants DEF IsSequence
<1>2. /\ n \in Nat /\ i <= n
      /\ \A j \in 1 .. n : j < APPDATA_SIZE => buffer[j] = text[j]
      /\ \A j \in (n + 1) .. (APPDATA_SIZE - 1) : buffer[j] = Space
      /\ buffer[APPDATA_SIZE] = NUL
  BY <1>1, TornBuffer
<1>3. /\ e \in (i + 1) .. (APPDATA_SIZE - 1)
      /\ \A j \in (i + 1) .. (e - 1) : text[j] \notin {Semicolon, NUL}
  BY DEF EndsAt
<1> HIDE DEF i
<1>4. n < e /\ n < APPDATA_SIZE - 1
  BY <1>1, <1>2, <1>3
<1>5. ASSUME NEW j \in (i + 1) .. (APPDATA_SIZE - 1)
      PROVE  buffer[j] \notin {Semicolon, NUL}
  <2>1. CASE j <= n
    <3>1. j \in 1 .. n /\ j < APPDATA_SIZE /\ j \in (i + 1) .. (e - 1)
      BY <1>1, <1>2, <1>3, <1>4, <2>1
    <3> QED
      BY <1>2, <1>3, <3>1
  <2>2. CASE ~(j <= n)
    <3>1. j \in (n + 1) .. (APPDATA_SIZE - 1)
      BY <1>1, <1>2, <2>2
    <3> QED
      BY <1>2, <3>1, CharactersDiffer
  <2> QED
    BY <2>1, <2>2
<1>6. end = APPDATA_SIZE - 1
  <2>1. /\ end \in Nat /\ i <= end
        /\ end < APPDATA_SIZE => buffer[end + 1] \in {Semicolon, NUL}
        /\ \A j \in i .. (end - 1) : buffer[j + 1] \notin {Semicolon, NUL}
    BY <1>1, NextOfIs
  <2> HIDE DEF end
  <2>2. ~(end > APPDATA_SIZE - 1)
    <3> SUFFICES ASSUME end > APPDATA_SIZE - 1
                 PROVE  FALSE
      OBVIOUS
    <3>1. APPDATA_SIZE - 1 \in i .. (end - 1) /\ (APPDATA_SIZE - 1) + 1 = APPDATA_SIZE
      BY <1>1, <1>2, <1>4, <2>1
    <3> QED
      BY <1>2, <2>1, <3>1
  <2>3. ~(end < APPDATA_SIZE - 1)
    <3> SUFFICES ASSUME end < APPDATA_SIZE - 1
                 PROVE  FALSE
      OBVIOUS
    <3>1. end + 1 \in (i + 1) .. (APPDATA_SIZE - 1) /\ end < APPDATA_SIZE
      BY <1>1, <2>1
    <3> QED
      BY <1>5, <2>1, <3>1
  <2> QED
    BY <1>1, <2>1, <2>2, <2>3
<1>7. end # i
  BY <1>1, <1>2, <1>4, <1>6
<1>8. ~(first < last /\ last = end)
  <2>1. first \in Nat
    BY <1>1, NextOfIs
  <2>2. \A j \in first .. (last - 1) : buffer[j + 1] \notin Others(Digits)
    BY <1>1, <2>1, NextOfIs
  <2>3. last \in Nat
    BY <1>1, <2>1, NextOfIs
  <2>4. APPDATA_SIZE - 1 \in (n + 1) .. (APPDATA_SIZE - 1) /\ APPDATA_SIZE - 1 \in 1 .. APPDATA_SIZE
    BY <1>1, <1>2, <1>4
  <2>5. buffer[APPDATA_SIZE - 1] \in Others(Digits)
    BY <1>1, <1>2, <2>4, CharactersDiffer
  <2> HIDE DEF Others, first, last, end
  <2> SUFFICES ASSUME first < last, last = APPDATA_SIZE - 1
               PROVE  FALSE
    BY <1>6
  <2>6. last - 1 \in first .. (last - 1) /\ (last - 1) + 1 = APPDATA_SIZE - 1
    BY <1>1, <2>1, <2>3
  <2> QED
    BY <2>2, <2>5, <2>6
<1>9. NumberAt(i).whole = (end = i \/ (first < last /\ last = end))
  BY DEF NumberAt
<1> HIDE DEF first, last, end
<1>10. ~NumberAt(i).whole
  BY <1>7, <1>8, <1>9
<1> QED
  BY <1>10 DEF i

\* A step that leaves these alone keeps what was read.
LEMMA TornKept ==
  ASSUME TornRead, buffer # <<>>, UNCHANGED <<vars, buffer>>,
         volinfo'.hashsum = volinfo.hashsum, volinfo'.algorithm = volinfo.algorithm,
         volinfo'.skipsectors = volinfo.skipsectors,
         "TASK_SKIP" \in task' => "TASK_SKIP" \in task,
         "TASK_HASH" \in task' => "TASK_HASH" \in task
  PROVE  TornRead'
<1>1. Text' = Text
  BY DEF vars, Text
<1> QED
  BY <1>1 DEF TornRead

\* In what is left of a torn certificate, the hash that is read is its own.
LEMMA TornHash ==
  ASSUME TextInv, TornRead, CertificatesAreWhole, NEW alg \in Algorithms, ReadHash(alg)
  PROVE  TornRead'
<1> DEFINE tag == HashTag(alg)
           size == HashSize(alg)
<1>1. Parsing /\ buffer[index + 1] = <<tag>>
  BY DEF ReadHash, At
<1>2. /\ buffer # <<>> /\ volinfo = [f \in VolumeInfoFields |-> volinfo[f]]
      /\ index \in Nat /\ APPDATA_SIZE \in Nat
  BY <1>1, ParsingFacts, ParseConstants DEF TextInv
<1>3. CASE Fail
  BY <1>2, <1>3, TornKept DEF Fail
<1>4. CASE /\ volinfo' = [volinfo EXCEPT !.hashsum = Copied(index + 1, size), !.algorithm = alg]
           /\ NextRound(ToSemicolon(index + 1 + size), task \cup {"TASK_HASH"})
  <2>1. /\ volinfo'.hashsum = Copied(index + 1, size)
        /\ volinfo'.algorithm = alg
        /\ volinfo'.skipsectors = volinfo.skipsectors
    BY <1>2, <1>4 DEF VolumeInfoFields
  <2>2. UNCHANGED <<vars, buffer>> /\ task' = task \cup {"TASK_HASH"}
    BY <1>4 DEF NextRound
  <2>3. Text' = Text
    BY <2>2 DEF vars, Text
  <2>4. ASSUME NEW text \in Certificates, NEW n \in 0 .. Len(text), NEW i \in 1 .. Len(text),
               NEW e \in (i + 1) .. Len(text), Text = Torn(text, n), EndsAt(text, i, e),
               text[i] \in {<<t>> : t \in HashTags}, e <= n
        PROVE  Copied(index + 1, size) = ValueAt(text, i) /\ text[i] = <<tag>>
    <3>1. tag \in Tags /\ tag \in HashTags
      BY TagsAre
    <3>2. ParseInv /\ BufferIsText
      BY DEF TextInv
    <3>3. /\ index + 1 \in 1 .. n /\ index + 1 \in 1 .. Len(text) /\ text[index + 1] = <<tag>>
      BY <1>1, <2>4, <3>1, <3>2, TornTag
    <3>4. /\ IsSequence(text) /\ n \in Nat /\ n <= Len(text)
          /\ \A j \in 1 .. n : j < APPDATA_SIZE => buffer[j] = text[j]
      BY <1>2, <2>4, <3>2, TornBuffer
    <3>5. DOMAIN text = 1 .. Len(text) /\ Len(text) \in Nat
      BY <3>4 DEF IsSequence
    <3>6. i = index + 1 /\ WellFormedField(text, i)
      <4>1. PICK h \in DOMAIN text :
              /\ {k \in DOMAIN text : text[k] \in {<<HashTag(a)>> : a \in Algorithms}} = {h}
              /\ WellFormedField(text, h)
        BY DEF CertificatesAreWhole, WholeCertificate
      <4>2. {<<HashTag(a)>> : a \in Algorithms} = {<<t>> : t \in HashTags}
        BY DEF HashTags
      <4>3. i \in DOMAIN text /\ index + 1 \in DOMAIN text
        BY <3>3, <3>5
      <4>4. text[index + 1] \in {<<t>> : t \in HashTags}
        BY <3>1, <3>3
      <4>5. i = h /\ index + 1 = h
        BY <2>4, <4>1, <4>2, <4>3, <4>4
      <4> QED
        BY <4>1, <4>5
    <3>7. text[i][1] = tag
      BY <3>3, <3>6
    <3>8. /\ e \in (i + 1) .. (APPDATA_SIZE - 1)
          /\ ValueAt(text, i) = [k \in 1 .. (e - 1 - i) |-> text[i + k]]
      BY <2>4 DEF EndsAt
    <3>9. e - 1 - i \in Nat /\ i + (e - 1 - i) <= APPDATA_SIZE /\ i \in Nat
      BY <1>2, <3>6, <3>8
    <3>10. Len(ValueAt(text, i)) = e - 1 - i
      BY <3>8, <3>9, FunctionIsSequence
    <3>11. size = e - 1 - i
      <4>1. (CASE tag = "ISO SHA256SUM" -> Len(ValueAt(text, i)) = HASH_SIZE
              [] tag = "ISO MD5SUM" -> Len(ValueAt(text, i)) = MD5_HASH_SIZE
              [] tag = "FRAGMENT SUMS" -> Len(ValueAt(text, i)) <= FRAGMENT_SUM_SIZE
              [] OTHER -> ValueAt(text, i) \in Seq(Digits) /\ ValueAt(text, i) # <<>>)
        BY <3>6, <3>7 DEF WellFormedField
      <4> QED
        BY <3>10, <4>1 DEF HashSize, HashTag
    <3>12. Copied(i, e - 1 - i) = [k \in 1 .. (e - 1 - i) |-> buffer[i + k]]
      BY <1>2, <3>2, <3>9, CopiedWithin DEF ParseInv
    <3>13. ASSUME NEW k \in 1 .. (e - 1 - i)
           PROVE  buffer[i + k] = text[i + k]
      <4>1. i + k \in 1 .. n /\ i + k < APPDATA_SIZE
        <5>1. i \in Nat /\ e \in Nat /\ n \in Nat /\ k \in Nat /\ e < APPDATA_SIZE /\ e <= n
          <6>1. i \in Nat /\ n \in Nat /\ e <= n /\ APPDATA_SIZE \in Nat
            BY <1>2, <2>4, <3>4, <3>9
          <6>2. e \in Nat /\ e < APPDATA_SIZE
            BY <3>8, <6>1
          <6> QED
            BY <6>1, <6>2
        <5>2. k >= 1 /\ k <= e - 1 - i
          BY <5>1
        <5> QED
          BY <1>2, <5>1, <5>2
      <4> QED
        BY <3>4, <4>1
    <3> HIDE DEF size, tag
    <3>14. Copied(i, e - 1 - i) = ValueAt(text, i)
      BY <3>8, <3>12, <3>13
    <3> QED
      BY <3>3, <3>6, <3>11, <3>14
  <2>5. ASSUME NEW text \in Certificates, NEW n \in 0 .. Len(text), NEW i \in 1 .. Len(text),
               NEW e \in (i + 1) .. Len(text), Text = Torn(text, n), EndsAt(text, i, e)
        PROVE  /\ text[i] = <<"SKIPSECTORS">> /\ "TASK_SKIP" \in task' =>
                    e <= n /\ volinfo'.skipsectors = DecimalValue(ValueAt(text, i))
               /\ text[i] \in {<<t>> : t \in HashTags} /\ "TASK_HASH" \in task' /\ e <= n =>
                    /\ volinfo'.hashsum = ValueAt(text, i)
                    /\ volinfo'.algorithm \in Algorithms
                    /\ text[i] = <<HashTag(volinfo'.algorithm)>>
    <3>1. text[i] = <<"SKIPSECTORS">> /\ "TASK_SKIP" \in task' =>
            e <= n /\ volinfo'.skipsectors = DecimalValue(ValueAt(text, i))
      BY <1>2, <2>1, <2>2, <2>5 DEF TornRead
    <3>2. ASSUME text[i] \in {<<t>> : t \in HashTags}, e <= n
          PROVE  /\ volinfo'.hashsum = ValueAt(text, i)
                 /\ volinfo'.algorithm \in Algorithms
                 /\ text[i] = <<HashTag(volinfo'.algorithm)>>
      BY <2>1, <2>4, <2>5, <3>2
    <3> QED
      BY <3>1, <3>2
  <2> QED
    BY <2>3, <2>5 DEF TornRead
<1> QED
  BY <1>3, <1>4 DEF ReadHash

\* So is the number of skipped sectors, or it is not accepted.
LEMMA TornSkip ==
  ASSUME TextInv, TornRead, CertificatesAreWhole, ReadSkipSectors
  PROVE  TornRead'
<1> DEFINE number == NumberAt(index + 1)
<1>1. Parsing /\ buffer[index + 1] = <<"SKIPSECTORS">>
  BY DEF ReadSkipSectors, At
<1>2. /\ buffer # <<>> /\ volinfo = [f \in VolumeInfoFields |-> volinfo[f]]
      /\ index \in Nat /\ APPDATA_SIZE \in Nat
  BY <1>1, ParsingFacts, ParseConstants DEF TextInv
<1> HIDE DEF number
<1>3. CASE Fail
  BY <1>2, <1>3, TornKept DEF Fail
<1>4. CASE /\ volinfo' = [volinfo EXCEPT !.skipsectors = number.value]
           /\ \E i, tasks : NextRound(i, tasks) /\ tasks \subseteq task \cup {"TASK_SKIP"}
           /\ ~number.whole => task' = task
  <2>1. /\ volinfo'.skipsectors = number.value
        /\ volinfo'.hashsum = volinfo.hashsum
        /\ volinfo'.algorithm = volinfo.algorithm
    BY <1>2, <1>4 DEF VolumeInfoFields
  <2>2. UNCHANGED <<vars, buffer>> /\ task' \subseteq task \cup {"TASK_SKIP"}
    BY <1>4 DEF NextRound
  <2>3. Text' = Text
    BY <2>2 DEF vars, Text
  <2>4. ASSUME NEW text \in Certificates, NEW n \in 0 .. Len(text), NEW i \in 1 .. Len(text),
               NEW e \in (i + 1) .. Len(text), Text = Torn(text, n), EndsAt(text, i, e),
               text[i] = <<"SKIPSECTORS">>
        PROVE  IF e <= n THEN number.value = DecimalValue(ValueAt(text, i)) ELSE ~number.whole
    <3>1. "SKIPSECTORS" \in Tags /\ "SKIPSECTORS" \notin HashTags
      BY TagsAre
    <3>2. ParseInv /\ BufferIsText
      BY DEF TextInv
    <3>3. /\ index + 1 \in 1 .. n /\ index + 1 \in 1 .. Len(text)
          /\ text[index + 1] = <<"SKIPSECTORS">>
      BY <1>1, <2>4, <3>1, <3>2, TornTag
    <3>4. /\ IsSequence(text) /\ n \in Nat /\ n <= Len(text)
          /\ \A j \in 1 .. n : j < APPDATA_SIZE => buffer[j] = text[j]
      BY <1>2, <2>4, <3>2, TornBuffer
    <3>5. DOMAIN text = 1 .. Len(text) /\ Len(text) \in Nat
      BY <3>4 DEF IsSequence
    <3>6. i = index + 1 /\ WellFormedField(text, i)
      <4>1. PICK s \in DOMAIN text :
              /\ {k \in DOMAIN text : text[k] = <<"SKIPSECTORS">>} = {s}
              /\ WellFormedField(text, s)
        BY DEF CertificatesAreWhole, WholeCertificate
      <4>2. i \in DOMAIN text /\ index + 1 \in DOMAIN text
        BY <3>3, <3>5
      <4>3. i = s /\ index + 1 = s
        BY <2>4, <3>3, <4>1, <4>2
      <4> QED
        BY <4>1, <4>3
    <3>7. text[i][1] = "SKIPSECTORS"
      BY <3>3, <3>6
    <3>8. e \in Nat /\ e \in (i + 1) .. (APPDATA_SIZE - 1)
      BY <1>2, <2>4, <3>5, <3>6 DEF EndsAt
    <3>9. CASE e <= n
      <4>1. (CASE "SKIPSECTORS" = "ISO SHA256SUM" -> Len(ValueAt(text, i)) = HASH_SIZE
              [] "SKIPSECTORS" = "ISO MD5SUM" -> Len(ValueAt(text, i)) = MD5_HASH_SIZE
              [] "SKIPSECTORS" = "FRAGMENT SUMS" -> Len(ValueAt(text, i)) <= FRAGMENT_SUM_SIZE
              [] OTHER -> ValueAt(text, i) \in Seq(Digits) /\ ValueAt(text, i) # <<>>)
        BY <3>6, <3>7 DEF WellFormedField
      <4>2. ValueAt(text, i) \in Seq(Digits) /\ ValueAt(text, i) # <<>>
        BY <4>1
      <4>3. ASSUME NEW j \in (index + 1) .. e
            PROVE  buffer[j] = text[j]
        <5>1. j \in 1 .. n /\ j < APPDATA_SIZE
          BY <1>2, <3>4, <3>6, <3>8, <3>9
        <5> QED
          BY <3>4, <5>1
      <4>4. EndsAt(text, index + 1, e)
        BY <2>4, <3>6
      <4>5. number.value = DecimalValue(ValueAt(text, index + 1))
        BY <1>1, <3>2, <3>6, <3>8, <4>2, <4>3, <4>4, NumberInBuffer DEF number
      <4> QED
        BY <3>6, <3>9, <4>5
    <3>10. CASE ~(e <= n)
      <4>1. n < e /\ index + 1 <= n
        BY <1>2, <3>3, <3>4, <3>8, <3>10
      <4>2. EndsAt(text, index + 1, e)
        BY <2>4, <3>6
      <4>3. ~number.whole
        BY <1>1, <2>4, <3>2, <3>8, <4>1, <4>2, TornNumber DEF number
      <4> QED
        BY <3>10, <4>3
    <3> QED
      BY <3>9, <3>10
  <2>5. ASSUME NEW text \in Certificates, NEW n \in 0 .. Len(text), NEW i \in 1 .. Len(text),
               NEW e \in (i + 1) .. Len(text), Text = Torn(text, n), EndsAt(text, i, e)
        PROVE  /\ text[i] = <<"SKIPSECTORS">> /\ "TASK_SKIP" \in task' =>
                    e <= n /\ volinfo'.skipsectors = DecimalValue(ValueAt(text, i))
               /\ text[i] \in {<<t>> : t \in HashTags} /\ "TASK_HASH" \in task' /\ e <= n =>
                    /\ volinfo'.hashsum = ValueAt(text, i)
                    /\ volinfo'.algorithm \in Algorithms
                    /\ text[i] = <<HashTag(volinfo'.algorithm)>>
    <3>1. ASSUME text[i] = <<"SKIPSECTORS">>, "TASK_SKIP" \in task'
          PROVE  e <= n /\ volinfo'.skipsectors = DecimalValue(ValueAt(text, i))
      <4>1. IF e <= n THEN number.value = DecimalValue(ValueAt(text, i)) ELSE ~number.whole
        BY <2>4, <2>5, <3>1
      <4>2. ~(e <= n) => "TASK_SKIP" \in task
        BY <1>4, <3>1, <4>1
      <4>3. e <= n
        BY <1>2, <2>5, <3>1, <4>2 DEF TornRead
      <4> QED
        BY <2>1, <4>1, <4>3
    <3>2. text[i] \in {<<t>> : t \in HashTags} /\ "TASK_HASH" \in task' /\ e <= n =>
            /\ volinfo'.hashsum = ValueAt(text, i)
            /\ volinfo'.algorithm \in Algorithms
            /\ text[i] = <<HashTag(volinfo'.algorithm)>>
      BY <1>2, <2>1, <2>2, <2>5 DEF TornRead
    <3> QED
      BY <3>1, <3>2
  <2> QED
    BY <2>3, <2>5 DEF TornRead
<1>5. \/ Fail
      \/ /\ volinfo' = [volinfo EXCEPT !.skipsectors = number.value]
         /\ \E i, tasks : NextRound(i, tasks) /\ tasks \subseteq task \cup {"TASK_SKIP"}
         /\ ~number.whole => task' = task
  BY DEF ReadSkipSectors, NextRound, number
<1> QED
  BY <1>3, <1>4, <1>5

\* Every round keeps what is known of a torn certificate.
LEMMA TornNext ==
  ASSUME TextInv, TornRead, BothTasks, CertificatesAreWhole, [ParseNext]_parsevars
  PROVE  TornRead' /\ BothTasks'
<1>1. CASE buffer = <<>>
  <2>1. task = {} /\ (parsed # "none" => result = "NULL")
    BY <1>1 DEF TextInv, BufferIsText
  <2>2. ~Parsing
    BY <1>1, ParsingFacts DEF TextInv
  <2>3. parsed # "volume_info"
    BY <1>1 DEF BothTasks
  <2>4. /\ task' = task
        /\ parsed' # "volume_info"
    BY <1>1, <2>2, <2>3 DEF ParseNext, parsevars, parsing, Scan, NoDescriptor, BeginParse, ReadHash,
         ReadSkipSectors, ReadSupported, ReadFragmentCount, ReadNumber, ReadFragmentSums, PassOver,
         EndParse, ParseReturned, At
  <2>5. "TASK_SKIP" \notin task' /\ "TASK_HASH" \notin task'
    BY <2>1, <2>4
  <2> QED
    BY <2>4, <2>5 DEF TornRead, BothTasks
<1>2. CASE buffer # <<>>
  <2>1. UNCHANGED <<vars, buffer>>
    BY <1>2, BufferStays
  <2>2. /\ volinfo = [f \in VolumeInfoFields |-> volinfo[f]]
        /\ result = "found"
    BY <1>2 DEF TextInv, BufferIsText, ParseInv, Filled
  <2>3. ~Scan /\ ~NoDescriptor /\ ~BeginParse
    BY <1>2, <2>2, ScanIsOver DEF TextInv, NoDescriptor, BeginParse
  <2>4. Parsing => parsed = "none"
    BY DEF Parsing
  <2>5. ASSUME parsed = "none", parsed' \in {"none", "NULL"}
        PROVE  BothTasks'
    BY <2>5 DEF BothTasks
  <2>6. ASSUME NEW alg \in Algorithms, ReadHash(alg)
        PROVE  TornRead' /\ BothTasks'
    <3>1. Parsing /\ parsed' \in {parsed, "NULL"}
      BY <2>6 DEF ReadHash, At, Fail, NextRound
    <3> QED
      BY <2>4, <2>5, <2>6, <3>1, TornHash
  <2>7. ASSUME ReadSkipSectors
        PROVE  TornRead' /\ BothTasks'
    <3>1. Parsing /\ parsed' \in {parsed, "NULL"}
      BY <2>7 DEF ReadSkipSectors, At, Fail, NextRound
    <3> QED
      BY <2>4, <2>5, <2>7, <3>1, TornSkip
  <2>8. ASSUME ReadSupported \/ ReadFragmentCount
        PROVE  TornRead' /\ BothTasks'
    <3>1. PICK field \in {"supported", "fragmentcount"} :
            \E value : volinfo' = [volinfo EXCEPT ![field] = value]
      BY <2>8 DEF ReadSupported, ReadFragmentCount, ReadNumber
    <3>2. /\ volinfo'.hashsum = volinfo.hashsum /\ volinfo'.algorithm = volinfo.algorithm
          /\ volinfo'.skipsectors = volinfo.skipsectors
      BY <2>2, <3>1 DEF VolumeInfoFields
    <3>3. /\ Parsing /\ parsed' = parsed
          /\ task' \subseteq task \cup {TaskOf["RHLISOSTATUS"], TaskOf["FRAGMENT COUNT"]}
      BY <2>8 DEF ReadSupported, ReadFragmentCount, ReadNumber, At, NextRound
    <3>4. "TASK_SKIP" \in task' => "TASK_SKIP" \in task
      BY <3>3, TagsAre
    <3>5. "TASK_HASH" \in task' => "TASK_HASH" \in task
      BY <3>3, TagsAre
    <3> QED
      BY <1>2, <2>1, <2>4, <2>5, <3>2, <3>3, <3>4, <3>5, TornKept
  <2>9. ASSUME ReadFragmentSums
        PROVE  TornRead' /\ BothTasks'
    <3>1. \/ volinfo' = volinfo
          \/ \E value : volinfo' = [volinfo EXCEPT !.fragmentsums = value]
      BY <2>9 DEF ReadFragmentSums, Fail
    <3>2. /\ volinfo'.hashsum = volinfo.hashsum /\ volinfo'.algorithm = volinfo.algorithm
          /\ volinfo'.skipsectors = volinfo.skipsectors
      BY <2>2, <3>1 DEF VolumeInfoFields
    <3>3. Parsing /\ parsed' \in {parsed, "NULL"} /\ task' \subseteq task \cup {"TASK_FRAGSUM"}
      BY <2>9 DEF ReadFragmentSums, At, NextRound, Fail
    <3>4. "TASK_SKIP" \in task' => "TASK_SKIP" \in task
      BY <3>3
    <3>5. "TASK_HASH" \in task' => "TASK_HASH" \in task
      BY <3>3
    <3> QED
      BY <1>2, <2>1, <2>4, <2>5, <3>2, <3>3, <3>4, <3>5, TornKept
  <2>10. ASSUME PassOver
         PROVE  TornRead' /\ BothTasks'
    <3>1. Parsing /\ parsed' = parsed /\ task' = task /\ volinfo' = volinfo
      BY <2>10 DEF PassOver, NextRound
    <3> QED
      BY <1>2, <2>1, <2>4, <2>5, <3>1, TornKept
  <2>11. ASSUME EndParse
         PROVE  TornRead' /\ BothTasks'
    <3>1. /\ task' = task /\ volinfo' = volinfo
          /\ parsed' = IF {"TASK_HASH", "TASK_SKIP"} \subseteq task THEN "volume_info" ELSE "NULL"
      BY <2>11 DEF EndParse
    <3>2. BothTasks'
      BY <1>2, <2>1, <3>1 DEF BothTasks
    <3> QED
      BY <1>2, <2>1, <3>1, <3>2, TornKept
  <2>12. ASSUME ParseReturned \/ UNCHANGED parsevars
         PROVE  TornRead' /\ BothTasks'
    <3>1. task' = task /\ volinfo' = volinfo /\ parsed' = parsed
      BY <2>12 DEF ParseReturned, parsevars, parsing
    <3>2. BothTasks'
      BY <1>2, <2>1, <3>1 DEF BothTasks
    <3> QED
      BY <1>2, <2>1, <3>1, <3>2, TornKept
  <2> QED
    BY <2>3, <2>6, <2>7, <2>8, <2>9, <2>10, <2>11, <2>12 DEF ParseNext
<1> QED
  BY <1>1, <1>2

\* The value of the one field with a tag is that of the first.
LEMMA FirstIsOnly ==
  ASSUME NEW text, IsSequence(text), NEW tag, NEW i \in 1 .. Len(text),
         text[i] = <<tag>>, \A j \in 1 .. Len(text) : text[j] = <<tag>> => j = i
  PROVE  FirstValue(text, tag) = ValueAt(text, i)
<1> DEFINE First(k) == text[k] = <<tag>> /\ \A j \in 1 .. (k - 1) : text[j] # <<tag>>
           first == CHOOSE k \in DOMAIN text : First(k)
<1>1. DOMAIN text = 1 .. Len(text) /\ Len(text) \in Nat
  BY DEF IsSequence
<1>2. \A j \in 1 .. (i - 1) : j \in 1 .. Len(text) /\ j # i
  BY <1>1
<1>3. i \in DOMAIN text /\ First(i)
  BY <1>1, <1>2
<1>4. \A k \in DOMAIN text : First(k) => k = i
  BY <1>1
<1>5. first = i
  <2> HIDE DEF First
  <2> QED
    BY <1>3, <1>4
<1> QED
  BY <1>5 DEF FirstValue

\* So what is accepted of a torn certificate is what it said.
LEMMA TornHolds ==
  ASSUME TornRead, BothTasks, CertificatesAreWhole
  PROVE  TornIsNotMisread
<1> SUFFICES ASSUME parsed = "volume_info", NEW text \in Certificates, NEW n \in 0 .. Len(text),
                    Text = Torn(text, n)
             PROVE  /\ volinfo.hashsum = FirstValue(text, HashTag(volinfo.algorithm))
                    /\ volinfo.skipsectors = DecimalValue(FirstValue(text, "SKIPSECTORS"))
  BY DEF TornIsNotMisread, Text
<1>1. buffer # <<>> /\ "TASK_HASH" \in task /\ "TASK_SKIP" \in task
  BY DEF BothTasks
<1>2. IsSequence(text) /\ Len(text) \in Nat /\ DOMAIN text = 1 .. Len(text) /\ n \in Nat
  <2>1. text \in Seq(Cell)
    BY ParseAssumption DEF ParseAssumption
  <2> QED
    BY <2>1, SeqIsSequence DEF IsSequence
<1>3. PICK h \in DOMAIN text, s \in DOMAIN text :
        /\ h < s
        /\ {i \in DOMAIN text : text[i] \in {<<HashTag(alg)>> : alg \in Algorithms}} = {h}
        /\ {i \in DOMAIN text : text[i] = <<"SKIPSECTORS">>} = {s}
        /\ \A i \in {h, s} : WellFormedField(text, i) /\ i + Len(ValueAt(text, i)) < Len(text)
  BY DEF CertificatesAreWhole, WholeCertificate
<1>4. /\ h \in 1 .. Len(text) /\ s \in 1 .. Len(text) /\ h < s
      /\ text[s] = <<"SKIPSECTORS">> /\ text[h] \in {<<tag>> : tag \in HashTags}
  BY <1>2, <1>3 DEF HashTags
<1>5. \A i \in 1 .. Len(text) : text[i] = <<"SKIPSECTORS">> => i = s
  BY <1>2, <1>3
<1>6. \A i \in 1 .. Len(text) : text[i] \in {<<tag>> : tag \in HashTags} => i = h
  BY <1>2, <1>3 DEF HashTags
<1>7. PICK eh \in Nat : EndsAt(text, h, eh) /\ eh <= Len(text)
  BY <1>2, <1>3, <1>4, FieldEnds
<1>8. PICK es \in Nat : EndsAt(text, s, es) /\ es <= Len(text)
  BY <1>2, <1>3, <1>4, FieldEnds
<1>9. /\ eh \in (h + 1) .. (APPDATA_SIZE - 1) /\ es \in (s + 1) .. (APPDATA_SIZE - 1)
      /\ text[eh] = Semicolon /\ \A j \in (h + 1) .. (eh - 1) : ~IsTag(text[j])
  BY <1>7, <1>8 DEF EndsAt
<1>10. eh \in (h + 1) .. Len(text) /\ es \in (s + 1) .. Len(text)
  BY <1>2, <1>4, <1>7, <1>8, <1>9
<1>11. es <= n /\ volinfo.skipsectors = DecimalValue(ValueAt(text, s))
  BY <1>1, <1>4, <1>8, <1>10 DEF TornRead
<1>12. eh <= n
  <2>1. IsTag(text[s])
    BY <1>4, TagsAre, CharactersDiffer
  <2>2. s # eh /\ s \notin (h + 1) .. (eh - 1)
    BY <1>9, <2>1, CharactersDiffer
  <2> HIDE DEF Text
  <2>3. eh < s
    BY <1>4, <1>9, <2>2
  <2> QED
    BY <1>2, <1>4, <1>9, <1>11, <2>3
<1>13. /\ volinfo.hashsum = ValueAt(text, h)
       /\ volinfo.algorithm \in Algorithms
       /\ text[h] = <<HashTag(volinfo.algorithm)>>
  BY <1>1, <1>4, <1>7, <1>10, <1>12 DEF TornRead
<1>14. FirstValue(text, "SKIPSECTORS") = ValueAt(text, s)
  BY <1>2, <1>4, <1>5, FirstIsOnly
<1>15. FirstValue(text, HashTag(volinfo.algorithm)) = ValueAt(text, h)
  <2>1. \A i \in 1 .. Len(text) : text[i] = <<HashTag(volinfo.algorithm)>> => i = h
    BY <1>6, <1>13, TagsAre
  <2> QED
    BY <1>2, <1>4, <1>13, <2>1, FirstIsOnly
<1> QED
  BY <1>11, <1>13, <1>14, <1>15

\* utilities.c, parsepvd(): "if (task < TASK_SKIP + TASK_HASH)".  Of a
\* certificate that an interrupted write left torn, at whatever character, the
\* hash, its algorithm and the number of sectors are read as they were to be
\* written, or nothing is.
THEOREM TornIsRefused ==
  ASSUME MediaHaveSectors, CertificatesAreWhole
  PROVE  ParseSpec => []TornIsNotMisread
<1> DEFINE I == TextInv /\ TornRead /\ BothTasks
<1>1. ParseInit => I
  <2> SUFFICES ASSUME ParseInit
               PROVE  I
    OBVIOUS
  <2>1. Init /\ buffer = <<>> /\ parsed = "none"
    BY DEF ParseInit
  <2>2. ParseInv /\ InSearch /\ FindsThePrimary /\ BufferIsText
    BY <2>1, ParseInvInit, InSearchInit, OnMediumInit, BufferIsTextInit
  <2> QED
    BY <2>1, <2>2 DEF TextInv, TornRead, BothTasks
<1>2. I /\ [ParseNext]_parsevars => I'
  <2> SUFFICES ASSUME I, [ParseNext]_parsevars
               PROVE  I'
    OBVIOUS
  <2> QED
    BY TextInvNext, TornNext
<1>3. I => TornIsNotMisread
  BY TornHolds
<1> QED
  BY <1>1, <1>2, <1>3, PTL DEF ParseSpec
=============================================================================
