-------------------------- MODULE MediaCheckProofs --------------------------
(***************************************************************************)
(* Proofs about MediaCheck, for every layout, set of media and read        *)
(* pattern: what is hashed is the blanked beginning of the image, and a    *)
(* medium passes only if its stored digest is the digest of its volume.    *)
(***************************************************************************)
EXTENDS MediaCheck, CertificateLemmas

USE DEF MIN, MAX

-----------------------------------------------------------------------------
(* The application data in the buffer.                                     *)

\* The n cells from offset start on, blanked where the application data is.
BlankedBlock(img, at, start, n) ==
  [k \in 1 .. n |->
     IF start + k \in (at + 1) .. (at + APPDATA_SIZE) THEN Space ELSE img[start + k]]

\* clear_appdata() blanks exactly the cells of the buffer that are
\* application data, wherever the buffer begins and however long it is.
LEMMA ClearAppDataBlanks ==
  ASSUME NEW img, NEW size \in Nat, NEW at \in Int, NEW start \in Int
  PROVE  clear_appdata(CellsAt(img, start, size), size, at, start)
           = BlankedBlock(img, at, start, size)
<1> DEFINE buffer == CellsAt(img, start, size)
<1>1. APPDATA_SIZE \in Nat \ {0}
  BY LayoutAssumption DEF LayoutAssumption
<1>2. /\ DOMAIN buffer = 1 .. size
      /\ buffer = [k \in 1 .. size |-> buffer[k]]
      /\ \A k \in 1 .. size : buffer[k] = img[start + k]
  BY DEF CellsAt
<1> HIDE DEF buffer
<1>3. clear_appdata(buffer, size, at, start)
        = [k \in 1 .. size |->
             IF start + k \in (at + 1) .. (at + APPDATA_SIZE)
             THEN Space ELSE buffer[k]]
  <2>1. CASE -APPDATA_SIZE <= at - start /\ at - start <= size
    <3> DEFINE first == MAX(0, at - start)
               len   == MIN(size, at - start + APPDATA_SIZE) - first
    <3>1. ASSUME NEW k \in 1 .. size
          PROVE  k \in (first + 1) .. (first + len)
                   <=> start + k \in (at + 1) .. (at + APPDATA_SIZE)
      BY <1>1, <2>1, <3>1
    <3>2. clear_appdata(buffer, size, at, start)
            = [k \in 1 .. size |->
                 IF k \in (first + 1) .. (first + len) THEN Space ELSE buffer[k]]
      BY <1>2, <2>1 DEF clear_appdata
    <3> QED
      BY <3>1, <3>2
  <2>2. CASE ~(-APPDATA_SIZE <= at - start /\ at - start <= size)
    <3>1. ASSUME NEW k \in 1 .. size
          PROVE  start + k \notin (at + 1) .. (at + APPDATA_SIZE)
      BY <1>1, <2>2, <3>1
    <3>2. clear_appdata(buffer, size, at, start) = buffer
      BY <2>2 DEF clear_appdata
    <3> QED
      BY <1>2, <3>1, <3>2
  <2> QED
    BY <2>1, <2>2
<1> QED
  BY <1>2, <1>3 DEF buffer, BlankedBlock

\* A blanked prefix is a sequence of cells of its length.
LEMMA BlankedAtType ==
  ASSUME NEW img \in Seq(Cell), NEW at, NEW n \in Nat, n <= Len(img)
  PROVE  /\ BlankedAt(img, at, n) \in Seq(Cell)
         /\ Len(BlankedAt(img, at, n)) = n
<1>1. Space \in Cell
  BY LayoutAssumption DEF LayoutAssumption
<1>2. \A i \in 1 .. n : img[i] \in Cell
  OBVIOUS
<1> QED
  BY <1>1, <1>2 DEF BlankedAt

\* A blanked prefix goes on with the next block, blanked.
LEMMA BlankedAtAppend ==
  ASSUME NEW img \in Seq(Cell), NEW at \in Int, NEW n \in Nat, NEW m \in Nat,
         n + m <= Len(img)
  PROVE  BlankedAt(img, at, n) \o BlankedBlock(img, at, n, m) = BlankedAt(img, at, n + m)
<1> DEFINE block == BlankedBlock(img, at, n, m)
           left == BlankedAt(img, at, n)
           right == BlankedAt(img, at, n + m)
<1>1. left \in Seq(Cell) /\ Len(left) = n
  BY BlankedAtType
<1>2. right \in Seq(Cell) /\ Len(right) = n + m
  BY BlankedAtType
<1>3. block \in Seq(Cell) /\ Len(block) = m
  <2>1. Space \in Cell
    BY LayoutAssumption DEF LayoutAssumption
  <2>2. \A k \in 1 .. m : img[n + k] \in Cell
    OBVIOUS
  <2> QED
    BY <2>1, <2>2 DEF BlankedBlock
<1> DEFINE cell(i) == IF i \in (at + 1) .. (at + APPDATA_SIZE) THEN Space ELSE img[i]
<1>4. /\ \A i \in 1 .. n : left[i] = cell(i)
      /\ \A i \in 1 .. (n + m) : right[i] = cell(i)
      /\ \A k \in 1 .. m : block[k] = cell(n + k)
  BY DEF BlankedAt, BlankedBlock
<1> HIDE DEF block, left, right, cell
<1>5. left \o block \in Seq(Cell) /\ Len(left \o block) = n + m
  BY <1>1, <1>3
<1>6. ASSUME NEW i \in 1 .. (n + m)
      PROVE  (left \o block)[i] = right[i]
  <2>1. CASE i <= n
    BY <1>1, <1>3, <1>4, <2>1
  <2>2. CASE i > n
    <3>1. (left \o block)[i] = block[i - n]
      BY <1>1, <1>3, <2>2
    <3>2. i - n \in 1 .. m /\ n + (i - n) = i
      BY <2>2
    <3> QED
      BY <1>4, <3>1, <3>2
  <2> QED
    <3>1. i <= n \/ i > n
      BY <1>6
    <3> QED
      BY <2>1, <2>2, <3>1
<1>7. left \o block = right
  BY <1>2, <1>5, <1>6, SeqEqual
<1> QED
  BY <1>7 DEF block, left, right

-----------------------------------------------------------------------------
(* Sizes.                                                                  *)

\* The constants as the proofs use them.
LEMMA Sizes ==
  /\ SECTOR_SIZE \in Nat \ {0}
  /\ buffer_size \in Nat \ {0}
  /\ APPDATA_OFFSET \in Nat
  /\ Prefetch \in Nat
BY LayoutAssumption, MediaAssumption, ProductIsPositive
DEF LayoutAssumption, MediaAssumption, buffer_size

\* A volume of at least as many cells as fragments has fragments of a cell.
LEMMA QuotientIsPositive ==
  ASSUME NEW m \in Nat, NEW n \in Nat \ {0}, n <= m
  PROVE  m \div n \in Nat \ {0}
OBVIOUS

\* The loop never divides by zero: a volume that has anything to hash has
\* fragments of at least one byte.
LEMMA FragmentSizeIsPositive ==
  ASSUME IsVolumeInfo(info), total_size > 0
  PROVE  fragment_size \in Nat \ {0}
<1>1. total_size \in Nat /\ info.fragmentcount \in Nat /\ info.fragmentcount + 1 <= total_size
  BY Sizes DEF IsVolumeInfo, total_size
<1> QED
  BY <1>1, QuotientIsPositive DEF fragment_size

\* There is one place where the readable part of a volume ends.
LEMMA ReadableSizeIs ==
  ASSUME image \in Seq(Cell), NEW v, v.isosize \in Int, v.skipsectors \in Int,
         NEW n \in 0 .. MAX(0, v.isosize - v.skipsectors * SECTOR_SIZE),
         n <= Len(image),
         \A i \in 0 .. (n - 1) : i \notin unreadable,
         \/ n = MAX(0, v.isosize - v.skipsectors * SECTOR_SIZE)
         \/ n = Len(image)
         \/ n \in unreadable
  PROVE  n = ReadableSize(v)
<1> DEFINE size == MAX(0, v.isosize - v.skipsectors * SECTOR_SIZE)
           P(m) == /\ m <= Len(image)
                   /\ \A i \in 0 .. (m - 1) : i \notin unreadable
                   /\ m = size \/ m = Len(image) \/ m \in unreadable
<1>1. size \in Nat
  BY Sizes
<1>2. P(n)
  OBVIOUS
<1>3. ASSUME NEW m \in 0 .. size, P(m)
      PROVE  m = n
  <2>1. Len(image) \in Nat /\ m \in Nat /\ n \in Nat
    BY <1>1
  <2> HIDE DEF size
  <2>2. ~(m < n)
    <3> SUFFICES ASSUME m < n PROVE FALSE
      OBVIOUS
    <3>1. m \in 0 .. (n - 1)
      BY <2>1
    <3>2. m \notin unreadable
      BY <3>1
    <3>3. m # size /\ m # Len(image)
      BY <1>1, <2>1 DEF size
    <3> QED
      BY <1>3, <3>2, <3>3
  <2>3. ~(n < m)
    <3> SUFFICES ASSUME n < m PROVE FALSE
      OBVIOUS
    <3>1. n \in 0 .. (m - 1)
      BY <2>1
    <3>2. n \notin unreadable
      BY <1>3, <3>1
    <3>3. n # size /\ n # Len(image)
      BY <1>1, <1>3, <2>1
    <3> QED
      BY <1>2, <3>2, <3>3
  <2> QED
    BY <2>1, <2>2, <2>3
<1>4. n = CHOOSE m \in 0 .. size : P(m)
  BY <1>2, <1>3
<1> QED
  BY <1>4 DEF ReadableSize

-----------------------------------------------------------------------------
(* The inductive invariant.                                                *)

\* Before open() nothing is hashed.
LEMMA InvInit == Init => Inv
<1> SUFFICES ASSUME Init
             PROVE  Inv
  OBVIOUS
<1> USE DEF Init
<1>1. PICK m \in Media : image = m.image /\ unreadable = m.unreadable
  OBVIOUS
<1>2. image \in Seq(Cell) /\ unreadable \subseteq Nat
  BY <1>1, MediaAssumption DEF MediaAssumption
<1>3. HasVolumeInfo(image, unreadable) => IsVolumeInfo(VolumeInfo(image))
  BY <1>1, MediaAssumption DEF MediaAssumption
<1>4. <<>> = BlankedAt(image, info.offset + APPDATA_OFFSET, 0)
  BY DEF BlankedAt
<1>5. TypeOK
  <2>1. <<>> \in Seq(Cell)
    OBVIOUS
  <2>2. bail \in BOOLEAN
    OBVIOUS
  <2> QED
    BY <1>2, <2>1, <2>2 DEF TypeOK
<1>6. Unopened
  BY <1>3 DEF Unopened
<1>7. HashedIsBlankedPrefix
  BY <1>4 DEF HashedIsBlankedPrefix
<1> QED
  BY <1>5, <1>6, <1>7 DEF Inv, InTheVolume, ReadToTheEnd, PassedIsGenuine

\* What a read() that returns data means for the loop: the cells from the
\* file offset on are there, and the file offset is set behind them.
LEMMA BlockIsRead ==
  ASSUME Inv, NEW r \in 1 .. (buffer_size + Prefetch), HashBlock(r),
         NEW nbyte, nbyte = MIN(total_size - offset, buffer_size),
         NEW nread, nread = MIN(r, nbyte)
  PROVE  /\ nread \in 1 .. nbyte
         /\ offset + nread <= total_size
         /\ offset + nread <= Len(image)
         /\ \A i \in offset .. (offset + nread - 1) : i \notin unreadable
         /\ fdpos' = offset + nread
<1>1. offset \in Nat /\ Len(image) \in Nat /\ total_size \in Int /\ fdpos = offset
  <2>1. pc = "read"
    BY DEF HashBlock
  <2>2. offset \in Nat /\ Len(image) \in Nat /\ IsVolumeInfo(info) /\ fdpos = offset
    BY <2>1 DEF Inv, TypeOK, InTheVolume
  <2> QED
    BY <2>2, Sizes DEF IsVolumeInfo, total_size
<1>2. nbyte \in Nat \ {0} /\ nbyte <= total_size - offset
  BY <1>1, Sizes DEF HashBlock
<1>3. ReadReturns(image, unreadable, offset, nbyte, ShortReads, Prefetch, r)
  BY <1>1 DEF HashBlock
<1>4. fdpos' = IF r > nbyte THEN offset + nbyte ELSE offset + r
  BY <1>1 DEF HashBlock, SeekedTo
<1>5. \/ /\ r \in 1 .. nbyte
         /\ offset + r <= Len(image)
         /\ \A i \in offset .. (offset + r - 1) : i \notin unreadable
      \/ /\ r \in (nbyte + 1) .. (nbyte + Prefetch)
         /\ offset + nbyte <= Len(image)
         /\ \A i \in offset .. (offset + nbyte - 1) : i \notin unreadable
  BY <1>1, <1>2, <1>3 DEF ReadReturns
<1> QED
  BY <1>1, <1>2, <1>4, <1>5, Sizes

\* The block that is hashed goes on where the blanked prefix ended.
LEMMA BlockExtendsPrefix ==
  ASSUME Inv, NEW r \in 1 .. (buffer_size + Prefetch), HashBlock(r),
         NEW nread, nread = MIN(r, MIN(total_size - offset, buffer_size))
  PROVE  /\ ctx' = BlankedAt(image, info.offset + APPDATA_OFFSET, offset + nread)
         /\ ctx' \in Seq(Cell)
         /\ Len(ctx') = offset + nread
<1> DEFINE at == info.offset + APPDATA_OFFSET
           buffer == CellsAt(image, fdpos, nread)
<1>1. /\ nread \in Nat
      /\ offset + nread <= Len(image)
  <2>1. DEFINE nbyte == MIN(total_size - offset, buffer_size)
  <2>2. nread = MIN(r, nbyte)
    OBVIOUS
  <2> HIDE DEF nbyte
  <2>3. nread \in 1 .. nbyte /\ offset + nread <= Len(image)
    BY <2>2, BlockIsRead DEF nbyte
  <2> QED
    BY <2>3
<1>2. /\ image \in Seq(Cell)
      /\ offset \in Nat
      /\ at \in Nat
      /\ fdpos = offset
      /\ rc = "none"
  <2>1. pc = "read"
    BY DEF HashBlock
  <2>2. IsVolumeInfo(info) /\ fdpos = offset /\ rc = "none"
    BY <2>1 DEF Inv, TypeOK, InTheVolume
  <2>3. image \in Seq(Cell) /\ offset \in Nat
    BY DEF Inv, TypeOK
  <2>4. info.offset \in Nat /\ APPDATA_OFFSET \in Nat
    BY <2>2, Sizes DEF IsVolumeInfo
  <2> QED
    BY <2>2, <2>3, <2>4
<1>3. ctx = BlankedAt(image, at, offset)
  BY <1>2 DEF Inv, HashedIsBlankedPrefix
<1>4. ctx' = ctx \o clear_appdata(buffer, nread, at, offset)
  BY DEF HashBlock
<1>5. clear_appdata(buffer, nread, at, offset) = BlankedBlock(image, at, offset, nread)
  BY <1>1, <1>2, ClearAppDataBlanks
<1> HIDE DEF buffer, at
<1>6. ctx' = BlankedAt(image, at, offset + nread)
  <2>1. at \in Int
    BY <1>2
  <2>2. BlankedAt(image, at, offset) \o BlankedBlock(image, at, offset, nread)
          = BlankedAt(image, at, offset + nread)
    BY ONLY <1>1, <1>2, <2>1, BlankedAtAppend
  <2> QED
    BY <1>3, <1>4, <1>5, <2>2
<1>7. ctx' \in Seq(Cell) /\ Len(ctx') = offset + nread
  BY <1>1, <1>2, <1>6, BlankedAtType
<1> QED
  BY <1>6, <1>7 DEF at

\* The invariant once the check has returned without hashing anything more.
LEMMA ReturnKeepsInv ==
  ASSUME Inv, UNCHANGED <<medium, info, fdpos, hashing>>,
         pc' = "done", rc' \in isomd5sum_status,
         reported' \in Int, bail' \in BOOLEAN,
         rc' = "CHECK_PASSED" => ChecksumIsCorrect,
         rc' # "CHECK_FAILED" => Len(ctx) = offset
  PROVE  Inv'
<1> USE DEF medium, hashing
<1>1. TypeOK'
  BY DEF Inv, TypeOK
<1>2. HashedIsBlankedPrefix'
  BY DEF Inv, HashedIsBlankedPrefix
<1>3. ChecksumIsCorrect' = ChecksumIsCorrect
  BY DEF ChecksumIsCorrect, ReadableSize
<1>4. PassedIsGenuine'
  BY <1>3 DEF PassedIsGenuine
<1> QED
  BY <1>1, <1>2, <1>4 DEF Inv, Unopened, InTheVolume, ReadToTheEnd

\* Before the loop is left by a verdict, exactly what it counts is hashed.
LEMMA HashedIsCounted ==
  ASSUME Inv, rc = "none"
  PROVE  Len(ctx) = offset
BY DEF Inv, HashedIsBlankedPrefix

\* parsepvd() gives numbers, and the loop begins at the beginning.
LEMMA RewindKeepsInv ==
  ASSUME Inv, Rewind
  PROVE  Inv'
<1> USE DEF Rewind, medium, hashing
<1>1. /\ offset = 0 /\ ctx = <<>> /\ rc = "none"
      /\ IsVolumeInfo(VolumeInfo(image))
      /\ image \in Seq(Cell)
  BY DEF Inv, Unopened, TypeOK
<1>2. reported' \in Int /\ bail' \in BOOLEAN
  BY DEF Report, progress, Inv, TypeOK
<1>3. TypeOK'
  <2>1. IsVolumeInfo(info')
    BY <1>1
  <2>2. IsVolumeInfo(info)'
    BY <2>1 DEF IsVolumeInfo
  <2> QED
    BY <1>2, <2>2 DEF Inv, TypeOK
<1>4. InTheVolume'
  <2>1. Len(image) \in Nat
    BY <1>1
  <2>2. total_size' \in Int
    BY <1>1, Sizes DEF total_size, IsVolumeInfo
  <2>3. 0 <= MAX(0, total_size')
    BY <2>2
  <2>4. VolumeInfo(image)' = VolumeInfo(image)
    OBVIOUS
  <2> QED
    BY <1>1, <2>1, <2>3, <2>4 DEF InTheVolume
<1>5. HashedIsBlankedPrefix'
  <2>1. <<>> = BlankedAt(image, info'.offset + APPDATA_OFFSET, 0)
    BY DEF BlankedAt
  <2> QED
    BY <1>1, <2>1 DEF HashedIsBlankedPrefix
<1> QED
  BY <1>1, <1>3, <1>4, <1>5 DEF Inv, Unopened, ReadToTheEnd, PassedIsGenuine

\* A block that is hashed extends the blanked prefix.
LEMMA HashBlockKeepsInv ==
  ASSUME Inv, NEW r \in 1 .. (buffer_size + Prefetch), HashBlock(r)
  PROVE  Inv'
<1> DEFINE nbyte == MIN(total_size - offset, buffer_size)
           nread == MIN(r, nbyte)
           current_fragment == offset \div fragment_size
<1>1. /\ nread \in 1 .. nbyte
      /\ offset + nread <= total_size
      /\ offset + nread <= Len(image)
      /\ \A i \in offset .. (offset + nread - 1) : i \notin unreadable
      /\ fdpos' = offset + nread
  BY BlockIsRead
<1>2. /\ ctx' = BlankedAt(image, info.offset + APPDATA_OFFSET, offset + nread)
      /\ ctx' \in Seq(Cell)
      /\ Len(ctx') = offset + nread
  BY BlockExtendsPrefix
<1>3. /\ pc = "read" /\ offset < total_size
      /\ UNCHANGED <<medium, info, progress>>
      /\ \/ /\ previous_fragment' \in {current_fragment, previous_fragment}
            /\ offset' = offset + nread
            /\ pc' \in {"callback", "read"}
            /\ UNCHANGED rc
         \/ /\ Return("CHECK_FAILED")
            /\ UNCHANGED <<previous_fragment, offset>>
  BY DEF HashBlock
<1>4. /\ IsVolumeInfo(info)
      /\ offset \in Nat /\ Len(image) \in Nat /\ nread \in Nat
      /\ total_size \in Int /\ previous_fragment \in Int
      /\ rc = "none" /\ info = VolumeInfo(image)
      /\ \A i \in 0 .. (offset - 1) : i \notin unreadable
  <2>1. IsVolumeInfo(info) /\ offset \in Nat /\ Len(image) \in Nat
    BY <1>3 DEF Inv, TypeOK
  <2>2. total_size \in Int
    BY <2>1, Sizes DEF total_size, IsVolumeInfo
  <2>3. nread \in Nat
    BY <1>1, <2>1, <2>2, Sizes
  <2> QED
    BY <1>3, <2>1, <2>2, <2>3 DEF Inv, TypeOK, InTheVolume
<1>5. current_fragment \in Int
  <2>1. total_size > 0
    BY <1>3, <1>4
  <2>2. fragment_size \in Nat \ {0}
    BY <1>4, <2>1, FragmentSizeIsPositive
  <2> QED
    BY <1>4, <2>2
<1> HIDE DEF nbyte, nread, current_fragment
<1>6. IsVolumeInfo(info)'
  BY <1>3, <1>4 DEF IsVolumeInfo
<1>7. TypeOK'
  <2>1. /\ offset' \in Nat /\ fdpos' \in Nat /\ previous_fragment' \in Int
    BY <1>1, <1>3, <1>4, <1>5
  <2>2. pc' \in {"read", "callback", "done"} /\ rc' \in {"none", "CHECK_FAILED"}
    BY <1>3, <1>4 DEF Return
  <2> QED
    BY <1>2, <1>3, <1>6, <2>1, <2>2
    DEF Inv, TypeOK, medium, progress, isomd5sum_status
<1>8. InTheVolume'
  <2>1. CASE Return("CHECK_FAILED")
    BY <2>1 DEF Return, InTheVolume
  <2>2. CASE offset' = offset + nread /\ UNCHANGED rc
    <3>1. \A i \in 0 .. (offset + nread - 1) : i \notin unreadable
      BY <1>1, <1>4
    <3>2. total_size' = total_size /\ VolumeInfo(image)' = VolumeInfo(image)
      BY <1>3 DEF total_size, medium
    <3>3. offset + nread <= MAX(0, total_size)
      BY <1>1, <1>4
    <3> QED
      BY <1>1, <1>3, <1>4, <2>2, <3>1, <3>2, <3>3 DEF InTheVolume, medium
  <2> QED
    BY <1>3, <2>1, <2>2
<1>9. HashedIsBlankedPrefix'
  BY <1>2, <1>3, <1>4 DEF HashedIsBlankedPrefix, Return, medium
<1> QED
  BY <1>3, <1>4, <1>7, <1>8, <1>9
  DEF Inv, Unopened, ReadToTheEnd, PassedIsGenuine, Return

\* Leaving the loop keeps the invariant where nothing more can be read.
LEMMA FinishKeepsInv ==
  ASSUME Inv, pc = "read", pc' = "finish",
         UNCHANGED <<medium, info, fdpos, hashing, progress, rc>>,
         \/ offset >= total_size
         \/ offset = Len(image)
         \/ offset \in unreadable
  PROVE  Inv'
<1> USE DEF medium, hashing, progress
<1>1. /\ IsVolumeInfo(info) /\ image \in Seq(Cell)
      /\ offset \in Nat /\ Len(image) \in Nat /\ total_size \in Int
  <2>1. IsVolumeInfo(info) /\ image \in Seq(Cell) /\ offset \in Nat
    BY DEF Inv, TypeOK
  <2> QED
    BY <2>1, Sizes DEF total_size, IsVolumeInfo
<1>2. offset = ReadableSize(info)
  <2>1. /\ offset <= MAX(0, total_size) /\ offset <= Len(image)
        /\ \A i \in 0 .. (offset - 1) : i \notin unreadable
    BY DEF Inv, InTheVolume
  <2>2. offset \in 0 .. MAX(0, total_size)
    BY <1>1, <2>1
  <2>3. offset = MAX(0, total_size) \/ offset = Len(image) \/ offset \in unreadable
    BY <1>1, <2>1
  <2> QED
    BY <1>1, <2>1, <2>2, <2>3, ReadableSizeIs DEF total_size, IsVolumeInfo
<1>3. TypeOK'
  BY <1>1 DEF Inv, TypeOK, IsVolumeInfo
<1>4. InTheVolume'
  <2>1. total_size' = total_size /\ VolumeInfo(image)' = VolumeInfo(image)
    BY DEF total_size
  <2> QED
    BY <2>1 DEF Inv, InTheVolume
<1>5. ReadToTheEnd'
  BY <1>2 DEF ReadToTheEnd, ReadableSize
<1>6. HashedIsBlankedPrefix'
  BY DEF Inv, HashedIsBlankedPrefix
<1>7. PassedIsGenuine'
  BY DEF Inv, InTheVolume, PassedIsGenuine
<1> QED
  BY <1>3, <1>4, <1>5, <1>6, <1>7 DEF Inv, Unopened

\* The callback sees the loop only.
LEMMA CallBackKeepsInv ==
  ASSUME Inv, CallBack
  PROVE  Inv'
<1> USE DEF CallBack
<1>1. CASE pc' = "read" /\ UNCHANGED <<bail, rc>>
  <2> USE DEF medium, hashing
  <2>1. TypeOK'
    BY <1>1 DEF Inv, TypeOK, IsVolumeInfo
  <2>2. InTheVolume'
    <3>1. total_size' = total_size /\ VolumeInfo(image)' = VolumeInfo(image)
      BY DEF total_size
    <3> QED
      BY <1>1, <3>1 DEF Inv, InTheVolume
  <2>3. HashedIsBlankedPrefix'
    BY <1>1 DEF Inv, HashedIsBlankedPrefix
  <2>4. PassedIsGenuine'
    BY <1>1 DEF Inv, InTheVolume, PassedIsGenuine
  <2> QED
    BY <1>1, <2>1, <2>2, <2>3, <2>4 DEF Inv, Unopened, ReadToTheEnd
<1>2. CASE bail' = TRUE /\ Return("CHECK_ABORTED")
  <2>1. offset \in Nat /\ rc = "none"
    BY DEF Inv, TypeOK, InTheVolume
  <2>2. Len(ctx) = offset
    BY <2>1, HashedIsCounted
  <2>3. /\ rc' \in isomd5sum_status /\ rc' # "CHECK_PASSED" /\ pc' = "done"
        /\ reported' \in Int /\ bail' \in BOOLEAN
    BY <1>2, <2>1 DEF Return, isomd5sum_status
  <2> QED
    BY <2>2, <2>3, ReturnKeepsInv
<1> QED
  BY <1>1, <1>2

\* PASS is returned only for the digest of all that can be read.
LEMMA ConcludeKeepsInv ==
  ASSUME Inv, Conclude
  PROVE  Inv'
<1> USE DEF Conclude
<1>1. /\ IsVolumeInfo(info) /\ info = VolumeInfo(image) /\ rc = "none"
      /\ offset = ReadableSize(info)
  BY DEF Inv, TypeOK, InTheVolume, ReadToTheEnd
<1>2. Len(ctx) = offset
  BY <1>1, HashedIsCounted
<1>3. ctx = BlankedAt(image, info.offset + APPDATA_OFFSET, ReadableSize(info))
  BY <1>1, <1>2 DEF Inv, HashedIsBlankedPrefix
<1>4. rc' = "CHECK_PASSED" => ChecksumIsCorrect
  <2>1. rc' = "CHECK_PASSED" => info.hashsum = Digest(info.algorithm, ctx)
    BY DEF Return, Verdict
  <2> QED
    BY <1>1, <1>3, <2>1 DEF ChecksumIsCorrect
<1>5. reported' \in Int /\ bail' \in BOOLEAN
  BY <1>1 DEF Report, progress, Inv, TypeOK, IsVolumeInfo
<1>6. pc' = "done" /\ rc' \in isomd5sum_status
  BY DEF Return, Verdict, isomd5sum_status
<1> QED
  BY <1>2, <1>4, <1>5, <1>6, ReturnKeepsInv

\* Every action keeps the invariant.
LEMMA InvNext == Inv /\ [Next]_vars => Inv'
<1> SUFFICES ASSUME Inv, [Next]_vars
             PROVE  Inv'
  OBVIOUS
<1>1. CASE FileNotFound
  <2>1. rc = "none" /\ reported \in Int /\ bail \in BOOLEAN
    BY <1>1 DEF FileNotFound, Inv, TypeOK, Unopened
  <2> QED
    BY <1>1, <2>1, HashedIsCounted, ReturnKeepsInv
    DEF FileNotFound, Return, progress, isomd5sum_status
<1>2. CASE NotFound
  <2>1. rc = "none" /\ reported \in Int /\ bail \in BOOLEAN
    BY <1>2 DEF NotFound, Inv, TypeOK, Unopened
  <2> QED
    BY <1>2, <2>1, HashedIsCounted, ReturnKeepsInv
    DEF NotFound, Return, progress, isomd5sum_status
<1>3. CASE Rewind
  BY <1>3, RewindKeepsInv
<1>4. CASE ReadBlock
  BY <1>4, HashBlockKeepsInv DEF ReadBlock
<1>5. CASE StopReading
  <2>1. offset \in Nat /\ Len(image) \in Nat /\ fdpos = offset /\ offset <= Len(image)
    BY <1>5 DEF StopReading, Inv, TypeOK, InTheVolume
  <2>2. offset = Len(image) \/ offset \in unreadable
    <3>1. total_size \in Int
      <4>1. IsVolumeInfo(info)
        BY <1>5 DEF StopReading, Inv, TypeOK
      <4> QED
        BY <2>1, <4>1, Sizes DEF total_size, IsVolumeInfo
    <3>2. MIN(total_size - offset, buffer_size) \in Nat
      BY <1>5, <2>1, <3>1, Sizes DEF StopReading
    <3>3. PICK r \in {-1, 0} :
            ReadReturns(image, unreadable, offset, MIN(total_size - offset, buffer_size),
                        ShortReads, Prefetch, r)
      BY <1>5, <2>1 DEF StopReading
    <3> QED
      BY <2>1, <3>2, <3>3 DEF ReadReturns
  <2> QED
    BY <1>5, <2>2, FinishKeepsInv DEF StopReading
<1>6. CASE AllRead
  BY <1>6, FinishKeepsInv DEF AllRead
<1>7. CASE CallBack
  BY <1>7, CallBackKeepsInv
<1>8. CASE Conclude
  BY <1>8, ConcludeKeepsInv
<1>9. CASE UNCHANGED vars
  <2> USE DEF vars, medium, hashing, progress
  <2>1. TypeOK'
    BY <1>9 DEF Inv, TypeOK, IsVolumeInfo
  <2>2. total_size' = total_size /\ VolumeInfo(image)' = VolumeInfo(image)
    BY <1>9 DEF total_size
  <2>3. InTheVolume' /\ Unopened'
    BY <1>9, <2>2 DEF Inv, InTheVolume, Unopened, IsVolumeInfo
  <2>4. ReadToTheEnd'
    BY <1>9 DEF Inv, ReadToTheEnd, ReadableSize
  <2>5. HashedIsBlankedPrefix'
    BY <1>9 DEF Inv, HashedIsBlankedPrefix
  <2>6. PassedIsGenuine'
    BY <1>9, <2>2 DEF Inv, PassedIsGenuine, ChecksumIsCorrect, ReadableSize
  <2> QED
    BY <2>1, <2>3, <2>4, <2>5, <2>6 DEF Inv
<1> QED
  BY <1>1, <1>2, <1>3, <1>4, <1>5, <1>6, <1>7, <1>8, <1>9 DEF Next, Returned

-----------------------------------------------------------------------------

\* The inductive invariant holds of every behaviour of the check.
THEOREM Invariance == Spec => []Inv
<1>1. Init => Inv
  BY InvInit
<1>2. Inv /\ [Next]_vars => Inv'
  BY InvNext
<1> QED
  BY <1>1, <1>2, PTL DEF Spec

\* The variables keep their types: in particular, checkmd5sum() never uses
\* what parsepvd() did not return, and the number of a fragment is one.
THEOREM TypeCorrect == Spec => []TypeOK
<1>1. Inv => TypeOK
  BY DEF Inv
<1> QED
  BY <1>1, Invariance, PTL

\* For every layout, medium and pattern of reads, clear_appdata() and the
\* handling of the counts that read() returns leave exactly the blanked
\* beginning of the image hashed.
THEOREM HashesBlankedPrefix == Spec => []HashedIsBlankedPrefix
<1>1. Inv => HashedIsBlankedPrefix
  BY DEF Inv
<1> QED
  BY <1>1, Invariance, PTL

\* No medium passes the check unless the digest stored on it is the digest
\* of all that can be read of its volume.
THEOREM PassIsGenuine == Spec => []PassedIsGenuine
<1>1. Inv => PassedIsGenuine
  BY DEF Inv
<1> QED
  BY <1>1, Invariance, PTL

-----------------------------------------------------------------------------
(* The fragment sums, where every read() returns what it was asked for.    *)

Loop == {"read", "callback", "finish"}

\* MCMediaCheck_small shows what is said of media with other certificates.
CertificatesAreStandard ==
  /\ FRAGMENT_SUM_SIZE \div FRAGMENT_COUNT <= 16
  /\ \A m \in Media : HasVolumeInfo(m.image, m.unreadable) => StandardCertificate(m.image)

CertificatesAreWhole ==
  \A m \in Media :
    HasVolumeInfo(m.image, m.unreadable) => SumsAreWhole(m.image, m.unreadable)

CertificatesAgree ==
  \A m \in Media : HasVolumeInfo(m.image, m.unreadable) => SumsAgree(m.image, m.unreadable)

Width == FRAGMENT_SUM_SIZE \div FRAGMENT_COUNT

Readable == ReadablePart(image, unreadable)

\* The fragment ends that are passed when o cells are hashed.
EndsBelow(o) == {p \in FragmentEnds(image, Readable) : p < o}

SumStored(f) == SubSeq(info.fragmentsums, (f - 1) * Width + 1, f * Width)

SumDue(f) == FragmentSum(Digest(info.algorithm, HashedAt(image, Readable, f)), Width)

\* The image is that of a medium, and anything is hashed only of one with a
\* certificate.
OnMedium ==
  /\ \E m \in Media : image = m.image /\ unreadable = m.unreadable
  /\ pc \in Loop \/ offset > 0 =>
       /\ HasVolumeInfo(image, unreadable)
       /\ info = VolumeInfo(image)

\* Every read begins at a multiple of the buffer size, and the fragment of
\* the last one is as many fragment ends from the beginning.
InStep ==
  /\ pc = "open" => previous_fragment = 0
  /\ pc \in Loop /\ info.fragmentcount # 0 =>
       /\ offset % buffer_size = 0 \/ offset = Readable
       /\ offset > 0 /\ offset % buffer_size = 0
            => previous_fragment = (offset - buffer_size) \div FragmentSize(image)
       /\ previous_fragment = Cardinality(EndsBelow(offset))

\* The sums of the fragment ends that were passed are right.
SumsSeen ==
  offset > 0 /\ info.fragmentcount # 0 =>
    \A f \in 1 .. Cardinality(EndsBelow(offset)) : SumStored(f) = SumDue(f)

-----------------------------------------------------------------------------
(* Reads and fragments.                                                    *)

\* What the standard certificate says of the volume in terms of the image.
LEMMA AboutVolume ==
  ASSUME CertificatesAreStandard, Inv, OnMedium, pc \in Loop \/ offset > 0
  PROVE  /\ image \in Seq(Cell) /\ Len(image) \in Nat
         /\ SectorsOf(image) \in Nat
         /\ total_size = VolumeSize(image) /\ total_size \in Int
         /\ info.offset + APPDATA_OFFSET = AppDataStart(image)
         /\ HashedSize(image) \in 0 .. Len(image)
         /\ HashedSize(image) = MAX(0, MIN(total_size, Len(image)))
         /\ Readable \in Nat
         /\ Readable \in 0 .. HashedSize(image)
         /\ \A i \in 0 .. (Readable - 1) : i \notin unreadable
         /\ Readable = HashedSize(image) \/ Readable \in unreadable
<1>1. PICK m \in Media : image = m.image /\ unreadable = m.unreadable
  BY DEF OnMedium
<1>2. HasVolumeInfo(image, unreadable) /\ info = VolumeInfo(image)
  BY DEF OnMedium
<1>3. StandardCertificate(image)
  BY <1>1, <1>2 DEF CertificatesAreStandard
<1>4. /\ info.offset = PvdOffset(image)
      /\ info.isosize = isosize(image)
      /\ info.skipsectors = SKIPSECTORS
  <2>1. info.skipsectors = SKIPSECTORS
    BY <1>2, <1>3 DEF StandardCertificate
  <2>2. VolumeInfo(image).offset = PvdOffset(image)
        /\ VolumeInfo(image).isosize = isosize(image)
    BY DEF VolumeInfo
  <2> QED
    BY <1>2, <2>1, <2>2
<1>5. image \in Seq(Cell) /\ Len(image) \in Nat /\ SectorsOf(image) \in Nat
  BY <1>3 DEF Inv, TypeOK, StandardCertificate
<1>6. info.offset + APPDATA_OFFSET = AppDataStart(image)
  BY <1>3, <1>4 DEF StandardCertificate, AppDataStart
<1>7. total_size = VolumeSize(image)
  BY <1>4 DEF total_size, VolumeSize
<1>8. /\ VolumeSize(image) \in Int
      /\ HashedSize(image) \in Nat /\ HashedSize(image) <= Len(image)
  BY <1>5, VolumeSizeIs
<1>9. /\ Readable \in 0 .. HashedSize(image)
      /\ \A i \in 0 .. (Readable - 1) : i \notin unreadable
      /\ Readable = HashedSize(image) \/ Readable \in unreadable
  BY <1>8, ReadablePartExists DEF Readable
<1> QED
  BY <1>5, <1>6, <1>7, <1>8, <1>9 DEF HashedSize

\* ... and of the fragments.
LEMMA AboutFragments ==
  ASSUME CertificatesAreStandard, Inv, OnMedium, pc \in Loop \/ offset > 0,
         info.fragmentcount # 0, total_size > 0
  PROVE  /\ info.fragmentcount = FRAGMENT_COUNT
         /\ fragment_size = FragmentSize(image)
         /\ FragmentSize(image) \in Nat \ {0}
         /\ buffer_size <= FragmentSize(image)
<1>1. PICK m \in Media : image = m.image /\ unreadable = m.unreadable
  BY DEF OnMedium
<1>2. HasVolumeInfo(image, unreadable) /\ info = VolumeInfo(image)
  BY DEF OnMedium
<1>3. StandardCertificate(image)
  BY <1>1, <1>2 DEF CertificatesAreStandard
<1>4. total_size = VolumeSize(image) /\ total_size \in Int
  BY AboutVolume
<1>5. info.fragmentcount = FRAGMENT_COUNT /\ buffer_size <= FragmentSize(image)
  BY <1>2, <1>3, <1>4 DEF StandardCertificate, WideFragments
<1>6. fragment_size = FragmentSize(image)
  BY <1>4, <1>5 DEF fragment_size, FragmentSize
<1>7. FragmentSize(image) \in Int
  <2>1. FRAGMENT_COUNT + 1 \in Nat \ {0}
    BY Layout
  <2> QED
    BY <1>4, <2>1, Division DEF FragmentSize
<1> QED
  BY <1>5, <1>6, <1>7, BufferSize

\* A block is one of a volume that has a size.
LEMMA BlockIsOfVolume ==
  ASSUME Inv, NEW r \in 1 .. (buffer_size + Prefetch), HashBlock(r)
  PROVE  total_size > 0
<1>1. pc = "read" /\ offset < total_size
  BY DEF HashBlock
<1>2. offset \in Nat /\ IsVolumeInfo(info)
  BY <1>1 DEF Inv, TypeOK
<1>3. total_size \in Int
  BY <1>2, Sizes DEF total_size, IsVolumeInfo
<1> QED
  BY <1>1, <1>2, <1>3

\* What is to be hashed is what is readable.
LEMMA ReadableSizeIsPart ==
  ASSUME CertificatesAreStandard, Inv, OnMedium, pc \in Loop \/ offset > 0
  PROVE  ReadableSize(info) = Readable
<1>1. /\ image \in Seq(Cell) /\ Len(image) \in Nat
      /\ total_size \in Int
      /\ HashedSize(image) = MAX(0, MIN(total_size, Len(image)))
      /\ Readable \in 0 .. HashedSize(image)
      /\ \A i \in 0 .. (Readable - 1) : i \notin unreadable
      /\ Readable = HashedSize(image) \/ Readable \in unreadable
  BY AboutVolume
<1>2. info.isosize \in Int /\ info.skipsectors \in Int
  <2>1. PICK m \in Media : image = m.image /\ unreadable = m.unreadable
    BY DEF OnMedium
  <2>2. HasVolumeInfo(image, unreadable) /\ info = VolumeInfo(image)
    BY DEF OnMedium
  <2>3. IsVolumeInfo(info)
    BY <2>1, <2>2, MediaAssumption DEF MediaAssumption
  <2> QED
    BY <2>3 DEF IsVolumeInfo
<1> DEFINE size == MAX(0, info.isosize - info.skipsectors * SECTOR_SIZE)
<1>3. size = MAX(0, total_size) /\ size \in Nat
  BY <1>1 DEF total_size
<1>4. Readable \in 0 .. size /\ Readable <= Len(image)
  BY <1>1, <1>3
<1>5. Readable = size \/ Readable = Len(image) \/ Readable \in unreadable
  BY <1>1, <1>3
<1> QED
  BY <1>1, <1>2, <1>4, <1>5, ReadableSizeIs

\* Where no read() returns too little, a block is the whole buffer, or ends
\* where nothing more can be read.
LEMMA BlockIsFull ==
  ASSUME CertificatesAreStandard, ~ShortReads, Inv, OnMedium,
         NEW r \in 1 .. (buffer_size + Prefetch), HashBlock(r),
         NEW nread, nread = MIN(r, MIN(total_size - offset, buffer_size))
  PROVE  /\ nread \in 1 .. buffer_size
         /\ offset + nread <= Readable
         /\ nread = buffer_size \/ offset + nread = Readable
<1> DEFINE nbyte == MIN(total_size - offset, buffer_size)
<1>1. pc = "read" /\ offset < total_size
  BY DEF HashBlock
<1>2. /\ offset \in Nat /\ Len(image) \in Nat /\ total_size \in Int
      /\ fdpos = offset
      /\ \A i \in 0 .. (offset - 1) : i \notin unreadable
      /\ HashedSize(image) = MAX(0, MIN(total_size, Len(image)))
      /\ Readable \in 0 .. HashedSize(image)
      /\ \A i \in 0 .. (Readable - 1) : i \notin unreadable
      /\ Readable = HashedSize(image) \/ Readable \in unreadable
  BY <1>1, AboutVolume DEF Loop, Inv, TypeOK, InTheVolume
<1>3. /\ nread = MIN(r, nbyte)
      /\ nbyte \in Nat /\ nbyte <= total_size - offset /\ nbyte <= buffer_size
      /\ nbyte = total_size - offset \/ nbyte = buffer_size
  BY <1>1, <1>2, Sizes
<1>4. ReadReturns(image, unreadable, offset, nbyte, ShortReads, Prefetch, r)
  BY <1>2 DEF HashBlock
<1> HIDE DEF nbyte
<1>5. /\ nread \in 1 .. nbyte
      /\ offset + nread <= Len(image)
      /\ \A i \in offset .. (offset + nread - 1) : i \notin unreadable
  BY <1>3, BlockIsRead DEF nbyte
<1>6. nread = nbyte \/ offset + nread = Len(image) \/ offset + nread \in unreadable
  <2>1. r \in 1 .. nbyte => r = nbyte \/ offset + r = Len(image) \/ offset + r \in unreadable
    BY <1>3, <1>4 DEF ReadReturns
  <2>2. CASE r <= nbyte
    <3>1. nread = r
      BY <1>3, <2>2
    <3>2. r \in 1 .. nbyte
      BY <1>3, <2>2, Sizes
    <3> QED
      BY <2>1, <3>1, <3>2
  <2>3. CASE r > nbyte
    BY <1>3, <2>3
  <2> QED
    BY <1>3, <2>2, <2>3, Sizes
<1> DEFINE o == offset + nread
<1>7. o \in Nat /\ o <= total_size /\ o <= Len(image) /\ offset < o
  BY <1>2, <1>3, <1>5
<1>8. \A i \in 0 .. (o - 1) : i \notin unreadable
  <2>1. \A i \in 0 .. (o - 1) : i \in 0 .. (offset - 1) \/ i \in offset .. (offset + nread - 1)
    BY <1>2, <1>7
  <2> QED
    BY <1>2, <1>5, <2>1
<1>9. o <= Readable
  <2>1. ~(Readable < o)
    <3> SUFFICES ASSUME Readable < o
                 PROVE  FALSE
      OBVIOUS
    <3>1. Readable \in 0 .. (o - 1)
      BY <1>2, <1>7
    <3>2. Readable = HashedSize(image)
      BY <1>2, <1>8, <3>1
    <3> QED
      BY <1>2, <1>7, <3>2
  <2> QED
    BY <1>2, <1>7, <2>1
<1>10. nread = buffer_size \/ o = Readable
  <2>1. CASE nread = nbyte
    <3>1. nread = buffer_size \/ o = total_size
      BY <1>2, <1>3, <2>1
    <3> QED
      BY <1>2, <1>7, <1>9, <3>1
  <2>2. CASE o = Len(image)
    BY <1>2, <1>7, <1>9, <2>2
  <2>3. CASE o \in unreadable
    <3>1. o \notin 0 .. (Readable - 1)
      BY <1>2, <2>3
    <3> QED
      BY <1>2, <1>7, <1>9, <3>1
  <2> QED
    BY <1>6, <2>1, <2>2, <2>3
<1>11. nread \in 1 .. buffer_size
  BY <1>3, <1>5, Sizes
<1> QED
  BY <1>9, <1>10, <1>11

\* So it begins at a multiple of the buffer size, and it is compared just if
\* that is a fragment end, with the sum of that end.
LEMMA ComparedAtEnds ==
  ASSUME CertificatesAreStandard, ~ShortReads, Inv, OnMedium, InStep,
         NEW r \in 1 .. (buffer_size + Prefetch), HashBlock(r), info.fragmentcount # 0,
         NEW nread, nread = MIN(r, MIN(total_size - offset, buffer_size)),
         NEW K, K = Cardinality(EndsBelow(offset)),
         NEW current, current = offset \div fragment_size
  PROVE  /\ offset \in Nat /\ offset % buffer_size = 0 /\ offset < Readable
         /\ nread \in 1 .. buffer_size
         /\ offset + nread = MIN(offset + buffer_size, Readable)
         /\ offset + nread = Readable \/ (offset + nread) % buffer_size = 0
         /\ (offset + nread) % buffer_size = 0 => nread = buffer_size
         /\ K \in Nat /\ previous_fragment = K
         /\ offset \in FragmentEnds(image, Readable) <=> EndsFragment(current)
         /\ EndsFragment(current) => current = K + 1
         /\ Cardinality(EndsBelow(offset + nread)) = IF EndsFragment(current) THEN K + 1 ELSE K
         /\ EndsFragment(current) => FragmentEnd(image, Readable, K + 1) = offset
<1> DEFINE size == FragmentSize(image)
           ends == FragmentEnds(image, Readable)
<1>1. pc = "read" /\ pc \in Loop
  BY DEF HashBlock, Loop
<1>2. /\ nread \in 1 .. buffer_size
      /\ offset + nread <= Readable
      /\ nread = buffer_size \/ offset + nread = Readable
  BY BlockIsFull
<1>3. /\ offset \in Nat /\ Readable \in Nat
      /\ size \in Nat \ {0} /\ buffer_size <= size
      /\ fragment_size = size /\ buffer_size \in Nat \ {0}
      /\ info.fragmentcount = FRAGMENT_COUNT
  BY <1>1, AboutVolume, AboutFragments, BlockIsOfVolume, Sizes DEF Inv, TypeOK
<1>4. offset < Readable
  BY <1>2, <1>3
<1>5. /\ offset % buffer_size = 0
      /\ offset > 0 => previous_fragment = (offset - buffer_size) \div size
      /\ previous_fragment = K
  BY <1>1, <1>3, <1>4 DEF InStep
<1> HIDE DEF size
<1>6. (offset + buffer_size) % buffer_size = 0
      /\ \A p \in Int : p % buffer_size = 0 /\ offset < p => offset + buffer_size <= p
  <2>1. offset \in Int
    BY <1>3
  <2> QED
    BY <1>3, <1>5, <2>1, NextMultiple
<1>7. /\ offset + nread = MIN(offset + buffer_size, Readable)
      /\ offset + nread = Readable \/ (offset + nread) % buffer_size = 0
      /\ (offset + nread) % buffer_size = 0 => nread = buffer_size
  <2>1. offset + nread \in Int /\ offset < offset + nread
    BY <1>2, <1>3
  <2>2. (offset + nread) % buffer_size = 0 => offset + buffer_size <= offset + nread
    BY <1>6, <2>1
  <2>3. (offset + nread) % buffer_size = 0 => nread = buffer_size
    BY <1>2, <1>3, <2>2
  <2>4. offset + nread = MIN(offset + buffer_size, Readable)
    BY ONLY <1>2, <1>3 DEF MIN
  <2>5. nread = buffer_size => (offset + nread) % buffer_size = 0
    BY ONLY <1>6
  <2> QED
    BY ONLY <1>2, <2>3, <2>4, <2>5
<1>8. K \in Nat
  <2>1. EndsBelow(offset) \subseteq ends
    BY DEF EndsBelow
  <2> QED
    BY <1>3, <2>1, FragmentEndsFinite
<1>9. offset = 0 => K = 0 /\ current = 0
  <2> SUFFICES ASSUME offset = 0
               PROVE  K = 0 /\ current = 0
    OBVIOUS
  <2>1. \A p \in ends : ~(p < 0)
    BY DEF FragmentEnds
  <2>2. EndsBelow(offset) = {}
    BY <2>1 DEF EndsBelow
  <2>3. K = 0
    BY <2>2, FS_EmptySet
  <2>4. (size * 0 + 0) \div size = 0 /\ size * 0 + 0 = 0
    BY <1>3, DivisionIs
  <2> QED
    BY <1>3, <2>3, <2>4
<1>10. EndsFragment(current) <=> current # K
  BY <1>5 DEF EndsFragment
<1>11. offset \in ends <=> current # K
  <2>1. offset \in ends <=> /\ offset \in 1 .. (Readable - 1)
                            /\ offset % buffer_size = 0
                            /\ current # (offset - buffer_size) \div size
    BY <1>3 DEF FragmentEnds, size
  <2>2. CASE offset = 0
    BY <1>9, <2>1, <2>2
  <2>3. CASE offset > 0
    BY <1>3, <1>4, <1>5, <2>1, <2>3
  <2> QED
    BY <1>3, <2>2, <2>3
<1>12. current # K => current = K + 1
  <2> SUFFICES ASSUME current # K, offset > 0
               PROVE  current = K + 1
    BY <1>3, <1>9
  <2> DEFINE before == offset - buffer_size
  <2>1. /\ before \in Int /\ offset \in Int
        /\ K = before \div size /\ current = offset \div size
    BY <1>3, <1>5
  <2>2. before <= offset /\ offset <= before + size
    BY <1>3
  <2> HIDE DEF before
  <2>3. K <= current
    BY <1>3, <2>1, <2>2, DivisionOrder
  <2>4. current <= K + 1
    <3>1. K \in Int /\ before = size * K + (before % size) /\ before % size \in 0 .. (size - 1)
      BY <1>3, <2>1, Division
    <3>2. PICK m \in 0 .. (size - 1) : before = size * K + m
      BY <3>1
    <3>3. (before + size) \div size = K + 1
      <4>1. before + size = size * (K + 1) + m
        BY <1>3, <3>1, <3>2
      <4>2. (size * (K + 1) + m) \div size = K + 1
        <5>1. K + 1 \in Int /\ size \in Nat \ {0}
          BY <1>3, <3>1
        <5> QED
          BY ONLY <5>1, <3>2, DivisionIs
      <4> QED
        BY <4>1, <4>2
    <3>4. before + size \in Int
      BY <1>3, <2>1
    <3>5. offset \div size <= (before + size) \div size
      BY ONLY <1>3, <2>1, <2>2, <3>4, DivisionOrder
    <3> QED
      BY <2>1, <3>3, <3>5
  <2>5. current \in Int
    BY <1>3, <2>1, Division
  <2> QED
    BY <1>8, <2>3, <2>4, <2>5
<1>13. Cardinality(EndsBelow(offset + nread)) = IF offset \in ends THEN K + 1 ELSE K
  <2>1. Cardinality({p \in ends : p < offset + nread})
          = IF offset \in ends THEN Cardinality({p \in ends : p < offset}) + 1
            ELSE Cardinality({p \in ends : p < offset})
    <3>1. /\ Readable \in Nat /\ offset \in Nat /\ offset < Readable
          /\ offset % buffer_size = 0 /\ nread \in 1 .. buffer_size
      BY <1>2, <1>3, <1>4, <1>5
    <3> QED
      BY ONLY <3>1, EndsPassed
  <2> QED
    BY <2>1 DEF EndsBelow
<1>14. offset \in ends => FragmentEnd(image, Readable, K + 1) = offset
  BY <1>3, FragmentEndIs DEF EndsBelow
<1> QED
  BY <1>2, <1>3, <1>4, <1>5, <1>7, <1>8, <1>10, <1>11, <1>12, <1>13, <1>14

-----------------------------------------------------------------------------
(* What is compared.                                                       *)

\* A fragment has as many characters as the digest has room for.
LEMMA AboutWidth ==
  ASSUME CertificatesAreStandard
  PROVE  /\ Width \in Nat
         /\ \A alg : MIN(Width, DigestBytes(alg)) = Width
<1>1. Width \in Int
  BY Layout, Division DEF Width
<1>2. Width >= 0
  <2>1. FRAGMENT_SUM_SIZE = FRAGMENT_COUNT * Width + (FRAGMENT_SUM_SIZE % FRAGMENT_COUNT)
    BY Layout, Division DEF Width
  <2>2. FRAGMENT_COUNT * Width = FRAGMENT_SUM_SIZE /\ FRAGMENT_SUM_SIZE >= 0
    BY <1>1, <2>1, Layout
  <2> DEFINE product == FRAGMENT_COUNT * Width
  <2>3. product \in Int /\ (Width < 0 => product < 0)
    BY <1>1, Layout
  <2>4. product >= 0
    BY <2>2, Layout
  <2> HIDE DEF product
  <2> QED
    BY ONLY <1>1, <2>3, <2>4
<1>3. Width <= 16
  BY DEF CertificatesAreStandard, Width
<1> QED
  BY <1>1, <1>2, <1>3 DEF DigestBytes

\* The fragment end that is compared is one of those there are.
LEMMA EndsAreEnough ==
  ASSUME NEW img, NEW n \in Nat, NEW o \in FragmentEnds(img, n)
  PROVE  Cardinality({p \in FragmentEnds(img, n) : p < o}) + 1
           \in 1 .. Cardinality(FragmentEnds(img, n))
<1> DEFINE ends == FragmentEnds(img, n)
<1>1. Cardinality({p \in ends : p <= o}) = Cardinality({p \in ends : p < o}) + 1
  BY OneMoreEnd
<1>2. {p \in ends : p <= o} \subseteq ends /\ {p \in ends : p < o} \subseteq ends
  OBVIOUS
<1>3. /\ IsFiniteSet(ends) /\ Cardinality(ends) \in Nat
      /\ Cardinality({p \in ends : p < o}) \in Nat
  BY FragmentEndsFinite
<1>4. Cardinality({p \in ends : p <= o}) <= Cardinality(ends)
  BY <1>2, <1>3, FS_Subset
<1> QED
  BY <1>1, <1>3, <1>4

\* What is hashed then is what the certificate has the sum of.
LEMMA ComparedIsDue ==
  ASSUME CertificatesAreStandard, ~ShortReads, Inv, OnMedium, InStep,
         NEW r \in 1 .. (buffer_size + Prefetch), HashBlock(r), info.fragmentcount # 0,
         NEW K, K = Cardinality(EndsBelow(offset)),
         NEW current, current = offset \div fragment_size,
         EndsFragment(current)
  PROVE  /\ current = K + 1
         /\ K + 1 \in 1 .. Cardinality(FragmentEnds(image, Readable))
         /\ ctx' = HashedAt(image, Readable, K + 1)
<1> DEFINE nread == MIN(r, MIN(total_size - offset, buffer_size))
<1>1. /\ offset \in FragmentEnds(image, Readable)
      /\ current = K + 1
      /\ offset + nread = MIN(offset + buffer_size, Readable)
      /\ FragmentEnd(image, Readable, K + 1) = offset
  BY ComparedAtEnds
<1>2. pc \in Loop
  BY DEF HashBlock, Loop
<1>3. Readable \in Nat /\ info.offset + APPDATA_OFFSET = AppDataStart(image)
  BY <1>2, AboutVolume
<1>4. ctx' = BlankedAt(image, info.offset + APPDATA_OFFSET, offset + nread)
  BY BlockExtendsPrefix
<1> HIDE DEF nread
<1>5. ctx' = HashedAt(image, Readable, K + 1)
  BY <1>1, <1>3, <1>4 DEF HashedAt, Blanked
<1>6. K + 1 \in 1 .. Cardinality(FragmentEnds(image, Readable))
  BY <1>1, <1>3, EndsAreEnough DEF EndsBelow
<1> QED
  BY <1>1, <1>5, <1>6

\* The sum of the K + 1st fragment end is the K + 1st of the sums, and it is
\* there if there are as many as fragment ends.
LEMMA SumIsThere ==
  ASSUME NEW w \in Nat, NEW K \in Nat, NEW count \in Nat, K + 1 <= count,
         NEW len \in Nat, w * count <= len
  PROVE  /\ K * w \in Nat
         /\ K * w + w <= len
         /\ (K + 1) * w = K * w + w
<1>1. K * w \in Nat /\ (K + 1) * w = K * w + w /\ (K + 1) * w = w * (K + 1)
  OBVIOUS
<1>2. w * (K + 1) <= w * count
  <2>1. CASE w = 0
    BY <2>1
  <2>2. CASE w # 0
    BY <2>2, ProductOrder
  <2> QED
    BY <2>1, <2>2
<1>3. w * count \in Nat
  OBVIOUS
<1> QED
  BY <1>1, <1>2, <1>3

\* validate_fragment() where the sum is there: the comparison has one outcome.
LEMMA FragmentValidIs ==
  ASSUME CertificatesAreStandard, info.fragmentcount = FRAGMENT_COUNT,
         info.fragmentsums # Uninitialized, Len(info.fragmentsums) \in Nat,
         NEW K \in Nat, K * Width \in Nat, K * Width + Width <= Len(info.fragmentsums),
         NEW hashed
  PROVE  FragmentValid(hashed, K + 1)
           = {\A i \in 1 .. Width :
                info.fragmentsums[K * Width + i] = <<Digest(info.algorithm, hashed), i>>}
<1> DEFINE sums == info.fragmentsums
           digest == Digest(info.algorithm, hashed)
           j == K * Width
<1>1. Width \in Nat /\ MIN(Width, DigestBytes(info.algorithm)) = Width
  BY AboutWidth
<1>2. (K + 1) - 1 = K
  OBVIOUS
<1>3. ~(j > Len(sums))
  BY <1>1
<1>4. FragmentValid(hashed, K + 1)
        = {\A i \in 1 .. Width : j + i <= Len(sums) /\ sums[j + i] = FragmentSum(digest, Width)[i]}
  BY <1>1, <1>2, <1>3 DEF FragmentValid, Width
<1>5. \A i \in 1 .. Width : FragmentSum(digest, Width)[i] = <<digest, i>>
  BY DEF FragmentSum
<1> HIDE DEF sums, digest, j
<1>6. \A i \in 1 .. Width : j + i <= Len(sums)
  BY <1>1 DEF j, sums
<1>7. (\A i \in 1 .. Width : j + i <= Len(sums) /\ sums[j + i] = FragmentSum(digest, Width)[i])
        <=> (\A i \in 1 .. Width : sums[j + i] = <<digest, i>>)
  BY <1>5, <1>6
<1> QED
  BY <1>4, <1>7 DEF sums, digest, j

\* If so it says whether the sum stored is the sum due.
LEMMA StoredIsDue ==
  ASSUME IsSequence(info.fragmentsums), Width \in Nat,
         NEW K \in Nat, K * Width \in Nat, K * Width + Width <= Len(info.fragmentsums),
         (K + 1) * Width = K * Width + Width,
         \A i \in 1 .. Width :
           info.fragmentsums[K * Width + i]
             = <<Digest(info.algorithm, HashedAt(image, Readable, K + 1)), i>>
  PROVE  SumStored(K + 1) = SumDue(K + 1)
<1> DEFINE sums == info.fragmentsums
           j == K * Width
           digest == Digest(info.algorithm, HashedAt(image, Readable, K + 1))
<1>1. PICK S : sums \in Seq(S)
  BY SequenceIsSeq
<1>2. SumStored(K + 1) = SubSeq(sums, j + 1, j + Width)
  BY DEF SumStored
<1>3. \A i \in 1 .. Width : sums[j + i] = <<digest, i>>
  OBVIOUS
<1>4. SumDue(K + 1) = [i \in 1 .. Width |-> <<digest, i>>]
  BY DEF SumDue, FragmentSum
<1>5. j \in Nat /\ j + Width <= Len(sums) /\ Len(sums) \in Nat
  BY DEF IsSequence
<1> HIDE DEF sums, j, digest
<1>6. SubSeq(sums, j + 1, j + Width) = [i \in 1 .. Width |-> sums[j + i]]
  BY <1>1, <1>5
<1> QED
  BY <1>2, <1>3, <1>4, <1>6

-----------------------------------------------------------------------------
(* They are kept.                                                          *)

\* What a step of the loop leaves alone: neither what is hashed nor where.
Elsewhere ==
  \/ FileNotFound \/ NotFound \/ StopReading \/ AllRead \/ CallBack \/ Conclude
  \/ Returned \/ UNCHANGED vars

\* The steps, as far as the fragment sums tell them apart.
LEMMA NextIs ==
  [Next]_vars <=> Rewind \/ ReadBlock \/ Elsewhere
BY DEF Next, Elsewhere

\* Elsewhere nothing that the sums depend on changes.
LEMMA ElsewhereFacts ==
  ASSUME Elsewhere
  PROVE  /\ UNCHANGED <<image, unreadable, info, offset, previous_fragment>>
         /\ pc' \in Loop => pc \in Loop
         /\ pc' = "open" => pc = "open"
BY DEF Elsewhere, FileNotFound, NotFound, StopReading, AllRead, CallBack, Conclude,
       Returned, vars, medium, hashing, Return, Loop

\* What parsepvd() leaves.
LEMMA RewindFacts ==
  ASSUME Inv, Rewind
  PROVE  /\ UNCHANGED <<image, unreadable, previous_fragment>>
         /\ HasVolumeInfo(image, unreadable) /\ info' = VolumeInfo(image)
         /\ offset' = 0 /\ pc = "open" /\ pc' = "read"
BY DEF Inv, Unopened, Rewind, medium, hashing

\* What a block that is hashed leaves.
LEMMA HashBlockFacts ==
  ASSUME NEW r \in 1 .. (buffer_size + Prefetch), HashBlock(r),
         NEW nread, nread = MIN(r, MIN(total_size - offset, buffer_size)),
         NEW current, current = offset \div fragment_size
  PROVE  /\ UNCHANGED <<image, unreadable, info>>
         /\ pc = "read" /\ pc' # "open"
         /\ \/ /\ EndsFragment(current) => TRUE \in FragmentValid(ctx', current)
               /\ previous_fragment' = IF EndsFragment(current)
                                       THEN current ELSE previous_fragment
               /\ offset' = offset + nread
               /\ pc' # "done" /\ UNCHANGED rc
            \/ /\ EndsFragment(current)
               /\ FALSE \in FragmentValid(ctx', current)
               /\ pc' = "done" /\ rc' = "CHECK_FAILED"
               /\ UNCHANGED <<previous_fragment, offset>>
<1>1. UNCHANGED <<image, unreadable, info>> /\ pc = "read"
  BY DEF HashBlock, medium
<1>2. \/ /\ EndsFragment(current) => TRUE \in FragmentValid(ctx', current)
         /\ previous_fragment' = IF EndsFragment(current)
                                 THEN current ELSE previous_fragment
         /\ offset' = offset + nread
         /\ pc' = IF HasCallback THEN "callback" ELSE "read"
         /\ UNCHANGED rc
      \/ /\ EndsFragment(current)
         /\ FALSE \in FragmentValid(ctx', current)
         /\ Return("CHECK_FAILED")
         /\ UNCHANGED <<previous_fragment, offset>>
  BY DEF HashBlock
<1> QED
  BY <1>1, <1>2 DEF Return

\* At the beginning there is nothing to condemn.
LEMMA OnMediumInit == Init => OnMedium /\ InStep /\ SumsSeen /\ CorrectChecksumPasses
<1> SUFFICES ASSUME Init
             PROVE  OnMedium /\ InStep /\ SumsSeen /\ CorrectChecksumPasses
  OBVIOUS
<1>1. pc = "open" /\ offset = 0 /\ previous_fragment = 0 /\ rc = "none"
  BY DEF Init
<1>2. \E m \in Media : image = m.image /\ unreadable = m.unreadable
  BY DEF Init
<1> QED
  BY <1>1, <1>2 DEF OnMedium, InStep, SumsSeen, CorrectChecksumPasses, Loop

\* No step changes the medium or what was parsed from it.
LEMMA OnMediumNext ==
  ASSUME Inv, OnMedium, [Next]_vars
  PROVE  OnMedium'
<1>1. CASE Elsewhere
  BY <1>1, ElsewhereFacts DEF OnMedium
<1>2. CASE Rewind
  BY <1>2, RewindFacts DEF OnMedium
<1>3. CASE ReadBlock
  <2>1. PICK r \in 1 .. (buffer_size + Prefetch) : HashBlock(r)
    BY <1>3 DEF ReadBlock
  <2>2. UNCHANGED <<image, unreadable, info>> /\ pc = "read"
    BY <2>1, HashBlockFacts
  <2> QED
    BY <2>2 DEF OnMedium, Loop
<1> QED
  BY <1>1, <1>2, <1>3, NextIs

\* Whole reads begin at multiples of their size, fragment by fragment.
LEMMA InStepNext ==
  ASSUME CertificatesAreStandard, ~ShortReads, Inv, OnMedium, InStep, [Next]_vars
  PROVE  InStep'
<1>1. CASE Elsewhere
  <2>1. /\ UNCHANGED <<image, unreadable, info, offset, previous_fragment>>
        /\ pc' \in Loop => pc \in Loop
        /\ pc' = "open" => pc = "open"
    BY <1>1, ElsewhereFacts
  <2>2. Readable' = Readable /\ EndsBelow(offset)' = EndsBelow(offset)
    BY <2>1 DEF Readable, EndsBelow
  <2> QED
    BY <2>1, <2>2 DEF InStep
<1>2. CASE Rewind
  <2>1. offset' = 0 /\ previous_fragment' = 0 /\ pc' = "read"
    BY <1>2, RewindFacts DEF InStep
  <2>2. Cardinality(EndsBelow(offset)') = 0
    <3>1. \A p \in FragmentEnds(image, Readable)' : ~(p < 0)
      BY DEF FragmentEnds
    <3>2. EndsBelow(offset)' = {}
      BY <2>1, <3>1 DEF EndsBelow
    <3> QED
      BY <3>2, FS_EmptySet
  <2>3. 0 % buffer_size = 0
    BY Sizes
  <2> QED
    BY <2>1, <2>2, <2>3 DEF InStep
<1>3. CASE ReadBlock
  <2>1. PICK r \in 1 .. (buffer_size + Prefetch) : HashBlock(r)
    BY <1>3 DEF ReadBlock
  <2> DEFINE nread == MIN(r, MIN(total_size - offset, buffer_size))
             current == offset \div fragment_size
             K == Cardinality(EndsBelow(offset))
  <2>2. /\ UNCHANGED <<image, unreadable, info>>
        /\ pc = "read" /\ pc' # "open"
        /\ \/ /\ previous_fragment' = IF EndsFragment(current)
                                      THEN current ELSE previous_fragment
              /\ offset' = offset + nread
           \/ pc' = "done"
    BY <2>1, HashBlockFacts
  <2>3. CASE info.fragmentcount = 0 \/ pc' = "done"
    BY <2>2, <2>3 DEF InStep, Loop
  <2>4. CASE info.fragmentcount # 0 /\ pc' # "done"
    <3>1. /\ offset \in Nat /\ offset % buffer_size = 0 /\ offset < Readable
          /\ nread \in 1 .. buffer_size
          /\ offset + nread = Readable \/ (offset + nread) % buffer_size = 0
          /\ (offset + nread) % buffer_size = 0 => nread = buffer_size
          /\ K \in Nat /\ previous_fragment = K
          /\ EndsFragment(current) => current = K + 1
          /\ Cardinality(EndsBelow(offset + nread))
               = IF EndsFragment(current) THEN K + 1 ELSE K
      BY <2>1, <2>4, ComparedAtEnds
    <3>2. fragment_size = FragmentSize(image)
      BY <2>1, <2>2, <2>4, AboutFragments, BlockIsOfVolume DEF Loop
    <3>3. ~EndsFragment(current) => current = previous_fragment
      BY <2>4 DEF EndsFragment
    <3>4. previous_fragment' = current /\ offset' = offset + nread
      BY <2>2, <2>4, <3>3
    <3>5. /\ Readable' = Readable
          /\ FragmentSize(image)' = FragmentSize(image)
          /\ EndsBelow(offset)' = EndsBelow(offset')
      BY <2>2 DEF Readable, EndsBelow
    <3> HIDE DEF nread, K
    <3>6. offset' % buffer_size = 0 => offset' - buffer_size = offset
      BY <3>1, <3>4, Sizes
    <3>7. previous_fragment' = Cardinality(EndsBelow(offset'))
      BY <3>1, <3>3, <3>4
    <3>8. previous_fragment' = offset \div FragmentSize(image)
      BY <3>2, <3>4
    <3>9. offset' % buffer_size = 0 \/ offset' = Readable
      BY <3>1, <3>4
    <3> QED
      BY <2>2, <3>5, <3>6, <3>7, <3>8, <3>9 DEF InStep
  <2> QED
    BY <2>3, <2>4
<1> QED
  BY <1>1, <1>2, <1>3, NextIs

\* When the check goes on after a fragment end, the sum stored for it is right.
LEMMA SumsSeenNext ==
  ASSUME CertificatesAreStandard, CertificatesAreWhole, ~ShortReads,
         Inv, OnMedium, InStep, SumsSeen, [Next]_vars
  PROVE  SumsSeen'
<1>1. CASE Elsewhere
  <2>1. UNCHANGED <<image, unreadable, info, offset>>
    BY <1>1, ElsewhereFacts
  <2>2. /\ EndsBelow(offset)' = EndsBelow(offset)
        /\ \A f : SumStored(f)' = SumStored(f) /\ SumDue(f)' = SumDue(f)
    BY <2>1 DEF Readable, EndsBelow, SumStored, SumDue
  <2> QED
    BY <2>1, <2>2 DEF SumsSeen
<1>2. CASE Rewind
  BY <1>2, RewindFacts DEF SumsSeen
<1>3. CASE ReadBlock
  <2>1. PICK r \in 1 .. (buffer_size + Prefetch) : HashBlock(r)
    BY <1>3 DEF ReadBlock
  <2> DEFINE nread == MIN(r, MIN(total_size - offset, buffer_size))
             current == offset \div fragment_size
             K == Cardinality(EndsBelow(offset))
             ends == FragmentEnds(image, Readable)
  <2>2. /\ UNCHANGED <<image, unreadable, info>>
        /\ pc = "read"
        /\ \/ /\ EndsFragment(current) => TRUE \in FragmentValid(ctx', current)
              /\ offset' = offset + nread
           \/ offset' = offset
    BY <2>1, HashBlockFacts
  <2>3. /\ \A f : SumStored(f)' = SumStored(f) /\ SumDue(f)' = SumDue(f)
        /\ EndsBelow(offset)' = EndsBelow(offset')
    BY <2>2 DEF Readable, EndsBelow, SumStored, SumDue
  <2>4. CASE info.fragmentcount = 0 \/ offset' = offset
    BY <2>2, <2>3, <2>4 DEF SumsSeen
  <2>5. CASE info.fragmentcount # 0 /\ offset' # offset
    <3>1. /\ offset \in Nat
          /\ K \in Nat
          /\ Cardinality(EndsBelow(offset + nread))
               = IF EndsFragment(current) THEN K + 1 ELSE K
      BY <2>1, <2>5, ComparedAtEnds
    <3>2. \A f \in 1 .. K : SumStored(f) = SumDue(f)
      <4>1. CASE offset > 0
        BY <2>5, <4>1 DEF SumsSeen
      <4>2. CASE offset = 0
        <5>1. \A p \in ends : ~(p < 0)
          BY DEF FragmentEnds
        <5>2. EndsBelow(offset) = {}
          BY <4>2, <5>1 DEF EndsBelow
        <5> QED
          BY <5>2, FS_EmptySet
      <4> QED
        BY <3>1, <4>1, <4>2
    <3>3. ASSUME EndsFragment(current)
          PROVE  SumStored(K + 1) = SumDue(K + 1)
      <4>1. /\ current = K + 1
            /\ K + 1 \in 1 .. Cardinality(ends)
            /\ ctx' = HashedAt(image, Readable, K + 1)
        BY <2>1, <2>5, <3>3, ComparedIsDue
      <4>2. PICK m \in Media : image = m.image /\ unreadable = m.unreadable
        BY DEF OnMedium
      <4>3. HasVolumeInfo(image, unreadable) /\ info = VolumeInfo(image)
        BY <2>2 DEF OnMedium, Loop
      <4>4. /\ info.fragmentsums # Uninitialized
            /\ IsSequence(info.fragmentsums)
            /\ Width * Cardinality(ends) <= Len(info.fragmentsums)
        BY <2>5, <4>2, <4>3 DEF CertificatesAreWhole, SumsAreWhole, Readable, IsSequence, Width
      <4>5. info.fragmentcount = FRAGMENT_COUNT /\ Readable \in Nat /\ Width \in Nat
        BY <2>1, <2>2, <2>5, AboutVolume, AboutFragments, BlockIsOfVolume, AboutWidth DEF Loop
      <4>6. Cardinality(ends) \in Nat /\ Len(info.fragmentsums) \in Nat
        BY <4>4, <4>5, FragmentEndsFinite DEF IsSequence
      <4> HIDE DEF K, ends
      <4>7. /\ K * Width \in Nat
            /\ K * Width + Width <= Len(info.fragmentsums)
            /\ (K + 1) * Width = K * Width + Width
        <5>1. K + 1 <= Cardinality(ends) /\ K \in Nat
          BY <3>1, <4>1, <4>6
        <5> QED
          BY ONLY <4>4, <4>5, <4>6, <5>1, SumIsThere
      <4>8. FragmentValid(ctx', K + 1)
              = {\A i \in 1 .. Width :
                   info.fragmentsums[K * Width + i] = <<Digest(info.algorithm, ctx'), i>>}
        BY <3>1, <4>4, <4>5, <4>6, <4>7, FragmentValidIs
      <4>9. TRUE \in FragmentValid(ctx', K + 1)
        BY <2>2, <2>5, <3>3, <4>1
      <4>10. \A i \in 1 .. Width :
               info.fragmentsums[K * Width + i]
                 = <<Digest(info.algorithm, HashedAt(image, Readable, K + 1)), i>>
        BY <4>1, <4>8, <4>9
      <4> QED
        BY <3>1, <4>4, <4>5, <4>7, <4>10, StoredIsDue
    <3> HIDE DEF K, nread, current
    <3>4. \A f \in 1 .. Cardinality(EndsBelow(offset')) : SumStored(f) = SumDue(f)
      <4>1. CASE EndsFragment(current)
        <5>1. \A f \in 1 .. (K + 1) : f \in 1 .. K \/ f = K + 1
          BY <3>1
        <5> QED
          BY <2>2, <2>5, <3>1, <3>2, <3>3, <4>1, <5>1
      <4>2. CASE ~EndsFragment(current)
        BY <2>2, <2>5, <3>1, <3>2, <4>2
      <4> QED
        BY <4>1, <4>2
    <3> QED
      BY <2>3, <3>4 DEF SumsSeen
  <2> QED
    BY <2>4, <2>5
<1> QED
  BY <1>1, <1>2, <1>3, NextIs

-----------------------------------------------------------------------------
(* A correct checksum passes.                                              *)

\* The sums are as many as fragment ends, and the K + 1st is in its place.
HasSum(sums, img, n, alg, K) ==
  /\ Len(sums) = Width * Cardinality(FragmentEnds(img, n))
  /\ \A i \in 1 .. Width :
       sums[K * Width + i] = <<Digest(alg, HashedAt(img, n, K + 1)), i>>

\* The fragment sums of an image have its K + 1st sum in the K + 1st place.
LEMMA SumsOfCertificate ==
  ASSUME CertificatesAreStandard, NEW img, NEW n \in Nat, NEW alg, NEW K \in Nat,
         K + 1 <= Cardinality(FragmentEnds(img, n))
  PROVE  HasSum(FragmentSums(img, n, alg), img, n, alg, K)
<1> DEFINE count == Cardinality(FragmentEnds(img, n))
           digests == [f \in 1 .. count |-> Digest(alg, HashedAt(img, n, f))]
           sums == FragmentSums(img, n, alg)
           entry(i) == <<digests[((i - 1) \div Width) + 1], ((i - 1) % Width) + 1>>
<1>1. count \in Nat /\ Width \in Nat
  BY AboutWidth, FragmentEndsFinite
<1>2. digests = [f \in 1 .. count |-> digests[f]]
  OBVIOUS
<1>3. \A f \in 1 .. count : digests[f] = Digest(alg, HashedAt(img, n, f))
  OBVIOUS
<1>4. sums = [i \in 1 .. (Width * Len(digests)) |-> entry(i)]
  BY DEF FragmentSums, Width
<1> HIDE DEF digests, sums, count
<1>5. Len(digests) = count
  BY <1>1, <1>2, FunctionIsSequence
<1>6. Width * count \in Nat
  BY <1>1
<1>7. sums = [i \in 1 .. (Width * count) |-> entry(i)]
  BY <1>4, <1>5
<1> HIDE DEF entry
<1>8. sums = [i \in 1 .. (Width * count) |-> sums[i]]
  BY <1>7
<1>9. IsSequence(sums) /\ Len(sums) = Width * count
  BY <1>6, <1>8, FunctionIsSequence
<1>10. ASSUME NEW i \in 1 .. Width
       PROVE  sums[K * Width + i] = <<Digest(alg, HashedAt(img, n, K + 1)), i>>
  <2>1. Width \in Nat \ {0} /\ i - 1 \in 0 .. (Width - 1) /\ K \in Int
    BY <1>1
  <2>2. /\ K * Width \in Nat
        /\ K * Width + Width <= Width * count
    <3>1. K + 1 <= count
      BY DEF count
    <3> QED
      BY ONLY <1>1, <1>6, <3>1, SumIsThere
  <2>3. /\ (Width * K + (i - 1)) \div Width = K
        /\ (Width * K + (i - 1)) % Width = i - 1
    BY ONLY <2>1, DivisionIs
  <2>4. Width * K = K * Width
    BY <1>1
  <2>5. (K * Width + i) - 1 = Width * K + (i - 1)
    BY <1>1, <2>2, <2>4
  <2>6. entry(K * Width + i) = <<digests[K + 1], (i - 1) + 1>>
    BY <2>3, <2>5 DEF entry
  <2>7. K * Width + i \in 1 .. (Width * count)
    BY <1>1, <1>6, <2>2
  <2>8. K + 1 \in 1 .. count
    BY <1>1 DEF count
  <2> QED
    BY <1>3, <1>7, <2>6, <2>7, <2>8
<1> QED
  BY <1>9, <1>10 DEF sums, count, HasSum

\* What the check decides by in the end does not change while it runs.
LEMMA SameChecksum ==
  ASSUME UNCHANGED <<image, unreadable>>
  PROVE  ChecksumIsCorrect' <=> ChecksumIsCorrect
BY DEF ChecksumIsCorrect, ReadableSize

\* A digest that differs is not that of the medium.
LEMMA ConcludeIsRight ==
  ASSUME Inv, Conclude, rc' = "CHECK_FAILED"
  PROVE  ~ChecksumIsCorrect
<1>1. /\ info = VolumeInfo(image) /\ rc = "none"
      /\ offset = ReadableSize(info)
  BY DEF Conclude, Inv, InTheVolume, ReadToTheEnd
<1>2. Len(ctx) = offset
  BY <1>1, HashedIsCounted
<1>3. ctx = BlankedAt(image, info.offset + APPDATA_OFFSET, ReadableSize(info))
  BY <1>1, <1>2 DEF Inv, HashedIsBlankedPrefix
<1>4. info.hashsum # Digest(info.algorithm, ctx)
  BY DEF Conclude, Return, Verdict
<1> QED
  BY <1>1, <1>3, <1>4 DEF ChecksumIsCorrect

\* A comparison that fails is one of a medium whose digest is wrong, too.
LEMMA FailedFragmentIsWrong ==
  ASSUME CertificatesAreStandard, CertificatesAgree, ~ShortReads, Inv, OnMedium, InStep,
         NEW r \in 1 .. (buffer_size + Prefetch), HashBlock(r),
         NEW current, current = offset \div fragment_size,
         EndsFragment(current), FALSE \in FragmentValid(ctx', current)
  PROVE  ~ChecksumIsCorrect
<1> DEFINE K == Cardinality(EndsBelow(offset))
           ends == FragmentEnds(image, Readable)
<1>1. pc \in Loop /\ info.fragmentcount # 0
  BY DEF HashBlock, Loop, EndsFragment
<1> SUFFICES ASSUME ChecksumIsCorrect
             PROVE  FALSE
  OBVIOUS
<1>2. PICK m \in Media : image = m.image /\ unreadable = m.unreadable
  BY DEF OnMedium
<1>3. HasVolumeInfo(image, unreadable) /\ info = VolumeInfo(image)
  BY <1>1 DEF OnMedium
<1>4. /\ Readable \in Nat /\ info.offset + APPDATA_OFFSET = AppDataStart(image)
      /\ ReadableSize(info) = Readable
      /\ info.fragmentcount = FRAGMENT_COUNT
      /\ Width \in Nat
  BY <1>1, AboutVolume, AboutFragments, BlockIsOfVolume, AboutWidth, ReadableSizeIsPart
<1>5. info.hashsum = HashSum(image, Readable, info.algorithm)
  BY <1>3, <1>4 DEF ChecksumIsCorrect, HashSum, Blanked
<1>6. /\ info.fragmentsums # Uninitialized
      /\ info.fragmentsums = FragmentSums(image, Readable, info.algorithm)
  BY <1>1, <1>2, <1>3, <1>5 DEF CertificatesAgree, SumsAgree, Readable
<1>7. /\ current = K + 1
      /\ K + 1 \in 1 .. Cardinality(ends)
      /\ ctx' = HashedAt(image, Readable, K + 1)
  BY <1>1, ComparedIsDue
<1>8. Cardinality(ends) \in Nat /\ K \in Nat
  <2>1. EndsBelow(offset) \subseteq ends
    BY DEF EndsBelow
  <2> QED
    BY <1>4, <2>1, FragmentEndsFinite
<1> HIDE DEF K, ends
<1>9. /\ Len(info.fragmentsums) = Width * Cardinality(ends)
      /\ \A i \in 1 .. Width :
           info.fragmentsums[K * Width + i]
             = <<Digest(info.algorithm, HashedAt(image, Readable, K + 1)), i>>
  <2>1. K + 1 <= Cardinality(FragmentEnds(image, Readable))
    BY <1>7, <1>8 DEF ends
  <2>2. Readable \in Nat /\ K \in Nat
    BY <1>4, <1>8
  <2>3. HasSum(FragmentSums(image, Readable, info.algorithm), image, Readable, info.algorithm, K)
    BY <2>1, <2>2, SumsOfCertificate
  <2> QED
    BY <1>6, <2>3 DEF HasSum, ends
<1>10. /\ Len(info.fragmentsums) \in Nat
       /\ K * Width \in Nat
       /\ K * Width + Width <= Len(info.fragmentsums)
  <2>1. Width * Cardinality(ends) \in Nat /\ K + 1 <= Cardinality(ends)
    BY <1>4, <1>7, <1>8
  <2>2. /\ K * Width \in Nat
        /\ K * Width + Width <= Width * Cardinality(ends)
    BY ONLY <1>4, <1>8, <2>1, SumIsThere
  <2> QED
    BY <1>9, <2>1, <2>2
<1>11. FragmentValid(ctx', K + 1)
         = {\A i \in 1 .. Width :
              info.fragmentsums[K * Width + i] = <<Digest(info.algorithm, ctx'), i>>}
  BY <1>4, <1>6, <1>8, <1>10, FragmentValidIs
<1>12. \A i \in 1 .. Width :
         info.fragmentsums[K * Width + i] = <<Digest(info.algorithm, ctx'), i>>
  BY <1>7, <1>9
<1>13. FragmentValid(ctx', K + 1) = {TRUE}
  BY <1>11, <1>12
<1> QED
  BY <1>7, <1>13

\* Neither the sums nor the digest condemn a medium that is correct.
LEMMA CorrectChecksumNext ==
  ASSUME CertificatesAreStandard, CertificatesAgree, ~ShortReads,
         Inv, OnMedium, InStep, CorrectChecksumPasses, [Next]_vars
  PROVE  CorrectChecksumPasses'
<1>1. CASE Conclude
  <2>1. UNCHANGED <<image, unreadable>>
    BY <1>1 DEF Conclude, medium
  <2> QED
    BY <1>1, <2>1, ConcludeIsRight, SameChecksum DEF CorrectChecksumPasses
<1>2. CASE ReadBlock
  <2>1. PICK r \in 1 .. (buffer_size + Prefetch) : HashBlock(r)
    BY <1>2 DEF ReadBlock
  <2> DEFINE current == offset \div fragment_size
  <2>2. /\ UNCHANGED <<image, unreadable>>
        /\ \/ UNCHANGED rc
           \/ EndsFragment(current) /\ FALSE \in FragmentValid(ctx', current)
    BY <2>1, HashBlockFacts
  <2>3. CASE UNCHANGED rc
    BY <2>2, <2>3, SameChecksum DEF CorrectChecksumPasses
  <2>4. CASE EndsFragment(current) /\ FALSE \in FragmentValid(ctx', current)
    <3>1. ~ChecksumIsCorrect
      BY <2>1, <2>4, FailedFragmentIsWrong
    <3> QED
      BY <2>2, <3>1, SameChecksum DEF CorrectChecksumPasses
  <2> QED
    BY <2>2, <2>3, <2>4
<1>3. CASE Rewind \/ (Elsewhere /\ ~Conclude)
  <2>1. UNCHANGED <<image, unreadable>> /\ (rc' = rc \/ rc' # "CHECK_FAILED")
    BY <1>3 DEF Rewind, Elsewhere, FileNotFound, NotFound, StopReading, AllRead, CallBack,
                Returned, vars, medium, Return
  <2> QED
    BY <2>1, SameChecksum DEF CorrectChecksumPasses
<1> QED
  BY <1>1, <1>2, <1>3, NextIs

-----------------------------------------------------------------------------

\* So reads are in step in every state.
LEMMA StepsAreKept ==
  ASSUME CertificatesAreStandard, ~ShortReads
  PROVE  Spec => [](Inv /\ OnMedium /\ InStep)
<1>1. Init => OnMedium /\ InStep
  BY OnMediumInit
<1>2. Inv /\ OnMedium /\ InStep /\ [Next]_vars => OnMedium' /\ InStep'
  BY OnMediumNext, InStepNext
<1> QED
  BY <1>1, <1>2, Invariance, PTL DEF Spec

\* A correct checksum passes: where every read() returns what it was asked
\* for, no fragment sum and no digest condemns a medium whose stored digest is
\* that of its volume, if its certificate is one that says the same in both.
THEOREM CorrectPasses ==
  ASSUME CertificatesAreStandard, CertificatesAgree, ~ShortReads
  PROVE  Spec => []CorrectChecksumPasses
<1>1. Init => CorrectChecksumPasses
  BY OnMediumInit
<1>2. /\ Inv /\ OnMedium /\ InStep
      /\ CorrectChecksumPasses /\ [Next]_vars
      => CorrectChecksumPasses'
  BY CorrectChecksumNext
<1> QED
  BY <1>1, <1>2, StepsAreKept, PTL DEF Spec

\* "Exits media check as soon as bad fragment md5sum'ed": no fragment is passed
\* over, and the check goes on behind the end of one only if its sum is right.
THEOREM BadFragmentStops ==
  ASSUME CertificatesAreStandard, CertificatesAreWhole, ~ShortReads
  PROVE  Spec => []BadFragmentStopsCheck
<1>1. Init => SumsSeen
  BY OnMediumInit
<1>2. Inv /\ OnMedium /\ InStep /\ SumsSeen /\ [Next]_vars => SumsSeen'
  BY SumsSeenNext
<1>3. Inv /\ OnMedium /\ SumsSeen => BadFragmentStopsCheck
  <2> SUFFICES ASSUME Inv, OnMedium, SumsSeen, offset > 0, info.fragmentcount # 0,
                      NEW f \in 1 .. Cardinality(FragmentEnds(image, Readable)),
                      FragmentEnd(image, Readable, f) < offset
               PROVE  SumStored(f) = SumDue(f)
    BY DEF BadFragmentStopsCheck, SumStored, SumDue, Readable, Width
  <2>1. Readable \in Nat /\ offset \in Nat
    BY AboutVolume DEF Inv, TypeOK
  <2>2. f <= Cardinality(EndsBelow(offset))
    BY ONLY <2>1, EndIsCounted, FragmentEnd(image, Readable, f) < offset,
            f \in 1 .. Cardinality(FragmentEnds(image, Readable)) DEF EndsBelow
  <2>3. Cardinality(EndsBelow(offset)) \in Nat
    <3>1. EndsBelow(offset) \subseteq FragmentEnds(image, Readable)
      BY DEF EndsBelow
    <3> QED
      BY <2>1, <3>1, FragmentEndsFinite
  <2>4. f \in 1 .. Cardinality(EndsBelow(offset))
    BY <2>2, <2>3
  <2> QED
    BY <2>4 DEF SumsSeen
<1> QED
  BY <1>1, <1>2, <1>3, StepsAreKept, PTL DEF Spec

-----------------------------------------------------------------------------
(* What the callback is told.                                              *)

\* No certificate counts the skipped sectors below zero.
SkipsAreCounts ==
  \A m \in Media :
    HasVolumeInfo(m.image, m.unreadable) => VolumeInfo(m.image).skipsectors \in Nat

\* What was told last is hashed, and more is when the callback is to be called.
Told ==
  /\ reported \in Nat
  /\ pc = "open" => reported = 0
  /\ pc \in {"read", "finish"} => reported <= offset
  /\ pc = "callback" => reported < offset

\* A volume is at least as large as what is hashed of it.
LEMMA HashedIsOfVolume ==
  ASSUME SkipsAreCounts, Inv, OnMedium, pc \in Loop
  PROVE  /\ offset \in Nat /\ info.isosize \in Nat
         /\ total_size \in Int /\ total_size <= info.isosize
         /\ offset <= MAX(0, total_size) /\ offset <= info.isosize
<1>1. IsVolumeInfo(info) /\ offset \in Nat /\ offset <= MAX(0, total_size)
  BY DEF Inv, TypeOK, InTheVolume, Loop
<1>2. info.skipsectors \in Nat
  BY DEF OnMedium, SkipsAreCounts
<1>3. info.skipsectors * SECTOR_SIZE \in Nat
  BY <1>2, Sizes
<1>4. info.isosize \in Nat
  BY <1>1 DEF IsVolumeInfo
<1> QED
  BY <1>1, <1>3, <1>4 DEF total_size, MAX

\* A block that is hashed is one cell at least.
LEMMA HashBlockGrows ==
  ASSUME Inv, ReadBlock
  PROVE  /\ pc = "read" /\ UNCHANGED <<info, reported>>
         /\ \/ pc' \in {"read", "callback"} /\ offset < offset' /\ offset' \in Nat
            \/ pc' = "done"
<1>1. PICK r \in 1 .. (buffer_size + Prefetch) : HashBlock(r)
  BY DEF ReadBlock
<1> DEFINE nbyte == MIN(total_size - offset, buffer_size)
           nread == MIN(r, nbyte)
<1>2. nread \in 1 .. nbyte
  BY <1>1, BlockIsRead
<1>3. /\ pc = "read" /\ UNCHANGED <<info, progress>>
      /\ \/ offset' = offset + nread /\ pc' = IF HasCallback THEN "callback" ELSE "read"
         \/ pc' = "done"
  BY <1>1 DEF HashBlock, Return
<1>4. offset \in Nat
  BY DEF Inv, TypeOK
<1>5. nread \in Nat \ {0}
  <2>1. total_size \in Int
    BY <1>3, Sizes DEF Inv, TypeOK, total_size, IsVolumeInfo
  <2>2. nbyte \in Int
    BY <2>1, <1>4, Sizes DEF MIN
  <2> QED
    BY <1>2, <2>2
<1> HIDE DEF nread
<1> QED
  BY <1>3, <1>4, <1>5 DEF progress

\* Every step keeps what was told, or tells more, but not more than there is.
LEMMA ToldNext ==
  ASSUME SkipsAreCounts, Inv, OnMedium, Told, [Next]_vars
  PROVE  /\ Told'
         /\ reported' # reported => reported < reported' /\ reported' <= info'.isosize
<1>1. CASE FileNotFound \/ NotFound
  BY <1>1 DEF FileNotFound, NotFound, Return, progress, Told
<1>2. CASE Rewind
  <2>1. reported = 0 /\ offset' = 0 /\ pc' = "read"
    BY <1>2, RewindFacts DEF Told
  <2>2. reported' = 0
    BY <1>2, <2>1 DEF Rewind, Report, progress
  <2> QED
    BY <2>1, <2>2 DEF Told
<1>3. CASE ReadBlock
  <2>1. offset \in Nat
    BY DEF Inv, TypeOK
  <2>2. /\ pc = "read" /\ reported' = reported
        /\ \/ pc' \in {"read", "callback"} /\ offset < offset' /\ offset' \in Nat
           \/ pc' = "done"
    BY <1>3, HashBlockGrows
  <2> QED
    BY <2>1, <2>2 DEF Told
<1>4. CASE StopReading \/ AllRead
  BY <1>4 DEF StopReading, AllRead, progress, hashing, Told
<1>5. CASE CallBack
  <2>1. pc = "callback" /\ offset \in Nat /\ offset <= info.isosize
    BY <1>5, HashedIsOfVolume DEF CallBack, Loop
  <2>2. reported' = offset /\ offset' = offset /\ info' = info /\ pc' \in {"read", "done"}
    BY <1>5 DEF CallBack, Return, hashing
  <2> QED
    BY <2>1, <2>2 DEF Told
<1>6. CASE Conclude
  <2>1. /\ pc = "finish" /\ offset \in Nat
        /\ offset <= info.isosize /\ info.isosize \in Nat
    BY <1>6, HashedIsOfVolume DEF Conclude, Loop
  <2>2. reported' \in {reported, info.isosize} /\ info' = info /\ pc' = "done"
    BY <1>6 DEF Conclude, Report, Return, progress
  <2> QED
    BY <2>1, <2>2 DEF Told
<1>7. CASE Returned \/ UNCHANGED vars
  BY <1>7 DEF Returned, vars, progress, hashing, Told
<1> QED
  BY <1>1, <1>2, <1>3, <1>4, <1>5, <1>6, <1>7 DEF Next

\* The callback is told more at every call, the first one with 0 and the last
\* one with the size of the volume, whatever the reads return.
THEOREM ProgressIsMonotone ==
  ASSUME SkipsAreCounts
  PROVE  Spec => ProgressMonotone
<1>1. Init => OnMedium /\ Told
  BY OnMediumInit DEF Init, Told
<1>2. Inv /\ OnMedium /\ Told /\ [Next]_vars => OnMedium' /\ Told'
  BY OnMediumNext, ToldNext
<1>3. Inv /\ OnMedium /\ Told /\ [Next]_vars =>
        [reported' # reported => reported < reported' /\ reported' <= info'.isosize]_vars
  BY ToldNext
<1> QED
  BY <1>1, <1>2, <1>3, Invariance, PTL DEF Spec, ProgressMonotone
=============================================================================
