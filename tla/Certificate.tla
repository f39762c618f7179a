----------------------------- MODULE Certificate -----------------------------
(***************************************************************************)
(* What an implanted image is, said without the steps that make one: the   *)
(* digest of the volume with its application data blanked, and the         *)
(* fragment sums in between.  No definition here is the code's; they are   *)
(* what the code is checked against.                                       *)
(***************************************************************************)
EXTENDS AppData, FiniteSets

\* The first n cells of the image, blanked where the application data is
\* that starts at byte offset at.
BlankedAt(image, at, n) ==
  [i \in 1 .. n |->
     IF i \in (at + 1) .. (at + APPDATA_SIZE) THEN Space ELSE image[i]]

\* Where the application data of the primary volume descriptor is.
AppDataStart(image) == DescriptorStart(ScanStop(image)) + APPDATA_OFFSET

Blanked(image, n) == BlankedAt(image, AppDataStart(image), n)

VolumeSize(image) == isosize(image) - SKIPSECTORS * SECTOR_SIZE

\* The part of the volume that the image file holds.
HashedSize(image) == MAX(0, MIN(VolumeSize(image), Len(image)))

\* The part of that up to the first cell that cannot be read.
ReadablePart(image, unreadable) ==
  LET size == HashedSize(image)
  IN  CHOOSE n \in 0 .. size :
        /\ \A i \in 0 .. (n - 1) : i \notin unreadable
        /\ n = size \/ n \in unreadable

FragmentSize(image) == VolumeSize(image) \div (FRAGMENT_COUNT + 1)

\* A read that begins in another fragment than the one before it ends one or
\* more fragments.  These are the offsets of such reads, when every read
\* returns all it was asked for and n cells are hashed.
FragmentEnds(image, n) ==
  LET size == FragmentSize(image)
  IN  {o \in 1 .. (n - 1) :
         /\ o % buffer_size = 0
         /\ o \div size # (o - buffer_size) \div size}

\* The f-th of them.
FragmentEnd(image, n, f) ==
  LET ends == FragmentEnds(image, n)
  IN  CHOOSE o \in ends : Cardinality({p \in ends : p <= o}) = f

\* What is hashed when the f-th of them is read.
HashedAt(image, n, f) ==
  Blanked(image, MIN(FragmentEnd(image, n, f) + buffer_size, n))

\* The fragment sums: a few characters for every fragment end, of the digest
\* of all up to the end of the block read there.
FragmentSums(image, n, alg) ==
  LET width == FRAGMENT_SUM_SIZE \div FRAGMENT_COUNT
      digests == [f \in 1 .. Cardinality(FragmentEnds(image, n)) |->
                    Digest(alg, HashedAt(image, n, f))]
  IN  [i \in 1 .. (width * Len(digests)) |->
         <<digests[((i - 1) \div width) + 1], ((i - 1) % width) + 1>>]

HashSum(image, n, alg) == Digest(alg, Blanked(image, n))

\* Every fragment is at least as long as a read, so that no fragment is
\* passed over.  It takes a volume of 336 sectors beside the skipped ones.
WideFragments(image) == FragmentSize(image) >= buffer_size

\* What is to be said of an image before anything is said of the tools: the
\* offset that the search computes is that of the descriptor it found, as it is
\* if no other descriptor precedes that one, and the file does not end within
\* the application data.
WellPlaced(image) ==
  /\ PvdOffset(image) = DescriptorStart(ScanStop(image))
  /\ \/ Len(image) <= AppDataStart(image)
     \/ AppDataStart(image) + APPDATA_SIZE <= Len(image)

\* A certificate is of the numbers that the implanters write, with fragments
\* that are at least as wide as a read, or without fragment sums.
StandardCertificate(image) ==
  LET v == VolumeInfo(image)
  IN  /\ PvdOffset(image) = DescriptorStart(ScanStop(image))
      /\ SectorsOf(image) \in Nat
      /\ v.skipsectors = SKIPSECTORS
      /\ v.fragmentcount # 0 => v.fragmentcount = FRAGMENT_COUNT
      /\ v.fragmentcount # 0 /\ VolumeSize(image) > 0 => WideFragments(image)

\* It has a sum for every fragment end that can be read.
SumsAreWhole(image, unreadable) ==
  LET sums  == VolumeInfo(image).fragmentsums
      width == FRAGMENT_SUM_SIZE \div FRAGMENT_COUNT
      ends  == FragmentEnds(image, ReadablePart(image, unreadable))
  IN  VolumeInfo(image).fragmentcount # 0 =>
        /\ sums # Uninitialized
        /\ Len(sums) \in Nat /\ sums = [i \in 1 .. Len(sums) |-> sums[i]]
        /\ width * Cardinality(ends) <= Len(sums)

\* Where its digest is that of the volume, so are its fragment sums.
SumsAgree(image, unreadable) ==
  LET v == VolumeInfo(image)
      n == ReadablePart(image, unreadable)
  IN  v.fragmentcount # 0 /\ v.hashsum = HashSum(image, n, v.algorithm)
      => /\ v.fragmentsums # Uninitialized
         /\ v.fragmentsums = FragmentSums(image, n, v.algorithm)

\* The image with a certificate of its first n cells.
ImplantedUpTo(image, n, alg, supported) ==
  WriteAt(image, AppDataStart(image),
          NewAppData(alg, HashSum(image, n, alg), supported, FragmentSums(image, n, alg)))

\* The image with a certificate of its content.
Implanted(image, alg, supported) ==
  ImplantedUpTo(image, HashedSize(image), alg, supported)

\* The image with another content at one offset.
Damaged(image, at) == [image EXCEPT ![at + 1] = <<"damaged">>]
=============================================================================
