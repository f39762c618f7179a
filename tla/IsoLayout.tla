------------------------------ MODULE IsoLayout ------------------------------
(***************************************************************************)
(* The layout of an ISO 9660 image as isomd5sum sees it, and the hash      *)
(* values it puts into the image: the constants of utilities.h, what       *)
(* read_primary_volume_descriptor() and isosize() find in an image, and    *)
(* the idealised digests.                                                  *)
(*                                                                         *)
(* An image is a sequence of cells.  A cell is one unit of content, a      *)
(* tuple whose first component says what it is:                            *)
(*   <<" ">>            a blank of the application data area               *)
(*   <<"type", t>>      the type byte of a volume descriptor               *)
(*   <<"size", n>>      the volume space size, in sectors (SIZE_OFFSET)    *)
(*   <<"data", d>>      other content, <<"hole">> where nothing was written  *)
(*   <<tag, value>>     one "TAG = value;" field of the application data   *)
(* Byte offset o of the code is cell o + 1 of the sequence.                *)
(***************************************************************************)
EXTENDS Integers, Sequences

CONSTANTS
  SECTOR_SIZE,        \* cells in a sector (2048 bytes in the code)
  NUM_SYSTEM_SECTORS, \* unused sectors before the volume descriptors (16)
  SKIPSECTORS,        \* sectors at the end that the implanters leave out (15)
  SIZE_OFFSET,        \* where a descriptor holds the volume size (84)
  APPDATA_OFFSET,     \* where a descriptor holds the application data (883)
  APPDATA_SIZE,       \* cells of application data (512)
  FRAGMENT_COUNT,     \* fragments the implanters record (20)
  FRAGMENT_SUM_SIZE,  \* characters of all fragment sums together (60)
  Cell                \* the set of all cells

Space == <<" ">>

(***************************************************************************)
(* What utilities.h fixes about its constants: the fields of a descriptor  *)
(* lie in its sector without overlap, FRAGMENT_COUNT is an integral        *)
(* divisor of FRAGMENT_SUM_SIZE, and a sector is longer than the number    *)
(* of fragments, so that a volume of one sector has fragments of at least  *)
(* one byte.                                                               *)
(***************************************************************************)
ASSUME LayoutAssumption ==
  /\ SECTOR_SIZE \in Nat \ {0}
  /\ NUM_SYSTEM_SECTORS \in Nat \ {0}
  /\ SKIPSECTORS \in Nat
  /\ SIZE_OFFSET \in Nat \ {0}
  /\ APPDATA_OFFSET \in Nat
  /\ APPDATA_SIZE \in Nat \ {0}
  /\ SIZE_OFFSET < APPDATA_OFFSET
  /\ APPDATA_OFFSET + APPDATA_SIZE <= SECTOR_SIZE
  /\ FRAGMENT_COUNT \in Nat \ {0}
  /\ FRAGMENT_COUNT < SECTOR_SIZE
  /\ FRAGMENT_SUM_SIZE \in Nat
  /\ FRAGMENT_SUM_SIZE % FRAGMENT_COUNT = 0
  /\ Space \in Cell

MIN(x, y) == IF x < y THEN x ELSE y
MAX(x, y) == IF x > y THEN x ELSE y

SYSTEM_AREA_SIZE == NUM_SYSTEM_SECTORS * SECTOR_SIZE

\* The hash loops read into a buffer of this size.
buffer_size == NUM_SYSTEM_SECTORS * SECTOR_SIZE

-----------------------------------------------------------------------------
(* The volume descriptors of an image.                                     *)

\* Where the k-th descriptor of the set starts: the scan reads sector after
\* sector, beginning after the system area.
DescriptorStart(k) == SYSTEM_AREA_SIZE + k * SECTOR_SIZE

IsDescriptor(image, k, type) == image[DescriptorStart(k) + 1] = <<"type", type>>

\* The descriptors at which the scan stops.
StopDescriptors(image) ==
  {k \in 0 .. (Len(image) \div SECTOR_SIZE) :
     /\ DescriptorStart(k) < Len(image)
     /\ IsDescriptor(image, k, "PRIMARY") \/ IsDescriptor(image, k, "SET_TERMINATOR")}

\* The index of the descriptor the scan ends with.
ScanStop(image) ==
  CHOOSE k \in StopDescriptors(image) :
    \A j \in StopDescriptors(image) : k <= j

\* The scan ends with the primary descriptor, and every sector up to it can
\* be read.
HasPrimary(image, unreadable) ==
  /\ StopDescriptors(image) # {}
  /\ IsDescriptor(image, ScanStop(image), "PRIMARY")
  /\ \A k \in 0 .. ScanStop(image) : DescriptorStart(k) \notin unreadable

\* The byte offset the scan reports for the primary descriptor.  The code
\* multiplies where it means to add (nbyte *= SECTOR_SIZE), so this is the
\* start of the descriptor only when no other descriptor precedes it.
PvdOffset(image) == SYSTEM_AREA_SIZE * SECTOR_SIZE ^ ScanStop(image)

\* The volume size that the primary descriptor states, in sectors and in bytes.
SectorsOf(image) == image[DescriptorStart(ScanStop(image)) + SIZE_OFFSET + 1][2]

isosize(image) == SECTOR_SIZE * SectorsOf(image)

\* The application data of the sector that the scan really read.
AppDataOf(image) ==
  LET start == DescriptorStart(ScanStop(image)) + APPDATA_OFFSET
  IN  SubSeq(image, start + 1, start + APPDATA_SIZE)

-----------------------------------------------------------------------------
(* Digests.  A digest is idealised: it is the algorithm and the content    *)
(* that was hashed, so two digests are equal only if the contents are.     *)
(* A character of its textual form is the digest and the character's       *)
(* place.                                                                  *)

Algorithms == {"MD5", "SHA256"}

Digest(alg, content) == <<alg, content>>

\* The first n characters that validate_fragment() takes from a digest.
FragmentSum(digest, n) == [i \in 1 .. n |-> <<digest, i>>]

-----------------------------------------------------------------------------
(* The kernel.  ReadReturns(...) says which results r a read() of n cells  *)
(* at file position pos may have: r cells, 0 at the end of the file, -1    *)
(* where the medium cannot be read.  With mayBeShort a device may return   *)
(* fewer cells than asked for although more follow; prefetch bounds by how *)
(* much a kernel may overstate the count (the case libcheckisomd5.c was    *)
(* changed for in 2005).                                                   *)

ReadReturns(image, unreadable, pos, n, mayBeShort, prefetch, r) ==
  \/ /\ r \in 1 .. n
     /\ pos + r <= Len(image)
     /\ \A i \in pos .. (pos + r - 1) : i \notin unreadable
     /\ mayBeShort \/ r = n \/ pos + r = Len(image) \/ pos + r \in unreadable
  \/ /\ r \in (n + 1) .. (n + prefetch)
     /\ pos + n <= Len(image)
     /\ \A i \in pos .. (pos + n - 1) : i \notin unreadable
  \/ /\ r = 0
     /\ pos >= Len(image)
  \/ /\ r = -1
     /\ pos < Len(image)
     /\ pos \in unreadable

\* The n cells that a read() at file position pos leaves in the buffer.
CellsAt(image, pos, n) == [k \in 1 .. n |-> image[pos + k]]

\* The image after the cells were written at byte offset pos.  A write past
\* the end extends the file with unspecified content.
WriteAt(image, pos, cells) ==
  [i \in 1 .. MAX(Len(image), pos + Len(cells)) |->
     IF i \in (pos + 1) .. (pos + Len(cells)) THEN cells[i - pos]
     ELSE IF i <= Len(image) THEN image[i] ELSE <<"hole">>]
=============================================================================
