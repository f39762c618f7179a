-------------------------- MODULE CertificateLemmas --------------------------
(***************************************************************************)
(* What the proofs about the programs share.  Facts about numbers and      *)
(* sequences: least numbers, quotients, and sequences as functions.  And   *)
(* what they need to know of images, whatever program works on them: the   *)
(* search for the descriptor, writing, and that nothing outside the        *)
(* application data depends on it.                                         *)
(***************************************************************************)
EXTENDS Certificate, SequenceTheorems, FiniteSetTheorems, WellFoundedInduction, TLAPS

-----------------------------------------------------------------------------
(* Least numbers.                                                          *)

NatLess == {p \in Nat \X Nat : p[1] < p[2]}

\* Every set of natural numbers has a least one.
LEMMA LeastNumber ==
  ASSUME NEW S \in SUBSET Nat, S # {}
  PROVE  \E m \in S : \A n \in S : m <= n
<1>1. IsWellFoundedOn(NatLess, Nat)
  <2>1. NatLess = OpToRel(<, Nat)
    BY DEF NatLess, OpToRel
  <2> QED
    BY <2>1, NatLessThanWellFounded
<1>2. PICK m \in S : \A y \in S : <<y, m>> \notin NatLess
  BY <1>1, WFMin
<1>3. ASSUME NEW n \in S
      PROVE  m <= n
  <2>1. <<n, m>> \in Nat \X Nat /\ <<n, m>>[1] = n /\ <<n, m>>[2] = m
    OBVIOUS
  <2>2. ~(n < m)
    BY <1>2, <2>1 DEF NatLess
  <2> QED
    BY <2>2
<1> QED
  BY <1>3

-----------------------------------------------------------------------------
(* Quotients.                                                              *)

\* What \div and % give.
LEMMA Division ==
  ASSUME NEW a \in Int, NEW b \in Nat \ {0}
  PROVE  /\ a \div b \in Int
         /\ a % b \in 0 .. (b - 1)
         /\ a = b * (a \div b) + (a % b)
OBVIOUS

\* Products with a positive factor are ordered as the other factor is.
LEMMA ProductOrder ==
  ASSUME NEW b \in Nat \ {0}, NEW q \in Int, NEW p \in Int
  PROVE  /\ q < p => b * q + b <= b * p
         /\ q <= p => b * q <= b * p
<1>1. CASE q < p
  <2>1. p - q >= 1 /\ p - q \in Nat
    BY <1>1
  <2>2. \A d \in Nat : d >= 1 => b * d >= b
    OBVIOUS
  <2>3. b * (p - q) = b * p - b * q
    OBVIOUS
  <2>4. b * p \in Int /\ b * q \in Int /\ b * (p - q) >= b
    BY <2>1, <2>2
  <2> QED
    BY <1>1, <2>3, <2>4
<1>2. CASE q = p
  BY <1>2
<1>3. CASE q > p
  BY <1>3
<1> QED
  BY <1>1, <1>2, <1>3

\* Quotient and remainder are the only ones.
LEMMA DivisionIs ==
  ASSUME NEW b \in Nat \ {0}, NEW q \in Int, NEW r \in 0 .. (b - 1)
  PROVE  /\ (b * q + r) \div b = q
         /\ (b * q + r) % b = r
<1> DEFINE a == b * q + r
           d == a \div b
           m == a % b
<1>0. b * q \in Int
  OBVIOUS
<1>1. a \in Int /\ d \in Int /\ m \in 0 .. (b - 1) /\ a = b * d + m
  BY <1>0, Division
<1>2. b * d \in Int
  BY <1>1
<1>3. b * d + m = b * q + r
  BY <1>1
<1> HIDE DEF d, m, a
<1>4. ~(d < q)
  BY <1>0, <1>1, <1>2, <1>3, ProductOrder
<1>5. ~(q < d)
  BY <1>0, <1>1, <1>2, <1>3, ProductOrder
<1>6. d = q
  BY <1>1, <1>4, <1>5
<1>7. m = r
  BY <1>0, <1>1, <1>3, <1>6
<1> QED
  BY <1>6, <1>7 DEF a, d, m

\* Quotients are ordered as what is divided.
LEMMA DivisionOrder ==
  ASSUME NEW a \in Int, NEW c \in Int, NEW b \in Nat \ {0}, a <= c
  PROVE  a \div b <= c \div b
<1> DEFINE p == a \div b
           q == c \div b
<1>1. p \in Int /\ a % b \in 0 .. (b - 1) /\ a = b * p + (a % b)
  BY Division
<1>2. q \in Int /\ c % b \in 0 .. (b - 1) /\ c = b * q + (c % b)
  BY Division
<1> HIDE DEF p, q
<1>3. b * p \in Int /\ b * q \in Int
  BY <1>1, <1>2
<1>4. ~(q < p)
  BY <1>1, <1>2, <1>3, ProductOrder
<1>5. p <= q
  BY <1>1, <1>2, <1>4
<1> QED
  BY <1>5 DEF p, q

\* The next multiple after a multiple.
LEMMA NextMultiple ==
  ASSUME NEW b \in Nat \ {0}, NEW o \in Int, o % b = 0
  PROVE  /\ \A p \in Int : p % b = 0 /\ o < p => o + b <= p
         /\ (o + b) % b = 0
<1>1. o \div b \in Int /\ o = b * (o \div b)
  BY Division
<1>2. ASSUME NEW p \in Int, p % b = 0, o < p
      PROVE  o + b <= p
  <2>1. p \div b \in Int /\ p = b * (p \div b)
    BY <1>2, Division
  <2>2. ~(p \div b <= o \div b)
    BY <1>1, <1>2, <2>1, ProductOrder
  <2> QED
    BY <1>1, <2>1, <2>2, ProductOrder
<1>3. (o + b) % b = 0
  <2>1. o + b = b * (o \div b + 1) + 0
    BY <1>1
  <2>2. (b * (o \div b + 1) + 0) % b = 0
    BY <1>1, DivisionIs
  <2> QED
    BY <2>1, <2>2
<1> QED
  BY <1>2, <1>3

\* A product is a number,
LEMMA ProductType ==
  ASSUME NEW m \in Nat, NEW n \in Nat
  PROVE  m * n \in Nat
OBVIOUS

\* and positive if its factors are,
LEMMA ProductIsPositive ==
  ASSUME NEW m \in Nat \ {0}, NEW n \in Nat \ {0}
  PROVE  m * n \in Nat \ {0}
OBVIOUS

\* and grows by its factor.
LEMMA ProductStep ==
  ASSUME NEW m \in Nat, NEW n \in Nat, NEW c \in Nat, m < n
  PROVE  m * c + c <= n * c
<1>1. (n - m) * c >= c
  <2>1. n - m \in Nat /\ n - m >= 1
    OBVIOUS
  <2>2. \A d \in Nat : d >= 1 => d * c >= c
    OBVIOUS
  <2> QED
    BY <2>1, <2>2
<1>2. (n - m) * c = n * c - m * c
  OBVIOUS
<1>3. n * c \in Int /\ m * c \in Int
  OBVIOUS
<1> QED
  BY <1>1, <1>2, <1>3

-----------------------------------------------------------------------------
(* Sequences.                                                              *)

\* A sequence, whatever it is one of.
IsSequence(img) == Len(img) \in Nat /\ img = [i \in 1 .. Len(img) |-> img[i]]

\* A function on 1 .. n is a sequence of length n.
LEMMA FunctionIsSequence ==
  ASSUME NEW n \in Nat, NEW f, f = [i \in 1 .. n |-> f[i]]
  PROVE  IsSequence(f) /\ Len(f) = n
<1> DEFINE S == {f[i] : i \in 1 .. n}
<1>1. f \in [1 .. n -> S]
  OBVIOUS
<1>2. f \in Seq(S)
  BY <1>1
<1>3. Len(f) = n
  BY <1>1, <1>2
<1> QED
  BY <1>3 DEF IsSequence

\* They are the sequences of Sequences,
LEMMA SequenceIsSeq ==
  ASSUME NEW img, IsSequence(img)
  PROVE  \E S : img \in Seq(S)
<1> DEFINE S == {img[i] : i \in 1 .. Len(img)}
<1>1. img \in [1 .. Len(img) -> S]
  BY DEF IsSequence
<1>2. img \in Seq(S)
  BY <1>1 DEF IsSequence
<1> QED
  BY <1>2

\* and those are these.
LEMMA SeqIsSequence ==
  ASSUME NEW S, NEW s \in Seq(S)
  PROVE  IsSequence(s)
<1>1. Len(s) \in Nat /\ s \in [1 .. Len(s) -> S]
  OBVIOUS
<1> QED
  BY <1>1 DEF IsSequence

\* Two of them are the same if they are as long and agree in every place.
LEMMA SameSequence ==
  ASSUME NEW img, NEW other, IsSequence(img), IsSequence(other), Len(other) = Len(img),
         \A i \in 1 .. Len(img) : other[i] = img[i]
  PROVE  other = img
<1>1. other = [i \in 1 .. Len(img) |-> other[i]]
  BY DEF IsSequence
<1>2. img = [i \in 1 .. Len(img) |-> img[i]]
  BY DEF IsSequence
<1>3. [i \in 1 .. Len(img) |-> other[i]] = [i \in 1 .. Len(img) |-> img[i]]
  OBVIOUS
<1> QED
  BY <1>1, <1>2, <1>3

\* One after the other.
LEMMA Concatenation ==
  ASSUME NEW s, NEW t, IsSequence(s), IsSequence(t)
  PROVE  /\ IsSequence(s \o t)
         /\ Len(s \o t) = Len(s) + Len(t)
         /\ \A i \in 1 .. (Len(s) + Len(t)) :
              (s \o t)[i] = IF i <= Len(s) THEN s[i] ELSE t[i - Len(s)]
<1>1. PICK S : s \in Seq(S)
  BY SequenceIsSeq
<1>2. PICK T : t \in Seq(T)
  BY SequenceIsSeq
<1>3. s \in Seq(S \cup T) /\ t \in Seq(S \cup T)
  BY <1>1, <1>2
<1>4. /\ s \o t \in Seq(S \cup T)
      /\ Len(s \o t) = Len(s) + Len(t)
      /\ \A i \in 1 .. (Len(s) + Len(t)) :
           (s \o t)[i] = IF i <= Len(s) THEN s[i] ELSE t[i - Len(s)]
  BY <1>3, ConcatProperties
<1>5. IsSequence(s \o t)
  BY <1>4, SeqIsSequence
<1> QED
  BY <1>4, <1>5

\* The first n of cells.
LEMMA FirstCells ==
  ASSUME NEW m \in Nat, NEW cells, cells = [i \in 1 .. m |-> cells[i]], NEW n \in 0 .. m
  PROVE  /\ Len(SubSeq(cells, 1, n)) = n
         /\ \A i \in 1 .. n : SubSeq(cells, 1, n)[i] = cells[i]
         /\ n = m => SubSeq(cells, 1, n) = cells
<1>1. IsSequence(cells) /\ Len(cells) = m
  BY FunctionIsSequence
<1>2. PICK S : cells \in Seq(S)
  BY <1>1, SequenceIsSeq
<1> QED
  BY <1>1, <1>2, SubSeqProperties, SubSeqFull

\* The n cells behind the first at.
LEMMA SubSequence ==
  ASSUME NEW img, IsSequence(img), NEW at \in Nat, NEW n \in Nat, at + n <= Len(img)
  PROVE  /\ SubSeq(img, at + 1, at + n) = [i \in 1 .. n |-> img[at + i]]
         /\ Len(SubSeq(img, at + 1, at + n)) = n
<1>1. PICK S : img \in Seq(S)
  BY SequenceIsSeq
<1> DEFINE cells == SubSeq(img, at + 1, at + n)
<1>2. /\ at + 1 \in Int /\ at + n \in Int
      /\ (at + n) - (at + 1) + 1 = n
      /\ (at + 1 <= at + n) = (n # 0)
  OBVIOUS
<1>3. \A i \in (at + 1) .. (at + n) : img[i] \in S
  BY <1>1
<1>4. /\ cells \in Seq(S)
      /\ Len(cells) = n
      /\ \A i \in 1 .. n : cells[i] = img[(at + 1) + i - 1]
  BY <1>2, <1>3, SubSeqProperties
<1>5. \A i \in 1 .. n : (at + 1) + i - 1 = at + i
  OBVIOUS
<1> HIDE DEF cells
<1>6. cells = [i \in 1 .. n |-> cells[i]]
  BY <1>4, SeqIsSequence DEF IsSequence
<1>7. [i \in 1 .. n |-> cells[i]] = [i \in 1 .. n |-> img[at + i]]
  BY <1>4, <1>5
<1> QED
  BY <1>4, <1>6, <1>7 DEF cells

-----------------------------------------------------------------------------
(* Layout.                                                                 *)

\* The constants as the proofs use them.
LEMMA Layout ==
  /\ SECTOR_SIZE \in Nat \ {0}
  /\ NUM_SYSTEM_SECTORS \in Nat \ {0}
  /\ SKIPSECTORS \in Nat
  /\ SIZE_OFFSET \in Nat \ {0}
  /\ APPDATA_OFFSET \in Nat
  /\ APPDATA_SIZE \in Nat \ {0}
  /\ SIZE_OFFSET < APPDATA_OFFSET
  /\ APPDATA_OFFSET + APPDATA_SIZE <= SECTOR_SIZE
  /\ FRAGMENT_COUNT \in Nat \ {0}
  /\ FRAGMENT_COUNT < SECTOR_SIZE
  /\ FRAGMENT_SUM_SIZE \in Nat
  /\ FRAGMENT_SUM_SIZE % FRAGMENT_COUNT = 0
  /\ Space \in Cell
BY LayoutAssumption DEF LayoutAssumption

\* A read asks for as much as the system area has.
LEMMA BufferSize ==
  /\ buffer_size \in Nat \ {0}
  /\ SYSTEM_AREA_SIZE = buffer_size
BY Layout, ProductIsPositive DEF buffer_size, SYSTEM_AREA_SIZE

\* Descriptors are at offsets.
LEMMA DescriptorStartType ==
  ASSUME NEW k \in Nat
  PROVE  DescriptorStart(k) \in Nat
BY Layout, BufferSize, ProductType DEF DescriptorStart

\* No two descriptors overlap.
LEMMA DescriptorsApart ==
  ASSUME NEW j \in Nat, NEW k \in Nat, j < k
  PROVE  DescriptorStart(j) + SECTOR_SIZE <= DescriptorStart(k)
<1>1. j * SECTOR_SIZE + SECTOR_SIZE <= k * SECTOR_SIZE
  BY Layout, ProductStep
<1>2. j * SECTOR_SIZE \in Nat /\ k * SECTOR_SIZE \in Nat
  BY Layout, ProductType
<1> QED
  BY <1>1, <1>2, Layout, BufferSize DEF DescriptorStart

\* The type byte and the size of a descriptor are outside the application
\* data of every descriptor.
LEMMA OutsideAppData ==
  ASSUME NEW j \in Nat, NEW k \in Nat,
         NEW i \in (DescriptorStart(k) + APPDATA_OFFSET + 1) ..
                     (DescriptorStart(k) + APPDATA_OFFSET + APPDATA_SIZE)
  PROVE  /\ i # DescriptorStart(j) + 1
         /\ i # DescriptorStart(j) + SIZE_OFFSET + 1
<1>1. DescriptorStart(j) \in Nat /\ DescriptorStart(k) \in Nat
  BY DescriptorStartType
<1>2. CASE j = k
  BY <1>1, <1>2, Layout
<1>3. CASE j < k
  BY <1>1, <1>3, Layout, DescriptorsApart
<1>4. CASE k < j
  BY <1>1, <1>4, Layout, DescriptorsApart
<1> QED
  BY <1>2, <1>3, <1>4

-----------------------------------------------------------------------------
(* The descriptor that the search ends with.                               *)

\* The search stops at the first descriptor that stops it.
LEMMA ScanStopIsLeast ==
  ASSUME NEW img, StopDescriptors(img) # {}
  PROVE  /\ ScanStop(img) \in StopDescriptors(img)
         /\ ScanStop(img) \in Nat
         /\ \A j \in StopDescriptors(img) : ScanStop(img) <= j
<1>1. StopDescriptors(img) \subseteq Nat
  BY DEF StopDescriptors
<1>2. \E k \in StopDescriptors(img) : \A j \in StopDescriptors(img) : k <= j
  BY <1>1, LeastNumber
<1> QED
  BY <1>1, <1>2 DEF ScanStop

\* The application data is at an offset.
LEMMA AppDataStartType ==
  ASSUME NEW img, StopDescriptors(img) # {}
  PROVE  /\ DescriptorStart(ScanStop(img)) \in Nat
         /\ AppDataStart(img) \in Nat
BY Layout, ScanStopIsLeast, DescriptorStartType DEF AppDataStart

-----------------------------------------------------------------------------
(* Images that differ in their application data only.                      *)

\* Where the application data is, as places in the sequence.
AppDataPlaces(img) == (AppDataStart(img) + 1) .. (AppDataStart(img) + APPDATA_SIZE)

SameOutside(img, other) ==
  /\ Len(other) = Len(img)
  /\ \A i \in 1 .. Len(img) : i \notin AppDataPlaces(img) => other[i] = img[i]

\* What is read in two parts is what is read at once.
LEMMA CellsAppend ==
  ASSUME NEW img, NEW n \in Nat, NEW m \in Nat
  PROVE  CellsAt(img, 0, n) \o CellsAt(img, n, m) = CellsAt(img, 0, n + m)
<1> DEFINE left == CellsAt(img, 0, n)
           right == CellsAt(img, n, m)
           whole == CellsAt(img, 0, n + m)
<1>1. left = [k \in 1 .. n |-> img[k]]
  BY DEF CellsAt
<1>2. right = [k \in 1 .. m |-> img[n + k]]
  BY DEF CellsAt
<1>3. whole = [k \in 1 .. (n + m) |-> img[k]]
  BY DEF CellsAt
<1> HIDE DEF left, right, whole
<1>4. IsSequence(left) /\ Len(left) = n
  BY <1>1, FunctionIsSequence
<1>5. IsSequence(right) /\ Len(right) = m
  BY <1>2, FunctionIsSequence
<1>6. IsSequence(whole) /\ Len(whole) = n + m
  BY <1>3, FunctionIsSequence
<1>7. /\ IsSequence(left \o right)
      /\ Len(left \o right) = n + m
      /\ \A i \in 1 .. (n + m) :
           (left \o right)[i] = IF i <= n THEN left[i] ELSE right[i - n]
  BY <1>4, <1>5, Concatenation
<1>8. ASSUME NEW i \in 1 .. (n + m)
      PROVE  (left \o right)[i] = whole[i]
  <2>1. CASE i <= n
    BY <1>1, <1>3, <1>7, <2>1
  <2>2. CASE ~(i <= n)
    <3>1. i - n \in 1 .. m /\ n + (i - n) = i
      BY <2>2
    <3> QED
      BY <1>2, <1>3, <1>7, <2>2, <3>1
  <2> QED
    BY <2>1, <2>2
<1>9. left \o right = whole
  BY <1>6, <1>7, <1>8, SameSequence
<1> QED
  BY <1>9 DEF left, right, whole

\* The same descriptors are found in them.
LEMMA SameStopDescriptors ==
  ASSUME NEW img, NEW other, Len(img) \in Nat, StopDescriptors(img) # {},
         SameOutside(img, other)
  PROVE  StopDescriptors(other) = StopDescriptors(img)
<1>1. ASSUME NEW k \in Nat, DescriptorStart(k) < Len(img), NEW type
      PROVE  IsDescriptor(other, k, type) <=> IsDescriptor(img, k, type)
  <2>1. DescriptorStart(k) \in Nat
    BY DescriptorStartType
  <2>2. DescriptorStart(k) + 1 \in 1 .. Len(img)
    BY <1>1, <2>1
  <2>3. DescriptorStart(k) + 1 \notin AppDataPlaces(img)
    BY OutsideAppData, ScanStopIsLeast DEF AppDataPlaces, AppDataStart
  <2> QED
    BY <2>2, <2>3 DEF SameOutside, IsDescriptor
<1>2. Len(other) = Len(img)
  BY DEF SameOutside
<1> QED
  BY <1>1, <1>2 DEF StopDescriptors

\* The search, and what is computed of the volume, is the same.
LEMMA SameVolume ==
  ASSUME NEW img, NEW other, IsSequence(img), StopDescriptors(img) # {},
         SameOutside(img, other), NEW unreadable
  PROVE  /\ StopDescriptors(other) # {}
         /\ ScanStop(other) = ScanStop(img)
         /\ AppDataStart(other) = AppDataStart(img)
         /\ AppDataPlaces(other) = AppDataPlaces(img)
         /\ PvdOffset(other) = PvdOffset(img)
         /\ HasPrimary(other, unreadable) <=> HasPrimary(img, unreadable)
         /\ AppDataStart(img) < Len(img) => SectorsOf(other) = SectorsOf(img)
         /\ AppDataStart(img) < Len(img) => isosize(other) = isosize(img)
<1>1. StopDescriptors(other) = StopDescriptors(img)
  BY SameStopDescriptors DEF IsSequence
<1>2. ScanStop(other) = ScanStop(img)
  BY <1>1 DEF ScanStop
<1> DEFINE start == DescriptorStart(ScanStop(img))
<1>3. ScanStop(img) \in Nat /\ start \in Nat /\ start < Len(img) /\ Len(img) \in Nat
  BY ScanStopIsLeast, DescriptorStartType DEF StopDescriptors, IsSequence
<1>4. IsDescriptor(other, ScanStop(img), "PRIMARY") <=> IsDescriptor(img, ScanStop(img), "PRIMARY")
  <2>1. start + 1 \in 1 .. Len(img)
    BY <1>3
  <2>2. start + 1 \notin AppDataPlaces(img)
    BY <1>3, OutsideAppData DEF AppDataPlaces, AppDataStart
  <2> QED
    BY <2>1, <2>2 DEF SameOutside, IsDescriptor
<1>5. AppDataStart(img) < Len(img)
        => SectorsOf(other) = SectorsOf(img) /\ isosize(other) = isosize(img)
  <2> SUFFICES ASSUME AppDataStart(img) < Len(img)
               PROVE  other[start + SIZE_OFFSET + 1] = img[start + SIZE_OFFSET + 1]
    BY <1>2 DEF isosize, SectorsOf
  <2>1. start + SIZE_OFFSET + 1 \in 1 .. Len(img)
    BY <1>3, Layout DEF AppDataStart
  <2>2. start + SIZE_OFFSET + 1 \notin AppDataPlaces(img)
    BY <1>3, OutsideAppData DEF AppDataPlaces, AppDataStart
  <2> QED
    BY <2>1, <2>2 DEF SameOutside
<1> QED
  BY <1>1, <1>2, <1>4, <1>5 DEF AppDataStart, AppDataPlaces, PvdOffset, HasPrimary

\* Changes of the application data add up to one.
LEMMA SameOutsideTwice ==
  ASSUME NEW img, NEW other, NEW third, IsSequence(img), StopDescriptors(img) # {},
         SameOutside(img, other), SameOutside(other, third)
  PROVE  SameOutside(img, third)
<1>1. AppDataPlaces(other) = AppDataPlaces(img)
  BY SameVolume
<1> QED
  BY <1>1 DEF SameOutside

-----------------------------------------------------------------------------
(* Writing.                                                                *)

\* What a write() within the file leaves.
LEMMA WriteWithin ==
  ASSUME NEW img, IsSequence(img), NEW pos \in Nat, NEW cells, Len(cells) \in Nat,
         pos + Len(cells) <= Len(img)
  PROVE  LET written == WriteAt(img, pos, cells)
         IN  /\ IsSequence(written)
             /\ Len(written) = Len(img)
             /\ \A i \in 1 .. Len(img) :
                  written[i] = IF i \in (pos + 1) .. (pos + Len(cells))
                               THEN cells[i - pos] ELSE img[i]
<1> DEFINE written == WriteAt(img, pos, cells)
<1>1. Len(img) \in Nat
  BY DEF IsSequence
<1>2. MAX(Len(img), pos + Len(cells)) = Len(img)
  BY <1>1 DEF MAX
<1>3. written = [i \in 1 .. Len(img) |->
                   IF i \in (pos + 1) .. (pos + Len(cells)) THEN cells[i - pos]
                   ELSE IF i <= Len(img) THEN img[i] ELSE <<"hole">>]
  BY <1>2 DEF WriteAt
<1> HIDE DEF written
<1>4. written = [i \in 1 .. Len(img) |-> written[i]]
  BY <1>3
<1>5. IsSequence(written) /\ Len(written) = Len(img)
  BY <1>1, <1>4, FunctionIsSequence
<1>6. ASSUME NEW i \in 1 .. Len(img)
      PROVE  written[i] = IF i \in (pos + 1) .. (pos + Len(cells))
                          THEN cells[i - pos] ELSE img[i]
  BY <1>1, <1>3
<1> QED
  BY <1>5, <1>6 DEF written

\* Writing no more than the application data changes no other cell.
LEMMA WriteAppDataSame ==
  ASSUME NEW img, IsSequence(img), StopDescriptors(img) # {},
         AppDataStart(img) + APPDATA_SIZE <= Len(img),
         NEW cells, Len(cells) \in 0 .. APPDATA_SIZE
  PROVE  LET written == WriteAt(img, AppDataStart(img), cells)
         IN  IsSequence(written) /\ SameOutside(img, written)
<1>1. AppDataStart(img) \in Nat /\ Len(cells) \in Nat /\ APPDATA_SIZE \in Nat /\ Len(img) \in Nat
  BY AppDataStartType, Layout DEF IsSequence
<1>2. AppDataStart(img) + Len(cells) <= Len(img)
  BY <1>1
<1> QED
  BY <1>1, <1>2, WriteWithin DEF SameOutside, AppDataPlaces

\* The application data, cell by cell.
LEMMA AppDataOfIs ==
  ASSUME NEW img, IsSequence(img), StopDescriptors(img) # {},
         AppDataStart(img) + APPDATA_SIZE <= Len(img)
  PROVE  AppDataOf(img) = [i \in 1 .. APPDATA_SIZE |-> img[AppDataStart(img) + i]]
<1>1. AppDataStart(img) \in Nat /\ APPDATA_SIZE \in Nat
  BY AppDataStartType, Layout
<1>2. AppDataOf(img) = SubSeq(img, AppDataStart(img) + 1, AppDataStart(img) + APPDATA_SIZE)
  BY DEF AppDataOf, AppDataStart
<1> QED
  BY <1>1, <1>2, SubSequence

\* What was written to the application data is what is there.
LEMMA WrittenAppData ==
  ASSUME NEW img, IsSequence(img), StopDescriptors(img) # {},
         AppDataStart(img) + APPDATA_SIZE <= Len(img),
         NEW cells, cells = [i \in 1 .. APPDATA_SIZE |-> cells[i]]
  PROVE  AppDataOf(WriteAt(img, AppDataStart(img), cells)) = cells
<1> DEFINE written == WriteAt(img, AppDataStart(img), cells)
<1>1. AppDataStart(img) \in Nat /\ APPDATA_SIZE \in Nat \ {0} /\ Len(img) \in Nat
  BY AppDataStartType, Layout DEF IsSequence
<1>2. Len(cells) = APPDATA_SIZE
  BY <1>1, FunctionIsSequence
<1>3. IsSequence(written) /\ SameOutside(img, written)
  BY <1>1, <1>2, WriteAppDataSame
<1>4. Len(written) = Len(img) /\ StopDescriptors(written) # {}
      /\ AppDataStart(written) = AppDataStart(img)
  BY <1>3, SameVolume DEF SameOutside
<1>5. ASSUME NEW i \in 1 .. APPDATA_SIZE
      PROVE  written[AppDataStart(img) + i] = cells[i]
  <2>1. AppDataStart(img) + i \in 1 .. Len(img)
        /\ AppDataStart(img) + i \in (AppDataStart(img) + 1) .. (AppDataStart(img) + Len(cells))
        /\ (AppDataStart(img) + i) - AppDataStart(img) = i
    BY <1>1, <1>2
  <2> QED
    BY <1>1, <1>2, <2>1, WriteWithin
<1> HIDE DEF written
<1>6. AppDataOf(written) = [i \in 1 .. APPDATA_SIZE |-> written[AppDataStart(img) + i]]
  BY <1>3, <1>4, AppDataOfIs
<1> QED
  BY <1>5, <1>6 DEF written

\* Writing the same again changes nothing.
LEMMA WriteTwice ==
  ASSUME NEW img, IsSequence(img), NEW pos \in Nat, NEW cells, Len(cells) \in Nat,
         pos + Len(cells) <= Len(img)
  PROVE  WriteAt(WriteAt(img, pos, cells), pos, cells) = WriteAt(img, pos, cells)
<1> DEFINE once == WriteAt(img, pos, cells)
           twice == WriteAt(once, pos, cells)
<1>1. /\ IsSequence(once)
      /\ Len(once) = Len(img)
      /\ \A i \in 1 .. Len(img) :
           once[i] = IF i \in (pos + 1) .. (pos + Len(cells)) THEN cells[i - pos] ELSE img[i]
  BY WriteWithin
<1> HIDE DEF once
<1>2. /\ IsSequence(twice)
      /\ Len(twice) = Len(img)
      /\ \A i \in 1 .. Len(img) :
           twice[i] = IF i \in (pos + 1) .. (pos + Len(cells)) THEN cells[i - pos] ELSE once[i]
  BY <1>1, WriteWithin
<1> HIDE DEF twice
<1>3. twice = once
  BY <1>1, <1>2, SameSequence
<1> QED
  BY <1>3 DEF once, twice

-----------------------------------------------------------------------------
(* Blanking and digests.                                                   *)

\* With the application data blanked they are the same.
LEMMA SameBlanked ==
  ASSUME NEW img, NEW other, Len(img) \in Nat, SameOutside(img, other),
         NEW n \in Nat, n <= Len(img)
  PROVE  BlankedAt(other, AppDataStart(img), n) = BlankedAt(img, AppDataStart(img), n)
<1>1. \A i \in 1 .. n : i \in 1 .. Len(img)
  OBVIOUS
<1> QED
  BY <1>1 DEF BlankedAt, SameOutside, AppDataPlaces

\* There is one place where the readable part of a volume ends.
LEMMA ReadablePartExists ==
  ASSUME NEW img, NEW unreadable, HashedSize(img) \in Nat
  PROVE  LET n == ReadablePart(img, unreadable)
         IN  /\ n \in 0 .. HashedSize(img)
             /\ \A i \in 0 .. (n - 1) : i \notin unreadable
             /\ n = HashedSize(img) \/ n \in unreadable
<1> DEFINE size == HashedSize(img)
           P(m) == /\ \A i \in 0 .. (m - 1) : i \notin unreadable
                   /\ m = size \/ m \in unreadable
           T == {m \in 0 .. size : m = size \/ m \in unreadable}
<1>1. T \in SUBSET Nat /\ size \in T
  OBVIOUS
<1>2. PICK m \in T : \A k \in T : m <= k
  BY <1>1, LeastNumber
<1>3. ASSUME NEW i \in 0 .. (m - 1)
      PROVE  i \notin unreadable
  <2>1. i \in 0 .. size /\ ~(m <= i)
    BY <1>2
  <2> QED
    BY <1>2, <2>1
<1>4. m \in 0 .. size /\ P(m)
  BY <1>2, <1>3
<1>5. ReadablePart(img, unreadable) = CHOOSE k \in 0 .. size : P(k)
  BY DEF ReadablePart
<1> QED
  BY <1>4, <1>5

\* What can be read ends at the first cell that cannot.
LEMMA ReadablePartIs ==
  ASSUME NEW img, NEW unreadable, NEW n \in 0 .. HashedSize(img), HashedSize(img) \in Nat,
         \A i \in 0 .. (n - 1) : i \notin unreadable,
         n = HashedSize(img) \/ n \in unreadable
  PROVE  n = ReadablePart(img, unreadable)
<1> DEFINE m == ReadablePart(img, unreadable)
<1>1. /\ m \in 0 .. HashedSize(img)
      /\ \A i \in 0 .. (m - 1) : i \notin unreadable
      /\ m = HashedSize(img) \/ m \in unreadable
  BY ReadablePartExists
<1> HIDE DEF m
<1>2. m < n => m \in 0 .. (n - 1) /\ m # HashedSize(img)
  BY <1>1
<1>3. n < m => n \in 0 .. (m - 1) /\ n # HashedSize(img)
  BY <1>1
<1>4. ~(m < n) /\ ~(n < m)
  BY <1>1, <1>2, <1>3
<1>5. n = m
  BY <1>1, <1>4
<1> QED
  BY <1>5 DEF m

\* As much can be read of both.
LEMMA SameReadablePart ==
  ASSUME NEW img, NEW other, NEW unreadable, Len(other) = Len(img), isosize(other) = isosize(img)
  PROVE  /\ HashedSize(other) = HashedSize(img)
         /\ VolumeSize(other) = VolumeSize(img)
         /\ ReadablePart(other, unreadable) = ReadablePart(img, unreadable)
BY DEF ReadablePart, HashedSize, VolumeSize

-----------------------------------------------------------------------------
(* Fragment ends.                                                          *)

\* There are finitely many ends.
LEMMA FragmentEndsFinite ==
  ASSUME NEW img, NEW n \in Nat, NEW S \in SUBSET FragmentEnds(img, n)
  PROVE  /\ S \subseteq 1 .. (n - 1)
         /\ IsFiniteSet(S)
         /\ Cardinality(S) \in Nat
<1>1. S \subseteq 1 .. (n - 1)
  BY DEF FragmentEnds
<1>2. IsFiniteSet(1 .. (n - 1))
  BY FS_Interval
<1> QED
  BY <1>1, <1>2, FS_Subset, FS_CardinalityType

\* One more end below a bound is one more in number.
LEMMA OneMoreEnd ==
  ASSUME NEW img, NEW n \in Nat, NEW o \in FragmentEnds(img, n)
  PROVE  Cardinality({p \in FragmentEnds(img, n) : p <= o})
           = Cardinality({p \in FragmentEnds(img, n) : p < o}) + 1
<1> DEFINE ends == FragmentEnds(img, n)
           below == {p \in ends : p < o}
<1>1. ends \subseteq Nat
  BY FragmentEndsFinite
<1>2. {p \in ends : p <= o} = below \cup {o} /\ o \notin below
  BY <1>1
<1>3. IsFiniteSet(below)
  BY FragmentEndsFinite
<1> HIDE DEF below
<1>4. Cardinality(below \cup {o}) = Cardinality(below) + 1
  BY <1>2, <1>3, FS_AddElement
<1> QED
  BY <1>2, <1>4 DEF below

\* The end with K ends before it is the one of number K + 1.
LEMMA FragmentEndIs ==
  ASSUME NEW img, NEW n \in Nat, NEW o \in FragmentEnds(img, n)
  PROVE  FragmentEnd(img, n, Cardinality({p \in FragmentEnds(img, n) : p < o}) + 1) = o
<1> DEFINE ends == FragmentEnds(img, n)
           Upto(q) == Cardinality({p \in ends : p <= q})
           Below(q) == Cardinality({p \in ends : p < q})
<1>1. ends \subseteq Nat
  BY FragmentEndsFinite
<1>2. ASSUME NEW q \in ends, NEW r \in ends, q < r
      PROVE  Upto(q) < Upto(r)
  <2>1. {p \in ends : p <= q} \subseteq {p \in ends : p < r}
    BY <1>1, <1>2
  <2>2. IsFiniteSet({p \in ends : p < r}) /\ Below(r) \in Nat /\ Upto(q) \in Nat
    BY FragmentEndsFinite
  <2>3. Upto(q) <= Below(r)
    BY <2>1, <2>2, FS_Subset
  <2>4. Upto(r) = Below(r) + 1
    BY OneMoreEnd
  <2> QED
    BY <2>2, <2>3, <2>4
<1>3. ASSUME NEW q \in ends
      PROVE  Upto(q) \in Nat
  BY FragmentEndsFinite
<1>4. Upto(o) = Below(o) + 1
  BY OneMoreEnd
<1> HIDE DEF Upto
<1>5. ASSUME NEW q \in ends, Upto(q) = Below(o) + 1
      PROVE  q = o
  <2>1. ~(q < o)
    BY <1>2, <1>3, <1>4, <1>5
  <2>2. ~(o < q)
    BY <1>2, <1>3, <1>4, <1>5
  <2> QED
    BY <1>1, <2>1, <2>2
<1>6. o = CHOOSE q \in ends : Upto(q) = Below(o) + 1
  BY <1>4, <1>5
<1> QED
  BY <1>6 DEF FragmentEnd, Upto

\* There is an end of every number.
LEMMA FragmentEndExists ==
  ASSUME NEW img, NEW n \in Nat, NEW f \in 1 .. Cardinality(FragmentEnds(img, n))
  PROVE  /\ FragmentEnd(img, n, f) \in FragmentEnds(img, n)
         /\ Cardinality({p \in FragmentEnds(img, n) : p <= FragmentEnd(img, n, f)}) = f
<1> DEFINE ends == FragmentEnds(img, n)
           Upto(q) == Cardinality({p \in ends : p <= q})
           T == {m \in Nat : Upto(m) >= f}
<1>1. Cardinality(ends) \in Nat /\ \A p \in ends : p \in Nat /\ 1 <= p /\ p <= n
  BY FragmentEndsFinite
<1>2. ASSUME NEW m \in Nat
      PROVE  IsFiniteSet({p \in ends : p <= m}) /\ Upto(m) \in Nat
  BY FragmentEndsFinite
<1>3. n \in T
  <2>1. {p \in ends : p <= n} = ends
    BY <1>1
  <2> QED
    BY <1>1, <2>1
<1> HIDE DEF ends
<1>4. PICK m \in Nat : m \in T /\ \A k \in T : m <= k
  BY <1>3, LeastNumber
<1>5. m # 0
  <2>1. {p \in ends : p <= 0} = {}
    BY <1>1
  <2>2. Upto(0) = 0
    BY <2>1, FS_EmptySet
  <2> QED
    BY <2>2, <1>4
<1>6. m - 1 \in Nat /\ Upto(m - 1) < f
  <2>1. m - 1 \in Nat /\ ~(m <= m - 1)
    BY <1>4, <1>5
  <2>2. m - 1 \notin T
    BY <1>4, <2>1
  <2>3. Upto(m - 1) \in Nat
    BY <1>2, <2>1
  <2> QED
    BY <2>1, <2>2, <2>3
<1>7. m \in ends
  <2> SUFFICES ASSUME m \notin ends
               PROVE  FALSE
    OBVIOUS
  <2>0. \A p \in ends : p <= m <=> p <= m - 1
    BY <1>1
  <2>1. {p \in ends : p <= m} = {p \in ends : p <= m - 1}
    BY <2>0
  <2> QED
    BY <2>1, <1>2, <1>4, <1>6
<1>8. Upto(m) = f
  <2>0. \A p \in ends : p <= m - 1 <=> p < m
    BY <1>1
  <2>1. {p \in ends : p <= m - 1} = {p \in ends : p < m}
    BY <2>0
  <2>2. Upto(m) = Upto(m - 1) + 1
    BY <1>7, <2>1, OneMoreEnd DEF ends
  <2>3. Upto(m) \in Nat /\ Upto(m - 1) \in Nat /\ Upto(m - 1) < f
    BY <1>2, <1>6
  <2>4. Upto(m) >= f
    BY <1>4
  <2> HIDE DEF Upto
  <2> QED
    BY <2>2, <2>3, <2>4
<1> QED
  BY <1>7, <1>8 DEF FragmentEnd, ends

\* The end of number f is below an offset only if f ends are.
LEMMA EndIsCounted ==
  ASSUME NEW img, NEW n \in Nat, NEW f \in 1 .. Cardinality(FragmentEnds(img, n)),
         NEW o \in Nat, FragmentEnd(img, n, f) < o
  PROVE  f <= Cardinality({p \in FragmentEnds(img, n) : p < o})
<1> DEFINE ends == FragmentEnds(img, n)
           e == FragmentEnd(img, n, f)
<1>1. e \in ends /\ Cardinality({p \in ends : p <= e}) = f
  BY FragmentEndExists
<1>2. ends \subseteq Nat
  BY FragmentEndsFinite
<1>3. {p \in ends : p <= e} \subseteq {p \in ends : p < o}
  BY <1>1, <1>2
<1>4. IsFiniteSet({p \in ends : p < o})
  BY FragmentEndsFinite
<1>5. Cardinality({p \in ends : p <= e}) <= Cardinality({p \in ends : p < o})
  BY <1>3, <1>4, FS_Subset
<1> QED
  BY <1>1, <1>5

\* A block that begins at a multiple of the buffer size passes no fragment
\* end but, perhaps, the one at its beginning.
LEMMA EndsPassed ==
  ASSUME NEW img, NEW n \in Nat, NEW o \in Nat, o < n, o % buffer_size = 0,
         NEW r \in 1 .. buffer_size
  PROVE  LET ends == FragmentEnds(img, n)
             below(q) == Cardinality({p \in ends : p < q})
         IN  below(o + r) = IF o \in ends THEN below(o) + 1 ELSE below(o)
<1> DEFINE ends == FragmentEnds(img, n)
<1>1. \A p \in ends : p \in Nat /\ p % buffer_size = 0
  BY DEF FragmentEnds
<1>2. \A p \in ends : o < p => o + buffer_size <= p
  BY <1>1, BufferSize, NextMultiple
<1>3. \A p \in ends : p < o + r <=> p <= o
  BY <1>1, <1>2, BufferSize
<1>4. {p \in ends : p < o + r} = {p \in ends : p <= o}
  BY <1>3
<1>5. CASE o \in ends
  BY <1>4, <1>5, OneMoreEnd
<1>6. CASE o \notin ends
  <2>1. \A p \in ends : p <= o <=> p < o
    BY <1>1, <1>6
  <2>2. {p \in ends : p <= o} = {p \in ends : p < o}
    BY <2>1
  <2> QED
    BY <1>4, <1>6, <2>2
<1> QED
  BY <1>5, <1>6

\* The size of a volume is a whole number of sectors, and if it is not 0 a
\* fragment is not empty.
LEMMA VolumeSizeIs ==
  ASSUME NEW img, SectorsOf(img) \in Nat, Len(img) \in Nat
  PROVE  /\ VolumeSize(img) \in Int
         /\ VolumeSize(img) = SECTOR_SIZE * (SectorsOf(img) - SKIPSECTORS)
         /\ HashedSize(img) \in Nat
         /\ HashedSize(img) <= Len(img)
         /\ VolumeSize(img) >= 0 => HashedSize(img) <= VolumeSize(img)
         /\ VolumeSize(img) > 0 => FragmentSize(img) \in Nat \ {0}
<1>1. VolumeSize(img) = SECTOR_SIZE * (SectorsOf(img) - SKIPSECTORS)
  BY Layout DEF VolumeSize, isosize
<1>2. VolumeSize(img) \in Int
  BY <1>1, Layout
<1>3. /\ HashedSize(img) \in Nat
      /\ HashedSize(img) <= Len(img)
      /\ VolumeSize(img) >= 0 => HashedSize(img) <= VolumeSize(img)
  BY <1>2 DEF HashedSize, MAX, MIN
<1>4. ASSUME VolumeSize(img) > 0
      PROVE  FragmentSize(img) \in Nat \ {0}
  <2> DEFINE s == SectorsOf(img) - SKIPSECTORS
             c == FRAGMENT_COUNT + 1
  <2>1. s \in Int /\ c \in Nat \ {0} /\ c <= SECTOR_SIZE
    BY Layout
  <2>2. SECTOR_SIZE * 0 = 0 /\ SECTOR_SIZE * s > 0
    BY <1>1, <1>4, Layout
  <2> HIDE DEF s, c
  <2>3. 0 < s
    BY <2>1, <2>2, Layout, ProductOrder
  <2>4. SECTOR_SIZE <= SECTOR_SIZE * s
    BY <2>1, <2>2, <2>3, Layout, ProductOrder
  <2>5. c <= VolumeSize(img)
    BY <1>1, <1>2, <2>1, <2>4, Layout DEF s
  <2>6. c \div c <= VolumeSize(img) \div c
    BY <1>2, <2>1, <2>5, DivisionOrder
  <2>7. (c * 1 + 0) \div c = 1 /\ c * 1 + 0 = c
    BY <2>1, DivisionIs
  <2>8. VolumeSize(img) \div c \in Int
    BY <1>2, <2>1, Division
  <2> QED
    BY <2>6, <2>7, <2>8 DEF FragmentSize, c
<1> QED
  BY <1>1, <1>2, <1>3, <1>4

\* A read that begins at a multiple of the buffer size begins in one of the
\* FRAGMENT_COUNT + 1 fragments: what the division leaves of the volume is
\* less than a sector.
LEMMA FragmentIsCounted ==
  ASSUME NEW img, SectorsOf(img) \in Nat, Len(img) \in Nat,
         NEW o \in Nat, o < VolumeSize(img), o % buffer_size = 0
  PROVE  /\ o \div FragmentSize(img) \in Nat
         /\ o \div FragmentSize(img) <= FRAGMENT_COUNT
<1> DEFINE size == FragmentSize(img)
           total == VolumeSize(img)
           s == SectorsOf(img) - SKIPSECTORS
           c == FRAGMENT_COUNT + 1
           q == o \div size
           b == o \div buffer_size
<1>1. /\ total \in Int /\ total = SECTOR_SIZE * s /\ size \in Nat \ {0}
      /\ s \in Int /\ c \in Nat \ {0} /\ c <= SECTOR_SIZE
  BY VolumeSizeIs, Layout
<1>2. b \in Int /\ o = buffer_size * b
  BY BufferSize, Division
<1>3. o = SECTOR_SIZE * (NUM_SYSTEM_SECTORS * b)
  BY <1>2, Layout DEF buffer_size
<1>4. size = total \div c
  BY DEF FragmentSize
<1>6. NUM_SYSTEM_SECTORS * b \in Int
  BY <1>2, Layout
<1> HIDE DEF s, b, size, total, c
<1>5. /\ q \in Int /\ o % size \in 0 .. (size - 1) /\ o = size * q + (o % size)
      /\ total % c \in 0 .. (c - 1) /\ total = c * size + (total % c)
  <2>0. size \in Nat \ {0} /\ o \in Int
    BY <1>1
  <2>1. q \in Int /\ o % size \in 0 .. (size - 1) /\ o = size * q + (o % size)
    BY <2>0, Division
  <2>2. total % c \in 0 .. (c - 1) /\ total = c * size + (total % c)
    BY <1>1, <1>4, Division
  <2> QED
    BY <2>1, <2>2
<1> HIDE DEF q
<1>7. o + SECTOR_SIZE <= total
  <2>1. NUM_SYSTEM_SECTORS * b < s
    <3>1. ~(s <= NUM_SYSTEM_SECTORS * b)
      BY <1>1, <1>3, <1>6, Layout, ProductOrder DEF total
    <3> QED
      BY <1>1, <1>6, <3>1
  <2> QED
    BY <1>1, <1>3, <1>6, <2>1, Layout, ProductOrder
<1>8. c * size \in Int /\ size * q \in Int /\ c * size = size * c
  BY <1>1, <1>5
<1>9. o < size * c
  BY <1>1, <1>5, <1>7, <1>8, Layout
<1>10. size * q \in Int /\ size * c \in Int /\ size \in Int
       /\ size * q <= o /\ o < size * q + size
  <2>1. o % size \in 0 .. (size - 1) /\ o = size * q + (o % size)
    BY <1>5
  <2>2. size * q \in Int /\ size * c \in Int /\ size \in Int
    BY <1>1, <1>8
  <2> HIDE DEF c
  <2> QED
    BY <2>1, <2>2
<1>11. q < c
  <2>0. c <= q => size * c <= size * q
    BY <1>1, <1>5, ProductOrder
  <2>1. ~(c <= q)
    BY <1>9, <1>10, <2>0
  <2> QED
    BY <1>1, <1>5, <2>1
<1>12. 0 <= q
  <2>1. q < 0 => size * q + size <= size * 0
    BY <1>1, <1>5, ProductOrder
  <2>2. size * 0 = 0
    BY <1>1
  <2>3. size * q + size > 0
    BY <1>10
  <2> QED
    BY <1>1, <1>5, <1>10, <2>1, <2>2, <2>3
<1> QED
  BY <1>1, <1>5, <1>11, <1>12, Layout DEF q, size, c

\* A digest does not depend on the application data, and neither do the
\* fragment sums.
LEMMA SameDigests ==
  ASSUME NEW img, NEW other, IsSequence(img), StopDescriptors(img) # {},
         AppDataStart(img) < Len(img), SameOutside(img, other),
         HashedSize(img) \in Nat, HashedSize(img) <= Len(img),
         NEW n \in 0 .. HashedSize(img), NEW alg
  PROVE  /\ HashSum(other, n, alg) = HashSum(img, n, alg)
         /\ FragmentSums(other, n, alg) = FragmentSums(img, n, alg)
<1>1. /\ AppDataStart(other) = AppDataStart(img)
      /\ VolumeSize(other) = VolumeSize(img)
  <2>1. isosize(other) = isosize(img)
    BY SameVolume
  <2> QED
    BY <2>1, SameVolume DEF VolumeSize
<1>2. ASSUME NEW m \in Nat, m <= n
      PROVE  Blanked(other, m) = Blanked(img, m)
  <2>1. m <= Len(img) /\ Len(img) \in Nat
    BY <1>2 DEF IsSequence
  <2> QED
    BY <1>1, <2>1, SameBlanked DEF Blanked
<1>3. FragmentEnds(other, n) = FragmentEnds(img, n)
  BY <1>1 DEF FragmentEnds, FragmentSize
<1>4. HashSum(other, n, alg) = HashSum(img, n, alg)
  BY <1>2 DEF HashSum
<1>5. ASSUME NEW f \in 1 .. Cardinality(FragmentEnds(img, n))
      PROVE  HashedAt(other, n, f) = HashedAt(img, n, f)
  <2>1. FragmentEnd(img, n, f) \in Nat
    <3>1. FragmentEnds(img, n) \subseteq 1 .. (n - 1)
      BY FragmentEndsFinite
    <3>2. n \in Nat
      OBVIOUS
    <3>3. FragmentEnd(img, n, f) \in FragmentEnds(img, n)
      BY ONLY <3>2, <1>5, FragmentEndExists
    <3> QED
      BY <3>1, <3>3
  <2>2. FragmentEnd(other, n, f) = FragmentEnd(img, n, f)
    BY <1>3 DEF FragmentEnd
  <2>3. MIN(FragmentEnd(img, n, f) + buffer_size, n) \in Nat
        /\ MIN(FragmentEnd(img, n, f) + buffer_size, n) <= n
    BY <2>1, BufferSize DEF MIN
  <2> QED
    BY <1>2, <2>2, <2>3 DEF HashedAt
<1>6. FragmentSums(other, n, alg) = FragmentSums(img, n, alg)
  <2> DEFINE width == FRAGMENT_SUM_SIZE \div FRAGMENT_COUNT
             digests(g) == [f \in 1 .. Cardinality(FragmentEnds(g, n)) |->
                              Digest(alg, HashedAt(g, n, f))]
             Sums(d) == [i \in 1 .. (width * Len(d)) |->
                           <<d[((i - 1) \div width) + 1], ((i - 1) % width) + 1>>]
  <2>1. digests(other) = digests(img)
    BY <1>3, <1>5
  <2>2. FragmentSums(other, n, alg) = Sums(digests(other))
    BY DEF FragmentSums
  <2>3. FragmentSums(img, n, alg) = Sums(digests(img))
    BY DEF FragmentSums
  <2> HIDE DEF Sums, digests
  <2> QED
    BY <2>1, <2>2, <2>3
<1> QED
  BY <1>4, <1>6

-----------------------------------------------------------------------------
(* Files that the tools may work on together.                              *)

\* The descriptor is where the search computes it to be, and all of its
\* application data is in the file.
WellFormedImage(img, unread) ==
  /\ img \in Seq(Cell)
  /\ unread \subseteq Nat
  /\ StopDescriptors(img) # {}
  /\ WellPlaced(img)
  /\ HasPrimary(img, unread) =>
       /\ SectorsOf(img) \in Nat
       /\ AppDataStart(img) + APPDATA_SIZE <= Len(img)

\* The other is the image with the cells written over the application data:
\* with as many of them as a write() wrote, or with all.
WrittenOver(img, other, cells, whole) ==
  \E n \in 1 .. APPDATA_SIZE :
    /\ whole => n = APPDATA_SIZE
    /\ other = WriteAt(img, AppDataStart(img), SubSeq(cells, 1, n))

\* Another application data leaves a file what it was.
LEMMA SameWellFormed ==
  ASSUME NEW img, NEW unread, WellFormedImage(img, unread), NEW other \in Seq(Cell),
         SameOutside(img, other)
  PROVE  WellFormedImage(other, unread)
<1>1. IsSequence(img) /\ StopDescriptors(img) # {}
  BY SeqIsSequence DEF WellFormedImage
<1>2. /\ StopDescriptors(other) # {}
      /\ ScanStop(other) = ScanStop(img)
      /\ AppDataStart(other) = AppDataStart(img)
      /\ PvdOffset(other) = PvdOffset(img)
      /\ HasPrimary(other, unread) <=> HasPrimary(img, unread)
      /\ AppDataStart(img) < Len(img) => SectorsOf(other) = SectorsOf(img)
  BY <1>1, SameVolume
<1>3. Len(other) = Len(img) /\ Len(img) \in Nat /\ AppDataStart(img) \in Nat
  BY <1>1, AppDataStartType DEF SameOutside, IsSequence
<1>4. WellPlaced(other)
  BY <1>2, <1>3 DEF WellFormedImage, WellPlaced
<1>5. ASSUME HasPrimary(other, unread)
      PROVE  SectorsOf(other) \in Nat /\ AppDataStart(other) + APPDATA_SIZE <= Len(other)
  <2>1. SectorsOf(img) \in Nat /\ AppDataStart(img) + APPDATA_SIZE <= Len(img)
    BY <1>2, <1>5 DEF WellFormedImage
  <2>2. AppDataStart(img) < Len(img)
    BY <1>3, <2>1, Layout
  <2> QED
    BY <1>2, <1>3, <2>1, <2>2
<1> QED
  BY <1>2, <1>4, <1>5 DEF WellFormedImage

\* An image with cells of another and others.
MadeOf(other, img, cells) ==
  \A i \in 1 .. Len(img) :
    other[i] = img[i] \/ \E j \in 1 .. APPDATA_SIZE : other[i] = cells[j]

\* What a write() over the application data leaves.
LEMMA WrittenOverFacts ==
  ASSUME NEW img, NEW unread, WellFormedImage(img, unread), HasPrimary(img, unread),
         NEW cells, cells = [i \in 1 .. APPDATA_SIZE |-> cells[i]],
         \A i \in 1 .. APPDATA_SIZE : cells[i] \in Cell,
         NEW whole, NEW other, WrittenOver(img, other, cells, whole)
  PROVE  /\ SameOutside(img, other)
         /\ other \in Seq(Cell)
         /\ WellFormedImage(other, unread)
         /\ MadeOf(other, img, cells)
         /\ whole => AppDataOf(other) = cells
<1>1. /\ IsSequence(img) /\ StopDescriptors(img) # {}
      /\ AppDataStart(img) + APPDATA_SIZE <= Len(img)
  BY SeqIsSequence DEF WellFormedImage
<1>2. PICK n \in 1 .. APPDATA_SIZE :
        /\ whole => n = APPDATA_SIZE
        /\ other = WriteAt(img, AppDataStart(img), SubSeq(cells, 1, n))
  BY DEF WrittenOver
<1> DEFINE part == SubSeq(cells, 1, n)
<1>3. /\ Len(part) = n
      /\ \A i \in 1 .. n : part[i] = cells[i]
      /\ n = APPDATA_SIZE => part = cells
  <2>1. APPDATA_SIZE \in Nat /\ n \in 0 .. APPDATA_SIZE
    BY Layout
  <2> QED
    BY <2>1, FirstCells
<1>4. AppDataStart(img) \in Nat /\ Len(img) \in Nat /\ APPDATA_SIZE \in Nat \ {0}
  BY <1>1, AppDataStartType, Layout DEF IsSequence
<1> HIDE DEF part
<1>5. other = WriteAt(img, AppDataStart(img), part)
  BY <1>2 DEF part
<1>6. Len(part) \in Nat /\ AppDataStart(img) + Len(part) <= Len(img)
  BY <1>1, <1>3, <1>4
<1>7. /\ IsSequence(other)
      /\ Len(other) = Len(img)
      /\ \A i \in 1 .. Len(img) :
           other[i] = IF i \in (AppDataStart(img) + 1) .. (AppDataStart(img) + Len(part))
                      THEN part[i - AppDataStart(img)] ELSE img[i]
  BY <1>1, <1>4, <1>5, <1>6, WriteWithin
<1>8. SameOutside(img, other)
  <2>1. Len(part) \in 0 .. APPDATA_SIZE
    BY <1>3, <1>4
  <2> QED
    BY <1>1, <1>5, <2>1, WriteAppDataSame
<1>9. ASSUME NEW i \in 1 .. Len(img)
      PROVE  other[i] = img[i] \/ \E j \in 1 .. APPDATA_SIZE : other[i] = cells[j]
  <2>1. CASE i \in (AppDataStart(img) + 1) .. (AppDataStart(img) + Len(part))
    <3>1. /\ i - AppDataStart(img) \in 1 .. n
          /\ i - AppDataStart(img) \in 1 .. APPDATA_SIZE
      BY <1>3, <1>4, <2>1
    <3>2. other[i] = cells[i - AppDataStart(img)]
      BY <1>3, <1>7, <2>1, <3>1
    <3> QED
      BY <3>1, <3>2
  <2> QED
    BY <1>7, <2>1
<1>10. other \in Seq(Cell)
  <2>1. \A i \in 1 .. Len(img) : img[i] \in Cell
    BY DEF WellFormedImage
  <2>2. \A i \in 1 .. Len(other) : other[i] \in Cell
    BY <1>7, <1>9, <2>1
  <2>3. other = [i \in 1 .. Len(other) |-> other[i]] /\ Len(other) \in Nat
    BY <1>7 DEF IsSequence
  <2> QED
    BY <2>2, <2>3
<1>11. WellFormedImage(other, unread)
  BY <1>8, <1>10, SameWellFormed
<1>12. ASSUME whole PROVE AppDataOf(other) = cells
  <2>1. other = WriteAt(img, AppDataStart(img), cells)
    BY <1>2, <1>3, <1>5, <1>12
  <2> QED
    BY <1>1, <2>1, WrittenAppData
<1> QED
  BY <1>8, <1>9, <1>10, <1>11, <1>12 DEF MadeOf

-----------------------------------------------------------------------------
(* What parsepvd() reads.                                                  *)

\* A set of numbers that is bounded has a greatest one.
LEMMA GreatestNumber ==
  ASSUME NEW n \in Nat, NEW S \in SUBSET (1 .. n), S # {}
  PROVE  \E m \in S : \A j \in S : j <= m
<1> DEFINE T == {n - m : m \in S}
<1>1. T \in SUBSET Nat /\ T # {}
  <2>1. \A m \in S : n - m \in Nat
    OBVIOUS
  <2> QED
    BY <2>1
<1> HIDE DEF T
<1>2. PICK t \in T : \A u \in T : t <= u
  BY <1>1, LeastNumber
<1>3. PICK m \in S : t = n - m
  BY DEF T
<1>4. ASSUME NEW j \in S PROVE j <= m
  <2>1. n - j \in T
    BY DEF T
  <2>2. n - m <= n - j
    BY <1>2, <1>3, <2>1
  <2> QED
    BY <2>2
<1> QED
  BY <1>4

\* The last of the fields that are found.
LEMMA LastFieldOf ==
  ASSUME NEW app, NEW n \in Nat, NEW tags, FieldsAt(app, n, tags) # {}
  PROVE  LET found == FieldsAt(app, n, tags)
         IN  (CHOOSE i \in found : \A j \in found : j <= i) \in found
<1> DEFINE found == FieldsAt(app, n, tags)
<1>1. found \in SUBSET (1 .. n)
  BY DEF FieldsAt
<1> HIDE DEF found
<1>2. \E i \in found : \A j \in found : j <= i
  BY <1>1, GreatestNumber DEF found
<1> QED
  BY <1>2 DEF found

\* The parse loop ends where all tasks are done or at the end of the area.
LEMMA ParseEndIs ==
  ASSUME NEW app, Len(app) \in Nat
  PROVE  /\ ParseEnd(app) \in 0 .. Len(app)
         /\ TasksIn(app, ParseEnd(app)) = TASK_DONE \/ ParseEnd(app) = Len(app)
<1> DEFINE P(n) == TasksIn(app, n) = TASK_DONE \/ n = Len(app)
           S == {n \in 0 .. Len(app) : P(n)}
<1>1. S \in SUBSET Nat /\ S # {}
  <2>1. Len(app) \in S
    OBVIOUS
  <2> QED
    BY <2>1
<1>2. PICK n \in S : \A m \in S : n <= m
  <2> HIDE DEF S
  <2> QED
    BY <1>1, LeastNumber
<1>3. ASSUME NEW m \in 0 .. (n - 1) PROVE TasksIn(app, m) # TASK_DONE
  <2>1. m \in 0 .. Len(app) /\ ~(n <= m)
    BY <1>2
  <2>2. m \notin S
    BY <1>2, <2>1
  <2> QED
    BY <2>1, <2>2
<1>4. \E k \in 0 .. Len(app) :
        P(k) /\ \A m \in 0 .. (k - 1) : TasksIn(app, m) # TASK_DONE
  BY <1>2, <1>3
<1> HIDE DEF P
<1>5. ParseEnd(app) = CHOOSE k \in 0 .. Len(app) :
        P(k) /\ \A m \in 0 .. (k - 1) : TasksIn(app, m) # TASK_DONE
  BY DEF ParseEnd, P
<1>6. ParseEnd(app) \in 0 .. Len(app) /\ P(ParseEnd(app))
  BY <1>4, <1>5
<1> QED
  BY <1>6 DEF P

\* A value is that of a field or the default.
LEMMA FieldValueIs ==
  ASSUME NEW app, Len(app) \in Nat, NEW tags, NEW default
  PROVE  \/ FieldValue(app, tags, default) = default
         \/ \E i \in 1 .. Len(app) :
              app[i][1] \in tags /\ FieldValue(app, tags, default) = app[i][2]
<1> DEFINE n == ParseEnd(app)
           found == FieldsAt(app, n, tags)
<1>1. n \in Nat /\ n <= Len(app)
  BY ParseEndIs
<1>2. CASE found = {}
  BY <1>2 DEF FieldValue
<1>3. CASE found # {}
  <2> DEFINE last == CHOOSE i \in found : \A j \in found : j <= i
  <2>1. last \in found
    BY <1>1, <1>3, LastFieldOf
  <2>2. FieldValue(app, tags, default) = app[last][2]
    BY <1>3 DEF FieldValue
  <2>3. last \in 1 .. Len(app) /\ app[last][1] \in tags
    <3> HIDE DEF last
    <3>1. last \in 1 .. n /\ app[last][1] \in tags
      BY <2>1 DEF FieldsAt
    <3> HIDE DEF n
    <3> QED
      BY <1>1, <3>1
  <2> QED
    BY <2>2, <2>3
<1> QED
  BY <1>2, <1>3

\* There is one tag for each algorithm.
LEMMA HashTagsDiffer ==
  /\ {HashTag(alg) : alg \in Algorithms} = {"ISO SHA256SUM", "ISO MD5SUM"}
  /\ \A alg \in Algorithms, other \in Algorithms : HashTag(alg) = HashTag(other) => alg = other
BY DEF HashTag, Algorithms

\* Application data that has a field.
HasField(app, tag, value) ==
  \E i \in 1 .. Len(app) : app[i][1] = tag /\ value = app[i][2]

\* What parsepvd() returns it has of the fields, or by default.
LEMMA VolumeInfoIs ==
  ASSUME NEW img, NEW app, app = AppDataOf(img), Len(app) \in Nat, Parsable(app),
         NEW v, v = VolumeInfo(img)
  PROVE  /\ v.algorithm \in Algorithms
         /\ HasField(app, HashTag(v.algorithm), v.hashsum)
         /\ \/ v.skipsectors = SKIPSECTORS
            \/ HasField(app, "SKIPSECTORS", v.skipsectors)
         /\ \/ v.fragmentcount = FRAGMENT_COUNT
            \/ HasField(app, "FRAGMENT COUNT", v.fragmentcount)
         /\ v.offset = PvdOffset(img)
         /\ v.isosize = isosize(img)
<1> DEFINE n == ParseEnd(app)
           tags == {HashTag(alg) : alg \in Algorithms}
           hashes == FieldsAt(app, n, tags)
           last == CHOOSE i \in hashes : \A j \in hashes : j <= i
<1>1. n \in Nat /\ n <= Len(app)
  BY ParseEndIs
<1>2. hashes # {}
  <2>1. "TASK_HASH" \in TasksIn(app, n)
    BY DEF Parsable
  <2>2. PICK i \in FieldsAt(app, n, DOMAIN TaskOf) : TaskOf[app[i][1]] = "TASK_HASH"
    BY <2>1 DEF TasksIn
  <2>3. i \in 1 .. n /\ app[i][1] \in DOMAIN TaskOf
    BY <2>2 DEF FieldsAt
  <2>4. app[i][1] \in {"ISO SHA256SUM", "ISO MD5SUM"}
    BY <2>2, <2>3 DEF TaskOf
  <2> QED
    BY <2>3, <2>4, HashTagsDiffer DEF FieldsAt
<1>3. last \in hashes
  BY <1>1, <1>2, LastFieldOf
<1>4. /\ v.hashsum = app[last][2]
      /\ v.algorithm = CHOOSE a \in Algorithms : HashTag(a) = app[last][1]
      /\ v.skipsectors = FieldValue(app, {"SKIPSECTORS"}, SKIPSECTORS)
      /\ v.fragmentcount = FieldValue(app, {"FRAGMENT COUNT"}, FRAGMENT_COUNT)
      /\ v.offset = PvdOffset(img)
      /\ v.isosize = isosize(img)
  BY DEF VolumeInfo
<1> HIDE DEF last
<1>5. last \in 1 .. n /\ \E a \in Algorithms : HashTag(a) = app[last][1]
  BY <1>3 DEF FieldsAt
<1>6. v.algorithm \in Algorithms /\ HashTag(v.algorithm) = app[last][1]
  BY <1>4, <1>5
<1> HIDE DEF n
<1>7. last \in 1 .. Len(app)
  BY <1>1, <1>5
<1>8. \/ v.skipsectors = SKIPSECTORS
      \/ HasField(app, "SKIPSECTORS", v.skipsectors)
  <2>1. \/ FieldValue(app, {"SKIPSECTORS"}, SKIPSECTORS) = SKIPSECTORS
        \/ \E i \in 1 .. Len(app) :
             /\ app[i][1] \in {"SKIPSECTORS"}
             /\ FieldValue(app, {"SKIPSECTORS"}, SKIPSECTORS) = app[i][2]
    BY FieldValueIs
  <2> QED
    BY <1>4, <2>1 DEF HasField
<1>9. \/ v.fragmentcount = FRAGMENT_COUNT
      \/ HasField(app, "FRAGMENT COUNT", v.fragmentcount)
  <2>1. \/ FieldValue(app, {"FRAGMENT COUNT"}, FRAGMENT_COUNT) = FRAGMENT_COUNT
        \/ \E i \in 1 .. Len(app) :
             /\ app[i][1] \in {"FRAGMENT COUNT"}
             /\ FieldValue(app, {"FRAGMENT COUNT"}, FRAGMENT_COUNT) = app[i][2]
    BY FieldValueIs
  <2> QED
    BY <1>4, <2>1 DEF HasField
<1> QED
  BY <1>4, <1>6, <1>7, <1>8, <1>9 DEF HasField

\* Blank application data does not parse.
LEMMA BlankIsNoCertificate == ~Parsable(BlankAppData)
<1>1. BlankAppData = [i \in 1 .. APPDATA_SIZE |-> BlankAppData[i]] /\ APPDATA_SIZE \in Nat
  BY Layout DEF BlankAppData
<1>2. Len(BlankAppData) = APPDATA_SIZE
  BY <1>1, FunctionIsSequence
<1>3. ParseEnd(BlankAppData) \in Nat /\ ParseEnd(BlankAppData) <= APPDATA_SIZE
  BY <1>1, <1>2, ParseEndIs
<1>4. \A i \in 1 .. ParseEnd(BlankAppData) : BlankAppData[i][1] = " "
  <2>1. \A i \in 1 .. APPDATA_SIZE : BlankAppData[i][1] = " "
    BY DEF BlankAppData, Space
  <2>2. \A i \in 1 .. ParseEnd(BlankAppData) : i \in 1 .. APPDATA_SIZE
    BY <1>1, <1>3
  <2> QED
    BY <2>1, <2>2
<1>5. FieldsAt(BlankAppData, ParseEnd(BlankAppData), DOMAIN TaskOf) = {}
  BY <1>4 DEF FieldsAt, TaskOf
<1> QED
  BY <1>5 DEF Parsable, TasksIn

\* What the implanters write is read back, if the area has room for all of it.
\* Where it has not, writeAppData() refuses the field and the implanter fails.
FieldsFit == 6 <= APPDATA_SIZE

\* What the loop finds among the first n fields.
HasNewFields(app, n, alg, sum, sums) ==
  /\ {1, 2} \subseteq 1 .. n
  /\ app[1][1] = HashTag(alg) /\ app[1][2] = sum
  /\ app[2][1] = "SKIPSECTORS" /\ app[2][2] = SKIPSECTORS
  /\ app[4][2] = sums
  /\ app[5][2] = FRAGMENT_COUNT
  /\ FieldsAt(app, n, {HashTag(a) : a \in Algorithms}) = {1}
  /\ FieldsAt(app, n, {"SKIPSECTORS"}) = {2}
  /\ FieldsAt(app, n, {"FRAGMENT SUMS"}) = {4}
  /\ FieldsAt(app, n, {"FRAGMENT COUNT"}) = {5}

\* It finds them all.
LEMMA NewAppDataFields ==
  ASSUME FieldsFit, NEW alg \in Algorithms, NEW sum, NEW supported, NEW sums,
         NEW app, app = NewAppData(alg, sum, supported, sums), NEW n, n = ParseEnd(app)
  PROVE  HasNewFields(app, n, alg, sum, sums)
<1> DEFINE fields == NewFields(alg, sum, supported, sums)
<1>1. APPDATA_SIZE \in Nat /\ 6 <= APPDATA_SIZE
  BY Layout DEF FieldsFit
<1>2. /\ app = [i \in 1 .. APPDATA_SIZE |-> app[i]]
      /\ \A i \in 1 .. APPDATA_SIZE :
           app[i] = IF i <= Len(fields) THEN fields[i] ELSE Space
  BY DEF NewAppData
<1>3. /\ Len(fields) = 6
      /\ fields[1][1] = HashTag(alg) /\ fields[1][2] = sum
      /\ fields[2][1] = "SKIPSECTORS" /\ fields[2][2] = SKIPSECTORS
      /\ fields[3][1] = "RHLISOSTATUS"
      /\ fields[4][1] = "FRAGMENT SUMS" /\ fields[4][2] = sums
      /\ fields[5][1] = "FRAGMENT COUNT" /\ fields[5][2] = FRAGMENT_COUNT
      /\ fields[6][1] = Trailer[1]
      /\ Space[1] = " "
  BY DEF NewFields, Space
<1> HIDE DEF fields
<1>4. /\ app[1][1] = HashTag(alg) /\ app[1][2] = sum
      /\ app[2][1] = "SKIPSECTORS" /\ app[2][2] = SKIPSECTORS
      /\ app[3][1] = "RHLISOSTATUS"
      /\ app[4][1] = "FRAGMENT SUMS" /\ app[4][2] = sums
      /\ app[5][1] = "FRAGMENT COUNT" /\ app[5][2] = FRAGMENT_COUNT
      /\ app[6][1] = Trailer[1]
      /\ \A i \in 7 .. APPDATA_SIZE : app[i][1] = " "
  <2>1. {1, 2, 3, 4, 5, 6} \subseteq 1 .. APPDATA_SIZE
    BY <1>1
  <2>2. 1 <= 6 /\ 2 <= 6 /\ 3 <= 6 /\ 4 <= 6 /\ 5 <= 6 /\ 6 <= 6
    OBVIOUS
  <2>3. /\ app[1] = fields[1] /\ app[2] = fields[2] /\ app[3] = fields[3]
        /\ app[4] = fields[4] /\ app[5] = fields[5] /\ app[6] = fields[6]
    BY <1>2, <1>3, <2>1, <2>2, Zenon
  <2>4. \A i \in 7 .. APPDATA_SIZE : i \in 1 .. APPDATA_SIZE /\ ~(i <= 6)
    BY <1>1
  <2> QED
    BY <1>2, <1>3, <2>3, <2>4
<1>5. HashTag(alg) \in {"ISO SHA256SUM", "ISO MD5SUM"}
  BY DEF HashTag
<1>6. Len(app) = APPDATA_SIZE
  BY <1>1, <1>2, FunctionIsSequence
<1>7. /\ n \in Nat /\ n <= APPDATA_SIZE
      /\ TasksIn(app, n) = TASK_DONE \/ n = APPDATA_SIZE
  BY <1>1, <1>6, ParseEndIs
<1>8. ASSUME NEW i \in 1 .. APPDATA_SIZE
      PROVE  /\ (app[i][1] \in {"ISO SHA256SUM", "ISO MD5SUM"}) <=> (i = 1)
             /\ (app[i][1] = "SKIPSECTORS") <=> (i = 2)
             /\ (app[i][1] = "FRAGMENT SUMS") <=> (i = 4)
             /\ (app[i][1] = "FRAGMENT COUNT") <=> (i = 5)
  <2>1. i \in 1 .. 6 \/ i \in 7 .. APPDATA_SIZE
    BY <1>1
  <2>2. CASE i \in 1 .. 6
    <3>1. i \in {1, 2, 3, 4, 5, 6}
      BY <2>2
    <3>2. Trailer[1] \notin {"ISO SHA256SUM", "ISO MD5SUM", "SKIPSECTORS",
                            "FRAGMENT SUMS", "FRAGMENT COUNT"}
      BY DEF Trailer
    <3> QED
      BY <1>4, <1>5, <3>1, <3>2
  <2>3. CASE i \in 7 .. APPDATA_SIZE
    <3>1. app[i][1] = " "
      BY <1>4, <2>3
    <3>2. i \notin {1, 2, 4, 5}
      BY <2>3
    <3> QED
      BY <3>1, <3>2
  <2> QED
    BY <2>1, <2>2, <2>3
<1>9. n >= 5
  <2>1. CASE n = APPDATA_SIZE
    BY <1>1, <2>1
  <2>2. CASE TasksIn(app, n) = TASK_DONE
    <3>1. "TASK_FRAGCOUNT" \in TasksIn(app, n)
      BY <2>2 DEF TASK_DONE
    <3>2. PICK i \in FieldsAt(app, n, DOMAIN TaskOf) : TaskOf[app[i][1]] = "TASK_FRAGCOUNT"
      BY <3>1 DEF TasksIn
    <3>3. i \in 1 .. n /\ app[i][1] \in DOMAIN TaskOf
      BY <3>2 DEF FieldsAt
    <3>4. app[i][1] = "FRAGMENT COUNT"
      BY <3>2, <3>3 DEF TaskOf
    <3>5. i \in 1 .. APPDATA_SIZE
      BY <1>1, <1>7, <3>3
    <3>6. i = 5
      BY <1>8, <3>4, <3>5
    <3> QED
      BY <1>7, <3>3, <3>6
  <2> QED
    BY <1>7, <2>1, <2>2
<1>10. /\ FieldsAt(app, n, {HashTag(a) : a \in Algorithms}) = {1}
       /\ FieldsAt(app, n, {"SKIPSECTORS"}) = {2}
       /\ FieldsAt(app, n, {"FRAGMENT SUMS"}) = {4}
       /\ FieldsAt(app, n, {"FRAGMENT COUNT"}) = {5}
  <2>1. \A i \in 1 .. n : i \in 1 .. APPDATA_SIZE
    BY <1>1, <1>7
  <2>2. {1, 2, 4, 5} \subseteq 1 .. n
    BY <1>7, <1>9
  <2>3. FieldsAt(app, n, {"ISO SHA256SUM", "ISO MD5SUM"}) = {1}
    BY <1>8, <2>1, <2>2 DEF FieldsAt
  <2>4. FieldsAt(app, n, {"SKIPSECTORS"}) = {2}
    BY <1>8, <2>1, <2>2 DEF FieldsAt
  <2>5. FieldsAt(app, n, {"FRAGMENT SUMS"}) = {4}
    BY <1>8, <2>1, <2>2 DEF FieldsAt
  <2>6. FieldsAt(app, n, {"FRAGMENT COUNT"}) = {5}
    BY <1>8, <2>1, <2>2 DEF FieldsAt
  <2> QED
    BY <2>3, <2>4, <2>5, <2>6, HashTagsDiffer
<1>11. {1, 2} \subseteq 1 .. n
  BY <1>7, <1>9
<1> QED
  BY <1>4, <1>10, <1>11 DEF HasNewFields

\* They are enough for it,
LEMMA NewAppDataParses ==
  ASSUME FieldsFit, NEW alg \in Algorithms, NEW sum, NEW supported, NEW sums,
         NEW app, app = NewAppData(alg, sum, supported, sums)
  PROVE  Parsable(app)
<1> DEFINE n == ParseEnd(app)
<1>1. n = ParseEnd(app)
  OBVIOUS
<1> HIDE DEF n
<1>2. HasNewFields(app, n, alg, sum, sums)
  BY <1>1, NewAppDataFields
<1>3. /\ HashTag(alg) \in DOMAIN TaskOf /\ TaskOf[HashTag(alg)] = "TASK_HASH"
      /\ "SKIPSECTORS" \in DOMAIN TaskOf /\ TaskOf["SKIPSECTORS"] = "TASK_SKIP"
  BY DEF TaskOf, HashTag
<1>4. /\ 1 \in FieldsAt(app, n, DOMAIN TaskOf) /\ TaskOf[app[1][1]] = "TASK_HASH"
      /\ 2 \in FieldsAt(app, n, DOMAIN TaskOf) /\ TaskOf[app[2][1]] = "TASK_SKIP"
  BY <1>2, <1>3 DEF HasNewFields, FieldsAt
<1> QED
  BY <1>4 DEF Parsable, TasksIn, n

\* and the volume information is what was written.
LEMMA NewAppDataIs ==
  ASSUME FieldsFit, NEW alg \in Algorithms, NEW sum, NEW supported, NEW sums,
         NEW img, AppDataOf(img) = NewAppData(alg, sum, supported, sums),
         NEW v, v = VolumeInfo(img)
  PROVE  /\ v.algorithm = alg
         /\ v.hashsum = sum
         /\ v.skipsectors = SKIPSECTORS
         /\ v.fragmentsums = sums
         /\ v.fragmentcount = FRAGMENT_COUNT
<1> DEFINE app == AppDataOf(img)
           n == ParseEnd(app)
           hashes == FieldsAt(app, n, {HashTag(a) : a \in Algorithms})
           last == CHOOSE i \in hashes : \A j \in hashes : j <= i
<1>1. /\ v.hashsum = app[last][2]
      /\ v.algorithm = CHOOSE a \in Algorithms : HashTag(a) = app[last][1]
      /\ v.skipsectors = FieldValue(app, {"SKIPSECTORS"}, SKIPSECTORS)
      /\ v.fragmentsums = FieldValue(app, {"FRAGMENT SUMS"}, Uninitialized)
      /\ v.fragmentcount = FieldValue(app, {"FRAGMENT COUNT"}, FRAGMENT_COUNT)
  BY DEF VolumeInfo
<1>2. app = NewAppData(alg, sum, supported, sums)
  OBVIOUS
<1> HIDE DEF app
<1>3. /\ app[1][1] = HashTag(alg) /\ app[1][2] = sum
      /\ app[2][2] = SKIPSECTORS /\ app[4][2] = sums /\ app[5][2] = FRAGMENT_COUNT
      /\ hashes = {1}
      /\ FieldsAt(app, n, {"SKIPSECTORS"}) = {2}
      /\ FieldsAt(app, n, {"FRAGMENT SUMS"}) = {4}
      /\ FieldsAt(app, n, {"FRAGMENT COUNT"}) = {5}
  <2>1. n = ParseEnd(app)
    OBVIOUS
  <2> HIDE DEF n
  <2>2. HasNewFields(app, n, alg, sum, sums)
    BY <1>2, <2>1, NewAppDataFields
  <2> QED
    BY <2>2 DEF HasNewFields
<1>4. \A k \in {1, 2, 4, 5} : (CHOOSE i \in {k} : \A j \in {k} : j <= i) = k
  OBVIOUS
<1>5. /\ FieldValue(app, {"SKIPSECTORS"}, SKIPSECTORS) = app[2][2]
      /\ FieldValue(app, {"FRAGMENT SUMS"}, Uninitialized) = app[4][2]
      /\ FieldValue(app, {"FRAGMENT COUNT"}, FRAGMENT_COUNT) = app[5][2]
  BY <1>3, <1>4 DEF FieldValue
<1>6. last = 1
  BY <1>3, <1>4
<1>7. (CHOOSE a \in Algorithms : HashTag(a) = HashTag(alg)) = alg
  BY HashTagsDiffer
<1> HIDE DEF last
<1> QED
  BY <1>1, <1>3, <1>5, <1>6, <1>7
=============================================================================
