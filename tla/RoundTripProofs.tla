--------------------------- MODULE RoundTripProofs ---------------------------
(***************************************************************************)
(* Proofs about RoundTrip: a medium that was damaged after its certificate *)
(* was made does not pass, one that was not is not condemned, and a        *)
(* certificate that was made is found, however the steps of two            *)
(* implanters, a checker and the damage interleave, for every layout,      *)
(* medium and damage.                                                      *)
(*                                                                         *)
(* What was proved of one implanter and of the checker is used of their    *)
(* instances here.  The checker is taken to check the image that it parsed *)
(* the descriptor of: the application data, which is all that an implanter *)
(* changes, is not hashed.                                                 *)
(***************************************************************************)
EXTENDS RoundTrip, CertificateLemmas

-----------------------------------------------------------------------------
(* What is said of images.                                                 *)

\* A field is one that an implanter may have written, or the checker can use
\* as if it were.
FieldIsStandard(cell) ==
  /\ cell[1] \in {HashTag(alg) : alg \in Algorithms}
       => \E alg \in Algorithms, content \in Seq(Cell) :
            cell = <<HashTag(alg), Digest(alg, content)>>
  /\ cell[1] = "SKIPSECTORS" => cell[2] = SKIPSECTORS
  /\ cell[1] = "FRAGMENT COUNT" => cell[2] \in 0 .. (SECTOR_SIZE - 1)

FieldsAreStandard(img) ==
  \A i \in AppDataPlaces(img) : i <= Len(img) => FieldIsStandard(img[i])

\* A certificate that is that of its image.
Genuine(img, unread) ==
  HasVolumeInfo(img, unread) =>
    LET v == VolumeInfo(img)
        n == ReadablePart(img, unread)
    IN  /\ v.fragmentcount \in {0, FRAGMENT_COUNT}
        /\ v.skipsectors = SKIPSECTORS
        /\ v.hashsum = HashSum(img, n, v.algorithm)
        /\ v.fragmentcount # 0 =>
             /\ v.fragmentsums = FragmentSums(img, n, v.algorithm)
             /\ v.fragmentsums # Uninitialized

\* The damage spares the type of the descriptor and the size that it states.
DamageSpares(img) ==
  LET start == DescriptorStart(ScanStop(img))
  IN  DamageAt \cap {start, start + SIZE_OFFSET} = {}

\* A digest of damaged content is that of damage that is still there and that
\* is not one of the set.
CellSpares(img, set, cell) ==
  \A alg \in Algorithms, content \in Seq(Cell) :
    cell = <<HashTag(alg), Digest(alg, content)>> =>
      \A o \in 1 .. Len(content) :
        o <= Len(img) /\ o \notin AppDataPlaces(img) /\ content[o] = <<"damaged">>
        => img[o] = <<"damaged">> /\ o - 1 \notin set

DigestsSpare(img, set) ==
  \A i \in AppDataPlaces(img) : i <= Len(img) => CellSpares(img, set, img[i])

DamageIsThere(img, set) ==
  \A o \in set :
    /\ o \in Nat /\ o < Len(img)
    /\ o + 1 \notin AppDataPlaces(img) => img[o + 1] = <<"damaged">>

\* The image, with the offsets that were damaged.
Marked(img, set) ==
  /\ WellFormedImage(img, unreadable)
  /\ DamageSpares(img)
  /\ FieldsAreStandard(img)
  /\ DigestsSpare(img, set)
  /\ DamageIsThere(img, set)

-----------------------------------------------------------------------------
(* What the theorems require.                                              *)

\* Of the media to begin with.
MediaAreWellFormed ==
  \A m \in Media : WellFormedImage(m.image, m.unreadable) /\ DamageSpares(m.image)

CertificatesAreStandard ==
  \A m \in Media : FieldsAreStandard(m.image) /\ DigestsSpare(m.image, {})

\* The characters of fragment sums.
Character == {<<Digest(alg, c), i>> : alg \in Algorithms, c \in Seq(Cell), i \in Nat}

\* Of cells: that damage and the fields of a certificate are some.
CellsAreClosed ==
  /\ <<"damaged">> \in Cell
  /\ \A alg \in Algorithms, content \in Seq(Cell), supported \in {0, 1},
        sums \in Seq(Character), i \in 1 .. APPDATA_SIZE :
       NewAppData(alg, Digest(alg, content), supported, sums)[i] \in Cell

\* Of the media to begin with: their certificates are those of what they hold.
CertificatesAreGenuine == \A m \in Media : Genuine(m.image, m.unreadable)

\* Memory that nothing was written to is told apart from any fragment sums.
UninitializedIsNoSum == Uninitialized \notin Seq(Character)

-----------------------------------------------------------------------------
(* What the implanters and the damage do to an image.                      *)

Erased(img, other) == WrittenOver(img, other, BlankAppData, "short write" \notin faults)

Certified(img, other) ==
  \E alg \in Algorithms, content \in Seq(Cell), supported \in {0, 1}, sums \in Seq(Character) :
    /\ Len(content) <= Len(img)
    /\ \A i \in 1 .. Len(content) : i \notin AppDataPlaces(img) => content[i] = img[i]
    /\ WrittenOver(img, other, NewAppData(alg, Digest(alg, content), supported, sums),
                   "short write" \notin faults)

\* What is written for a certificate.
LEMMA CertificateCells ==
  ASSUME CellsAreClosed, NEW alg \in Algorithms, NEW content \in Seq(Cell),
         NEW supported \in {0, 1}, NEW sums \in Seq(Character),
         NEW cells, cells = NewAppData(alg, Digest(alg, content), supported, sums)
  PROVE  /\ cells = [i \in 1 .. APPDATA_SIZE |-> cells[i]]
         /\ \A i \in 1 .. APPDATA_SIZE :
              /\ cells[i] \in Cell
              /\ FieldIsStandard(cells[i])
              /\ cells[i] = <<HashTag(alg), Digest(alg, content)>>
                 \/ cells[i][1] \notin {HashTag(other) : other \in Algorithms}
<1>1. cells = [i \in 1 .. APPDATA_SIZE |-> cells[i]]
  BY DEF NewAppData
<1>4. \A i \in 1 .. APPDATA_SIZE : cells[i] \in Cell
  BY Zenon DEF CellsAreClosed
<1>5. ASSUME NEW i \in 1 .. APPDATA_SIZE
      PROVE  /\ FieldIsStandard(cells[i])
             /\ cells[i] = <<HashTag(alg), Digest(alg, content)>>
                \/ cells[i][1] \notin {HashTag(other) : other \in Algorithms}
  <2>1. \/ cells[i] = <<HashTag(alg), Digest(alg, content)>>
        \/ cells[i] = <<"SKIPSECTORS", SKIPSECTORS>>
        \/ cells[i] = <<"RHLISOSTATUS", supported>>
        \/ cells[i] = <<"FRAGMENT SUMS", sums>>
        \/ cells[i] = <<"FRAGMENT COUNT", FRAGMENT_COUNT>>
        \/ cells[i] = Trailer
        \/ cells[i] = Space
    <3> DEFINE fields == NewFields(alg, Digest(alg, content), supported, sums)
    <3>1. /\ Len(fields) = 6
          /\ fields[1] = <<HashTag(alg), Digest(alg, content)>>
          /\ fields[2] = <<"SKIPSECTORS", SKIPSECTORS>>
          /\ fields[3] = <<"RHLISOSTATUS", supported>>
          /\ fields[4] = <<"FRAGMENT SUMS", sums>>
          /\ fields[5] = <<"FRAGMENT COUNT", FRAGMENT_COUNT>>
          /\ fields[6] = Trailer
      BY Zenon DEF NewFields
    <3>2. cells[i] = IF i <= Len(fields) THEN fields[i] ELSE Space
      BY DEF NewAppData
    <3> HIDE DEF fields
    <3>3. i \in Nat /\ (i <= 6 => i \in {1, 2, 3, 4, 5, 6})
      BY Layout
    <3> QED
      BY <3>1, <3>2, <3>3, Zenon
  <2>2. HashTag(alg) \in {"ISO SHA256SUM", "ISO MD5SUM"}
    BY DEF HashTag
  <2>3. FRAGMENT_COUNT \in 0 .. (SECTOR_SIZE - 1)
    BY Layout
  <2>4. CASE cells[i] = <<HashTag(alg), Digest(alg, content)>>
    <3>1. FieldIsStandard(<<HashTag(alg), Digest(alg, content)>>)
      BY <2>2, Zenon DEF FieldIsStandard
    <3> QED
      BY <2>4, <3>1
  <2>5. CASE cells[i] # <<HashTag(alg), Digest(alg, content)>>
    <3> DEFINE Plain(cell) ==
                 /\ cell[1] \notin {"ISO SHA256SUM", "ISO MD5SUM"}
                 /\ cell[1] = "SKIPSECTORS" => cell[2] = SKIPSECTORS
                 /\ cell[1] = "FRAGMENT COUNT" => cell[2] = FRAGMENT_COUNT
    <3>2. Plain(<<"SKIPSECTORS", SKIPSECTORS>>)
      OBVIOUS
    <3>3. Plain(<<"RHLISOSTATUS", supported>>)
      OBVIOUS
    <3>4. Plain(<<"FRAGMENT SUMS", sums>>)
      OBVIOUS
    <3>5. Plain(<<"FRAGMENT COUNT", FRAGMENT_COUNT>>)
      OBVIOUS
    <3>6. Plain(Trailer) /\ Plain(Space)
      BY DEF Trailer, Space
    <3>7. Plain(cells[i])
      <4> HIDE DEF Plain
      <4> QED
        BY <2>1, <2>5, <3>2, <3>3, <3>4, <3>5, <3>6, Zenon
    <3>1. /\ cells[i][1] \notin {"ISO SHA256SUM", "ISO MD5SUM"}
          /\ cells[i][1] = "SKIPSECTORS" => cells[i][2] = SKIPSECTORS
          /\ cells[i][1] = "FRAGMENT COUNT" => cells[i][2] = FRAGMENT_COUNT
      BY <3>7, Zenon
    <3> QED
      BY <2>3, <3>1, HashTagsDiffer, Zenon DEF FieldIsStandard
  <2> QED
    BY <2>4, <2>5
<1> QED
  BY <1>1, <1>4, <1>5

\* And when it is erased.
LEMMA BlankCells ==
  /\ BlankAppData = [i \in 1 .. APPDATA_SIZE |-> BlankAppData[i]]
  /\ \A i \in 1 .. APPDATA_SIZE :
       /\ BlankAppData[i] \in Cell
       /\ FieldIsStandard(BlankAppData[i])
       /\ BlankAppData[i][1] \notin {HashTag(other) : other \in Algorithms}
BY Layout, HashTagsDiffer, Zenon DEF BlankAppData, Space, FieldIsStandard

\* A field without a tag of a digest is none of any damage.
LEMMA NoDigestSpares ==
  ASSUME NEW img, NEW set, NEW cell,
         cell[1] \notin {HashTag(other) : other \in Algorithms}
  PROVE  CellSpares(img, set, cell)
BY DEF CellSpares

\* Application data that an implanter writes says nothing of damage that is
\* not there.
LEMMA WrittenIsMarked ==
  ASSUME NEW img, NEW set, NEW less, Marked(img, set), less \subseteq set,
         HasPrimary(img, unreadable),
         NEW cells, cells = [i \in 1 .. APPDATA_SIZE |-> cells[i]],
         \A i \in 1 .. APPDATA_SIZE :
           /\ cells[i] \in Cell
           /\ FieldIsStandard(cells[i])
           /\ CellSpares(img, less, cells[i]),
         NEW whole, NEW other, WrittenOver(img, other, cells, whole)
  PROVE  SameOutside(img, other) /\ Marked(other, less)
<1>1. WellFormedImage(img, unreadable) /\ IsSequence(img) /\ StopDescriptors(img) # {}
  BY SeqIsSequence DEF Marked, WellFormedImage
<1>2. /\ SameOutside(img, other)
      /\ WellFormedImage(other, unreadable)
      /\ \A i \in 1 .. Len(img) :
           other[i] = img[i] \/ \E j \in 1 .. APPDATA_SIZE : other[i] = cells[j]
  <2>1. \A i \in 1 .. APPDATA_SIZE : cells[i] \in Cell
    OBVIOUS
  <2>2. cells = [i \in 1 .. APPDATA_SIZE |-> cells[i]]
    OBVIOUS
  <2>3. HasPrimary(img, unreadable) /\ WrittenOver(img, other, cells, whole)
    OBVIOUS
  <2>4. SameOutside(img, other)
    BY <1>1, <2>1, <2>2, <2>3, WrittenOverFacts, Zenon
  <2>5. WellFormedImage(other, unreadable)
    BY <1>1, <2>1, <2>2, <2>3, WrittenOverFacts, Zenon
  <2>6. ASSUME NEW i \in 1 .. Len(img)
        PROVE  other[i] = img[i] \/ \E j \in 1 .. APPDATA_SIZE : other[i] = cells[j]
    <3>1. MadeOf(other, img, cells)
      BY <1>1, <2>1, <2>2, <2>3, WrittenOverFacts, Zenon
    <3> QED
      BY <3>1 DEF MadeOf
  <2> QED
    BY <2>4, <2>5, <2>6
<1>3. /\ ScanStop(other) = ScanStop(img)
      /\ AppDataPlaces(other) = AppDataPlaces(img)
      /\ Len(other) = Len(img) /\ Len(img) \in Nat
      /\ AppDataStart(img) \in Nat
  BY <1>1, <1>2, SameVolume, AppDataStartType DEF SameOutside, IsSequence
<1>4. AppDataPlaces(img) \subseteq Nat \ {0}
  BY <1>3, Layout DEF AppDataPlaces
<1>5. DamageSpares(other)
  BY <1>3 DEF Marked, DamageSpares
<1>6. FieldsAreStandard(other)
  BY <1>2, <1>3, <1>4 DEF Marked, FieldsAreStandard
<1>7. ASSUME NEW i \in AppDataPlaces(other), i <= Len(other)
      PROVE  CellSpares(other, less, other[i])
  <2>1. i \in 1 .. Len(img) /\ i \in AppDataPlaces(img)
    BY <1>3, <1>4, <1>7
  <2>2. CellSpares(img, less, other[i])
    <3>1. CellSpares(img, less, img[i])
      <4>1. CellSpares(img, set, img[i])
        BY <1>3, <2>1 DEF Marked, DigestsSpare
      <4> QED
        BY <4>1 DEF CellSpares
    <3> QED
      BY <1>2, <2>1, <3>1
  <2> QED
    BY <1>2, <1>3, <2>2 DEF CellSpares, SameOutside
<1>8. DigestsSpare(other, less)
  BY <1>7 DEF DigestsSpare
<1>9. DamageIsThere(other, less)
  <2>1. ASSUME NEW o \in less PROVE o + 1 \in 1 .. Len(img) /\ o < Len(other)
    BY <1>3 DEF Marked, DamageIsThere
  <2> QED
    BY <1>2, <1>3, <2>1 DEF Marked, DamageIsThere, SameOutside
<1> QED
  BY <1>2, <1>5, <1>6, <1>8, <1>9 DEF Marked

\* So it is when an implanter erases a certificate,
LEMMA ErasedIsMarked ==
  ASSUME Marked(image, damaged), HasPrimary(image, unreadable), NEW other, Erased(image, other)
  PROVE  SameOutside(image, other) /\ Marked(other, damaged)
BY BlankCells, NoDigestSpares, WrittenIsMarked, Zenon DEF Erased

\* and when it writes one, of what is there.
LEMMA CertifiedIsMarked ==
  ASSUME CellsAreClosed, Marked(image, damaged), HasPrimary(image, unreadable),
         NEW other, Certified(image, other)
  PROVE  SameOutside(image, other) /\ Marked(other, {})
<1>1. PICK alg \in Algorithms, content \in Seq(Cell), supported \in {0, 1},
           sums \in Seq(Character) :
        /\ Len(content) <= Len(image)
        /\ \A i \in 1 .. Len(content) : i \notin AppDataPlaces(image) => content[i] = image[i]
        /\ WrittenOver(image, other, NewAppData(alg, Digest(alg, content), supported, sums),
                       "short write" \notin faults)
  BY Zenon DEF Certified
<1> DEFINE cells == NewAppData(alg, Digest(alg, content), supported, sums)
<1>2. /\ cells = [i \in 1 .. APPDATA_SIZE |-> cells[i]]
      /\ \A i \in 1 .. APPDATA_SIZE :
           /\ cells[i] \in Cell
           /\ FieldIsStandard(cells[i])
           /\ cells[i] = <<HashTag(alg), Digest(alg, content)>>
              \/ cells[i][1] \notin {HashTag(b1) : b1 \in Algorithms}
  BY CertificateCells
<1>3. CellSpares(image, {}, <<HashTag(alg), Digest(alg, content)>>)
  <2>1. ASSUME NEW alg2 \in Algorithms, NEW content2 \in Seq(Cell),
               <<HashTag(alg), Digest(alg, content)>> = <<HashTag(alg2), Digest(alg2, content2)>>
        PROVE  content2 = content
    BY <2>1 DEF Digest
  <2> QED
    BY <1>1, <2>1, Zenon DEF CellSpares
<1> HIDE DEF cells
<1>4. \A i \in 1 .. APPDATA_SIZE : CellSpares(image, {}, cells[i])
  BY <1>2, <1>3, NoDigestSpares
<1> QED
  BY <1>1, <1>2, <1>4, WrittenIsMarked, Zenon DEF cells

\* What is damaged is marked.
LEMMA DamagedIsMarked ==
  ASSUME CellsAreClosed, Marked(image, damaged), NEW at \in DamageAt, at < Len(image),
         Damaged(image, at) # image
  PROVE  Marked(Damaged(image, at), damaged \cup {at})
<1> DEFINE other == Damaged(image, at)
<1>1. image \in Seq(Cell) /\ Len(image) \in Nat /\ IsSequence(image) /\ StopDescriptors(image) # {}
  BY SeqIsSequence DEF Marked, WellFormedImage
<1>2. at \in Nat /\ at + 1 \in 1 .. Len(image)
  BY <1>1, ToolsAssumption DEF ToolsAssumption
<1>3. /\ other \in Seq(Cell)
      /\ Len(other) = Len(image)
      /\ other[at + 1] = <<"damaged">>
      /\ \A i \in 1 .. Len(image) : i # at + 1 => other[i] = image[i]
  BY <1>1, <1>2 DEF Damaged, CellsAreClosed
<1>4. image[at + 1] # <<"damaged">>
  <2> SUFFICES ASSUME image[at + 1] = <<"damaged">>
               PROVE  other = image
    OBVIOUS
  <2> HIDE DEF other
  <2>1. IsSequence(other)
    BY <1>3, SeqIsSequence
  <2> QED
    BY <1>1, <1>3, <2>1, SameSequence
<1> HIDE DEF other
<1>5. ASSUME NEW k \in Nat, DescriptorStart(k) < Len(image), NEW type,
             IsDescriptor(other, k, type)
      PROVE  IsDescriptor(image, k, type)
  <2>1. DescriptorStart(k) + 1 \in 1 .. Len(image)
    <3>1. DescriptorStart(k) \in Nat
      BY DescriptorStartType
    <3> QED
      BY <1>1, <1>5, <3>1
  <2>2. <<"damaged">> # <<"type", type>>
    OBVIOUS
  <2> QED
    BY <1>3, <1>5, <2>1, <2>2 DEF IsDescriptor
<1> DEFINE k == ScanStop(image)
<1>6. /\ k \in Nat /\ k \in StopDescriptors(image)
      /\ \A j \in StopDescriptors(image) : k <= j
      /\ DescriptorStart(k) \in Nat /\ DescriptorStart(k) < Len(image)
  BY <1>1, ScanStopIsLeast, DescriptorStartType, Zenon DEF StopDescriptors
<1> HIDE DEF k
<1>7. at # DescriptorStart(k) /\ at # DescriptorStart(k) + SIZE_OFFSET
  BY DEF Marked, DamageSpares, k
<1>8. other[DescriptorStart(k) + 1] = image[DescriptorStart(k) + 1]
  <2>1. DescriptorStart(k) + 1 \in 1 .. Len(image) /\ DescriptorStart(k) + 1 # at + 1
    BY <1>1, <1>2, <1>6, <1>7
  <2> QED
    BY <1>3, <2>1
<1>9. k \in StopDescriptors(other)
  BY <1>3, <1>6, <1>8 DEF StopDescriptors, IsDescriptor
<1>10. StopDescriptors(other) \subseteq StopDescriptors(image)
  <2> SUFFICES ASSUME NEW j \in StopDescriptors(other)
               PROVE  j \in StopDescriptors(image)
    OBVIOUS
  <2>1. j \in 0 .. (Len(image) \div SECTOR_SIZE) /\ DescriptorStart(j) < Len(image)
    BY <1>3 DEF StopDescriptors
  <2>2. j \in Nat
    BY <2>1
  <2> QED
    BY <1>5, <2>1, <2>2 DEF StopDescriptors
<1>11. ScanStop(other) = k
  <2>1. ScanStop(other) \in StopDescriptors(other) /\ ScanStop(other) \in Nat /\ ScanStop(other) <= k
    BY <1>9, ScanStopIsLeast
  <2> QED
    BY <1>6, <1>10, <2>1
<1>12. /\ AppDataStart(other) = AppDataStart(image)
       /\ AppDataPlaces(other) = AppDataPlaces(image)
       /\ PvdOffset(other) = PvdOffset(image)
       /\ AppDataStart(image) \in Nat
  BY <1>1, <1>11, AppDataStartType DEF AppDataStart, AppDataPlaces, PvdOffset, k
<1>13. HasPrimary(other, unreadable) => HasPrimary(image, unreadable)
  BY <1>1, <1>8, <1>11 DEF HasPrimary, IsDescriptor, k
<1>14. HasPrimary(image, unreadable) => SectorsOf(other) = SectorsOf(image)
  <2> SUFFICES ASSUME HasPrimary(image, unreadable)
               PROVE  SectorsOf(other) = SectorsOf(image)
    OBVIOUS
  <2>1. AppDataStart(image) + APPDATA_SIZE <= Len(image)
    BY DEF Marked, WellFormedImage
  <2>2. /\ DescriptorStart(k) + SIZE_OFFSET + 1 \in 1 .. Len(image)
        /\ DescriptorStart(k) + SIZE_OFFSET + 1 # at + 1
    BY <1>1, <1>2, <1>6, <1>7, <2>1, Layout DEF AppDataStart, k
  <2>3. other[DescriptorStart(k) + SIZE_OFFSET + 1] = image[DescriptorStart(k) + SIZE_OFFSET + 1]
    BY <1>3, <2>2
  <2> QED
    BY <1>11, <2>3 DEF SectorsOf, k
<1>15. WellFormedImage(other, unreadable)
  <2>1. WellPlaced(other)
    BY <1>3, <1>11, <1>12 DEF Marked, WellFormedImage, WellPlaced, k
  <2> QED
    BY <1>3, <1>9, <1>12, <1>13, <1>14, <2>1 DEF Marked, WellFormedImage
<1>16. DamageSpares(other)
  BY <1>11 DEF Marked, DamageSpares, k
<1>17. AppDataPlaces(image) \subseteq Nat \ {0}
  BY <1>12, Layout DEF AppDataPlaces
<1>18. <<"damaged">>[1] \notin {HashTag(b1) : b1 \in Algorithms}
  BY HashTagsDiffer, Zenon
<1>19. FieldsAreStandard(other)
  <2>1. FieldIsStandard(<<"damaged">>)
    BY <1>18 DEF FieldIsStandard
  <2> QED
    BY <1>3, <1>12, <1>17, <2>1 DEF Marked, FieldsAreStandard
<1>20. ASSUME NEW i \in AppDataPlaces(image), i <= Len(image)
       PROVE  CellSpares(other, damaged \cup {at}, other[i])
  <2>1. i \in 1 .. Len(image)
    BY <1>17, <1>20
  <2>2. CASE i = at + 1
    BY <1>3, <1>18, <2>2, NoDigestSpares
  <2>3. CASE i # at + 1
    <3>1. other[i] = image[i] /\ CellSpares(image, damaged, image[i])
      BY <1>3, <1>20, <2>1, <2>3 DEF Marked, DigestsSpare
    <3> SUFFICES ASSUME NEW alg \in Algorithms, NEW content \in Seq(Cell),
                        image[i] = <<HashTag(alg), Digest(alg, content)>>,
                        NEW o \in 1 .. Len(content), o <= Len(image),
                        o \notin AppDataPlaces(image), content[o] = <<"damaged">>
                 PROVE  other[o] = <<"damaged">> /\ o - 1 \notin damaged \cup {at}
      BY <1>3, <1>12, <3>1 DEF CellSpares
    <3>2. image[o] = <<"damaged">> /\ o - 1 \notin damaged
      BY <3>1 DEF CellSpares
    <3>3. o \in 1 .. Len(image) /\ o # at + 1
      BY <1>1, <1>4, <3>2
    <3> QED
      BY <1>2, <1>3, <3>2, <3>3
  <2> QED
    BY <2>2, <2>3
<1>21. DigestsSpare(other, damaged \cup {at})
  BY <1>3, <1>12, <1>20, Zenon DEF DigestsSpare
<1>22. DamageIsThere(other, damaged \cup {at})
  <2>1. ASSUME NEW o \in damaged PROVE o \in Nat /\ o < Len(image) /\ o + 1 \in 1 .. Len(image)
    BY <1>1 DEF Marked, DamageIsThere
  <2>2. ASSUME NEW o \in damaged, o + 1 \notin AppDataPlaces(image)
        PROVE  other[o + 1] = <<"damaged">>
    <3>1. image[o + 1] = <<"damaged">>
      BY <2>2 DEF Marked, DamageIsThere
    <3> QED
      BY <1>3, <2>1, <3>1
  <2>3. at \in Nat /\ at < Len(image) /\ other[at + 1] = <<"damaged">>
    BY <1>2, <1>3
  <2> QED
    BY <1>3, <1>12, <2>1, <2>2, <2>3 DEF DamageIsThere
<1> QED
  BY <1>15, <1>16, <1>19, <1>21, <1>22 DEF Marked, other

\* Nothing is outside what did not change.
LEMMA SameOutsideItself ==
  ASSUME NEW img
  PROVE  SameOutside(img, img)
BY DEF SameOutside

\* What is hashed of a well-formed file.
LEMMA ReadableOf ==
  ASSUME NEW img, NEW unread, WellFormedImage(img, unread), HasPrimary(img, unread)
  PROVE  /\ HashedSize(img) \in Nat /\ HashedSize(img) <= Len(img) /\ Len(img) \in Nat
         /\ ReadablePart(img, unread) \in 0 .. HashedSize(img)
         /\ \A i \in 0 .. (ReadablePart(img, unread) - 1) : i \notin unread
         /\ \/ ReadablePart(img, unread) = HashedSize(img)
            \/ ReadablePart(img, unread) \in unread
         /\ VolumeSize(img) \in Int
         /\ IsSequence(img) /\ StopDescriptors(img) # {}
         /\ AppDataStart(img) \in Nat /\ AppDataStart(img) < Len(img)
<1>1. /\ IsSequence(img) /\ StopDescriptors(img) # {}
      /\ SectorsOf(img) \in Nat /\ AppDataStart(img) + APPDATA_SIZE <= Len(img)
      /\ Len(img) \in Nat
  BY SeqIsSequence DEF WellFormedImage
<1>2. AppDataStart(img) \in Nat /\ AppDataStart(img) < Len(img)
  BY <1>1, AppDataStartType, Layout
<1>3. isosize(img) \in Nat
  BY <1>1, Layout, ProductType DEF isosize
<1>4. SKIPSECTORS * SECTOR_SIZE \in Nat
  BY Layout, ProductType
<1>5. VolumeSize(img) \in Int
  BY <1>3, <1>4 DEF VolumeSize
<1>6. HashedSize(img) \in Nat /\ HashedSize(img) <= Len(img)
  BY <1>1, <1>5 DEF HashedSize, MIN, MAX
<1> QED
  BY <1>1, <1>2, <1>5, <1>6, ReadablePartExists

\* What two files that differ in their application data cover.
LEMMA SameCovered ==
  ASSUME NEW img, WellFormedImage(img, unreadable), HasPrimary(img, unreadable),
         SameOutside(img, image)
  PROVE  Covered = {o \in 0 .. (ReadablePart(img, unreadable) - 1) : o + 1 \notin AppDataPlaces(img)}
<1>1. /\ IsSequence(img) /\ StopDescriptors(img) # {}
      /\ AppDataStart(img) \in Nat /\ AppDataStart(img) < Len(img)
      /\ ReadablePart(img, unreadable) \in Nat
  BY ReadableOf
<1>2. /\ AppDataStart(image) = AppDataStart(img)
      /\ isosize(image) = isosize(img)
  BY <1>1, SameVolume
<1>3. ReadablePart(image, unreadable) = ReadablePart(img, unreadable)
  BY <1>2, SameReadablePart DEF SameOutside
<1> QED
  BY <1>1, <1>2, <1>3, Layout DEF Covered, AppDataPlaces

\* An image that a certificate was written to has one.
LEMMA CertifiedIsFound ==
  ASSUME FieldsFit, CellsAreClosed, Marked(image, damaged), HasPrimary(image, unreadable),
         "short write" \notin faults, NEW other, Certified(image, other)
  PROVE  HasVolumeInfo(other, unreadable)
<1>1. PICK alg \in Algorithms, content \in Seq(Cell), supported \in {0, 1},
           sums \in Seq(Character) :
        WrittenOver(image, other, NewAppData(alg, Digest(alg, content), supported, sums), TRUE)
  BY Zenon DEF Certified
<1> DEFINE cells == NewAppData(alg, Digest(alg, content), supported, sums)
<1>2. /\ cells = [i \in 1 .. APPDATA_SIZE |-> cells[i]]
      /\ \A i \in 1 .. APPDATA_SIZE : cells[i] \in Cell
  <2>1. /\ cells = [i \in 1 .. APPDATA_SIZE |-> cells[i]]
        /\ \A i \in 1 .. APPDATA_SIZE :
             /\ cells[i] \in Cell
             /\ FieldIsStandard(cells[i])
             /\ cells[i] = <<HashTag(alg), Digest(alg, content)>>
                \/ cells[i][1] \notin {HashTag(b1) : b1 \in Algorithms}
    BY CertificateCells, Zenon
  <2> HIDE DEF cells
  <2> QED
    BY <2>1, Zenon
<1> HIDE DEF cells
<1>3. /\ SameOutside(image, other)
      /\ AppDataOf(other) = cells
  <2>1. WrittenOver(image, other, cells, TRUE)
    BY <1>1, Zenon DEF cells
  <2>2. WellFormedImage(image, unreadable)
    BY Zenon DEF Marked
  <2> QED
    BY <1>2, <2>1, <2>2, WrittenOverFacts, Zenon
<1>4. HasPrimary(other, unreadable)
  BY <1>3, ReadableOf, SameVolume, Zenon DEF Marked
<1>5. Parsable(AppDataOf(other))
  <2>1. Parsable(cells)
    BY NewAppDataParses, Zenon DEF cells
  <2> QED
    BY <1>3, <2>1, Zenon
<1> QED
  BY <1>4, <1>5, Zenon DEF HasVolumeInfo

NoneShort == faults \cap {"short read", "short write"} = {}

\* An image without application data has no certificate,
LEMMA ErasedIsGenuine ==
  ASSUME WellFormedImage(image, unreadable), HasPrimary(image, unreadable), NoneShort,
         NEW other, Erased(image, other)
  PROVE  Genuine(other, unreadable)
<1>1. WrittenOver(image, other, BlankAppData, TRUE)
  BY Zenon DEF Erased, NoneShort
<1>2. AppDataOf(other) = BlankAppData
  BY <1>1, BlankCells, WrittenOverFacts, Zenon
<1> QED
  BY <1>2, BlankIsNoCertificate DEF Genuine, HasVolumeInfo

\* one with a new certificate of what it holds has that.
LEMMA ImplantedIsGenuine ==
  ASSUME FieldsFit, NEW img, NEW unread, WellFormedImage(img, unread), NEW alg \in Algorithms,
         NEW supported, NEW n, n = ReadablePart(img, unread),
         NEW sums, sums # Uninitialized, sums = FragmentSums(img, n, alg),
         img = WriteAt(img, AppDataStart(img),
                       NewAppData(alg, HashSum(img, n, alg), supported, sums))
  PROVE  Genuine(img, unread)
<1> SUFFICES ASSUME HasVolumeInfo(img, unread)
             PROVE  /\ VolumeInfo(img).fragmentcount \in {0, FRAGMENT_COUNT}
                    /\ VolumeInfo(img).skipsectors = SKIPSECTORS
                    /\ VolumeInfo(img).hashsum = HashSum(img, n, VolumeInfo(img).algorithm)
                    /\ VolumeInfo(img).fragmentsums
                         = FragmentSums(img, n, VolumeInfo(img).algorithm)
                    /\ VolumeInfo(img).fragmentsums # Uninitialized
  BY DEF Genuine
<1> DEFINE cells == NewAppData(alg, HashSum(img, n, alg), supported, sums)
<1>1. cells = [i \in 1 .. APPDATA_SIZE |-> cells[i]]
  BY DEF NewAppData
<1>2. /\ IsSequence(img) /\ StopDescriptors(img) # {}
      /\ AppDataStart(img) + APPDATA_SIZE <= Len(img)
  BY SeqIsSequence DEF WellFormedImage, HasVolumeInfo
<1>3. AppDataOf(img) = cells
  <2> HIDE DEF cells
  <2>1. AppDataOf(WriteAt(img, AppDataStart(img), cells)) = cells
    BY <1>1, <1>2, WrittenAppData, Zenon
  <2>2. img = WriteAt(img, AppDataStart(img), cells)
    BY DEF cells
  <2> QED
    BY <2>1, <2>2
<1> DEFINE v == VolumeInfo(img)
<1>4. v = VolumeInfo(img)
  OBVIOUS
<1> HIDE DEF v
<1> QED
  BY <1>3, <1>4, NewAppDataIs DEF v

-----------------------------------------------------------------------------
(* The checker.                                                            *)

\* What the checker of RoundTrip parses is what the image says.
LEMMA SameInfo ==
  ASSUME NEW img, NEW unread
  PROVE  /\ Checker!AppDataOf(img) = AppDataOf(img)
         /\ Checker!HasVolumeInfo(img, unread) <=> HasVolumeInfo(img, unread)
         /\ Checker!VolumeInfo(img) = VolumeInfo(img)
         /\ Checker!Digest(img, unread) = Digest(img, unread)
<1>1. Checker!StopDescriptors(img) = StopDescriptors(img)
  BY DEF Checker!StopDescriptors, StopDescriptors, Checker!DescriptorStart, DescriptorStart,
         Checker!IsDescriptor, IsDescriptor, Checker!SYSTEM_AREA_SIZE, SYSTEM_AREA_SIZE
<1>2. Checker!ScanStop(img) = ScanStop(img)
  BY DEF Checker!StopDescriptors, StopDescriptors, Checker!DescriptorStart, DescriptorStart,
         Checker!IsDescriptor, IsDescriptor, Checker!SYSTEM_AREA_SIZE, SYSTEM_AREA_SIZE,
         Checker!ScanStop, ScanStop
<1>3. \A k : Checker!DescriptorStart(k) = DescriptorStart(k)
  BY DEF Checker!DescriptorStart, DescriptorStart, Checker!SYSTEM_AREA_SIZE, SYSTEM_AREA_SIZE
<1>4. Checker!HasPrimary(img, unread) <=> HasPrimary(img, unread)
  BY <1>1, <1>2, <1>3 DEF Checker!HasPrimary, HasPrimary, Checker!IsDescriptor, IsDescriptor
<1>5. /\ Checker!PvdOffset(img) = PvdOffset(img)
      /\ Checker!isosize(img) = isosize(img)
      /\ Checker!AppDataOf(img) = AppDataOf(img)
  BY <1>2, <1>3, Zenon DEF Checker!PvdOffset, PvdOffset, Checker!isosize, isosize,
                    Checker!SectorsOf, SectorsOf,
                    Checker!SYSTEM_AREA_SIZE, SYSTEM_AREA_SIZE, Checker!AppDataOf, AppDataOf
<1>6. Checker!TaskOf = TaskOf
  BY DEF Checker!TaskOf, TaskOf
<1>7. \A app, n, tags : Checker!FieldsAt(app, n, tags) = FieldsAt(app, n, tags)
  BY DEF Checker!FieldsAt, FieldsAt
<1>8. \A app, n : Checker!TasksIn(app, n) = TasksIn(app, n)
  BY <1>6, <1>7 DEF Checker!TasksIn, TasksIn
<1>9. \A app : Checker!ParseEnd(app) = ParseEnd(app)
  BY DEF Checker!TasksIn, TasksIn, Checker!FieldsAt, FieldsAt, Checker!TaskOf, TaskOf,
         Checker!ParseEnd, ParseEnd, Checker!TASK_DONE, TASK_DONE
<1>10. \A app : Checker!Parsable(app) <=> Parsable(app)
  BY <1>8, <1>9 DEF Checker!Parsable, Parsable
<1>11. \A app, tags, default : Checker!FieldValue(app, tags, default) = FieldValue(app, tags, default)
  BY DEF Checker!TasksIn, TasksIn, Checker!FieldsAt, FieldsAt, Checker!TaskOf, TaskOf,
         Checker!ParseEnd, ParseEnd, Checker!TASK_DONE, TASK_DONE,
         Checker!FieldValue, FieldValue
<1>12. Checker!VolumeInfo(img) = VolumeInfo(img)
  BY <1>5, <1>7, <1>9, <1>11, Zenon DEF Checker!VolumeInfo, VolumeInfo, Checker!HashTag, HashTag,
     Checker!Algorithms, Algorithms
<1> QED
  BY <1>4, <1>5, <1>10, <1>12 DEF Checker!HasVolumeInfo, HasVolumeInfo, Checker!Digest, Digest

\* What the checker parses of fields as they should be it can use.
LEMMA InfoIsUsable ==
  ASSUME NEW img, NEW unread, WellFormedImage(img, unread), FieldsAreStandard(img),
         HasVolumeInfo(img, unread), NEW v, v = VolumeInfo(img)
  PROVE  /\ v.algorithm \in Algorithms
         /\ \E i \in AppDataPlaces(img), content \in Seq(Cell) :
              /\ i <= Len(img)
              /\ img[i] = <<HashTag(v.algorithm), Digest(v.algorithm, content)>>
              /\ v.hashsum = Digest(v.algorithm, content)
         /\ v.skipsectors = SKIPSECTORS
         /\ v.fragmentcount \in 0 .. (SECTOR_SIZE - 1)
         /\ v.offset \in Nat /\ v.offset + APPDATA_OFFSET = AppDataStart(img)
         /\ v.isosize = isosize(img) /\ v.isosize \in Nat
         /\ v.isosize - v.skipsectors * SECTOR_SIZE = VolumeSize(img)
         /\ Checker!IsVolumeInfo(v)
<1> DEFINE app == AppDataOf(img)
<1>1. /\ IsSequence(img) /\ StopDescriptors(img) # {} /\ HasPrimary(img, unread)
      /\ SectorsOf(img) \in Nat /\ AppDataStart(img) + APPDATA_SIZE <= Len(img)
      /\ Parsable(app)
  BY SeqIsSequence DEF WellFormedImage, HasVolumeInfo
<1>2. /\ AppDataStart(img) \in Nat /\ APPDATA_SIZE \in Nat /\ Len(img) \in Nat
      /\ DescriptorStart(ScanStop(img)) \in Nat
  BY <1>1, AppDataStartType, Layout DEF IsSequence
<1>3. app = [i \in 1 .. APPDATA_SIZE |-> img[AppDataStart(img) + i]]
  BY <1>1, AppDataOfIs
<1>4. Len(app) = APPDATA_SIZE
  <2> HIDE DEF app
  <2>1. app = [i \in 1 .. APPDATA_SIZE |-> app[i]]
    BY <1>3
  <2> QED
    BY <1>2, <2>1, FunctionIsSequence
<1>5. ASSUME NEW i \in 1 .. APPDATA_SIZE
      PROVE  /\ AppDataStart(img) + i \in AppDataPlaces(img)
             /\ AppDataStart(img) + i <= Len(img)
             /\ img[AppDataStart(img) + i] = app[i]
             /\ FieldIsStandard(app[i])
  <2>1. AppDataStart(img) + i \in AppDataPlaces(img) /\ AppDataStart(img) + i <= Len(img)
    BY <1>1, <1>2 DEF AppDataPlaces
  <2> QED
    BY <1>3, <2>1 DEF FieldsAreStandard
<1> HIDE DEF app
<1>6. /\ v.algorithm \in Algorithms
      /\ \E i \in 1 .. APPDATA_SIZE :
           app[i][1] = HashTag(v.algorithm) /\ v.hashsum = app[i][2]
      /\ \/ v.skipsectors = SKIPSECTORS
         \/ \E i \in 1 .. APPDATA_SIZE : app[i][1] = "SKIPSECTORS" /\ v.skipsectors = app[i][2]
      /\ \/ v.fragmentcount = FRAGMENT_COUNT
         \/ \E i \in 1 .. APPDATA_SIZE :
              app[i][1] = "FRAGMENT COUNT" /\ v.fragmentcount = app[i][2]
      /\ v.offset = PvdOffset(img)
      /\ v.isosize = isosize(img)
  <2>1. app = AppDataOf(img) /\ Len(app) \in Nat /\ Parsable(app)
    BY <1>1, <1>2, <1>4 DEF app
  <2>2. v.algorithm \in Algorithms /\ HasField(app, HashTag(v.algorithm), v.hashsum)
    BY <2>1, VolumeInfoIs, Zenon
  <2>3. v.skipsectors = SKIPSECTORS \/ HasField(app, "SKIPSECTORS", v.skipsectors)
    BY <2>1, VolumeInfoIs, Zenon
  <2>4. v.fragmentcount = FRAGMENT_COUNT \/ HasField(app, "FRAGMENT COUNT", v.fragmentcount)
    BY <2>1, VolumeInfoIs, Zenon
  <2>5. v.offset = PvdOffset(img) /\ v.isosize = isosize(img)
    BY <2>1, VolumeInfoIs, Zenon
  <2> QED
    BY <1>4, <2>2, <2>3, <2>4, <2>5, Zenon DEF HasField
<1>7. /\ v.skipsectors = SKIPSECTORS
      /\ v.fragmentcount \in 0 .. (SECTOR_SIZE - 1)
  <2>1. FRAGMENT_COUNT \in 0 .. (SECTOR_SIZE - 1)
    BY Layout
  <2> QED
    BY <1>5, <1>6, <2>1, Zenon DEF FieldIsStandard
<1>8. \E i \in AppDataPlaces(img), content \in Seq(Cell) :
        /\ i <= Len(img)
        /\ img[i] = <<HashTag(v.algorithm), Digest(v.algorithm, content)>>
        /\ v.hashsum = Digest(v.algorithm, content)
  <2>1. PICK i \in 1 .. APPDATA_SIZE :
          app[i][1] = HashTag(v.algorithm) /\ v.hashsum = app[i][2]
    BY <1>6, Zenon
  <2>2. PICK alg \in Algorithms, content \in Seq(Cell) :
          app[i] = <<HashTag(alg), Digest(alg, content)>>
    BY <1>5, <1>6, <2>1, Zenon DEF FieldIsStandard
  <2>3. alg = v.algorithm
    <3>1. HashTag(alg) = HashTag(v.algorithm)
      BY <2>1, <2>2
    <3> QED
      BY <1>6, <3>1, HashTagsDiffer, Zenon
  <2>4. v.hashsum = Digest(v.algorithm, content)
    BY <2>1, <2>2, <2>3
  <2> QED
    BY <1>5, <2>2, <2>3, <2>4
<1>9. v.offset = DescriptorStart(ScanStop(img))
  BY <1>6, Zenon DEF WellFormedImage, WellPlaced
<1>10. isosize(img) = SECTOR_SIZE * SectorsOf(img) /\ isosize(img) \in Nat
  BY <1>1, Layout, ProductType DEF isosize
<1>11. /\ VolumeSize(img) = isosize(img) - SKIPSECTORS * SECTOR_SIZE
       /\ VolumeSize(img) = SECTOR_SIZE * (SectorsOf(img) - SKIPSECTORS)
  BY <1>1, <1>2, VolumeSizeIs DEF VolumeSize
<1>12. VolumeSize(img) > 0 => VolumeSize(img) >= SECTOR_SIZE
  <2> DEFINE s == SectorsOf(img) - SKIPSECTORS
  <2>1. s \in Int /\ SECTOR_SIZE \in Nat \ {0}
    BY <1>1, Layout
  <2> HIDE DEF s
  <2>2. s <= 0 => SECTOR_SIZE * s <= SECTOR_SIZE * 0
    BY <2>1, ProductOrder
  <2>3. s >= 1 => SECTOR_SIZE * 1 <= SECTOR_SIZE * s
    BY <2>1, ProductOrder
  <2>4. SECTOR_SIZE * s \in Int
    BY <2>1
  <2> QED
    BY <1>11, <2>1, <2>2, <2>3, <2>4 DEF s
<1>13. v.isosize - v.skipsectors * SECTOR_SIZE = VolumeSize(img)
  BY <1>6, <1>7, <1>11, Zenon
<1>14. Checker!IsVolumeInfo(v)
  <2>1. VolumeSize(img) > 0 => v.fragmentcount < VolumeSize(img)
    BY <1>7, <1>10, <1>11, <1>12, Layout
  <2>2. v.algorithm \in Checker!Algorithms
    BY <1>6, Zenon DEF Checker!Algorithms, Algorithms
  <2>3. /\ v.skipsectors \in Int
        /\ v.fragmentcount \in Nat
        /\ v.offset \in Nat
        /\ v.isosize \in Nat
    <3>1. v.skipsectors \in Int /\ v.fragmentcount \in Nat
      BY <1>7, Layout
    <3> QED
      BY <1>2, <1>6, <1>9, <1>10, <3>1, Zenon
  <2>4. LET size == v.isosize - v.skipsectors * SECTOR_SIZE
        IN  size > 0 => v.fragmentcount < size
    BY <1>13, <2>1
  <2> QED
    BY <2>2, <2>3, <2>4 DEF Checker!IsVolumeInfo
<1> QED
  BY <1>2, <1>6, <1>7, <1>8, <1>9, <1>10, <1>13, <1>14, Zenon DEF AppDataStart

\* The image that the checker parsed the descriptor of, and the media it may
\* have been that of.
seen == IF c_pc = "open" THEN image ELSE begun.image

CheckedMedia ==
  {m \in [image : Seq(Cell), unreadable : SUBSET Nat] :
     /\ WellFormedImage(m.image, m.unreadable)
     /\ FieldsAreStandard(m.image)
     /\ Genuine(m.image, m.unreadable)
     /\ WideFragments(m.image)}

\* The checker, with its lemmas.
CP == INSTANCE MediaCheckProofs WITH
  Media <- CheckedMedia, HasCallback <- FALSE, ShortReads <- FALSE, Prefetch <- 0,
  image <- seen, pc <- c_pc, fdpos <- c_fdpos, offset <- c_offset, ctx <- c_ctx,
  previous_fragment <- c_previous_fragment, rc <- c_rc

\* The checker, with its lemmas, has a copy of each operator.  They are those
\* of this module: of the volume,
LEMMA CSameVolume ==
  ASSUME NEW img, NEW unread
  PROVE  /\ CP!StopDescriptors(img) = StopDescriptors(img)
         /\ CP!ScanStop(img) = ScanStop(img)
         /\ CP!DescriptorStart(ScanStop(img)) = DescriptorStart(ScanStop(img))
         /\ CP!AppDataStart(img) = AppDataStart(img)
         /\ CP!AppDataPlaces(img) = AppDataPlaces(img)
         /\ CP!PvdOffset(img) = PvdOffset(img)
         /\ CP!SectorsOf(img) = SectorsOf(img)
         /\ CP!isosize(img) = isosize(img)
         /\ CP!VolumeSize(img) = VolumeSize(img)
         /\ CP!FragmentSize(img) = FragmentSize(img)
         /\ CP!HashedSize(img) = HashedSize(img)
         /\ CP!HasPrimary(img, unread) <=> HasPrimary(img, unread)
         /\ CP!WellPlaced(img) <=> WellPlaced(img)
         /\ CP!WellFormedImage(img, unread) <=> WellFormedImage(img, unread)
<1>1. CP!StopDescriptors(img) = StopDescriptors(img)
  BY DEF CP!StopDescriptors, StopDescriptors, CP!DescriptorStart, DescriptorStart,
         CP!IsDescriptor, IsDescriptor, CP!SYSTEM_AREA_SIZE, SYSTEM_AREA_SIZE
<1>2. CP!ScanStop(img) = ScanStop(img)
  BY DEF CP!StopDescriptors, StopDescriptors, CP!DescriptorStart, DescriptorStart,
         CP!IsDescriptor, IsDescriptor, CP!SYSTEM_AREA_SIZE, SYSTEM_AREA_SIZE,
         CP!ScanStop, ScanStop
<1>3. \A k : CP!DescriptorStart(k) = DescriptorStart(k)
  BY DEF CP!DescriptorStart, DescriptorStart, CP!SYSTEM_AREA_SIZE, SYSTEM_AREA_SIZE
<1>4. /\ CP!AppDataStart(img) = AppDataStart(img)
      /\ CP!PvdOffset(img) = PvdOffset(img)
      /\ CP!SectorsOf(img) = SectorsOf(img)
  BY <1>2, <1>3 DEF CP!AppDataStart, AppDataStart, CP!PvdOffset, PvdOffset, CP!SectorsOf,
                    SectorsOf, CP!SYSTEM_AREA_SIZE, SYSTEM_AREA_SIZE
<1>5. /\ CP!isosize(img) = isosize(img)
      /\ CP!VolumeSize(img) = VolumeSize(img)
      /\ CP!FragmentSize(img) = FragmentSize(img)
      /\ CP!HashedSize(img) = HashedSize(img)
      /\ CP!AppDataPlaces(img) = AppDataPlaces(img)
  BY <1>4 DEF CP!isosize, isosize, CP!VolumeSize, VolumeSize, CP!FragmentSize, FragmentSize,
              CP!HashedSize, HashedSize, CP!MIN, MIN, CP!MAX, MAX, CP!AppDataPlaces,
              AppDataPlaces
<1>6. CP!HasPrimary(img, unread) <=> HasPrimary(img, unread)
  BY <1>1, <1>2, <1>3 DEF CP!HasPrimary, HasPrimary, CP!IsDescriptor, IsDescriptor
<1>7. CP!WellPlaced(img) <=> WellPlaced(img)
  BY <1>2, <1>3, <1>4 DEF CP!WellPlaced, WellPlaced
<1>8. CP!WellFormedImage(img, unread) <=> WellFormedImage(img, unread)
  BY <1>1, <1>4, <1>6, <1>7 DEF CP!WellFormedImage, WellFormedImage
<1> QED
  BY <1>1, <1>2, <1>3, <1>4, <1>5, <1>6, <1>7, <1>8

\* of digests,
LEMMA CSameDigests ==
  ASSUME NEW img, NEW unread, NEW n, NEW alg
  PROVE  /\ CP!ReadablePart(img, unread) = ReadablePart(img, unread)
         /\ CP!Blanked(img, n) = Blanked(img, n)
         /\ CP!Digest(alg, n) = Digest(alg, n)
         /\ CP!HashSum(img, n, alg) = HashSum(img, n, alg)
         /\ CP!FragmentSums(img, n, alg) = FragmentSums(img, n, alg)
<1>1. CP!ReadablePart(img, unread) = ReadablePart(img, unread)
  BY DEF CP!StopDescriptors, StopDescriptors, CP!DescriptorStart, DescriptorStart,
         CP!IsDescriptor, IsDescriptor, CP!SYSTEM_AREA_SIZE, SYSTEM_AREA_SIZE, CP!ScanStop,
         ScanStop, CP!SectorsOf, SectorsOf, CP!isosize, isosize, CP!VolumeSize, VolumeSize,
         CP!HashedSize, HashedSize, CP!MAX, MAX, CP!MIN, MIN, CP!ReadablePart, ReadablePart
<1>2. \A m : CP!Blanked(img, m) = Blanked(img, m)
  BY DEF CP!StopDescriptors, StopDescriptors, CP!DescriptorStart, DescriptorStart,
         CP!IsDescriptor, IsDescriptor, CP!SYSTEM_AREA_SIZE, SYSTEM_AREA_SIZE, CP!ScanStop,
         ScanStop, CP!Blanked, Blanked, CP!BlankedAt, BlankedAt, CP!Space, Space,
         CP!AppDataStart, AppDataStart
<1>3. CP!HashSum(img, n, alg) = HashSum(img, n, alg)
  BY <1>2 DEF CP!HashSum, HashSum, CP!Digest, Digest
<1>4. CP!FragmentEnds(img, n) = FragmentEnds(img, n)
  BY DEF CP!StopDescriptors, StopDescriptors, CP!DescriptorStart, DescriptorStart,
         CP!IsDescriptor, IsDescriptor, CP!SYSTEM_AREA_SIZE, SYSTEM_AREA_SIZE, CP!ScanStop,
         ScanStop, CP!SectorsOf, SectorsOf, CP!isosize, isosize, CP!VolumeSize, VolumeSize,
         CP!FragmentSize, FragmentSize, CP!buffer_size, buffer_size, CP!FragmentEnds,
         FragmentEnds
<1>5. \A S : CP!Cardinality(S) = Cardinality(S)
  BY DEF CP!Cardinality, Cardinality
<1>6. \A f : CP!FragmentEnd(img, n, f) = FragmentEnd(img, n, f)
  BY DEF CP!StopDescriptors, StopDescriptors, CP!DescriptorStart, DescriptorStart,
         CP!IsDescriptor, IsDescriptor, CP!SYSTEM_AREA_SIZE, SYSTEM_AREA_SIZE, CP!ScanStop,
         ScanStop, CP!SectorsOf, SectorsOf, CP!isosize, isosize, CP!VolumeSize, VolumeSize,
         CP!FragmentSize, FragmentSize, CP!buffer_size, buffer_size, CP!FragmentEnds,
         FragmentEnds, CP!FragmentEnd, FragmentEnd, CP!Cardinality, Cardinality
<1>7. \A f : CP!HashedAt(img, n, f) = HashedAt(img, n, f)
  BY <1>2, <1>6 DEF CP!HashedAt, HashedAt, CP!buffer_size, buffer_size, CP!MIN, MIN
<1>8. CP!FragmentSums(img, n, alg) = FragmentSums(img, n, alg)
  <2> DEFINE width == FRAGMENT_SUM_SIZE \div FRAGMENT_COUNT
             digests == [f \in 1 .. CP!Cardinality(CP!FragmentEnds(img, n)) |->
                           CP!Digest(alg, CP!HashedAt(img, n, f))]
             others == [f \in 1 .. Cardinality(FragmentEnds(img, n)) |->
                          Digest(alg, HashedAt(img, n, f))]
             Sums(d) == [i \in 1 .. (width * Len(d)) |->
                           <<d[((i - 1) \div width) + 1], ((i - 1) % width) + 1>>]
  <2>1. digests = others
    BY <1>4, <1>5, <1>7 DEF CP!Digest, Digest
  <2>2. CP!FragmentSums(img, n, alg) = Sums(digests)
    BY DEF CP!FragmentSums
  <2>3. FragmentSums(img, n, alg) = Sums(others)
    BY DEF FragmentSums
  <2> HIDE DEF digests, others, Sums
  <2> QED
    BY <2>1, <2>2, <2>3
<1> QED
  BY <1>1, <1>2, <1>3, <1>8 DEF CP!Digest, Digest

\* and of what is parsed.
LEMMA CSameInfo ==
  ASSUME NEW img, NEW unread
  PROVE  /\ CP!AppDataOf(img) = AppDataOf(img)
         /\ CP!HasVolumeInfo(img, unread) <=> HasVolumeInfo(img, unread)
         /\ CP!VolumeInfo(img) = VolumeInfo(img)
         /\ CP!Digest(img, unread) = Digest(img, unread)
         /\ \A v : CP!IsVolumeInfo(v) <=> Checker!IsVolumeInfo(v)
<1>1. CP!StopDescriptors(img) = StopDescriptors(img)
  BY DEF CP!StopDescriptors, StopDescriptors, CP!DescriptorStart, DescriptorStart,
         CP!IsDescriptor, IsDescriptor, CP!SYSTEM_AREA_SIZE, SYSTEM_AREA_SIZE
<1>2. CP!ScanStop(img) = ScanStop(img)
  BY DEF CP!StopDescriptors, StopDescriptors, CP!DescriptorStart, DescriptorStart,
         CP!IsDescriptor, IsDescriptor, CP!SYSTEM_AREA_SIZE, SYSTEM_AREA_SIZE,
         CP!ScanStop, ScanStop
<1>3. \A k : CP!DescriptorStart(k) = DescriptorStart(k)
  BY DEF CP!DescriptorStart, DescriptorStart, CP!SYSTEM_AREA_SIZE, SYSTEM_AREA_SIZE
<1>4. CP!HasPrimary(img, unread) <=> HasPrimary(img, unread)
  BY <1>1, <1>2, <1>3 DEF CP!HasPrimary, HasPrimary, CP!IsDescriptor, IsDescriptor
<1>5. /\ CP!PvdOffset(img) = PvdOffset(img)
      /\ CP!isosize(img) = isosize(img)
      /\ CP!AppDataOf(img) = AppDataOf(img)
  BY <1>2, <1>3, Zenon DEF CP!PvdOffset, PvdOffset, CP!isosize, isosize, CP!SectorsOf, SectorsOf,
                    CP!SYSTEM_AREA_SIZE, SYSTEM_AREA_SIZE, CP!AppDataOf, AppDataOf
<1>6. CP!TaskOf = TaskOf
  BY DEF CP!TaskOf, TaskOf
<1>7. \A app, n, tags : CP!FieldsAt(app, n, tags) = FieldsAt(app, n, tags)
  BY DEF CP!FieldsAt, FieldsAt
<1>8. \A app, n : CP!TasksIn(app, n) = TasksIn(app, n)
  BY <1>6, <1>7 DEF CP!TasksIn, TasksIn
<1>9. \A app : CP!ParseEnd(app) = ParseEnd(app)
  BY DEF CP!TasksIn, TasksIn, CP!FieldsAt, FieldsAt, CP!TaskOf, TaskOf, CP!ParseEnd,
         ParseEnd, CP!TASK_DONE, TASK_DONE
<1>10. \A app : CP!Parsable(app) <=> Parsable(app)
  BY <1>8, <1>9 DEF CP!Parsable, Parsable
<1>11. \A app, tags, default : CP!FieldValue(app, tags, default) = FieldValue(app, tags, default)
  BY DEF CP!TasksIn, TasksIn, CP!FieldsAt, FieldsAt, CP!TaskOf, TaskOf, CP!ParseEnd,
         ParseEnd, CP!TASK_DONE, TASK_DONE, CP!FieldValue, FieldValue
<1>12. CP!VolumeInfo(img) = VolumeInfo(img)
  BY <1>5, <1>7, <1>9, <1>11, Zenon DEF CP!VolumeInfo, VolumeInfo, CP!HashTag, HashTag,
     CP!Algorithms, Algorithms
<1>13. \A v : CP!IsVolumeInfo(v) <=> Checker!IsVolumeInfo(v)
  BY DEF CP!IsVolumeInfo, Checker!IsVolumeInfo, CP!Algorithms, Checker!Algorithms
<1> QED
  BY <1>4, <1>5, <1>10, <1>12, <1>13 DEF CP!HasVolumeInfo, HasVolumeInfo, CP!Digest, Digest

\* What is assumed of the checker's constants.
LEMMA CAssumed ==
  /\ SECTOR_SIZE \in Nat \ {0}
  /\ NUM_SYSTEM_SECTORS \in Nat \ {0}
  /\ SKIPSECTORS \in Nat
  /\ SIZE_OFFSET \in Nat \ {0}
  /\ APPDATA_OFFSET \in Nat
  /\ APPDATA_SIZE \in Nat \ {0}
  /\ SIZE_OFFSET < APPDATA_OFFSET
  /\ APPDATA_OFFSET + APPDATA_SIZE <= SECTOR_SIZE
  /\ FRAGMENT_COUNT \in Nat \ {0}
  /\ FRAGMENT_COUNT < SECTOR_SIZE
  /\ FRAGMENT_SUM_SIZE \in Nat
  /\ FRAGMENT_SUM_SIZE % FRAGMENT_COUNT = 0
  /\ CP!Space \in Cell
  /\ \A m \in CheckedMedia :
       /\ m.image \in Seq(Cell)
       /\ m.unreadable \subseteq Nat
       /\ CP!StopDescriptors(m.image) # {}
       /\ CP!HasVolumeInfo(m.image, m.unreadable)
            => CP!IsVolumeInfo(CP!VolumeInfo(m.image))
  /\ FALSE \in BOOLEAN
  /\ 0 \in Nat
<1>1. ASSUME NEW m \in CheckedMedia
      PROVE  /\ m.image \in Seq(Cell)
             /\ m.unreadable \subseteq Nat
             /\ CP!StopDescriptors(m.image) # {}
             /\ CP!HasVolumeInfo(m.image, m.unreadable)
                  => CP!IsVolumeInfo(CP!VolumeInfo(m.image))
  <2>1. WellFormedImage(m.image, m.unreadable) /\ FieldsAreStandard(m.image)
    BY DEF CheckedMedia
  <2> QED
    BY <2>1, CSameVolume, CSameInfo, InfoIsUsable DEF WellFormedImage
<1>2. CP!Space \in Cell
  BY Layout, Zenon DEF CP!Space, Space
<1> QED
  BY <1>1, <1>2, Layout

\* The checker hashes what it saw, which is there but for the application
\* data.
CheckerWorks ==
  /\ c_pc = "open" =>
       /\ c_fdpos = 0 /\ c_offset = 0 /\ c_ctx = <<>> /\ c_previous_fragment = 0
       /\ reported = 0 /\ bail = FALSE /\ c_rc = "none"
  /\ c_pc # "open" =>
       /\ CP!Inv
       /\ SameOutside(begun.image, image)
       /\ Marked(begun.image, begun.damaged)
  /\ c_pc \in {"read", "callback", "finish"} \/ c_rc \in {"CHECK_PASSED", "CHECK_FAILED"}
       => HasVolumeInfo(seen, unreadable)
  /\ c_rc = "CHECK_NOT_FOUND" => ~HasVolumeInfo(seen, unreadable)
  /\ c_rc # "none" => c_pc = "done"

\* The invariant of the checker is kept by its steps.
LEMMA CheckerKeepsInv == CP!Inv /\ [CP!Next]_CP!vars => CP!Inv'
BY CAssumed, CP!InvNext

\* It holds when the checker begins.
LEMMA CheckerBegins ==
  ASSUME CheckerWorks, Marked(image, damaged), c_pc = "open"
  PROVE  CP!Inv
<1>1. /\ c_fdpos = 0 /\ c_offset = 0 /\ c_ctx = <<>> /\ c_previous_fragment = 0
      /\ reported = 0 /\ bail = FALSE /\ c_rc = "none"
      /\ seen = image
  BY DEF CheckerWorks, seen
<1>2. WellFormedImage(image, unreadable) /\ FieldsAreStandard(image)
  BY DEF Marked
<1>3. CP!HasVolumeInfo(seen, unreadable) => CP!IsVolumeInfo(CP!VolumeInfo(seen))
  BY <1>1, <1>2, CSameInfo, InfoIsUsable
<1>4. CP!TypeOK
  <2>1. /\ seen \in Seq(Cell) /\ unreadable \subseteq Nat
        /\ c_pc = "open"
        /\ c_ctx \in Seq(Cell)
    BY <1>1, <1>2 DEF WellFormedImage
  <2>2. c_fdpos \in Nat /\ c_offset \in Nat /\ c_previous_fragment \in Int /\ reported \in Int
    BY <1>1
  <2>3. bail \in BOOLEAN /\ c_rc \in CP!isomd5sum_status \cup {"none"}
    BY <1>1, Zenon
  <2> QED
    BY <2>1, <2>2, <2>3 DEF CP!TypeOK
<1>5. CP!Unopened
  BY <1>1, <1>3 DEF CP!Unopened
<1>6. CP!HashedIsBlankedPrefix
  BY <1>1 DEF CP!HashedIsBlankedPrefix, CP!BlankedAt
<1> QED
  BY <1>1, <1>4, <1>5, <1>6
  DEF CP!Inv, CP!InTheVolume, CP!ReadToTheEnd, CP!PassedIsGenuine

\* A block that the checker reads and blanks is that of the image it saw.
LEMMA SameBlock ==
  ASSUME NEW img, NEW now, SameOutside(img, now), NEW size \in Nat, NEW start \in Nat,
         start + size <= Len(now), NEW at, at = AppDataStart(img), at \in Nat
  PROVE  Checker!clear_appdata(Checker!CellsAt(now, start, size), size, at, start)
           = CP!clear_appdata(CP!CellsAt(img, start, size), size, at, start)
<1>1. CP!clear_appdata(CP!CellsAt(img, start, size), size, at, start)
        = CP!BlankedBlock(img, at, start, size)
  BY CAssumed, CP!ClearAppDataBlanks
<1>2. CP!clear_appdata(CP!CellsAt(now, start, size), size, at, start)
        = CP!BlankedBlock(now, at, start, size)
  BY CAssumed, CP!ClearAppDataBlanks
<1>3. ASSUME NEW k \in 1 .. size, start + k \notin (at + 1) .. (at + APPDATA_SIZE)
      PROVE  img[start + k] = now[start + k]
  <2>1. start + k \in 1 .. Len(now) /\ start + k \notin AppDataPlaces(img)
    BY <1>3 DEF AppDataPlaces
  <2> QED
    BY <2>1 DEF SameOutside
<1>4. CP!BlankedBlock(img, at, start, size) = CP!BlankedBlock(now, at, start, size)
  BY <1>3 DEF CP!BlankedBlock
<1>5. Checker!CellsAt(now, start, size) = CP!CellsAt(now, start, size)
  BY DEF Checker!CellsAt, CP!CellsAt
<1>6. \A buffer : Checker!clear_appdata(buffer, size, at, start)
                    = CP!clear_appdata(buffer, size, at, start)
  BY DEF Checker!clear_appdata, CP!clear_appdata, Checker!MAX, CP!MAX, Checker!MIN, CP!MIN,
         Checker!Space, CP!Space
<1> QED
  BY <1>1, <1>2, <1>4, <1>5, <1>6

\* A read of the checker and of the checker of the image it saw.
LEMMA SameReads ==
  ASSUME NEW img, NEW now, Len(now) = Len(img), NEW pos, NEW n, NEW r
  PROVE  Checker!ReadReturns(now, unreadable, pos, n, FALSE, 0, r)
           <=> CP!ReadReturns(img, unreadable, pos, n, FALSE, 0, r)
BY DEF Checker!ReadReturns, CP!ReadReturns

\* What is read next.
LEMMA SameSizes ==
  /\ Checker!total_size = CP!total_size
  /\ Checker!fragment_size = CP!fragment_size
  /\ Checker!buffer_size = CP!buffer_size
  /\ \A r, n : Checker!SeekedTo(r, n) = CP!SeekedTo(r, n)
  /\ \A f : Checker!EndsFragment(f) <=> CP!EndsFragment(f)
  /\ \A hashed, f : Checker!FragmentValid(hashed, f) = CP!FragmentValid(hashed, f)
  /\ \A m, n : Checker!MIN(m, n) = CP!MIN(m, n)
  /\ Checker!Verdict = CP!Verdict
<1>1. Checker!total_size = CP!total_size
  BY DEF Checker!total_size, CP!total_size
<1>2. Checker!buffer_size = CP!buffer_size
  BY DEF Checker!buffer_size, CP!buffer_size
<1>3. \A hashed, f : Checker!FragmentValid(hashed, f) = CP!FragmentValid(hashed, f)
  BY DEF Checker!FragmentValid, CP!FragmentValid, Checker!MIN, CP!MIN,
         Checker!DigestBytes, CP!DigestBytes, Checker!FragmentSum, CP!FragmentSum,
         Checker!Digest, CP!Digest
<1>4. Checker!Verdict = CP!Verdict
  BY DEF Checker!Verdict, CP!Verdict, Checker!Digest, CP!Digest
<1>5. Checker!fragment_size = CP!fragment_size
  BY <1>1 DEF Checker!fragment_size, CP!fragment_size
<1>6. /\ \A r, n : Checker!SeekedTo(r, n) = CP!SeekedTo(r, n)
      /\ \A f : Checker!EndsFragment(f) <=> CP!EndsFragment(f)
      /\ \A m, n : Checker!MIN(m, n) = CP!MIN(m, n)
  BY DEF Checker!SeekedTo, CP!SeekedTo, Checker!EndsFragment, CP!EndsFragment,
         Checker!MIN, CP!MIN
<1> QED
  BY <1>1, <1>2, <1>3, <1>4, <1>5, <1>6

\* A block that the checker hashes.
LEMMA SameHashBlock ==
  ASSUME CheckerWorks, NEW r \in 1 .. Checker!buffer_size, Checker!HashBlock(r),
         UNCHANGED <<begun>>
  PROVE  CP!HashBlock(r) /\ r \in 1 .. CP!buffer_size
<1> DEFINE nbyte == Checker!MIN(Checker!total_size - c_offset, Checker!buffer_size)
           nread == Checker!MIN(r, nbyte)
           at == info.offset + APPDATA_OFFSET
<1>1. /\ c_pc = "read" /\ c_offset < Checker!total_size
      /\ Checker!ReadReturns(image, unreadable, c_fdpos, nbyte, FALSE, 0, r)
      /\ c_pc' # "open"
      /\ UNCHANGED <<image, unreadable>>
  BY Zenon DEF Checker!HashBlock, Checker!Return, Checker!medium
<1>2. /\ seen = begun.image /\ seen' = seen
      /\ SameOutside(seen, image)
      /\ Marked(seen, begun.damaged)
      /\ HasVolumeInfo(seen, unreadable)
      /\ CP!Inv
  BY <1>1 DEF CheckerWorks, seen
<1>3. info = VolumeInfo(seen) /\ c_fdpos = c_offset /\ c_offset \in Nat
  BY <1>1, <1>2, CSameInfo DEF CP!Inv, CP!InTheVolume, CP!TypeOK
<1>4. /\ at = AppDataStart(seen) /\ at \in Nat
      /\ Checker!total_size \in Int
      /\ Len(seen) \in Nat
  <2>1. WellFormedImage(seen, unreadable) /\ FieldsAreStandard(seen)
    BY <1>2 DEF Marked
  <2>2. /\ info.offset + APPDATA_OFFSET = AppDataStart(seen) /\ info.offset \in Nat
        /\ info.isosize \in Nat /\ info.skipsectors = SKIPSECTORS
    BY <1>2, <1>3, <2>1, InfoIsUsable
  <2> QED
    BY <2>1, <2>2, Layout DEF Checker!total_size, WellFormedImage
<1>5. Checker!buffer_size \in Nat
  BY Layout, BufferSize DEF Checker!buffer_size, buffer_size
<1>6. nread \in Nat /\ c_offset + nread <= Len(image)
  BY <1>1, <1>3, <1>4, <1>5 DEF Checker!ReadReturns, Checker!MIN
<1>7. Checker!clear_appdata(Checker!CellsAt(image, c_fdpos, nread), nread, at, c_offset)
        = CP!clear_appdata(CP!CellsAt(seen, c_fdpos, nread), nread, at, c_offset)
  <2> HIDE DEF at, nread
  <2> QED
    BY <1>2, <1>3, <1>4, <1>6, SameBlock
<1>8. CP!ReadReturns(seen, unreadable, c_fdpos, nbyte, FALSE, 0, r)
  BY <1>1, <1>2, SameReads, Zenon DEF SameOutside
<1>9. nbyte = CP!MIN(CP!total_size - c_offset, CP!buffer_size) /\ nread = CP!MIN(r, nbyte)
  BY SameSizes
<1> DEFINE block == CP!clear_appdata(CP!CellsAt(seen, c_fdpos, nread), nread, at, c_offset)
           f == c_offset \div CP!fragment_size
<1>10. /\ c_pc = "read" /\ c_offset < CP!total_size
       /\ r > 0
       /\ c_fdpos' = CP!SeekedTo(r, nbyte)
       /\ c_ctx' = c_ctx \o block
       /\ \/ /\ CP!EndsFragment(f) => TRUE \in CP!FragmentValid(c_ctx \o block, f)
             /\ c_previous_fragment' = IF CP!EndsFragment(f) THEN f ELSE c_previous_fragment
             /\ c_offset' = c_offset + nread
             /\ c_pc' = "read"
             /\ UNCHANGED c_rc
          \/ /\ CP!EndsFragment(f)
             /\ FALSE \in CP!FragmentValid(c_ctx \o block, f)
             /\ c_pc' = "done" /\ c_rc' = "CHECK_FAILED"
             /\ UNCHANGED <<c_previous_fragment, c_offset>>
       /\ UNCHANGED <<image, unreadable, info, reported, bail>>
  BY <1>1, <1>7, SameSizes, Zenon
  DEF Checker!HashBlock, Checker!Return, Checker!medium, Checker!progress
<1>11. r \in 1 .. CP!buffer_size
  BY SameSizes
<1> QED
  BY <1>2, <1>8, <1>9, <1>10, <1>11, Zenon
  DEF CP!HashBlock, CP!Return, CP!medium, CP!progress

\* A step of the checker is one of the checker of the image it saw.
LEMMA CheckerSees ==
  ASSUME Marked(image, damaged), CheckerWorks, c_pc # "done", Checker!Next,
         begun' = IF c_pc = "open" THEN marks ELSE begun
  PROVE  /\ [CP!Next]_CP!vars
         /\ seen' = seen
         /\ c_pc' # "open"
         /\ UNCHANGED <<image, unreadable>>
<1>1. CASE c_pc = "open"
  <2>1. /\ Checker!FileNotFound \/ Checker!NotFound \/ Checker!Rewind
        /\ c_pc' # "open" /\ UNCHANGED <<image, unreadable>>
    BY <1>1 DEF Checker!Next, Checker!FileNotFound, Checker!NotFound, Checker!Rewind,
       Checker!ReadBlock, Checker!HashBlock, Checker!StopReading, Checker!AllRead,
       Checker!CallBack, Checker!Conclude, Checker!Returned, Checker!Return, Checker!medium
  <2>2. seen = image /\ seen' = seen
    BY <1>1, <2>1 DEF seen, marks
  <2>3. /\ Checker!HasVolumeInfo(image, unreadable) <=> CP!HasVolumeInfo(seen, unreadable)
        /\ Checker!VolumeInfo(image) = CP!VolumeInfo(seen)
    BY <2>2, SameInfo, CSameInfo
  <2>4. CP!FileNotFound \/ CP!NotFound \/ CP!Rewind
    BY <2>1, <2>2, <2>3
    DEF Checker!FileNotFound, Checker!NotFound, Checker!Rewind, Checker!Return,
        Checker!Report, Checker!medium, Checker!hashing, Checker!progress,
        CP!FileNotFound, CP!NotFound, CP!Rewind, CP!Return, CP!Report, CP!medium,
        CP!hashing, CP!progress
  <2> QED
    BY <2>1, <2>2, <2>4 DEF CP!Next
<1>2. CASE c_pc # "open"
  <2>1. /\ UNCHANGED <<image, unreadable>>
        /\ begun' = begun
        /\ \/ \E r \in 1 .. Checker!buffer_size : Checker!HashBlock(r)
           \/ Checker!StopReading \/ Checker!AllRead \/ Checker!CallBack \/ Checker!Conclude
    <3>1. \A r : Checker!HashBlock(r) => UNCHANGED <<image, unreadable>>
      BY DEF Checker!HashBlock, Checker!medium
    <3>2. Checker!buffer_size + 0 = Checker!buffer_size
      BY Layout, BufferSize DEF Checker!buffer_size, buffer_size
    <3> QED
      BY <1>2, <3>1, <3>2
      DEF Checker!Next, Checker!FileNotFound, Checker!NotFound, Checker!Rewind,
          Checker!ReadBlock, Checker!StopReading, Checker!AllRead, Checker!CallBack,
          Checker!Conclude, Checker!Returned, Checker!medium
  <2>2. c_pc' # "open"
    BY <1>2, <2>1, Zenon DEF Checker!HashBlock, Checker!StopReading, Checker!AllRead,
       Checker!CallBack, Checker!Conclude, Checker!Return
  <2>3. seen' = seen /\ Len(image) = Len(seen)
    BY <1>2, <2>1, <2>2 DEF seen, CheckerWorks, SameOutside
  <2>4. ASSUME NEW r \in 1 .. Checker!buffer_size, Checker!HashBlock(r)
        PROVE  CP!Next
    <3>1. CP!HashBlock(r) /\ r \in 1 .. CP!buffer_size
      BY <2>1, <2>4, SameHashBlock
    <3>2. CP!buffer_size + 0 = CP!buffer_size
      BY Layout, BufferSize DEF CP!buffer_size, buffer_size
    <3> QED
      BY <3>1, <3>2 DEF CP!Next, CP!ReadBlock
  <2>5. CASE Checker!StopReading
    <3>1. CP!StopReading
      BY <2>1, <2>3, <2>5, SameReads, SameSizes, Zenon
      DEF Checker!StopReading, Checker!medium, Checker!hashing, Checker!progress,
          CP!StopReading, CP!medium, CP!hashing, CP!progress
    <3> QED
      BY <2>1, <2>2, <2>3, <3>1 DEF CP!Next
  <2>6. CASE Checker!AllRead \/ Checker!CallBack \/ Checker!Conclude
    <3>1. CP!AllRead \/ CP!CallBack \/ CP!Conclude
      BY <2>1, <2>3, <2>6, SameSizes
      DEF Checker!AllRead, Checker!CallBack, Checker!Conclude, Checker!Return,
          Checker!Report, Checker!medium, Checker!hashing, Checker!progress,
          CP!AllRead, CP!CallBack, CP!Conclude, CP!Return, CP!Report, CP!medium,
          CP!hashing, CP!progress
    <3> QED
      BY <2>1, <2>2, <2>3, <3>1 DEF CP!Next
  <2> QED
    BY <2>1, <2>2, <2>3, <2>4, <2>5, <2>6
<1> QED
  BY <1>1, <1>2

\* What the checker compares with.
LEMMA ChecksumIs ==
  ASSUME WellFormedImage(seen, unreadable), FieldsAreStandard(seen),
         HasVolumeInfo(seen, unreadable), NEW v, v = VolumeInfo(seen)
  PROVE  LET n == ReadablePart(seen, unreadable)
         IN  /\ n \in Nat /\ n <= Len(seen)
             /\ HashSum(seen, n, v.algorithm)
                  = Digest(v.algorithm, BlankedAt(seen, AppDataStart(seen), n))
             /\ CP!ChecksumIsCorrect <=> v.hashsum = HashSum(seen, n, v.algorithm)
<1> DEFINE n == ReadablePart(seen, unreadable)
<1>1. HasPrimary(seen, unreadable)
  BY DEF HasVolumeInfo
<1>2. /\ HashedSize(seen) \in Nat /\ HashedSize(seen) <= Len(seen) /\ Len(seen) \in Nat
      /\ n \in 0 .. HashedSize(seen)
      /\ \A i \in 0 .. (n - 1) : i \notin unreadable
      /\ n = HashedSize(seen) \/ n \in unreadable
      /\ VolumeSize(seen) \in Int
  BY <1>1, ReadableOf
<1>3. /\ v.offset + APPDATA_OFFSET = AppDataStart(seen)
      /\ v.isosize \in Nat
      /\ v.isosize - v.skipsectors * SECTOR_SIZE = VolumeSize(seen)
      /\ v.skipsectors = SKIPSECTORS
  BY InfoIsUsable
<1> HIDE DEF n
<1>4. n = CP!ReadableSize(v)
  <2>1. v.isosize \in Int /\ v.skipsectors \in Int /\ seen \in Seq(Cell)
    BY <1>3, Layout DEF WellFormedImage
  <2>2. CP!MAX(0, v.isosize - v.skipsectors * SECTOR_SIZE) = MAX(0, VolumeSize(seen))
    BY <1>3 DEF CP!MAX, MAX
  <2>3. HashedSize(seen) = MAX(0, VolumeSize(seen)) \/ HashedSize(seen) = Len(seen)
    BY <1>2 DEF HashedSize, MAX, MIN
  <2>4. n \in 0 .. MAX(0, VolumeSize(seen))
    BY <1>2 DEF HashedSize, MAX, MIN
  <2>5. /\ n \in 0 .. CP!MAX(0, v.isosize - v.skipsectors * SECTOR_SIZE)
        /\ n <= Len(seen)
        /\ \/ n = CP!MAX(0, v.isosize - v.skipsectors * SECTOR_SIZE)
           \/ n = Len(seen)
           \/ n \in unreadable
    BY <1>2, <2>2, <2>3, <2>4
  <2> QED
    BY <1>2, <2>1, <2>5, CAssumed, CP!ReadableSizeIs
<1>5. CP!BlankedAt(seen, AppDataStart(seen), n) = BlankedAt(seen, AppDataStart(seen), n)
  BY DEF CP!BlankedAt, BlankedAt, CP!Space, Space
<1>6. CP!ChecksumIsCorrect
        <=> v.hashsum = Digest(v.algorithm, BlankedAt(seen, AppDataStart(seen), n))
  <2>1. CP!VolumeInfo(seen) = v
    BY CSameInfo
  <2> QED
    BY <1>3, <1>4, <1>5, <2>1, CSameInfo DEF CP!ChecksumIsCorrect
<1> QED
  BY <1>2, <1>6 DEF HashSum, Blanked, n

\* The checker of such a volume is right, if its fragments are wide.
Judges ==
  /\ c_pc # "open" /\ ~begun.overlapped /\ NoneShort /\ begun.damaged = {}
  /\ WideFragments(begun.image)
  => CP!OnMedium /\ CP!InStep /\ CP!CorrectChecksumPasses

\* What the checker's lemmas require of the media that it may have seen.
LEMMA CheckedAreStandard == CP!CertificatesAreStandard /\ CP!CertificatesAgree
<1>1. ASSUME NEW m \in CheckedMedia, CP!HasVolumeInfo(m.image, m.unreadable)
      PROVE  CP!StandardCertificate(m.image) /\ CP!SumsAgree(m.image, m.unreadable)
  <2> DEFINE v == VolumeInfo(m.image)
             n == ReadablePart(m.image, m.unreadable)
  <2>1. /\ WellFormedImage(m.image, m.unreadable) /\ WideFragments(m.image)
        /\ HasVolumeInfo(m.image, m.unreadable)
        /\ v.fragmentcount \in {0, FRAGMENT_COUNT}
        /\ v.skipsectors = SKIPSECTORS
        /\ v.fragmentcount # 0 =>
             /\ v.fragmentsums = FragmentSums(m.image, n, v.algorithm)
             /\ v.fragmentsums # Uninitialized
    BY <1>1, CSameInfo DEF CheckedMedia, Genuine
  <2>2. CP!VolumeInfo(m.image) = v
    BY CSameInfo
  <2>3. CP!WideFragments(m.image)
    BY <2>1, CSameVolume DEF CP!WideFragments, WideFragments, CP!buffer_size, buffer_size
  <2>4. /\ PvdOffset(m.image) = DescriptorStart(ScanStop(m.image))
        /\ SectorsOf(m.image) \in Nat
    BY <2>1 DEF WellFormedImage, WellPlaced, HasVolumeInfo
  <2> HIDE DEF v
  <2>5. CP!StandardCertificate(m.image)
    BY <2>1, <2>2, <2>3, <2>4, CSameVolume DEF CP!StandardCertificate
  <2>6. CP!SumsAgree(m.image, m.unreadable)
    BY <2>1, <2>2, CSameDigests DEF CP!SumsAgree
  <2> QED
    BY <2>5, <2>6
<1> QED
  BY <1>1, ToolsAssumption DEF ToolsAssumption, CP!CertificatesAreStandard, CP!CertificatesAgree

\* A step of the checker of a genuine certificate.
LEMMA CheckerIsRight ==
  ASSUME CP!Inv, CP!OnMedium, CP!InStep, CP!CorrectChecksumPasses, [CP!Next]_CP!vars
  PROVE  CP!OnMedium' /\ CP!InStep' /\ CP!CorrectChecksumPasses'
<1>1. CP!OnMedium'
  BY CAssumed, CP!OnMediumNext
<1>2. CP!InStep'
  BY CAssumed, CheckedAreStandard, CP!InStepNext
<1>3. CP!CorrectChecksumPasses'
  BY CAssumed, CheckedAreStandard, CP!CorrectChecksumNext
<1> QED
  BY <1>1, <1>2, <1>3

-----------------------------------------------------------------------------
(* The one implanter.                                                      *)

\* What the implanters may be asked for, and the files they may work on.
Anything == [alg : Algorithms, forceit : BOOLEAN, supported : {0, 1}]

Files ==
  {m \in [image : Seq(Cell), unreadable : SUBSET Nat, faults : SUBSET A!Faults] :
     WellFormedImage(m.image, m.unreadable)}

\* The implanter once more, with its lemmas.  These are about the library
\* alone, so the variables of the tool around it are nothing.
AP == INSTANCE ImplantProofs WITH
  Media <- Files, Requests <- Anything,
  request <- a_request, pc <- a_pc, total_size <- a_total_size,
  pvd_offset <- a_pvd_offset, fdpos <- a_fdpos, offset <- a_offset, ctx <- a_ctx,
  previous_fragment <- a_previous_fragment, fragmentsums <- a_fragmentsums, rc <- a_rc,
  CommandLines <- {}, ImageName <- "", platform <- "", main <- "", exit_status <- 0,
  argv <- <<>>, current <- 0, flags <- {}, returned <- ""

\* Its operators are those of this module: of the volume of an image,
LEMMA ASameVolume ==
  ASSUME NEW img, NEW unread
  PROVE  /\ AP!StopDescriptors(img) = StopDescriptors(img)
         /\ AP!ScanStop(img) = ScanStop(img)
         /\ AP!DescriptorStart(ScanStop(img)) = DescriptorStart(ScanStop(img))
         /\ AP!AppDataStart(img) = AppDataStart(img)
         /\ AP!AppDataPlaces(img) = AppDataPlaces(img)
         /\ AP!PvdOffset(img) = PvdOffset(img)
         /\ AP!SectorsOf(img) = SectorsOf(img)
         /\ AP!isosize(img) = isosize(img)
         /\ AP!VolumeSize(img) = VolumeSize(img)
         /\ AP!FragmentSize(img) = FragmentSize(img)
         /\ AP!HashedSize(img) = HashedSize(img)
         /\ AP!HasPrimary(img, unread) <=> HasPrimary(img, unread)
         /\ AP!WellPlaced(img) <=> WellPlaced(img)
         /\ AP!WellFormedImage(img, unread) <=> WellFormedImage(img, unread)
<1>1. AP!StopDescriptors(img) = StopDescriptors(img)
  BY DEF AP!StopDescriptors, StopDescriptors, AP!DescriptorStart, DescriptorStart,
         AP!IsDescriptor, IsDescriptor, AP!SYSTEM_AREA_SIZE, SYSTEM_AREA_SIZE
<1>2. AP!ScanStop(img) = ScanStop(img)
  BY DEF AP!StopDescriptors, StopDescriptors, AP!DescriptorStart, DescriptorStart,
         AP!IsDescriptor, IsDescriptor, AP!SYSTEM_AREA_SIZE, SYSTEM_AREA_SIZE,
         AP!ScanStop, ScanStop
<1>3. \A k : AP!DescriptorStart(k) = DescriptorStart(k)
  BY DEF AP!DescriptorStart, DescriptorStart, AP!SYSTEM_AREA_SIZE, SYSTEM_AREA_SIZE
<1>4. /\ AP!AppDataStart(img) = AppDataStart(img)
      /\ AP!PvdOffset(img) = PvdOffset(img)
      /\ AP!SectorsOf(img) = SectorsOf(img)
  BY <1>2, <1>3 DEF AP!AppDataStart, AppDataStart, AP!PvdOffset, PvdOffset, AP!SectorsOf,
                    SectorsOf, AP!SYSTEM_AREA_SIZE, SYSTEM_AREA_SIZE
<1>5. /\ AP!isosize(img) = isosize(img)
      /\ AP!VolumeSize(img) = VolumeSize(img)
      /\ AP!FragmentSize(img) = FragmentSize(img)
      /\ AP!HashedSize(img) = HashedSize(img)
      /\ AP!AppDataPlaces(img) = AppDataPlaces(img)
  BY <1>4 DEF AP!isosize, isosize, AP!VolumeSize, VolumeSize, AP!FragmentSize, FragmentSize,
              AP!HashedSize, HashedSize, AP!MIN, MIN, AP!MAX, MAX, AP!AppDataPlaces,
              AppDataPlaces
<1>6. AP!HasPrimary(img, unread) <=> HasPrimary(img, unread)
  BY <1>1, <1>2, <1>3 DEF AP!HasPrimary, HasPrimary, AP!IsDescriptor, IsDescriptor
<1>7. AP!WellPlaced(img) <=> WellPlaced(img)
  BY <1>2, <1>3, <1>4 DEF AP!WellPlaced, WellPlaced
<1>8. AP!WellFormedImage(img, unread) <=> WellFormedImage(img, unread)
  BY <1>1, <1>4, <1>6, <1>7 DEF AP!WellFormedImage, WellFormedImage
<1> QED
  BY <1>1, <1>2, <1>3, <1>4, <1>5, <1>6, <1>7, <1>8

\* of digests,
LEMMA ASameDigests ==
  ASSUME NEW img, NEW unread, NEW n, NEW alg
  PROVE  /\ AP!ReadablePart(img, unread) = ReadablePart(img, unread)
         /\ AP!Blanked(img, n) = Blanked(img, n)
         /\ AP!Digest(alg, n) = Digest(alg, n)
         /\ AP!HashSum(img, n, alg) = HashSum(img, n, alg)
         /\ AP!FragmentSums(img, n, alg) = FragmentSums(img, n, alg)
<1>1. AP!ReadablePart(img, unread) = ReadablePart(img, unread)
  BY DEF AP!StopDescriptors, StopDescriptors, AP!DescriptorStart, DescriptorStart,
         AP!IsDescriptor, IsDescriptor, AP!SYSTEM_AREA_SIZE, SYSTEM_AREA_SIZE, AP!ScanStop,
         ScanStop, AP!SectorsOf, SectorsOf, AP!isosize, isosize, AP!VolumeSize, VolumeSize,
         AP!HashedSize, HashedSize, AP!MAX, MAX, AP!MIN, MIN, AP!ReadablePart, ReadablePart
<1>2. \A m : AP!Blanked(img, m) = Blanked(img, m)
  BY DEF AP!StopDescriptors, StopDescriptors, AP!DescriptorStart, DescriptorStart,
         AP!IsDescriptor, IsDescriptor, AP!SYSTEM_AREA_SIZE, SYSTEM_AREA_SIZE, AP!ScanStop,
         ScanStop, AP!Blanked, Blanked, AP!BlankedAt, BlankedAt, AP!Space, Space,
         AP!AppDataStart, AppDataStart
<1>3. AP!HashSum(img, n, alg) = HashSum(img, n, alg)
  BY <1>2 DEF AP!HashSum, HashSum, AP!Digest, Digest
<1>4. AP!FragmentEnds(img, n) = FragmentEnds(img, n)
  BY DEF AP!StopDescriptors, StopDescriptors, AP!DescriptorStart, DescriptorStart,
         AP!IsDescriptor, IsDescriptor, AP!SYSTEM_AREA_SIZE, SYSTEM_AREA_SIZE, AP!ScanStop,
         ScanStop, AP!SectorsOf, SectorsOf, AP!isosize, isosize, AP!VolumeSize, VolumeSize,
         AP!FragmentSize, FragmentSize, AP!buffer_size, buffer_size, AP!FragmentEnds,
         FragmentEnds
<1>5. \A S : AP!Cardinality(S) = Cardinality(S)
  BY DEF AP!Cardinality, Cardinality
<1>6. \A f : AP!FragmentEnd(img, n, f) = FragmentEnd(img, n, f)
  BY DEF AP!StopDescriptors, StopDescriptors, AP!DescriptorStart, DescriptorStart,
         AP!IsDescriptor, IsDescriptor, AP!SYSTEM_AREA_SIZE, SYSTEM_AREA_SIZE, AP!ScanStop,
         ScanStop, AP!SectorsOf, SectorsOf, AP!isosize, isosize, AP!VolumeSize, VolumeSize,
         AP!FragmentSize, FragmentSize, AP!buffer_size, buffer_size, AP!FragmentEnds,
         FragmentEnds, AP!FragmentEnd, FragmentEnd, AP!Cardinality, Cardinality
<1>7. \A f : AP!HashedAt(img, n, f) = HashedAt(img, n, f)
  BY <1>2, <1>6 DEF AP!HashedAt, HashedAt, AP!buffer_size, buffer_size, AP!MIN, MIN
<1>8. AP!FragmentSums(img, n, alg) = FragmentSums(img, n, alg)
  <2> DEFINE width == FRAGMENT_SUM_SIZE \div FRAGMENT_COUNT
             digests == [f \in 1 .. AP!Cardinality(AP!FragmentEnds(img, n)) |->
                           AP!Digest(alg, AP!HashedAt(img, n, f))]
             others == [f \in 1 .. Cardinality(FragmentEnds(img, n)) |->
                          Digest(alg, HashedAt(img, n, f))]
             Sums(d) == [i \in 1 .. (width * Len(d)) |->
                           <<d[((i - 1) \div width) + 1], ((i - 1) % width) + 1>>]
  <2>1. digests = others
    BY <1>4, <1>5, <1>7 DEF AP!Digest, Digest
  <2>2. AP!FragmentSums(img, n, alg) = Sums(digests)
    BY DEF AP!FragmentSums
  <2>3. FragmentSums(img, n, alg) = Sums(others)
    BY DEF FragmentSums
  <2> HIDE DEF digests, others, Sums
  <2> QED
    BY <2>1, <2>2, <2>3
<1> QED
  BY <1>1, <1>2, <1>3, <1>8 DEF AP!Digest, Digest

\* and of what is written.
LEMMA ASameWriting ==
  ASSUME NEW img, NEW other, NEW cells, NEW whole
  PROVE  /\ AP!SameOutside(img, other) <=> SameOutside(img, other)
         /\ AP!WriteAt(img, AppDataStart(img), cells) = WriteAt(img, AppDataStart(img), cells)
         /\ AP!WrittenOver(img, other, cells, whole) <=> WrittenOver(img, other, cells, whole)
         /\ AP!Space = Space
         /\ AP!BlankAppData = BlankAppData
         /\ \A alg, sum, supported, sums :
              AP!NewAppData(alg, sum, supported, sums) = NewAppData(alg, sum, supported, sums)
<1>1. AP!AppDataStart(img) = AppDataStart(img)
  BY ASameVolume
<1>2. \A pos, some : AP!WriteAt(img, pos, some) = WriteAt(img, pos, some)
  BY DEF AP!WriteAt, WriteAt, AP!MAX, MAX
<1>3. AP!SameOutside(img, other) <=> SameOutside(img, other)
  BY <1>1 DEF AP!SameOutside, SameOutside, AP!AppDataPlaces, AppDataPlaces
<1>4. AP!WrittenOver(img, other, cells, whole) <=> WrittenOver(img, other, cells, whole)
  BY <1>1, <1>2 DEF AP!WrittenOver, WrittenOver
<1>5. AP!BlankAppData = BlankAppData /\ AP!Space = Space
  BY DEF AP!BlankAppData, BlankAppData, AP!Space, Space
<1>6. \A alg, sum, supported, sums :
        AP!NewAppData(alg, sum, supported, sums) = NewAppData(alg, sum, supported, sums)
  BY DEF AP!NewAppData, NewAppData, AP!NewFields, NewFields, AP!HashTag, HashTag, AP!Trailer,
         Trailer, AP!Space, Space
<1> QED
  BY <1>1, <1>2, <1>3, <1>4, <1>5, <1>6

\* What is assumed of its constants.
LEMMA AAssumed ==
  /\ SECTOR_SIZE \in Nat \ {0}
  /\ NUM_SYSTEM_SECTORS \in Nat \ {0}
  /\ SKIPSECTORS \in Nat
  /\ SIZE_OFFSET \in Nat \ {0}
  /\ APPDATA_OFFSET \in Nat
  /\ APPDATA_SIZE \in Nat \ {0}
  /\ SIZE_OFFSET < APPDATA_OFFSET
  /\ APPDATA_OFFSET + APPDATA_SIZE <= SECTOR_SIZE
  /\ FRAGMENT_COUNT \in Nat \ {0}
  /\ FRAGMENT_COUNT < SECTOR_SIZE
  /\ FRAGMENT_SUM_SIZE \in Nat
  /\ FRAGMENT_SUM_SIZE % FRAGMENT_COUNT = 0
  /\ AP!Space \in Cell
  /\ \A m \in Files :
       /\ m.image \in Seq(Cell)
       /\ m.unreadable \subseteq Nat
       /\ m.faults \subseteq AP!Faults
       /\ AP!StopDescriptors(m.image) # {}
       /\ AP!HasPrimary(m.image, m.unreadable) => AP!SectorsOf(m.image) \in Nat
  /\ FRAGMENT_SUM_SIZE \div FRAGMENT_COUNT <= 16
  /\ Anything \subseteq [alg : AP!Algorithms, forceit : BOOLEAN, supported : {0, 1}]
  /\ Errnos \subseteq Nat
  /\ {} \subseteq Seq(AP!Parser!Arguments)
  /\ Anything = [alg : AP!Algorithms, forceit : BOOLEAN, supported : {0, 1}]
<1>1. Anything = [alg : AP!Algorithms, forceit : BOOLEAN, supported : {0, 1}]
  BY DEF Anything, AP!Algorithms, Algorithms
<1>2. ASSUME NEW m \in Files
      PROVE  /\ m.image \in Seq(Cell)
             /\ m.unreadable \subseteq Nat
             /\ m.faults \subseteq AP!Faults
             /\ AP!StopDescriptors(m.image) # {}
             /\ AP!HasPrimary(m.image, m.unreadable) => AP!SectorsOf(m.image) \in Nat
  BY ASameVolume, Zenon DEF Files, WellFormedImage, A!Faults, AP!Faults
<1>3. AP!Space \in Cell
  BY Layout, Zenon DEF AP!Space, Space
<1> QED
  BY <1>1, <1>2, <1>3, Layout, ToolsAssumption DEF ToolsAssumption

\* A step of it is one of the implanter with the lemmas.
LEMMA AStepIs ==
  A!Step \/ A!Crash => AP!Step \/ AP!Crash
<1>1. /\ A!HasPrimary(image, unreadable) <=> AP!HasPrimary(image, unreadable)
      /\ A!isosize(image) = AP!isosize(image)
      /\ A!PvdOffset(image) = AP!PvdOffset(image)
  <2>1. A!StopDescriptors(image) = AP!StopDescriptors(image)
    BY DEF A!StopDescriptors, AP!StopDescriptors, A!DescriptorStart, AP!DescriptorStart,
           A!IsDescriptor, AP!IsDescriptor, A!SYSTEM_AREA_SIZE, AP!SYSTEM_AREA_SIZE
  <2>2. A!ScanStop(image) = AP!ScanStop(image)
    BY DEF A!StopDescriptors, AP!StopDescriptors, A!DescriptorStart, AP!DescriptorStart,
           A!IsDescriptor, AP!IsDescriptor, A!SYSTEM_AREA_SIZE, AP!SYSTEM_AREA_SIZE,
           A!ScanStop, AP!ScanStop
  <2> QED
    BY <2>1, <2>2 DEF A!HasPrimary, AP!HasPrimary, A!isosize, AP!isosize, A!SectorsOf,
                      AP!SectorsOf, A!PvdOffset, AP!PvdOffset, A!IsDescriptor,
                      AP!IsDescriptor, A!DescriptorStart, AP!DescriptorStart,
                      A!SYSTEM_AREA_SIZE, AP!SYSTEM_AREA_SIZE
<1> USE DEF A!Return, AP!Return, A!volume, AP!volume, A!hashing, AP!hashing
<1>2. A!OpenFails \/ A!NoVolume => AP!OpenFails \/ AP!NoVolume
  BY <1>1 DEF A!OpenFails, AP!OpenFails, A!NoVolume, AP!NoVolume
<1>3. A!FindVolume => AP!FindVolume
  BY <1>1 DEF A!FindVolume, AP!FindVolume
<1>4. A!AppDataUnreadable => AP!AppDataUnreadable
  BY DEF A!AppDataUnreadable, AP!AppDataUnreadable, A!ReadReturns, AP!ReadReturns,
         A!MayBeShort, AP!MayBeShort, A!EIO, AP!EIO
<1>5. A!ReadAppData => AP!ReadAppData
  BY Zenon DEF A!ReadAppData, AP!ReadAppData, A!ReadReturns, AP!ReadReturns, A!MayBeShort,
         AP!MayBeShort, A!Space, AP!Space
<1>6. A!Erase => AP!Erase
  BY Zenon DEF A!Erase, AP!Erase, A!WriteAppData, AP!WriteAppData, A!WriteAt, AP!WriteAt,
         A!MAX, AP!MAX, A!BlankAppData, AP!BlankAppData, A!Space, AP!Space
<1>7. A!HashBlock => AP!HashBlock
  BY Zenon DEF A!HashBlock, AP!HashBlock, A!buffer_size, AP!buffer_size, A!fragment_size,
         AP!fragment_size, A!ReadReturns, AP!ReadReturns, A!MIN, AP!MIN, A!SumOf, AP!SumOf,
         A!CellsAt, AP!CellsAt, A!MayBeShort, AP!MayBeShort, A!FragmentSum,
         AP!FragmentSum, A!Digest, AP!Digest, A!DigestBytes, AP!DigestBytes,
         A!fragmentsize, AP!fragmentsize
<1>8. A!EndOfVolume => AP!EndOfVolume
  BY DEF A!EndOfVolume, AP!EndOfVolume, A!buffer_size, AP!buffer_size, A!ReadReturns,
         AP!ReadReturns, A!MIN, AP!MIN, A!MayBeShort, AP!MayBeShort
<1>9. A!WriteCertificate => AP!WriteCertificate
  <2>1. \A alg, sum, supported, sums :
          A!NewAppData(alg, sum, supported, sums) = AP!NewAppData(alg, sum, supported, sums)
    BY DEF A!NewAppData, AP!NewAppData, A!NewFields, AP!NewFields, A!HashTag, AP!HashTag,
           A!Trailer, AP!Trailer, A!Space, AP!Space
  <2> QED
    BY <2>1, Zenon DEF A!WriteCertificate, AP!WriteCertificate, A!WriteAppData, AP!WriteAppData,
                A!WriteAt, AP!WriteAt, A!MAX, AP!MAX, A!Digest, AP!Digest
<1>10. A!Crash => AP!Crash
  BY DEF A!Crash, AP!Crash
<1> QED
  BY <1>2, <1>3, <1>4, <1>5, <1>6, <1>7, <1>8, <1>9, <1>10 DEF A!Step, AP!Step

\* The characters and the cells of its certificates are these.
LEMMA ASameCells ==
  /\ AP!Character = Character
  /\ AP!CellsAreClosed <=>
       \A alg \in Algorithms, content \in Seq(Cell), supported \in {0, 1},
          sums \in Seq(Character), i \in 1 .. APPDATA_SIZE :
         NewAppData(alg, Digest(alg, content), supported, sums)[i] \in Cell
<1>1. AP!Algorithms = Algorithms
  BY DEF AP!Algorithms, Algorithms
<1>2. \A alg, content : AP!Digest(alg, content) = Digest(alg, content)
  BY DEF AP!Digest, Digest
<1>3. AP!Character = Character
  BY DEF AP!Character, Character, AP!Algorithms, Algorithms, AP!Digest, Digest
<1>4. \A alg, sum, supported, sums :
        AP!NewAppData(alg, sum, supported, sums) = NewAppData(alg, sum, supported, sums)
  BY ASameWriting
<1> QED
  BY <1>1, <1>2, <1>3, <1>4, Zenon DEF AP!CellsAreClosed

\* What a step of the one implanter does to the image and to itself.
LEMMA AWorks ==
  ASSUME CellsAreClosed, WellFormedImage(image, unreadable), AP!Working, A!Step \/ A!Crash
  PROVE  /\ AP!Working'
         /\ UNCHANGED <<unreadable, faults>>
         /\ a_rc # 0
         /\ a_rc' # 0 => image' = image \/ Erased(image, image')
         /\ a_rc' = 0 => Certified(image, image')
         /\ image' # image \/ a_rc' = 0 => HasPrimary(image, unreadable) /\ AtWork(a_pc)
<1>1. AP!WellFormedImage(image, unreadable) /\ AP!CellsAreClosed /\ (AP!Step \/ AP!Crash)
  BY ASameVolume, AStepIs, ASameCells DEF CellsAreClosed
<1>2. AP!Working' /\ AP!Effect /\ UNCHANGED <<unreadable, faults>> /\ a_pc # "done"
  BY <1>1, AAssumed, AP!StepKeepsWorking, AP!StepHasEffect
<1>3. a_rc # 0
  BY <1>2 DEF AP!Working, AP!NotReturned
<1>4. CASE image' = image /\ a_rc' # 0
  BY <1>2, <1>3, <1>4
<1>5. CASE /\ a_pc = "erase" /\ a_rc' # 0
           /\ AP!WrittenOver(image, image', AP!BlankAppData, "short write" \notin faults)
  <2>1. Erased(image, image')
    BY <1>5, ASameWriting, Zenon DEF Erased
  <2>2. HasPrimary(image, unreadable)
    BY <1>5, ASameVolume, Zenon DEF AP!Working
  <2> QED
    BY <1>2, <1>3, <1>5, <2>1, <2>2, Zenon DEF AtWork
<1> DEFINE cells == AP!NewAppData(a_request.alg, AP!Digest(a_request.alg, a_ctx),
                                  a_request.supported, a_fragmentsums)
<1>6. CASE /\ a_pc = "write" /\ a_rc' = 0
           /\ AP!WrittenOver(image, image', cells, "short write" \notin faults)
  <2>1. cells = NewAppData(a_request.alg, Digest(a_request.alg, a_ctx),
                           a_request.supported, a_fragmentsums)
    BY ASameWriting DEF AP!Digest, Digest
  <2> HIDE DEF cells
  <2>2. WrittenOver(image, image', cells, "short write" \notin faults)
    BY <1>6, ASameWriting, Zenon
  <2>3. a_request.alg \in Algorithms /\ a_request.supported \in {0, 1}
    BY DEF AP!Working, Anything
  <2>4. /\ HasPrimary(image, unreadable)
        /\ a_ctx \in Seq(Cell) /\ a_fragmentsums \in Seq(Character)
        /\ Len(a_ctx) <= Len(image)
        /\ \A i \in 1 .. Len(a_ctx) : i \notin AppDataPlaces(image) => a_ctx[i] = image[i]
    BY <1>6, ASameVolume, ASameCells, Zenon DEF AP!Working
  <2>5. Certified(image, image')
    BY <2>1, <2>2, <2>3, <2>4, Zenon DEF Certified
  <2> QED
    BY <1>2, <1>3, <1>6, <2>4, <2>5, Zenon DEF AtWork
<1> QED
  BY <1>2, <1>4, <1>5, <1>6, Zenon DEF AP!Effect

\* Others do not disturb it.
LEMMA AWorksOn ==
  ASSUME AP!Working, WellFormedImage(image, unreadable), SameOutside(image, image'),
         UNCHANGED <<unreadable, a>>
  PROVE  AP!Working'
<1>1. AP!WellFormedImage(image, unreadable) /\ AP!SameOutside(image, image')
  BY ASameVolume, ASameWriting, Zenon
<1>2. UNCHANGED <<unreadable, a_request, a_pc, AP!volume, a_fdpos, AP!hashing, a_rc>>
  BY DEF a, AP!volume, AP!hashing
<1> QED
  BY <1>1, <1>2, AAssumed, AP!OtherKeepsWorking

\* while no other is at work,
LEMMA AGoesOn ==
  ASSUME AP!Inv, A!Step \/ A!Crash \/ UNCHANGED <<image, unreadable, faults, a>>
  PROVE  AP!Inv'
<1>1. [AP!Next]_AP!vars
  BY AStepIs DEF AP!Next, AP!vars, AP!volume, AP!hashing, a
<1>2. AP!MediaAreWellFormed
  BY ASameVolume DEF AP!MediaAreWellFormed, Files, WellFormedImage
<1> QED
  BY <1>1, <1>2, AAssumed, AP!InvNext

-----------------------------------------------------------------------------
(* The other, as the one.                                                  *)

BP == INSTANCE ImplantProofs WITH
  Media <- Files, Requests <- Anything,
  request <- b_request, pc <- b_pc, total_size <- b_total_size,
  pvd_offset <- b_pvd_offset, fdpos <- b_fdpos, offset <- b_offset, ctx <- b_ctx,
  previous_fragment <- b_previous_fragment, fragmentsums <- b_fragmentsums, rc <- b_rc,
  CommandLines <- {}, ImageName <- "", platform <- "", main <- "", exit_status <- 0,
  argv <- <<>>, current <- 0, flags <- {}, returned <- ""

\* Its operators are those of this module: of the volume of an image,
LEMMA BSameVolume ==
  ASSUME NEW img, NEW unread
  PROVE  /\ BP!StopDescriptors(img) = StopDescriptors(img)
         /\ BP!ScanStop(img) = ScanStop(img)
         /\ BP!DescriptorStart(ScanStop(img)) = DescriptorStart(ScanStop(img))
         /\ BP!AppDataStart(img) = AppDataStart(img)
         /\ BP!AppDataPlaces(img) = AppDataPlaces(img)
         /\ BP!PvdOffset(img) = PvdOffset(img)
         /\ BP!SectorsOf(img) = SectorsOf(img)
         /\ BP!isosize(img) = isosize(img)
         /\ BP!VolumeSize(img) = VolumeSize(img)
         /\ BP!FragmentSize(img) = FragmentSize(img)
         /\ BP!HashedSize(img) = HashedSize(img)
         /\ BP!HasPrimary(img, unread) <=> HasPrimary(img, unread)
         /\ BP!WellPlaced(img) <=> WellPlaced(img)
         /\ BP!WellFormedImage(img, unread) <=> WellFormedImage(img, unread)
<1>1. BP!StopDescriptors(img) = StopDescriptors(img)
  BY DEF BP!StopDescriptors, StopDescriptors, BP!DescriptorStart, DescriptorStart,
         BP!IsDescriptor, IsDescriptor, BP!SYSTEM_AREA_SIZE, SYSTEM_AREA_SIZE
<1>2. BP!ScanStop(img) = ScanStop(img)
  BY DEF BP!StopDescriptors, StopDescriptors, BP!DescriptorStart, DescriptorStart,
         BP!IsDescriptor, IsDescriptor, BP!SYSTEM_AREA_SIZE, SYSTEM_AREA_SIZE,
         BP!ScanStop, ScanStop
<1>3. \A k : BP!DescriptorStart(k) = DescriptorStart(k)
  BY DEF BP!DescriptorStart, DescriptorStart, BP!SYSTEM_AREA_SIZE, SYSTEM_AREA_SIZE
<1>4. /\ BP!AppDataStart(img) = AppDataStart(img)
      /\ BP!PvdOffset(img) = PvdOffset(img)
      /\ BP!SectorsOf(img) = SectorsOf(img)
  BY <1>2, <1>3 DEF BP!AppDataStart, AppDataStart, BP!PvdOffset, PvdOffset, BP!SectorsOf,
                    SectorsOf, BP!SYSTEM_AREA_SIZE, SYSTEM_AREA_SIZE
<1>5. /\ BP!isosize(img) = isosize(img)
      /\ BP!VolumeSize(img) = VolumeSize(img)
      /\ BP!FragmentSize(img) = FragmentSize(img)
      /\ BP!HashedSize(img) = HashedSize(img)
      /\ BP!AppDataPlaces(img) = AppDataPlaces(img)
  BY <1>4 DEF BP!isosize, isosize, BP!VolumeSize, VolumeSize, BP!FragmentSize, FragmentSize,
              BP!HashedSize, HashedSize, BP!MIN, MIN, BP!MAX, MAX, BP!AppDataPlaces,
              AppDataPlaces
<1>6. BP!HasPrimary(img, unread) <=> HasPrimary(img, unread)
  BY <1>1, <1>2, <1>3 DEF BP!HasPrimary, HasPrimary, BP!IsDescriptor, IsDescriptor
<1>7. BP!WellPlaced(img) <=> WellPlaced(img)
  BY <1>2, <1>3, <1>4 DEF BP!WellPlaced, WellPlaced
<1>8. BP!WellFormedImage(img, unread) <=> WellFormedImage(img, unread)
  BY <1>1, <1>4, <1>6, <1>7 DEF BP!WellFormedImage, WellFormedImage
<1> QED
  BY <1>1, <1>2, <1>3, <1>4, <1>5, <1>6, <1>7, <1>8

\* of digests,
LEMMA BSameDigests ==
  ASSUME NEW img, NEW unread, NEW n, NEW alg
  PROVE  /\ BP!ReadablePart(img, unread) = ReadablePart(img, unread)
         /\ BP!Blanked(img, n) = Blanked(img, n)
         /\ BP!Digest(alg, n) = Digest(alg, n)
         /\ BP!HashSum(img, n, alg) = HashSum(img, n, alg)
         /\ BP!FragmentSums(img, n, alg) = FragmentSums(img, n, alg)
<1>1. BP!ReadablePart(img, unread) = ReadablePart(img, unread)
  BY DEF BP!StopDescriptors, StopDescriptors, BP!DescriptorStart, DescriptorStart,
         BP!IsDescriptor, IsDescriptor, BP!SYSTEM_AREA_SIZE, SYSTEM_AREA_SIZE, BP!ScanStop,
         ScanStop, BP!SectorsOf, SectorsOf, BP!isosize, isosize, BP!VolumeSize, VolumeSize,
         BP!HashedSize, HashedSize, BP!MAX, MAX, BP!MIN, MIN, BP!ReadablePart, ReadablePart
<1>2. \A m : BP!Blanked(img, m) = Blanked(img, m)
  BY DEF BP!StopDescriptors, StopDescriptors, BP!DescriptorStart, DescriptorStart,
         BP!IsDescriptor, IsDescriptor, BP!SYSTEM_AREA_SIZE, SYSTEM_AREA_SIZE, BP!ScanStop,
         ScanStop, BP!Blanked, Blanked, BP!BlankedAt, BlankedAt, BP!Space, Space,
         BP!AppDataStart, AppDataStart
<1>3. BP!HashSum(img, n, alg) = HashSum(img, n, alg)
  BY <1>2 DEF BP!HashSum, HashSum, BP!Digest, Digest
<1>4. BP!FragmentEnds(img, n) = FragmentEnds(img, n)
  BY DEF BP!StopDescriptors, StopDescriptors, BP!DescriptorStart, DescriptorStart,
         BP!IsDescriptor, IsDescriptor, BP!SYSTEM_AREA_SIZE, SYSTEM_AREA_SIZE, BP!ScanStop,
         ScanStop, BP!SectorsOf, SectorsOf, BP!isosize, isosize, BP!VolumeSize, VolumeSize,
         BP!FragmentSize, FragmentSize, BP!buffer_size, buffer_size, BP!FragmentEnds,
         FragmentEnds
<1>5. \A S : BP!Cardinality(S) = Cardinality(S)
  BY DEF BP!Cardinality, Cardinality
<1>6. \A f : BP!FragmentEnd(img, n, f) = FragmentEnd(img, n, f)
  BY DEF BP!StopDescriptors, StopDescriptors, BP!DescriptorStart, DescriptorStart,
         BP!IsDescriptor, IsDescriptor, BP!SYSTEM_AREA_SIZE, SYSTEM_AREA_SIZE, BP!ScanStop,
         ScanStop, BP!SectorsOf, SectorsOf, BP!isosize, isosize, BP!VolumeSize, VolumeSize,
         BP!FragmentSize, FragmentSize, BP!buffer_size, buffer_size, BP!FragmentEnds,
         FragmentEnds, BP!FragmentEnd, FragmentEnd, BP!Cardinality, Cardinality
<1>7. \A f : BP!HashedAt(img, n, f) = HashedAt(img, n, f)
  BY <1>2, <1>6 DEF BP!HashedAt, HashedAt, BP!buffer_size, buffer_size, BP!MIN, MIN
<1>8. BP!FragmentSums(img, n, alg) = FragmentSums(img, n, alg)
  <2> DEFINE width == FRAGMENT_SUM_SIZE \div FRAGMENT_COUNT
             digests == [f \in 1 .. BP!Cardinality(BP!FragmentEnds(img, n)) |->
                           BP!Digest(alg, BP!HashedAt(img, n, f))]
             others == [f \in 1 .. Cardinality(FragmentEnds(img, n)) |->
                          Digest(alg, HashedAt(img, n, f))]
             Sums(d) == [i \in 1 .. (width * Len(d)) |->
                           <<d[((i - 1) \div width) + 1], ((i - 1) % width) + 1>>]
  <2>1. digests = others
    BY <1>4, <1>5, <1>7 DEF BP!Digest, Digest
  <2>2. BP!FragmentSums(img, n, alg) = Sums(digests)
    BY DEF BP!FragmentSums
  <2>3. FragmentSums(img, n, alg) = Sums(others)
    BY DEF FragmentSums
  <2> HIDE DEF digests, others, Sums
  <2> QED
    BY <2>1, <2>2, <2>3
<1> QED
  BY <1>1, <1>2, <1>3, <1>8 DEF BP!Digest, Digest

\* and of what is written.
LEMMA BSameWriting ==
  ASSUME NEW img, NEW other, NEW cells, NEW whole
  PROVE  /\ BP!SameOutside(img, other) <=> SameOutside(img, other)
         /\ BP!WriteAt(img, AppDataStart(img), cells) = WriteAt(img, AppDataStart(img), cells)
         /\ BP!WrittenOver(img, other, cells, whole) <=> WrittenOver(img, other, cells, whole)
         /\ BP!Space = Space
         /\ BP!BlankAppData = BlankAppData
         /\ \A alg, sum, supported, sums :
              BP!NewAppData(alg, sum, supported, sums) = NewAppData(alg, sum, supported, sums)
<1>1. BP!AppDataStart(img) = AppDataStart(img)
  BY BSameVolume
<1>2. \A pos, some : BP!WriteAt(img, pos, some) = WriteAt(img, pos, some)
  BY DEF BP!WriteAt, WriteAt, BP!MAX, MAX
<1>3. BP!SameOutside(img, other) <=> SameOutside(img, other)
  BY <1>1 DEF BP!SameOutside, SameOutside, BP!AppDataPlaces, AppDataPlaces
<1>4. BP!WrittenOver(img, other, cells, whole) <=> WrittenOver(img, other, cells, whole)
  BY <1>1, <1>2 DEF BP!WrittenOver, WrittenOver
<1>5. BP!BlankAppData = BlankAppData /\ BP!Space = Space
  BY DEF BP!BlankAppData, BlankAppData, BP!Space, Space
<1>6. \A alg, sum, supported, sums :
        BP!NewAppData(alg, sum, supported, sums) = NewAppData(alg, sum, supported, sums)
  BY DEF BP!NewAppData, NewAppData, BP!NewFields, NewFields, BP!HashTag, HashTag, BP!Trailer,
         Trailer, BP!Space, Space
<1> QED
  BY <1>1, <1>2, <1>3, <1>4, <1>5, <1>6

\* What is assumed of its constants.
LEMMA BAssumed ==
  /\ SECTOR_SIZE \in Nat \ {0}
  /\ NUM_SYSTEM_SECTORS \in Nat \ {0}
  /\ SKIPSECTORS \in Nat
  /\ SIZE_OFFSET \in Nat \ {0}
  /\ APPDATA_OFFSET \in Nat
  /\ APPDATA_SIZE \in Nat \ {0}
  /\ SIZE_OFFSET < APPDATA_OFFSET
  /\ APPDATA_OFFSET + APPDATA_SIZE <= SECTOR_SIZE
  /\ FRAGMENT_COUNT \in Nat \ {0}
  /\ FRAGMENT_COUNT < SECTOR_SIZE
  /\ FRAGMENT_SUM_SIZE \in Nat
  /\ FRAGMENT_SUM_SIZE % FRAGMENT_COUNT = 0
  /\ BP!Space \in Cell
  /\ \A m \in Files :
       /\ m.image \in Seq(Cell)
       /\ m.unreadable \subseteq Nat
       /\ m.faults \subseteq BP!Faults
       /\ BP!StopDescriptors(m.image) # {}
       /\ BP!HasPrimary(m.image, m.unreadable) => BP!SectorsOf(m.image) \in Nat
  /\ FRAGMENT_SUM_SIZE \div FRAGMENT_COUNT <= 16
  /\ Anything \subseteq [alg : BP!Algorithms, forceit : BOOLEAN, supported : {0, 1}]
  /\ Errnos \subseteq Nat
  /\ {} \subseteq Seq(BP!Parser!Arguments)
  /\ Anything = [alg : BP!Algorithms, forceit : BOOLEAN, supported : {0, 1}]
<1>1. Anything = [alg : BP!Algorithms, forceit : BOOLEAN, supported : {0, 1}]
  BY DEF Anything, BP!Algorithms, Algorithms
<1>2. ASSUME NEW m \in Files
      PROVE  /\ m.image \in Seq(Cell)
             /\ m.unreadable \subseteq Nat
             /\ m.faults \subseteq BP!Faults
             /\ BP!StopDescriptors(m.image) # {}
             /\ BP!HasPrimary(m.image, m.unreadable) => BP!SectorsOf(m.image) \in Nat
  BY BSameVolume, Zenon DEF Files, WellFormedImage, A!Faults, BP!Faults
<1>3. BP!Space \in Cell
  BY Layout, Zenon DEF BP!Space, Space
<1> QED
  BY <1>1, <1>2, <1>3, Layout, ToolsAssumption DEF ToolsAssumption

\* A step of it is one of the implanter with the lemmas.
LEMMA BStepIs ==
  B!Step \/ B!Crash => BP!Step \/ BP!Crash
<1>1. /\ B!HasPrimary(image, unreadable) <=> BP!HasPrimary(image, unreadable)
      /\ B!isosize(image) = BP!isosize(image)
      /\ B!PvdOffset(image) = BP!PvdOffset(image)
  <2>1. B!StopDescriptors(image) = BP!StopDescriptors(image)
    BY DEF B!StopDescriptors, BP!StopDescriptors, B!DescriptorStart, BP!DescriptorStart,
           B!IsDescriptor, BP!IsDescriptor, B!SYSTEM_AREA_SIZE, BP!SYSTEM_AREA_SIZE
  <2>2. B!ScanStop(image) = BP!ScanStop(image)
    BY DEF B!StopDescriptors, BP!StopDescriptors, B!DescriptorStart, BP!DescriptorStart,
           B!IsDescriptor, BP!IsDescriptor, B!SYSTEM_AREA_SIZE, BP!SYSTEM_AREA_SIZE,
           B!ScanStop, BP!ScanStop
  <2> QED
    BY <2>1, <2>2 DEF B!HasPrimary, BP!HasPrimary, B!isosize, BP!isosize, B!SectorsOf,
                      BP!SectorsOf, B!PvdOffset, BP!PvdOffset, B!IsDescriptor,
                      BP!IsDescriptor, B!DescriptorStart, BP!DescriptorStart,
                      B!SYSTEM_AREA_SIZE, BP!SYSTEM_AREA_SIZE
<1> USE DEF B!Return, BP!Return, B!volume, BP!volume, B!hashing, BP!hashing
<1>2. B!OpenFails \/ B!NoVolume => BP!OpenFails \/ BP!NoVolume
  BY <1>1 DEF B!OpenFails, BP!OpenFails, B!NoVolume, BP!NoVolume
<1>3. B!FindVolume => BP!FindVolume
  BY <1>1 DEF B!FindVolume, BP!FindVolume
<1>4. B!AppDataUnreadable => BP!AppDataUnreadable
  BY DEF B!AppDataUnreadable, BP!AppDataUnreadable, B!ReadReturns, BP!ReadReturns,
         B!MayBeShort, BP!MayBeShort, B!EIO, BP!EIO
<1>5. B!ReadAppData => BP!ReadAppData
  BY Zenon DEF B!ReadAppData, BP!ReadAppData, B!ReadReturns, BP!ReadReturns, B!MayBeShort,
         BP!MayBeShort, B!Space, BP!Space
<1>6. B!Erase => BP!Erase
  BY Zenon DEF B!Erase, BP!Erase, B!WriteAppData, BP!WriteAppData, B!WriteAt, BP!WriteAt,
         B!MAX, BP!MAX, B!BlankAppData, BP!BlankAppData, B!Space, BP!Space
<1>7. B!HashBlock => BP!HashBlock
  BY Zenon DEF B!HashBlock, BP!HashBlock, B!buffer_size, BP!buffer_size, B!fragment_size,
         BP!fragment_size, B!ReadReturns, BP!ReadReturns, B!MIN, BP!MIN, B!SumOf, BP!SumOf,
         B!CellsAt, BP!CellsAt, B!MayBeShort, BP!MayBeShort, B!FragmentSum,
         BP!FragmentSum, B!Digest, BP!Digest, B!DigestBytes, BP!DigestBytes,
         B!fragmentsize, BP!fragmentsize
<1>8. B!EndOfVolume => BP!EndOfVolume
  BY DEF B!EndOfVolume, BP!EndOfVolume, B!buffer_size, BP!buffer_size, B!ReadReturns,
         BP!ReadReturns, B!MIN, BP!MIN, B!MayBeShort, BP!MayBeShort
<1>9. B!WriteCertificate => BP!WriteCertificate
  <2>1. \A alg, sum, supported, sums :
          B!NewAppData(alg, sum, supported, sums) = BP!NewAppData(alg, sum, supported, sums)
    BY DEF B!NewAppData, BP!NewAppData, B!NewFields, BP!NewFields, B!HashTag, BP!HashTag,
           B!Trailer, BP!Trailer, B!Space, BP!Space
  <2> QED
    BY <2>1, Zenon DEF B!WriteCertificate, BP!WriteCertificate, B!WriteAppData, BP!WriteAppData,
                B!WriteAt, BP!WriteAt, B!MAX, BP!MAX, B!Digest, BP!Digest
<1>10. B!Crash => BP!Crash
  BY DEF B!Crash, BP!Crash
<1> QED
  BY <1>2, <1>3, <1>4, <1>5, <1>6, <1>7, <1>8, <1>9, <1>10 DEF B!Step, BP!Step

\* The characters and the cells of its certificates are these.
LEMMA BSameCells ==
  /\ BP!Character = Character
  /\ BP!CellsAreClosed <=>
       \A alg \in Algorithms, content \in Seq(Cell), supported \in {0, 1},
          sums \in Seq(Character), i \in 1 .. APPDATA_SIZE :
         NewAppData(alg, Digest(alg, content), supported, sums)[i] \in Cell
<1>1. BP!Algorithms = Algorithms
  BY DEF BP!Algorithms, Algorithms
<1>2. \A alg, content : BP!Digest(alg, content) = Digest(alg, content)
  BY DEF BP!Digest, Digest
<1>3. BP!Character = Character
  BY DEF BP!Character, Character, BP!Algorithms, Algorithms, BP!Digest, Digest
<1>4. \A alg, sum, supported, sums :
        BP!NewAppData(alg, sum, supported, sums) = NewAppData(alg, sum, supported, sums)
  BY BSameWriting
<1> QED
  BY <1>1, <1>2, <1>3, <1>4, Zenon DEF BP!CellsAreClosed

\* What a step of the other does to the image and to itself.
LEMMA BWorks ==
  ASSUME CellsAreClosed, WellFormedImage(image, unreadable), BP!Working, B!Step \/ B!Crash
  PROVE  /\ BP!Working'
         /\ UNCHANGED <<unreadable, faults>>
         /\ b_rc # 0
         /\ b_rc' # 0 => image' = image \/ Erased(image, image')
         /\ b_rc' = 0 => Certified(image, image')
         /\ image' # image \/ b_rc' = 0 => HasPrimary(image, unreadable) /\ AtWork(b_pc)
<1>1. BP!WellFormedImage(image, unreadable) /\ BP!CellsAreClosed /\ (BP!Step \/ BP!Crash)
  BY BSameVolume, BStepIs, BSameCells DEF CellsAreClosed
<1>2. BP!Working' /\ BP!Effect /\ UNCHANGED <<unreadable, faults>> /\ b_pc # "done"
  BY <1>1, BAssumed, BP!StepKeepsWorking, BP!StepHasEffect
<1>3. b_rc # 0
  BY <1>2 DEF BP!Working, BP!NotReturned
<1>4. CASE image' = image /\ b_rc' # 0
  BY <1>2, <1>3, <1>4
<1>5. CASE /\ b_pc = "erase" /\ b_rc' # 0
           /\ BP!WrittenOver(image, image', BP!BlankAppData, "short write" \notin faults)
  <2>1. Erased(image, image')
    BY <1>5, BSameWriting, Zenon DEF Erased
  <2>2. HasPrimary(image, unreadable)
    BY <1>5, BSameVolume, Zenon DEF BP!Working
  <2> QED
    BY <1>2, <1>3, <1>5, <2>1, <2>2, Zenon DEF AtWork
<1> DEFINE cells == BP!NewAppData(b_request.alg, BP!Digest(b_request.alg, b_ctx),
                                  b_request.supported, b_fragmentsums)
<1>6. CASE /\ b_pc = "write" /\ b_rc' = 0
           /\ BP!WrittenOver(image, image', cells, "short write" \notin faults)
  <2>1. cells = NewAppData(b_request.alg, Digest(b_request.alg, b_ctx),
                           b_request.supported, b_fragmentsums)
    BY BSameWriting DEF BP!Digest, Digest
  <2> HIDE DEF cells
  <2>2. WrittenOver(image, image', cells, "short write" \notin faults)
    BY <1>6, BSameWriting, Zenon
  <2>3. b_request.alg \in Algorithms /\ b_request.supported \in {0, 1}
    BY DEF BP!Working, Anything
  <2>4. /\ HasPrimary(image, unreadable)
        /\ b_ctx \in Seq(Cell) /\ b_fragmentsums \in Seq(Character)
        /\ Len(b_ctx) <= Len(image)
        /\ \A i \in 1 .. Len(b_ctx) : i \notin AppDataPlaces(image) => b_ctx[i] = image[i]
    BY <1>6, BSameVolume, BSameCells, Zenon DEF BP!Working
  <2>5. Certified(image, image')
    BY <2>1, <2>2, <2>3, <2>4, Zenon DEF Certified
  <2> QED
    BY <1>2, <1>3, <1>6, <2>4, <2>5, Zenon DEF AtWork
<1> QED
  BY <1>2, <1>4, <1>5, <1>6, Zenon DEF BP!Effect

\* Others do not disturb it.
LEMMA BWorksOn ==
  ASSUME BP!Working, WellFormedImage(image, unreadable), SameOutside(image, image'),
         UNCHANGED <<unreadable, b>>
  PROVE  BP!Working'
<1>1. BP!WellFormedImage(image, unreadable) /\ BP!SameOutside(image, image')
  BY BSameVolume, BSameWriting, Zenon
<1>2. UNCHANGED <<unreadable, b_request, b_pc, BP!volume, b_fdpos, BP!hashing, b_rc>>
  BY DEF b, BP!volume, BP!hashing
<1> QED
  BY <1>1, <1>2, BAssumed, BP!OtherKeepsWorking

\* while no other is at work,
LEMMA BGoesOn ==
  ASSUME BP!Inv, B!Step \/ B!Crash \/ UNCHANGED <<image, unreadable, faults, b>>
  PROVE  BP!Inv'
<1>1. [BP!Next]_BP!vars
  BY BStepIs DEF BP!Next, BP!vars, BP!volume, BP!hashing, b
<1>2. BP!MediaAreWellFormed
  BY BSameVolume DEF BP!MediaAreWellFormed, Files, WellFormedImage
<1> QED
  BY <1>1, <1>2, BAssumed, BP!InvNext

-----------------------------------------------------------------------------
(* The inductive invariant, and that it holds.                             *)

\* Both implanters hash what is there.
ImplantersWork == AP!Working /\ BP!Working

Inv ==
  /\ faults \subseteq A!Faults
  /\ Marked(image, damaged)
  /\ ImplantersWork
  /\ CheckerWorks

\* A change of the application data, and none, leaves the checker what it saw.
LEMMA CheckerSeesOn ==
  ASSUME Inv, SameOutside(image, image'), UNCHANGED <<unreadable, checker, begun>>
  PROVE  CheckerWorks' /\ (c_pc # "open" => UNCHANGED CP!vars)
<1>1. UNCHANGED <<c_pc, info, c_fdpos, c_offset, c_ctx, c_previous_fragment, reported,
                  bail, c_rc, begun>>
  BY DEF checker
<1>2. CASE c_pc = "open"
  <2>1. c_rc = "none"
    BY <1>2 DEF Inv, CheckerWorks
  <2> QED
    BY <1>1, <1>2, <2>1 DEF Inv, CheckerWorks
<1>3. CASE c_pc # "open"
  <2>1. seen' = seen
    BY <1>1, <1>3 DEF seen
  <2>2. UNCHANGED CP!vars
    BY <1>1, <2>1 DEF CP!vars, CP!medium, CP!hashing, CP!progress
  <2>3. CP!Inv'
    BY <1>3, <2>2, CheckerKeepsInv DEF Inv, CheckerWorks
  <2>4. /\ Marked(begun.image, begun.damaged)
        /\ SameOutside(begun.image, image)
    BY <1>3 DEF Inv, CheckerWorks
  <2>5. SameOutside(begun.image, image')
    <3>1. IsSequence(begun.image) /\ IsSequence(image) /\ StopDescriptors(begun.image) # {}
      BY <2>4, SeqIsSequence DEF Inv, Marked, WellFormedImage
    <3> QED
      BY <2>4, <3>1, SameOutsideTwice
  <2>6. Marked(begun.image, begun.damaged)'
    BY <1>1, <2>4 DEF Marked
  <2>7. /\ c_pc \in {"read", "callback", "finish"} \/ c_rc \in {"CHECK_PASSED", "CHECK_FAILED"}
             => HasVolumeInfo(seen, unreadable)
        /\ c_rc = "CHECK_NOT_FOUND" => ~HasVolumeInfo(seen, unreadable)
        /\ c_rc # "none" => c_pc = "done"
    BY DEF Inv, CheckerWorks
  <2> QED
    BY <1>1, <1>3, <2>1, <2>2, <2>3, <2>5, <2>6, <2>7 DEF CheckerWorks
<1> QED
  BY <1>2, <1>3

\* What a step of the one implanter does.
LEMMA ImplantAFacts ==
  ASSUME CellsAreClosed, Inv, ImplantA
  PROVE  /\ Inv' /\ SameOutside(image, image')
         /\ UNCHANGED <<unreadable, faults, b, checker, begun>>
         /\ a_rc # 0
         /\ a_rc' # 0 => (image' = image \/ Erased(image, image')) /\ damaged' = damaged
         /\ a_rc' = 0 => Certified(image, image') /\ damaged' = {}
         /\ image' # image \/ a_rc' = 0 => HasPrimary(image, unreadable) /\ AtWork(a_pc)
<1>1. WellFormedImage(image, unreadable) /\ Marked(image, damaged) /\ faults \subseteq A!Faults
      /\ AP!Working /\ BP!Working
  BY DEF Inv, Marked, ImplantersWork
<1>2. A!Step /\ UNCHANGED <<b, checker, begun>> /\ Record(a_rc)
  BY DEF ImplantA, Record
<1>3. /\ AP!Working'
      /\ UNCHANGED <<unreadable, faults>>
      /\ a_rc # 0
      /\ a_rc' # 0 => image' = image \/ Erased(image, image')
      /\ a_rc' = 0 => Certified(image, image')
      /\ image' # image \/ a_rc' = 0 => HasPrimary(image, unreadable) /\ AtWork(a_pc)
  BY <1>1, <1>2, AWorks
<1>4. damaged' = IF a_rc' = 0 THEN {} ELSE damaged
  BY <1>2, <1>3 DEF Record
<1>5. SameOutside(image, image') /\ Marked(image', damaged')
  <2>1. CASE a_rc' = 0
    BY <1>1, <1>3, <1>4, <2>1, CertifiedIsMarked
  <2>2. CASE a_rc' # 0 /\ image' = image
    BY <1>1, <1>4, <2>2, SameOutsideItself
  <2>3. CASE a_rc' # 0 /\ image' # image
    BY <1>1, <1>3, <1>4, <2>3, ErasedIsMarked
  <2> QED
    BY <2>1, <2>2, <2>3
<1>6. Marked(image, damaged)'
  BY <1>3, <1>5 DEF Marked
<1>7. BP!Working'
  BY <1>1, <1>2, <1>3, <1>5, BWorksOn
<1>8. CheckerWorks'
  BY <1>2, <1>3, <1>5, CheckerSeesOn
<1>9. Inv'
  BY <1>1, <1>3, <1>6, <1>7, <1>8, Zenon DEF Inv, ImplantersWork, A!Faults
<1> QED
  BY <1>2, <1>3, <1>4, <1>5, <1>9

\* And what one of the other does.
LEMMA ImplantBFacts ==
  ASSUME CellsAreClosed, Inv, ImplantB
  PROVE  /\ Inv' /\ SameOutside(image, image')
         /\ UNCHANGED <<unreadable, faults, a, checker, begun>>
         /\ b_rc # 0
         /\ b_rc' # 0 => (image' = image \/ Erased(image, image')) /\ damaged' = damaged
         /\ b_rc' = 0 => Certified(image, image') /\ damaged' = {}
         /\ image' # image \/ b_rc' = 0 => HasPrimary(image, unreadable) /\ AtWork(b_pc)
<1>1. WellFormedImage(image, unreadable) /\ Marked(image, damaged) /\ faults \subseteq A!Faults
      /\ AP!Working /\ BP!Working
  BY DEF Inv, Marked, ImplantersWork
<1>2. B!Step /\ UNCHANGED <<a, checker, begun>> /\ Record(b_rc)
  BY DEF ImplantB, Record
<1>3. /\ BP!Working'
      /\ UNCHANGED <<unreadable, faults>>
      /\ b_rc # 0
      /\ b_rc' # 0 => image' = image \/ Erased(image, image')
      /\ b_rc' = 0 => Certified(image, image')
      /\ image' # image \/ b_rc' = 0 => HasPrimary(image, unreadable) /\ AtWork(b_pc)
  BY <1>1, <1>2, BWorks
<1>4. damaged' = IF b_rc' = 0 THEN {} ELSE damaged
  BY <1>2, <1>3 DEF Record
<1>5. SameOutside(image, image') /\ Marked(image', damaged')
  <2>1. CASE b_rc' = 0
    BY <1>1, <1>3, <1>4, <2>1, CertifiedIsMarked
  <2>2. CASE b_rc' # 0 /\ image' = image
    BY <1>1, <1>4, <2>2, SameOutsideItself
  <2>3. CASE b_rc' # 0 /\ image' # image
    BY <1>1, <1>3, <1>4, <2>3, ErasedIsMarked
  <2> QED
    BY <2>1, <2>2, <2>3
<1>6. Marked(image, damaged)'
  BY <1>3, <1>5 DEF Marked
<1>7. AP!Working'
  BY <1>1, <1>2, <1>3, <1>5, AWorksOn
<1>8. CheckerWorks'
  BY <1>2, <1>3, <1>5, CheckerSeesOn
<1>9. Inv'
  BY <1>1, <1>3, <1>6, <1>7, <1>8, Zenon DEF Inv, ImplantersWork, A!Faults
<1> QED
  BY <1>2, <1>3, <1>4, <1>5, <1>9

\* Killing an implanter changes nothing else.
LEMMA CrashFacts ==
  ASSUME CellsAreClosed, Inv, CrashA \/ CrashB
  PROVE  Inv' /\ UNCHANGED <<image, unreadable, faults, a_rc, b_rc, damaged, begun, checker>>
<1>1. WellFormedImage(image, unreadable) /\ Marked(image, damaged) /\ faults \subseteq A!Faults
      /\ AP!Working /\ BP!Working
  BY DEF Inv, Marked, ImplantersWork
<1>2. UNCHANGED <<image, unreadable, faults, a_rc, b_rc, damaged, begun, checker>>
  BY DEF CrashA, CrashB, A!Crash, B!Crash, a, b, history
<1>3. SameOutside(image, image')
  BY <1>2, SameOutsideItself
<1>4. AP!Working' /\ BP!Working'
  <2>1. CASE CrashA
    BY <1>1, <1>2, <1>3, <2>1, AWorks, BWorksOn DEF CrashA
  <2>2. CASE CrashB
    BY <1>1, <1>2, <1>3, <2>2, BWorks, AWorksOn DEF CrashB
  <2> QED
    BY <2>1, <2>2
<1>5. Marked(image, damaged)'
  BY <1>1, <1>2 DEF Marked
<1>6. CheckerWorks'
  BY <1>2, <1>3, CheckerSeesOn
<1> QED
  BY <1>1, <1>2, <1>4, <1>5, <1>6, Zenon DEF Inv, ImplantersWork, A!Faults

\* A step of the checker.
LEMMA CheckFacts ==
  ASSUME Inv, Check
  PROVE  /\ Inv' /\ CP!Inv /\ [CP!Next]_CP!vars /\ seen' = seen /\ c_pc' # "open"
         /\ UNCHANGED <<image, unreadable, faults, a, b, damaged, implanted, overlapped>>
         /\ begun' = IF c_pc = "open" THEN marks ELSE begun
<1>1. /\ Marked(image, damaged) /\ CheckerWorks
      /\ c_pc # "done" /\ Checker!Next
      /\ begun' = IF c_pc = "open" THEN marks ELSE begun
      /\ UNCHANGED <<faults, a, b, damaged, implanted, overlapped>>
  BY DEF Inv, Check
<1>2. /\ [CP!Next]_CP!vars /\ seen' = seen /\ c_pc' # "open"
      /\ UNCHANGED <<image, unreadable>>
  BY <1>1, CheckerSees
<1>3. CP!Inv
  BY <1>1, CheckerBegins, Zenon DEF CheckerWorks
<1>4. CP!Inv'
  BY <1>2, <1>3, CheckerKeepsInv
<1>5. SameOutside(image, image')
  BY <1>2, SameOutsideItself
<1>6. AP!Working' /\ BP!Working' /\ Marked(image, damaged)'
  <2>1. AP!Working /\ BP!Working /\ WellFormedImage(image, unreadable)
    BY DEF Inv, ImplantersWork, Marked
  <2> QED
    BY <1>1, <1>2, <1>5, <2>1, AWorksOn, BWorksOn DEF Marked
<1>7. SameOutside(begun.image, image)' /\ Marked(begun.image, begun.damaged)'
  <2>1. CASE c_pc = "open"
    BY <1>1, <1>2, <2>1, SameOutsideItself DEF marks, Marked
  <2>2. CASE c_pc # "open"
    BY <1>1, <1>2, <2>2 DEF CheckerWorks, Marked
  <2> QED
    BY <2>1, <2>2
<1>8. /\ c_pc' \in {"read", "callback", "finish"} \/ c_rc' \in {"CHECK_PASSED", "CHECK_FAILED"}
           => HasVolumeInfo(seen, unreadable)
      /\ c_rc' = "CHECK_NOT_FOUND" => ~HasVolumeInfo(seen, unreadable)
      /\ c_rc' # "none" => c_pc' = "done"
  <2>1. CASE c_pc = "open"
    <3>1. Checker!FileNotFound \/ Checker!NotFound \/ Checker!Rewind
      BY <1>1, <2>1 DEF Checker!Next, Checker!FileNotFound, Checker!NotFound, Checker!Rewind,
         Checker!ReadBlock, Checker!HashBlock, Checker!StopReading, Checker!AllRead,
         Checker!CallBack, Checker!Conclude, Checker!Returned
    <3>2. seen = image /\ c_rc = "none"
      BY <1>1, <2>1 DEF seen, CheckerWorks
    <3> QED
      BY <3>1, <3>2, SameInfo
      DEF Checker!FileNotFound, Checker!NotFound, Checker!Rewind, Checker!Return
  <2>2. CASE c_pc # "open"
    <3>1. c_pc \in {"read", "callback", "finish"} /\ c_rc = "none"
      BY <1>1, <1>3, <2>2 DEF CP!Inv, CP!TypeOK, CheckerWorks
    <3>2. HasVolumeInfo(seen, unreadable)
      BY <1>1, <3>1 DEF CheckerWorks
    <3>3. c_rc' \in {"none", "CHECK_PASSED", "CHECK_FAILED", "CHECK_ABORTED"}
          /\ (c_rc' # "none" => c_pc' = "done")
      BY <1>1, <3>1, Zenon DEF Checker!Next, Checker!FileNotFound, Checker!NotFound, Checker!Rewind,
         Checker!ReadBlock, Checker!HashBlock, Checker!StopReading, Checker!AllRead,
         Checker!CallBack, Checker!Conclude, Checker!Returned, Checker!Return, Checker!Verdict
    <3> QED
      BY <3>2, <3>3
  <2> QED
    BY <2>1, <2>2
<1>9. CheckerWorks'
  BY <1>2, <1>4, <1>7, <1>8 DEF CheckerWorks
<1>10. Inv'
  BY <1>1, <1>6, <1>9, Zenon DEF Inv, ImplantersWork, A!Faults
<1> QED
  BY <1>1, <1>2, <1>3, <1>10

\* The damage.
LEMMA DamageFacts ==
  ASSUME CellsAreClosed, Inv, Damage
  PROVE  /\ Inv' /\ damaged' # {} /\ c_pc' = "open"
         /\ UNCHANGED <<unreadable, faults, a, b, checker, implanted, overlapped, begun>>
<1>1. PICK at \in DamageAt :
        /\ at < Len(image)
        /\ Damaged(image, at) # image
        /\ image' = Damaged(image, at)
        /\ damaged' = damaged \cup {at}
  BY DEF Damage
<1>2. /\ ~AtWork(a_pc) /\ ~AtWork(b_pc) /\ c_pc = "open"
      /\ UNCHANGED <<unreadable, faults, a, b, checker, implanted, overlapped, begun>>
  BY DEF Damage
<1>3. Marked(image', damaged')
  BY <1>1, DamagedIsMarked DEF Inv
<1>4. Marked(image, damaged)'
  BY <1>2, <1>3 DEF Marked
<1>5. AP!Working'
  BY <1>2 DEF Inv, ImplantersWork, AP!Working, AtWork, a, AP!NothingHashed, AP!NotReturned
<1>6. BP!Working'
  BY <1>2 DEF Inv, ImplantersWork, BP!Working, AtWork, b, BP!NothingHashed, BP!NotReturned
<1>7. CheckerWorks'
  BY <1>2 DEF Inv, CheckerWorks, checker
<1> QED
  BY <1>1, <1>2, <1>4, <1>5, <1>6, <1>7, Zenon DEF Inv, ImplantersWork, A!Faults, checker

\* The invariant holds in the beginning,
LEMMA InvInit ==
  ASSUME MediaAreWellFormed, CertificatesAreStandard, Init
  PROVE  Inv
<1>1. PICK m \in Media : image = m.image /\ unreadable = m.unreadable /\ faults = m.faults
  BY DEF Init, A!Init
<1>2. /\ WellFormedImage(image, unreadable) /\ DamageSpares(image)
      /\ FieldsAreStandard(image) /\ DigestsSpare(image, {})
      /\ faults \subseteq A!Faults
  BY <1>1, ToolsAssumption DEF MediaAreWellFormed, CertificatesAreStandard, ToolsAssumption
<1>3. Marked(image, damaged)
  BY <1>2 DEF Init, Marked, DamageIsThere
<1>4. /\ a_request \in Anything
      /\ b_request \in Anything
  BY ToolsAssumption DEF Init, A!Init, B!Init, Anything, ToolsAssumption
<1>5. AP!Working
  BY <1>4, AAssumed, AP!UnbegunIsWorking DEF Init, A!Init, A!NotReturned, AP!NotReturned
<1>6. BP!Working
  BY <1>4, BAssumed, BP!UnbegunIsWorking DEF Init, B!Init, B!NotReturned, BP!NotReturned
<1>7. CheckerWorks
  BY DEF Init, Checker!Init, CheckerWorks
<1> QED
  BY <1>2, <1>3, <1>5, <1>6, <1>7 DEF Inv, ImplantersWork

\* and every step keeps it.
LEMMA InvNext ==
  ASSUME CellsAreClosed, Inv, [Next]_vars
  PROVE  Inv'
<1>1. CASE UNCHANGED vars
  <2>1. UNCHANGED <<image, unreadable, faults, a, b, checker, damaged, begun>>
    BY <1>1 DEF vars, history
  <2>2. SameOutside(image, image')
    BY <2>1, SameOutsideItself
  <2>3. AP!Working' /\ BP!Working' /\ Marked(image, damaged)'
    <3>1. AP!Working /\ BP!Working /\ WellFormedImage(image, unreadable)
      BY DEF Inv, ImplantersWork, Marked
    <3> QED
      BY <2>1, <2>2, <3>1, AWorksOn, BWorksOn DEF Inv, Marked
  <2>4. CheckerWorks'
    BY <2>1, <2>2, CheckerSeesOn
  <2> QED
    BY <2>1, <2>3, <2>4, Zenon DEF Inv, ImplantersWork, A!Faults
<1> QED
  BY <1>1, ImplantAFacts, ImplantBFacts, CrashFacts, CheckFacts, DamageFacts
  DEF Next, AllReturned

-----------------------------------------------------------------------------
(* A medium that was damaged does not pass.                                *)

LEMMA InvPassed ==
  ASSUME Inv
  PROVE  PassedIsUndamaged
<1> SUFFICES ASSUME c_rc = "CHECK_PASSED", NEW o \in begun.damaged, o \in Covered
             PROVE  FALSE
  BY DEF PassedIsUndamaged
<1>1. /\ c_pc = "done" /\ CP!Inv /\ HasVolumeInfo(seen, unreadable)
      /\ Marked(begun.image, begun.damaged) /\ SameOutside(begun.image, image)
  BY DEF Inv, CheckerWorks
<1>2. seen = begun.image
  BY <1>1 DEF seen
<1>3. /\ WellFormedImage(seen, unreadable) /\ FieldsAreStandard(seen)
      /\ DigestsSpare(seen, begun.damaged) /\ DamageIsThere(seen, begun.damaged)
      /\ HasPrimary(seen, unreadable) /\ SameOutside(seen, image)
  BY <1>1, <1>2 DEF Marked, HasVolumeInfo
<1> DEFINE v == VolumeInfo(seen)
           n == ReadablePart(seen, unreadable)
           hashed == BlankedAt(seen, AppDataStart(seen), n)
<1>4. PICK i \in AppDataPlaces(seen), content \in Seq(Cell) :
        /\ i <= Len(seen)
        /\ seen[i] = <<HashTag(v.algorithm), Digest(v.algorithm, content)>>
        /\ v.hashsum = Digest(v.algorithm, content)
        /\ v.algorithm \in Algorithms
  BY <1>1, <1>3, InfoIsUsable, Zenon
<1>5. /\ v.hashsum = Digest(v.algorithm, hashed)
      /\ n \in Nat /\ n <= Len(seen)
  <2>1. CP!ChecksumIsCorrect
    BY <1>1 DEF CP!Inv, CP!PassedIsGenuine
  <2> QED
    BY <1>1, <1>3, <2>1, ChecksumIs
<1>6. content = hashed
  <2> HIDE DEF hashed, v
  <2> QED
    BY <1>4, <1>5 DEF Digest
<1>7. /\ o \in 0 .. (n - 1) /\ o + 1 \notin AppDataPlaces(seen)
  BY <1>3, SameCovered
<1> HIDE DEF v, n
<1>8. seen[o + 1] = <<"damaged">>
  BY <1>3, <1>7 DEF DamageIsThere
<1>9. Len(content) = n /\ content[o + 1] = seen[o + 1] /\ o + 1 \in 1 .. n
  <2>1. o + 1 \in 1 .. n
    BY <1>5, <1>7
  <2>2. hashed[o + 1] = seen[o + 1]
    BY <1>7, <2>1 DEF BlankedAt, AppDataPlaces
  <2>3. Len(hashed) = n
    <3>1. hashed = [j \in 1 .. n |-> hashed[j]]
      BY DEF BlankedAt
    <3> HIDE DEF hashed
    <3> QED
      BY <1>5, <3>1, FunctionIsSequence
  <2> QED
    BY <1>6, <2>1, <2>2, <2>3
<1>10. CellSpares(seen, begun.damaged, seen[i])
  BY <1>3, <1>4 DEF DigestsSpare
<1>11. ASSUME NEW p \in 1 .. Len(content), p <= Len(seen), p \notin AppDataPlaces(seen),
              content[p] = <<"damaged">>
       PROVE  p - 1 \notin begun.damaged
  BY <1>4, <1>10, <1>11 DEF CellSpares
<1> DEFINE p == o + 1
<1>12. /\ p \in 1 .. Len(content) /\ p <= Len(seen) /\ p \notin AppDataPlaces(seen)
       /\ content[p] = <<"damaged">>
       /\ p - 1 = o
  BY <1>5, <1>7, <1>8, <1>9
<1> HIDE DEF p
<1> QED
  BY <1>11, <1>12

\* checkisomd5.c: "PASS.  It is OK to use this media."  Whatever layout, media
\* and damage, however the steps interleave and the implanters end, a medium
\* that was damaged after its certificate was made does not pass.
THEOREM DamagedDoesNotPass ==
  ASSUME MediaAreWellFormed, CertificatesAreStandard, CellsAreClosed
  PROVE  Spec => []PassedIsUndamaged
<1>1. Init => Inv
  BY InvInit
<1>2. Inv /\ [Next]_vars => Inv'
  BY InvNext
<1>3. Inv => PassedIsUndamaged
  BY InvPassed
<1> QED
  BY <1>1, <1>2, <1>3, PTL DEF Spec

-----------------------------------------------------------------------------
(* What was implanted is found.                                            *)

\* What was made is there: now, and when the checker parsed the descriptor.
ImplantIsFound ==
  "short write" \notin faults =>
    /\ implanted /\ damaged = {} => HasVolumeInfo(image, unreadable)
    /\ c_pc # "open" /\ begun.implanted /\ begun.damaged = {}
         => HasVolumeInfo(begun.image, unreadable)

LEMMA ImplantIsFoundNext ==
  ASSUME FieldsFit, CellsAreClosed, Inv, ImplantIsFound, [Next]_vars
  PROVE  ImplantIsFound'
<1> SUFFICES ASSUME "short write" \notin faults'
             PROVE  /\ implanted' /\ damaged' = {} => HasVolumeInfo(image', unreadable')
                    /\ c_pc' # "open" /\ begun'.implanted /\ begun'.damaged = {}
                         => HasVolumeInfo(begun'.image, unreadable')
  BY Zenon DEF ImplantIsFound
<1>1. CASE ImplantA
  <2>1. /\ UNCHANGED <<unreadable, faults, begun, c_pc>> /\ a_rc # 0
        /\ a_rc' # 0 => damaged' = damaged
        /\ a_rc' = 0 => Certified(image, image') /\ HasPrimary(image, unreadable)
    BY <1>1, ImplantAFacts, Zenon DEF checker
  <2>2. implanted' => a_rc' = 0 \/ (implanted /\ image' = image)
    BY <1>1, Zenon DEF ImplantA, Record
  <2> QED
    BY <2>1, <2>2, CertifiedIsFound, Zenon DEF ImplantIsFound, Inv
<1>2. CASE ImplantB
  <2>1. /\ UNCHANGED <<unreadable, faults, begun, c_pc>> /\ b_rc # 0
        /\ b_rc' # 0 => damaged' = damaged
        /\ b_rc' = 0 => Certified(image, image') /\ HasPrimary(image, unreadable)
    BY <1>2, ImplantBFacts, Zenon DEF checker
  <2>2. implanted' => b_rc' = 0 \/ (implanted /\ image' = image)
    BY <1>2, Zenon DEF ImplantB, Record
  <2> QED
    BY <2>1, <2>2, CertifiedIsFound, Zenon DEF ImplantIsFound, Inv
<1>3. CASE CrashA \/ CrashB
  <2>1. UNCHANGED <<image, unreadable, faults, damaged, implanted, begun, c_pc>>
    BY <1>3, CrashFacts, Zenon DEF CrashA, CrashB, history, checker
  <2> QED
    BY <2>1, Zenon DEF ImplantIsFound
<1>4. CASE Check
  <2>1. /\ UNCHANGED <<image, unreadable, faults, damaged, implanted>>
        /\ begun' = IF c_pc = "open" THEN marks ELSE begun
    BY <1>4, CheckFacts, Zenon
  <2>2. CASE c_pc = "open"
    <3>1. begun'.image = image /\ begun'.implanted = implanted /\ begun'.damaged = damaged
      BY <2>1, <2>2, Zenon DEF marks
    <3> QED
      BY <2>1, <3>1, Zenon DEF ImplantIsFound
  <2>3. CASE c_pc # "open"
    BY <2>1, <2>3, Zenon DEF ImplantIsFound
  <2> QED
    BY <2>2, <2>3, Zenon
<1>5. CASE Damage
  BY <1>5, DamageFacts, Zenon DEF ImplantIsFound
<1>6. CASE UNCHANGED vars
  BY <1>6, Zenon DEF vars, history, checker, ImplantIsFound
<1> QED
  BY <1>1, <1>2, <1>3, <1>4, <1>5, <1>6, Zenon DEF Next, AllReturned

\* What implantISOFD() wrote before it returned 0 is what parsepvd() finds,
\* however the steps interleave: a checker that finds no certificate checks a
\* medium where the last implant did not succeed, another has written since,
\* damage was done or a write was cut short.
THEOREM ImplantedIsFound ==
  ASSUME MediaAreWellFormed, CertificatesAreStandard, CellsAreClosed, FieldsFit
  PROVE  Spec => []SuccessIsFound
<1>1. Init => Inv /\ ImplantIsFound
  BY InvInit, Zenon DEF Init, Checker!Init, ImplantIsFound
<1>2. Inv /\ ImplantIsFound /\ [Next]_vars => Inv' /\ ImplantIsFound'
  BY InvNext, ImplantIsFoundNext
<1>3. Inv /\ ImplantIsFound => SuccessIsFound
  <2> SUFFICES ASSUME Inv, ImplantIsFound, c_rc = "CHECK_NOT_FOUND",
                      begun.implanted, begun.damaged = {}, "short write" \notin faults
               PROVE  FALSE
    BY Zenon DEF SuccessIsFound
  <2>1. c_pc = "done" /\ ~HasVolumeInfo(begun.image, unreadable)
    BY Zenon DEF Inv, CheckerWorks, seen
  <2> QED
    BY <2>1, Zenon DEF ImplantIsFound
<1> QED
  BY <1>1, <1>2, <1>3, PTL DEF Spec

-----------------------------------------------------------------------------
(* A medium that was not damaged is not condemned.                         *)

\* The one implanter, where it begins,
LEMMA ABegins ==
  ASSUME Inv, a_pc = "open"
  PROVE  AP!Inv
<1>1. /\ WellFormedImage(image, unreadable) /\ faults \subseteq A!Faults /\ AP!Working
  BY DEF Inv, Marked, ImplantersWork
<1>2. [image |-> image, unreadable |-> unreadable, faults |-> faults] \in Files
  BY <1>1, Zenon DEF Files, WellFormedImage
<1>3. \E m \in Files : image = m.image /\ unreadable = m.unreadable /\ faults = m.faults
  <2> WITNESS [image |-> image, unreadable |-> unreadable, faults |-> faults] \in Files
  <2> QED
    BY <1>2
<1>4. AP!Init
  BY <1>1, <1>3 DEF AP!Init, AP!Working, AP!NothingHashed, AP!Early
<1> QED
  BY <1>4, AAssumed, AP!InitInv

\* and when it reports success.
LEMMA ASucceeds ==
  ASSUME FieldsFit, UninitializedIsNoSum, Inv', AP!Inv', NoneShort', a_rc' = 0
  PROVE  Genuine(image', unreadable')
<1> DEFINE n == ReadablePart(image', unreadable')
<1>1. /\ WellFormedImage(image', unreadable')
      /\ a_request'.alg \in Algorithms
      /\ a_fragmentsums' \in Seq(Character)
  BY ASameCells DEF Inv, Marked, ImplantersWork, AP!Working, Anything
<1>2. CASE ~HasPrimary(image', unreadable')
  BY <1>2 DEF Genuine, HasVolumeInfo
<1>3. CASE HasPrimary(image', unreadable')
  <2>1. AP!DeviceIsWhole' /\ ~AP!MayBeShort' /\ AP!SuccessMeansImplanted'
    BY Zenon DEF NoneShort, AP!DeviceIsWhole, AP!MayBeShort, AP!Inv
  <2>2. AP!HoldsAppData'
    <3>1. AppDataStart(image') < Len(image')
      BY <1>1, <1>3, ReadableOf
    <3> QED
      BY <3>1, ASameVolume DEF AP!HoldsAppData
  <2>3. LET k == AP!ReadablePart(image', unreadable')
        IN  /\ image' = AP!WriteAt(image', AP!AppDataStart(image'),
                          AP!NewAppData(a_request'.alg, AP!HashSum(image', k, a_request'.alg),
                                        a_request'.supported, a_fragmentsums'))
            /\ a_fragmentsums' = AP!FragmentSums(image', k, a_request'.alg)
    BY <2>1, <2>2 DEF AP!SuccessMeansImplanted
  <2>4. /\ image' = WriteAt(image', AppDataStart(image'),
                       NewAppData(a_request'.alg, HashSum(image', n, a_request'.alg),
                                  a_request'.supported, a_fragmentsums'))
        /\ a_fragmentsums' = FragmentSums(image', n, a_request'.alg)
    <3>1. AP!ReadablePart(image', unreadable') = n
      BY ASameDigests
    <3>2. AP!AppDataStart(image') = AppDataStart(image')
      BY ASameVolume
    <3>3. /\ AP!HashSum(image', n, a_request'.alg) = HashSum(image', n, a_request'.alg)
          /\ AP!FragmentSums(image', n, a_request'.alg)
               = FragmentSums(image', n, a_request'.alg)
      BY ASameDigests
    <3>4. \A alg, sum, supported, sums :
            AP!NewAppData(alg, sum, supported, sums) = NewAppData(alg, sum, supported, sums)
      BY ASameWriting
    <3>5. \A cells : AP!WriteAt(image', AppDataStart(image'), cells)
                      = WriteAt(image', AppDataStart(image'), cells)
      BY ASameWriting, Zenon
    <3> HIDE DEF n
    <3> QED
      BY <2>3, <3>1, <3>2, <3>3, <3>4, <3>5
  <2>5. a_fragmentsums' # Uninitialized
    BY <1>1 DEF UninitializedIsNoSum
  <2> HIDE DEF n
  <2> QED
    BY <1>1, <2>4, <2>5, ImplantedIsGenuine DEF n
<1> QED
  BY <1>2, <1>3

\* The other implanter, where it begins,
LEMMA BBegins ==
  ASSUME Inv, b_pc = "open"
  PROVE  BP!Inv
<1>1. /\ WellFormedImage(image, unreadable) /\ faults \subseteq A!Faults /\ BP!Working
  BY DEF Inv, Marked, ImplantersWork
<1>2. [image |-> image, unreadable |-> unreadable, faults |-> faults] \in Files
  BY <1>1, Zenon DEF Files, WellFormedImage
<1>3. \E m \in Files : image = m.image /\ unreadable = m.unreadable /\ faults = m.faults
  <2> WITNESS [image |-> image, unreadable |-> unreadable, faults |-> faults] \in Files
  <2> QED
    BY <1>2
<1>4. BP!Init
  BY <1>1, <1>3 DEF BP!Init, BP!Working, BP!NothingHashed, BP!Early
<1> QED
  BY <1>4, BAssumed, BP!InitInv

\* and when it reports success.
LEMMA BSucceeds ==
  ASSUME FieldsFit, UninitializedIsNoSum, Inv', BP!Inv', NoneShort', b_rc' = 0
  PROVE  Genuine(image', unreadable')
<1> DEFINE n == ReadablePart(image', unreadable')
<1>1. /\ WellFormedImage(image', unreadable')
      /\ b_request'.alg \in Algorithms
      /\ b_fragmentsums' \in Seq(Character)
  BY BSameCells DEF Inv, Marked, ImplantersWork, BP!Working, Anything
<1>2. CASE ~HasPrimary(image', unreadable')
  BY <1>2 DEF Genuine, HasVolumeInfo
<1>3. CASE HasPrimary(image', unreadable')
  <2>1. BP!DeviceIsWhole' /\ ~BP!MayBeShort' /\ BP!SuccessMeansImplanted'
    BY Zenon DEF NoneShort, BP!DeviceIsWhole, BP!MayBeShort, BP!Inv
  <2>2. BP!HoldsAppData'
    <3>1. AppDataStart(image') < Len(image')
      BY <1>1, <1>3, ReadableOf
    <3> QED
      BY <3>1, BSameVolume DEF BP!HoldsAppData
  <2>3. LET k == BP!ReadablePart(image', unreadable')
        IN  /\ image' = BP!WriteAt(image', BP!AppDataStart(image'),
                          BP!NewAppData(b_request'.alg, BP!HashSum(image', k, b_request'.alg),
                                        b_request'.supported, b_fragmentsums'))
            /\ b_fragmentsums' = BP!FragmentSums(image', k, b_request'.alg)
    BY <2>1, <2>2 DEF BP!SuccessMeansImplanted
  <2>4. /\ image' = WriteAt(image', AppDataStart(image'),
                       NewAppData(b_request'.alg, HashSum(image', n, b_request'.alg),
                                  b_request'.supported, b_fragmentsums'))
        /\ b_fragmentsums' = FragmentSums(image', n, b_request'.alg)
    <3>1. BP!ReadablePart(image', unreadable') = n
      BY BSameDigests
    <3>2. BP!AppDataStart(image') = AppDataStart(image')
      BY BSameVolume
    <3>3. /\ BP!HashSum(image', n, b_request'.alg) = HashSum(image', n, b_request'.alg)
          /\ BP!FragmentSums(image', n, b_request'.alg)
               = FragmentSums(image', n, b_request'.alg)
      BY BSameDigests
    <3>4. \A alg, sum, supported, sums :
            BP!NewAppData(alg, sum, supported, sums) = NewAppData(alg, sum, supported, sums)
      BY BSameWriting
    <3>5. \A cells : BP!WriteAt(image', AppDataStart(image'), cells)
                      = WriteAt(image', AppDataStart(image'), cells)
      BY BSameWriting, Zenon
    <3> HIDE DEF n
    <3> QED
      BY <2>3, <3>1, <3>2, <3>3, <3>4, <3>5
  <2>5. b_fragmentsums' # Uninitialized
    BY <1>1 DEF UninitializedIsNoSum
  <2> HIDE DEF n
  <2> QED
    BY <1>1, <2>4, <2>5, ImplantedIsGenuine DEF n
<1> QED
  BY <1>2, <1>3

\* As long as no two implanters were at work at the same time, one that is
\* works as if it were the only one, and the certificate is genuine; it was
\* when the checker parsed the descriptor.
Alone ==
  /\ ~overlapped => ~AtWork(a_pc) \/ ~AtWork(b_pc)
  /\ ~overlapped /\ NoneShort =>
       /\ AtWork(a_pc) => AP!Inv
       /\ AtWork(b_pc) => BP!Inv
       /\ damaged = {} => Genuine(image, unreadable)
  /\ c_pc # "open" /\ ~begun.overlapped /\ NoneShort /\ begun.damaged = {}
       => Genuine(begun.image, unreadable)

\* Where nothing changes but the states of the implanters.
LEMMA AloneInitially ==
  ASSUME CertificatesAreGenuine, Init
  PROVE  Alone /\ Judges
BY DEF CertificatesAreGenuine, Init, A!Init, B!Init, Checker!Init, AtWork, Alone, Judges

LEMMA AloneA ==
  ASSUME CellsAreClosed, FieldsFit, UninitializedIsNoSum, Inv, Alone, ImplantA
  PROVE  Alone'
<1>1. /\ Inv' /\ UNCHANGED <<unreadable, faults, b, checker, begun>>
      /\ a_rc # 0
      /\ a_rc' # 0 => (image' = image \/ Erased(image, image')) /\ damaged' = damaged
      /\ image' # image \/ a_rc' = 0 => HasPrimary(image, unreadable) /\ AtWork(a_pc)
  BY ImplantAFacts
<1>2. /\ A!Step
      /\ overlapped' = (overlapped \/ (AtWork(a_pc') /\ AtWork(b_pc')))
  BY DEF ImplantA, Record
<1>3. ~overlapped' => ~overlapped /\ (~AtWork(a_pc') \/ ~AtWork(b_pc'))
  BY <1>2, Zenon
<1>4. ASSUME c_pc' # "open", ~begun'.overlapped, NoneShort', begun'.damaged = {}
      PROVE  Genuine(begun'.image, unreadable')
  BY <1>1, <1>4, Zenon DEF Alone, checker, NoneShort
<1>5. ASSUME ~overlapped', NoneShort'
      PROVE  /\ AtWork(a_pc') => AP!Inv'
             /\ AtWork(b_pc') => BP!Inv'
             /\ damaged' = {} => Genuine(image', unreadable')
  <2>1. /\ ~overlapped /\ NoneShort
        /\ AtWork(a_pc) => AP!Inv
        /\ AtWork(b_pc) => BP!Inv /\ ~AtWork(a_pc)
        /\ damaged = {} => Genuine(image, unreadable)
    BY <1>1, <1>3, <1>5, Zenon DEF Alone, NoneShort
  <2>2. AP!Inv'
    <3>1. AP!Inv
      <4>1. a_pc # "done"
        BY <1>2, Zenon DEF A!Step, A!OpenFails, A!NoVolume, A!FindVolume, A!AppDataUnreadable,
           A!ReadAppData, A!Erase, A!HashBlock, A!EndOfVolume, A!WriteCertificate
      <4> QED
        BY <2>1, <4>1, ABegins DEF AtWork
    <3> QED
      BY <1>2, <3>1, AGoesOn
  <2>3. AtWork(b_pc') => BP!Inv'
    <3> SUFFICES ASSUME AtWork(b_pc')
                 PROVE  BP!Inv'
      OBVIOUS
    <3>1. b_pc' = b_pc
      BY <1>1 DEF b
    <3>2. BP!Inv /\ image' = image
      BY <1>1, <2>1, <3>1
    <3> QED
      BY <1>1, <3>2, BGoesOn
  <2>4. damaged' = {} => Genuine(image', unreadable')
    <3>1. CASE a_rc' = 0
      BY <1>1, <1>5, <2>2, <3>1, ASucceeds
    <3>2. CASE a_rc' # 0 /\ image' = image
      BY <1>1, <2>1, <3>2
    <3>3. CASE a_rc' # 0 /\ image' # image
      BY <1>1, <2>1, <3>3, ErasedIsGenuine DEF Inv, Marked
    <3> QED
      BY <3>1, <3>2, <3>3
  <2> QED
    BY <2>2, <2>3, <2>4
<1> QED
  BY <1>3, <1>4, <1>5 DEF Alone

LEMMA AloneB ==
  ASSUME CellsAreClosed, FieldsFit, UninitializedIsNoSum, Inv, Alone, ImplantB
  PROVE  Alone'
<1>1. /\ Inv' /\ UNCHANGED <<unreadable, faults, a, checker, begun>>
      /\ b_rc # 0
      /\ b_rc' # 0 => (image' = image \/ Erased(image, image')) /\ damaged' = damaged
      /\ image' # image \/ b_rc' = 0 => HasPrimary(image, unreadable) /\ AtWork(b_pc)
  BY ImplantBFacts
<1>2. /\ B!Step
      /\ overlapped' = (overlapped \/ (AtWork(a_pc') /\ AtWork(b_pc')))
  BY DEF ImplantB, Record
<1>3. ~overlapped' => ~overlapped /\ (~AtWork(a_pc') \/ ~AtWork(b_pc'))
  BY <1>2, Zenon
<1>4. ASSUME c_pc' # "open", ~begun'.overlapped, NoneShort', begun'.damaged = {}
      PROVE  Genuine(begun'.image, unreadable')
  BY <1>1, <1>4, Zenon DEF Alone, checker, NoneShort
<1>5. ASSUME ~overlapped', NoneShort'
      PROVE  /\ AtWork(a_pc') => AP!Inv'
             /\ AtWork(b_pc') => BP!Inv'
             /\ damaged' = {} => Genuine(image', unreadable')
  <2>1. /\ ~overlapped /\ NoneShort
        /\ AtWork(b_pc) => BP!Inv
        /\ AtWork(a_pc) => AP!Inv /\ ~AtWork(b_pc)
        /\ damaged = {} => Genuine(image, unreadable)
    BY <1>1, <1>3, <1>5, Zenon DEF Alone, NoneShort
  <2>2. BP!Inv'
    <3>1. BP!Inv
      <4>1. b_pc # "done"
        BY <1>2, Zenon DEF B!Step, B!OpenFails, B!NoVolume, B!FindVolume, B!AppDataUnreadable,
           B!ReadAppData, B!Erase, B!HashBlock, B!EndOfVolume, B!WriteCertificate
      <4> QED
        BY <2>1, <4>1, BBegins DEF AtWork
    <3> QED
      BY <1>2, <3>1, BGoesOn
  <2>3. AtWork(a_pc') => AP!Inv'
    <3> SUFFICES ASSUME AtWork(a_pc')
                 PROVE  AP!Inv'
      OBVIOUS
    <3>1. a_pc' = a_pc
      BY <1>1 DEF a
    <3>2. AP!Inv /\ image' = image
      BY <1>1, <2>1, <3>1
    <3> QED
      BY <1>1, <3>2, AGoesOn
  <2>4. damaged' = {} => Genuine(image', unreadable')
    <3>1. CASE b_rc' = 0
      BY <1>1, <1>5, <2>2, <3>1, BSucceeds
    <3>2. CASE b_rc' # 0 /\ image' = image
      BY <1>1, <2>1, <3>2
    <3>3. CASE b_rc' # 0 /\ image' # image
      BY <1>1, <2>1, <3>3, ErasedIsGenuine DEF Inv, Marked
    <3> QED
      BY <3>1, <3>2, <3>3
  <2> QED
    BY <2>2, <2>3, <2>4
<1> QED
  BY <1>3, <1>4, <1>5 DEF Alone

\* Where an implanter is killed, or nothing changes,
LEMMA AloneCrash ==
  ASSUME CellsAreClosed, Inv, Alone, CrashA \/ CrashB \/ UNCHANGED vars
  PROVE  Alone'
<1>1. /\ UNCHANGED <<image, unreadable, faults, damaged, overlapped, begun, c_pc>>
      /\ a_pc' \in {a_pc, "done"}
      /\ b_pc' \in {b_pc, "done"}
      /\ A!Crash \/ UNCHANGED a
      /\ B!Crash \/ UNCHANGED b
  BY DEF CrashA, CrashB, A!Crash, B!Crash, a, b, history, checker, vars
<1>2. AP!Inv => AP!Inv'
  BY <1>1, AGoesOn
<1>3. BP!Inv => BP!Inv'
  BY <1>1, BGoesOn
<1>4. (AtWork(a_pc') => AtWork(a_pc)) /\ (AtWork(b_pc') => AtWork(b_pc))
  BY <1>1 DEF AtWork
<1> QED
  BY <1>1, <1>2, <1>3, <1>4, Zenon DEF Alone, NoneShort

\* where the checker goes on,
LEMMA AloneCheck ==
  ASSUME Inv, Alone, Check
  PROVE  Alone'
<1>1. /\ UNCHANGED <<image, unreadable, faults, a, b, damaged, overlapped>>
      /\ begun' = IF c_pc = "open" THEN marks ELSE begun
  BY CheckFacts
<1>2. (AP!Inv => AP!Inv') /\ (BP!Inv => BP!Inv')
  BY <1>1, AGoesOn, BGoesOn
<1>3. a_pc' = a_pc /\ b_pc' = b_pc
  BY <1>1 DEF a, b
<1> QED
  BY <1>1, <1>2, <1>3, Zenon DEF Alone, NoneShort, marks

\* and where the medium is damaged.
LEMMA AloneDamage ==
  ASSUME CellsAreClosed, Inv, Alone, Damage
  PROVE  Alone'
<1>1. /\ damaged' # {} /\ c_pc' = "open" /\ UNCHANGED <<faults, a, b, overlapped>>
  BY DamageFacts
<1>2. ~AtWork(a_pc') /\ ~AtWork(b_pc')
  BY <1>1 DEF Damage, a, b
<1> QED
  BY <1>1, <1>2 DEF Alone

\* Every step keeps it.
LEMMA AloneNext ==
  ASSUME CellsAreClosed, FieldsFit, UninitializedIsNoSum, Inv, Alone, [Next]_vars
  PROVE  Alone'
BY AloneA, AloneB, AloneCrash, AloneCheck, AloneDamage DEF Next, AllReturned

\* When it begins.
LEMMA CheckerBeginsRight ==
  ASSUME Inv, c_pc = "open", Genuine(image, unreadable), WideFragments(image),
         c_previous_fragment = 0
  PROVE  CP!OnMedium /\ CP!InStep /\ CP!CorrectChecksumPasses
<1>1. /\ seen = image /\ c_offset = 0 /\ c_rc = "none"
      /\ WellFormedImage(image, unreadable) /\ FieldsAreStandard(image)
  BY DEF seen, Inv, CheckerWorks, Marked
<1>2. [image |-> image, unreadable |-> unreadable] \in CheckedMedia
  BY <1>1, Zenon DEF CheckedMedia, WellFormedImage
<1>3. \E m \in CheckedMedia : seen = m.image /\ unreadable = m.unreadable
  <2> WITNESS [image |-> image, unreadable |-> unreadable] \in CheckedMedia
  <2> QED
    BY <1>1
<1> QED
  BY <1>1, <1>3 DEF CP!OnMedium, CP!InStep, CP!CorrectChecksumPasses, CP!Loop

LEMMA JudgesNext ==
  ASSUME CellsAreClosed, Inv, Alone, Judges, [Next]_vars
  PROVE  Judges'
<1>1. CASE Check
  <2>1. /\ CP!Inv /\ [CP!Next]_CP!vars /\ seen' = seen
        /\ UNCHANGED <<image, unreadable, faults>>
        /\ begun' = IF c_pc = "open" THEN marks ELSE begun
    BY <1>1, CheckFacts
  <2> SUFFICES ASSUME ~begun'.overlapped, NoneShort', begun'.damaged = {},
                      WideFragments(begun'.image)
               PROVE  CP!OnMedium /\ CP!InStep /\ CP!CorrectChecksumPasses
    BY <2>1, CheckerIsRight DEF Judges
  <2>2. NoneShort
    BY <2>1, Zenon DEF NoneShort
  <2>3. CASE c_pc = "open"
    <3>1. /\ ~overlapped /\ damaged = {} /\ WideFragments(image)
      BY <2>1, <2>3 DEF marks
    <3>2. Genuine(image, unreadable) /\ c_previous_fragment = 0
      BY <2>2, <2>3, <3>1 DEF Alone, Inv, CheckerWorks
    <3> QED
      BY <2>3, <3>1, <3>2, CheckerBeginsRight
  <2>4. CASE c_pc # "open"
    BY <2>1, <2>2, <2>4 DEF Judges
  <2> QED
    BY <2>3, <2>4
<1>2. CASE ~Check
  <2>1. SameOutside(image, image') \/ c_pc' = "open"
    <3>1. UNCHANGED vars => image' = image
      BY DEF vars
    <3> QED
      BY <1>2, <3>1, SameOutsideItself, ImplantAFacts, ImplantBFacts, CrashFacts, DamageFacts
      DEF Next, AllReturned
  <2>2. UNCHANGED <<unreadable, faults, checker, begun>>
    <3>1. UNCHANGED vars => UNCHANGED <<unreadable, faults, checker, begun>>
      BY DEF vars, history
    <3> QED
      BY <1>2, <3>1, ImplantAFacts, ImplantBFacts, CrashFacts, DamageFacts
      DEF Next, AllReturned
  <2> SUFFICES ASSUME c_pc' # "open", ~begun'.overlapped, NoneShort', begun'.damaged = {},
                      WideFragments(begun'.image)
               PROVE  CP!OnMedium' /\ CP!InStep' /\ CP!CorrectChecksumPasses'
    BY DEF Judges
  <2>3. c_pc # "open" /\ NoneShort
    BY <2>2, Zenon DEF checker, NoneShort
  <2>4. UNCHANGED CP!vars
    BY <2>1, <2>2, <2>3, CheckerSeesOn
  <2>5. CP!Inv /\ CP!OnMedium /\ CP!InStep /\ CP!CorrectChecksumPasses
    BY <2>2, <2>3 DEF Judges, Inv, CheckerWorks
  <2> QED
    BY <2>4, <2>5, CheckerIsRight
<1> QED
  BY <1>1, <1>2

LEMMA JudgesRightly ==
  ASSUME Inv, Alone, Judges
  PROVE  UndamagedIsNotCondemned
<1> SUFFICES ASSUME c_rc = "CHECK_FAILED", begun.damaged = {}, ~begun.overlapped,
                    NoneShort, WideFragments(image)
             PROVE  FALSE
  BY Zenon DEF UndamagedIsNotCondemned, NoneShort
<1>1. /\ c_pc = "done" /\ HasVolumeInfo(seen, unreadable)
      /\ Marked(begun.image, begun.damaged) /\ SameOutside(begun.image, image)
      /\ seen = begun.image
  BY DEF Inv, CheckerWorks, seen
<1>2. WellFormedImage(seen, unreadable) /\ FieldsAreStandard(seen) /\ Genuine(seen, unreadable)
  BY <1>1 DEF Marked, Alone
<1>3. WideFragments(seen)
  <2>1. isosize(image) = isosize(seen)
    BY <1>1, <1>2, ReadableOf, SameVolume DEF HasVolumeInfo
  <2> QED
    BY <2>1 DEF WideFragments, FragmentSize, VolumeSize
<1>4. CP!CorrectChecksumPasses
  BY <1>1, <1>3 DEF Judges
<1>5. ~CP!ChecksumIsCorrect
  BY <1>4 DEF CP!CorrectChecksumPasses
<1>6. VolumeInfo(seen).hashsum
        = HashSum(seen, ReadablePart(seen, unreadable), VolumeInfo(seen).algorithm)
  BY <1>1, <1>2 DEF Genuine
<1> QED
  BY <1>1, <1>2, <1>5, <1>6, ChecksumIs

\* checkisomd5.1: "Program returns exit status 0 if the checksum is correct".
\* Whatever layout, media and damage, and however the steps of the check
\* interleave with those of the implanters, of which any may be killed or fail
\* to write: a medium that was not damaged since its certificate was made is
\* not condemned, but where two implanters had been at work at once, a read or
\* a write was short, or the fragments are narrow.
THEOREM UndamagedPasses ==
  ASSUME MediaAreWellFormed, CertificatesAreStandard, CertificatesAreGenuine,
         CellsAreClosed, FieldsFit, UninitializedIsNoSum
  PROVE  Spec => []UndamagedIsNotCondemned
<1>1. Init => Inv /\ Alone /\ Judges
  BY InvInit, AloneInitially
<1>2. Inv /\ Alone /\ Judges /\ [Next]_vars => Inv' /\ Alone' /\ Judges'
  BY InvNext, AloneNext, JudgesNext
<1>3. Inv /\ Alone /\ Judges => UndamagedIsNotCondemned
  BY JudgesRightly
<1> QED
  BY <1>1, <1>2, <1>3, PTL DEF Spec
=============================================================================
