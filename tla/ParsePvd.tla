------------------------------ MODULE ParsePvd ------------------------------
(***************************************************************************)
(* parsepvd() of utilities.c on the characters of the application data:     *)
(* after the search for the descriptor, one round of its loop a step.  The *)
(* modules of the tools take its result from AppData, where a field is one *)
(* cell; here it is what the characters lead to, also where a field was    *)
(* torn, cut or damaged.                                                   *)
(*                                                                         *)
(* A character is a cell, and so is the text of a tag up to its value:     *)
(*   <<"ISO MD5SUM">>   "ISO MD5SUM = "                                    *)
(*   <<"digit", d>>     a digit                                            *)
(*   <<";">>, <<" ">>   a semicolon, a blank; any other is of a hash or of *)
(*                      no meaning                                         *)
(***************************************************************************)
EXTENDS VolumeScan

LOCAL INSTANCE SequencesExt

CONSTANTS
  HASH_SIZE,     \* characters of a SHA-256 digest (64)
  MD5_HASH_SIZE, \* characters of an MD5 digest (32)
  Certificates   \* texts as the implanters write them

VARIABLES
  buffer,  \* the characters of the application data
  index,   \* where the loop is in them
  task,    \* the tasks that are completed
  volinfo, \* the struct volume_info
  parsed   \* "NULL" or "volume_info" when parsepvd() has returned

parsing == <<buffer, index, task, volinfo, parsed>>

parsevars == <<vars, parsing>>

\* What is past the end of the buffer, which is no content of any medium.
Beyond == <<"beyond">>

\* The hashsum of a volume_info has room for the longer of the two digests.
ASSUME ParseAssumption ==
  /\ HASH_SIZE \in Nat /\ MD5_HASH_SIZE \in 0 .. HASH_SIZE
  /\ \A m \in Media : \A i \in DOMAIN m.image : m.image[i] # Beyond
  /\ \A text \in Certificates : text \in Seq(Cell) /\ Len(text) <= APPDATA_SIZE

Semicolon == <<";">>

NUL == <<"NUL">>

Digits == {<<"digit", d>> : d \in 0 .. 9}

ParseInit ==
  /\ Init
  /\ buffer = <<>>
  /\ index = 0
  /\ task = {}
  /\ volinfo = Uninitialized
  /\ parsed = "none"

-----------------------------------------------------------------------------

HashSize(alg) == IF alg = "SHA256" THEN HASH_SIZE ELSE MD5_HASH_SIZE

\* The first place from i on that the buffer has a character in S, or its end.
NextOf(S, i) ==
  LET places == {j \in i .. (Len(buffer) - 1) : buffer[j + 1] \in S} \cup {MAX(i, Len(buffer))}
  IN  CHOOSE j \in places : \A k \in places : j <= k

ToSemicolon(i) == NextOf({Semicolon}, i)

\* The n characters at i; those past the buffer are memory of no meaning.
Copied(i, n) ==
  [k \in 1 .. n |-> IF i + k <= APPDATA_SIZE THEN buffer[i + k] ELSE Beyond]

DecimalValue(digits) == FoldLeft(LAMBDA value, digit : 10 * value + digit[2], 0, digits)

\* What matches_number() takes from i up to the next semicolon or NUL, by
\* strtol(): the number after any blanks, and whether it is all that is there.
\* An empty string is the number 0.
NumberAt(i) ==
  LET Others(S) == {buffer[k] : k \in DOMAIN buffer} \ S
      first == NextOf(Others({Space}), i)
      last  == NextOf(Others(Digits), first)
      end   == NextOf({Semicolon, NUL}, i)
  IN  [value |-> DecimalValue(SubSeq(buffer, first + 1, last)),
       whole |-> end = i \/ (first < last /\ last = end)]

-----------------------------------------------------------------------------

\* read_primary_volume_descriptor()
Scan ==
  /\ SeekFails \/ SkipSystemArea \/ ReadFails \/ ReadSector
  /\ UNCHANGED parsing

NoDescriptor ==
  /\ result = "NULL"
  /\ parsed = "none"
  /\ parsed' = "NULL"
  /\ UNCHANGED <<vars, buffer, index, task, volinfo>>

\* The application data is copied, but for its last character, and the
\* volume_info gets its defaults.
BeginParse ==
  /\ result = "found"
  /\ buffer = <<>>
  /\ buffer' = [i \in 1 .. APPDATA_SIZE |->
                  IF i = APPDATA_SIZE THEN NUL ELSE sector_buffer[APPDATA_OFFSET + i]]
  /\ volinfo' = [hashsum |-> Uninitialized, algorithm |-> "MD5",
                 skipsectors |-> SKIPSECTORS, supported |-> 0,
                 fragmentsums |-> Uninitialized, fragmentcount |-> FRAGMENT_COUNT,
                 offset |-> nbyte,
                 isosize |-> SECTOR_SIZE * sector_buffer[SIZE_OFFSET + 1][2]]
  /\ UNCHANGED <<vars, index, task, parsed>>

\* The loop is at a character that begins with the tag, or with none.  (The
\* last is the NUL, so a tag has at least that behind it.)
Parsing == parsed = "none" /\ index < Len(buffer) /\ task # TASK_DONE

At(tag) == Parsing /\ buffer[index + 1] = <<tag>>

\* The round ends with the character at i passed over: a semicolon, if all is
\* right.
NextRound(i, tasks) ==
  /\ index' = i + 1
  /\ task' = tasks
  /\ UNCHANGED <<vars, buffer, parsed>>

Fail ==
  /\ parsed' = "NULL"
  /\ UNCHANGED <<vars, buffer, index, task, volinfo>>

\* (Mutant first: the size of the hash is forgotten.)
HashFits_Begins(start, size) == start < APPDATA_SIZE

HashFits(start, size) == start + size < APPDATA_SIZE

\* (Mutant first: a second hash is read by the first one's algorithm.)
ReadHash_KeepsAlgorithm(alg) ==
  LET start == index + 1
      size  == HashSize(alg)
  IN  /\ At(HashTag(alg))
      /\ HashFits(start, size)
      /\ volinfo' = [volinfo EXCEPT
                       !.hashsum = Copied(start, size),
                       !.algorithm = IF alg = "MD5" THEN volinfo.algorithm ELSE alg]
      /\ NextRound(ToSemicolon(start + size), task \cup {"TASK_HASH"})

\* The hash is what follows its tag, whatever that is.
ReadHash(alg) ==
  LET start == index + 1
      size  == HashSize(alg)
  IN  /\ At(HashTag(alg))
      /\ \/ /\ ~HashFits(start, size)
            /\ Fail
         \/ /\ HashFits(start, size)
            /\ volinfo' = [volinfo EXCEPT !.hashsum = Copied(start, size), !.algorithm = alg]
            /\ NextRound(ToSemicolon(start + size), task \cup {"TASK_HASH"})

\* (Mutant first: the end of the area will do for a semicolon.)
ReadSkipSectors_ToTheEnd ==
  LET number == NumberAt(index + 1)
  IN  /\ At("SKIPSECTORS")
      /\ volinfo' = [volinfo EXCEPT !.skipsectors = number.value]
      /\ NextRound(ToSemicolon(index + 1), task \cup {"TASK_SKIP"})

\* The number is stored also where it is followed by something else and so is
\* none.  It must end in a semicolon.
ReadSkipSectors ==
  LET number == NumberAt(index + 1)
      end    == ToSemicolon(index + 1)
  IN  /\ At("SKIPSECTORS")
      /\ \/ /\ number.whole /\ end >= APPDATA_SIZE
            /\ Fail
         \/ /\ number.whole /\ end < APPDATA_SIZE
            /\ volinfo' = [volinfo EXCEPT !.skipsectors = number.value]
            /\ NextRound(end, task \cup {"TASK_SKIP"})
         \/ /\ ~number.whole
            /\ volinfo' = [volinfo EXCEPT !.skipsectors = number.value]
            /\ NextRound(index, task)

\* The same for the other numbers, which may end with the area.
ReadNumber(tag, field) ==
  LET number == NumberAt(index + 1)
  IN  /\ At(tag)
      /\ volinfo' = [volinfo EXCEPT ![field] = number.value]
      /\ IF number.whole
         THEN NextRound(ToSemicolon(index + 1), task \cup {TaskOf[tag]})
         ELSE NextRound(index, task)

ReadSupported == ReadNumber("RHLISOSTATUS", "supported")

ReadFragmentCount == ReadNumber("FRAGMENT COUNT", "fragmentcount")

\* The sums are all up to the semicolon, but no more than there is room for.
ReadFragmentSums ==
  LET start    == index + 1
      frag_len == MIN(ToSemicolon(start) - start, FRAGMENT_SUM_SIZE)
  IN  /\ At("FRAGMENT SUMS")
      /\ \/ /\ start + frag_len >= APPDATA_SIZE
            /\ Fail
         \/ /\ start + frag_len < APPDATA_SIZE
            /\ volinfo' = [volinfo EXCEPT !.fragmentsums = Copied(start, frag_len)]
            /\ NextRound(ToSemicolon(start + frag_len), task \cup {"TASK_FRAGSUM"})

\* (Mutant first: the loop stays at what it does not know.)
PassOver_Stays ==
  /\ Parsing
  /\ buffer[index + 1] \notin {<<tag>> : tag \in DOMAIN TaskOf}
  /\ NextRound(index - 1, task)
  /\ UNCHANGED volinfo

PassOver ==
  /\ Parsing
  /\ buffer[index + 1] \notin {<<tag>> : tag \in DOMAIN TaskOf}
  /\ NextRound(index, task)
  /\ UNCHANGED volinfo

\* The loop has ended.  The tasks are bits, and a hash and the number of
\* sectors are the two highest: task < TASK_SKIP + TASK_HASH if one is missing.
EndParse ==
  /\ parsed = "none"
  /\ buffer # <<>>
  /\ index >= APPDATA_SIZE \/ task = TASK_DONE
  /\ parsed' = IF {"TASK_HASH", "TASK_SKIP"} \subseteq task THEN "volume_info" ELSE "NULL"
  /\ UNCHANGED <<vars, buffer, index, task, volinfo>>

ParseReturned == parsed # "none" /\ UNCHANGED parsevars

ParseNext ==
  \/ Scan
  \/ NoDescriptor
  \/ BeginParse
  \/ \E alg \in Algorithms : ReadHash(alg)
  \/ ReadSkipSectors
  \/ ReadSupported
  \/ ReadFragmentCount
  \/ ReadFragmentSums
  \/ PassOver
  \/ EndParse
  \/ ParseReturned

\* parsepvd() is sequential, and all it waits for are the reads of the search.
ParseSpec == ParseInit /\ [][ParseNext]_parsevars /\ WF_parsevars(ParseNext)

-----------------------------------------------------------------------------

\* The types of the variables, and that nothing is copied from past the end
\* of the buffer, or to more than there is room for.
ParseTypeOK ==
  /\ TypeOK
  /\ index \in 0 .. (APPDATA_SIZE + 1)
  /\ task \subseteq TASK_DONE
  /\ parsed \in {"none", "NULL", "volume_info"}
  /\ volinfo # Uninitialized /\ volinfo.hashsum # Uninitialized =>
       /\ Len(volinfo.hashsum) <= HASH_SIZE
       /\ \A i \in DOMAIN volinfo.hashsum : volinfo.hashsum[i] # Beyond
  /\ volinfo # Uninitialized /\ volinfo.fragmentsums # Uninitialized =>
       /\ Len(volinfo.fragmentsums) <= FRAGMENT_SUM_SIZE
       /\ \A i \in DOMAIN volinfo.fragmentsums : volinfo.fragmentsums[i] # Beyond

-----------------------------------------------------------------------------
(* The application data as fields, the way AppData has it.                 *)

IsTag(cell) == cell \in {<<tag>> : tag \in DOMAIN TaskOf}

\* What follows the tag at i up to the next semicolon.
ValueAt(text, i) ==
  LET ends == {j \in (i + 1) .. Len(text) : text[j] = Semicolon} \cup {Len(text) + 1}
  IN  SubSeq(text, i + 1, (CHOOSE j \in ends : \A k \in ends : j <= k) - 1)

\* The field at i is one that an implanter could have written: of its size,
\* ended by a semicolon before the last character, with no tag in it.
WellFormedField(text, i) ==
  LET tag   == text[i][1]
      value == ValueAt(text, i)
      end   == i + Len(value) + 1
  IN  /\ end < APPDATA_SIZE
      /\ \A j \in DOMAIN value : ~IsTag(value[j]) /\ value[j] \notin {Space, NUL}
      /\ CASE tag = "ISO SHA256SUM" -> Len(value) = HASH_SIZE
           [] tag = "ISO MD5SUM" -> Len(value) = MD5_HASH_SIZE
           [] tag = "FRAGMENT SUMS" -> Len(value) <= FRAGMENT_SUM_SIZE
           [] OTHER -> value \in Seq(Digits) /\ value # <<>>

\* Every tag begins such a field.
WellFormed(text) ==
  \A i \in DOMAIN text : IsTag(text[i]) => WellFormedField(text, i)

\* The cell of AppData for the field whose tag is at i.
FieldCell(text, i) ==
  LET tag == text[i][1]
  IN  <<tag, IF tag \in {"ISO SHA256SUM", "ISO MD5SUM", "FRAGMENT SUMS"}
             THEN ValueAt(text, i) ELSE DecimalValue(ValueAt(text, i))>>

\* The image with one cell for each field of its application data.
AsFields ==
  LET text == AppDataOf(image)
  IN  WriteAt(image, AppDataStart(image),
              [i \in DOMAIN text |-> IF IsTag(text[i]) THEN FieldCell(text, i) ELSE Space])

\* utilities.c: "Find the primary volume descriptor and return parsed
\* information from it."  From text of whole fields, in any order, with any of
\* them missing or repeated, the loop takes what AppData says of the fields.
ParsesFields ==
  parsed # "none" /\ buffer # <<>> /\ WellFormed(AppDataOf(image)) =>
    /\ (parsed = "volume_info") = HasVolumeInfo(AsFields, unreadable)
    /\ parsed = "volume_info" => volinfo = VolumeInfo(AsFields)

\* A text of which only the first n characters were written over the blanks.
Torn(text, n) ==
  [i \in 1 .. APPDATA_SIZE |-> IF i <= n /\ i <= Len(text) THEN text[i] ELSE Space]

\* The value of the first field with the tag.
FirstValue(text, tag) ==
  ValueAt(text, CHOOSE i \in DOMAIN text :
                  text[i] = <<tag>> /\ \A j \in 1 .. (i - 1) : text[j] # <<tag>>)

\* What the implanters write has one hash and, behind it, one number of
\* sectors, each a whole field.
WholeCertificate(text) ==
  \E h, s \in DOMAIN text :
    /\ h < s
    /\ {i \in DOMAIN text : text[i] \in {<<HashTag(alg)>> : alg \in Algorithms}} = {h}
    /\ {i \in DOMAIN text : text[i] = <<"SKIPSECTORS">>} = {s}
    /\ \A i \in {h, s} : WellFormedField(text, i) /\ i + Len(ValueAt(text, i)) < Len(text)

\* A certificate of which only a part was written, to whatever character, is
\* not taken for one, or the hash, its algorithm and the number of sectors
\* that are taken from it are those of the whole: only what a pass does not
\* rest on may be wrong.
TornIsNotMisread ==
  parsed = "volume_info" =>
    \A text \in Certificates :
      (\E n \in 0 .. Len(text) : AppDataOf(image) = Torn(text, n)) =>
        /\ volinfo.hashsum = FirstValue(text, HashTag(volinfo.algorithm))
        /\ volinfo.skipsectors = DecimalValue(FirstValue(text, "SKIPSECTORS"))

\* parsepvd() returns.
ParseTerminates == <>(parsed # "none")
=============================================================================
