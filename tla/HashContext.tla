----------------------------- MODULE HashContext -----------------------------
(***************************************************************************)
(* The contexts of md5.c and sha256.c: how Init, Update and Final cut a    *)
(* message, given in pieces of any length, into blocks for the compression *)
(* function, count its bits in two words and pad it, and how               *)
(* validate_fragment() pads a copy on the way.  The compression is not     *)
(* modelled; a digest is as good as the blocks it is computed from.        *)
(* The other modules take digests to be equal only for equal messages:     *)
(* here that is what the blocks must bear out.                             *)
(*                                                                         *)
(* A block is BLOCK cells.  The last two are the words of the message      *)
(* length, which take four bytes each in the code.                         *)
(***************************************************************************)
EXTENDS Integers, SequencesExt

CONSTANTS
  BLOCK,        \* cells in a block (64 bytes)
  BITS,         \* bits in a byte (8)
  WORD,         \* how many values a uint32 has
  Byte,         \* the bytes of messages, 0x80 and 0 among them
  PieceLengths, \* the lengths of the pieces a message is given in
  MaxLength     \* the length of the longest message

VARIABLES
  alg,     \* "MD5" or "SHA256"
  message, \* history: all that was given to Update
  count,   \* ctx->bits or ctx->count: two words
  buffer,  \* ctx->in or ctx->buffer
  blocks,  \* the blocks that were compressed
  copy,    \* the blocks that the copy of validate_fragment() has compressed
  pc       \* "open" until Final, but "fragment" in validate_fragment()

context == <<count, buffer, blocks>>

vars == <<alg, message, context, copy, pc>>

Pad80 == 128
Zero == 0

\* Stack memory.
Unwritten == 256

LENGTH_CELLS == 2

ASSUME ContextAssumption ==
  /\ BITS \in Nat \ {0}
  /\ BLOCK \in Nat
  /\ BLOCK > LENGTH_CELLS
  /\ WORD \in Nat \ {0}
  /\ WORD % (BITS * BLOCK) = 0
  /\ {Pad80, Zero} \subseteq Byte
  /\ Byte \subseteq 0 .. 255
  /\ PieceLengths \subseteq Nat
  /\ MaxLength \in Nat

\* MD5_Init(), SHA256_Init().
Init ==
  /\ alg \in {"MD5", "SHA256"}
  /\ message = <<>>
  /\ count = <<0, 0>>
  /\ buffer = [i \in 1 .. BLOCK |-> Unwritten]
  /\ blocks = <<>>
  /\ copy = <<>>
  /\ pc = "open"

-----------------------------------------------------------------------------

\* A sequence as blocks; what is left over at the end is dropped.
AsBlocks(cells) ==
  [i \in 1 .. (Len(cells) \div BLOCK) |-> SubSeq(cells, (i - 1) * BLOCK + 1, i * BLOCK)]

LeftOver(cells) ==
  SubSeq(cells, (Len(cells) \div BLOCK) * BLOCK + 1, Len(cells))

\* The buffer after cells were copied to its beginning.
Copied(cells, onto) == cells \o SubSeq(onto, Len(cells) + 1, BLOCK)

\* How many bytes the buffer holds.
Held ==
  IF alg = "MD5" THEN (count[1] \div BITS) % BLOCK ELSE count[1]

\* What waits in the buffer and the new piece, as they are compressed.
Compress(piece) ==
  LET cells == SubSeq(buffer, 1, Held) \o piece
      full  == AsBlocks(cells)
  IN  /\ blocks' = blocks \o full
      /\ buffer' = Copied(LeftOver(cells), IF full = <<>> THEN buffer ELSE Last(full))

\* Mutant: there is no carry.
MD5Count_NoCarry(n) == <<(count[1] + BITS * n) % WORD, count[2]>>

\* MD5_Update() counts bits in two words, with a carry.
MD5Count(n) ==
  LET low == (count[1] + ((BITS * n) % WORD)) % WORD
      carry == IF low < count[1] THEN 1 ELSE 0
  IN  <<low, (count[2] + carry + ((BITS * n) \div WORD)) % WORD>>

\* SHA256_Update() counts the bytes in the buffer and the bits in blocks.
\* (Mutant first: a call counts one block at most.)
SHA256Count_OneBlock(n) ==
  <<(count[1] + n) % BLOCK,
    IF count[1] + n < BLOCK THEN count[2] ELSE (count[2] + BITS * BLOCK) % WORD>>

SHA256Count(n) ==
  <<(count[1] + n) % BLOCK,
    (count[2] + BITS * BLOCK * ((count[1] + n) \div BLOCK)) % WORD>>

MD5_Update(piece) ==
  /\ alg = "MD5"
  /\ Compress(piece)
  /\ count' = MD5Count(Len(piece))

SHA256_Update(piece) ==
  /\ alg = "SHA256"
  /\ Compress(piece)
  /\ count' = SHA256Count(Len(piece))

Update ==
  /\ pc = "open"
  /\ \E n \in PieceLengths :
       /\ Len(message) + n <= MaxLength
       /\ \E piece \in [1 .. n -> Byte] :
            /\ MD5_Update(piece) \/ SHA256_Update(piece)
            /\ message' = message \o piece
  /\ UNCHANGED <<alg, copy, pc>>

\* The last one or two blocks: 0x80, zeros and two words.  A second block is
\* taken unless the words fit after the 0x80.  (Mutant first: it is taken
\* too late.)
FinalBlocks_OneOff(words) ==
  LET start == Append(SubSeq(buffer, 1, Held), Pad80)
      zeros(n) == IF n > 0 THEN [i \in 1 .. n |-> Zero] ELSE <<>>
  IN  IF Len(start) <= BLOCK - LENGTH_CELLS + 1
      THEN << start \o zeros(BLOCK - LENGTH_CELLS - Len(start)) \o words >>
      ELSE << start \o zeros(BLOCK - Len(start)),
              zeros(BLOCK - LENGTH_CELLS) \o words >>

FinalBlocks(words) ==
  LET start == Append(SubSeq(buffer, 1, Held), Pad80)
      zeros(n) == [i \in 1 .. n |-> Zero]
  IN  IF Len(start) <= BLOCK - LENGTH_CELLS
      THEN << start \o zeros(BLOCK - LENGTH_CELLS - Len(start)) \o words >>
      ELSE << start \o zeros(BLOCK - Len(start)),
              zeros(BLOCK - LENGTH_CELLS) \o words >>

\* The context is wiped.
MD5_Final ==
  /\ alg = "MD5"
  /\ blocks' = blocks \o FinalBlocks(count)
  /\ count' = <<0, 0>>
  /\ buffer' = [i \in 1 .. BLOCK |-> Zero]

\* The first word should be the upper word of the length, but is the number
\* of bytes that were left in the buffer.  (Mutant first: the bytes in the
\* buffer are not counted.)
SHA256Length_Blocks == <<count[1], count[2]>>

SHA256Length == <<count[1], (count[2] + BITS * count[1]) % WORD>>

SHA256_Final ==
  /\ alg = "SHA256"
  /\ blocks' = blocks \o FinalBlocks(SHA256Length)
  /\ count' = [count EXCEPT ![2] = SHA256Length[2]]
  /\ buffer' = Last(FinalBlocks(SHA256Length))

Final ==
  /\ pc = "open"
  /\ MD5_Final \/ SHA256_Final
  /\ pc' = "done"
  /\ UNCHANGED <<alg, message, copy>>

\* Mutant: the context itself is finalized.
validate_fragment_InPlace ==
  /\ pc = "open"
  /\ MD5_Final \/ SHA256_Final
  /\ copy' = blocks'
  /\ pc' = "fragment"
  /\ UNCHANGED <<alg, message>>

\* validate_fragment(), validate_fragment_sha256(): a copy of the context is
\* finalized.
validate_fragment ==
  /\ pc = "open"
  /\ copy' = blocks \o FinalBlocks(IF alg = "MD5" THEN count ELSE SHA256Length)
  /\ pc' = "fragment"
  /\ UNCHANGED <<alg, message, context>>

\* It returns, and the copy is gone.
FragmentReturns ==
  /\ pc = "fragment"
  /\ copy' = <<>>
  /\ pc' = "open"
  /\ UNCHANGED <<alg, message, context>>

Finished == pc = "done" /\ UNCHANGED vars

Next == Update \/ Final \/ validate_fragment \/ FragmentReturns \/ Finished

Spec == Init /\ [][Next]_vars

-----------------------------------------------------------------------------
(* The specifications of the algorithms, for reference.                    *)

\* The length of a message in bits, as two words: MD5 has the lower one
\* first (RFC 1321), SHA-256 the upper one (FIPS 180-2).
LengthWords(algorithm, n) ==
  LET low == (BITS * n) % WORD
      high == ((BITS * n) \div WORD) % WORD
  IN  IF algorithm = "MD5" THEN <<low, high>> ELSE <<high, low>>

\* 0x80, as few zeros as complete a block, and the length.
Padded(algorithm, msg) ==
  LET zeros == CHOOSE z \in 0 .. (BLOCK - 1) :
                 (Len(msg) + 1 + z + LENGTH_CELLS) % BLOCK = 0
  IN  msg \o <<Pad80>> \o [i \in 1 .. zeros |-> Zero]
        \o LengthWords(algorithm, Len(msg))

\* The messages that may have been cut into the blocks: those of a length that
\* agrees with the lower word and fits the number of blocks.
MessagesOf(algorithm, padded) ==
  LET cells == FlattenSeq(padded)
      room == Len(cells) - 1 - LENGTH_CELLS
      low == cells[Len(cells) - (IF algorithm = "MD5" THEN 1 ELSE 0)]
  IN  {SubSeq(cells, 1, n) :
         n \in {k \in 0 .. room : room < k + BLOCK /\ (BITS * k) % WORD = low}}

-----------------------------------------------------------------------------

\* The blocks that the digest of a volume, or of its fragments so far, is
\* computed from.
Digested == IF pc = "fragment" THEN copy ELSE blocks

\* The types of the variables.
TypeOK ==
  /\ alg \in {"MD5", "SHA256"}
  /\ message \in Seq(Byte)
  /\ count \in Seq(0 .. (WORD - 1))
  /\ Len(count) = 2
  /\ buffer \in Seq(Byte \cup {Unwritten} \cup 0 .. (WORD - 1))
  /\ Len(buffer) = BLOCK
  /\ \A i \in DOMAIN blocks : Len(blocks[i]) = BLOCK
  /\ \A i \in DOMAIN copy : Len(copy[i]) = BLOCK
  /\ pc \in {"open", "fragment", "done"}

\* However the message is cut into pieces, and wherever the sum of a fragment
\* is taken in between, nothing of it is lost between two calls: what was
\* compressed and what waits in the buffer is the message, also when a count
\* of bits has overflowed into the other word.
NothingIsLost ==
  pc # "done" => FlattenSeq(blocks) \o SubSeq(buffer, 1, Held) = message

\* An MD5 digest, of a fragment too, is the one RFC 1321 specifies, for
\* messages of all lengths and in whatever pieces.
MD5AsSpecified ==
  alg = "MD5" /\ pc # "open" => Digested = AsBlocks(Padded(alg, message))

\* A digest is one of the whole message, that of a fragment one of all that
\* was given so far: from the blocks it is computed from the message can be
\* told, whatever bytes it ends in.
BlocksTellMessage == pc # "open" => MessagesOf(alg, Digested) = {message}

\* sha256.c: "Append to the padding the total message's length in bits".
\* The blocks of a SHA-256 digest are those that FIPS 180-2 specifies.
SHA256AsSpecified ==
  alg = "SHA256" /\ pc # "open" => Digested = AsBlocks(Padded(alg, message))

\* That much is so for the messages whose length is a whole number of blocks
\* and fits one word, such as a volume of less than 512 MB.
SHA256OfShortVolumes ==
  Len(message) % BLOCK = 0 /\ BITS * Len(message) < WORD => SHA256AsSpecified
=============================================================================
