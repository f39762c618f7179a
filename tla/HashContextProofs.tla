-------------------------- MODULE HashContextProofs --------------------------
(***************************************************************************)
(* Proofs about the hash contexts, for messages of every length, given in  *)
(* pieces of every length.  The invariant relates the four things a        *)
(* context keeps to the message alone: the blocks are the whole blocks of  *)
(* the message, the buffer begins with what is left over, the two words    *)
(* count its length, and after Final the blocks are those of the message   *)
(* with its padding.                                                       *)
(***************************************************************************)
EXTENDS HashContext, SequenceTheorems, FiniteSetTheorems, WellFoundedInduction, TLAPS

-----------------------------------------------------------------------------
(* Numbers.  CertificateLemmas has these too, but with the constants of    *)
(* an image.                                                               *)

NatLess == {p \in Nat \X Nat : p[1] < p[2]}

\* Every set of natural numbers has a least one.
LEMMA LeastNumber ==
  ASSUME NEW S \in SUBSET Nat, S # {}
  PROVE  \E m \in S : \A n \in S : m <= n
<1>1. IsWellFoundedOn(NatLess, Nat)
  <2>1. NatLess = OpToRel(<, Nat)
    BY DEF NatLess, OpToRel
  <2> QED
    BY <2>1, NatLessThanWellFounded
<1>2. PICK m \in S : \A y \in S : <<y, m>> \notin NatLess
  BY <1>1, WFMin
<1>3. ASSUME NEW n \in S
      PROVE  m <= n
  <2>1. <<n, m>> \in Nat \X Nat /\ <<n, m>>[1] = n /\ <<n, m>>[2] = m
    OBVIOUS
  <2>2. ~(n < m)
    BY <1>2, <2>1 DEF NatLess
  <2> QED
    BY <2>2
<1> QED
  BY <1>3

\* What \div and % give.
LEMMA Division ==
  ASSUME NEW a \in Int, NEW b \in Nat \ {0}
  PROVE  /\ a \div b \in Int
         /\ a % b \in 0 .. (b - 1)
         /\ a = b * (a \div b) + (a % b)
OBVIOUS

\* Products with a positive factor are ordered as the other factor is.
LEMMA ProductOrder ==
  ASSUME NEW b \in Nat \ {0}, NEW q \in Int, NEW p \in Int
  PROVE  /\ q < p => b * q + b <= b * p
         /\ q <= p => b * q <= b * p
<1>1. CASE q < p
  <2>1. p - q >= 1 /\ p - q \in Nat
    BY <1>1
  <2>2. \A d \in Nat : d >= 1 => b * d >= b
    OBVIOUS
  <2>3. b * (p - q) = b * p - b * q
    OBVIOUS
  <2>4. b * p \in Int /\ b * q \in Int /\ b * (p - q) >= b
    BY <2>1, <2>2
  <2> QED
    BY <1>1, <2>3, <2>4
<1>2. CASE q = p
  BY <1>2
<1>3. CASE q > p
  BY <1>3
<1> QED
  BY <1>1, <1>2, <1>3

\* Quotient and remainder are the only ones.
LEMMA DivisionIs ==
  ASSUME NEW b \in Nat \ {0}, NEW q \in Int, NEW r \in 0 .. (b - 1)
  PROVE  /\ (b * q + r) \div b = q
         /\ (b * q + r) % b = r
<1> DEFINE a == b * q + r
           d == a \div b
           m == a % b
<1>0. b * q \in Int
  OBVIOUS
<1>1. a \in Int /\ d \in Int /\ m \in 0 .. (b - 1) /\ a = b * d + m
  BY <1>0, Division
<1>2. b * d \in Int
  BY <1>1
<1>3. b * d + m = b * q + r
  BY <1>1
<1> HIDE DEF d, m, a
<1>4. ~(d < q)
  BY <1>0, <1>1, <1>2, <1>3, ProductOrder
<1>5. ~(q < d)
  BY <1>0, <1>1, <1>2, <1>3, ProductOrder
<1>6. d = q
  BY <1>1, <1>4, <1>5
<1>7. m = r
  BY <1>0, <1>1, <1>3, <1>6
<1> QED
  BY <1>6, <1>7 DEF a, d, m

\* The next multiple after a multiple.
LEMMA NextMultiple ==
  ASSUME NEW b \in Nat \ {0}, NEW o \in Int, o % b = 0
  PROVE  /\ \A p \in Int : p % b = 0 /\ o < p => o + b <= p
         /\ (o + b) % b = 0
<1>1. o \div b \in Int /\ o = b * (o \div b)
  BY Division
<1>2. ASSUME NEW p \in Int, p % b = 0, o < p
      PROVE  o + b <= p
  <2>1. p \div b \in Int /\ p = b * (p \div b)
    BY <1>2, Division
  <2>2. ~(p \div b <= o \div b)
    BY <1>1, <1>2, <2>1, ProductOrder
  <2> QED
    BY <1>1, <2>1, <2>2, ProductOrder
<1>3. (o + b) % b = 0
  <2>1. o + b = b * (o \div b + 1) + 0
    BY <1>1
  <2>2. (b * (o \div b + 1) + 0) % b = 0
    BY <1>1, DivisionIs
  <2> QED
    BY <2>1, <2>2
<1> QED
  BY <1>2, <1>3

\* A product is positive if its factors are.
LEMMA ProductIsPositive ==
  ASSUME NEW m \in Nat \ {0}, NEW n \in Nat \ {0}
  PROVE  m * n \in Nat \ {0}
OBVIOUS

-----------------------------------------------------------------------------
(* Arithmetic of remainders.                                               *)

\* A remainder is the same after whole divisors were added.
LEMMA RemainderOfSum ==
  ASSUME NEW w \in Nat \ {0}, NEW x \in Int, NEW y \in Int
  PROVE  ((x % w) + y) % w = (x + y) % w
<1> DEFINE q == x \div w
           r == x % w
           p == (r + y) \div w
           t == (r + y) % w
<1>1. q \in Int /\ r \in 0 .. (w - 1) /\ x = w * q + r
  BY Division
<1>2. r + y \in Int
  BY <1>1
<1>3. p \in Int /\ t \in 0 .. (w - 1) /\ r + y = w * p + t
  BY <1>2, Division
<1>4. x + y = w * (q + p) + t
  <2>1. w * (q + p) = w * q + w * p /\ w * q \in Int /\ w * p \in Int
    BY <1>1, <1>3
  <2> HIDE DEF q, r, p, t
  <2> QED
    BY <1>1, <1>3, <2>1
<1>5. q + p \in Int
  BY <1>1, <1>3
<1> HIDE DEF q, r, p, t
<1>6. (w * (q + p) + t) % w = t
  BY <1>3, <1>5, DivisionIs
<1> QED
  BY <1>4, <1>6 DEF t, r

\* Addition in two words: the lower word overflowed if it is now less than it
\* was, and that is the carry.
LEMMA TwoWords ==
  ASSUME NEW w \in Nat \ {0}, NEW a \in Nat, NEW b \in Nat
  PROVE  LET low == ((a % w) + (b % w)) % w
             carry == IF low < a % w THEN 1 ELSE 0
         IN  /\ low = (a + b) % w
             /\ (((a \div w) % w) + carry + (b \div w)) % w = ((a + b) \div w) % w
<1> DEFINE q == a \div w
           r == a % w
           p == b \div w
           s == b % w
           low == (r + s) % w
           carry == IF low < r THEN 1 ELSE 0
<1>1. q \in Int /\ r \in 0 .. (w - 1) /\ a = w * q + r
  BY Division
<1>2. p \in Int /\ s \in 0 .. (w - 1) /\ b = w * p + s
  BY Division
<1>3. w * q \in Int /\ w * p \in Int
  BY <1>1, <1>2
<1>4. low = (a + b) % w /\ q + carry + p = (a + b) \div w
  <2>1. CASE r + s < w
    <3> HIDE DEF q, r, p, s
    <3>1. r + s \in 0 .. (w - 1)
      BY <1>1, <1>2, <2>1
    <3>2. w * 0 + (r + s) = r + s
      BY <3>1
    <3>3. (w * 0 + (r + s)) % w = r + s
      BY <3>1, DivisionIs
    <3>4. low = r + s
      BY <3>2, <3>3
    <3>5. carry = 0
      BY <3>4, <1>1, <1>2
    <3>6. a + b = w * (q + p) + (r + s)
      <4>1. w * (q + p) = w * q + w * p
        BY <1>1, <1>2
      <4> QED
        BY <4>1, <1>1, <1>2, <1>3
    <3>7. q + p \in Int
      BY <1>1, <1>2
    <3>8. (a + b) % w = r + s /\ (a + b) \div w = q + p
      BY <3>1, <3>6, <3>7, DivisionIs
    <3> HIDE DEF low, carry
    <3> QED
      BY <3>4, <3>5, <3>8, <1>1, <1>2
  <2>2. CASE r + s >= w
    <3> HIDE DEF q, r, p, s
    <3> DEFINE t == r + s - w
    <3>1. t \in 0 .. (w - 1) /\ t < r /\ r + s = w + t
      BY <1>1, <1>2, <2>2
    <3> HIDE DEF t
    <3>2. w * 1 + t = r + s
      BY <3>1
    <3>3. (w * 1 + t) % w = t
      BY <3>1, DivisionIs
    <3>4. low = t
      BY <3>2, <3>3
    <3>5. carry = 1
      BY <3>4, <3>1
    <3>6. a + b = w * (q + p + 1) + t
      <4>1. w * (q + p + 1) = w * q + w * p + w
        BY <1>1, <1>2
      <4> QED
        BY <4>1, <1>1, <1>2, <1>3, <3>1
    <3>7. q + p + 1 \in Int
      BY <1>1, <1>2
    <3>8. (a + b) % w = t /\ (a + b) \div w = q + p + 1
      <4> DEFINE d == q + p + 1
      <4>1. d \in Int /\ a + b = w * d + t
        BY <3>6, <3>7
      <4> HIDE DEF d
      <4>2. (w * d + t) \div w = d /\ (w * d + t) % w = t
        BY <3>1, <4>1, DivisionIs
      <4> QED
        BY <4>1, <4>2 DEF d
    <3> HIDE DEF low, carry
    <3> QED
      BY <3>4, <3>5, <3>8, <1>1, <1>2
  <2> HIDE DEF low, carry
  <2>3. r + s \in Int /\ w \in Int
    BY <1>1, <1>2
  <2> QED
    BY <2>1, <2>2, <2>3
<1>5. ((q % w) + (carry + p)) % w = (q + (carry + p)) % w
  <2>1. carry + p \in Int
    BY <1>2
  <2> HIDE DEF q, p, carry
  <2> QED
    BY <2>1, <1>1, RemainderOfSum
<1>6. q % w \in Int /\ carry \in Int
  BY <1>1
<1> DEFINE m == q % w
<1>7. (m + carry + p = m + (carry + p)) /\ (q + carry + p = q + (carry + p))
  <2> HIDE DEF q, p, carry, m
  <2>1. m \in Int
    BY <1>6 DEF m
  <2> QED
    BY <2>1, <1>1, <1>2, <1>6
<1> HIDE DEF q, p, carry, r, s, low
<1>8. (m + carry + p) % w = ((a + b) \div w) % w
  BY <1>4, <1>5, <1>7
<1> QED
  BY <1>4, <1>8 DEF q, p, carry, r, s, low

-----------------------------------------------------------------------------
(* The constants.                                                          *)

\* A count of bits in one word holds a whole number of blocks.
LEMMA Sizes ==
  /\ BITS \in Nat \ {0}
  /\ BLOCK \in Nat \ {0}
  /\ BLOCK > 2
  /\ WORD \in Nat \ {0}
  /\ BITS * BLOCK \in Nat \ {0}
  /\ \E c \in Nat \ {0} : WORD = (BITS * BLOCK) * c
<1>1. /\ BITS \in Nat \ {0} /\ BLOCK \in Nat \ {0} /\ BLOCK > 2
      /\ WORD \in Nat \ {0} /\ WORD % (BITS * BLOCK) = 0
  BY ContextAssumption DEF LENGTH_CELLS
<1> DEFINE b == BITS * BLOCK
           c == WORD \div b
<1>2. b \in Nat \ {0}
  BY <1>1, ProductIsPositive
<1>3. c \in Int /\ WORD = b * c + 0
  <2> HIDE DEF b
  <2>1. WORD \in Int
    BY <1>1
  <2>2. c \in Int /\ WORD = b * c + (WORD % b)
    BY <1>2, <2>1, Division
  <2>3. WORD % b = 0
    BY <1>1 DEF b
  <2> QED
    BY <2>2, <2>3
<1>4. WORD = b * c /\ c > 0
  <2> HIDE DEF b, c
  <2>1. b * c \in Int
    BY <1>2, <1>3
  <2>2. b * 0 = 0
    BY <1>2
  <2>3. c <= 0 => b * c <= b * 0
    BY <1>2, <1>3, ProductOrder
  <2> QED
    BY <1>1, <1>3, <2>1, <2>2, <2>3
<1> HIDE DEF c
<1> QED
  BY <1>1, <1>2, <1>3, <1>4

\* The count of bits tells how many bytes the buffer holds, whatever of it was
\* lost by overflow.
LEMMA BitsTellBytes ==
  ASSUME NEW n \in Nat
  PROVE  (((BITS * n) % WORD) \div BITS) % BLOCK = n % BLOCK
<1>0. PICK c \in Nat \ {0} : WORD = (BITS * BLOCK) * c
  BY Sizes
<1>1. BITS \in Nat \ {0} /\ BLOCK \in Nat \ {0} /\ WORD \in Nat \ {0}
  BY Sizes
<1> DEFINE q == (BITS * n) \div WORD
           r == (BITS * n) % WORD
           e == BLOCK * (c * q)
           d == n - e
<1>2. BITS * n \in Int
  BY <1>1
<1>3. q \in Int /\ r \in 0 .. (WORD - 1) /\ BITS * n = WORD * q + r
  BY <1>1, <1>2, Division
<1>4. c * q \in Int
  BY <1>3
<1>5. e \in Int
  <2> DEFINE cq == c * q
  <2> HIDE DEF cq
  <2>1. cq \in Int
    BY <1>4 DEF cq
  <2>2. BLOCK * cq \in Int
    BY <1>1, <2>1
  <2> QED
    BY <2>2 DEF cq
<1>6. WORD * q = BITS * e
  <2> HIDE DEF q
  <2> QED
    BY <1>0, <1>1, <1>3
<1>7. BITS * d = r
  <2>1. BITS * d = BITS * n - BITS * e
    <3> HIDE DEF e
    <3> QED
      BY <1>1, <1>5
  <2>2. BITS * e \in Int
    <3> HIDE DEF e
    <3> QED
      BY <1>1, <1>5
  <2> HIDE DEF e, q, r, d
  <2>3. r \in Int
    BY <1>3
  <2> QED
    BY <1>2, <1>3, <1>6, <2>1, <2>2, <2>3
<1>8. r \div BITS = d
  <2>1. d \in Int
    <3> HIDE DEF e
    <3> QED
      BY <1>5
  <2> HIDE DEF d, r
  <2>2. (BITS * d + 0) \div BITS = d
    BY <1>1, <2>1, DivisionIs
  <2>3. BITS * d + 0 = r
    BY <1>3, <1>7
  <2> QED
    BY <2>2, <2>3
<1>9. d % BLOCK = n % BLOCK
  <2> DEFINE k == n \div BLOCK
             m == n % BLOCK
  <2>1. k \in Int /\ m \in 0 .. (BLOCK - 1) /\ n = BLOCK * k + m
    BY <1>1, Division
  <2> HIDE DEF k, m
  <2> DEFINE cq == c * q
  <2>2. cq \in Int
    BY <1>4
  <2>3. d = (BLOCK * k + m) - BLOCK * cq
    BY <2>1
  <2> HIDE DEF cq, d
  <2>4. d = BLOCK * (k - cq) + m
    <3>1. BLOCK * (k - cq) = BLOCK * k - BLOCK * cq
      BY <1>1, <2>1, <2>2
    <3>2. BLOCK * k \in Int /\ BLOCK * cq \in Int
      BY <1>1, <2>1, <2>2
    <3> QED
      BY <2>1, <2>3, <3>1, <3>2
  <2>5. k - cq \in Int
    BY <2>1, <2>2
  <2>6. d % BLOCK = m
    BY <1>1, <2>1, <2>4, <2>5, DivisionIs
  <2> QED
    BY <2>6 DEF m
<1> HIDE DEF d
<1> QED
  BY <1>8, <1>9

-----------------------------------------------------------------------------
(* Sequences in blocks.                                                    *)

\* What a part of a sequence is.
LEMMA Part ==
  ASSUME NEW S, NEW s \in Seq(S), NEW m \in 1 .. (Len(s) + 1), NEW n \in (m - 1) .. Len(s)
  PROVE  /\ SubSeq(s, m, n) \in Seq(S)
         /\ Len(SubSeq(s, m, n)) = n - m + 1
         /\ \A i \in 1 .. (n - m + 1) : SubSeq(s, m, n)[i] = s[m + i - 1]
<1>1. m \in Int /\ n \in Int /\ \A i \in m .. n : s[i] \in S
  OBVIOUS
<1> QED
  BY <1>1, SubSeqProperties

\* Where the blocks of a sequence lie in it.
LEMMA BlockBounds ==
  ASSUME NEW len \in Nat, NEW i \in 1 .. (len \div BLOCK)
  PROVE  /\ (i - 1) * BLOCK + 1 \in 1 .. len
         /\ i * BLOCK \in 1 .. len
         /\ i * BLOCK = (i - 1) * BLOCK + BLOCK
<1> DEFINE k == len \div BLOCK
<1>1. BLOCK \in Nat \ {0} /\ BLOCK \in Int
  BY Sizes
<1>2. k \in Int /\ len % BLOCK \in 0 .. (BLOCK - 1) /\ len = BLOCK * k + (len % BLOCK)
  BY <1>1, Division
<1>3. i \in Nat /\ i >= 1 /\ i <= k
  BY <1>2
<1> HIDE DEF k
<1>4. BLOCK * i <= BLOCK * k /\ BLOCK * 1 <= BLOCK * i
  <2>1. 1 \in Int /\ i \in Int /\ 1 <= i
    BY <1>3
  <2> QED
    BY <1>1, <1>2, <1>3, <2>1, ProductOrder
<1>5. i * BLOCK = BLOCK * i /\ (i - 1) * BLOCK = BLOCK * i - BLOCK /\ BLOCK * 1 = BLOCK
  BY <1>1, <1>3
<1>6. BLOCK * i \in Int /\ BLOCK * k \in Int
  BY <1>1, <1>2, <1>3
<1> QED
  BY <1>1, <1>2, <1>4, <1>5, <1>6

\* Types: the blocks are as many as fit, all of the same length; what is left
\* over is shorter than a block.
LEMMA BlocksType ==
  ASSUME NEW S, NEW s \in Seq(S)
  PROVE  /\ Len(s) \div BLOCK \in Nat
         /\ Len(s) % BLOCK \in 0 .. (BLOCK - 1)
         /\ Len(s) = BLOCK * (Len(s) \div BLOCK) + (Len(s) % BLOCK)
         /\ AsBlocks(s) \in Seq(Seq(S))
         /\ Len(AsBlocks(s)) = Len(s) \div BLOCK
         /\ \A i \in 1 .. (Len(s) \div BLOCK) :
              /\ AsBlocks(s)[i] = SubSeq(s, (i - 1) * BLOCK + 1, i * BLOCK)
              /\ AsBlocks(s)[i] \in Seq(S)
              /\ Len(AsBlocks(s)[i]) = BLOCK
         /\ LeftOver(s) \in Seq(S)
         /\ Len(LeftOver(s)) = Len(s) % BLOCK
<1> DEFINE k == Len(s) \div BLOCK
           m == Len(s) % BLOCK
<1>1. BLOCK \in Nat \ {0}
  BY Sizes
<1>2. Len(s) \in Nat
  OBVIOUS
<1>3. k \in Int /\ m \in 0 .. (BLOCK - 1) /\ Len(s) = BLOCK * k + m
  BY <1>1, <1>2, Division
<1>4. k \in Nat
  <2>1. ~(k < 0)
    <3> SUFFICES ASSUME k < 0
                 PROVE  FALSE
      OBVIOUS
    <3>1. BLOCK * k + BLOCK <= BLOCK * 0
      BY <1>1, <1>3, ProductOrder
    <3> HIDE DEF k, m
    <3>2. BLOCK * 0 = 0 /\ BLOCK * k \in Int
      BY <1>1, <1>3
    <3> QED
      BY <1>1, <1>2, <1>3, <3>1, <3>2
  <2> HIDE DEF k
  <2> QED
    BY <1>3, <2>1
<1>5. ASSUME NEW i \in 1 .. k
      PROVE  /\ SubSeq(s, (i - 1) * BLOCK + 1, i * BLOCK) \in Seq(S)
             /\ Len(SubSeq(s, (i - 1) * BLOCK + 1, i * BLOCK)) = BLOCK
  <2> DEFINE a == (i - 1) * BLOCK + 1
             b == i * BLOCK
  <2>1. a \in 1 .. Len(s) /\ b \in 1 .. Len(s) /\ b = (a - 1) + BLOCK
    <3>1. a \in 1 .. Len(s) /\ b \in 1 .. Len(s) /\ b = (i - 1) * BLOCK + BLOCK
      BY <1>2, BlockBounds
    <3>2. (i - 1) * BLOCK \in Int
      BY <1>1
    <3>3. a - 1 = (i - 1) * BLOCK
      BY <3>2
    <3> QED
      BY <3>1, <3>3
  <2> HIDE DEF a, b
  <2>2. a \in 1 .. (Len(s) + 1) /\ b \in (a - 1) .. Len(s) /\ b - a + 1 = BLOCK
    BY <1>1, <1>2, <2>1
  <2>3. SubSeq(s, a, b) \in Seq(S) /\ Len(SubSeq(s, a, b)) = b - a + 1
    BY <2>2, Part
  <2> QED
    BY <2>2, <2>3 DEF a, b
<1>6. AsBlocks(s) \in [1 .. k -> Seq(S)]
  <2>1. AsBlocks(s) = [i \in 1 .. k |-> SubSeq(s, (i - 1) * BLOCK + 1, i * BLOCK)]
    BY DEF AsBlocks
  <2> HIDE DEF k
  <2> QED
    BY <1>5, <2>1
<1>7. AsBlocks(s) \in Seq(Seq(S)) /\ Len(AsBlocks(s)) = k
  <2> HIDE DEF k
  <2> QED
    BY <1>4, <1>6
<1>8. \A i \in 1 .. k : AsBlocks(s)[i] = SubSeq(s, (i - 1) * BLOCK + 1, i * BLOCK)
  BY DEF AsBlocks
<1>9. LeftOver(s) \in Seq(S) /\ Len(LeftOver(s)) = m
  <2> DEFINE a == k * BLOCK
  <2>1. a \in Nat /\ a = BLOCK * k /\ a <= Len(s) /\ Len(s) - a = m
    <3> HIDE DEF k, m
    <3>1. BLOCK * k \in Nat /\ k * BLOCK = BLOCK * k
      BY <1>1, <1>4
    <3> QED
      BY <1>1, <1>2, <1>3, <3>1
  <2> HIDE DEF a, m
  <2>2. a + 1 \in 1 .. (Len(s) + 1) /\ Len(s) \in ((a + 1) - 1) .. Len(s)
    BY <1>2, <2>1
  <2>3. SubSeq(s, a + 1, Len(s)) \in Seq(S) /\ Len(SubSeq(s, a + 1, Len(s))) = Len(s) - (a + 1) + 1
    BY <2>2, Part
  <2>4. Len(s) - (a + 1) + 1 = m
    BY <1>2, <2>1
  <2> QED
    BY <2>3, <2>4 DEF LeftOver, a
<1> HIDE DEF k, m
<1>10. \A i \in 1 .. k : AsBlocks(s)[i] \in Seq(S) /\ Len(AsBlocks(s)[i]) = BLOCK
  BY <1>5, <1>8
<1> QED
  BY <1>3, <1>4, <1>7, <1>8, <1>9, <1>10 DEF k, m

\* A whole number of blocks and what follows it are cut on their own.
LEMMA BlocksOfConcatenation ==
  ASSUME NEW S, NEW h \in Seq(S), NEW l \in Seq(S), NEW k \in Nat, Len(h) = BLOCK * k
  PROVE  /\ Len(AsBlocks(h)) = k
         /\ (Len(h) + Len(l)) \div BLOCK = k + (Len(l) \div BLOCK)
         /\ (Len(h) + Len(l)) % BLOCK = Len(l) % BLOCK
         /\ AsBlocks(h \o l) = AsBlocks(h) \o AsBlocks(l)
         /\ LeftOver(h \o l) = LeftOver(l)
<1> DEFINE kl == Len(l) \div BLOCK
           ml == Len(l) % BLOCK
           s == h \o l
<1>1. BLOCK \in Nat \ {0}
  BY Sizes
<1>2. /\ kl \in Nat /\ ml \in 0 .. (BLOCK - 1) /\ Len(l) = BLOCK * kl + ml
      /\ Len(l) \in Nat /\ Len(h) \in Nat
  <2>1. Len(l) \in Nat /\ Len(h) \in Nat
    OBVIOUS
  <2>2. kl \in Nat /\ ml \in 0 .. (BLOCK - 1) /\ Len(l) = BLOCK * kl + ml
    BY BlocksType
  <2> HIDE DEF kl, ml
  <2> QED
    BY <2>1, <2>2
<1>3. s \in Seq(S) /\ Len(s) = Len(h) + Len(l)
  BY ConcatProperties
<1>4. Len(h) \div BLOCK = k
  <2>1. 0 \in 0 .. (BLOCK - 1) /\ BLOCK * k \in Nat
    BY <1>1
  <2>2. (BLOCK * k + 0) \div BLOCK = k
    BY <1>1, <2>1, DivisionIs
  <2>3. BLOCK * k + 0 = Len(h)
    BY <2>1
  <2> QED
    BY <2>2, <2>3
<1>5. (Len(h) + Len(l)) \div BLOCK = k + kl /\ (Len(h) + Len(l)) % BLOCK = ml
  <2> HIDE DEF kl, ml
  <2>1. Len(h) + Len(l) = BLOCK * (k + kl) + ml /\ k + kl \in Int
    BY <1>1, <1>2
  <2> QED
    BY <1>1, <1>2, <2>1, DivisionIs
<1>6. AsBlocks(s) = AsBlocks(h) \o AsBlocks(l)
  <2>1. AsBlocks(h) \in Seq(Seq(S)) /\ Len(AsBlocks(h)) = k
    BY <1>4, BlocksType
  <2>2. AsBlocks(l) \in Seq(Seq(S)) /\ Len(AsBlocks(l)) = kl
    BY BlocksType
  <2>3. AsBlocks(s) \in Seq(Seq(S)) /\ Len(AsBlocks(s)) = k + kl
    <3> HIDE DEF s, kl
    <3>1. AsBlocks(s) \in Seq(Seq(S)) /\ Len(AsBlocks(s)) = Len(s) \div BLOCK
      BY ONLY <1>3, BlocksType
    <3> QED
      BY <1>3, <1>5, <3>1
  <2>4. /\ AsBlocks(h) \o AsBlocks(l) \in Seq(Seq(S))
        /\ Len(AsBlocks(h) \o AsBlocks(l)) = k + kl
        /\ \A i \in 1 .. (k + kl) : (AsBlocks(h) \o AsBlocks(l))[i]
             = IF i <= k THEN AsBlocks(h)[i] ELSE AsBlocks(l)[i - k]
    <3> DEFINE x == AsBlocks(h)
               y == AsBlocks(l)
    <3> HIDE DEF x, y, kl
    <3>1. x \in Seq(Seq(S)) /\ y \in Seq(Seq(S)) /\ Len(x) = k /\ Len(y) = kl
      BY <2>1, <2>2 DEF x, y
    <3>2. /\ x \o y \in Seq(Seq(S))
          /\ Len(x \o y) = k + kl
          /\ \A i \in 1 .. (k + kl) : (x \o y)[i] = IF i <= k THEN x[i] ELSE y[i - k]
      BY <3>1, ConcatProperties
    <3> QED
      BY <3>2 DEF x, y
  <2>5. ASSUME NEW i \in 1 .. (k + kl)
        PROVE  AsBlocks(s)[i] = (AsBlocks(h) \o AsBlocks(l))[i]
    <3> DEFINE a == (i - 1) * BLOCK + 1
               b == i * BLOCK
    <3>1. AsBlocks(s)[i] = SubSeq(s, a, b)
      BY <1>3, <1>5, BlocksType
    <3>2. CASE i <= k
      <4>1. i \in 1 .. (Len(h) \div BLOCK)
        BY <1>2, <1>4, <3>2
      <4>2. a \in 1 .. Len(h) /\ b \in 1 .. Len(h)
        BY <1>2, <4>1, BlockBounds
      <4>3. AsBlocks(h)[i] = SubSeq(h, a, b)
        BY <4>1, BlocksType
      <4> HIDE DEF a, b
      <4>4. SubSeq(s, a, b) = SubSeq(h, a, b)
        BY <4>2, SubSeqOfConcat1
      <4> QED
        BY <2>4, <3>1, <3>2, <4>3, <4>4
    <3>3. CASE i > k
      <4> DEFINE j == i - k
                 c == (j - 1) * BLOCK + 1
                 d == j * BLOCK
      <4>1. j \in 1 .. kl /\ j \in Int /\ i = k + j /\ i \in Int
        <5> HIDE DEF kl
        <5> QED
          BY <1>2, <3>3
      <4>2. c \in 1 .. Len(l) /\ d \in 1 .. Len(l)
        <5> HIDE DEF j
        <5> QED
          BY <1>2, <4>1, BlockBounds
      <4>3. AsBlocks(l)[j] = SubSeq(l, c, d)
        BY <4>1, BlocksType
      <4>4. a = Len(h) + c /\ b = Len(h) + d
        <5> HIDE DEF j
        <5>1. (i - 1) * BLOCK = BLOCK * k + (j - 1) * BLOCK /\ i * BLOCK = BLOCK * k + j * BLOCK
          BY <1>1, <4>1
        <5>2. (j - 1) * BLOCK \in Int /\ j * BLOCK \in Int /\ BLOCK * k \in Int
          BY <1>1, <4>1
        <5> QED
          BY <5>1, <5>2
      <4> HIDE DEF a, b, c, d
      <4>5. /\ a \in (Len(h) + 1) .. (Len(h) + Len(l)) /\ b \in (Len(h) + 1) .. (Len(h) + Len(l))
            /\ a - Len(h) = c /\ b - Len(h) = d
        <5>1. Len(h) \in Nat /\ Len(l) \in Nat
          OBVIOUS
        <5> QED
          BY ONLY <4>2, <4>4, <5>1
      <4>6. SubSeq(s, a, b) = SubSeq(l, c, d)
        BY <4>5, SubSeqOfConcat2
      <4>7. (AsBlocks(h) \o AsBlocks(l))[i] = AsBlocks(l)[j]
        BY <2>4, <3>3
      <4> QED
        BY <3>1, <4>3, <4>6, <4>7
    <3>4. i <= k \/ i > k
      <4> HIDE DEF kl
      <4> QED
        BY <1>2
    <3> QED
      BY <3>2, <3>3, <3>4
  <2> HIDE DEF s, kl
  <2> QED
    BY <2>3, <2>4, <2>5, SeqEqual
<1>7. LeftOver(s) = LeftOver(l)
  <2> DEFINE a == kl * BLOCK + 1
             e == (k + kl) * BLOCK + 1
  <2>1. /\ kl * BLOCK \in Nat /\ kl * BLOCK = BLOCK * kl
        /\ (k + kl) * BLOCK = BLOCK * k + kl * BLOCK
        /\ BLOCK * k \in Nat
    <3> HIDE DEF kl
    <3> QED
      BY <1>1, <1>2
  <2>2. a \in Nat /\ e = Len(h) + a /\ a <= Len(l) + 1 /\ a >= 1
    <3> DEFINE x == kl * BLOCK
               y == (k + kl) * BLOCK
    <3>1. x \in Nat /\ y = Len(h) + x
      BY <2>1
    <3>2. Len(l) = x + ml /\ ml \in Nat
      BY <1>1, <1>2, <2>1
    <3>3. a = x + 1 /\ e = y + 1
      OBVIOUS
    <3> HIDE DEF x, y, a, e, ml
    <3> QED
      BY ONLY <1>2, <3>1, <3>2, <3>3
  <2>3. LeftOver(l) = SubSeq(l, a, Len(l))
    BY DEF LeftOver
  <2>4. LeftOver(s) = SubSeq(s, e, Len(h) + Len(l))
    BY <1>3, <1>5 DEF LeftOver
  <2> HIDE DEF a, e
  <2>5. CASE a <= Len(l)
    <3>1. /\ e \in (Len(h) + 1) .. (Len(h) + Len(l))
          /\ Len(h) + Len(l) \in (Len(h) + 1) .. (Len(h) + Len(l))
          /\ e - Len(h) = a /\ Len(h) + Len(l) - Len(h) = Len(l)
      <4>1. Len(h) \in Nat /\ Len(l) \in Nat
        OBVIOUS
      <4> QED
        BY ONLY <2>2, <2>5, <4>1
    <3> DEFINE z == Len(h) + Len(l)
    <3>2. z - Len(h) = Len(l)
      BY <3>1
    <3> HIDE DEF z
    <3>3. e \in (Len(h) + 1) .. (Len(h) + Len(l)) /\ z \in (Len(h) + 1) .. (Len(h) + Len(l))
      BY <3>1 DEF z
    <3>4. SubSeq(h \o l, e, z) = SubSeq(l, e - Len(h), z - Len(h))
      BY <3>3, SubSeqOfConcat2
    <3> QED
      BY <2>3, <2>4, <3>1, <3>2, <3>4 DEF z
  <2>6. CASE a = Len(l) + 1
    <3>1. /\ a \in Int /\ e \in Int /\ Len(l) \in Int /\ Len(h) + Len(l) \in Int
          /\ Len(l) < a /\ Len(h) + Len(l) < e
      BY <1>2, <2>2, <2>6
    <3>2. SubSeq(s, e, Len(h) + Len(l)) = <<>> /\ SubSeq(l, a, Len(l)) = <<>>
      BY <3>1, SubSeqEmpty
    <3> QED
      BY <2>3, <2>4, <3>2
  <2> QED
    BY <1>2, <2>2, <2>5, <2>6
<1> HIDE DEF s, kl, ml
<1>8. Len(AsBlocks(h)) = k
  BY <1>4, BlocksType
<1> QED
  BY <1>5, <1>6, <1>7, <1>8 DEF s, kl, ml

\* A sequence shorter than a block has no blocks, one as long as a block is one.
LEMMA OneBlock ==
  ASSUME NEW S, NEW s \in Seq(S)
  PROVE  /\ Len(s) < BLOCK => AsBlocks(s) = <<>> /\ LeftOver(s) = s
         /\ Len(s) = BLOCK => AsBlocks(s) = <<s>>
<1>1. BLOCK \in Nat \ {0} /\ Len(s) \in Nat
  BY Sizes
<1>2. CASE Len(s) < BLOCK
  <2>1. Len(s) \in 0 .. (BLOCK - 1) /\ BLOCK * 0 + Len(s) = Len(s)
    BY <1>1, <1>2
  <2>2. Len(s) \div BLOCK = 0
    BY <1>1, <2>1, DivisionIs
  <2>3. AsBlocks(s) = <<>>
    BY <2>2, BlocksType
  <2>4. LeftOver(s) = SubSeq(s, 1, Len(s))
    BY <1>1, <2>2 DEF LeftOver
  <2> QED
    BY <1>2, <2>3, <2>4, SubSeqFull, <1>1
<1>3. CASE Len(s) = BLOCK
  <2>1. 0 \in 0 .. (BLOCK - 1) /\ BLOCK * 1 + 0 = Len(s)
    BY <1>1, <1>3
  <2>2. Len(s) \div BLOCK = 1
    BY <1>1, <2>1, DivisionIs
  <2>3. AsBlocks(s) \in Seq(Seq(S)) /\ Len(AsBlocks(s)) = 1 /\ AsBlocks(s)[1] = SubSeq(s, (1 - 1) * BLOCK + 1, 1 * BLOCK)
    <3>1. /\ AsBlocks(s) \in Seq(Seq(S))
          /\ Len(AsBlocks(s)) = Len(s) \div BLOCK
          /\ \A i \in 1 .. (Len(s) \div BLOCK) :
               AsBlocks(s)[i] = SubSeq(s, (i - 1) * BLOCK + 1, i * BLOCK)
      BY BlocksType
    <3>2. 1 \in 1 .. (Len(s) \div BLOCK)
      BY <2>2
    <3> QED
      BY <2>2, <3>1, <3>2
  <2>4. (1 - 1) * BLOCK + 1 = 1 /\ 1 * BLOCK = Len(s)
    BY <1>1, <1>3
  <2>5. AsBlocks(s)[1] = s
    BY <2>3, <2>4, SubSeqFull
  <2> QED
    BY <1>1, <1>3, <2>3, <2>5
<1> QED
  BY <1>1, <1>2, <1>3

\* A sequence is its whole blocks and what is left over.
LEMMA TwoParts ==
  ASSUME NEW S, NEW s \in Seq(S)
  PROVE  \E h \in Seq(S) :
           /\ Len(h) = BLOCK * (Len(s) \div BLOCK)
           /\ h = SubSeq(s, 1, (Len(s) \div BLOCK) * BLOCK)
           /\ s = h \o LeftOver(s)
           /\ AsBlocks(h) = AsBlocks(s)
<1> DEFINE k == Len(s) \div BLOCK
           h == SubSeq(s, 1, k * BLOCK)
<1>1. BLOCK \in Nat \ {0} /\ Len(s) \in Nat
  BY Sizes
<1>2. k \in Nat /\ Len(s) % BLOCK \in 0 .. (BLOCK - 1) /\ Len(s) = BLOCK * k + (Len(s) % BLOCK)
  BY BlocksType
<1>3. k * BLOCK = BLOCK * k /\ k * BLOCK \in 0 .. Len(s)
  <2> HIDE DEF k
  <2>1. k * BLOCK = BLOCK * k /\ BLOCK * k \in Nat
    BY <1>1, <1>2
  <2> QED
    BY <1>1, <1>2, <2>1
<1>4. h \in Seq(S) /\ Len(h) = BLOCK * k
  <2> DEFINE n == k * BLOCK
  <2>1. n \in (1 - 1) .. Len(s) /\ 1 \in 1 .. (Len(s) + 1) /\ n - 1 + 1 = n
    <3> HIDE DEF k
    <3> QED
      BY <1>1, <1>3
  <2> HIDE DEF n
  <2>2. SubSeq(s, 1, n) \in Seq(S) /\ Len(SubSeq(s, 1, n)) = n - 1 + 1
    BY <2>1, Part
  <2> QED
    BY <1>3, <2>1, <2>2 DEF n
<1>5. s = h \o LeftOver(s)
  <2> DEFINE n == k * BLOCK
  <2>1. /\ 1 \in 1 .. (Len(s) + 1) /\ n \in (1 - 1) .. Len(s) /\ Len(s) \in n .. Len(s)
    <3> HIDE DEF k
    <3> QED
      BY <1>1, <1>3
  <2> HIDE DEF n
  <2>2. SubSeq(s, 1, n) \o SubSeq(s, n + 1, Len(s)) = SubSeq(s, 1, Len(s))
    BY <2>1, ConcatAdjacentSubSeq
  <2> QED
    BY <2>2, SubSeqFull DEF n, LeftOver
<1>6. AsBlocks(h) = AsBlocks(s)
  <2> HIDE DEF h, k
  <2>1. LeftOver(s) \in Seq(S) /\ Len(LeftOver(s)) < BLOCK
    <3>1. LeftOver(s) \in Seq(S) /\ Len(LeftOver(s)) = Len(s) % BLOCK
      BY BlocksType
    <3> QED
      BY <1>1, <1>2, <3>1
  <2>2. AsBlocks(h \o LeftOver(s)) = AsBlocks(h) \o AsBlocks(LeftOver(s))
    BY <1>2, <1>4, <2>1, BlocksOfConcatenation
  <2>3. AsBlocks(LeftOver(s)) = <<>>
    BY <2>1, OneBlock
  <2>4. AsBlocks(h) \o <<>> = AsBlocks(h)
    <3>1. AsBlocks(h) \in Seq(Seq(S))
      BY <1>4, BlocksType
    <3> QED
      BY <3>1, ConcatEmptySeq
  <2> QED
    BY <1>5, <2>2, <2>3, <2>4
<1> QED
  BY <1>4, <1>5, <1>6

\* One block after the other, the blocks are the sequence up to what is left
\* over.
LEMMA FlattenBlocks ==
  ASSUME NEW S, NEW s \in Seq(S)
  PROVE  FlattenSeq(AsBlocks(s)) = SubSeq(s, 1, (Len(s) \div BLOCK) * BLOCK)
<1> DEFINE k == Len(s) \div BLOCK
           b == AsBlocks(s)
           Flat(f) == f = [i \in 1 .. k |-> IF i = 1 THEN b[i] ELSE f[i - 1] \o b[i]]
           g == [i \in 1 .. k |-> SubSeq(s, 1, i * BLOCK)]
<1>1. BLOCK \in Nat \ {0} /\ Len(s) \in Nat
  BY Sizes
<1>2. k \in Nat /\ Len(b) = k
  BY BlocksType
<1>3. CASE k = 0
  <2>1. b = <<>>
    BY <1>2, <1>3, BlocksType, EmptySeq
  <2>2. FlattenSeq(b) = b
    BY <2>1 DEF FlattenSeq
  <2>3. SubSeq(s, 1, 0 * BLOCK) = <<>>
    <3>1. 0 * BLOCK = 0
      BY <1>1
    <3> QED
      BY <3>1, SubSeqEmpty
  <2> QED
    BY <1>3, <2>1, <2>2, <2>3
<1>4. CASE k # 0
  <2>1. Flat(g)
    <3>1. ASSUME NEW i \in 1 .. k
          PROVE  SubSeq(s, 1, i * BLOCK) = IF i = 1 THEN b[i] ELSE SubSeq(s, 1, (i - 1) * BLOCK) \o b[i]
      <4> DEFINE n == (i - 1) * BLOCK
                 m == i * BLOCK
      <4>1. n + 1 \in 1 .. Len(s) /\ m \in 1 .. Len(s) /\ m = n + BLOCK
        BY <1>1, BlockBounds
      <4>2. b[i] = SubSeq(s, n + 1, m)
        BY BlocksType
      <4>3. n \in Int /\ (i = 1 => n = 0) /\ i \in Int
        <5> HIDE DEF k
        <5> QED
          BY <1>1
      <4> HIDE DEF n, m, b, k
      <4>4. CASE i = 1
        <5>1. n + 1 = 1
          BY <4>3, <4>4
        <5>2. b[i] = SubSeq(s, 1, m)
          BY <4>2, <5>1
        <5> QED
          BY <4>4, <5>2 DEF m
      <4>5. CASE i # 1
        <5>1. /\ 1 \in 1 .. (Len(s) + 1) /\ n \in (1 - 1) .. Len(s) /\ m \in n .. Len(s)
          BY <1>1, <4>1, <4>3
        <5>2. SubSeq(s, 1, n) \o SubSeq(s, n + 1, m) = SubSeq(s, 1, m)
          BY <5>1, ConcatAdjacentSubSeq
        <5> QED
          BY <4>2, <4>5, <5>2 DEF n, m
      <4> QED
        BY <4>4, <4>5
    <3>2. ASSUME NEW i \in 1 .. k
          PROVE  g[i] = IF i = 1 THEN b[i] ELSE g[i - 1] \o b[i]
      <4>1. CASE i = 1
        BY <3>1, <4>1
      <4>2. CASE i # 1
        <5>1. i - 1 \in 1 .. k
          <6> HIDE DEF k
          <6> QED
            BY <1>2, <4>2
        <5> HIDE DEF k, b
        <5> QED
          BY <3>1, <4>2, <5>1
      <4> QED
        BY <4>1, <4>2
    <3> HIDE DEF b, k
    <3>3. g = [i \in 1 .. k |-> g[i]]
      OBVIOUS
    <3> HIDE DEF g
    <3>4. [i \in 1 .. k |-> g[i]] = [i \in 1 .. k |-> IF i = 1 THEN b[i] ELSE g[i - 1] \o b[i]]
      BY <3>2
    <3> QED
      BY <3>3, <3>4
  <2>2. ASSUME NEW f, Flat(f)
        PROVE  f = g
    <3> HIDE DEF g, b, k
    <3> DEFINE D == {i \in 1 .. k : f[i] # g[i]}
    <3>1. D = {}
      <4> SUFFICES ASSUME D # {}
                   PROVE  FALSE
        OBVIOUS
      <4>1. D \in SUBSET Nat
        BY <1>2
      <4>2. PICK m \in D : \A n \in D : m <= n
        <5> HIDE DEF D
        <5> QED
          BY <4>1, LeastNumber
      <4>3. m \in 1 .. k /\ f[m] # g[m]
        BY <4>2
      <4>4. f[m] = IF m = 1 THEN b[m] ELSE f[m - 1] \o b[m]
        BY <2>2, <4>3
      <4>5. g[m] = IF m = 1 THEN b[m] ELSE g[m - 1] \o b[m]
        BY <2>1, <4>3
      <4>6. m # 1
        BY <4>3, <4>4, <4>5
      <4>7. m - 1 \in 1 .. k /\ ~(m <= m - 1)
        BY <1>2, <4>3, <4>6
      <4>8. f[m - 1] = g[m - 1]
        BY <4>2, <4>7
      <4> QED
        BY <4>3, <4>4, <4>5, <4>6, <4>8
    <3>2. f = [i \in 1 .. k |-> f[i]] /\ g = [i \in 1 .. k |-> g[i]]
      BY <2>1, <2>2
    <3>3. \A i \in 1 .. k : f[i] = g[i]
      BY <3>1
    <3>4. [i \in 1 .. k |-> f[i]] = [i \in 1 .. k |-> g[i]]
      BY <3>3
    <3> QED
      BY <3>2, <3>4
  <2> DEFINE c == CHOOSE f : Flat(f)
  <2>3. Flat(c)
    BY <2>1
  <2>4. c = g
    <3> HIDE DEF c, g, Flat
    <3> QED
      BY <2>2, <2>3
  <2>5. FlattenSeq(b) = c[k]
    <3>1. FlattenSeq(b) = (CHOOSE f : f = [i \in 1 .. Len(b) |-> IF i = 1 THEN b[i] ELSE f[i - 1] \o b[i]])[Len(b)]
      <4> HIDE DEF b, k
      <4> QED
        BY <1>2, <1>4 DEF FlattenSeq
    <3> HIDE DEF b, k
    <3> QED
      BY <1>2, <3>1
  <2>6. g[k] = SubSeq(s, 1, k * BLOCK)
    <3> HIDE DEF k
    <3>1. k \in 1 .. k
      BY <1>2, <1>4
    <3> QED
      BY <3>1
  <2> HIDE DEF c, g
  <2> QED
    BY <2>4, <2>5, <2>6
<1> QED
  BY <1>3, <1>4

-----------------------------------------------------------------------------
(* The inductive invariant.                                                *)

\* Whatever a block may consist of.
Cell == Byte \cup {Unwritten} \cup 0 .. (WORD - 1)

\* The two words of the context of an unfinished message of n bytes.
CountOf(algorithm, n) ==
  IF algorithm = "MD5"
  THEN <<(BITS * n) % WORD, ((BITS * n) \div WORD) % WORD>>
  ELSE <<n % BLOCK, ((BITS * BLOCK) * (n \div BLOCK)) % WORD>>

\* The two words that end the padding of a message of n bytes.
FinalWords(algorithm, n) ==
  IF algorithm = "MD5" THEN LengthWords("MD5", n) ELSE <<n % BLOCK, (BITS * n) % WORD>>

\* The zeros of the padding.
ZerosOf(msg) ==
  CHOOSE z \in 0 .. (BLOCK - 1) : (Len(msg) + 1 + z + LENGTH_CELLS) % BLOCK = 0

PaddedWith(msg, words) ==
  msg \o <<Pad80>> \o [i \in 1 .. ZerosOf(msg) |-> Zero] \o words

Types ==
  /\ alg \in {"MD5", "SHA256"}
  /\ pc \in {"open", "fragment", "done"}
  /\ message \in Seq(Byte)
  /\ count \in Seq(0 .. (WORD - 1))
  /\ Len(count) = 2
  /\ buffer \in Seq(Cell)
  /\ Len(buffer) = BLOCK

\* Between two calls the context is a function of the message.
ContextOfMessage ==
  pc # "done" =>
    /\ count = CountOf(alg, Len(message))
    /\ blocks = AsBlocks(message)
    /\ SubSeq(buffer, 1, Len(message) % BLOCK) = LeftOver(message)

\* After Final, of the context or of a copy, the blocks are those of the message
\* with its padding.
BlocksOfPadded ==
  pc # "open" => Digested = AsBlocks(PaddedWith(message, FinalWords(alg, Len(message))))

\* There is a copy in validate_fragment() only.
CopyIsLocal == pc # "fragment" => copy = <<>>

Inv == Types /\ ContextOfMessage /\ BlocksOfPadded /\ CopyIsLocal

-----------------------------------------------------------------------------
(* What the operators of the context do.                                   *)

\* A concatenation begins with its first part.
LEMMA Beginning ==
  ASSUME NEW S, NEW s \in Seq(S), NEW t \in Seq(S)
  PROVE  SubSeq(s \o t, 1, Len(s)) = s
<1>1. /\ s \o t \in Seq(S) /\ Len(s \o t) = Len(s) + Len(t)
      /\ \A i \in 1 .. (Len(s) + Len(t)) : (s \o t)[i] = IF i <= Len(s) THEN s[i] ELSE t[i - Len(s)]
  BY ConcatProperties
<1>2. Len(s) \in Nat /\ Len(t) \in Nat
  OBVIOUS
<1> DEFINE c == s \o t
           n == Len(s)
<1> HIDE DEF c, n
<1>3. 1 \in 1 .. (Len(c) + 1) /\ n \in (1 - 1) .. Len(c) /\ c \in Seq(S)
  BY <1>1, <1>2 DEF c, n
<1>4. /\ SubSeq(c, 1, n) \in Seq(S) /\ Len(SubSeq(c, 1, n)) = n - 1 + 1
      /\ \A i \in 1 .. (n - 1 + 1) : SubSeq(c, 1, n)[i] = c[1 + i - 1]
  BY <1>3, Part
<1>5. ASSUME NEW i \in 1 .. n
      PROVE  SubSeq(c, 1, n)[i] = s[i]
  <2>1. i \in 1 .. (n - 1 + 1) /\ 1 + i - 1 = i /\ i \in 1 .. (Len(s) + Len(t)) /\ i <= Len(s)
    BY <1>2 DEF n
  <2>2. c[i] = s[i]
    BY <1>1, <2>1 DEF c
  <2> QED
    BY <1>4, <2>1, <2>2
<1>6. Len(SubSeq(c, 1, n)) = Len(s)
  BY <1>2, <1>4 DEF n
<1>7. SubSeq(c, 1, n) = s
  BY <1>4, <1>5, <1>6, SeqEqual DEF n
<1> QED
  BY <1>7 DEF c, n

\* Cells copied to the beginning of a buffer.
LEMMA CopiedIs ==
  ASSUME NEW S, NEW s \in Seq(S), NEW onto \in Seq(S), Len(onto) = BLOCK, Len(s) <= BLOCK
  PROVE  /\ Copied(s, onto) \in Seq(S)
         /\ Len(Copied(s, onto)) = BLOCK
         /\ SubSeq(Copied(s, onto), 1, Len(s)) = s
<1> DEFINE t == SubSeq(onto, Len(s) + 1, BLOCK)
<1>1. BLOCK \in Nat \ {0} /\ Len(s) \in Nat
  BY Sizes
<1>2. Len(s) + 1 \in 1 .. (Len(onto) + 1) /\ BLOCK \in ((Len(s) + 1) - 1) .. Len(onto)
  BY <1>1
<1>3. t \in Seq(S) /\ Len(t) = BLOCK - (Len(s) + 1) + 1
  BY <1>2, Part
<1>4. Copied(s, onto) = s \o t
  BY DEF Copied
<1> HIDE DEF t
<1>5. s \o t \in Seq(S) /\ Len(s \o t) = Len(s) + Len(t)
  BY <1>3, ConcatProperties
<1>6. SubSeq(s \o t, 1, Len(s)) = s
  BY <1>3, Beginning
<1>7. Len(s) + Len(t) = BLOCK
  BY <1>1, <1>3
<1> QED
  BY <1>4, <1>5, <1>6, <1>7

\* A piece that is added to a message is cut together with what was left over.
LEMMA BlocksOfLonger ==
  ASSUME NEW S, NEW s \in Seq(S), NEW p \in Seq(S)
  PROVE  /\ LeftOver(s) \o p \in Seq(S)
         /\ AsBlocks(s \o p) = AsBlocks(s) \o AsBlocks(LeftOver(s) \o p)
         /\ LeftOver(s \o p) = LeftOver(LeftOver(s) \o p)
         /\ Len(LeftOver(s) \o p) = (Len(s) % BLOCK) + Len(p)
         /\ (Len(s) + Len(p)) % BLOCK = Len(LeftOver(s) \o p) % BLOCK
<1>1. PICK h \in Seq(S) : /\ Len(h) = BLOCK * (Len(s) \div BLOCK)
                          /\ s = h \o LeftOver(s)
                          /\ AsBlocks(h) = AsBlocks(s)
  BY TwoParts
<1>2. LeftOver(s) \in Seq(S) /\ Len(LeftOver(s)) = Len(s) % BLOCK /\ Len(s) \div BLOCK \in Nat
  BY BlocksType
<1> DEFINE l == LeftOver(s)
           k == Len(s) \div BLOCK
<1> HIDE DEF l, k
<1>3. l \in Seq(S) /\ k \in Nat /\ Len(h) = BLOCK * k
  BY <1>1, <1>2 DEF l, k
<1>4. l \o p \in Seq(S) /\ Len(l \o p) = Len(l) + Len(p)
  BY <1>3, ConcatProperties
<1>5. s \o p = h \o (l \o p)
  <2>1. (h \o l) \o p = h \o (l \o p)
    <3>1. h \in Seq(S) /\ l \in Seq(S) /\ p \in Seq(S)
      BY <1>3
    <3> QED
      BY ONLY <3>1, ConcatAssociative
  <2> QED
    BY <1>1, <2>1 DEF l
<1>6. /\ AsBlocks(h \o (l \o p)) = AsBlocks(h) \o AsBlocks(l \o p)
      /\ LeftOver(h \o (l \o p)) = LeftOver(l \o p)
  BY <1>3, <1>4, BlocksOfConcatenation
<1>7. (Len(s) + Len(p)) % BLOCK = Len(l \o p) % BLOCK
  <2> DEFINE n == Len(s)
             m == Len(p)
  <2>1. n \in Int /\ m \in Int /\ BLOCK \in Nat \ {0}
    BY Sizes
  <2>2. ((n % BLOCK) + m) % BLOCK = (n + m) % BLOCK
    BY <2>1, RemainderOfSum
  <2>3. Len(l \o p) = (n % BLOCK) + m
    BY <1>2, <1>4 DEF l
  <2> QED
    BY <2>2, <2>3
<1> QED
  BY <1>1, <1>2, <1>4, <1>5, <1>6, <1>7 DEF l

\* The counts of a message and of a piece add up to the count of both.
LEMMA MD5CountIs ==
  ASSUME NEW n \in Nat, NEW p \in Nat,
         count = <<(BITS * n) % WORD, ((BITS * n) \div WORD) % WORD>>
  PROVE  MD5Count(p) = <<(BITS * (n + p)) % WORD, ((BITS * (n + p)) \div WORD) % WORD>>
<1> DEFINE a == BITS * n
           b == BITS * p
           low == ((a % WORD) + (b % WORD)) % WORD
           carry == IF low < a % WORD THEN 1 ELSE 0
           high == (a \div WORD) % WORD
<1>1. BITS \in Nat \ {0} /\ WORD \in Nat \ {0}
  BY Sizes
<1>2. a \in Nat /\ b \in Nat /\ BITS * (n + p) = a + b
  BY <1>1
<1>3. count[1] = a % WORD /\ count[2] = high
  OBVIOUS
<1> HIDE DEF high
<1>4. MD5Count(p) = <<low, (high + carry + (b \div WORD)) % WORD>>
  BY <1>3 DEF MD5Count
<1> HIDE DEF a, b
<1>5. /\ low = (a + b) % WORD
      /\ (high + carry + (b \div WORD)) % WORD = ((a + b) \div WORD) % WORD
  BY ONLY <1>1, <1>2, TwoWords DEF low, carry, high
<1> QED
  BY <1>2, <1>4, <1>5

\* The count of SHA256 after p more bytes.
LEMMA SHA256CountIs ==
  ASSUME NEW n \in Nat, NEW p \in Nat,
         count = <<n % BLOCK, ((BITS * BLOCK) * (n \div BLOCK)) % WORD>>
  PROVE  SHA256Count(p) = <<(n + p) % BLOCK, ((BITS * BLOCK) * ((n + p) \div BLOCK)) % WORD>>
<1> DEFINE b == BITS * BLOCK
           k == n \div BLOCK
           m == n % BLOCK
           j == (m + p) \div BLOCK
           l == (m + p) % BLOCK
<1>1. BLOCK \in Nat \ {0} /\ WORD \in Nat \ {0} /\ b \in Nat \ {0}
  BY Sizes
<1>2. k \in Int /\ m \in 0 .. (BLOCK - 1) /\ n = BLOCK * k + m
  <2>1. n \in Int
    OBVIOUS
  <2> QED
    BY ONLY <1>1, <2>1, Division DEF k, m
<1>3. m + p \in Int
  BY <1>2
<1>4. j \in Int /\ l \in 0 .. (BLOCK - 1) /\ m + p = BLOCK * j + l
  BY <1>1, <1>3, Division
<1>5. (n + p) \div BLOCK = k + j /\ (n + p) % BLOCK = l
  <2> HIDE DEF k, m, j, l, b
  <2>1. BLOCK * (k + j) = BLOCK * k + BLOCK * j /\ BLOCK * k \in Int /\ BLOCK * j \in Int
    BY <1>1, <1>2, <1>4
  <2>2. n + p = BLOCK * (k + j) + l /\ k + j \in Int
    BY <1>2, <1>4, <2>1
  <2> QED
    BY <1>1, <1>4, <2>2, DivisionIs
<1>6. SHA256Count(p) = <<l, (((b * k) % WORD) + (b * j)) % WORD>>
  BY DEF SHA256Count
<1>7. (((b * k) % WORD) + (b * j)) % WORD = (b * (k + j)) % WORD
  <2> HIDE DEF k, j, b
  <2>1. b * k \in Int /\ b * j \in Int /\ b * (k + j) = b * k + b * j
    BY <1>1, <1>2, <1>4
  <2> DEFINE x == b * k
             y == b * j
  <2> HIDE DEF x, y
  <2>2. ((x % WORD) + y) % WORD = (x + y) % WORD
    <3>1. x \in Int /\ y \in Int
      BY <2>1 DEF x, y
    <3> QED
      BY <3>1, <1>1, RemainderOfSum
  <2> QED
    BY <2>1, <2>2 DEF x, y
<1> QED
  BY <1>5, <1>6, <1>7

-----------------------------------------------------------------------------
(* The padding.                                                            *)

ZeroCells(n) == [i \in 1 .. n |-> Zero]

\* The last one or two blocks of a padded message, whose last n bytes are in
\* no whole block: one if 0x80 and the two words still fit.
LEMMA ZerosAre ==
  ASSUME NEW S, NEW msg \in Seq(S)
  PROVE  LET n == (Len(msg) % BLOCK) + 1
         IN  /\ ZerosOf(msg) \in 0 .. (BLOCK - 1)
             /\ (Len(msg) + 1 + ZerosOf(msg) + 2) % BLOCK = 0
             /\ n <= BLOCK - 2 => ZerosOf(msg) = BLOCK - 2 - n
             /\ n > BLOCK - 2 => ZerosOf(msg) = (BLOCK - n) + (BLOCK - 2)
<1> DEFINE len == Len(msg)
           k == len \div BLOCK
           m == len % BLOCK
           n == m + 1
           y == IF n <= BLOCK - 2 THEN BLOCK - 2 - n ELSE (BLOCK - n) + (BLOCK - 2)
           Completes(z) == z \in 0 .. (BLOCK - 1) /\ (len + 1 + z + 2) % BLOCK = 0
           z0 == CHOOSE z \in 0 .. (BLOCK - 1) : (len + 1 + z + LENGTH_CELLS) % BLOCK = 0
<1>1. BLOCK \in Nat \ {0} /\ BLOCK > 2 /\ len \in Nat /\ len \in Int
  BY Sizes
<1>2. k \in Int /\ m \in 0 .. (BLOCK - 1) /\ len = BLOCK * k + m
  BY <1>1, Division
<1> HIDE DEF len, k, m
<1>3. y \in 0 .. (BLOCK - 1) /\ y \in Int
  BY <1>1, <1>2
<1>4. (len + 1 + y + 2) % BLOCK = 0
  <2> DEFINE j == IF n <= BLOCK - 2 THEN 1 ELSE 2
  <2>1. len + 1 + y + 2 = BLOCK * (k + j) + 0 /\ k + j \in Int
    <3>1. BLOCK * (k + 1) = BLOCK * k + BLOCK /\ BLOCK * (k + 2) = BLOCK * k + BLOCK + BLOCK /\ BLOCK * k \in Int
      BY <1>1, <1>2
    <3>2. CASE n <= BLOCK - 2
      BY <1>1, <1>2, <3>1, <3>2
    <3>3. CASE ~(n <= BLOCK - 2)
      BY <1>1, <1>2, <3>1, <3>3
    <3> QED
      BY <3>2, <3>3
  <2>2. 0 \in 0 .. (BLOCK - 1)
    BY <1>1
  <2> HIDE DEF j, y
  <2> QED
    BY <1>1, <2>1, <2>2, DivisionIs
<1> HIDE DEF y
<1>5. Completes(y)
  BY <1>3, <1>4
<1>6. Completes(z0)
  <2>1. \E z \in 0 .. (BLOCK - 1) : (len + 1 + z + LENGTH_CELLS) % BLOCK = 0
    BY <1>3, <1>4 DEF LENGTH_CELLS
  <2>2. z0 \in 0 .. (BLOCK - 1) /\ (len + 1 + z0 + LENGTH_CELLS) % BLOCK = 0
    BY <2>1
  <2> HIDE DEF z0
  <2> QED
    BY <2>2 DEF LENGTH_CELLS
<1>7. ZerosOf(msg) = z0
  BY DEF ZerosOf, len
<1> HIDE DEF z0
<1>8. z0 = y
  <2> DEFINE p == len + 1 + z0 + 2
             o == len + 1 + y + 2
  <2>1. p \in Int /\ o \in Int
    BY <1>1, <1>3, <1>6
  <2>2. p % BLOCK = 0 /\ o % BLOCK = 0
    BY <1>5, <1>6
  <2>3. p - o = z0 - y
    BY <1>1, <1>3, <1>6
  <2>4. z0 - y < BLOCK /\ y - z0 < BLOCK
    BY <1>1, <1>3, <1>6
  <2> HIDE DEF p, o
  <2>5. ~(o < p) /\ ~(p < o)
    <3>1. o < p => o + BLOCK <= p
      BY <1>1, <2>1, <2>2, NextMultiple
    <3>2. p < o => p + BLOCK <= o
      BY <1>1, <2>1, <2>2, NextMultiple
    <3> QED
      BY <1>1, <1>3, <1>6, <2>1, <2>3, <2>4, <3>1, <3>2
  <2> QED
    BY <1>3, <1>6, <2>1, <2>3, <2>5
<1>9. /\ z0 \in 0 .. (BLOCK - 1)
      /\ (len + 1 + z0 + 2) % BLOCK = 0
      /\ n <= BLOCK - 2 => z0 = BLOCK - 2 - n
      /\ n > BLOCK - 2 => z0 = (BLOCK - n) + (BLOCK - 2)
  BY <1>1, <1>2, <1>6, <1>8 DEF y
<1> QED
  BY <1>7, <1>9 DEF len, m

\* Zeros are cells, and as many as asked for.
LEMMA ZeroCellsType ==
  ASSUME NEW n \in Nat
  PROVE  ZeroCells(n) \in Seq(Cell) /\ Len(ZeroCells(n)) = n
<1>1. Zero \in Cell
  BY ContextAssumption DEF Cell
<1>2. ZeroCells(n) \in [1 .. n -> Cell]
  BY <1>1 DEF ZeroCells
<1> QED
  BY <1>2

\* Zeros, and more of them.
LEMMA ZeroCellsOfSum ==
  ASSUME NEW m \in Nat, NEW n \in Nat
  PROVE  ZeroCells(m + n) = ZeroCells(m) \o ZeroCells(n)
<1> DEFINE s == ZeroCells(m)
           t == ZeroCells(n)
           u == ZeroCells(m + n)
<1>1. s \in Seq(Cell) /\ Len(s) = m /\ t \in Seq(Cell) /\ Len(t) = n
  BY ZeroCellsType
<1>2. u \in Seq(Cell) /\ Len(u) = m + n
  <2>1. m + n \in Nat
    OBVIOUS
  <2> QED
    BY <2>1, ZeroCellsType
<1>3. /\ \A i \in 1 .. m : s[i] = Zero
      /\ \A i \in 1 .. n : t[i] = Zero
      /\ \A i \in 1 .. (m + n) : u[i] = Zero
  BY DEF ZeroCells
<1> HIDE DEF s, t, u
<1>4. /\ s \o t \in Seq(Cell) /\ Len(s \o t) = m + n
      /\ \A i \in 1 .. (m + n) : (s \o t)[i] = IF i <= m THEN s[i] ELSE t[i - m]
  BY <1>1, ConcatProperties
<1>5. \A i \in 1 .. (m + n) : (s \o t)[i] = Zero
  BY <1>3, <1>4
<1>6. u = s \o t
  BY <1>2, <1>3, <1>4, <1>5, SeqEqual
<1> QED
  BY <1>6 DEF s, t, u

\* Four sequences and how they may be put together.
LEMMA ThreeTogether ==
  ASSUME NEW S, NEW s \in Seq(S), NEW t \in Seq(S), NEW u \in Seq(S)
  PROVE  /\ s \o t \o u \in Seq(S)
         /\ Len(s \o t \o u) = Len(s) + Len(t) + Len(u)
<1>1. s \o t \in Seq(S) /\ Len(s \o t) = Len(s) + Len(t)
  BY ConcatProperties
<1>2. (s \o t) \o u \in Seq(S) /\ Len((s \o t) \o u) = Len(s \o t) + Len(u)
  BY <1>1, ConcatProperties
<1> QED
  BY <1>1, <1>2

IsAssociative(s, t, u) == (s \o t) \o u = s \o (t \o u)

\* Pieces may be put together from either end.
LEMMA Associativity ==
  ASSUME NEW S, NEW s \in Seq(S), NEW t \in Seq(S), NEW u \in Seq(S)
  PROVE  IsAssociative(s, t, u)
BY ConcatAssociative DEF IsAssociative

Regroups(s, t, u, v) ==
  /\ s \o t \o u \o v = s \o (t \o u \o v)
  /\ s \o (t \o u) \o v = (s \o t) \o (u \o v)

\* Four of them likewise.
LEMMA FourParts ==
  ASSUME NEW S, NEW s \in Seq(S), NEW t \in Seq(S), NEW u \in Seq(S), NEW v \in Seq(S)
  PROVE  Regroups(s, t, u, v)
<1>1. s \o t \in Seq(S) /\ t \o u \in Seq(S)
  BY ConcatProperties
<1>2. IsAssociative(s, t, u) /\ IsAssociative(s, t \o u, v) /\ IsAssociative(s \o t, u, v)
  BY <1>1, Associativity
<1> QED
  BY <1>2 DEF IsAssociative, Regroups

\* The cells of a padded message, and how many there are.
LEMMA PaddedType ==
  ASSUME NEW msg \in Seq(Byte), NEW words \in Seq(Cell), Len(words) = 2
  PROVE  /\ msg \in Seq(Cell)
         /\ <<Pad80>> \in Seq(Cell)
         /\ ZerosOf(msg) \in Nat
         /\ PaddedWith(msg, words) = msg \o <<Pad80>> \o ZeroCells(ZerosOf(msg)) \o words
         /\ PaddedWith(msg, words) \in Seq(Cell)
         /\ Len(PaddedWith(msg, words)) = Len(msg) + 1 + ZerosOf(msg) + 2
<1> DEFINE z == ZerosOf(msg)
<1>1. msg \in Seq(Cell)
  BY SeqMonotonic DEF Cell
<1>2. <<Pad80>> \in Seq(Cell) /\ Len(<<Pad80>>) = 1
  <2>1. Pad80 \in Cell
    BY ContextAssumption DEF Cell
  <2> QED
    BY <2>1
<1>3. z \in Nat
  <2>1. z \in 0 .. (BLOCK - 1) /\ BLOCK \in Nat
    BY Sizes, ZerosAre
  <2> HIDE DEF z
  <2> QED
    BY <2>1
<1> HIDE DEF z
<1>4. ZeroCells(z) \in Seq(Cell) /\ Len(ZeroCells(z)) = z
  BY <1>3, ZeroCellsType
<1>5. PaddedWith(msg, words) = msg \o <<Pad80>> \o ZeroCells(z) \o words
  BY DEF PaddedWith, ZeroCells, z
<1> DEFINE p == <<Pad80>>
           u == ZeroCells(z)
           a == msg \o p \o u
<1> HIDE DEF p, u
<1>6. p \in Seq(Cell) /\ Len(p) = 1 /\ u \in Seq(Cell) /\ Len(u) = z
  BY <1>2, <1>4 DEF p, u
<1>7. a \in Seq(Cell) /\ Len(a) = Len(msg) + 1 + z
  <2>1. msg \in Seq(Cell) /\ p \in Seq(Cell) /\ u \in Seq(Cell)
    BY <1>1, <1>6
  <2>2. msg \o p \o u \in Seq(Cell) /\ Len(msg \o p \o u) = Len(msg) + Len(p) + Len(u)
    BY ONLY <2>1, ThreeTogether
  <2> QED
    BY <1>6, <2>2
<1> HIDE DEF a
<1>8. a \o words \in Seq(Cell) /\ Len(a \o words) = Len(msg) + 1 + z + 2
  <2>1. a \in Seq(Cell) /\ words \in Seq(Cell)
    BY <1>7
  <2>2. a \o words \in Seq(Cell)
    BY ONLY <2>1, ConcatProperties
  <2>3. Len(a \o words) = Len(a) + Len(words)
    BY ONLY <2>1, ConcatProperties
  <2> QED
    BY <1>7, <2>2, <2>3
<1>9. PaddedWith(msg, words) = a \o words
  BY <1>5 DEF a, p, u
<1> QED
  BY <1>1, <1>2, <1>3, <1>5, <1>8, <1>9 DEF z

\* What Final compresses completes the blocks of the message to those of the
\* padded message.
LEMMA FinalBlocksAre ==
  ASSUME NEW msg \in Seq(Byte), NEW words \in Seq(Cell), Len(words) = 2,
         SubSeq(buffer, 1, Held) = LeftOver(msg)
  PROVE  /\ AsBlocks(PaddedWith(msg, words)) = AsBlocks(msg) \o FinalBlocks(words)
         /\ Last(FinalBlocks(words)) \in Seq(Cell)
         /\ Len(Last(FinalBlocks(words))) = BLOCK
<1> DEFINE l == LeftOver(msg)
           p == <<Pad80>>
           n == (Len(msg) % BLOCK) + 1
           z == ZerosOf(msg)
           k == Len(msg) \div BLOCK
           start == l \o p
<1>1. BLOCK \in Nat \ {0} /\ BLOCK > 2
  BY Sizes
<1>2. msg \in Seq(Cell) /\ p \in Seq(Cell) /\ Len(p) = 1
  BY PaddedType
<1>3. /\ l \in Seq(Byte) /\ l \in Seq(Cell) /\ Len(l) = n - 1 /\ k \in Nat
      /\ n \in 1 .. BLOCK
  <2> DEFINE m == Len(msg) % BLOCK
  <2>1. l \in Seq(Byte) /\ l \in Seq(Cell) /\ Len(l) = m /\ k \in Nat
    BY <1>2, BlocksType
  <2>2. m \in 0 .. (BLOCK - 1)
    BY BlocksType
  <2>3. n = m + 1
    OBVIOUS
  <2> HIDE DEF l, k, m, n
  <2> QED
    BY <1>1, <2>1, <2>2, <2>3
<1>4. PICK h \in Seq(Cell) : /\ Len(h) = BLOCK * k
                             /\ msg = h \o l
                             /\ AsBlocks(h) = AsBlocks(msg)
  BY <1>2, TwoParts
<1>5. /\ z \in Nat
      /\ n <= BLOCK - 2 => z = BLOCK - 2 - n
      /\ n > BLOCK - 2 => z = (BLOCK - n) + (BLOCK - 2)
  <2>1. z \in Nat
    BY PaddedType
  <2>2. /\ n <= BLOCK - 2 => z = BLOCK - 2 - n
        /\ n > BLOCK - 2 => z = (BLOCK - n) + (BLOCK - 2)
    BY ZerosAre
  <2> QED
    BY <2>1, <2>2
<1>6. Append(SubSeq(buffer, 1, Held), Pad80) = start
  <2>1. Pad80 \in Cell
    BY ContextAssumption DEF Cell
  <2>2. Append(l, Pad80) = l \o <<Pad80>>
    BY <1>3, <2>1, AppendIsConcat
  <2> QED
    BY <2>2
<1>7. PaddedWith(msg, words) = msg \o p \o ZeroCells(z) \o words
  BY PaddedType
<1> HIDE DEF l, p, n, z, k
<1>8. start \in Seq(Cell) /\ Len(start) = n
  <2>1. start \in Seq(Cell) /\ Len(start) = Len(l) + Len(p)
    BY <1>2, <1>3, ConcatProperties
  <2> HIDE DEF start
  <2> QED
    BY <1>2, <1>3, <2>1
<1>9. FinalBlocks(words) =
        IF n <= BLOCK - 2
        THEN << start \o ZeroCells(BLOCK - 2 - n) \o words >>
        ELSE << start \o ZeroCells(BLOCK - n), ZeroCells(BLOCK - 2) \o words >>
  <2> HIDE DEF start
  <2> QED
    BY <1>6, <1>8 DEF FinalBlocks, ZeroCells, LENGTH_CELLS
<1>10. ZeroCells(z) \in Seq(Cell) /\ Len(ZeroCells(z)) = z
  BY <1>5, ZeroCellsType
<1> DEFINE fill == ZeroCells(z)
           r == start \o fill \o words
<1> HIDE DEF fill
<1>11. PaddedWith(msg, words) = h \o r
  <2>0. fill \in Seq(Cell)
    BY <1>10 DEF fill
  <2>1. msg \o p = h \o start
    <3>1. IsAssociative(h, l, p)
      BY <1>2, <1>3, Associativity
    <3> QED
      BY <1>4, <3>1 DEF IsAssociative
  <2> HIDE DEF start
  <2>2. h \in Seq(Cell) /\ start \in Seq(Cell) /\ fill \in Seq(Cell) /\ words \in Seq(Cell)
    BY <1>8, <2>0
  <2>3. h \o start \o fill \o words = h \o (start \o fill \o words)
    <3>1. Regroups(h, start, fill, words)
      BY <2>2, FourParts
    <3> QED
      BY <3>1 DEF Regroups
  <2> QED
    BY <1>7, <2>1, <2>3 DEF fill
<1>12. r \in Seq(Cell) /\ Len(r) = n + z + 2
  <2> HIDE DEF start
  <2>1. fill \in Seq(Cell) /\ Len(fill) = z
    BY <1>10 DEF fill
  <2>3. start \in Seq(Cell) /\ fill \in Seq(Cell) /\ words \in Seq(Cell)
    BY <1>8, <2>1
  <2>2. r \in Seq(Cell) /\ Len(r) = Len(start) + Len(fill) + Len(words)
    BY ONLY <2>3, ThreeTogether DEF r
  <2> QED
    BY <1>8, <2>1, <2>2
<1>13. AsBlocks(h \o r) = AsBlocks(msg) \o AsBlocks(r)
  <2> HIDE DEF r
  <2>1. AsBlocks(h \o r) = AsBlocks(h) \o AsBlocks(r)
    BY <1>3, <1>4, <1>12, BlocksOfConcatenation
  <2> QED
    BY <1>4, <2>1
<1>14. CASE n <= BLOCK - 2
  <2>1. z = BLOCK - 2 - n /\ Len(r) = BLOCK
    <3> HIDE DEF r
    <3> QED
      BY <1>1, <1>3, <1>5, <1>12, <1>14
  <2>2. FinalBlocks(words) = <<r>>
    BY <1>9, <1>14, <2>1 DEF fill
  <2> HIDE DEF r
  <2>3. AsBlocks(r) = <<r>>
    BY <1>12, <2>1, OneBlock
  <2>4. Last(<<r>>) = r
    BY DEF Last
  <2> QED
    BY <1>11, <1>12, <1>13, <2>1, <2>2, <2>3, <2>4
<1>15. CASE n > BLOCK - 2
  <2> DEFINE fill1 == ZeroCells(BLOCK - n)
             fill2 == ZeroCells(BLOCK - 2)
             x == start \o fill1
             y == fill2 \o words
  <2>1. BLOCK - n \in Nat /\ BLOCK - 2 \in Nat /\ z = (BLOCK - n) + (BLOCK - 2)
    BY <1>1, <1>3, <1>5, <1>15
  <2>2. fill1 \in Seq(Cell) /\ Len(fill1) = BLOCK - n /\ fill2 \in Seq(Cell) /\ Len(fill2) = BLOCK - 2
    BY <2>1, ZeroCellsType
  <2>3. fill = fill1 \o fill2
    BY <2>1, ZeroCellsOfSum DEF fill
  <2> HIDE DEF fill1, fill2, start
  <2>4. /\ r = x \o y
        /\ x \in Seq(Cell) /\ Len(x) = Len(start) + Len(fill1)
        /\ y \in Seq(Cell) /\ Len(y) = Len(fill2) + Len(words)
    <3>1. /\ start \in Seq(Cell) /\ fill1 \in Seq(Cell)
          /\ fill2 \in Seq(Cell) /\ words \in Seq(Cell)
      BY <1>8, <2>2
    <3>2. start \o (fill1 \o fill2) \o words = (start \o fill1) \o (fill2 \o words)
      <4>1. Regroups(start, fill1, fill2, words)
        BY <3>1, FourParts
      <4> QED
        BY <4>1 DEF Regroups
    <3>3. /\ start \o fill1 \in Seq(Cell) /\ Len(start \o fill1) = Len(start) + Len(fill1)
          /\ fill2 \o words \in Seq(Cell) /\ Len(fill2 \o words) = Len(fill2) + Len(words)
      BY ONLY <3>1, ConcatProperties
    <3> QED
      BY <2>3, <3>2, <3>3
  <2>5. FinalBlocks(words) = <<x, y>>
    <3>1. ~(n <= BLOCK - 2)
      BY <1>1, <1>3, <1>15
    <3> QED
      BY <1>9, <3>1 DEF fill1, fill2
  <2> HIDE DEF x, y, r
  <2>6. Len(x) = BLOCK /\ Len(y) = BLOCK
    BY <1>1, <1>3, <1>8, <2>2, <2>4
  <2>7. AsBlocks(x) = <<x>> /\ AsBlocks(y) = <<y>>
    BY <2>4, <2>6, OneBlock
  <2>8. AsBlocks(r) = <<x>> \o <<y>>
    <3>1. Len(x) = BLOCK * 1 /\ 1 \in Nat
      BY <1>1, <2>6
    <3>2. AsBlocks(x \o y) = AsBlocks(x) \o AsBlocks(y)
      BY <2>4, <3>1, BlocksOfConcatenation
    <3> QED
      BY <2>4, <2>7, <3>2
  <2>9. <<x>> \o <<y>> = <<x, y>>
    <3>1. <<x>> \in Seq(Seq(Cell)) /\ <<y>> \in Seq(Seq(Cell)) /\ <<x, y>> \in Seq(Seq(Cell))
      BY <2>4
    <3> DEFINE a == <<x>>
               b == <<y>>
               c == <<x, y>>
    <3>2. Len(a) = 1 /\ Len(b) = 1 /\ Len(c) = 2 /\ a[1] = x /\ b[1] = y /\ c[1] = x /\ c[2] = y
      OBVIOUS
    <3> HIDE DEF a, b, c
    <3>3. a \in Seq(Seq(Cell)) /\ b \in Seq(Seq(Cell)) /\ c \in Seq(Seq(Cell))
      BY <3>1 DEF a, b, c
    <3>4. /\ a \o b \in Seq(Seq(Cell)) /\ Len(a \o b) = Len(a) + Len(b)
          /\ \A i \in 1 .. (Len(a) + Len(b)) :
               (a \o b)[i] = IF i <= Len(a) THEN a[i] ELSE b[i - Len(a)]
      BY ONLY <3>3, ConcatProperties
    <3>5. Len(a \o b) = 2 /\ \A i \in 1 .. 2 : (a \o b)[i] = c[i]
      BY <3>2, <3>4
    <3>6. a \o b = c
      BY <3>2, <3>3, <3>4, <3>5, SeqEqual
    <3> QED
      BY <3>6 DEF a, b, c
  <2>10. Last(<<x, y>>) = y
    BY DEF Last
  <2> QED
    BY <1>11, <1>13, <2>4, <2>5, <2>6, <2>8, <2>9, <2>10
<1>16. n <= BLOCK - 2 \/ n > BLOCK - 2
  BY <1>1, <1>3
<1> QED
  BY <1>14, <1>15, <1>16

-----------------------------------------------------------------------------
(* The invariant is preserved.                                             *)

\* What the buffer holds is what is left over of the message.
LEMMA HeldIs ==
  ASSUME Types, ContextOfMessage, pc # "done"
  PROVE  /\ Held = Len(message) % BLOCK
         /\ SubSeq(buffer, 1, Held) = LeftOver(message)
<1> DEFINE n == Len(message)
<1>1. n \in Nat
  BY DEF Types
<1>2. count = CountOf(alg, n) /\ SubSeq(buffer, 1, n % BLOCK) = LeftOver(message)
  BY DEF ContextOfMessage
<1> HIDE DEF n
<1>3. CASE alg = "MD5"
  <2>1. count[1] = (BITS * n) % WORD
    BY <1>2, <1>3 DEF CountOf
  <2>2. Held = (((BITS * n) % WORD) \div BITS) % BLOCK
    BY <1>3, <2>1 DEF Held
  <2>3. Held = n % BLOCK
    BY <1>1, <2>2, BitsTellBytes
  <2> QED
    BY <1>2, <2>3 DEF n
<1>4. CASE alg # "MD5"
  <2>1. count[1] = n % BLOCK
    BY <1>2, <1>4 DEF CountOf
  <2>2. Held = n % BLOCK
    BY <1>4, <2>1 DEF Held
  <2> QED
    BY <1>2, <2>2 DEF n
<1> QED
  BY <1>3, <1>4

\* The words of a context are words.
LEMMA CountType ==
  ASSUME NEW n \in Nat, NEW algorithm
  PROVE  /\ CountOf(algorithm, n) \in Seq(0 .. (WORD - 1))
         /\ Len(CountOf(algorithm, n)) = 2
         /\ FinalWords(algorithm, n) \in Seq(0 .. (WORD - 1))
         /\ Len(FinalWords(algorithm, n)) = 2
<1> DEFINE W == 0 .. (WORD - 1)
           a == (BITS * n) % WORD
           b == ((BITS * n) \div WORD) % WORD
           c == n % BLOCK
           d == ((BITS * BLOCK) * (n \div BLOCK)) % WORD
<1>1. BITS \in Nat \ {0} /\ BLOCK \in Nat \ {0} /\ WORD \in Nat \ {0} /\ BITS * BLOCK \in Nat \ {0}
  BY Sizes
<1>2. a \in W /\ b \in W
  <2> DEFINE x == BITS * n
  <2>1. x \in Int
    BY <1>1
  <2> HIDE DEF x
  <2>2. x % WORD \in W /\ x \div WORD \in Int
    BY <1>1, <2>1, Division
  <2>3. (x \div WORD) % WORD \in W
    BY <1>1, <2>2, Division
  <2> QED
    BY <2>2, <2>3 DEF x
<1>3. d \in W
  <2> DEFINE x == BITS * BLOCK
             y == n \div BLOCK
  <2>1. n \in Int
    OBVIOUS
  <2>2. y \in Int /\ x \in Int
    BY <1>1, <2>1, Division
  <2> HIDE DEF x, y
  <2>3. x * y \in Int
    BY <2>2
  <2>4. (x * y) % WORD \in W
    BY <1>1, <2>3, Division
  <2> QED
    BY <2>4 DEF x, y
<1>4. c \in W
  <2>1. n \in Int
    OBVIOUS
  <2>2. c \in 0 .. (BLOCK - 1)
    BY <1>1, <2>1, Division
  <2>3. BLOCK <= WORD
    <3>1. PICK q \in Nat \ {0} : WORD = (BITS * BLOCK) * q
      BY Sizes
    <3>2. BITS * q \in Nat \ {0} /\ WORD = BLOCK * (BITS * q)
      BY <1>1, <3>1
    <3> DEFINE p == BITS * q
    <3> HIDE DEF p
    <3>3. 1 \in Int /\ p \in Int /\ 1 <= p /\ WORD = BLOCK * p
      BY <3>2 DEF p
    <3>4. BLOCK * 1 <= BLOCK * p
      BY <1>1, <3>3, ProductOrder
    <3> QED
      BY <1>1, <3>3, <3>4
  <2> HIDE DEF c
  <2> QED
    BY <1>1, <2>2, <2>3
<1> HIDE DEF a, b, c, d, W
<1>5. <<a, b>> \in Seq(W) /\ <<c, d>> \in Seq(W) /\ <<c, a>> \in Seq(W)
  BY <1>2, <1>3, <1>4
<1>6. LengthWords("MD5", n) = <<a, b>>
  BY DEF LengthWords, a, b
<1>7. /\ CountOf(algorithm, n) = <<a, b>> \/ CountOf(algorithm, n) = <<c, d>>
      /\ FinalWords(algorithm, n) = <<a, b>> \/ FinalWords(algorithm, n) = <<c, a>>
  BY <1>6 DEF CountOf, FinalWords, a, b, c, d
<1>8. Len(<<a, b>>) = 2 /\ Len(<<c, d>>) = 2 /\ Len(<<c, a>>) = 2
  OBVIOUS
<1> QED
  BY <1>5, <1>7, <1>8 DEF W

\* A context begins empty.
LEMMA InitInv == Init => Inv
<1> SUFFICES ASSUME Init
             PROVE  Inv
  OBVIOUS
<1>1. BLOCK \in Nat \ {0} /\ BITS \in Nat \ {0} /\ WORD \in Nat \ {0} /\ BITS * BLOCK \in Nat \ {0}
  BY Sizes
<1>2. message = <<>> /\ message \in Seq(Byte) /\ Len(message) = 0
  BY DEF Init
<1>3. buffer \in Seq(Cell) /\ Len(buffer) = BLOCK
  <2>1. Unwritten \in Cell
    BY DEF Cell
  <2>2. buffer \in [1 .. BLOCK -> Cell]
    BY <2>1 DEF Init
  <2> QED
    BY <1>1, <2>2
<1>4. AsBlocks(message) = <<>> /\ LeftOver(message) = message
  <2>1. Len(message) < BLOCK
    BY <1>1, <1>2
  <2> QED
    BY ONLY <1>2, <2>1, OneBlock
<1>5. 0 % BLOCK = 0 /\ 0 \div BLOCK = 0 /\ 0 % WORD = 0 /\ 0 \div WORD = 0
  BY <1>1
<1>6. \A algorithm : CountOf(algorithm, 0) = <<0, 0>>
  <2>1. BITS * 0 = 0 /\ (BITS * BLOCK) * 0 = 0
    <3> DEFINE x == BITS * BLOCK
    <3> HIDE DEF x
    <3>1. x \in Nat /\ BITS \in Nat
      BY <1>1 DEF x
    <3>2. BITS * 0 = 0 /\ x * 0 = 0
      BY <3>1
    <3> QED
      BY <3>2 DEF x
  <2> QED
    BY <1>5, <2>1 DEF CountOf
<1>7. SubSeq(buffer, 1, 0) = <<>>
  BY SubSeqEmpty
<1>8. Types
  <2>1. 0 \in 0 .. (WORD - 1) /\ count = <<0, 0>>
    BY <1>1 DEF Init
  <2>2. count \in Seq(0 .. (WORD - 1)) /\ Len(count) = 2
    BY <2>1
  <2> QED
    BY <1>2, <1>3, <2>2 DEF Types, Init
<1>9. ContextOfMessage
  BY <1>2, <1>4, <1>5, <1>6, <1>7 DEF ContextOfMessage, Init
<1>10. BlocksOfPadded /\ CopyIsLocal
  BY DEF BlocksOfPadded, CopyIsLocal, Init
<1> QED
  BY <1>8, <1>9, <1>10 DEF Inv

\* A piece is compressed as the message is.
LEMMA CompressStep ==
  ASSUME Inv, pc = "open", NEW piece \in Seq(Byte), Compress(piece)
  PROVE  /\ blocks' = AsBlocks(message \o piece)
         /\ buffer' \in Seq(Cell)
         /\ Len(buffer') = BLOCK
         /\ SubSeq(buffer', 1, (Len(message) + Len(piece)) % BLOCK) = LeftOver(message \o piece)
<1> DEFINE cells == LeftOver(message) \o piece
           full == AsBlocks(cells)
           onto == IF full = <<>> THEN buffer ELSE Last(full)
           l == LeftOver(cells)
<1>1. Types /\ message \in Seq(Byte) /\ buffer \in Seq(Cell) /\ Len(buffer) = BLOCK
      /\ BLOCK \in Nat \ {0}
  BY Sizes DEF Inv, Types
<1>2. SubSeq(buffer, 1, Held) = LeftOver(message) /\ blocks = AsBlocks(message)
  BY <1>1, HeldIs DEF Inv, ContextOfMessage
<1>3. blocks' = blocks \o full /\ buffer' = Copied(l, onto)
  BY <1>2 DEF Compress
<1>4. /\ cells \in Seq(Byte)
      /\ AsBlocks(message \o piece) = AsBlocks(message) \o full
      /\ LeftOver(message \o piece) = l
      /\ (Len(message) + Len(piece)) % BLOCK = Len(cells) % BLOCK
  <2>1. message \in Seq(Byte) /\ piece \in Seq(Byte)
    BY <1>1
  <2> QED
    BY ONLY <2>1, BlocksOfLonger DEF cells, full, l
<1> HIDE DEF cells
<1>5. /\ full \in Seq(Seq(Byte))
      /\ Len(full) = Len(cells) \div BLOCK
      /\ \A i \in 1 .. (Len(cells) \div BLOCK) : full[i] \in Seq(Byte) /\ Len(full[i]) = BLOCK
      /\ l \in Seq(Byte)
      /\ Len(l) = Len(cells) % BLOCK
      /\ Len(cells) % BLOCK \in 0 .. (BLOCK - 1)
  BY <1>4, BlocksType
<1> HIDE DEF full, l
<1>6. onto \in Seq(Cell) /\ Len(onto) = BLOCK
  <2>1. CASE full = <<>>
    BY <1>1, <2>1
  <2>2. CASE full # <<>>
    <3>1. Len(full) \in 1 .. (Len(cells) \div BLOCK)
      BY <1>5, <2>2, EmptySeq
    <3>2. Last(full) = full[Len(full)]
      BY DEF Last
    <3>3. Last(full) \in Seq(Byte) /\ Len(Last(full)) = BLOCK
      BY <1>5, <3>1, <3>2
    <3>4. Last(full) \in Seq(Cell)
      BY <3>3, SeqMonotonic DEF Cell
    <3> QED
      BY <2>2, <3>3, <3>4
  <2> QED
    BY <2>1, <2>2
<1>7. l \in Seq(Cell) /\ Len(l) <= BLOCK
  <2>1. l \in Seq(Cell)
    BY <1>5, SeqMonotonic DEF Cell
  <2>2. Len(l) <= BLOCK
    BY <1>1, <1>5
  <2> QED
    BY <2>1, <2>2
<1> HIDE DEF onto
<1>8. Copied(l, onto) \in Seq(Cell) /\ Len(Copied(l, onto)) = BLOCK /\ SubSeq(Copied(l, onto), 1, Len(l)) = l
  BY <1>6, <1>7, CopiedIs
<1> QED
  BY <1>2, <1>3, <1>4, <1>5, <1>8

\* Update compresses whole blocks and keeps the rest.
LEMMA UpdateStep ==
  ASSUME Inv, Update
  PROVE  Inv'
<1>1. /\ pc = "open" /\ pc' = pc /\ alg' = alg /\ copy' = copy
      /\ \E n \in PieceLengths : \E piece \in [1 .. n -> Byte] :
           /\ MD5_Update(piece) \/ SHA256_Update(piece)
           /\ message' = message \o piece
  BY DEF Update
<1>0. PICK n \in PieceLengths : \E piece \in [1 .. n -> Byte] :
        /\ MD5_Update(piece) \/ SHA256_Update(piece)
        /\ message' = message \o piece
  BY <1>1
<1>2. PICK piece \in [1 .. n -> Byte] :
        /\ MD5_Update(piece) \/ SHA256_Update(piece)
        /\ message' = message \o piece
  BY <1>0
<1>3. /\ alg \in {"MD5", "SHA256"} /\ message \in Seq(Byte) /\ Len(message) \in Nat
      /\ count = CountOf(alg, Len(message))
  BY <1>1 DEF Inv, Types, ContextOfMessage
<1>4. piece \in Seq(Byte) /\ Len(piece) \in Nat
  <2>1. n \in Nat
    BY ContextAssumption
  <2> QED
    BY <2>1
<1>5. message' \in Seq(Byte) /\ Len(message') = Len(message) + Len(piece)
  <2>1. message \in Seq(Byte) /\ piece \in Seq(Byte)
    BY <1>3, <1>4
  <2>2. message \o piece \in Seq(Byte) /\ Len(message \o piece) = Len(message) + Len(piece)
    BY ONLY <2>1, ConcatProperties
  <2> QED
    BY <1>2, <2>2
<1>6. Compress(piece)
  BY <1>2 DEF MD5_Update, SHA256_Update
<1>7. /\ blocks' = AsBlocks(message')
      /\ buffer' \in Seq(Cell)
      /\ Len(buffer') = BLOCK
      /\ SubSeq(buffer', 1, Len(message') % BLOCK) = LeftOver(message')
  BY <1>1, <1>2, <1>4, <1>5, <1>6, CompressStep
<1>8. count' = CountOf(alg, Len(message'))
  <2> DEFINE m == Len(message)
             p == Len(piece)
  <2>1. m \in Nat /\ p \in Nat /\ Len(message') = m + p /\ count = CountOf(alg, m)
    BY <1>3, <1>4, <1>5
  <2> HIDE DEF m, p
  <2>2. CASE MD5_Update(piece)
    <3>1. alg = "MD5" /\ count' = MD5Count(p)
      BY <2>2 DEF MD5_Update, p
    <3>2. count = <<(BITS * m) % WORD, ((BITS * m) \div WORD) % WORD>>
      BY <2>1, <3>1 DEF CountOf
    <3>3. MD5Count(p) = <<(BITS * (m + p)) % WORD, ((BITS * (m + p)) \div WORD) % WORD>>
      BY <2>1, <3>2, MD5CountIs
    <3> QED
      BY <2>1, <3>1, <3>3 DEF CountOf
  <2>3. CASE SHA256_Update(piece)
    <3>1. alg = "SHA256" /\ alg # "MD5" /\ count' = SHA256Count(p)
      BY <2>3 DEF SHA256_Update, p
    <3>2. count = <<m % BLOCK, ((BITS * BLOCK) * (m \div BLOCK)) % WORD>>
      BY <2>1, <3>1 DEF CountOf
    <3>3. SHA256Count(p) = <<(m + p) % BLOCK, ((BITS * BLOCK) * ((m + p) \div BLOCK)) % WORD>>
      BY <2>1, <3>2, SHA256CountIs
    <3> QED
      BY <2>1, <3>1, <3>3 DEF CountOf
  <2> QED
    BY <1>2, <2>2, <2>3
<1>9. Types'
  <2>1. CountOf(alg, Len(message')) \in Seq(0 .. (WORD - 1)) /\ Len(CountOf(alg, Len(message'))) = 2
    <3>1. Len(message') \in Nat
      BY <1>3, <1>4, <1>5
    <3> QED
      BY <3>1, CountType
  <2> QED
    BY <1>1, <1>3, <1>5, <1>7, <1>8, <2>1 DEF Types
<1>10. ContextOfMessage'
  BY <1>1, <1>7, <1>8 DEF ContextOfMessage
<1>11. BlocksOfPadded' /\ CopyIsLocal'
  BY <1>1 DEF BlocksOfPadded, CopyIsLocal, Inv
<1> QED
  BY <1>9, <1>10, <1>11 DEF Inv

\* The words that SHA256_Final takes for the length are the bytes of the
\* buffer and the lower word.
LEMMA SHA256LengthIs ==
  ASSUME NEW n \in Nat, count = <<n % BLOCK, ((BITS * BLOCK) * (n \div BLOCK)) % WORD>>
  PROVE  SHA256Length = <<n % BLOCK, (BITS * n) % WORD>>
<1> DEFINE k == n \div BLOCK
           m == n % BLOCK
           x == (BITS * BLOCK) * k
           y == BITS * m
<1>1. BITS \in Nat \ {0} /\ BLOCK \in Nat \ {0} /\ WORD \in Nat \ {0}
  BY Sizes
<1>2. k \in Int /\ m \in 0 .. (BLOCK - 1) /\ n = BLOCK * k + m
  <2>1. n \in Int
    OBVIOUS
  <2> QED
    BY ONLY <1>1, <2>1, Division DEF k, m
<1>3. count[1] = m /\ count[2] = x % WORD
  OBVIOUS
<1> HIDE DEF k, m
<1>4. x \in Int /\ y \in Int /\ BITS * n = x + y
  <2>1. BITS * (BLOCK * k) = (BITS * BLOCK) * k /\ BLOCK * k \in Int /\ (BITS * BLOCK) * k \in Int
    BY ONLY <1>1, <1>2
  <2> DEFINE j == BLOCK * k
  <2> HIDE DEF j
  <2>2. BITS * (j + m) = BITS * j + BITS * m /\ BITS * m \in Int
    <3>1. j \in Int /\ m \in Int
      BY <1>1, <1>2, <2>1 DEF j
    <3> QED
      BY ONLY <1>1, <3>1
  <2> QED
    BY <1>2, <2>1, <2>2 DEF j
<1> HIDE DEF x, y
<1>5. ((x % WORD) + y) % WORD = (x + y) % WORD
  BY ONLY <1>1, <1>4, RemainderOfSum
<1>6. SHA256Length = <<m, ((x % WORD) + y) % WORD>>
  BY <1>3 DEF SHA256Length, y
<1> QED
  BY <1>4, <1>5, <1>6 DEF m

\* Final compresses the padding and both words of the length.
LEMMA FinalStep ==
  ASSUME Inv, Final
  PROVE  Inv'
<1> DEFINE n == Len(message)
           words == FinalWords(alg, n)
<1>1. /\ pc = "open" /\ pc' = "done" /\ alg' = alg /\ message' = message /\ copy' = copy
      /\ MD5_Final \/ SHA256_Final
  BY DEF Final
<1>2. /\ Types /\ ContextOfMessage
      /\ alg \in {"MD5", "SHA256"} /\ message \in Seq(Byte) /\ n \in Nat
      /\ count \in Seq(0 .. (WORD - 1)) /\ Len(count) = 2
      /\ count = CountOf(alg, n) /\ blocks = AsBlocks(message)
  BY <1>1 DEF Inv, Types, ContextOfMessage
<1>3. SubSeq(buffer, 1, Held) = LeftOver(message)
  BY <1>1, <1>2, HeldIs
<1> HIDE DEF n
<1>4. words \in Seq(0 .. (WORD - 1)) /\ words \in Seq(Cell) /\ Len(words) = 2
  <2>1. words \in Seq(0 .. (WORD - 1)) /\ Len(words) = 2
    BY <1>2, CountType
  <2> HIDE DEF words
  <2>2. words \in Seq(Cell)
    BY <2>1, SeqMonotonic DEF Cell
  <2> QED
    BY <2>1, <2>2
<1> HIDE DEF words
<1>5. /\ AsBlocks(PaddedWith(message, words)) = AsBlocks(message) \o FinalBlocks(words)
      /\ Last(FinalBlocks(words)) \in Seq(Cell)
      /\ Len(Last(FinalBlocks(words))) = BLOCK
  BY <1>2, <1>3, <1>4, FinalBlocksAre
<1>6. /\ blocks' = AsBlocks(PaddedWith(message, words))
      /\ count' \in Seq(0 .. (WORD - 1)) /\ Len(count') = 2
      /\ buffer' \in Seq(Cell) /\ Len(buffer') = BLOCK
  <2>1. CASE MD5_Final
    <3>1. /\ alg = "MD5" /\ blocks' = blocks \o FinalBlocks(count) /\ count' = <<0, 0>>
          /\ buffer' = [i \in 1 .. BLOCK |-> Zero]
      BY <2>1 DEF MD5_Final
    <3>2. count = words
      BY <1>2, <3>1 DEF words, FinalWords, CountOf, LengthWords
    <3>3. buffer' \in Seq(Cell) /\ Len(buffer') = BLOCK
      <4>1. BLOCK \in Nat
        BY Sizes
      <4>2. ZeroCells(BLOCK) \in Seq(Cell) /\ Len(ZeroCells(BLOCK)) = BLOCK
        BY <4>1, ZeroCellsType
      <4> QED
        BY <3>1, <4>2 DEF ZeroCells
    <3>4. 0 \in 0 .. (WORD - 1)
      BY Sizes
    <3>5. <<0, 0>> \in Seq(0 .. (WORD - 1)) /\ Len(<<0, 0>>) = 2
      BY <3>4
    <3> QED
      BY <1>2, <1>5, <3>1, <3>2, <3>3, <3>5
  <2>2. CASE SHA256_Final
    <3>1. /\ alg = "SHA256" /\ blocks' = blocks \o FinalBlocks(SHA256Length)
          /\ count' = [count EXCEPT ![2] = SHA256Length[2]]
          /\ buffer' = Last(FinalBlocks(SHA256Length))
      BY <2>2 DEF SHA256_Final
    <3>2. SHA256Length = <<n % BLOCK, (BITS * n) % WORD>>
      <4>1. alg # "MD5"
        BY <3>1
      <4>2. count = <<n % BLOCK, ((BITS * BLOCK) * (n \div BLOCK)) % WORD>>
        BY <1>2, <4>1 DEF CountOf
      <4> QED
        BY <1>2, <4>2, SHA256LengthIs
    <3>3. SHA256Length = words
      BY <3>1, <3>2 DEF words, FinalWords
    <3>4. count' \in Seq(0 .. (WORD - 1)) /\ Len(count') = 2
      <4> DEFINE e == words[2]
                 W == 0 .. (WORD - 1)
      <4>1. e \in W
        <5>1. 2 \in 1 .. Len(words)
          BY <1>4
        <5> QED
          BY <1>4, <5>1, ElementOfSeq
      <4> HIDE DEF e, W
      <4>2. count \in Seq(W) /\ 2 \in 1 .. Len(count)
        BY <1>2 DEF W
      <4>3. [count EXCEPT ![2] = e] \in Seq(W) /\ Len([count EXCEPT ![2] = e]) = Len(count)
        BY ONLY <4>1, <4>2, ExceptSeq
      <4> QED
        BY <1>2, <3>1, <3>3, <4>3 DEF e, W
    <3> QED
      BY <1>2, <1>5, <3>1, <3>3, <3>4
  <2> QED
    BY <1>1, <2>1, <2>2
<1>7. Types'
  BY <1>1, <1>2, <1>6 DEF Types
<1>8. ContextOfMessage'
  BY <1>1 DEF ContextOfMessage
<1>9. BlocksOfPadded' /\ CopyIsLocal'
  BY <1>1, <1>6 DEF BlocksOfPadded, Digested, CopyIsLocal, Inv, words, n
<1> QED
  BY <1>7, <1>8, <1>9 DEF Inv

\* The copy is finalized as the context would be, which stays as it is.
LEMMA FragmentStep ==
  ASSUME Inv, validate_fragment
  PROVE  Inv'
<1> DEFINE n == Len(message)
           words == FinalWords(alg, n)
           given == IF alg = "MD5" THEN count ELSE SHA256Length
<1>1. /\ pc = "open" /\ pc' = "fragment" /\ UNCHANGED <<alg, message, count, buffer, blocks>>
      /\ copy' = blocks \o FinalBlocks(given)
  BY DEF validate_fragment, context
<1>2. /\ Types /\ ContextOfMessage
      /\ alg \in {"MD5", "SHA256"} /\ message \in Seq(Byte) /\ n \in Nat
      /\ count = CountOf(alg, n) /\ blocks = AsBlocks(message)
  BY <1>1 DEF Inv, Types, ContextOfMessage
<1>3. SubSeq(buffer, 1, Held) = LeftOver(message)
  BY <1>1, <1>2, HeldIs
<1> HIDE DEF n
<1>4. words \in Seq(Cell) /\ Len(words) = 2
  <2>1. words \in Seq(0 .. (WORD - 1)) /\ Len(words) = 2
    BY <1>2, CountType
  <2> HIDE DEF words
  <2>2. words \in Seq(Cell)
    BY <2>1, SeqMonotonic DEF Cell
  <2> QED
    BY <2>1, <2>2
<1>5. given = words
  <2>1. CASE alg = "MD5"
    BY <1>2, <2>1 DEF FinalWords, CountOf, LengthWords
  <2>2. CASE alg # "MD5"
    <3>1. count = <<n % BLOCK, ((BITS * BLOCK) * (n \div BLOCK)) % WORD>>
      BY <1>2, <2>2 DEF CountOf
    <3>2. SHA256Length = <<n % BLOCK, (BITS * n) % WORD>>
      BY <1>2, <3>1, SHA256LengthIs
    <3> QED
      BY <2>2, <3>2 DEF FinalWords
  <2> QED
    BY <2>1, <2>2
<1> HIDE DEF words, given
<1>6. AsBlocks(PaddedWith(message, words)) = AsBlocks(message) \o FinalBlocks(words)
  BY <1>2, <1>3, <1>4, FinalBlocksAre
<1>7. Types' /\ ContextOfMessage' /\ CopyIsLocal'
  BY <1>1, <1>2 DEF Types, ContextOfMessage, CopyIsLocal
<1>8. BlocksOfPadded'
  BY <1>1, <1>2, <1>5, <1>6 DEF BlocksOfPadded, Digested, words, n
<1> QED
  BY <1>7, <1>8 DEF Inv

\* In every state a context agrees with the message it was given.
THEOREM Invariance == Spec => []Inv
<1>1. Init => Inv
  BY InitInv
<1>2. Inv /\ [Next]_vars => Inv'
  <2> SUFFICES ASSUME Inv, [Next]_vars
               PROVE  Inv'
    OBVIOUS
  <2>1. CASE Update
    BY <2>1, UpdateStep
  <2>2. CASE Final
    BY <2>2, FinalStep
  <2>3. CASE validate_fragment
    BY <2>3, FragmentStep
  <2>4. CASE FragmentReturns
    BY <2>4 DEF FragmentReturns, context, Inv, Types, ContextOfMessage, BlocksOfPadded,
                CopyIsLocal
  <2>5. CASE UNCHANGED vars
    BY <2>5 DEF Inv, Types, ContextOfMessage, BlocksOfPadded, Digested, CopyIsLocal, vars,
                context
  <2> QED
    BY <2>1, <2>2, <2>3, <2>4, <2>5 DEF Next, Finished
<1> QED
  BY <1>1, <1>2, PTL DEF Spec

-----------------------------------------------------------------------------
(* What follows from the invariant.                                        *)

\* The invariant gives the types.
LEMMA InvType == Inv => TypeOK
<1> SUFFICES ASSUME Inv
             PROVE  TypeOK
  OBVIOUS
<1>1. message \in Seq(Byte) /\ pc \in {"open", "fragment", "done"} /\ Len(message) \in Nat
  BY DEF Inv, Types
<1>2. /\ \E S : \E s \in Seq(S) : blocks = AsBlocks(s)
      /\ copy = <<>> \/ \E S : \E s \in Seq(S) : copy = AsBlocks(s)
  <2>1. pc # "done" => \E S : \E s \in Seq(S) : blocks = AsBlocks(s)
    BY <1>1 DEF Inv, ContextOfMessage
  <2>2. pc # "open" => \E S : \E s \in Seq(S) : Digested = AsBlocks(s)
    <3> DEFINE words == FinalWords(alg, Len(message))
    <3>1. words \in Seq(0 .. (WORD - 1)) /\ Len(words) = 2
      BY <1>1, CountType
    <3> HIDE DEF words
    <3>2. words \in Seq(Cell)
      BY <3>1, SeqMonotonic DEF Cell
    <3>3. PaddedWith(message, words) \in Seq(Cell)
      BY <1>1, <3>1, <3>2, PaddedType
    <3> QED
      BY <3>3 DEF Inv, BlocksOfPadded, words
  <2>3. pc # "fragment" => copy = <<>>
    BY DEF Inv, CopyIsLocal
  <2> QED
    BY <1>1, <2>1, <2>2, <2>3 DEF Digested
<1>3. ASSUME NEW S, NEW s \in Seq(S), NEW i \in DOMAIN AsBlocks(s)
      PROVE  Len(AsBlocks(s)[i]) = BLOCK
  <2> DEFINE b == AsBlocks(s)
  <2>1. /\ b \in Seq(Seq(S)) /\ Len(b) = Len(s) \div BLOCK
        /\ \A j \in 1 .. (Len(s) \div BLOCK) : Len(b[j]) = BLOCK
    BY BlocksType
  <2>2. DOMAIN b = 1 .. (Len(s) \div BLOCK)
    BY <2>1, LenProperties
  <2> QED
    BY <2>1, <2>2
<1>4. \A i \in DOMAIN blocks : Len(blocks[i]) = BLOCK
  BY <1>2, <1>3
<1>5. \A i \in DOMAIN copy : Len(copy[i]) = BLOCK
  BY <1>2, <1>3
<1> QED
  BY <1>4, <1>5 DEF Inv, Types, TypeOK, Cell

\* The variables keep their types, for messages and pieces of every length.
THEOREM TypeCorrect == Spec => []TypeOK
BY Invariance, InvType, PTL

\* It says where every byte is.
LEMMA InvNothingLost == Inv => NothingIsLost
<1> SUFFICES ASSUME Inv, pc # "done"
             PROVE  FlattenSeq(blocks) \o SubSeq(buffer, 1, Held) = message
  BY DEF NothingIsLost
<1>1. message \in Seq(Byte) /\ blocks = AsBlocks(message) /\ SubSeq(buffer, 1, Held) = LeftOver(message)
  BY HeldIs DEF Inv, Types, ContextOfMessage
<1>2. message = SubSeq(message, 1, (Len(message) \div BLOCK) * BLOCK) \o LeftOver(message)
  BY <1>1, TwoParts
<1>3. FlattenSeq(AsBlocks(message)) = SubSeq(message, 1, (Len(message) \div BLOCK) * BLOCK)
  BY <1>1, FlattenBlocks
<1> QED
  BY <1>1, <1>2, <1>3

\* Nothing of a message is lost between two calls, however it is cut and
\* however often a count of bits overflows.
THEOREM NothingLost == Spec => []NothingIsLost
BY Invariance, InvNothingLost, PTL

\* The specified padding is the one with the words of the length.
LEMMA PaddedIs ==
  ASSUME NEW algorithm, NEW msg
  PROVE  Padded(algorithm, msg) = PaddedWith(msg, LengthWords(algorithm, Len(msg)))
BY DEF Padded, PaddedWith, ZerosOf

\* It says what MD5 has compressed in the end.
LEMMA InvMD5 == Inv => MD5AsSpecified
BY PaddedIs DEF Inv, BlocksOfPadded, FinalWords, MD5AsSpecified

\* The blocks of an MD5 digest are the ones of RFC 1321.
THEOREM MD5Specified == Spec => []MD5AsSpecified
BY Invariance, InvMD5, PTL

\* It says what SHA256 has, where the upper word is 0.
LEMMA InvShortVolumes == Inv => SHA256OfShortVolumes
<1> DEFINE n == Len(message)
<1> SUFFICES ASSUME Inv, n % BLOCK = 0, BITS * n < WORD, alg = "SHA256", pc # "open"
             PROVE  Digested = AsBlocks(Padded(alg, message))
  BY DEF SHA256OfShortVolumes, SHA256AsSpecified
<1>1. message \in Seq(Byte) /\ n \in Nat /\ alg # "MD5"
  BY DEF Inv, Types
<1>2. BITS \in Nat \ {0} /\ WORD \in Nat \ {0}
  BY Sizes
<1> HIDE DEF n
<1>3. ((BITS * n) \div WORD) % WORD = 0
  <2> DEFINE x == BITS * n
  <2>1. x \in Nat
    BY <1>1, <1>2
  <2>2. x \in 0 .. (WORD - 1)
    BY <1>2, <2>1
  <2> HIDE DEF x
  <2>3. WORD * 0 + x = x
    BY <1>2, <2>1
  <2>4. (WORD * 0 + x) \div WORD = 0
    BY <1>2, <2>2, DivisionIs
  <2>5. 0 % WORD = 0
    BY <1>2
  <2> QED
    BY <2>3, <2>4, <2>5 DEF x
<1>4. LengthWords(alg, n) = <<0, (BITS * n) % WORD>>
  BY <1>1, <1>3 DEF LengthWords
<1>5. FinalWords(alg, n) = <<0, (BITS * n) % WORD>>
  BY <1>1 DEF FinalWords
<1>6. Digested = AsBlocks(PaddedWith(message, FinalWords(alg, n)))
  BY DEF Inv, BlocksOfPadded, n
<1> QED
  BY <1>4, <1>5, <1>6, PaddedIs DEF n

\* The blocks of a SHA-256 digest are those of FIPS 180-2 if the message is a
\* whole number of blocks and its length fits one word.
THEOREM ShortVolumesSpecified == Spec => []SHA256OfShortVolumes
BY Invariance, InvShortVolumes, PTL

\* Two messages with the same blocks are the same.
LEMMA InvBlocksTell == Inv => BlocksTellMessage
<1> SUFFICES ASSUME Inv, pc # "open"
             PROVE  MessagesOf(alg, Digested) = {message}
  BY DEF BlocksTellMessage
<1> DEFINE n == Len(message)
           words == FinalWords(alg, n)
           z == ZerosOf(message)
           padded == PaddedWith(message, words)
           at == IF alg = "MD5" THEN 1 ELSE 0
           wanted == (BITS * n) % WORD
<1>1. /\ message \in Seq(Byte) /\ message \in Seq(Cell) /\ n \in Nat
      /\ Digested = AsBlocks(padded)
  <2>1. message \in Seq(Byte)
    BY DEF Inv, Types
  <2>2. message \in Seq(Cell)
    BY <2>1, SeqMonotonic DEF Cell
  <2> QED
    BY <2>1, <2>2 DEF Inv, BlocksOfPadded
<1>2. BLOCK \in Nat \ {0} /\ BITS \in Nat \ {0} /\ WORD \in Nat \ {0} /\ BLOCK \in Int
  BY Sizes
<1>3. words \in Seq(Cell) /\ Len(words) = 2
  <2>1. words \in Seq(0 .. (WORD - 1)) /\ Len(words) = 2
    BY <1>1, CountType
  <2> HIDE DEF words
  <2>2. words \in Seq(Cell)
    BY <2>1, SeqMonotonic DEF Cell
  <2> QED
    BY <2>1, <2>2
<1>4. words[2 - at] = wanted /\ at \in {0, 1}
  BY DEF FinalWords, LengthWords
<1> HIDE DEF words, at
<1>5. z \in 0 .. (BLOCK - 1) /\ (n + 1 + z + 2) % BLOCK = 0
  BY <1>1, ZerosAre
<1> HIDE DEF n, z, wanted
<1>6. padded \in Seq(Cell) /\ Len(padded) = n + 1 + z + 2
  BY <1>1, <1>3, PaddedType DEF n, z
<1>7. padded = message \o <<Pad80>> \o ZeroCells(z) \o words
  BY <1>1, <1>3, PaddedType DEF z
<1> HIDE DEF padded
<1>8. FlattenSeq(Digested) = padded
  <2> DEFINE k == Len(padded) \div BLOCK
  <2>1. FlattenSeq(AsBlocks(padded)) = SubSeq(padded, 1, k * BLOCK)
    BY <1>6, FlattenBlocks
  <2>2. k * BLOCK = Len(padded)
    <3>1. Len(padded) \in Int /\ Len(padded) % BLOCK = 0
      BY <1>1, <1>5, <1>6
    <3>2. k \in Int /\ Len(padded) = BLOCK * k + (Len(padded) % BLOCK)
      BY <1>2, <3>1, Division
    <3> HIDE DEF k
    <3>3. k * BLOCK = BLOCK * k /\ BLOCK * k \in Int
      BY <1>2, <3>2
    <3> QED
      BY <3>1, <3>2, <3>3
  <2> HIDE DEF k
  <2>3. SubSeq(padded, 1, Len(padded)) = padded
    BY <1>6, SubSeqFull
  <2> QED
    BY <1>1, <2>1, <2>2, <2>3
<1> DEFINE body == message \o <<Pad80>> \o ZeroCells(z)
<1>9. body \in Seq(Cell) /\ Len(body) = n + 1 + z /\ padded = body \o words
  <2> DEFINE p == <<Pad80>>
             u == ZeroCells(z)
  <2>1. p \in Seq(Cell) /\ Len(p) = 1
    BY <1>1, <1>3, PaddedType
  <2>2. u \in Seq(Cell) /\ Len(u) = z
    <3>1. z \in Nat
      BY <1>5
    <3> QED
      BY <3>1, ZeroCellsType
  <2> HIDE DEF p, u
  <2>3. message \in Seq(Cell) /\ p \in Seq(Cell) /\ u \in Seq(Cell)
    BY <1>1, <2>1, <2>2
  <2>4. message \o p \o u \in Seq(Cell) /\ Len(message \o p \o u) = Len(message) + Len(p) + Len(u)
    BY ONLY <2>3, ThreeTogether
  <2>5. body = message \o p \o u
    BY DEF p, u
  <2> HIDE DEF body
  <2> QED
    BY <1>7, <2>1, <2>2, <2>4, <2>5 DEF n, body, p, u
<1> HIDE DEF body
<1>10. padded[Len(padded) - at] = wanted
  <2>1. \A i \in 1 .. (Len(body) + Len(words)) :
          (body \o words)[i] = IF i <= Len(body) THEN body[i] ELSE words[i - Len(body)]
    <3>1. body \in Seq(Cell) /\ words \in Seq(Cell)
      BY <1>3, <1>9
    <3> QED
      BY ONLY <3>1, ConcatProperties
  <2> DEFINE i == Len(padded) - at
  <2>2. /\ i \in 1 .. (Len(body) + Len(words)) /\ ~(i <= Len(body))
        /\ i - Len(body) = 2 - at
    BY <1>1, <1>3, <1>4, <1>5, <1>6, <1>9
  <2> HIDE DEF i
  <2>3. (body \o words)[i] = words[2 - at]
    BY <2>1, <2>2
  <2> QED
    BY <1>4, <1>9, <2>3 DEF i
<1>11. SubSeq(padded, 1, n) = message
  <2> DEFINE t == <<Pad80>> \o ZeroCells(z) \o words
  <2>1. /\ <<Pad80>> \in Seq(Cell) /\ ZeroCells(z) \in Seq(Cell) /\ words \in Seq(Cell)
        /\ message \in Seq(Cell)
    <3>1. z \in Nat
      BY <1>5
    <3> QED
      BY <1>1, <1>3, <3>1, ZeroCellsType, PaddedType
  <2>2. padded = message \o t
    <3>1. Regroups(message, <<Pad80>>, ZeroCells(z), words)
      BY <2>1, FourParts
    <3> QED
      BY <1>7, <3>1 DEF Regroups
  <2>3. t \in Seq(Cell)
    <3> DEFINE p == <<Pad80>>
               u == ZeroCells(z)
    <3> HIDE DEF p, u
    <3>1. p \in Seq(Cell) /\ u \in Seq(Cell) /\ words \in Seq(Cell)
      BY <2>1 DEF p, u
    <3>2. p \o u \o words \in Seq(Cell)
      BY ONLY <3>1, ThreeTogether
    <3> QED
      BY <3>2 DEF p, u
  <2> HIDE DEF t
  <2>4. SubSeq(message \o t, 1, Len(message)) = message
    BY <2>1, <2>3, Beginning
  <2> QED
    BY <2>2, <2>4 DEF n
<1> DEFINE room == Len(padded) - 1 - 2
           K == {k \in 0 .. room : room < k + BLOCK /\ (BITS * k) % WORD = wanted}
<1>12. MessagesOf(alg, Digested) = {SubSeq(padded, 1, m) : m \in K}
  BY <1>8, <1>10 DEF MessagesOf, LENGTH_CELLS, at
<1>13. room = n + z
  BY <1>1, <1>5, <1>6
<1> HIDE DEF room
<1>14. n \in K
  <2>1. n \in 0 .. room /\ room < n + BLOCK
    BY <1>1, <1>2, <1>5, <1>13
  <2> QED
    BY <2>1 DEF wanted
<1>15. \A m \in K : m = n
  <2> SUFFICES ASSUME NEW m \in 0 .. room, room < m + BLOCK, (BITS * m) % WORD = wanted
               PROVE  m = n
    OBVIOUS
  <2>1. m \in Nat /\ m < n + BLOCK /\ n < m + BLOCK
    BY <1>1, <1>2, <1>5, <1>13
  <2>2. PICK c \in Nat \ {0} : WORD = (BITS * BLOCK) * c
    BY Sizes
  <2>3. BITS * m = BITS * n
    <3> DEFINE a == BITS * m
               b == BITS * n
               w == BITS * BLOCK
    <3>1. a \in Int /\ b \in Int /\ w \in Nat \ {0} /\ a % WORD = b % WORD
      BY <1>1, <1>2, <2>1, Sizes DEF wanted
    <3>2. a - b < w /\ b - a < w
      <4>1. ASSUME NEW i \in Nat, NEW j \in Nat, i < j + BLOCK
            PROVE  BITS * i - BITS * j < BITS * BLOCK
        <5>1. j + BLOCK \in Int /\ i \in Int
          BY <1>2
        <5>2. BITS * i + BITS <= BITS * (j + BLOCK)
          BY <1>2, <4>1, <5>1, ProductOrder
        <5>3. BITS * (j + BLOCK) = BITS * j + BITS * BLOCK
          BY <1>2
        <5>4. BITS * i \in Int /\ BITS * j \in Int /\ BITS * BLOCK \in Int
          BY <1>2
        <5> QED
          BY <1>2, <5>2, <5>3, <5>4
      <4> QED
        BY <1>1, <2>1, <4>1
    <3>3. w <= WORD
      <4> HIDE DEF w
      <4>1. 1 \in Int /\ c \in Int /\ 1 <= c
        OBVIOUS
      <4>2. w * 1 <= w * c
        BY <3>1, <4>1, ProductOrder
      <4>3. w * 1 = w
        BY <3>1
      <4> QED
        BY <2>2, <4>2, <4>3 DEF w
    <3> HIDE DEF a, b, w
    <3>4. a \div WORD \in Int /\ a = WORD * (a \div WORD) + (a % WORD)
      BY <1>2, <3>1, Division
    <3>5. b \div WORD \in Int /\ b = WORD * (b \div WORD) + (b % WORD)
      BY <1>2, <3>1, Division
    <3> DEFINE p == a \div WORD
               q == b \div WORD
               r == b % WORD
    <3>6. r \in Int
      BY <1>2, <3>1, Division
    <3>7. p \in Int /\ q \in Int /\ a = WORD * p + r /\ b = WORD * q + r
      BY <3>1, <3>4, <3>5
    <3> HIDE DEF p, q, r
    <3>8. WORD * p \in Int /\ WORD * q \in Int
      BY <1>2, <3>7
    <3>9. ~(p < q) /\ ~(q < p)
      <4>1. p < q => WORD * p + WORD <= WORD * q
        BY <1>2, <3>7, ProductOrder
      <4>2. q < p => WORD * q + WORD <= WORD * p
        BY <1>2, <3>7, ProductOrder
      <4> QED
        BY <1>2, <3>1, <3>2, <3>3, <3>6, <3>7, <3>8, <4>1, <4>2
    <3>10. p = q
      BY <3>7, <3>9
    <3> QED
      BY <3>7, <3>10 DEF a, b
  <2>4. ~(m < n) /\ ~(n < m)
    <3>1. BITS * m \in Int /\ BITS * n \in Int /\ m \in Int /\ n \in Int
      BY <1>1, <1>2, <2>1
    <3>2. m < n => BITS * m + BITS <= BITS * n
      BY <1>2, <3>1, ProductOrder
    <3>3. n < m => BITS * n + BITS <= BITS * m
      BY <1>2, <3>1, ProductOrder
    <3> QED
      BY <1>2, <2>3, <3>1, <3>2, <3>3
  <2> QED
    BY <1>1, <2>1, <2>4
<1> HIDE DEF K
<1>16. K = {n}
  BY <1>14, <1>15
<1> QED
  BY <1>11, <1>12, <1>16

\* The message can be told from the blocks of its digest, for both algorithms
\* and whatever bytes it ends in.
THEOREM MessageIsTold == Spec => []BlocksTellMessage
BY Invariance, InvBlocksTell, PTL
=============================================================================
