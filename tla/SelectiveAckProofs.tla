------------------------- MODULE SelectiveAckProofs -------------------------
(***************************************************************************)
(* Proofs about one selective ack, for every size of byte, word, length    *)
(* byte and buffer, every set of stored numbers and both build profiles:   *)
(* the bits are the stored numbers, and the sender reads the same back.    *)
(* With a buffer for one word the loops implement the exchange that        *)
(* UtpConnection uses.                                                     *)
(***************************************************************************)
EXTENDS SelectiveAck, WellFoundedInduction, TLAPS

-----------------------------------------------------------------------------
(* The inductive invariant.                                                *)

Octet == SUBSET (0 .. U8BITS - 1)
Building == {"build", "pad", "built"}
Reading == {"read", "panic", "done"}

Types ==
  /\ last_acked \in SeqNr /\ out_of_order \in SUBSET SeqNr
  /\ newest \in SeqNr \cup {NoPacket}
  /\ pc \in Building \cup Reading \cup {"rejected"}
  /\ todo \in SUBSET out_of_order /\ (pc # "build" => todo = {})
  /\ sack \in Seq(Octet)
  /\ next_index \in Nat

\* Bit i stands for the number last_acked + 1 + i, as far as the bytes go.
BitsAre == \A i \in 0 .. end_index - 1 : Bit(i) <=> last_acked + 1 + i \in out_of_order \ todo

\* While it is built, the ack has a place for each number the loop has passed,
\* and no byte in a word that no stored number needs.
Covers == \A n \in Ahead \ todo : n - last_acked - 1 < end_index
NeededBy(k, n) == n - last_acked > ((k - 1) \div WordBytes) * WordBytes * U8BITS
Tight == \A k \in 1 .. Len(sack) : \E n \in Ahead : NeededBy(k, n)

\* What has been collected from the bits that were read.
AckedSoFar ==
  ack_packets = {n \in Ahead : n < newest /\ n < Number}
LostSoFar ==
  /\ result \cap Ahead = {}
  /\ \A n \in last_acked + 1 .. last_acked + next_index :
       n < newest /\ n \in SeqNr \ Ahead => n \in result
  /\ \A n \in result : n \in Nat /\ (n <= last_acked \/ (n < Number /\ n < newest))

SackInv ==
  /\ Types
  /\ pc # "rejected" => BitsAre
  /\ pc \in Building => Covers /\ Tight
  /\ pc \in Building => next_index = 0 /\ ack_packets = {} /\ result = {}
  /\ pc = "built" => Full(Len(sack))
  /\ pc \in Reading => end_index <= Room * U8BITS /\ next_index <= end_index
  /\ pc \in Reading /\ newest # NoPacket => AckedSoFar /\ LostSoFar
  /\ pc = "done" /\ newest # NoPacket => next_index = end_index
  /\ pc = "panic" => newest # NoPacket /\ Number = U16 /\ next_index < end_index

-----------------------------------------------------------------------------
(* Least elements, bytes and bits.                                         *)

\* A set of naturals that is not empty has a least element.
LEMMA MinIsLeast ==
  ASSUME NEW S \in SUBSET Nat, S # {}
  PROVE  Min(S) \in S
<1> DEFINE R == {ss \in Nat \X Nat : ss[1] < ss[2]}
<1>1. IsWellFoundedOn(R, Nat)
  BY NatLessThanWellFounded, Zenon DEF OpToRel
<1>2. PICK x \in S : \A y \in S : ~ (<<y, x>> \in R)
  <2> HIDE DEF R
  <2> QED
    BY <1>1, WFMin
<1>3. ASSUME NEW y \in S PROVE x <= y
  <2>1. <<y, x>> \in Nat \X Nat /\ <<y, x>>[1] = y /\ <<y, x>>[2] = x
    OBVIOUS
  <2> QED
    BY <1>2, <2>1
<1> QED
  BY <1>3 DEF Min

LEMMA MaxOfTwo ==
  ASSUME NEW a \in Nat, NEW b \in Nat
  PROVE  Max({a, b}) = IF a >= b THEN a ELSE b
<1>1. \E x \in {a, b} : \A y \in {a, b} : x >= y
  OBVIOUS
<1> QED
  BY <1>1 DEF Max

LEMMA MinOfTwo ==
  ASSUME NEW a \in Nat, NEW b \in Nat
  PROVE  Min({a, b}) = IF a <= b THEN a ELSE b
<1>1. \E x \in {a, b} : \A y \in {a, b} : x <= y
  OBVIOUS
<1> QED
  BY <1>1 DEF Min

LEMMA Constants ==
  /\ U8BITS \in Nat \ {0} /\ WordBytes \in Nat \ {0} /\ LenMod \in Nat \ {0}
  /\ Room \in Nat \ {0} /\ U16 \in Nat \ {0} /\ Room * U8BITS \in Nat
  /\ LenMod % WordBytes = 0 /\ Room * U8BITS <= U16
BY SizeAssumption, RoomAssumption

\* Below w blocks of s are the numbers whose block is below w.
LEMMA QuotientBelow ==
  ASSUME NEW s \in Nat \ {0}, NEW i \in Nat, NEW w \in Nat
  PROVE  i < w * s <=> i \div s < w
<1> DEFINE q == i \div s
           r == i % s
<1>1. q \in Nat /\ r \in Nat /\ r < s /\ i = s * q + r
  OBVIOUS
<1> HIDE DEF q, r
<1>2. ASSUME q < w PROVE i < w * s
  <2>1. PICK k \in Nat : w = q + 1 + k
    <3>1. w - q - 1 \in Nat
      BY <1>1, <1>2
    <3> QED
      BY <1>1, <3>1
  <2>2. w * s = s * q + s + k * s /\ k * s \in Nat /\ s * q \in Nat
    BY <1>1, <2>1
  <2> QED
    BY <1>1, <2>2
<1>3. ASSUME w <= q PROVE ~ (i < w * s)
  <2>1. PICK k \in Nat : q = w + k
    <3>1. q - w \in Nat
      BY <1>1, <1>3
    <3> QED
      BY <1>1, <3>1
  <2>2. s * q = w * s + k * s /\ k * s \in Nat /\ w * s \in Nat
    BY <1>1, <2>1
  <2> QED
    BY <1>1, <2>2
<1> QED
  BY <1>1, <1>2, <1>3 DEF q

\* Bit i lies in byte i \div U8BITS, at place i % U8BITS.
LEMMA Place ==
  ASSUME NEW i \in Nat
  PROVE  /\ i \div U8BITS \in Nat /\ i % U8BITS \in 0 .. U8BITS - 1
         /\ i = U8BITS * (i \div U8BITS) + (i % U8BITS)
         /\ \A n \in Nat : i < n * U8BITS <=> i \div U8BITS < n
<1>1. /\ i \div U8BITS \in Nat /\ i % U8BITS \in 0 .. U8BITS - 1
      /\ i = U8BITS * (i \div U8BITS) + (i % U8BITS)
  BY Constants
<1>2. \A n \in Nat : i < n * U8BITS <=> i \div U8BITS < n
  BY Constants, QuotientBelow
<1> QED
  BY <1>1, <1>2

LEMMA PlaceType ==
  ASSUME NEW i \in Nat
  PROVE  i \div U8BITS \in Nat /\ i % U8BITS \in 0 .. U8BITS - 1
BY Place

LEMMA PlaceBelow ==
  ASSUME NEW i \in Nat, NEW n \in Nat
  PROVE  i < n * U8BITS <=> i \div U8BITS < n
BY Place

LEMMA ByteIn ==
  ASSUME NEW i \in Nat, NEW n \in Nat, i < n * U8BITS
  PROVE  i \div U8BITS + 1 \in 1 .. n
<1> DEFINE j == i \div U8BITS
<1>1. j \in Nat /\ j < n
  BY PlaceType, PlaceBelow
<1> HIDE DEF j
<1>2. j + 1 \in 1 .. n
  BY <1>1
<1> QED
  BY <1>2 DEF j

LEMMA SamePlace ==
  ASSUME NEW i \in Nat, NEW j \in Nat,
         i \div U8BITS = j \div U8BITS, i % U8BITS = j % U8BITS
  PROVE  i = j
BY Place

LEMMA EndIndexType ==
  ASSUME sack \in Seq(Octet)
  PROVE  /\ end_index \in Nat
         /\ \A i \in 0 .. end_index - 1 : i \div U8BITS + 1 \in 1 .. Len(sack)
<1>1. Len(sack) \in Nat /\ end_index = Len(sack) * U8BITS /\ end_index \in Nat
  BY Constants DEF end_index
<1>2. ASSUME NEW i \in 0 .. end_index - 1
      PROVE  i \div U8BITS + 1 \in 1 .. Len(sack)
  <2>1. i \in Nat /\ i < Len(sack) * U8BITS
    BY <1>1
  <2>2. i \div U8BITS \in Nat /\ i \div U8BITS < Len(sack)
    BY <1>1, <2>1, PlaceType, PlaceBelow
  <2> HIDE DEF end_index
  <2> QED
    BY <1>1, <2>2
<1> QED
  BY <1>1, <1>2

LEMMA SackLength ==
  ASSUME Types
  PROVE  Len(sack) \in Nat /\ end_index = Len(sack) * U8BITS /\ end_index \in Nat
BY EndIndexType DEF Types, end_index

\* A stored number ahead of last_acked has a distance.
LEMMA Distance ==
  ASSUME Types, NEW n \in out_of_order, n > last_acked
  PROVE  /\ n \in Nat /\ last_acked \in Nat /\ n - last_acked - 1 \in Nat
         /\ last_acked + 1 + (n - last_acked - 1) = n
BY Constants DEF Types, SeqNr

-----------------------------------------------------------------------------
(* The receiver's loops.                                                   *)

LEMMA InitSack == Init => SackInv
<1> SUFFICES ASSUME Init PROVE SackInv
  OBVIOUS
<1>1. Types
  BY DEF Init, Types, Building
<1>2. end_index = 0 /\ Len(sack) = 0
  BY Constants DEF Init, end_index
<1>3. BitsAre /\ Tight
  BY <1>2 DEF BitsAre, Tight
<1>4. Covers
  BY DEF Covers, Ahead, Init
<1> QED
  BY <1>1, <1>3, <1>4 DEF SackInv, Init, Building, Reading

\* WithBit sets one bit, in a vector that is long enough for it.
LEMMA WithBitIs ==
  ASSUME Types, NEW d \in Nat
  PROVE  LET v == WithBit(d \div U8BITS, d % U8BITS)
             m == IF Len(sack) >= d \div U8BITS + 1 THEN Len(sack) ELSE d \div U8BITS + 1
         IN  /\ v \in Seq(Octet) /\ Len(v) = m /\ d < m * U8BITS
             /\ \A k \in 1 .. m :
                  v[k] = (IF k <= Len(sack) THEN sack[k] ELSE {})
                           \cup (IF k = d \div U8BITS + 1 THEN {d % U8BITS} ELSE {})
<1> DEFINE q == d \div U8BITS
           r == d % U8BITS
           m == IF Len(sack) >= q + 1 THEN Len(sack) ELSE q + 1
           v == WithBit(q, r)
<1>1. q \in Nat /\ r \in 0 .. U8BITS - 1 /\ \A n \in Nat : d < n * U8BITS <=> q < n
  BY Place
<1>2. Len(sack) \in Nat /\ sack \in Seq(Octet)
  BY SackLength DEF Types
<1> HIDE DEF q, r
<1>3. m \in Nat /\ q < m /\ Max({Len(sack), q + 1}) = m
  BY <1>1, <1>2, MaxOfTwo
<1>4. d < m * U8BITS
  BY <1>1, <1>3
<1>5. v = [b \in 1 .. m |->
             (IF b <= Len(sack) THEN sack[b] ELSE {}) \cup (IF b = q + 1 THEN {r} ELSE {})]
  BY <1>3 DEF WithBit
<1>6. ASSUME NEW b \in 1 .. m
      PROVE  (IF b <= Len(sack) THEN sack[b] ELSE {}) \cup (IF b = q + 1 THEN {r} ELSE {})
               \in Octet
  <2>1. b <= Len(sack) => sack[b] \in Octet
    BY <1>2, <1>3
  <2> QED
    BY <1>1, <2>1 DEF Octet
<1>7. v \in [1 .. m -> Octet]
  BY <1>5, <1>6
<1>8. v \in Seq(Octet) /\ Len(v) = m
  BY <1>3, <1>7
<1> QED
  BY <1>4, <1>5, <1>8 DEF q, r

LEMMA BuildNextStep ==
  ASSUME SackInv, BuildNext
  PROVE  SackInv'
<1> DEFINE n == Min(todo)
           d == n - last_acked - 1
<1>1. Types /\ pc = "build" /\ BitsAre /\ Covers /\ Tight
  BY DEF SackInv, BuildNext, Building
<1>2. n \in todo /\ n \in out_of_order /\ n \in Nat /\ last_acked \in Nat
  <2>1. todo # {} /\ todo \in SUBSET Nat /\ todo \subseteq out_of_order /\ last_acked \in Nat
    BY <1>1 DEF BuildNext, Types, SeqNr
  <2>2. Min(todo) \in todo
    BY <2>1, MinIsLeast
  <2> QED
    BY <2>1, <2>2
<1>3. /\ todo' = todo \ {n}
      /\ sack' = IF n > last_acked THEN WithBit(d \div U8BITS, d % U8BITS) ELSE sack
      /\ UNCHANGED <<last_acked, out_of_order, newest, pc, next_index, ack_packets, result>>
  BY DEF BuildNext, peers
<1> HIDE DEF n
<1>4. CASE n <= last_acked
  <2>1. sack' = sack /\ end_index' = end_index /\ Types'
    BY <1>1, <1>2, <1>3, <1>4 DEF end_index, Types
  <2>2. BitsAre'
    BY <1>1, <1>2, <1>3, <1>4, <2>1, SackLength DEF BitsAre, Bit
  <2>3. Covers'
    BY <1>1, <1>2, <1>3, <1>4, <2>1 DEF Covers, Ahead, Types, SeqNr
  <2>4. Tight'
    BY <1>1, <1>3, <2>1 DEF Tight, Ahead, NeededBy
  <2> QED
    BY <1>1, <1>3, <2>1, <2>2, <2>3, <2>4 DEF SackInv, Building, Reading
<1>5. CASE n > last_acked
  <2> DEFINE q == d \div U8BITS
             r == d % U8BITS
             m == IF Len(sack) >= q + 1 THEN Len(sack) ELSE q + 1
  <2>1. d \in Nat /\ last_acked + 1 + d = n
    BY <1>1, <1>2, <1>5, Distance
  <2>2. /\ sack' \in Seq(Octet) /\ Len(sack') = m /\ d < m * U8BITS
        /\ \A k \in 1 .. m :
             sack'[k] = (IF k <= Len(sack) THEN sack[k] ELSE {})
                          \cup (IF k = q + 1 THEN {r} ELSE {})
    BY <1>1, <1>3, <1>5, <2>1, WithBitIs
  <2> HIDE DEF d
  <2>3. q \in Nat /\ Len(sack) \in Nat /\ m \in Nat /\ q < m
    <3>1. q \in Nat
      BY <2>1, PlaceType
    <3>2. Len(sack) \in Nat
      BY <1>1, SackLength
    <3> QED
      BY <3>1, <3>2
  <2>4. Types'
    BY <1>1, <1>3, <2>2 DEF Types
  <2>5. end_index' \in Nat /\ end_index' = m * U8BITS /\ end_index \in Nat
        /\ end_index = Len(sack) * U8BITS /\ end_index <= end_index'
    <3>1. Len(sack) * U8BITS <= m * U8BITS
      <4>1. PICK k \in Nat : m = Len(sack) + k
        BY <2>3
      <4>2. m * U8BITS = Len(sack) * U8BITS + k * U8BITS /\ k * U8BITS \in Nat
            /\ Len(sack) * U8BITS \in Nat
        BY <2>3, <4>1, Constants
      <4> HIDE DEF m
      <4> QED
        BY <4>2
    <3> QED
      BY <1>1, <2>2, <2>3, <3>1, SackLength, Constants DEF end_index
  <2> HIDE DEF m
  <2>6. ASSUME NEW i \in 0 .. end_index' - 1
        PROVE  Bit(i)' <=> last_acked + 1 + i \in out_of_order \ todo'
    <3> DEFINE k == i \div U8BITS + 1
    <3>1. i \in Nat /\ i < m * U8BITS /\ k \in 1 .. m /\ i % U8BITS \in 0 .. U8BITS - 1
      <4>1. i \in Nat /\ i < m * U8BITS
        BY <2>5
      <4>2. i \div U8BITS \in Nat /\ i \div U8BITS < m
        BY <2>3, <4>1, PlaceType, PlaceBelow
      <4>3. k \in 1 .. m
        <5> DEFINE j == i \div U8BITS
        <5>1. j \in Nat /\ j < m /\ m \in Nat
          BY <2>3, <4>2
        <5> HIDE DEF j
        <5>2. j + 1 \in 1 .. m
          BY <5>1
        <5> QED
          BY <5>2 DEF j
      <4>4. i % U8BITS \in 0 .. U8BITS - 1
        BY <4>1, PlaceType
      <4> QED
        BY <4>1, <4>3, <4>4, Zenon
    <3>2. Bit(i)' <=> i % U8BITS \in sack'[k]
      BY DEF Bit
    <3>3. (k = q + 1 /\ i % U8BITS = r) <=> i = d
      <4>1. k = q + 1 <=> i \div U8BITS = q
        <5> DEFINE j == i \div U8BITS
        <5>1. j \in Nat /\ q \in Nat
          BY <2>3, <3>1, PlaceType
        <5> HIDE DEF j, q
        <5>2. j + 1 = q + 1 <=> j = q
          BY <5>1
        <5> QED
          BY <5>2 DEF j
      <4> QED
        BY <2>1, <3>1, <4>1, SamePlace
    <3>4. Bit(i)' <=> (k <= Len(sack) /\ i % U8BITS \in sack[k]) \/ i = d
      BY <2>2, <3>1, <3>2, <3>3
    <3>5. k <= Len(sack) <=> i < end_index
      <4>1. i < Len(sack) * U8BITS <=> i \div U8BITS < Len(sack)
        BY <2>3, <3>1, PlaceBelow
      <4>2. i \div U8BITS \in Nat
        BY <3>1, PlaceType
      <4> QED
        BY <2>3, <2>5, <4>1, <4>2
    <3>6. k <= Len(sack) /\ i % U8BITS \in sack[k]
            <=> last_acked + 1 + i \in out_of_order \ todo
      <4>1. CASE i < end_index
        BY <1>1, <2>5, <3>1, <3>5, <4>1 DEF BitsAre, Bit
      <4>2. CASE i >= end_index
        BY <1>1, <1>2, <2>5, <3>1, <3>5, <4>2 DEF Covers, Ahead
      <4> QED
        BY <2>5, <3>1, <4>1, <4>2
    <3>7. last_acked + 1 + i \in out_of_order \ todo'
            <=> last_acked + 1 + i \in out_of_order \ todo \/ i = d
      BY <1>2, <1>3, <2>1, <3>1
    <3> QED
      BY <3>4, <3>6, <3>7
  <2>7. BitsAre'
    BY <1>3, <2>6 DEF BitsAre
  <2>8. Covers'
    <3> SUFFICES ASSUME NEW x \in (Ahead \ todo)' PROVE (x - last_acked - 1 < end_index)'
      BY DEF Covers
    <3>1. x \in Ahead \ todo \/ x = n
      BY <1>3 DEF Ahead
    <3>2. x \in Nat /\ last_acked' = last_acked
      BY <1>1, <1>3 DEF Ahead, Types, SeqNr
    <3>3. CASE x \in Ahead \ todo
      BY <1>1, <1>2, <2>5, <3>2, <3>3 DEF Covers
    <3>4. CASE x = n
      BY <2>2, <2>5, <3>2, <3>4 DEF d
    <3> QED
      BY <3>1, <3>3, <3>4
  <2>9. Tight'
    <3> SUFFICES ASSUME NEW k \in 1 .. m PROVE \E x \in Ahead : NeededBy(k, x)
      BY <1>3, <2>2 DEF Tight, Ahead, NeededBy
    <3>1. CASE k <= Len(sack)
      BY <1>1, <2>3, <3>1 DEF Tight
    <3>2. CASE k > Len(sack)
      <4>1. k \in Nat /\ k - 1 \in Nat /\ k - 1 <= q
        BY <2>3, <3>2 DEF m
      <4>2. ((k - 1) \div WordBytes) * WordBytes <= k - 1
            /\ ((k - 1) \div WordBytes) * WordBytes \in Nat
        BY <4>1, Constants
      <4> DEFINE y == ((k - 1) \div WordBytes) * WordBytes
      <4>3. y \in Nat /\ y <= q
        BY <2>3, <4>1, <4>2
      <4> HIDE DEF y
      <4>4. y * U8BITS <= q * U8BITS /\ q * U8BITS <= d /\ y * U8BITS \in Nat
            /\ q * U8BITS \in Nat
        <5>1. d = U8BITS * q + r /\ r \in Nat
          BY <2>1, Place, Constants
        <5>2. PICK z \in Nat : q = y + z
          BY <2>3, <4>3
        <5>3. q * U8BITS = y * U8BITS + z * U8BITS /\ z * U8BITS \in Nat /\ y * U8BITS \in Nat
          BY <2>3, <4>3, <5>2, Constants
        <5> HIDE DEF q, r
        <5> QED
          BY <2>3, <5>1, <5>3, Constants
      <4>5. n \in Ahead /\ n - last_acked > y * U8BITS
        BY <1>2, <1>5, <2>1, <2>3, <4>4 DEF Ahead
      <4> QED
        BY <4>5 DEF NeededBy, y
    <3> QED
      BY <2>3, <3>1, <3>2
  <2> QED
    BY <1>1, <1>3, <2>4, <2>7, <2>8, <2>9 DEF SackInv, Building, Reading
<1> QED
  BY <1>2, <1>4, <1>5

LEMMA EndBuildStep ==
  ASSUME SackInv, EndBuild
  PROVE  SackInv'
<1>1. /\ pc = "build" /\ pc' = "pad" /\ todo = {}
      /\ UNCHANGED <<last_acked, out_of_order, newest, todo, sack, next_index, ack_packets, result>>
  BY DEF EndBuild, peers
<1>2. Types'
  BY <1>1 DEF SackInv, Types, Building
<1>3. BitsAre' /\ Covers' /\ Tight'
  BY <1>1 DEF SackInv, Building, BitsAre, Bit, end_index, Covers, Ahead, Tight, NeededBy
<1> QED
  BY <1>1, <1>2, <1>3 DEF SackInv, Building, Reading

\* A byte without a bit is added: its bits name no stored number, and the last
\* byte is in the same word.
LEMMA PadStep ==
  ASSUME SackInv, Pad
  PROVE  SackInv'
<1>1. /\ pc = "pad" /\ Types /\ BitsAre /\ Covers /\ Tight
      /\ UNCHANGED <<last_acked, out_of_order, newest, todo, next_index, ack_packets, result>>
  BY DEF Pad, peers, SackInv, Building
<1>2. CASE Full(Len(sack)) /\ pc' = "built" /\ UNCHANGED sack
  <2>1. Types'
    BY <1>1, <1>2 DEF Types, Building
  <2>2. BitsAre' /\ Covers' /\ Tight'
    BY <1>1, <1>2 DEF BitsAre, Bit, end_index, Covers, Ahead, Tight, NeededBy
  <2> QED
    BY <1>1, <1>2, <2>1, <2>2 DEF SackInv, Building, Reading
<1>3. CASE ~ Full(Len(sack)) /\ sack' = Append(sack, {}) /\ UNCHANGED pc
  <2>1. /\ Len(sack) \in Nat /\ Len(sack') = Len(sack) + 1 /\ sack' \in Seq(Octet)
        /\ sack'[Len(sack) + 1] = {} /\ \A k \in 1 .. Len(sack) : sack'[k] = sack[k]
    BY <1>1, <1>3 DEF Types, Octet
  <2>2. Types'
    BY <1>1, <1>3, <2>1 DEF Types
  <2>3. end_index' = end_index + U8BITS /\ end_index \in Nat /\ end_index' \in Nat
    BY <1>1, <2>1, SackLength, Constants DEF end_index
  <2>4. ASSUME NEW i \in 0 .. end_index' - 1
        PROVE  Bit(i)' <=> last_acked + 1 + i \in out_of_order \ todo
    <3>1. i \in Nat
      BY <2>3
    <3>2. CASE i < end_index
      <4>1. i \div U8BITS + 1 \in 1 .. Len(sack)
        BY <1>1, <2>3, <3>1, <3>2, EndIndexType DEF Types
      <4>2. Bit(i)' <=> Bit(i)
        BY <2>1, <4>1 DEF Bit
      <4> QED
        BY <1>1, <2>3, <3>1, <3>2, <4>2 DEF BitsAre
    <3>3. CASE i >= end_index
      <4> DEFINE k == i \div U8BITS + 1
      <4>1. k \in 1 .. Len(sack')
        <5>1. Len(sack') \in Nat /\ i < Len(sack') * U8BITS
          BY <2>1, <2>3 DEF end_index
        <5> QED
          BY <3>1, <5>1, ByteIn
      <4>2. ~ (i \div U8BITS < Len(sack))
        BY <1>1, <2>1, <2>3, <3>1, <3>3, PlaceBelow, SackLength
      <4>3. i \div U8BITS \in Nat
        BY <3>1, PlaceType
      <4>4. k = Len(sack) + 1
        <5> DEFINE j == i \div U8BITS
        <5>1. j \in Nat /\ j + 1 \in 1 .. Len(sack) + 1 /\ ~ (j < Len(sack))
          BY <2>1, <4>1, <4>2, <4>3
        <5> HIDE DEF j
        <5>2. j + 1 = Len(sack) + 1
          BY <2>1, <5>1
        <5> QED
          BY <5>2 DEF j
      <4>5. ~ Bit(i)'
        BY <2>1, <4>4 DEF Bit
      <4>6. last_acked + 1 + i \notin out_of_order \ todo
        <5> SUFFICES ASSUME last_acked + 1 + i \in out_of_order \ todo PROVE FALSE
          OBVIOUS
        <5>1. last_acked \in Nat
          BY <1>1 DEF Types, SeqNr
        <5> DEFINE n == last_acked + 1 + i
        <5>2. n \in Ahead \ todo /\ n - last_acked - 1 = i
          BY <3>1, <5>1 DEF Ahead
        <5> HIDE DEF n
        <5>3. n - last_acked - 1 < end_index
          BY <1>1, <5>2 DEF Covers
        <5> QED
          BY <2>3, <3>1, <3>3, <5>1, <5>2, <5>3
      <4> QED
        BY <4>5, <4>6
    <3> QED
      BY <2>3, <3>1, <3>2, <3>3
  <2>5. BitsAre'
    BY <1>1, <2>4 DEF BitsAre
  <2>6. Covers'
    BY <1>1, <2>3, Constants DEF Covers, Ahead, Types, SeqNr
  <2>7. ASSUME NEW k \in 1 .. Len(sack') PROVE \E n \in Ahead : NeededBy(k, n)
    <3>1. CASE k <= Len(sack)
      BY <1>1, <2>1, <3>1 DEF Tight
    <3>2. CASE k = Len(sack) + 1
      <4>1. Len(sack) # 0 /\ Len(sack) % WordBytes # 0
        BY <1>3, <2>1, Constants DEF Full
      <4>2. (Len(sack) - 1) \div WordBytes = Len(sack) \div WordBytes
        BY SMTT(30), <2>1, <4>1, Constants
      <4>3. PICK n \in Ahead : NeededBy(Len(sack), n)
        BY <1>1, <2>1, <4>1 DEF Tight
      <4>4. k - 1 = Len(sack)
        BY <2>1, <3>2
      <4> QED
        BY <4>2, <4>3, <4>4 DEF NeededBy
    <3> QED
      BY <2>1, <3>1, <3>2
  <2>8. Tight'
    BY <1>1, <2>7 DEF Tight, Ahead, NeededBy
  <2> QED
    BY <1>1, <1>3, <2>2, <2>5, <2>6, <2>8 DEF SackInv, Building, Reading
<1> QED
  BY <1>2, <1>3 DEF Pad

-----------------------------------------------------------------------------
(* The datagram and the sender's loop.                                     *)

LEMMA AnnouncedType ==
  ASSUME Types
  PROVE  Announced \in 0 .. Len(sack)
<1> DEFINE x == Len(sack)
<1>1. x \in Nat /\ LenMod \in Nat \ {0}
  BY SackLength, Constants
<1> HIDE DEF x
<1>2. x % LenMod \in 0 .. x
  BY <1>1
<1> QED
  BY <1>2 DEF Announced, x

LEMMA ReceiveStep ==
  ASSUME SackInv, Receive
  PROVE  SackInv'
<1>1. /\ pc = "built" /\ Types /\ BitsAre /\ todo = {}
      /\ next_index = 0 /\ ack_packets = {} /\ result = {}
      /\ pc' = (IF Announced # 0 /\ Arrives THEN "read" ELSE "rejected")
      /\ sack' = SubSeq(sack, 1, Announced)
      /\ UNCHANGED <<last_acked, out_of_order, newest, todo, next_index, ack_packets, result>>
  BY DEF Receive, peers, SackInv, Building, Types
<1>2. Announced \in 0 .. Len(sack) /\ Len(sack) \in Nat /\ sack \in Seq(Octet)
  BY <1>1, AnnouncedType, SackLength DEF Types
<1>3. /\ sack' \in Seq(Octet) /\ Len(sack') = Announced
      /\ \A k \in 1 .. Announced : sack'[k] = sack[k]
  BY <1>1, <1>2
<1>4. Types'
  BY <1>1, <1>3 DEF Types, Building, Reading
<1>5. end_index' \in Nat /\ end_index \in Nat /\ end_index' <= end_index
      /\ end_index' = Announced * U8BITS
  <2>1. PICK k \in Nat : Len(sack) = Announced + k
    BY <1>2
  <2>2. Len(sack) * U8BITS = Announced * U8BITS + k * U8BITS /\ k * U8BITS \in Nat
        /\ Announced * U8BITS \in Nat
    BY <1>2, <2>1, Constants
  <2> QED
    BY <1>1, <1>3, <2>2, SackLength DEF end_index
<1>6. ASSUME NEW i \in 0 .. end_index' - 1
      PROVE  Bit(i)' <=> last_acked + 1 + i \in out_of_order \ todo
  <2>1. i \div U8BITS + 1 \in 1 .. Announced
    <3>1. i \in Nat /\ i < Announced * U8BITS /\ Announced \in Nat
      BY <1>2, <1>5
    <3> QED
      BY <3>1, ByteIn
  <2>2. Bit(i)' <=> Bit(i)
    BY <1>3, <2>1 DEF Bit
  <2> QED
    BY <1>1, <1>5, <2>2 DEF BitsAre
<1>7. BitsAre'
  BY <1>1, <1>6 DEF BitsAre
<1>8. CASE Announced # 0 /\ Arrives
  <2>1. Announced <= Room
    BY <1>2, <1>8, MinOfTwo, Constants DEF Arrives
  <2>2. end_index' <= Room * U8BITS
    <3>1. PICK k \in Nat : Room = Announced + k
      BY <1>2, <2>1, Constants
    <3>2. Room * U8BITS = Announced * U8BITS + k * U8BITS /\ k * U8BITS \in Nat
          /\ Announced * U8BITS \in Nat
      BY <1>2, <3>1, Constants
    <3> QED
      BY <1>5, <3>2
  <2>3. last_acked \in Nat /\ Number' = last_acked + 1
    BY <1>1 DEF Number, Types, SeqNr
  <2>4. AckedSoFar'
    <3>1. ASSUME NEW n \in Ahead PROVE ~ (n < Number')
      BY <1>1, <2>3, <3>1 DEF Ahead, Types, SeqNr
    <3> QED
      BY <1>1, <3>1 DEF AckedSoFar, Ahead
  <2>5. LostSoFar'
    BY <1>1, <2>3 DEF LostSoFar
  <2> QED
    BY <1>1, <1>4, <1>5, <1>7, <1>8, <2>2, <2>4, <2>5 DEF SackInv, Building, Reading
<1>9. CASE ~ (Announced # 0 /\ Arrives)
  BY <1>1, <1>4, <1>7, <1>9 DEF SackInv, Building, Reading
<1> QED
  BY <1>8, <1>9

\* The number of a bit is a stored one, a missing one, or past the end of u16;
\* then it comes out at or below last_acked.
LEMMA ReadBitStep ==
  ASSUME SackInv, ReadBit
  PROVE  SackInv'
<1> DEFINE i == next_index
           n == Number % U16
<1>1. /\ pc = "read" /\ newest # NoPacket /\ i # end_index
      /\ Types /\ BitsAre /\ todo = {} /\ AckedSoFar /\ LostSoFar
      /\ end_index <= Room * U8BITS /\ i <= end_index
      /\ UNCHANGED <<last_acked, out_of_order, newest, pc, todo, sack>>
  BY DEF ReadBit, peers, SackInv, Building, Reading, Types
<1>2. /\ ack_packets' = ack_packets \cup {m \in {n} : m < newest /\ Bit(i)}
      /\ result' = result \cup {m \in {n} : m < newest /\ ~ Bit(i)}
      /\ i' = i + 1
  BY DEF ReadBit
<1>3. /\ end_index \in Nat /\ end_index' = end_index /\ i \in Nat /\ i < end_index
      /\ last_acked \in Nat /\ last_acked < U16 /\ U16 \in Nat \ {0} /\ i < U16
      /\ newest \in Nat /\ newest < U16
      /\ Number = last_acked + 1 + i /\ Number' = last_acked + 1 + (i + 1)
  <2>1. end_index \in Nat /\ end_index' = end_index
    BY <1>1, SackLength DEF end_index
  <2> QED
    BY <1>1, <1>2, <2>1, Constants DEF Types, SeqNr, NoPacket, Number
<1>4. Bit(i) <=> Number \in out_of_order
  BY <1>1, <1>3 DEF BitsAre
<1>5. Number \in Nat /\ Number > last_acked /\ Number' = Number + 1
  BY <1>3
<1>6. IF Number < U16 THEN n = Number ELSE n \in Nat /\ n <= last_acked /\ Number \notin out_of_order
  <2>1. CASE Number < U16
    BY <1>3, <1>5, <2>1
  <2>2. CASE Number >= U16
    <3>1. Number - U16 \in 0 .. U16 - 1 /\ Number - U16 <= last_acked
      BY <1>3, <2>2
    <3> DEFINE x == Number
    <3>2. x \in Nat /\ x - U16 \in 0 .. U16 - 1
      BY <1>5, <3>1
    <3> HIDE DEF x
    <3>3. x % U16 = x - U16
      BY <1>3, <3>2
    <3>4. Number \notin out_of_order
      BY <1>1, <1>3, <2>2 DEF Types, SeqNr
    <3> QED
      BY <1>3, <1>5, <2>2, <3>1, <3>3, <3>4 DEF x
  <2> QED
    BY <1>3, <1>5, <2>1, <2>2
<1> HIDE DEF n
<1>7. Types' /\ BitsAre'
  <2>1. Types'
    BY <1>1, <1>2, <1>3 DEF Types
  <2>2. BitsAre'
    <3>1. \A j : Bit(j)' <=> Bit(j)
      BY <1>1, Zenon DEF Bit
    <3> QED
      BY <1>1, <1>3, <3>1 DEF BitsAre
  <2> QED
    BY <2>1, <2>2
<1>8. \A x \in Ahead : x \in Nat /\ x > last_acked /\ x < U16
  BY <1>1, <1>3 DEF Ahead, Types, SeqNr
<1>9. Number \in out_of_order <=> Number \in Ahead
  BY <1>5 DEF Ahead
<1>10. AckedSoFar'
  <2>1. {m \in {n} : m < newest /\ Bit(i)} = {x \in Ahead : x < newest /\ x = Number}
    BY <1>4, <1>6, <1>9
  <2>2. ack_packets' = {x \in Ahead : x < newest /\ x < Number'}
    BY <1>1, <1>2, <1>5, <1>8, <2>1 DEF AckedSoFar
  <2> QED
    BY <1>1, <2>2 DEF AckedSoFar, Ahead
<1>11. LostSoFar'
  <2>1. result' \cap Ahead = {}
    <3>1. ~ Bit(i) => n \notin Ahead
      BY <1>3, <1>4, <1>6, <1>8, <1>9
    <3> QED
      BY <1>1, <1>2, <3>1 DEF LostSoFar
  <2>2. ASSUME NEW x \in last_acked + 1 .. last_acked + i', x < newest, x \in SeqNr \ Ahead
        PROVE  x \in result'
    <3>1. CASE x <= last_acked + i
      BY <1>1, <1>2, <1>3, <2>2, <3>1 DEF LostSoFar
    <3>2. CASE x = Number
      BY <1>2, <1>3, <1>4, <1>6, <1>9, <2>2, <3>2
    <3> QED
      BY <1>2, <1>3, <3>1, <3>2
  <2>3. ASSUME NEW x \in result'
        PROVE  x \in Nat /\ (x <= last_acked \/ (x < Number' /\ x < newest))
    <3>1. CASE x \in result
      BY <1>1, <1>3, <1>5, <3>1 DEF LostSoFar
    <3>2. CASE x = n /\ n < newest
      BY <1>3, <1>5, <1>6, <3>2
    <3> QED
      BY <1>2, <2>3, <3>1, <3>2
  <2>4. (last_acked + 1 .. last_acked + next_index)' = last_acked + 1 .. last_acked + i'
    BY <1>1
  <2> QED
    BY <1>1, <2>1, <2>2, <2>3, <2>4 DEF LostSoFar, Ahead
<1> QED
  BY <1>1, <1>2, <1>3, <1>7, <1>10, <1>11 DEF SackInv, Building, Reading

LEMMA ReadPanicStep ==
  ASSUME SackInv, ReadPanic
  PROVE  SackInv'
<1>1. /\ pc = "read" /\ newest # NoPacket /\ Number = U16 /\ pc' = "panic"
      /\ next_index # end_index
      /\ UNCHANGED <<last_acked, out_of_order, newest, todo, sack, next_index, ack_packets, result>>
  BY DEF ReadPanic, peers
<1>2. Types' /\ BitsAre'
  BY <1>1 DEF SackInv, Types, Building, Reading, BitsAre, Bit, end_index
<1>3. next_index < end_index
  BY <1>1, SackLength DEF SackInv, Reading, Types
<1> QED
  BY <1>1, <1>2, <1>3 DEF SackInv, Building, Reading, end_index, AckedSoFar, LostSoFar, Ahead, Number

LEMMA EndReadStep ==
  ASSUME SackInv, EndRead
  PROVE  SackInv'
<1>1. /\ pc = "read" /\ (newest = NoPacket \/ next_index = end_index) /\ pc' = "done"
      /\ UNCHANGED <<last_acked, out_of_order, newest, todo, sack, next_index, ack_packets, result>>
  BY DEF EndRead, peers
<1>2. Types' /\ BitsAre'
  BY <1>1 DEF SackInv, Types, Building, Reading, BitsAre, Bit, end_index
<1> QED
  BY <1>1, <1>2 DEF SackInv, Building, Reading, end_index, AckedSoFar, LostSoFar, Ahead, Number

LEMMA SackStutter ==
  ASSUME SackInv, UNCHANGED vars
  PROVE  SackInv'
BY DEF SackInv, vars, peers, Types, BitsAre, Bit, end_index, Covers, Tight, NeededBy, Ahead,
       AckedSoFar, LostSoFar, Number

-----------------------------------------------------------------------------
(* The theorems.                                                           *)

\* The invariant of the loops holds, for all sizes and all stored numbers.
THEOREM SackInvHolds == Spec => []SackInv
<1>1. Init => SackInv
  BY InitSack
<1>2. SackInv /\ [Next]_vars => SackInv'
  BY BuildNextStep, EndBuildStep, PadStep, ReceiveStep, ReadBitStep, ReadPanicStep,
     EndReadStep, SackStutter DEF Next
<1> QED
  BY <1>1, <1>2, PTL DEF Spec

\* The selective ack names exactly the stored numbers, in whole words and in no
\* more of them than the farthest number needs (build_selective_ack).
THEOREM SackIsExact == Spec => []BitsNameTheStored
<1>1. ASSUME SackInv, pc = "built"
      PROVE  /\ {i \in 0 .. end_index - 1 : Bit(i)} = {n - last_acked - 1 : n \in Ahead}
             /\ Len(sack) % WordBytes = 0
             /\ \A k \in 1 .. Len(sack) :
                  \E n \in Ahead :
                    n - last_acked > ((k - 1) \div WordBytes) * WordBytes * U8BITS
  <2>1. Types /\ todo = {} /\ BitsAre /\ Covers /\ Tight /\ Full(Len(sack))
    BY <1>1 DEF SackInv, Building, Types
  <2>2. ASSUME NEW i \in 0 .. end_index - 1, Bit(i)
        PROVE  i \in {n - last_acked - 1 : n \in Ahead}
    <3> DEFINE n == last_acked + 1 + i
    <3>1. n \in out_of_order /\ last_acked \in Nat /\ i \in Nat
      BY <2>1, <2>2, SackLength DEF BitsAre, Types, SeqNr
    <3>2. n \in Ahead /\ i = n - last_acked - 1
      BY <3>1 DEF Ahead
    <3> QED
      BY <3>2
  <2>3. ASSUME NEW n \in Ahead
        PROVE  n - last_acked - 1 \in {i \in 0 .. end_index - 1 : Bit(i)}
    <3> DEFINE i == n - last_acked - 1
    <3>1. i \in Nat /\ last_acked + 1 + i = n /\ n \in out_of_order
      BY <2>1, Distance DEF Ahead
    <3>2. i < end_index
      BY <2>1 DEF Covers
    <3> HIDE DEF i
    <3>3. i \in 0 .. end_index - 1 /\ Bit(i)
      BY <2>1, <3>1, <3>2, SackLength DEF BitsAre
    <3> QED
      BY <3>3 DEF i
  <2>4. Len(sack) % WordBytes = 0
    BY <2>1 DEF Full
  <2> QED
    BY <2>1, <2>2, <2>3, <2>4 DEF Tight, NeededBy
<1>2. SackInv => BitsNameTheStored
  BY <1>1 DEF BitsNameTheStored
<1> QED
  BY <1>2, SackInvHolds, PTL

LEMMA JudgedIs ==
  ASSUME SackInv, pc \in Reading, NEW n \in Nat, newest # NoPacket
  PROVE  n \in Judged <=> last_acked < n /\ n <= last_acked + end_index /\ n < newest
BY SackLength DEF SackInv, Judged, Types, SeqNr

\* What the sender takes out of its window is what the receiver stored, within
\* the announced length and below the newest packet (get_lost_seq_nr).
THEOREM AcksAreExact == Spec => []AcksAreTheStored
<1>1. ASSUME SackInv, pc = "done", newest # NoPacket
      PROVE  ack_packets = Ahead \cap Judged
  <2>1. /\ Types /\ AckedSoFar /\ next_index = end_index /\ end_index \in Nat
        /\ last_acked \in Nat /\ Number = last_acked + 1 + end_index
    BY <1>1, SackLength DEF SackInv, Reading, Number, Types, SeqNr
  <2>2. ASSUME NEW n \in Ahead
        PROVE  n < newest /\ n < Number <=> n \in Judged
    <3>1. n \in Nat /\ n > last_acked
      BY <2>1 DEF Ahead, Types, SeqNr
    <3> QED
      BY <1>1, <2>1, <3>1, JudgedIs DEF Reading
  <2> QED
    BY <2>1, <2>2 DEF AckedSoFar
<1>2. SackInv => AcksAreTheStored
  BY <1>1 DEF AcksAreTheStored
<1> QED
  BY <1>2, SackInvHolds, PTL

\* What the sender sends again is not stored ahead, and nothing that is missing
\* within the ack is left out (get_lost_seq_nr).
THEOREM LostAreMissing == Spec => []LostAreTheMissing
<1>1. ASSUME SackInv, pc = "done", newest # NoPacket
      PROVE  /\ result \cap Ahead = {}
             /\ (Judged \cap SeqNr) \ Ahead \subseteq result
             /\ \A n \in result : n \in Judged \/ n <= last_acked
  <2>1. /\ Types /\ LostSoFar /\ next_index = end_index /\ end_index \in Nat
        /\ last_acked \in Nat /\ Number = last_acked + 1 + end_index
    BY <1>1, SackLength DEF SackInv, Reading, Number, Types, SeqNr
  <2>2. ASSUME NEW n \in Judged, n \in SeqNr \ Ahead PROVE n \in result
    <3>1. n \in last_acked + 1 .. last_acked + next_index /\ n < newest
      BY <2>1 DEF Judged
    <3> QED
      BY <2>1, <2>2, <3>1 DEF LostSoFar
  <2>3. ASSUME NEW n \in result PROVE n \in Judged \/ n <= last_acked
    BY <1>1, <2>1, JudgedIs DEF LostSoFar, Reading
  <2> QED
    BY <2>1, <2>2, <2>3 DEF LostSoFar
<1>2. SackInv => LostAreTheMissing
  BY <1>1 DEF LostAreTheMissing
<1> QED
  BY <1>2, SackInvHolds, PTL

\* The debug build overflows only within a buffer's length of the end of u16,
\* after every stored number was judged.
THEOREM PanicsComeLate == Spec => []PanicsAtTheEndOnly
<1>1. ASSUME SackInv, pc = "panic"
      PROVE  /\ last_acked + Room * U8BITS >= U16
             /\ \A n \in Ahead : n < newest => n \in ack_packets
  <2>1. /\ Types /\ AckedSoFar /\ Number = U16 /\ next_index < end_index
        /\ end_index <= Room * U8BITS /\ end_index \in Nat /\ next_index \in Nat
        /\ last_acked \in Nat /\ Number = last_acked + 1 + next_index
    BY <1>1, SackLength DEF SackInv, Reading, Number, Types, SeqNr
  <2>2. last_acked + Room * U8BITS >= U16
    BY <2>1, Constants
  <2>3. \A n \in Ahead : n < Number
    BY <2>1, Constants DEF Ahead, Types, SeqNr
  <2> QED
    BY <2>1, <2>2, <2>3 DEF AckedSoFar
<1>2. SackInv => PanicsAtTheEndOnly
  BY <1>1 DEF PanicsAtTheEndOnly
<1> QED
  BY <1>2, SackInvHolds, PTL

-----------------------------------------------------------------------------
(* The abstract exchange, for a buffer of one word.                        *)

\* What has been read so far, in terms of the bits the ack stands for.
Bits == Exchange!Bits
Passed == 0 .. next_index - 1
NumbersOf(S) == {Exchange!SackNr(last_acked, i) : i \in S}
ReadInv ==
  /\ pc \in Reading =>
       /\ end_index = WordBytes * U8BITS
       /\ Bits # {} /\ Exchange!Decodable(Bits)
  /\ pc \in Reading /\ newest # NoPacket =>
       /\ ack_packets = Exchange!BelowNewest(NumbersOf(Passed \cap Bits))
       /\ result = Exchange!BelowNewest(NumbersOf(Passed \ Bits))
  /\ newest = NoPacket => ack_packets = {} /\ result = {}
ExchangeInv == SackInv /\ ReadInv

\* As in the code: 26 bytes are a header, two bytes before an extension and four
\* of selective ack, and a length byte has more values than a word has bytes.
OneWordRoom == Room = WordBytes /\ LenMod > WordBytes

\* A quotient and a remainder that fit are the quotient and the remainder.
LEMMA QuotientIs ==
  ASSUME NEW d \in Nat \ {0}, NEW q \in Nat, NEW r \in Nat, r < d
  PROVE  (d * q + r) % d = r /\ (d * q + r) \div d = q
<1> DEFINE x == d * q + r
           Q == x \div d
           R == x % d
<1>1. x \in Nat
  OBVIOUS
<1>2. Q \in Nat /\ R \in Nat /\ R < d /\ x = d * Q + R
  <2> HIDE DEF x
  <2> QED
    BY <1>1
<1>3. x = d * q + r
  OBVIOUS
<1> HIDE DEF x, Q, R
<1>4. ~ (Q < q)
  <2> SUFFICES ASSUME Q < q PROVE FALSE
    OBVIOUS
  <2>1. PICK k \in Nat : q = Q + 1 + k
    <3>1. q - Q - 1 \in Nat
      BY <1>2
    <3> QED
      BY <1>2, <3>1
  <2>2. d * q = d * Q + d + d * k /\ d * k \in Nat /\ d * Q \in Nat
    BY <1>2, <2>1
  <2> QED
    BY <1>2, <1>3, <2>2
<1>5. ~ (q < Q)
  <2> SUFFICES ASSUME q < Q PROVE FALSE
    OBVIOUS
  <2>1. PICK k \in Nat : Q = q + 1 + k
    <3>1. Q - q - 1 \in Nat
      BY <1>2
    <3> QED
      BY <1>2, <3>1
  <2>2. d * Q = d * q + d + d * k /\ d * k \in Nat /\ d * q \in Nat
    BY <1>2, <2>1
  <2> QED
    BY <1>2, <1>3, <2>2
<1>6. Q = q
  BY <1>2, <1>4, <1>5
<1>7. R = r
  <2>1. d * q \in Nat
    OBVIOUS
  <2> QED
    BY <1>2, <1>3, <1>6, <2>1
<1> QED
  BY <1>6, <1>7 DEF x, Q, R

\* A bounded set of naturals that is not empty has a largest element.
LEMMA LargestBit ==
  ASSUME NEW S \in SUBSET Nat, S # {}, NEW b \in Nat, \A i \in S : i < b
  PROVE  \E i \in S : \A j \in S : j <= i
<1> DEFINE T == {b - i : i \in S}
<1>1. T \in SUBSET Nat /\ T # {}
  <2>1. \A i \in S : b - i \in Nat
    OBVIOUS
  <2> QED
    BY <2>1
<1>2. PICK x \in T : \A t \in T : x <= t
  <2> DEFINE R == {ss \in Nat \X Nat : ss[1] < ss[2]}
  <2>1. IsWellFoundedOn(R, Nat)
    BY NatLessThanWellFounded, Zenon DEF OpToRel
  <2> HIDE DEF T
  <2>2. PICK x \in T : \A y \in T : ~ (<<y, x>> \in R)
    <3> HIDE DEF R
    <3> QED
      BY <1>1, <2>1, WFMin
  <2>3. ASSUME NEW y \in T PROVE x <= y
    <3>1. <<y, x>> \in Nat \X Nat /\ <<y, x>>[1] = y /\ <<y, x>>[2] = x
      BY <1>1
    <3> QED
      BY <1>1, <2>2, <3>1
  <2> QED
    BY <2>3
<1>3. PICK i \in S : x = b - i
  BY <1>2
<1>4. ASSUME NEW j \in S PROVE j <= i
  <2>1. b - i <= b - j
    BY <1>2, <1>3
  <2> QED
    BY <2>1
<1> QED
  BY <1>4

\* The length byte counts words as well as bytes.
LEMMA WordsOfMod ==
  ASSUME NEW b \in Nat \ {0}, NEW m \in Nat \ {0}, NEW w \in Nat
  PROVE  (b * w) % (b * m) = b * (w % m)
<1> DEFINE q == w \div m
           r == w % m
<1>1. q \in Nat /\ r \in Nat /\ r < m /\ w = m * q + r
  OBVIOUS
<1> HIDE DEF q, r
<1>2. PICK k \in Nat : m = r + 1 + k
  <2>1. m - r - 1 \in Nat
    BY <1>1
  <2> QED
    BY <1>1, <2>1
<1>3. b * m = b * r + b + b * k /\ b * k \in Nat /\ b * r \in Nat /\ b * m \in Nat \ {0}
  BY <1>1, <1>2
<1>4. b * r < b * m
  <2> DEFINE x == b * m
             y == b * r
             z == b * k
  <2>1. x = y + b + z /\ z \in Nat /\ y \in Nat
    BY <1>3
  <2> HIDE DEF x, y, z
  <2>2. y < x
    BY <2>1
  <2> QED
    BY <2>2 DEF x, y
<1>5. b * w = (b * m) * q + b * r
  BY <1>1
<1>6. ((b * m) * q + b * r) % (b * m) = b * r
  <2> DEFINE x == b * m
             y == b * r
  <2>1. x \in Nat \ {0} /\ y \in Nat /\ y < x
    BY <1>3, <1>4
  <2> HIDE DEF x, y
  <2>2. (x * q + y) % x = y
    BY <1>1, <2>1, QuotientIs
  <2> QED
    BY <2>2 DEF x, y
<1> QED
  BY <1>5, <1>6 DEF r

\* w words are announced as one, modulo m, if those before the last are none.
LEMMA OneWordLeft ==
  ASSUME NEW m \in Nat, m > 1, NEW w \in Nat \ {0}
  PROVE  w % m = 1 <=> (w - 1) % m = 0
<1> DEFINE q == (w - 1) \div m
           r == (w - 1) % m
<1>1. q \in Nat /\ r \in Nat /\ r < m /\ w = m * q + r + 1
  OBVIOUS
<1> HIDE DEF q, r
<1>2. CASE r + 1 < m
  <2>1. (m * q + (r + 1)) % m = r + 1
    BY <1>1, <1>2, QuotientIs
  <2>2. w = m * q + (r + 1)
    BY <1>1
  <2> QED
    BY <1>1, <2>1, <2>2 DEF r
<1>3. CASE r + 1 = m
  <2>1. (m * (q + 1) + 0) % m = 0
    <3>1. q + 1 \in Nat
      BY <1>1
    <3> QED
      BY <3>1, QuotientIs
  <2>2. w = m * (q + 1) + 0
    BY <1>1, <1>3
  <2> QED
    BY <1>1, <1>3, <2>1, <2>2 DEF r
<1> QED
  BY <1>1, <1>2, <1>3

LEMMA BitsMean ==
  ASSUME Types
  PROVE  /\ Bits \in SUBSET Nat
         /\ \A i \in Nat : i \in Bits <=> last_acked + 1 + i \in out_of_order
<1>1. last_acked \in Nat /\ out_of_order \in SUBSET Nat
  BY DEF Types, SeqNr
<1>2. Bits = {n - last_acked - 1 : n \in {m \in out_of_order : m > last_acked}}
  BY DEF Bits, Exchange!Bits, Exchange!BitsOf
<1>3. Bits \in SUBSET Nat
  BY <1>1, <1>2
<1>4. ASSUME NEW i \in Nat, i \in Bits PROVE last_acked + 1 + i \in out_of_order
  <2>1. PICK n \in out_of_order : n > last_acked /\ i = n - last_acked - 1
    BY <1>2, <1>4
  <2>2. last_acked + 1 + i = n
    BY <1>1, <2>1
  <2> QED
    BY <2>1, <2>2
<1>5. ASSUME NEW i \in Nat, last_acked + 1 + i \in out_of_order PROVE i \in Bits
  <2> DEFINE n == last_acked + 1 + i
  <2>1. n \in out_of_order /\ n > last_acked /\ n - last_acked - 1 = i
    BY <1>1, <1>5
  <2> HIDE DEF n
  <2> QED
    BY <1>2, <2>1
<1> QED
  BY <1>3, <1>4, <1>5

\* The buffer and the length byte accept an ack when its last bit is in the
\* first of the words that the length byte can tell apart.
LEMMA AcceptedIsDecodable ==
  ASSUME OneWordRoom, SackInv, pc = "built", sack # << >>
  PROVE  /\ Bits # {}
         /\ Announced # 0 /\ Arrives <=> Exchange!Decodable(Bits)
         /\ Announced # 0 /\ Arrives => Announced = WordBytes
<1> DEFINE L == Len(sack)
           SW == WordBytes * U8BITS
           m == LenMod \div WordBytes
           w == L \div WordBytes
<1>1. Types /\ todo = {} /\ Covers /\ Tight /\ Full(Len(sack))
  BY DEF SackInv, Building, Types
<1>2. L \in Nat \ {0} /\ end_index = L * U8BITS
  BY <1>1, SackLength DEF Types
<1>3. /\ WordBytes \in Nat \ {0} /\ U8BITS \in Nat \ {0} /\ SW \in Nat \ {0}
      /\ LenMod \in Nat /\ LenMod % WordBytes = 0 /\ LenMod > WordBytes /\ Room = WordBytes
  BY Constants DEF OneWordRoom
<1>4. m \in Nat /\ m > 1 /\ LenMod = WordBytes * m
  <2>1. m \in Nat /\ LenMod = WordBytes * m
    BY <1>3
  <2>2. m # 0 /\ m # 1
    <3> HIDE DEF m
    <3> QED
      BY <1>3, <2>1
  <2> HIDE DEF m
  <2> QED
    BY <2>1, <2>2
<1>5. w \in Nat \ {0} /\ L = WordBytes * w
  <2>1. w \in Nat /\ L = WordBytes * w
    <3>1. L % WordBytes = 0
      BY <1>1 DEF Full
    <3> HIDE DEF L
    <3> QED
      BY <1>2, <1>3, <3>1
  <2>2. w # 0
    <3> HIDE DEF w, L
    <3> QED
      BY <1>2, <1>3, <2>1
  <2> QED
    BY <2>1, <2>2
<1> HIDE DEF m, w
<1>6. Announced = WordBytes * (w % m)
  <2>1. (WordBytes * w) % (WordBytes * m) = WordBytes * (w % m)
    <3>1. WordBytes \in Nat \ {0} /\ m \in Nat \ {0} /\ w \in Nat
      BY <1>3, <1>4, <1>5
    <3> QED
      BY Zenon, <3>1, WordsOfMod
  <2> QED
    BY <1>4, <1>5, <2>1 DEF Announced
<1>7. Announced # 0 /\ Arrives <=> w % m = 1
  <2> DEFINE x == w % m
  <2>1. Announced = WordBytes * x
    BY <1>6
  <2>2. x \in Nat
    BY <1>4, <1>5
  <2>3. WordBytes <= L
    <3> HIDE DEF L
    <3>1. PICK k \in Nat : w = k + 1
      <4>1. w - 1 \in Nat
        BY <1>5
      <4> QED
        BY <1>5, <4>1
    <3>2. L = WordBytes * k + WordBytes /\ WordBytes * k \in Nat
      BY <1>3, <1>5, <3>1
    <3> QED
      BY <1>3, <3>2
  <2>4. Min({Len(sack), Room}) = WordBytes
    BY <1>2, <1>3, <2>3, MinOfTwo
  <2> HIDE DEF x
  <2>5. WordBytes * x # 0 /\ WordBytes * x <= WordBytes <=> x = 1
    <3>1. CASE x = 0
      BY <1>3, <3>1
    <3>2. CASE x = 1
      BY <1>3, <3>2
    <3>3. CASE x > 1
      <4>1. PICK k \in Nat : x = k + 2
        <5>1. x - 2 \in Nat
          BY <2>2, <3>3
        <5> QED
          BY <2>2, <5>1
      <4>2. WordBytes * x = WordBytes * k + WordBytes + WordBytes /\ WordBytes * k \in Nat
        BY <1>3, <4>1
      <4> QED
        BY <1>3, <3>3, <4>2
    <3> QED
      BY <2>2, <3>1, <3>2, <3>3
  <2> QED
    BY <2>1, <2>4, <2>5 DEF Arrives, x
<1> HIDE DEF SW
<1>8. Bits \in SUBSET Nat /\ \A i \in Bits : i \in Nat /\ i \div SW < w
  <2>1. ASSUME NEW i \in Bits PROVE i \in Nat /\ i < w * SW
    <3>1. i \in Nat /\ last_acked + 1 + i \in out_of_order
      BY <1>1, BitsMean
    <3>2. last_acked \in Nat
      BY <1>1 DEF Types, SeqNr
    <3> DEFINE n == last_acked + 1 + i
    <3>3. n \in Ahead \ todo /\ n - last_acked - 1 = i
      BY <1>1, <3>1, <3>2 DEF Ahead
    <3> HIDE DEF n
    <3>4. i < end_index
      BY <1>1, <3>3 DEF Covers
    <3>5. w * SW = L * U8BITS
      <4> HIDE DEF L
      <4> QED
        BY <1>3, <1>5 DEF SW
    <3> QED
      BY <1>2, <3>1, <3>4, <3>5
  <2>2. ASSUME NEW i \in Nat, i < w * SW PROVE i \div SW < w
    BY <1>3, <1>5, <2>2, QuotientBelow
  <2> QED
    BY <1>1, <2>1, <2>2, BitsMean
<1>9. PICK d \in Bits : d \div SW >= w - 1
  <2>1. PICK n \in Ahead : n - last_acked > ((L - 1) \div WordBytes) * WordBytes * U8BITS
    BY <1>1, <1>2 DEF Tight, NeededBy
  <2>2. (L - 1) \div WordBytes = w - 1
    <3>1. w - 1 \in Nat /\ WordBytes - 1 \in Nat /\ WordBytes - 1 < WordBytes
      BY <1>3, <1>5
    <3>2. (WordBytes * (w - 1) + (WordBytes - 1)) \div WordBytes = w - 1
      BY <1>3, <3>1, QuotientIs
    <3>3. L - 1 = WordBytes * (w - 1) + (WordBytes - 1)
      BY <1>3, <1>5
    <3> QED
      BY <3>2, <3>3
  <2> DEFINE e == n - last_acked - 1
  <2>3. /\ e \in Nat /\ last_acked + 1 + e = n /\ n \in out_of_order
        /\ n \in Nat /\ last_acked \in Nat
    BY <1>1, Distance DEF Ahead
  <2>4. (w - 1) * SW \in Nat /\ (w - 1) * SW = (w - 1) * WordBytes * U8BITS
    BY <1>3, <1>5 DEF SW
  <2>5. e >= (w - 1) * SW
    <3>1. n - last_acked > (w - 1) * SW
      BY <2>1, <2>2, <2>4
    <3> QED
      BY <2>3, <2>4, <3>1
  <2> HIDE DEF e
  <2>6. e \in Bits
    BY <1>1, <2>3, BitsMean
  <2>7. e \div SW >= w - 1
    <3>1. w - 1 \in Nat
      BY <1>5
    <3> QED
      BY <1>3, <2>3, <2>5, <3>1, QuotientBelow
  <2> QED
    BY <2>6, <2>7
<1>10. ASSUME NEW i \in Bits, \A j \in Bits : j <= i
       PROVE  i \div SW = w - 1
  <2>1. i \in Nat /\ d \in Nat /\ d <= i /\ i \div SW < w
    BY <1>8, <1>10
  <2>2. i \div SW \in Nat /\ d \div SW \in Nat
    BY <1>3, <2>1
  <2>3. i \div SW >= w - 1
    <3>1. d >= (w - 1) * SW
      <4>1. w - 1 \in Nat
        BY <1>5
      <4> QED
        BY <1>3, <1>9, <2>1, <2>2, <4>1, QuotientBelow
    <3>2. i >= (w - 1) * SW /\ w - 1 \in Nat
      <4>1. (w - 1) * SW \in Nat
        BY <1>3, <1>5
      <4> QED
        BY <1>5, <2>1, <3>1, <4>1
    <3> QED
      BY <1>3, <2>1, <2>2, <3>2, QuotientBelow
  <2> QED
    BY <1>5, <2>1, <2>2, <2>3
<1>11. \E i \in Bits : \A j \in Bits : j <= i
  <2>1. \A j \in Bits : j < w * SW
    BY <1>3, <1>5, <1>8, QuotientBelow
  <2>2. w * SW \in Nat
    BY <1>3, <1>5
  <2> QED
    BY <1>8, <1>9, <2>1, <2>2, LargestBit
<1>12. Exchange!Decodable(Bits) <=> (w - 1) % m = 0
  BY <1>9, <1>10, <1>11 DEF Exchange!Decodable, SW, m
<1>13. w % m = 1 <=> (w - 1) % m = 0
  BY <1>4, <1>5, OneWordLeft
<1> QED
  BY <1>3, <1>6, <1>7, <1>9, <1>12, <1>13

LEMMA ExchangeKeeps ==
  ASSUME OneWordRoom, SackInv, ReadInv, Next
  PROVE  ReadInv'
<1> USE DEF Building, Reading
<1>1. Types /\ (pc # "build" => todo = {})
  BY DEF SackInv, Types
<1>2. Bits' = Bits /\ UNCHANGED <<last_acked, out_of_order, newest>>
  BY DEF Bits, Exchange!Bits, Next, BuildNext, EndBuild, Pad, Receive, ReadBit, ReadPanic,
         EndRead, peers
<1>3. Exchange!Decodable(Bits)' <=> Exchange!Decodable(Bits)
  BY <1>2 DEF Exchange!Decodable
<1>4. CASE BuildNext \/ EndBuild \/ Pad
  <2>1. pc' \notin Reading /\ UNCHANGED <<ack_packets, result>>
    BY <1>4 DEF BuildNext, EndBuild, Pad
  <2> QED
    BY <1>2, <2>1 DEF ReadInv
<1>5. CASE Receive
  <2>1. /\ pc = "built" /\ sack # << >> /\ next_index' = 0 /\ ack_packets' = {} /\ result' = {}
        /\ sack' = SubSeq(sack, 1, Announced)
        /\ pc' = (IF Announced # 0 /\ Arrives THEN "read" ELSE "rejected")
    BY <1>5 DEF Receive, SackInv
  <2>2. CASE Announced # 0 /\ Arrives
    <3>1. Bits # {} /\ Exchange!Decodable(Bits) /\ Announced = WordBytes
      BY <2>1, <2>2, AcceptedIsDecodable
    <3>2. Announced \in 0 .. Len(sack) /\ sack \in Seq(Octet) /\ Len(sack) \in Nat
      BY <1>1, AnnouncedType, SackLength DEF Types
    <3>3. Len(sack') = WordBytes
      BY <2>1, <3>1, <3>2
    <3>4. Passed' = {}
      BY <2>1 DEF Passed
    <3>5. NumbersOf({})' = {}
      BY DEF NumbersOf
    <3>6. /\ ack_packets' = Exchange!BelowNewest(NumbersOf(Passed \cap Bits))'
          /\ result' = Exchange!BelowNewest(NumbersOf(Passed \ Bits))'
      BY <2>1, <3>4, <3>5 DEF Exchange!BelowNewest, NumbersOf
    <3> QED
      BY <1>2, <1>3, <2>1, <3>1, <3>3, <3>6 DEF ReadInv, end_index
  <2> QED
    BY <2>1, <2>2 DEF ReadInv
<1>6. CASE ReadBit
  <2> DEFINE i == next_index
             n == Number % U16
  <2>1. /\ pc = "read" /\ pc' = "read" /\ newest # NoPacket /\ i' = i + 1 /\ sack' = sack
        /\ ack_packets' = ack_packets \cup {m \in {n} : m < newest /\ Bit(i)}
        /\ result' = result \cup {m \in {n} : m < newest /\ ~ Bit(i)}
        /\ i # end_index
    BY <1>6 DEF ReadBit
  <2>2. i \in Nat /\ i \in 0 .. end_index - 1
    BY <1>1, <2>1, SackLength DEF SackInv, Types
  <2>3. Bit(i) <=> i \in Bits
    <3>1. Bit(i) <=> last_acked + 1 + i \in out_of_order
      BY <1>1, <2>1, <2>2 DEF SackInv, BitsAre
    <3> QED
      BY <1>1, <2>2, <3>1, BitsMean
  <2>4. n = Exchange!SackNr(last_acked, i)
    BY DEF Number, Exchange!SackNr
  <2> HIDE DEF n
  <2>5. Passed' = Passed \cup {i}
    BY <2>1, <2>2 DEF Passed
  <2>6. /\ NumbersOf(Passed \cap Bits)' =
             NumbersOf(Passed \cap Bits) \cup (IF Bit(i) THEN {n} ELSE {})
        /\ NumbersOf(Passed \ Bits)' =
             NumbersOf(Passed \ Bits) \cup (IF Bit(i) THEN {} ELSE {n})
    BY <1>2, <2>3, <2>4, <2>5 DEF NumbersOf, Exchange!SackNr
  <2>7. /\ ack_packets = Exchange!BelowNewest(NumbersOf(Passed \cap Bits))
        /\ result = Exchange!BelowNewest(NumbersOf(Passed \ Bits))
    BY <2>1 DEF ReadInv
  <2>8. /\ ack_packets' = Exchange!BelowNewest(NumbersOf(Passed \cap Bits))'
        /\ result' = Exchange!BelowNewest(NumbersOf(Passed \ Bits))'
    BY <1>2, <2>1, <2>6, <2>7 DEF Exchange!BelowNewest
  <2> QED
    BY <1>2, <1>3, <2>1, <2>8 DEF ReadInv, end_index
<1>7. CASE ReadPanic \/ EndRead
  <2>1. pc = "read" /\ UNCHANGED <<sack, next_index, ack_packets, result>>
    BY <1>7 DEF ReadPanic, EndRead
  <2>2. Passed' = Passed
    BY <2>1 DEF Passed
  <2>3. /\ Exchange!BelowNewest(NumbersOf(Passed \cap Bits))'
             = Exchange!BelowNewest(NumbersOf(Passed \cap Bits))
        /\ Exchange!BelowNewest(NumbersOf(Passed \ Bits))'
             = Exchange!BelowNewest(NumbersOf(Passed \ Bits))
    BY <1>2, <2>2 DEF Exchange!BelowNewest, NumbersOf, Exchange!SackNr
  <2> QED
    BY <1>2, <1>3, <2>1, <2>3 DEF ReadInv, end_index
<1> QED
  BY <1>4, <1>5, <1>6, <1>7 DEF Next

\* The invariant of the exchange holds when the buffer has room for one word and
\* the length byte counts more than one.
THEOREM ExchangeInvHolds ==
  ASSUME OneWordRoom
  PROVE  Spec => []ExchangeInv
<1>1. Init => ReadInv
  BY DEF Init, ReadInv, Reading
<1>2. SackInv /\ ReadInv /\ [Next]_vars => ReadInv'
  <2>1. ASSUME ReadInv, UNCHANGED vars PROVE ReadInv'
    BY <2>1 DEF ReadInv, vars, peers, end_index, Bits, Exchange!Bits, Exchange!Decodable,
            Exchange!BelowNewest, NumbersOf, Exchange!SackNr, Passed
  <2> QED
    BY <2>1, ExchangeKeeps
<1> QED
  BY <1>1, <1>2, SackInvHolds, PTL DEF Spec, ExchangeInv

-----------------------------------------------------------------------------
(* The loops implement the exchange.                                       *)

LEMMA ExchangeInit ==
  ASSUME Init
  PROVE  Exchange!Init
BY DEF Init, Exchange!Init, SeqNr, Exchange!SeqNr, NoPacket, Exchange!NoPacket

\* Each step of the build and of the loop is invisible; the datagram may be
\* rejected, and the end of the loop is the judgement.
LEMMA ExchangeStep ==
  ASSUME OneWordRoom, ExchangeInv, Next
  PROVE  [Exchange!Next]_(Exchange!vars)
<1> USE DEF Building, Reading
<1>1. SackInv /\ ReadInv /\ Types
  BY DEF ExchangeInv, SackInv
<1>2. Bits = Exchange!Bits
  BY DEF Bits
<1>3. CASE BuildNext \/ EndBuild \/ Pad \/ ReadBit
  <2>1. /\ UNCHANGED <<last_acked, out_of_order, newest>>
        /\ pc \in Building \cup {"read"} /\ pc' \in Building \cup {"read"}
    BY <1>3 DEF BuildNext, EndBuild, Pad, ReadBit, peers
  <2> QED
    BY <2>1 DEF Exchange!vars, Exchange!peers
<1>4. CASE Receive
  <2>1. /\ pc = "built" /\ sack # << >>
        /\ UNCHANGED <<last_acked, out_of_order, newest>>
        /\ pc' = (IF Announced # 0 /\ Arrives THEN "read" ELSE "rejected")
    BY <1>4 DEF Receive, peers
  <2>2. CASE Announced # 0 /\ Arrives
    BY <2>1, <2>2 DEF Exchange!vars, Exchange!peers
  <2>3. CASE ~ (Announced # 0 /\ Arrives)
    <3>1. ~ Exchange!Decodable(Exchange!Bits)
      BY <1>1, <1>2, <2>1, <2>3, AcceptedIsDecodable
    <3>2. Exchange!Reject
      BY <2>1, <2>3, <3>1 DEF Exchange!Reject, Exchange!peers
    <3> QED
      BY <3>2 DEF Exchange!Next
  <2> QED
    BY <2>2, <2>3
<1>5. ASSUME pc = "read" PROVE Exchange!Understood
  BY <1>1, <1>2, <1>5 DEF ReadInv, Exchange!Understood
<1>6. CASE ReadPanic
  <2>1. /\ pc = "read" /\ pc' = "panic" /\ newest # NoPacket /\ Number = U16
        /\ next_index # end_index /\ UNCHANGED <<last_acked, out_of_order, newest>>
    BY <1>6 DEF ReadPanic, peers
  <2>2. last_acked + WordBytes * U8BITS >= U16
    <3>1. /\ next_index \in Nat /\ last_acked \in Nat /\ end_index \in Nat /\ U16 \in Nat
          /\ next_index <= end_index /\ end_index = WordBytes * U8BITS
          /\ Number = last_acked + 1 + next_index
      BY <1>1, <2>1, SackLength, Constants DEF SackInv, ReadInv, Types, SeqNr, Number
    <3> QED
      BY <2>1, <3>1
  <2>3. Exchange!Overflow
    BY <1>5, <2>1, <2>2 DEF Exchange!Overflow, Exchange!NoPacket, NoPacket, Exchange!peers
  <2> QED
    BY <2>3 DEF Exchange!Next
<1>7. CASE EndRead
  <2>1. /\ pc = "read" /\ pc' = "done"
        /\ UNCHANGED <<last_acked, out_of_order, newest, ack_packets, result>>
    BY <1>7 DEF EndRead, peers
  <2>2. CASE newest = NoPacket
    <3>1. ack_packets = {} /\ result = {}
      BY <1>1, <2>2 DEF ReadInv
    <3>2. Exchange!NothingToJudge
      BY <1>5, <1>7, <2>1, <2>2, <3>1
         DEF EndRead, Exchange!NothingToJudge, Exchange!NoPacket, NoPacket, Exchange!peers
    <3> QED
      BY <3>2 DEF Exchange!Next
  <2>3. CASE newest # NoPacket
    <3>1. /\ pc = "read" /\ pc' = "done" /\ next_index = end_index
          /\ UNCHANGED <<last_acked, out_of_order, newest, ack_packets, result>>
      BY <1>7, <2>3 DEF EndRead, peers
    <3>2. Passed = Exchange!WordBits
      BY <1>1, <3>1 DEF ReadInv, Passed, Exchange!WordBits
    <3>3. /\ NumbersOf(Passed \cap Bits) = Exchange!Acked(last_acked, Exchange!Bits)
          /\ NumbersOf(Passed \ Bits) = Exchange!Missing(last_acked, Exchange!Bits)
      BY <1>2, <3>2 DEF NumbersOf, Exchange!Acked, Exchange!Missing
    <3>4. /\ ack_packets = Exchange!BelowNewest(Exchange!Acked(last_acked, Exchange!Bits))
          /\ result = Exchange!BelowNewest(Exchange!Missing(last_acked, Exchange!Bits))
      BY <1>1, <2>3, <3>1, <3>3 DEF ReadInv
    <3>5. Exchange!Judge
      BY <1>5, <2>3, <3>1, <3>4 DEF Exchange!Judge, Exchange!NoPacket, NoPacket, Exchange!peers
    <3> QED
      BY <3>5 DEF Exchange!Next
  <2> QED
    BY <2>2, <2>3
<1> QED
  BY <1>3, <1>4, <1>6, <1>7 DEF Next

\* With a buffer for one word and a length byte that counts more than one, the
\* bytes and the loops have the effect UtpConnection gives a selective ack in
\* one step (build_selective_ack, set_sack, check_extensions, get_lost_seq_nr).
THEOREM ExchangeRefines ==
  ASSUME OneWordRoom
  PROVE  Spec => ImplementsExchange
<1>1. Init => Exchange!Init
  BY ExchangeInit
<1>2. ExchangeInv /\ [Next]_vars => [Exchange!Next]_(Exchange!vars)
  <2>1. ASSUME UNCHANGED vars PROVE UNCHANGED Exchange!vars
    BY <2>1 DEF vars, peers, Exchange!vars, Exchange!peers
  <2> QED
    BY <2>1, ExchangeStep
<1> QED
  BY <1>1, <1>2, ExchangeInvHolds, PTL DEF Spec, ImplementsExchange, Exchange!Spec

=============================================================================
