-------------------------- MODULE PacketHeaderProofs --------------------------
(***************************************************************************)
(* Proofs about the packet header, for every size of byte, every set of    *)
(* values and every clock: what a setter writes its getter reads, parsing  *)
(* changes nothing, and a reply carries what prepare_reply computes.       *)
(***************************************************************************)
EXTENDS PacketHeader, TLAPS

-----------------------------------------------------------------------------
(* Digits.                                                                 *)

\* A quotient is known by its remainder.
LEMMA Quotient ==
  ASSUME NEW d \in Nat, NEW q \in Nat, NEW r \in Nat, r < d
  PROVE  (d * q + r) \div d = q /\ (d * q + r) % d = r
<1> DEFINE x == d * q + r
           q2 == x \div d
           r2 == x % d
<1>1. x \in Nat /\ d > 0
  OBVIOUS
<1>2. q2 \in Nat /\ r2 \in Nat /\ r2 < d /\ d * q2 + r2 = d * q + r
  BY <1>1
<1> HIDE DEF q2, r2, x
<1>3. CASE q2 < q
  <2>1. q - q2 - 1 \in Nat /\ d * (q - q2 - 1) \in Nat
    BY <1>2, <1>3
  <2>2. d * (q - q2 - 1) = d * q - d * q2 - d
    BY <1>2
  <2> QED
    BY <1>2, <2>1, <2>2
<1>4. CASE q < q2
  <2>1. q2 - q - 1 \in Nat /\ d * (q2 - q - 1) \in Nat
    BY <1>2, <1>4
  <2>2. d * (q2 - q - 1) = d * q2 - d * q - d
    BY <1>2
  <2> QED
    BY <1>2, <2>1, <2>2
<1>5. q2 = q
  BY <1>2, <1>3, <1>4
<1>6. r2 = r
  BY <1>2, <1>5
<1> QED
  BY <1>5, <1>6 DEF q2, r2, x

\* Dividing twice is dividing by the product.
LEMMA DivideTwice ==
  ASSUME NEW v \in Nat, NEW b \in Nat \ {0}, NEW c \in Nat \ {0}
  PROVE  v \div (b * c) = (v \div b) \div c
<1> DEFINE q == v \div b
           r == v % b
           q2 == q \div c
           r2 == q % c
<1>1. q \in Nat /\ r \in Nat /\ r < b /\ v = b * q + r
  OBVIOUS
<1> HIDE DEF q, r
<1>2. q2 \in Nat /\ r2 \in Nat /\ r2 < c /\ q = c * q2 + r2
  BY <1>1
<1> HIDE DEF q2, r2
<1>3. b * c \in Nat /\ b * r2 + r \in Nat /\ b * r2 + r < b * c
  <2>1. c - r2 - 1 \in Nat /\ b * (c - r2 - 1) \in Nat /\ b * r2 \in Nat
    BY <1>2
  <2>2. b * (c - r2 - 1) = b * c - b * r2 - b
    BY <1>2
  <2> QED
    BY <1>1, <2>1, <2>2
<1>4. v = (b * c) * q2 + (b * r2 + r)
  BY <1>1, <1>2
<1>5. v \div (b * c) = q2
  <2> DEFINE d == b * c
             s == b * r2 + r
  <2>1. d \in Nat /\ s \in Nat /\ s < d /\ q2 \in Nat
    BY <1>2, <1>3
  <2>2. v = d * q2 + s
    BY <1>4
  <2> HIDE DEF d, s
  <2>3. (d * q2 + s) \div d = q2
    BY <2>1, Quotient
  <2> QED
    BY <2>2, <2>3 DEF d
<1> QED
  BY <1>5 DEF q2, q

\* A number below b * c has a quotient below c.
LEMMA QuotientBelow ==
  ASSUME NEW b \in Nat \ {0}, NEW c \in Nat, NEW v \in Nat, v < b * c
  PROVE  v \div b \in 0 .. c - 1
<1> DEFINE q == v \div b
<1>1. q \in Nat /\ b * q <= v
  OBVIOUS
<1> HIDE DEF q
<1>2. CASE q >= c
  <2>1. b * (q - c) \in Nat /\ b * (q - c) = b * q - b * c
    BY <1>1, <1>2
  <2> QED
    BY <1>1, <2>1
<1> QED
  BY <1>1, <1>2 DEF q

\* A summand may be reduced before the sum is.
LEMMA ReducedSummand ==
  ASSUME NEW x \in Nat, NEW y \in Nat, NEW u \in Nat \ {0}
  PROVE  ((x % u) + y) % u = (x + y) % u
<1> DEFINE q == x \div u
           r == x % u
           s == (r + y) \div u
           t == (r + y) % u
<1>1. q \in Nat /\ r \in Nat /\ x = u * q + r
  OBVIOUS
<1> HIDE DEF q, r
<1>2. s \in Nat /\ t \in Nat /\ t < u /\ r + y = u * s + t
  BY <1>1
<1>3. x + y = u * (q + s) + t
  BY <1>1, <1>2
<1>4. (x + y) % u = t
  <2> HIDE DEF s, t
  <2>1. q + s \in Nat
    BY <1>1, <1>2
  <2> DEFINE k == q + s
  <2> HIDE DEF k
  <2>2. k \in Nat /\ x + y = u * k + t
    BY <1>3, <2>1 DEF k
  <2>3. (u * k + t) % u = t
    BY <1>2, <2>2, Quotient
  <2> QED
    BY <2>2, <2>3
<1> QED
  BY <1>4 DEF t, r

LEMMA Constants ==
  /\ Nibble \in Nat /\ Nibble > 1 /\ B \in Nat /\ B > 1
  /\ B * B \in Nat \ {0} /\ B * B * B \in Nat \ {0} /\ U32 \in Nat \ {0}
  /\ Power(0) = 1 /\ Power(1) = B /\ Power(2) = B * B /\ Power(3) = B * B * B
  /\ U32 = B * B * B * B
<1>1. Nibble \in Nat /\ Nibble > 1
  BY HeaderAssumption DEF Ack
<1>2. B \in Nat /\ B > 1
  <2>1. Nibble * (Nibble - 1) \in Nat /\ Nibble * (Nibble - 1) = Nibble * Nibble - Nibble
    BY <1>1
  <2> QED
    BY <1>1, <2>1 DEF B
<1>3. /\ Power(0) = 1 /\ Power(1) = B /\ Power(2) = B * B /\ Power(3) = B * B * B
      /\ U32 = B * B * B * B
  BY DEF Power, Powers, U32
<1> HIDE DEF B
<1>4. B * B \in Nat \ {0}
  BY <1>2
<1>5. B * B * B \in Nat \ {0}
  <2> DEFINE x == B * B
  <2>1. x \in Nat \ {0}
    BY <1>4
  <2> HIDE DEF x
  <2>2. x * B \in Nat \ {0}
    BY <1>2, <2>1
  <2> QED
    BY <2>2 DEF x
<1>6. B * B * B * B \in Nat \ {0}
  <2> DEFINE x == B * B * B
  <2>1. x \in Nat \ {0}
    BY <1>5
  <2> HIDE DEF x
  <2>2. x * B \in Nat \ {0}
    BY <1>2, <2>1
  <2> QED
    BY <2>2 DEF x
<1> QED
  BY <1>1, <1>2, <1>3, <1>4, <1>5, <1>6

-----------------------------------------------------------------------------
(* Where the fields lie, and what their bytes say.                         *)

Header == [0 .. HeaderSize - 1 -> Byte]
Bytes(f) == First(f) .. First(f) + Width(f) - 1
Limit(f) == Power(Width(f))

LEMMA Layout ==
  /\ \A f \in Field : /\ First(f) \in 2 .. 18 /\ Width(f) \in {2, 4}
                     /\ First(f) + Width(f) <= HeaderSize
  /\ \A f, g \in Field : f # g => Bytes(f) \cap Bytes(g) = {}
  /\ \A i \in 2 .. HeaderSize - 1 : \E f \in Field : i \in Bytes(f)
<1>1. Field = {"connection_id", "timestamp", "timestamp_difference", "wnd_size", "seq_nr", "ack_nr"}
  BY DEF Field, Place
<1>2. /\ First("connection_id") = 2 /\ Width("connection_id") = 2
      /\ First("timestamp") = 4 /\ Width("timestamp") = 4
      /\ First("timestamp_difference") = 8 /\ Width("timestamp_difference") = 4
      /\ First("wnd_size") = 12 /\ Width("wnd_size") = 4
      /\ First("seq_nr") = 16 /\ Width("seq_nr") = 2
      /\ First("ack_nr") = 18 /\ Width("ack_nr") = 2
  BY DEF First, Width, Place
<1>3. \A f \in Field : /\ First(f) \in 2 .. 18 /\ Width(f) \in {2, 4}
                      /\ First(f) + Width(f) <= HeaderSize
  BY <1>1, <1>2 DEF HeaderSize
<1>4. \A f, g \in Field : f # g => \/ First(f) + Width(f) <= First(g)
                                 \/ First(g) + Width(g) <= First(f)
  BY <1>1, <1>2
<1>5. \A f, g \in Field : f # g => Bytes(f) \cap Bytes(g) = {}
  BY <1>3, <1>4 DEF Bytes
<1>6. \A i \in 2 .. HeaderSize - 1 : \E f \in Field : i \in Bytes(f)
  <2> TAKE i \in 2 .. HeaderSize - 1
  <2>1. \/ i \in 2 .. 3 \/ i \in 4 .. 7 \/ i \in 8 .. 11
        \/ i \in 12 .. 15 \/ i \in 16 .. 17 \/ i \in 18 .. 19
    BY DEF HeaderSize
  <2> QED
    BY <1>1, <1>2, <2>1 DEF Bytes
<1> QED
  BY <1>3, <1>5, <1>6

\* The getter reads the bytes of a field from the most significant one on.
LEMMA GetIs ==
  ASSUME NEW h \in Header, NEW f \in Field
  PROVE  Get(h, f) =
           IF Width(f) = 2 THEN h[First(f)] * B + h[First(f) + 1]
           ELSE ((h[First(f)] * B + h[First(f) + 1]) * B + h[First(f) + 2]) * B
                  + h[First(f) + 3]
<1> DEFINE a == First(f)
           w == Width(f)
           Step(v, k) == IF k = 0 THEN 0 ELSE v[k - 1] * B + h[a + k - 1]
           value == CHOOSE v : v = [k \in 0 .. w |-> Step(v, k)]
           v0 == 0
           v1 == v0 * B + h[a]
           v2 == v1 * B + h[a + 1]
           v3 == v2 * B + h[a + 2]
           v4 == v3 * B + h[a + 3]
           v == [k \in 0 .. w |-> IF k = 0 THEN v0 ELSE IF k = 1 THEN v1
                                   ELSE IF k = 2 THEN v2 ELSE IF k = 3 THEN v3 ELSE v4]
<1>1. Get(h, f) = value[w]
  BY DEF Get
<1>2. w \in {2, 4} /\ a \in Nat /\ B \in Nat
  BY Layout, Constants
<1>3. a + 1 - 1 = a /\ a + 2 - 1 = a + 1 /\ a + 3 - 1 = a + 2 /\ a + 4 - 1 = a + 3
  BY <1>2
<1>4. v = [k \in 0 .. w |-> Step(v, k)]
  <2> HIDE DEF v0, v1, v2, v3, v4, a, w
  <2>1. \A k \in 0 .. w : v[k] = Step(v, k)
    <3> TAKE k \in 0 .. w
    <3>1. k \in {0, 1, 2, 3, 4}
      BY <1>2
    <3> HIDE DEF v
    <3> QED
      BY <1>2, <1>3, <3>1 DEF v, v0, v1, v2, v3, v4
  <2> QED
    BY <2>1
<1> HIDE DEF v
<1>5. value = [k \in 0 .. w |-> Step(value, k)]
  BY <1>4
<1> HIDE DEF value
<1>6. value[0] = 0 /\ value[1] = value[0] * B + h[a] /\ value[2] = value[1] * B + h[a + 1]
  BY <1>2, <1>3, <1>5
<1>7. w = 4 => value[3] = value[2] * B + h[a + 2] /\ value[4] = value[3] * B + h[a + 3]
  BY <1>2, <1>3, <1>5
<1>8. h[a] \in Nat
  BY Layout, Constants DEF Header, Byte, HeaderSize
<1>9. value[1] = h[a]
  BY <1>2, <1>6, <1>8
<1> QED
  BY <1>1, <1>2, <1>6, <1>7, <1>9

\* The parser's native integer has the bytes in the opposite order.
LEMMA NativeIs ==
  ASSUME NEW h \in Header, NEW f \in Field
  PROVE  Native(h, f) =
           IF Width(f) = 2 THEN h[First(f)] + B * h[First(f) + 1]
           ELSE h[First(f)]
                  + B * (h[First(f) + 1] + B * (h[First(f) + 2] + B * h[First(f) + 3]))
<1> DEFINE a == First(f)
           w == Width(f)
           Step(v, k) == IF k = 0 THEN 0 ELSE v[k - 1] + h[a + k - 1] * Power(k - 1)
           sum == CHOOSE v : v = [k \in 0 .. w |-> Step(v, k)]
           v0 == 0
           v1 == v0 + h[a] * Power(0)
           v2 == v1 + h[a + 1] * Power(1)
           v3 == v2 + h[a + 2] * Power(2)
           v4 == v3 + h[a + 3] * Power(3)
           v == [k \in 0 .. w |-> IF k = 0 THEN v0 ELSE IF k = 1 THEN v1
                                   ELSE IF k = 2 THEN v2 ELSE IF k = 3 THEN v3 ELSE v4]
<1>1. Native(h, f) = sum[w]
  BY DEF Native
<1>2. w \in {2, 4} /\ a \in Nat /\ B \in Nat
  BY Layout, Constants
<1>3. a + 1 - 1 = a /\ a + 2 - 1 = a + 1 /\ a + 3 - 1 = a + 2 /\ a + 4 - 1 = a + 3
  BY <1>2
<1>4. v = [k \in 0 .. w |-> Step(v, k)]
  <2> HIDE DEF v0, v1, v2, v3, v4, a, w
  <2>1. \A k \in 0 .. w : v[k] = Step(v, k)
    <3> TAKE k \in 0 .. w
    <3>1. k \in {0, 1, 2, 3, 4}
      BY <1>2
    <3> HIDE DEF v
    <3> QED
      BY <1>2, <1>3, <3>1 DEF v, v0, v1, v2, v3, v4
  <2> QED
    BY <2>1
<1> HIDE DEF v
<1>5. sum = [k \in 0 .. w |-> Step(sum, k)]
  BY <1>4
<1> HIDE DEF sum
<1>6. /\ sum[0] = 0 /\ sum[1] = sum[0] + h[a] * Power(0)
      /\ sum[2] = sum[1] + h[a + 1] * Power(1)
  BY <1>2, <1>3, <1>5
<1>7. w = 4 => sum[3] = sum[2] + h[a + 2] * Power(2) /\ sum[4] = sum[3] + h[a + 3] * Power(3)
  BY <1>2, <1>3, <1>5
<1>8. h[a] \in Nat /\ h[a + 1] \in Nat
  BY Layout, Constants DEF Header, Byte, HeaderSize
<1>9. sum[2] = h[a] + B * h[a + 1]
  BY <1>2, <1>6, <1>8, Constants
<1>10. ASSUME w = 4
       PROVE  sum[4] = h[a] + B * (h[a + 1] + B * (h[a + 2] + B * h[a + 3]))
  <2>1. h[a + 2] \in Nat /\ h[a + 3] \in Nat
    BY <1>10, Layout, Constants DEF Header, Byte, HeaderSize
  <2>2. sum[4] = h[a] + B * h[a + 1] + h[a + 2] * (B * B) + h[a + 3] * (B * B * B)
    BY <1>7, <1>9, <1>10, Constants
  <2> DEFINE b1 == h[a + 1]
             b2 == h[a + 2]
             b3 == h[a + 3]
  <2>3. b1 \in Nat /\ b2 \in Nat /\ b3 \in Nat /\ B \in Nat
    BY <1>2, <1>8, <2>1
  <2> HIDE DEF b1, b2, b3
  <2>4. B * (b1 + B * (b2 + B * b3)) = B * b1 + b2 * (B * B) + b3 * (B * B * B)
    BY <2>3
  <2> QED
    BY <1>8, <2>2, <2>3, <2>4 DEF b1, b2, b3
<1> QED
  BY <1>1, <1>2, <1>9, <1>10

-----------------------------------------------------------------------------
(* The setters.                                                            *)

\* A number below the second or fourth power of B is put together from its digits.
LEMMA Digits2 ==
  ASSUME NEW v \in 0 .. B * B - 1
  PROVE  /\ (v \div B) % B \in Byte /\ v % B \in Byte
         /\ ((v \div B) % B) * B + (v % B) = v
<1> DEFINE q == v \div B
           r == v % B
<1>1. B \in Nat /\ B > 1 /\ v \in Nat /\ v < B * B
  BY Constants
<1>2. q \in 0 .. B - 1
  <2>1. B \in Nat \ {0} /\ B \in Nat /\ v \in Nat /\ v < B * B
    BY <1>1
  <2> QED
    BY <2>1, QuotientBelow, Zenon
<1>3. r \in 0 .. B - 1 /\ v = B * q + r
  BY <1>1
<1> HIDE DEF q, r
<1>4. q % B = q
  BY <1>1, <1>2
<1> QED
  BY <1>1, <1>2, <1>3, <1>4 DEF q, r, Byte

LEMMA Digits4 ==
  ASSUME NEW v \in 0 .. U32 - 1
  PROVE  /\ (v \div (B * B * B)) % B \in Byte /\ (v \div (B * B)) % B \in Byte
         /\ (v \div B) % B \in Byte /\ v % B \in Byte
         /\ ((((v \div (B * B * B)) % B) * B + ((v \div (B * B)) % B)) * B
              + ((v \div B) % B)) * B + (v % B) = v
<1> DEFINE v1 == v \div B
           v2 == v1 \div B
           v3 == v2 \div B
<1>1. B \in Nat /\ B > 1 /\ v \in Nat /\ v < B * B * B * B /\ B * B \in Nat \ {0}
      /\ B * B * B \in Nat \ {0}
  BY Constants
<1>2. v < B * (B * B * B)
  BY <1>1
<1>3. v1 \in 0 .. B * B * B - 1
  <2> DEFINE c == B * B * B
  <2>1. B \in Nat \ {0} /\ c \in Nat /\ v \in Nat /\ v < B * c
    BY <1>1, <1>2
  <2> HIDE DEF c
  <2>2. v \div B \in 0 .. c - 1
    BY <2>1, QuotientBelow, Zenon
  <2> QED
    BY <2>2 DEF c
<1>4. v \div (B * B) = v2
  <2>1. B \in Nat \ {0} /\ v \in Nat
    BY <1>1
  <2> QED
    BY <2>1, DivideTwice, Zenon
<1>5. v \div (B * B * B) = v3
  <2> DEFINE c == B * B
  <2>1. c \in Nat \ {0} /\ B \in Nat \ {0} /\ v \in Nat
    BY <1>1
  <2> HIDE DEF c
  <2>2. v \div (c * B) = (v \div c) \div B
    BY <2>1, DivideTwice, Zenon
  <2> QED
    BY <1>4, <2>2 DEF c
<1>6. v % B \in 0 .. B - 1 /\ v = B * v1 + (v % B)
  BY <1>1
<1> HIDE DEF v1
<1>7. v2 \in 0 .. B * B - 1
  <2> DEFINE c == B * B
  <2>1. B \in Nat \ {0} /\ c \in Nat /\ v1 \in Nat /\ v1 < B * c
    BY <1>1, <1>3
  <2> HIDE DEF c
  <2>2. v1 \div B \in 0 .. c - 1
    BY <2>1, QuotientBelow, Zenon
  <2> QED
    BY <2>2 DEF c
<1>8. v1 % B \in 0 .. B - 1 /\ v1 = B * v2 + (v1 % B)
  BY <1>1, <1>3
<1> HIDE DEF v2
<1>9. v3 \in 0 .. B - 1
  <2>1. B \in Nat \ {0} /\ B \in Nat /\ v2 \in Nat /\ v2 < B * B
    BY <1>1, <1>7
  <2> QED
    BY <2>1, QuotientBelow, Zenon
<1>10. v2 % B \in 0 .. B - 1 /\ v2 = B * v3 + (v2 % B)
  BY <1>1, <1>7
<1> HIDE DEF v3
<1>11. v3 % B = v3
  BY <1>1, <1>9
<1> DEFINE d0 == v % B
           d1 == v1 % B
           d2 == v2 % B
<1>12. /\ d0 \in Nat /\ d1 \in Nat /\ d2 \in Nat /\ v = B * v1 + d0
       /\ v1 = B * v2 + d1 /\ v2 = B * v3 + d2 /\ v1 \in Nat /\ v2 \in Nat /\ v3 \in Nat
  BY <1>3, <1>6, <1>7, <1>8, <1>9, <1>10
<1> HIDE DEF d0, d1, d2
<1>13. ((v3 * B + d2) * B + d1) * B + d0 = v
  BY <1>1, <1>12
<1> QED
  BY <1>4, <1>5, <1>6, <1>8, <1>10, <1>9, <1>11, <1>13 DEF Byte, d0, d1, d2, v1

\* A setter changes the bytes of its field alone, and its getter reads the value.
LEMMA SetIs ==
  ASSUME NEW h \in Header, NEW f \in Field, NEW v \in 0 .. Limit(f) - 1
  PROVE  /\ Set(h, f, v) \in Header
         /\ \A i \in 0 .. 1 : Set(h, f, v)[i] = h[i]
         /\ Get(Set(h, f, v), f) = v
         /\ \A g \in Field \ {f} : Get(Set(h, f, v), g) = Get(h, g)
<1> DEFINE a == First(f)
           w == Width(f)
           s == Set(h, f, v)
           digit(k) == (v \div Power(k)) % B
<1>1. a \in 2 .. 18 /\ w \in {2, 4} /\ a + w <= HeaderSize /\ HeaderSize = 20
  BY Layout DEF HeaderSize
<1>2. s = [i \in 0 .. HeaderSize - 1 |-> IF i \in Bytes(f) THEN digit(a + w - 1 - i) ELSE h[i]]
  BY DEF Set, Header, Bytes
<1>3. v \in Nat /\ digit(0) = v % B /\ digit(1) = (v \div B) % B
      /\ digit(2) = (v \div (B * B)) % B /\ digit(3) = (v \div (B * B * B)) % B
  <2>1. v \in Nat
    BY <1>1, Constants DEF Limit, U32
  <2>2. v \div 1 = v
    BY <2>1
  <2> QED
    BY <2>1, <2>2, Constants
<1>4. /\ w = 2 => v \in 0 .. B * B - 1
      /\ w = 4 => v \in 0 .. U32 - 1
  BY <1>1, Constants DEF Limit, U32
<1>5. \A k \in 0 .. w - 1 : digit(k) \in Byte
  <2>1. CASE w = 2
    BY <1>3, <1>4, <2>1, Digits2
  <2>2. CASE w = 4
    BY <1>3, <1>4, <2>2, Digits4
  <2> QED
    BY <1>1, <2>1, <2>2
<1> HIDE DEF digit, s
<1>6. \A i \in Bytes(f) : a + w - 1 - i \in 0 .. w - 1
  BY <1>1 DEF Bytes
<1>7. s \in Header
  BY <1>2, <1>5, <1>6 DEF Header
<1>8. \A i \in 0 .. 1 : s[i] = h[i]
  BY <1>1, <1>2 DEF Bytes
<1>9. Get(s, f) = v
  <2>1. CASE w = 2
    <3>1. s[a] = digit(1) /\ s[a + 1] = digit(0)
      BY <1>1, <1>2, <2>1 DEF Bytes
    <3>2. Get(s, f) = s[a] * B + s[a + 1]
      BY <1>7, <2>1, GetIs
    <3>3. digit(1) * B + digit(0) = v
      BY <1>3, <1>4, <2>1, Digits2, Zenon
    <3> QED
      BY <3>1, <3>2, <3>3
  <2>2. CASE w = 4
    <3>1. s[a] = digit(3) /\ s[a + 1] = digit(2) /\ s[a + 2] = digit(1) /\ s[a + 3] = digit(0)
      BY <1>1, <1>2, <2>2 DEF Bytes
    <3>2. Get(s, f) = ((s[a] * B + s[a + 1]) * B + s[a + 2]) * B + s[a + 3]
      BY <1>7, <2>2, GetIs
    <3>3. ((digit(3) * B + digit(2)) * B + digit(1)) * B + digit(0) = v
      BY <1>3, <1>4, <2>2, Digits4, Zenon
    <3> QED
      BY <3>1, <3>2, <3>3
  <2> QED
    BY <1>1, <2>1, <2>2
<1>10. ASSUME NEW g \in Field \ {f} PROVE Get(s, g) = Get(h, g)
  <2>1. \A i \in Bytes(g) : s[i] = h[i]
    <3>1. Bytes(g) \cap Bytes(f) = {} /\ Bytes(g) \subseteq 0 .. HeaderSize - 1
      <4>1. Bytes(g) \cap Bytes(f) = {}
        BY Layout
      <4>2. First(g) \in 2 .. 18 /\ Width(g) \in {2, 4} /\ First(g) + Width(g) <= HeaderSize
        BY Layout
      <4> QED
        BY <4>1, <4>2 DEF Bytes, HeaderSize
    <3> QED
      BY <1>2, <3>1
  <2>2. CASE Width(g) = 2
    <3>1. First(g) \in Bytes(g) /\ First(g) + 1 \in Bytes(g)
      BY <2>2, Layout DEF Bytes
    <3>2. Get(s, g) = s[First(g)] * B + s[First(g) + 1]
      BY <1>7, <2>2, GetIs
    <3>3. Get(h, g) = h[First(g)] * B + h[First(g) + 1]
      BY <2>2, GetIs
    <3> QED
      BY <2>1, <3>1, <3>2, <3>3
  <2>3. CASE Width(g) = 4
    <3>1. /\ First(g) \in Bytes(g) /\ First(g) + 1 \in Bytes(g)
          /\ First(g) + 2 \in Bytes(g) /\ First(g) + 3 \in Bytes(g)
      BY <2>3, Layout DEF Bytes
    <3>2. Get(s, g) = ((s[First(g)] * B + s[First(g) + 1]) * B + s[First(g) + 2]) * B
                        + s[First(g) + 3]
      BY <1>7, <2>3, GetIs
    <3>3. Get(h, g) = ((h[First(g)] * B + h[First(g) + 1]) * B + h[First(g) + 2]) * B
                        + h[First(g) + 3]
      BY <2>3, GetIs
    <3> QED
      BY <2>1, <3>1, <3>2, <3>3
  <2> QED
    BY <2>2, <2>3, Layout
<1> QED
  BY <1>7, <1>8, <1>9, <1>10 DEF s

\* set_type keeps the version and the fields.
LEMMA SetTypeIs ==
  ASSUME NEW h \in Header, GetVersion(h) = 1, NEW t \in PacketType
  PROVE  /\ SetType(h, t) \in Header
         /\ GetType(SetType(h, t)) = t /\ GetVersion(SetType(h, t)) = 1
         /\ \A f \in Field : Get(SetType(h, t), f) = Get(h, f)
<1> DEFINE s == SetType(h, t)
<1>1. t \in Nat /\ t <= Nibble - 1 /\ Nibble \in Nat /\ 1 < Nibble
  BY Constants, HeaderAssumption DEF PacketType, Data, Ack
<1>2. Nibble * t + 1 \in Byte
  <2>1. Nibble * (Nibble - 1 - t) \in Nat
    BY <1>1
  <2>2. Nibble * (Nibble - 1 - t) = Nibble * Nibble - Nibble - Nibble * t
    BY <1>1
  <2> QED
    BY <1>1, <2>1, <2>2 DEF Byte, B
<1>3. 0 \in DOMAIN h /\ HeaderSize = 20
  BY DEF Header, HeaderSize
<1>4. s = [h EXCEPT ![0] = Nibble * t + 1] /\ s[0] = Nibble * t + 1
  <2>1. t * Nibble + GetVersion(h) = Nibble * t + 1
    BY <1>1
  <2> QED
    BY <1>3, <2>1 DEF SetType
<1>5. s \in Header
  BY <1>2, <1>4 DEF Header
<1>6. (Nibble * t + 1) \div Nibble = t /\ (Nibble * t + 1) % Nibble = 1
  BY <1>1, Quotient
<1>7. ASSUME NEW f \in Field PROVE Get(s, f) = Get(h, f)
  <2>1. First(f) \in 2 .. 18
    BY Layout
  <2>2. \A i \in 1 .. HeaderSize - 1 : s[i] = h[i]
    BY <1>3, <1>4 DEF Header
  <2> HIDE DEF s
  <2>3. CASE Width(f) = 2
    <3>1. Get(s, f) = s[First(f)] * B + s[First(f) + 1]
      BY <1>5, <2>3, GetIs
    <3>2. Get(h, f) = h[First(f)] * B + h[First(f) + 1]
      BY <2>3, GetIs
    <3> QED
      BY <1>3, <2>1, <2>2, <3>1, <3>2
  <2>4. CASE Width(f) = 4
    <3>1. First(f) + 4 <= HeaderSize
      BY <2>4, Layout
    <3>2. Get(s, f) = ((s[First(f)] * B + s[First(f) + 1]) * B + s[First(f) + 2]) * B
                        + s[First(f) + 3]
      BY <1>5, <2>4, GetIs
    <3>3. Get(h, f) = ((h[First(f)] * B + h[First(f) + 1]) * B + h[First(f) + 2]) * B
                        + h[First(f) + 3]
      BY <2>4, GetIs
    <3> QED
      BY <1>3, <2>1, <2>2, <3>1, <3>2, <3>3
  <2> QED
    BY <2>3, <2>4, Layout
<1> QED
  BY <1>4, <1>5, <1>6, <1>7 DEF GetType, GetVersion

\* A header that is parsed and written out again is the same header.
LEMMA ReparsedIs ==
  ASSUME NEW h \in Header
  PROVE  Reparsed(h) = h
<1>1. ASSUME NEW i \in 2 .. HeaderSize - 1
      PROVE  (Native(h, FieldAt(i)) \div Power(i - First(FieldAt(i)))) % B = h[i]
  <2> DEFINE f == FieldAt(i)
             a == First(f)
             k == i - a
             n == Native(h, f)
  <2>1. f \in Field /\ i \in Bytes(f)
    BY <1>1, Layout DEF FieldAt, Bytes
  <2>2. /\ a \in 2 .. 18 /\ Width(f) \in {2, 4} /\ a + Width(f) <= HeaderSize
        /\ HeaderSize = 20 /\ k \in 0 .. Width(f) - 1 /\ i = a + k
    BY <2>1, Layout DEF Bytes, HeaderSize
  <2> HIDE DEF f
  <2>3. /\ h[a] \in Byte /\ h[a + 1] \in Byte
        /\ Width(f) = 4 => h[a + 2] \in Byte /\ h[a + 3] \in Byte
    BY <2>2 DEF Header
  <2>4. B \in Nat /\ B > 1 /\ B \in Nat \ {0} /\ B * B \in Nat \ {0}
    BY Constants
  <2> DEFINE n1 == n \div B
             n2 == n1 \div B
             n3 == n2 \div B
  <2>5. n \in Nat => n \div (B * B) = n2 /\ n \div (B * B * B) = n3
    <3> SUFFICES ASSUME n \in Nat PROVE n \div (B * B) = n2 /\ n \div (B * B * B) = n3
      OBVIOUS
    <3> HIDE DEF n
    <3>1. n \div (B * B) = n2
      BY <2>4, DivideTwice, Zenon
    <3>2. n \div ((B * B) * B) = (n \div (B * B)) \div B
      BY <2>4, DivideTwice, Zenon
    <3> QED
      BY <3>1, <3>2
  <2>6. CASE Width(f) = 2
    <3> DEFINE b0 == h[a]
               b1 == h[a + 1]
    <3>1. n = B * b1 + b0 /\ b0 \in 0 .. B - 1 /\ b1 \in 0 .. B - 1
      BY <2>1, <2>3, <2>4, <2>6, NativeIs DEF Byte
    <3> HIDE DEF b0, b1, n
    <3>2. n \div B = b1 /\ n % B = b0 /\ b1 % B = b1 /\ n \in Nat
      BY <2>4, <3>1, Quotient
    <3>3. CASE k = 0
      BY <2>2, <3>2, <3>3, Constants DEF b0, f, n
    <3>4. CASE k = 1
      BY <2>2, <3>2, <3>4, Constants DEF b1, f, n
    <3> QED
      BY <2>2, <2>6, <3>3, <3>4
  <2>7. CASE Width(f) = 4
    <3> DEFINE b0 == h[a]
               b1 == h[a + 1]
               b2 == h[a + 2]
               b3 == h[a + 3]
    <3>1. /\ b0 \in 0 .. B - 1 /\ b1 \in 0 .. B - 1 /\ b2 \in 0 .. B - 1 /\ b3 \in 0 .. B - 1
          /\ n = b0 + B * (b1 + B * (b2 + B * b3))
      BY <2>1, <2>3, <2>4, <2>7, NativeIs DEF Byte
    <3> HIDE DEF b0, b1, b2, b3, n
    <3> DEFINE m2 == B * b3 + b2
               m1 == B * m2 + b1
    <3>2. m2 \in Nat /\ m2 \div B = b3 /\ m2 % B = b2 /\ b3 % B = b3
      BY <2>4, <3>1, Quotient
    <3>3. m1 \in Nat /\ m1 \div B = m2 /\ m1 % B = b1
      <4> HIDE DEF m2
      <4> QED
        BY <2>4, <3>1, <3>2, Quotient
    <3>4. n = B * m1 + b0
      BY <2>4, <3>1
    <3>5. n \in Nat /\ n1 = m1 /\ n % B = b0
      <4>1. B \in Nat /\ m1 \in Nat /\ b0 \in Nat /\ b0 < B
        BY <2>4, <3>1, <3>3
      <4> HIDE DEF m1
      <4>2. (B * m1 + b0) \div B = m1 /\ (B * m1 + b0) % B = b0
        BY <4>1, Quotient, Zenon
      <4>3. B * m1 + b0 \in Nat
        BY <4>1
      <4> QED
        BY <3>4, <4>2, <4>3
    <3>6. n2 = m2 /\ n3 = b3
      BY <3>2, <3>3, <3>5
    <3>7. CASE k = 0
      BY <2>2, <3>5, <3>7, Constants DEF b0, f, n
    <3>8. CASE k = 1
      BY <2>2, <3>3, <3>5, <3>8, Constants DEF b1, f, n
    <3>9. CASE k = 2
      BY <2>2, <2>5, <3>2, <3>5, <3>6, <3>9, Constants DEF b2, f, n
    <3>10. CASE k = 3
      BY <2>2, <2>5, <3>2, <3>5, <3>6, <3>10, Constants DEF b3, f, n
    <3> QED
      BY <2>2, <2>7, <3>7, <3>8, <3>9, <3>10
  <2> QED
    BY <2>2, <2>6, <2>7
<1>2. \A i \in 0 .. HeaderSize - 1 : Reparsed(h)[i] = h[i]
  <2> TAKE i \in 0 .. HeaderSize - 1
  <2>1. CASE i < 2
    BY <2>1 DEF Reparsed, Header, HeaderSize
  <2>2. CASE i >= 2
    <3>1. i \in 2 .. HeaderSize - 1
      BY <2>2 DEF HeaderSize
    <3> QED
      BY <1>1, <2>2, <3>1 DEF Reparsed, Header, HeaderSize
  <2> QED
    BY <2>1, <2>2 DEF HeaderSize
<1> QED
  BY <1>2 DEF Reparsed, Header

-----------------------------------------------------------------------------
(* The clock.                                                              *)

LEMMA NowIs ==
  ASSUME now \in Nat
  PROVE  NowMicroseconds = now % U32 /\ now % U32 \in 0 .. U32 - 1
<1> DEFINE s == now \div Micros
           r == now % Micros
<1>1. Micros \in Nat \ {0} /\ U32 \in Nat \ {0}
  BY Constants, HeaderAssumption
<1>2. s \in Nat /\ r \in Nat /\ now = s * Micros + r
  BY <1>1
<1> HIDE DEF s, r
<1>3. s * Micros \in Nat
  BY <1>1, <1>2
<1>4. (((s * Micros) % U32) + r) % U32 = (s * Micros + r) % U32
  BY <1>1, <1>2, <1>3, ReducedSummand, Zenon
<1>5. NowMicroseconds = (((s * Micros) % U32) + r) % U32
  BY DEF NowMicroseconds, s, r
<1>6. now % U32 \in 0 .. U32 - 1
  BY <1>1
<1> QED
  BY <1>2, <1>4, <1>5, <1>6

LEMMA AbsDiffIs ==
  ASSUME NEW n \in Nat, NEW a \in 0 .. n - 1, NEW b \in 0 .. n - 1
  PROVE  AbsDiff(a, b) \in 0 .. n - 1
BY DEF AbsDiff

-----------------------------------------------------------------------------
(* The inductive invariant.                                                *)

\* Besides what the getters read: no field is set to more than its width
\* holds.
HeaderInv ==
  /\ header \in Header
  /\ last \in [Field -> Nat] /\ \A f \in Field : last[f] < Limit(f)
  /\ now \in Times
  /\ FieldsReadBack

LEMMA DefaultIs ==
  /\ Default \in Header /\ GetType(Default) = 0 /\ GetVersion(Default) = 1
  /\ \A f \in Field : Get(Default, f) = 0
<1>1. Default \in Header
  BY Constants DEF Default, Header, Byte, HeaderSize
<1>2. Default[0] = 1 /\ \A i \in 1 .. HeaderSize - 1 : Default[i] = 0
  BY DEF Default, HeaderSize
<1>3. GetType(Default) = 0 /\ GetVersion(Default) = 1
  <2>1. (Nibble * 0 + 1) \div Nibble = 0 /\ (Nibble * 0 + 1) % Nibble = 1
    BY Constants, Quotient
  <2>2. Nibble * 0 + 1 = 1
    BY Constants
  <2> QED
    BY <1>2, <2>1, <2>2 DEF GetType, GetVersion
<1>4. ASSUME NEW f \in Field PROVE Get(Default, f) = 0
  <2>1. First(f) \in 2 .. 18 /\ Width(f) \in {2, 4} /\ First(f) + Width(f) <= HeaderSize
    BY Layout
  <2>2. CASE Width(f) = 2
    <3>1. Get(Default, f) = Default[First(f)] * B + Default[First(f) + 1]
      BY <1>1, <2>2, GetIs
    <3>2. Default[First(f)] = 0 /\ Default[First(f) + 1] = 0
      BY <1>2, <2>1, <2>2 DEF HeaderSize
    <3> QED
      BY <3>1, <3>2, Constants
  <2>3. CASE Width(f) = 4
    <3>1. Get(Default, f) =
            ((Default[First(f)] * B + Default[First(f) + 1]) * B + Default[First(f) + 2]) * B
              + Default[First(f) + 3]
      BY <1>1, <2>3, GetIs
    <3>2. /\ Default[First(f)] = 0 /\ Default[First(f) + 1] = 0
          /\ Default[First(f) + 2] = 0 /\ Default[First(f) + 3] = 0
      BY <1>2, <2>1, <2>3 DEF HeaderSize
    <3> QED
      BY <3>1, <3>2, Constants
  <2> QED
    BY <2>1, <2>2, <2>3
<1> QED
  BY <1>1, <1>3, <1>4

LEMMA Limits ==
  /\ \A f \in Field : Limit(f) \in Nat \ {0}
  /\ \A f \in {"connection_id", "seq_nr", "ack_nr"} : f \in Field /\ Limit(f) = Power(2)
  /\ \A f \in {"timestamp", "timestamp_difference", "wnd_size"} : f \in Field /\ Limit(f) = U32
  /\ Field = {"connection_id", "timestamp", "timestamp_difference", "wnd_size", "seq_nr", "ack_nr"}
<1>1. Field = {"connection_id", "timestamp", "timestamp_difference", "wnd_size", "seq_nr", "ack_nr"}
  BY DEF Field, Place
<1>2. /\ Width("connection_id") = 2 /\ Width("timestamp") = 4
      /\ Width("timestamp_difference") = 4 /\ Width("wnd_size") = 4
      /\ Width("seq_nr") = 2 /\ Width("ack_nr") = 2
  BY DEF Width, Place
<1>3. Power(2) \in Nat \ {0} /\ U32 \in Nat \ {0}
  BY Constants
<1> QED
  BY <1>1, <1>2, <1>3 DEF Limit, U32

\* The type and version are in byte 0, which no field has.
LEMMA SetKeepsType ==
  ASSUME NEW h \in Header, NEW f \in Field, NEW v \in 0 .. Limit(f) - 1
  PROVE  GetType(Set(h, f, v)) = GetType(h) /\ GetVersion(Set(h, f, v)) = GetVersion(h)
BY SetIs DEF GetType, GetVersion

LEMMA InitHeader == Init => HeaderInv
<1> SUFFICES ASSUME Init PROVE HeaderInv
  OBVIOUS
<1>1. header = Default /\ type = 0 /\ last = Zero /\ now \in Times
  BY DEF Init
<1>2. 0 \in PacketType
  BY DEF PacketType, Data, Ack
<1>3. FieldsReadBack
  BY <1>1, <1>2, DefaultIs DEF FieldsReadBack, Zero
<1>4. \A f \in Field : last[f] = 0 /\ last[f] < Limit(f)
  BY <1>1, Limits DEF Zero
<1> QED
  BY <1>1, <1>3, <1>4, DefaultIs DEF HeaderInv, Zero

LEMMA NewPacketStep == HeaderInv /\ NewPacket => HeaderInv'
<1> SUFFICES ASSUME HeaderInv, NewPacket PROVE HeaderInv'
  OBVIOUS
<1>1. header' = Default /\ type' = 0 /\ last' = Zero /\ now' = now
  BY DEF NewPacket
<1>2. 0 \in PacketType
  BY DEF PacketType, Data, Ack
<1>3. FieldsReadBack'
  BY <1>1, <1>2, DefaultIs DEF FieldsReadBack, Zero
<1>4. \A f \in Field : last'[f] = 0 /\ last'[f] < Limit(f)
  BY <1>1, Limits DEF Zero
<1> QED
  BY <1>1, <1>3, <1>4, DefaultIs DEF HeaderInv, Zero

LEMMA ChangeTypeStep ==
  ASSUME HeaderInv, NEW t \in PacketType, ChangeType(t)
  PROVE  HeaderInv'
<1>1. header' = SetType(header, t) /\ type' = t /\ UNCHANGED <<now, last>>
  BY DEF ChangeType
<1>2. header \in Header /\ GetVersion(header) = 1
  BY DEF HeaderInv, FieldsReadBack
<1>3. header' \in Header /\ FieldsReadBack'
  BY <1>1, <1>2, SetTypeIs DEF HeaderInv, FieldsReadBack
<1> QED
  BY <1>1, <1>3 DEF HeaderInv

LEMMA SetFieldStep ==
  ASSUME HeaderInv, NEW f \in Field, NEW v \in 0 .. Limit(f) - 1, SetField(f, v)
  PROVE  HeaderInv'
<1>1. /\ header' = Set(header, f, v) /\ last' = [last EXCEPT ![f] = v]
      /\ UNCHANGED <<now, type>>
  BY DEF SetField
<1>2. header \in Header /\ v \in Nat /\ v < Limit(f)
  BY Limits DEF HeaderInv
<1>3. header' \in Header /\ FieldsReadBack'
  BY <1>1, <1>2, SetIs, SetKeepsType DEF HeaderInv, FieldsReadBack
<1>4. last' \in [Field -> Nat] /\ \A g \in Field : last'[g] < Limit(g)
  BY <1>1, <1>2 DEF HeaderInv
<1> QED
  BY <1>1, <1>3, <1>4 DEF HeaderInv

LEMMA ReparseStep == HeaderInv /\ Reparse => HeaderInv'
<1> SUFFICES ASSUME HeaderInv, Reparse PROVE HeaderInv'
  OBVIOUS
<1>1. header' = header /\ UNCHANGED <<now, type, last>>
  BY ReparsedIs DEF Reparse, HeaderInv
<1> QED
  BY <1>1 DEF HeaderInv, FieldsReadBack

\* A reply carries every field that prepare_reply sets.
LEMMA ReplyStep ==
  ASSUME HeaderInv, NEW t \in PacketType, NEW id \in 0 .. Power(2) - 1,
         NEW seq \in 0 .. Power(2) - 1, NEW ack \in 0 .. Power(2) - 1, Reply(t, id, seq, ack)
  PROVE  HeaderInv'
<1> DEFINE time == now % U32
           diff == AbsDiff(time, last["timestamp"])
           s0 == SetType(Default, t)
           s1 == Set(s0, "timestamp", time)
           s2 == Set(s1, "timestamp_difference", diff)
           s3 == Set(s2, "connection_id", id)
           s4 == Set(s3, "seq_nr", seq)
           s5 == Set(s4, "ack_nr", ack)
<1>1. now \in Nat /\ NowMicroseconds = time /\ time \in 0 .. U32 - 1
  BY NowIs, HeaderAssumption DEF HeaderInv
<1>2. Get(header, "timestamp") = last["timestamp"] /\ last["timestamp"] \in 0 .. U32 - 1
  BY Limits, Constants DEF HeaderInv, FieldsReadBack
<1>3. diff \in 0 .. U32 - 1
  <2>1. U32 \in Nat
    BY Constants
  <2> QED
    BY <1>1, <1>2, <2>1, AbsDiffIs, Zenon
<1>4. /\ header' = s5 /\ type' = t /\ now' = now
      /\ last' = [Zero EXCEPT !.timestamp = time, !.timestamp_difference = diff,
                               !.connection_id = id, !.seq_nr = seq, !.ack_nr = ack]
  BY <1>1, <1>2 DEF Reply
<1> HIDE DEF time, diff
<1>5. /\ s0 \in Header /\ GetType(s0) = t /\ GetVersion(s0) = 1
      /\ \A f \in Field : Get(s0, f) = 0
  BY DefaultIs, SetTypeIs
<1> HIDE DEF s0
<1>6. /\ s1 \in Header /\ GetType(s1) = t /\ GetVersion(s1) = 1
      /\ \A f \in Field : Get(s1, f) = IF f = "timestamp" THEN time ELSE 0
  BY <1>1, <1>5, Limits, SetIs, SetKeepsType
<1> HIDE DEF s1
<1>7. /\ s2 \in Header /\ GetType(s2) = t /\ GetVersion(s2) = 1
      /\ \A f \in Field : Get(s2, f) = IF f = "timestamp_difference" THEN diff ELSE Get(s1, f)
  BY <1>3, <1>6, Limits, SetIs, SetKeepsType
<1> HIDE DEF s2
<1>8. /\ s3 \in Header /\ GetType(s3) = t /\ GetVersion(s3) = 1
      /\ \A f \in Field : Get(s3, f) = IF f = "connection_id" THEN id ELSE Get(s2, f)
  BY <1>7, Limits, SetIs, SetKeepsType
<1> HIDE DEF s3
<1>9. /\ s4 \in Header /\ GetType(s4) = t /\ GetVersion(s4) = 1
      /\ \A f \in Field : Get(s4, f) = IF f = "seq_nr" THEN seq ELSE Get(s3, f)
  BY <1>8, Limits, SetIs, SetKeepsType
<1> HIDE DEF s4
<1>10. /\ s5 \in Header /\ GetType(s5) = t /\ GetVersion(s5) = 1
       /\ \A f \in Field : Get(s5, f) = IF f = "ack_nr" THEN ack ELSE Get(s4, f)
  BY <1>9, Limits, SetIs, SetKeepsType
<1> HIDE DEF s5
<1>11. /\ \A f \in Field : Get(s5, f) = last'[f]
       /\ last'["timestamp"] = time /\ last'["timestamp_difference"] = diff
       /\ last'["connection_id"] = id /\ last'["seq_nr"] = seq /\ last'["ack_nr"] = ack
       /\ last'["wnd_size"] = 0 /\ DOMAIN last' = Field
       /\ last' = [f \in Field |-> last'[f]]
  <2>1. /\ last'["timestamp"] = time /\ last'["timestamp_difference"] = diff
        /\ last'["connection_id"] = id /\ last'["seq_nr"] = seq /\ last'["ack_nr"] = ack
        /\ last'["wnd_size"] = 0 /\ DOMAIN last' = Field
        /\ last' = [f \in Field |-> last'[f]]
    BY <1>4, Limits DEF Zero
  <2> QED
    BY <1>6, <1>7, <1>8, <1>9, <1>10, <2>1, Limits
<1>12. last' \in [Field -> Nat] /\ \A f \in Field : last'[f] < Limit(f)
  <2>1. \A f \in Field : last'[f] \in Nat /\ last'[f] < Limit(f)
    BY <1>1, <1>3, <1>11, Limits, Constants
  <2> QED
    BY <1>11, <2>1
<1>13. FieldsReadBack'
  BY <1>4, <1>10, <1>11 DEF FieldsReadBack
<1> QED
  BY <1>4, <1>10, <1>12, <1>13 DEF HeaderInv

LEMMA TickStep == HeaderInv /\ Tick => HeaderInv'
<1> SUFFICES ASSUME HeaderInv, Tick PROVE HeaderInv'
  OBVIOUS
<1>1. now' \in Times /\ now' > now /\ UNCHANGED <<header, type, last>>
  BY DEF Tick
<1>2. now \in Nat /\ now' \in Nat
  BY <1>1, HeaderAssumption DEF HeaderInv
<1>3. FieldsReadBack'
  BY <1>1 DEF HeaderInv, FieldsReadBack
<1> QED
  BY <1>1, <1>2, <1>3 DEF HeaderInv

\* Every step keeps the invariant: one lemma per action above.
LEMMA StepHeader == HeaderInv /\ [Next]_vars => HeaderInv'
<1> SUFFICES ASSUME HeaderInv, [Next]_vars PROVE HeaderInv'
  OBVIOUS
<1>1. U16Values \subseteq 0 .. Power(2) - 1 /\ U32Values \subseteq 0 .. U32 - 1
  BY HeaderAssumption
<1>2. ASSUME NEW f \in {"connection_id", "seq_nr", "ack_nr"}, NEW v \in U16Values, SetField(f, v)
      PROVE  HeaderInv'
  <2>1. f \in Field /\ v \in 0 .. Limit(f) - 1
    BY <1>1, Limits
  <2> QED
    BY <1>2, <2>1, SetFieldStep
<1>3. ASSUME NEW f \in {"timestamp", "timestamp_difference", "wnd_size"}, NEW v \in U32Values,
             SetField(f, v)
      PROVE  HeaderInv'
  <2>1. f \in Field /\ v \in 0 .. Limit(f) - 1
    BY <1>1, Limits
  <2> QED
    BY <1>3, <2>1, SetFieldStep
<1>4. ASSUME NEW t \in PacketType, NEW id \in U16Values, NEW seq \in U16Values,
             NEW ack \in U16Values, Reply(t, id, seq, ack)
      PROVE  HeaderInv'
  <2>1. {id, seq, ack} \subseteq 0 .. Power(2) - 1
    BY <1>1
  <2> QED
    BY <1>4, <2>1, ReplyStep
<1>5. CASE UNCHANGED vars
  BY <1>5 DEF vars, HeaderInv, FieldsReadBack
<1> QED
  BY <1>2, <1>3, <1>4, <1>5, NewPacketStep, ReparseStep, TickStep, ChangeTypeStep DEF Next

-----------------------------------------------------------------------------
(* What the header guarantees, for every clock and every value.            *)

\* The invariant holds in every state.
THEOREM HeaderInvHolds == Spec => []HeaderInv
<1> QED
  BY InitHeader, StepHeader, PTL DEF Spec

\* Every field reads back what was last written to it, whatever was written
\* beside it and however often the header was parsed.
THEOREM FieldsAreReadBack == Spec => []FieldsReadBack
<1>1. HeaderInv => FieldsReadBack
  BY DEF HeaderInv
<1> QED
  BY <1>1, HeaderInvHolds, PTL
=============================================================================
