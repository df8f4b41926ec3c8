----------------------- MODULE PacketExtensionsProofs -----------------------
(***************************************************************************)
(* Proofs about the chain of extensions, for every size of the header, the *)
(* words and the packets: no reader of an accepted packet leaves it, what  *)
(* was accepted is accepted again, and every walk sees the same chain.     *)
(***************************************************************************)
EXTENDS PacketExtensions, SequenceTheorems, TLAPS

-----------------------------------------------------------------------------
(* The layout of a packet: the places s[1], s[2], ... at which its         *)
(* extensions begin, the last of them the place of the payload.            *)

Offsets == Seq(Nat)

\* A selective ack whose length fits its byte.  Longer ones are announced with
\* a wrapped length, of which SelectiveAck tells what becomes.
SackFits == \A n \in SackLengths : n < ByteMod
Announced(n) == SackFits => n # 0 /\ n % Word = 0

\* The type of what begins at the k-th place, and the byte that holds it.
MarkerAt(s, k) == IF k = 1 THEN 2 ELSE s[k - 1] + 1
Mark(b, s, k) == b[MarkerAt(s, k)]

Path(b, s) ==
  /\ s \in Offsets /\ Len(s) > 0
  /\ s[1] = HeaderSize /\ s[Len(s)] <= Len(b)
  /\ \A i, j \in 1 .. Len(s) : i < j => s[i] + 2 <= s[j]
  /\ \A k \in 1 .. Len(s) - 1 :
       /\ Mark(b, s, k) # None
       /\ s[k + 1] = s[k] + 2 + b[s[k] + 2]
       /\ Announced(b[s[k] + 2])
Whole(b, s) == Path(b, s) /\ Mark(b, s, Len(s)) = None

Chain(b, s) ==
  [k \in 1 .. Len(s) - 1 |->
     [type |-> Mark(b, s, k), data |-> SubSeq(b, s[k] + 3, s[k + 1])]]

-----------------------------------------------------------------------------
(* The inductive invariant.                                                *)

MeantIs(s) ==
  SackFits => meant.chain = Chain(bytes, s) /\ meant.payload = Rest(s[Len(s)])

\* The loop has come to the k-th place and has seen what lies before it.
Reached(s, k) ==
  /\ k \in 1 .. Len(s)
  /\ index = s[k] /\ ext = Mark(bytes, s, k)
  /\ seen = SubSeq(Chain(bytes, s), 1, k - 1)

\* get_sack is at the first extension, or something else came first.
GetReached(s) ==
  \/ index = HeaderSize /\ ext = Mark(bytes, s, 1)
  \/ Len(s) > 1 /\ Mark(bytes, s, 1) # SelectiveAck

KnownLayout ==
  /\ HeaderParses
  /\ \E s \in Offsets :
       /\ Whole(bytes, s) /\ MeantIs(s)
       /\ pc \in {"check", "iterate", "payload"} => \E k \in 1 .. Len(s) : Reached(s, k)
       /\ pc = "get" => GetReached(s)

CheckedLayout ==
  /\ HeaderParses
  /\ \E s \in Offsets : Path(bytes, s) /\ Reached(s, Len(s))

\* The last marker is changed as soon as the loop sees it.
SetLayout ==
  /\ HeaderParses
  /\ \E s \in Offsets : \E k \in 1 .. Len(s) :
       /\ Path(bytes, s) /\ MeantIs(s)
       /\ index = s[k]
       /\ k < Len(s) => ext = Mark(bytes, s, k) /\ Mark(bytes, s, Len(s)) = None
       /\ k = Len(s) => ext = None /\ Mark(bytes, s, Len(s)) = SelectiveAck

Layout ==
  /\ pc \notin {"received", "check", "rejected"} => meant.known
  /\ meant.known /\ pc # "set" => KnownLayout
  /\ pc = "check" /\ ~ meant.known => CheckedLayout
  /\ pc = "set" => SetLayout
  /\ ReadersStayInside
  /\ SackFits => StaysAccepted /\ GetSackFindsTheFirst

LayoutInv == TypeOK /\ Layout

-----------------------------------------------------------------------------
(* Bytes and places.                                                       *)

LEMMA ByteFacts ==
  /\ ByteMod \in Nat /\ ByteMod > 3
  /\ Byte \subseteq Nat /\ 0 \in Byte /\ 1 \in Byte
  /\ \A n \in Nat : n % ByteMod \in Byte /\ n % ByteMod <= n
  /\ HeaderSize \in Nat /\ HeaderSize >= 2
<1>1. Nibble \in Nat /\ Nibble >= 2
  BY LayoutAssumption
<1>2. Nibble * Nibble \in Nat /\ Nibble * Nibble >= 4
  BY <1>1
<1>3. ByteMod \in Nat /\ ByteMod > 3
  BY <1>2 DEF ByteMod
<1>4. \A n \in Nat : n % ByteMod \in 0 .. ByteMod - 1 /\ n % ByteMod <= n
  BY <1>3
<1> QED
  BY <1>3, <1>4, LayoutAssumption DEF Byte

LEMMA SackFacts ==
  ASSUME NEW bv \in Sacks
  PROVE  /\ bv \in Seq(Byte) /\ Len(bv) \in Nat
         /\ Announced(Len(bv) % ByteMod)
         /\ SackFits => Len(bv) % ByteMod = Len(bv)
<1>1. PICK n \in SackLengths : bv \in [1 .. n -> SackBytes]
  BY DEF Sacks, Blocks
<1>2. n \in Nat /\ n >= Word /\ n % Word = 0 /\ Word \in Nat \ {0}
  BY SackAssumption, LayoutAssumption
<1>3. SackBytes \subseteq Byte
  BY InputAssumption
<1>4. bv \in [1 .. n -> Byte]
  BY <1>1, <1>3
<1>5. bv \in Seq(Byte) /\ Len(bv) = n
  BY <1>2, <1>4, SeqDef, LenProperties
<1>6. SackFits => n % ByteMod = n
  BY <1>2, ByteFacts DEF SackFits
<1> QED
  BY <1>2, <1>5, <1>6 DEF Announced

\* Where the places of a path lie, and what is between them.
LEMMA PathPlaces ==
  ASSUME NEW b \in Seq(Byte), NEW s, Path(b, s)
  PROVE  /\ s \in Seq(Nat) /\ Len(s) \in Nat /\ Len(s) > 0 /\ Len(b) \in Nat
         /\ \A k \in 1 .. Len(s) :
              s[k] \in Nat /\ HeaderSize <= s[k] /\ s[k] <= s[Len(s)] /\ s[k] <= Len(b)
         /\ \A k \in 1 .. Len(s) - 1 :
              /\ k + 1 \in 1 .. Len(s)
              /\ s[k] + 2 <= s[k + 1]
              /\ s[k] + 2 <= s[Len(s)] /\ s[k] + 2 <= Len(b)
              /\ b[s[k] + 1] \in Byte /\ b[s[k] + 2] \in Byte
         /\ \A k \in 1 .. Len(s) : Mark(b, s, k) \in Byte
<1>1. /\ s \in Seq(Nat) /\ Len(s) \in Nat /\ Len(s) > 0 /\ Len(b) \in Nat
      /\ \A k \in 1 .. Len(s) : s[k] \in Nat
      /\ HeaderSize \in Nat /\ HeaderSize >= 2
  BY LenProperties, ElementOfSeq, ByteFacts DEF Path, Offsets
<1>2. \A k \in 1 .. Len(s) : HeaderSize <= s[k] /\ s[k] <= s[Len(s)] /\ s[k] <= Len(b)
  <2> SUFFICES ASSUME NEW k \in 1 .. Len(s)
               PROVE  HeaderSize <= s[k] /\ s[k] <= s[Len(s)] /\ s[k] <= Len(b)
    OBVIOUS
  <2>1. 1 \in 1 .. Len(s) /\ Len(s) \in 1 .. Len(s)
    BY <1>1
  <2>2. HeaderSize <= s[k]
    <3>1. CASE k = 1
      BY <1>1, <3>1 DEF Path
    <3>2. CASE 1 < k
      BY <1>1, <2>1, <3>2 DEF Path
    <3> QED
      BY <1>1, <3>1, <3>2
  <2>3. s[k] <= s[Len(s)]
    <3>1. CASE k = Len(s)
      BY <1>1, <3>1
    <3>2. CASE k < Len(s)
      BY SMTT(30), <1>1, <2>1, <3>2 DEF Path
    <3> QED
      BY <1>1, <3>1, <3>2
  <2> QED
    BY <1>1, <2>1, <2>2, <2>3 DEF Path
<1>3. ASSUME NEW k \in 1 .. Len(s) - 1
      PROVE  /\ k \in 1 .. Len(s) /\ k + 1 \in 1 .. Len(s) /\ Len(s) \in 1 .. Len(s)
             /\ s[k] + 2 <= s[k + 1]
             /\ s[k] + 2 <= s[Len(s)] /\ s[k] + 2 <= Len(b)
             /\ b[s[k] + 1] \in Byte /\ b[s[k] + 2] \in Byte
  <2>1. /\ k \in 1 .. Len(s) /\ k + 1 \in 1 .. Len(s) /\ Len(s) \in 1 .. Len(s)
        /\ k < k + 1 /\ k < Len(s)
    BY <1>1
  <2>2. s[k] + 2 <= s[k + 1] /\ s[k] + 2 <= s[Len(s)]
    BY <2>1 DEF Path
  <2>3. s[k] + 2 <= Len(b)
    BY <1>1, <1>2, <2>1, <2>2
  <2>4. s[k] + 1 \in 1 .. Len(b) /\ s[k] + 2 \in 1 .. Len(b)
    BY SMTT(30), <1>1, <2>1, <2>3
  <2> QED
    BY <2>1, <2>2, <2>3, <2>4, ElementOfSeq
<1>4. ASSUME NEW k \in 1 .. Len(s)
      PROVE  Mark(b, s, k) \in Byte
  <2>1. CASE k = 1
    <3>1. 2 \in 1 .. Len(b)
      BY <1>1, <1>2
    <3> QED
      BY <2>1, <3>1, ElementOfSeq DEF Mark, MarkerAt
  <2>2. CASE k # 1
    <3>1. k - 1 \in 1 .. Len(s) - 1
      BY <1>1, <2>2
    <3> QED
      BY <1>3, <2>2, <3>1 DEF Mark, MarkerAt
  <2> QED
    BY <2>1, <2>2
<1> QED
  BY <1>1, <1>2, <1>3, <1>4

LEMMA ChainType ==
  ASSUME NEW b \in Seq(Byte), NEW s, Path(b, s)
  PROVE  /\ Chain(b, s) \in Seq(Extension) /\ Len(Chain(b, s)) = Len(s) - 1
         /\ \A k \in 1 .. Len(s) - 1 :
              Chain(b, s)[k] = [type |-> Mark(b, s, k), data |-> SubSeq(b, s[k] + 3, s[k + 1])]
<1>1. ASSUME NEW k \in 1 .. Len(s) - 1
      PROVE  [type |-> Mark(b, s, k), data |-> SubSeq(b, s[k] + 3, s[k + 1])] \in Extension
  <2>1. /\ k \in 1 .. Len(s) /\ k + 1 \in 1 .. Len(s)
        /\ s[k] \in Nat /\ s[k + 1] \in Nat /\ s[k + 1] <= Len(b) /\ Len(b) \in Nat
        /\ Mark(b, s, k) \in Byte
    BY PathPlaces
  <2>2. \A i \in s[k] + 3 .. s[k + 1] : b[i] \in Byte
    BY <2>1, ElementOfSeq
  <2>3. SubSeq(b, s[k] + 3, s[k + 1]) \in Seq(Byte)
    BY <2>1, <2>2, SubSeqProperties
  <2> QED
    BY <2>1, <2>3 DEF Extension
<1>2. Len(s) - 1 \in Nat
  BY PathPlaces
<1>3. Chain(b, s) \in [1 .. Len(s) - 1 -> Extension]
  BY <1>1 DEF Chain
<1>4. Chain(b, s) \in Seq(Extension)
  BY <1>2, <1>3, SeqDef
<1>5. Len(Chain(b, s)) = Len(s) - 1
  BY <1>2, <1>4, LenProperties DEF Chain
<1> QED
  BY <1>4, <1>5 DEF Chain

\* One more extension within the packet makes a longer path.
LEMMA LongerPath ==
  ASSUME NEW b \in Seq(Byte), NEW s, Path(b, s), NEW next \in Nat,
         Mark(b, s, Len(s)) # None,
         s[Len(s)] + 2 <= Len(b), next = s[Len(s)] + 2 + b[s[Len(s)] + 2],
         next <= Len(b), Announced(b[s[Len(s)] + 2])
  PROVE  /\ Path(b, Append(s, next))
         /\ Len(Append(s, next)) = Len(s) + 1
         /\ Append(s, next)[Len(s) + 1] = next
         /\ Mark(b, Append(s, next), Len(s) + 1) = b[s[Len(s)] + 1]
         /\ Chain(b, Append(s, next)) =
              Append(Chain(b, s), [type |-> Mark(b, s, Len(s)),
                                   data |-> SubSeq(b, s[Len(s)] + 3, next)])
<1> DEFINE t == Append(s, next)
           n == Len(s)
<1>1. /\ s \in Seq(Nat) /\ n \in Nat /\ n > 0 /\ Len(b) \in Nat
      /\ \A k \in 1 .. n : s[k] \in Nat /\ s[k] <= s[n]
  BY PathPlaces
<1>2. /\ t \in Seq(Nat) /\ Len(t) = n + 1 /\ t[n + 1] = next
      /\ \A k \in 1 .. n : t[k] = s[k]
  BY <1>1, AppendProperties
<1>n. n \in Nat /\ n \in 1 .. n /\ 1 \in 1 .. n
  BY <1>1
<1>3. s[n] \in Nat /\ b[s[n] + 2] \in Nat
  <2>1. s[n] \in Nat
    BY <1>1, <1>n
  <2>2. s[n] + 2 \in 1 .. Len(b)
    BY <1>1, <2>1
  <2>3. b[s[n] + 2] \in Byte
    BY <2>2, ElementOfSeq
  <2> QED
    BY <2>1, <2>3, ByteFacts
<1> HIDE DEF t
<1>4. \A k \in 1 .. n : Mark(b, t, k) = Mark(b, s, k)
  <2> SUFFICES ASSUME NEW k \in 1 .. n, k # 1 PROVE t[k - 1] = s[k - 1]
    BY DEF Mark, MarkerAt
  <2>1. k - 1 \in 1 .. n
    BY <1>n
  <2> QED
    BY <1>2, <2>1
<1>5. Mark(b, t, n + 1) = b[s[n] + 1]
  <2>1. n + 1 # 1 /\ n + 1 - 1 = n /\ t[n] = s[n]
    BY <1>n, <1>2
  <2> QED
    BY <2>1 DEF Mark, MarkerAt
<1>6. \A i, j \in 1 .. Len(t) : i < j => t[i] + 2 <= t[j]
  <2> SUFFICES ASSUME NEW i \in 1 .. n + 1, NEW j \in 1 .. n + 1, i < j
               PROVE  t[i] + 2 <= t[j]
    BY <1>2
  <2>0. i \in 1 .. n /\ (j = n + 1 \/ j \in 1 .. n)
    BY <1>n
  <2>1. s[i] \in Nat /\ s[i] <= s[n] /\ t[i] = s[i]
    BY <1>1, <1>2, <2>0
  <2>2. CASE j = n + 1
    <3>1. t[j] = s[n] + 2 + b[s[n] + 2]
      BY <1>2, <2>2
    <3> QED
      BY <1>3, <2>1, <3>1
  <2>3. CASE j \in 1 .. n
    <3>1. t[j] = s[j] /\ s[i] + 2 <= s[j]
      BY <1>2, <2>0, <2>3 DEF Path
    <3> QED
      BY <2>1, <3>1
  <2> QED
    BY <2>0, <2>2, <2>3
<1>7. ASSUME NEW k \in 1 .. Len(t) - 1
      PROVE  /\ Mark(b, t, k) # None
             /\ t[k + 1] = t[k] + 2 + b[t[k] + 2]
             /\ Announced(b[t[k] + 2])
  <2>1. k \in 1 .. n /\ (k = n \/ k \in 1 .. n - 1)
    BY <1>n, <1>2
  <2>2. CASE k = n
    BY <1>2, <1>4, <2>1, <2>2
  <2>3. CASE k \in 1 .. n - 1
    <3>1. k + 1 \in 1 .. n
      BY <1>n, <2>3
    <3> QED
      BY <1>2, <1>4, <2>1, <2>3, <3>1 DEF Path
  <2> QED
    BY <2>1, <2>2, <2>3
<1>8. Path(b, t)
  <2>1. t[1] = HeaderSize
    BY <1>n, <1>2 DEF Path
  <2> QED
    BY <1>1, <1>2, <1>6, <1>7, <2>1 DEF Path, Offsets
<1>9. Chain(b, t) = Append(Chain(b, s), [type |-> Mark(b, s, n), data |-> SubSeq(b, s[n] + 3, next)])
  <2> DEFINE x == [type |-> Mark(b, s, n), data |-> SubSeq(b, s[n] + 3, next)]
             C == Chain(b, s)
  <2>1. /\ C \in Seq(Extension) /\ Len(C) = n - 1
        /\ Chain(b, t) \in Seq(Extension) /\ Len(Chain(b, t)) = n
        /\ \A k \in 1 .. n :
             Chain(b, t)[k] = [type |-> Mark(b, t, k), data |-> SubSeq(b, t[k] + 3, t[k + 1])]
        /\ \A k \in 1 .. n - 1 :
             C[k] = [type |-> Mark(b, s, k), data |-> SubSeq(b, s[k] + 3, s[k + 1])]
    <3>1. Len(t) - 1 = n
      BY <1>n, <1>2
    <3>2. /\ Chain(b, t) \in Seq(Extension) /\ Len(Chain(b, t)) = Len(t) - 1
          /\ \A k \in 1 .. Len(t) - 1 :
               Chain(b, t)[k] = [type |-> Mark(b, t, k), data |-> SubSeq(b, t[k] + 3, t[k + 1])]
      BY <1>8, ChainType
    <3>3. /\ C \in Seq(Extension) /\ Len(C) = n - 1
          /\ \A k \in 1 .. n - 1 :
               C[k] = [type |-> Mark(b, s, k), data |-> SubSeq(b, s[k] + 3, s[k + 1])]
      BY ChainType
    <3> QED
      BY <3>1, <3>2, <3>3
  <2>2. n \in 1 .. n
    BY <1>n
  <2>3. Chain(b, t)[n] = x
    BY <1>2, <1>4, <2>1, <2>2
  <2>4. x \in Extension
    BY <2>1, <2>2, <2>3, ElementOfSeq
  <2> HIDE DEF x, C
  <2>5. /\ Append(C, x) \in Seq(Extension) /\ Len(Append(C, x)) = n - 1 + 1
        /\ \A k \in 1 .. n - 1 : Append(C, x)[k] = C[k]
        /\ Append(C, x)[n - 1 + 1] = x
    BY <2>1, <2>4, AppendProperties
  <2>6. n - 1 + 1 = n
    BY <1>n
  <2>7. \A k \in 1 .. n : Chain(b, t)[k] = Append(C, x)[k]
    <3> SUFFICES ASSUME NEW k \in 1 .. n PROVE Chain(b, t)[k] = Append(C, x)[k]
      OBVIOUS
    <3>1. CASE k = n
      BY <2>3, <2>5, <2>6, <3>1
    <3>2. CASE k \in 1 .. n - 1
      <4>1. k + 1 \in 1 .. n
        BY <1>n, <3>2
      <4>2. Chain(b, t)[k] = C[k]
        BY <1>2, <1>4, <2>1, <3>2, <4>1
      <4> QED
        BY <2>5, <3>2, <4>2
    <3>3. k = n \/ k \in 1 .. n - 1
      BY <1>n
    <3> QED
      BY <3>1, <3>2, <3>3
  <2>8. Chain(b, t) = Append(C, x)
    BY <2>1, <2>5, <2>6, <2>7, SeqEqual
  <2> QED
    BY <2>8 DEF x, C
<1> QED
  BY <1>2, <1>5, <1>8, <1>9 DEF t

LEMMA SameSubSeq ==
  ASSUME NEW b, NEW c, NEW m \in Nat, NEW n \in Nat,
         \A i \in m .. n : b[i] \in Byte /\ c[i] = b[i]
  PROVE  SubSeq(c, m, n) = SubSeq(b, m, n)
<1> DEFINE x == SubSeq(b, m, n)
           y == SubSeq(c, m, n)
<1>1. /\ x \in Seq(Byte) /\ Len(x) = IF m <= n THEN n - m + 1 ELSE 0
      /\ \A i \in 1 .. n - m + 1 : x[i] = b[m + i - 1]
  BY SubSeqProperties
<1>2. /\ y \in Seq(Byte) /\ Len(y) = IF m <= n THEN n - m + 1 ELSE 0
      /\ \A i \in 1 .. n - m + 1 : y[i] = c[m + i - 1]
  BY SubSeqProperties
<1> HIDE DEF x, y
<1>3. ASSUME NEW i \in 1 .. Len(x)
      PROVE  x[i] = y[i]
  <2>1. i \in 1 .. n - m + 1 /\ m + i - 1 \in m .. n
    BY <1>1
  <2> QED
    BY <1>1, <1>2, <2>1
<1>4. x = y
  BY <1>1, <1>2, <1>3, SeqEqual
<1> QED
  BY <1>4 DEF x, y

\* A packet that has the same bytes up to the last place has the same path.
LEMMA SamePath ==
  ASSUME NEW b \in Seq(Byte), NEW c \in Seq(Byte), NEW s, Path(b, s),
         s[Len(s)] <= Len(c), \A i \in 1 .. s[Len(s)] : c[i] = b[i]
  PROVE  /\ Path(c, s) /\ Chain(c, s) = Chain(b, s)
         /\ \A k \in 1 .. Len(s) : Mark(c, s, k) = Mark(b, s, k)
<1>1. /\ s \in Seq(Nat) /\ Len(s) \in Nat /\ Len(s) > 0 /\ s[Len(s)] \in Nat
      /\ \A k \in 1 .. Len(s) : s[k] \in Nat /\ s[k] <= s[Len(s)] /\ HeaderSize <= s[k]
      /\ \A k \in 1 .. Len(s) - 1 :
           k \in 1 .. Len(s) /\ k + 1 \in 1 .. Len(s) /\ s[k] + 2 <= s[Len(s)]
  BY PathPlaces
<1>n. Len(s) \in Nat /\ Len(s) \in 1 .. Len(s) /\ s[Len(s)] \in Nat
  BY <1>1
<1>2. ASSUME NEW k \in 1 .. Len(s) - 1
      PROVE  c[s[k] + 1] = b[s[k] + 1] /\ c[s[k] + 2] = b[s[k] + 2]
  <2>1. s[k] \in Nat /\ s[k] + 2 <= s[Len(s)]
    BY <1>1
  <2>2. s[k] + 1 \in 1 .. s[Len(s)] /\ s[k] + 2 \in 1 .. s[Len(s)]
    BY <1>n, <2>1
  <2> QED
    BY <2>2
<1>3. \A k \in 1 .. Len(s) : Mark(c, s, k) = Mark(b, s, k)
  <2> SUFFICES ASSUME NEW k \in 1 .. Len(s) PROVE Mark(c, s, k) = Mark(b, s, k)
    OBVIOUS
  <2>1. CASE k = 1
    <3>1. HeaderSize <= s[Len(s)] /\ s[Len(s)] \in Nat
      BY <1>1, <1>n
    <3>2. 2 \in 1 .. s[Len(s)]
      BY <3>1, LayoutAssumption
    <3> QED
      BY <2>1, <3>2 DEF Mark, MarkerAt
  <2>2. CASE k # 1
    <3>1. k - 1 \in 1 .. Len(s) - 1
      BY <1>n, <2>2
    <3> QED
      BY <1>2, <2>2, <3>1 DEF Mark, MarkerAt
  <2> QED
    BY <2>1, <2>2
<1>4. Path(c, s)
  BY <1>1, <1>2, <1>3 DEF Path
<1>5. ASSUME NEW k \in 1 .. Len(s) - 1
      PROVE  SubSeq(c, s[k] + 3, s[k + 1]) = SubSeq(b, s[k] + 3, s[k + 1])
  <2>1. s[k] \in Nat /\ s[k + 1] \in Nat /\ s[k + 1] <= s[Len(s)]
    BY <1>1
  <2>2. \A i \in s[k] + 3 .. s[k + 1] : i \in 1 .. s[Len(s)]
    BY <1>n, <2>1
  <2>3. \A i \in 1 .. s[Len(s)] : b[i] \in Byte
    <3>1. s[Len(s)] <= Len(b) /\ Len(b) \in Nat
      BY LenProperties DEF Path
    <3> QED
      BY <1>1, <3>1, ElementOfSeq
  <2>4. s[k] + 3 \in Nat /\ \A i \in s[k] + 3 .. s[k + 1] : b[i] \in Byte /\ c[i] = b[i]
    BY <2>1, <2>2, <2>3
  <2> QED
    BY ZenonT(30), <2>1, <2>4, SameSubSeq
<1>6. Chain(c, s) = Chain(b, s)
  BY <1>1, <1>3, <1>5 DEF Chain
<1> QED
  BY <1>3, <1>4, <1>6

\* The marker that ends the chain is changed to announce one more extension.
Marked(b, p) == [b EXCEPT ![p] = SelectiveAck]
LEMMA MarkedPath ==
  ASSUME NEW b \in Seq(Byte), NEW s, Path(b, s),
         NEW p, p = MarkerAt(s, Len(s)),
         NEW c, c = Marked(b, p)
  PROVE  /\ c \in Seq(Byte) /\ Len(c) = Len(b)
         /\ Path(c, s) /\ Chain(c, s) = Chain(b, s)
         /\ Mark(c, s, Len(s)) = SelectiveAck
         /\ \A k \in 1 .. Len(s) - 1 : Mark(c, s, k) = Mark(b, s, k)
         /\ p \in Nat /\ 1 < p /\ p <= s[Len(s)]
         /\ \A i \in 1 .. Len(b) : i # p => c[i] = b[i]
<1> DEFINE n == Len(s)
<1>1. /\ s \in Seq(Nat) /\ n \in Nat /\ n > 0 /\ Len(b) \in Nat
      /\ \A k \in 1 .. n : s[k] \in Nat /\ HeaderSize <= s[k] /\ s[k] <= s[n] /\ s[k] <= Len(b)
      /\ \A k \in 1 .. n - 1 : /\ k \in 1 .. n /\ k + 1 \in 1 .. n
                               /\ s[k] + 2 <= s[k + 1] /\ s[k] + 2 <= s[n]
  BY PathPlaces
<1>n. n \in Nat /\ n \in 1 .. n /\ 1 \in 1 .. n /\ s[n] \in Nat /\ s[n] <= Len(b) /\ Len(b) \in Nat
  BY <1>1
<1>h. HeaderSize \in Nat /\ HeaderSize >= 2 /\ HeaderSize <= s[n]
  BY <1>1, <1>n, LayoutAssumption
<1>2. p \in Nat /\ 1 < p /\ p <= s[n] /\ p \in 1 .. Len(b)
  <2>1. CASE n = 1
    <3>1. p = 2
      BY <2>1 DEF MarkerAt
    <3> QED
      BY <1>n, <1>h, <3>1
  <2>2. CASE n > 1
    <3>1. n - 1 \in 1 .. n - 1
      BY <1>n, <2>2
    <3>2. n - 1 \in 1 .. n /\ s[n - 1] + 2 <= s[n]
      BY <1>1, <3>1
    <3>3. s[n - 1] \in Nat /\ HeaderSize <= s[n - 1]
      BY <1>1, <3>2
    <3>4. p = s[n - 1] + 1
      <4>1. n # 1
        BY <1>n, <2>2
      <4> QED
        BY <4>1 DEF MarkerAt
    <3>5. PICK x, y \in Nat : x = s[n - 1] /\ y = s[n]
      BY <1>n, <3>3
    <3>6. p \in Nat /\ 1 < p /\ p <= y
      <4>1. x + 2 <= y /\ HeaderSize <= x /\ p = x + 1
        BY <3>2, <3>3, <3>4, <3>5
      <4> QED
        BY SMTT(30), <3>5, <4>1, LayoutAssumption
    <3> QED
      BY <1>n, <3>5, <3>6
  <2>3. n = 1 \/ n > 1
    <3>1. \A m \in Nat : m > 0 => m = 1 \/ m > 1
      OBVIOUS
    <3>2. n \in Nat /\ n > 0
      BY <1>1
    <3> HIDE DEF n
    <3> QED
      BY <3>1, <3>2
  <2> QED
    BY <2>1, <2>2, <2>3
<1>3. /\ c \in Seq(Byte) /\ Len(c) = Len(b)
      /\ \A i \in 1 .. Len(b) : c[i] = IF i = p THEN SelectiveAck ELSE b[i]
  <2>1. SelectiveAck \in Byte
    BY ByteFacts DEF SelectiveAck
  <2> QED
    BY <1>2, <2>1, ExceptSeq DEF Marked
\* The marker lies before the last place and behind everything else.
<1>4. ASSUME NEW k \in 1 .. n - 1
      PROVE  /\ s[k] + 2 \in 1 .. Len(b) /\ s[k] + 2 # p
             /\ k < n - 1 => s[k] + 1 # p /\ s[k + 1] < p
             /\ k = n - 1 => p < s[k] + 2
             /\ s[k] + 1 \in 1 .. Len(b) /\ s[k] + 1 > 2
  <2>1. s[k] \in Nat /\ HeaderSize <= s[k] /\ s[k] + 2 <= s[n]
    BY <1>1
  <2>2. s[k] + 2 \in 1 .. Len(b) /\ s[k] + 1 \in 1 .. Len(b) /\ s[k] + 1 > 2
    BY <1>n, <1>h, <2>1
  <2>3. CASE k = n - 1
    <3>0. n # 1
      BY <1>n, <2>3
    <3>1. p = s[k] + 1
      BY <2>3, <3>0 DEF MarkerAt
    <3> QED
      BY <1>n, <2>1, <2>2, <2>3, <3>1
  <2>4. CASE k # n - 1
    <3>1. k + 1 \in 1 .. n - 1 /\ k < n - 1 /\ n # 1 /\ n - 1 \in 1 .. n - 1
      BY <1>n, <2>4
    <3>2. p = s[n - 1] + 1
      BY <3>1 DEF MarkerAt
    <3>3. s[k + 1] <= s[n - 1]
      <4>1. CASE k + 1 = n - 1
        <5>1. s[n - 1] \in Nat
          BY <1>1, <3>1
        <5> QED
          BY <4>1, <5>1
      <4>2. CASE k + 1 # n - 1
        <5>1. k + 1 \in 1 .. n /\ n - 1 \in 1 .. n /\ k + 1 < n - 1
          BY <1>n, <3>1, <4>2
        <5>2. s[k + 1] + 2 <= s[n - 1]
          BY <5>1 DEF Path
        <5>3. s[k + 1] \in Nat /\ s[n - 1] \in Nat
          BY <1>1, <5>1
        <5> QED
          BY <5>2, <5>3
      <4> QED
        BY <4>1, <4>2
    <3>4. s[k + 1] \in Nat /\ s[n - 1] \in Nat /\ s[k] + 2 <= s[k + 1]
      BY <1>1, <3>1
    <3>5. s[k + 1] < p /\ s[k] + 1 # p /\ s[k] + 2 # p
      BY SMTT(30), <2>1, <3>2, <3>3, <3>4
    <3> QED
      BY <2>2, <2>4, <3>5
  <2> QED
    BY <2>3, <2>4
<1>5. \A k \in 1 .. n - 1 : c[s[k] + 2] = b[s[k] + 2]
  BY <1>3, <1>4
<1>6. ASSUME NEW k \in 1 .. n - 1
      PROVE  Mark(c, s, k) = Mark(b, s, k)
  <2>1. CASE k = 1
    <3>1. n # 1 /\ n - 1 \in 1 .. n - 1
      BY <1>n, <2>1
    <3>2. p = s[n - 1] + 1 /\ s[n - 1] + 1 > 2
      BY <1>4, <3>1 DEF MarkerAt
    <3>3. 2 \in 1 .. Len(b) /\ p # 2
      BY <1>n, <1>h, <1>2, <3>2
    <3> QED
      BY <1>3, <2>1, <3>3 DEF Mark, MarkerAt
  <2>2. CASE k # 1
    <3>1. k - 1 \in 1 .. n - 1 /\ k - 1 < n - 1
      BY <1>n, <2>2
    <3>2. s[k - 1] + 1 # p /\ s[k - 1] + 1 \in 1 .. Len(b)
      BY <1>4, <3>1
    <3> QED
      BY <1>3, <2>2, <3>2 DEF Mark, MarkerAt
  <2> QED
    BY <2>1, <2>2
<1>7. Mark(c, s, n) = SelectiveAck
  <2>1. c[p] = SelectiveAck
    BY <1>2, <1>3
  <2> QED
    BY <2>1 DEF Mark
<1>8. Path(c, s)
  BY <1>3, <1>5, <1>6 DEF Path
<1>9. ASSUME NEW k \in 1 .. n - 1
      PROVE  SubSeq(c, s[k] + 3, s[k + 1]) = SubSeq(b, s[k] + 3, s[k + 1])
  <2>1. s[k] \in Nat /\ s[k + 1] \in Nat /\ s[k + 1] <= Len(b)
    BY <1>1
  <2>2. \A i \in s[k] + 3 .. s[k + 1] : i # p /\ i \in 1 .. Len(b)
    <3>1. k < n - 1 \/ k = n - 1
      BY <1>n
    <3>2. (k < n - 1 => s[k + 1] < p) /\ (k = n - 1 => p < s[k] + 2)
      BY <1>4
    <3> QED
      BY SMTT(30), <1>n, <1>2, <2>1, <3>1, <3>2
  <2>3. \A i \in s[k] + 3 .. s[k + 1] : b[i] \in Byte /\ c[i] = b[i]
    BY <1>3, <2>2, ElementOfSeq
  <2>4. s[k] + 3 \in Nat /\ s[k + 1] \in Nat
    BY <2>1
  <2>5. \A m, r \in Nat :
          (\A i \in m .. r : b[i] \in Byte /\ c[i] = b[i]) => SubSeq(c, m, r) = SubSeq(b, m, r)
    BY SameSubSeq
  <2> QED
    BY <2>3, <2>4, <2>5
<1>10. Chain(c, s) = Chain(b, s)
  BY <1>6, <1>9 DEF Chain
<1> QED
  BY <1>2, <1>3, <1>6, <1>7, <1>8, <1>10
\* Concatenation and pieces of sequences of bytes, by offset.
LEMMA ConcatAt ==
  ASSUME NEW s \in Seq(Byte), NEW t \in Seq(Byte)
  PROVE  /\ s \o t \in Seq(Byte) /\ Len(s \o t) = Len(s) + Len(t)
         /\ Len(s) \in Nat /\ Len(t) \in Nat
         /\ \A j \in 1 .. Len(s) : (s \o t)[j] = s[j]
         /\ \A j \in 1 .. Len(t) : (s \o t)[Len(s) + j] = t[j]
<1> DEFINE st == s \o t
           m == Len(s)
           n == Len(t)
<1>1. /\ st \in Seq(Byte) /\ Len(st) = m + n
      /\ \A j \in 1 .. m + n : st[j] = IF j <= m THEN s[j] ELSE t[j - m]
  BY ConcatProperties
<1>2. m \in Nat /\ n \in Nat
  BY LenProperties
<1> HIDE DEF st, m, n
<1>3. \A j \in 1 .. m : st[j] = s[j]
  BY <1>1, <1>2
<1>4. ASSUME NEW j \in 1 .. n
      PROVE  st[m + j] = t[j]
  <2>2. PICK i \in 1 .. m + n : i = m + j /\ ~ (i <= m) /\ i - m = j
    BY <1>2
  <2>3. st[i] = t[i - m]
    BY <1>1, <2>2
  <2> QED
    BY <2>2, <2>3
<1> QED
  BY <1>1, <1>2, <1>3, <1>4 DEF st, m, n

LEMMA SubSeqAt ==
  ASSUME NEW b \in Seq(Byte), NEW m \in Nat, NEW r \in Nat, m + r <= Len(b)
  PROVE  /\ SubSeq(b, m + 1, m + r) \in Seq(Byte) /\ Len(SubSeq(b, m + 1, m + r)) = r
         /\ \A j \in 1 .. r : SubSeq(b, m + 1, m + r)[j] = b[m + j]
<1> DEFINE d == SubSeq(b, m + 1, m + r)
<1>1. \A i \in m + 1 .. m + r : b[i] \in Byte
  <2>1. Len(b) \in Nat
    BY LenProperties
  <2>2. \A i \in m + 1 .. m + r : i \in 1 .. Len(b)
    BY <2>1
  <2> QED
    BY <2>2, ElementOfSeq
<1>2. m + 1 \in Int /\ m + r \in Int
  OBVIOUS
<1>3. /\ d \in Seq(Byte)
      /\ Len(d) = IF m + 1 <= m + r THEN (m + r) - (m + 1) + 1 ELSE 0
      /\ \A j \in 1 .. (m + r) - (m + 1) + 1 : d[j] = b[(m + 1) + j - 1]
  BY <1>1, <1>2, SubSeqProperties
<1> HIDE DEF d
<1>4. Len(d) = r
  BY <1>3
<1>5. ASSUME NEW j \in 1 .. r
      PROVE  d[j] = b[m + j]
  <2>1. j \in 1 .. (m + r) - (m + 1) + 1 /\ (m + 1) + j - 1 = m + j
    OBVIOUS
  <2> QED
    BY <1>3, <2>1
<1> QED
  BY <1>3, <1>4, <1>5 DEF d

LEMMA SubSeqIs ==
  ASSUME NEW b \in Seq(Byte), NEW m \in Nat, NEW d \in Seq(Byte), m + Len(d) <= Len(b),
         \A j \in 1 .. Len(d) : b[m + j] = d[j]
  PROVE  SubSeq(b, m + 1, m + Len(d)) = d
<1> DEFINE e == SubSeq(b, m + 1, m + Len(d))
<1>1. Len(d) \in Nat
  BY LenProperties
<1>2. e \in Seq(Byte) /\ Len(e) = Len(d) /\ \A j \in 1 .. Len(d) : e[j] = b[m + j]
  BY <1>1, SubSeqAt
<1> HIDE DEF e
<1>3. e = d
  BY <1>2, SeqEqual
<1> QED
  BY <1>3 DEF e

\* The bytes of a packet into which a selective ack was inserted at place i.
Spliced(b, i, bv, len) == SubSeq(b, 1, i) \o <<None, len>> \o bv \o SubSeq(b, i + 1, Len(b))
InsertedAt(c, b, i, bv, len) ==
  /\ c \in Seq(Byte) /\ Len(c) = Len(b) + 2 + Len(bv)
  /\ \A j \in 1 .. i : c[j] = b[j]
  /\ c[i + 1] = None /\ c[i + 2] = len
  /\ \A j \in 1 .. Len(bv) : c[i + 2 + j] = bv[j]
  /\ \A j \in 1 .. Len(b) - i : c[i + 2 + Len(bv) + j] = b[i + j]

LEMMA InsertedBytes ==
  ASSUME NEW b \in Seq(Byte), NEW i \in 0 .. Len(b), NEW bv \in Seq(Byte), NEW len \in Byte
  PROVE  InsertedAt(Spliced(b, i, bv, len), b, i, bv, len)
<1> DEFINE A == SubSeq(b, 1, i)
           M == <<None, len>>
           R == SubSeq(b, i + 1, Len(b))
           AM == A \o M
           AMV == AM \o bv
           c == AMV \o R
           r == Len(b) - i
           v == Len(bv)
<1>1. i \in Nat /\ Len(b) \in Nat /\ i <= Len(b) /\ v \in Nat /\ r \in Nat
      /\ i + r = Len(b) /\ 0 + i = i /\ 0 + 1 = 1 /\ 0 + i <= Len(b) /\ i + r <= Len(b)
  BY LenProperties
<1> HIDE DEF v, r
<1>2. /\ A \in Seq(Byte) /\ Len(A) = i
      /\ \A j \in 1 .. i : A[j] = b[j]
  <2>1. /\ SubSeq(b, 0 + 1, 0 + i) \in Seq(Byte) /\ Len(SubSeq(b, 0 + 1, 0 + i)) = i
        /\ \A j \in 1 .. i : SubSeq(b, 0 + 1, 0 + i)[j] = b[0 + j]
    BY <1>1, SubSeqAt
  <2>2. \A j \in 1 .. i : 0 + j = j
    BY <1>1
  <2> QED
    BY <1>1, <2>1, <2>2
<1>3. /\ R \in Seq(Byte) /\ Len(R) = r
      /\ \A j \in 1 .. r : R[j] = b[i + j]
  <2>1. /\ SubSeq(b, i + 1, i + r) \in Seq(Byte) /\ Len(SubSeq(b, i + 1, i + r)) = r
        /\ \A j \in 1 .. r : SubSeq(b, i + 1, i + r)[j] = b[i + j]
    BY <1>1, SubSeqAt
  <2> QED
    BY <1>1, <2>1
<1>4. M \in Seq(Byte) /\ Len(M) = 2 /\ M[1] = None /\ M[2] = len
  <2>1. None \in Byte
    BY ByteFacts DEF None
  <2> QED
    BY <2>1
<1> HIDE DEF A, M, R
<1>5. /\ AM \in Seq(Byte) /\ Len(AM) = i + 2
      /\ \A j \in 1 .. i : AM[j] = b[j]
      /\ AM[i + 1] = None /\ AM[i + 2] = len
  <2>1. /\ AM \in Seq(Byte) /\ Len(AM) = Len(A) + Len(M)
        /\ \A j \in 1 .. Len(A) : AM[j] = A[j]
        /\ \A j \in 1 .. Len(M) : AM[Len(A) + j] = M[j]
    BY <1>2, <1>4, ConcatAt
  <2>2. 1 \in 1 .. 2 /\ 2 \in 1 .. 2
    OBVIOUS
  <2>3. AM[i + 1] = M[1] /\ AM[i + 2] = M[2]
    BY <1>2, <1>4, <2>1, <2>2
  <2> QED
    BY <1>2, <1>4, <2>1, <2>3
<1> HIDE DEF AM
<1>6. /\ AMV \in Seq(Byte) /\ Len(AMV) = i + 2 + v
      /\ \A j \in 1 .. i + 2 : AMV[j] = AM[j]
      /\ \A j \in 1 .. v : AMV[i + 2 + j] = bv[j]
  <2>1. /\ AMV \in Seq(Byte) /\ Len(AMV) = Len(AM) + Len(bv)
        /\ \A j \in 1 .. Len(AM) : AMV[j] = AM[j]
        /\ \A j \in 1 .. Len(bv) : AMV[Len(AM) + j] = bv[j]
    BY <1>5, ConcatAt
  <2> QED
    BY <1>5, <2>1 DEF v
<1> HIDE DEF AMV
<1>7. /\ c \in Seq(Byte) /\ Len(c) = i + 2 + v + r
      /\ \A j \in 1 .. i + 2 + v : c[j] = AMV[j]
      /\ \A j \in 1 .. r : c[i + 2 + v + j] = b[i + j]
  <2>1. /\ c \in Seq(Byte) /\ Len(c) = Len(AMV) + Len(R)
        /\ \A j \in 1 .. Len(AMV) : c[j] = AMV[j]
        /\ \A j \in 1 .. Len(R) : c[Len(AMV) + j] = R[j]
    BY <1>3, <1>6, ConcatAt
  <2> QED
    BY <1>3, <1>6, <2>1
<1> HIDE DEF c
<1>8. ASSUME NEW j \in 1 .. i + 2
      PROVE  c[j] = AM[j]
  <2>1. j \in 1 .. i + 2 + v
    BY <1>1
  <2> QED
    BY <1>6, <1>7, <2>1
<1>9. c[i + 1] = None /\ c[i + 2] = len
  <2>1. i + 1 \in 1 .. i + 2 /\ i + 2 \in 1 .. i + 2
    BY <1>1
  <2> QED
    BY <1>5, <1>8, <2>1
<1>10. \A j \in 1 .. i : c[j] = b[j]
  <2>1. \A j \in 1 .. i : j \in 1 .. i + 2
    BY <1>1
  <2> QED
    BY <1>5, <1>8, <2>1
<1>11. ASSUME NEW j \in 1 .. v
       PROVE  c[i + 2 + j] = bv[j]
  <2>1. i + 2 + j \in 1 .. i + 2 + v
    BY <1>1
  <2> QED
    BY <1>6, <1>7, <2>1
<1>12. Len(c) = Len(b) + 2 + v
  <2>1. \A x, y \in Nat : x + 2 + v + y = x + y + 2 + v
    BY <1>1
  <2> QED
    BY <1>1, <1>7, <2>1
<1>13. InsertedAt(c, b, i, bv, len)
  BY <1>7, <1>9, <1>10, <1>11, <1>12 DEF InsertedAt, v, r
<1>14. c = Spliced(b, i, bv, len)
  BY DEF Spliced, c, AMV, AM, A, M, R
<1> QED
  BY <1>13, <1>14

\* The selective ack is read back, and the payload lies behind it.
LEMMA InsertedParts ==
  ASSUME NEW b \in Seq(Byte), NEW i \in 0 .. Len(b), NEW bv \in Seq(Byte), NEW len,
         NEW c, InsertedAt(c, b, i, bv, len)
  PROVE  /\ SubSeq(c, i + 3, i + 2 + Len(bv)) = bv
         /\ SubSeq(c, i + 2 + Len(bv) + 1, Len(c)) = SubSeq(b, i + 1, Len(b))
<1> DEFINE v == Len(bv)
           r == Len(b) - i
           R == SubSeq(b, i + 1, Len(b))
<1>1. /\ i \in Nat /\ Len(b) \in Nat /\ v \in Nat /\ r \in Nat /\ i + r = Len(b)
      /\ i + r <= Len(b)
  BY LenProperties
<1>2. /\ c \in Seq(Byte) /\ Len(c) = Len(b) + 2 + v
      /\ \A j \in 1 .. v : c[i + 2 + j] = bv[j]
      /\ \A j \in 1 .. r : c[i + 2 + v + j] = b[i + j]
  BY DEF InsertedAt
<1> HIDE DEF r
<1>3. R \in Seq(Byte) /\ Len(R) = r /\ \A j \in 1 .. r : R[j] = b[i + j]
  <2>1. /\ SubSeq(b, i + 1, i + r) \in Seq(Byte) /\ Len(SubSeq(b, i + 1, i + r)) = r
        /\ \A j \in 1 .. r : SubSeq(b, i + 1, i + r)[j] = b[i + j]
    BY <1>1, SubSeqAt
  <2> QED
    BY <1>1, <2>1
<1> HIDE DEF v, R
<1>4. /\ i + 2 \in Nat /\ i + 2 + v \in Nat /\ i + 2 + 1 = i + 3
      /\ i + 2 + v <= Len(c) /\ i + 2 + v + r = Len(c) /\ i + 2 + v + r <= Len(c)
  BY SMTT(30), <1>1, <1>2
<1>5. SubSeq(c, i + 2 + 1, i + 2 + v) = bv
  BY <1>2, <1>4, SubSeqIs DEF v
<1>6. SubSeq(c, i + 2 + v + 1, i + 2 + v + r) = R
  <2>1. \A j \in 1 .. Len(R) : c[i + 2 + v + j] = R[j]
    BY <1>2, <1>3
  <2>2. SubSeq(c, i + 2 + v + 1, i + 2 + v + Len(R)) = R
    BY <1>2, <1>3, <1>4, <2>1, SubSeqIs
  <2> QED
    BY <1>3, <2>2
<1>7. SubSeq(c, i + 3, i + 2 + v) = bv /\ SubSeq(c, i + 2 + v + 1, Len(c)) = R
  BY <1>4, <1>5, <1>6
<1> QED
  BY <1>7 DEF v, R

\* The walk behind set_sack: one more extension, and the payload behind it.
LEMMA InsertedPath ==
  ASSUME NEW b \in Seq(Byte), NEW s, Path(b, s), Mark(b, s, Len(s)) = SelectiveAck,
         NEW bv \in Sacks, NEW c,
         InsertedAt(c, b, s[Len(s)], bv, Len(bv) % ByteMod)
  PROVE  /\ c \in Seq(Byte) /\ Len(c) = Len(b) + 2 + Len(bv)
         /\ \A j \in 1 .. s[Len(s)] : c[j] = b[j]
         /\ \E next \in Nat :
              /\ Whole(c, Append(s, next)) /\ Append(s, next) \in Offsets
              /\ SackFits =>
                   /\ Chain(c, Append(s, next)) =
                        Append(Chain(b, s), [type |-> SelectiveAck, data |-> bv])
                   /\ SubSeq(c, Append(s, next)[Len(Append(s, next))] + 1, Len(c)) =
                        SubSeq(b, s[Len(s)] + 1, Len(b))
<1> DEFINE n == Len(s)
           i == s[n]
           len == Len(bv) % ByteMod
           next == i + 2 + len
<1>1. /\ n \in Nat /\ n > 0 /\ s \in Seq(Nat) /\ Len(b) \in Nat
      /\ i \in Nat /\ i <= Len(b) /\ i \in 0 .. Len(b)
  <2>1. n \in Nat /\ n > 0 /\ s \in Seq(Nat) /\ Len(b) \in Nat
    BY PathPlaces
  <2>2. n \in 1 .. n
    BY <2>1
  <2>3. i \in Nat /\ i <= Len(b)
    BY <2>2, PathPlaces
  <2> QED
    BY <2>1, <2>3
<1>2. /\ bv \in Seq(Byte) /\ Len(bv) \in Nat /\ Announced(len)
      /\ SackFits => len = Len(bv)
  BY SackFacts
<1>3. len \in Byte /\ len \in Nat /\ len <= Len(bv)
  BY <1>2, ByteFacts
<1>4. /\ c \in Seq(Byte) /\ Len(c) = Len(b) + 2 + Len(bv)
      /\ \A j \in 1 .. i : c[j] = b[j]
      /\ c[i + 1] = None /\ c[i + 2] = len
      /\ \A j \in 1 .. Len(bv) : c[i + 2 + j] = bv[j]
      /\ \A j \in 1 .. Len(b) - i : c[i + 2 + Len(bv) + j] = b[i + j]
  BY DEF InsertedAt, len
<1>5. /\ Path(c, s) /\ Chain(c, s) = Chain(b, s) /\ Mark(c, s, n) = SelectiveAck
  <2>1. i <= Len(c)
    BY <1>1, <1>2, <1>4
  <2>2. n \in 1 .. n
    BY <1>1
  <2> QED
    BY <1>4, <2>1, <2>2, SamePath
<1> HIDE DEF i, len, n
<1>6. /\ next \in Nat /\ i + 2 <= Len(c) /\ next <= Len(c) /\ Announced(c[i + 2])
      /\ next = i + 2 + c[i + 2]
  BY <1>1, <1>2, <1>3, <1>4
<1> HIDE DEF next
<1>7. /\ Path(c, Append(s, next))
      /\ Len(Append(s, next)) = n + 1
      /\ Append(s, next)[n + 1] = next
      /\ Mark(c, Append(s, next), n + 1) = c[i + 1]
      /\ Chain(c, Append(s, next)) =
           Append(Chain(c, s), [type |-> Mark(c, s, n), data |-> SubSeq(c, i + 3, next)])
  <2>1. Mark(c, s, n) # None
    BY <1>5 DEF SelectiveAck, None
  <2>2. /\ c \in Seq(Byte) /\ Path(c, s) /\ Mark(c, s, Len(s)) # None /\ next \in Nat
        /\ s[Len(s)] + 2 <= Len(c) /\ next = s[Len(s)] + 2 + c[s[Len(s)] + 2]
        /\ next <= Len(c) /\ Announced(c[s[Len(s)] + 2])
    BY <1>4, <1>5, <1>6, <2>1 DEF i, n
  <2>3. /\ Path(c, Append(s, next))
        /\ Len(Append(s, next)) = Len(s) + 1
        /\ Append(s, next)[Len(s) + 1] = next
        /\ Mark(c, Append(s, next), Len(s) + 1) = c[s[Len(s)] + 1]
        /\ Chain(c, Append(s, next)) =
             Append(Chain(c, s), [type |-> Mark(c, s, Len(s)),
                                  data |-> SubSeq(c, s[Len(s)] + 3, next)])
    BY <2>2, LongerPath
  <2> QED
    BY <2>3 DEF i, n
<1>8. Whole(c, Append(s, next)) /\ Append(s, next) \in Offsets
  BY <1>1, <1>4, <1>7 DEF Whole, Path, Offsets
<1>9. ASSUME SackFits
      PROVE  /\ SubSeq(c, i + 3, next) = bv
             /\ SubSeq(c, next + 1, Len(c)) = SubSeq(b, i + 1, Len(b))
  <2>1. next = i + 2 + Len(bv)
    BY <1>2, <1>9 DEF next
  <2> QED
    <3>1. InsertedAt(c, b, i, bv, len)
      BY DEF i, len, n
    <3>2. /\ SubSeq(c, i + 3, i + 2 + Len(bv)) = bv
          /\ SubSeq(c, i + 2 + Len(bv) + 1, Len(c)) = SubSeq(b, i + 1, Len(b))
      BY <1>1, <1>2, <3>1, InsertedParts
    <3> QED
      BY <2>1, <3>2
<1>10. SackFits =>
         /\ Chain(c, Append(s, next)) = Append(Chain(b, s), [type |-> SelectiveAck, data |-> bv])
         /\ SubSeq(c, Append(s, next)[Len(Append(s, next))] + 1, Len(c)) =
              SubSeq(b, s[Len(s)] + 1, Len(b))
  BY <1>5, <1>7, <1>9 DEF i, len, n
<1>11. next \in Nat
  BY <1>6
<1> QED
  BY <1>4, <1>8, <1>10, <1>11 DEF i, len, n

-----------------------------------------------------------------------------
(* The places a loop comes to.                                             *)

LEMMA TypeFacts ==
  ASSUME TypeOK
  PROVE  /\ bytes \in Seq(Byte) /\ Len(bytes) \in Nat
         /\ index \in Nat /\ ext \in Byte /\ seen \in Seq(Extension) /\ sack \in Seq(Seq(Byte))
         /\ meant.known \in BOOLEAN /\ meant.chain \in Seq(Extension)
         /\ meant.payload \in Seq(Byte)
         /\ HeaderParses => /\ HeaderSize <= Len(bytes) /\ 1 \in 1 .. Len(bytes)
                            /\ 2 \in 1 .. Len(bytes) /\ At(1) = bytes[2] /\ At(1) \in Byte
<1>1. bytes \in Seq(Byte) /\ Len(bytes) \in Nat
  BY LenProperties DEF TypeOK
<1>2. ASSUME HeaderParses
      PROVE  /\ HeaderSize <= Len(bytes) /\ 1 \in 1 .. Len(bytes)
             /\ 2 \in 1 .. Len(bytes) /\ At(1) = bytes[2] /\ At(1) \in Byte
  <2>1. HeaderSize <= Len(bytes) /\ 1 \in 1 .. Len(bytes) /\ 2 \in 1 .. Len(bytes)
    <3>1. Len(bytes) >= HeaderSize
      BY <1>2 DEF HeaderParses
    <3> QED
      BY <1>1, <3>1, LayoutAssumption
  <2>2. At(1) = bytes[2]
    BY DEF At
  <2> QED
    BY <1>1, <2>1, <2>2, ElementOfSeq
<1> QED
  BY <1>1, <1>2 DEF TypeOK

LEMMA ChainPrefix ==
  ASSUME NEW C \in Seq(Extension)
  PROVE  /\ SubSeq(C, 1, 0) = << >> /\ SubSeq(C, 1, Len(C)) = C
         /\ \A k \in 1 .. Len(C) : SubSeq(C, 1, k) = Append(SubSeq(C, 1, k - 1), C[k])
<1>1. Len(C) \in Nat /\ \A i \in 1 .. Len(C) : C[i] \in Extension
  BY LenProperties, ElementOfSeq
<1>2. \A k \in 0 .. Len(C) :
        /\ SubSeq(C, 1, k) \in Seq(Extension) /\ Len(SubSeq(C, 1, k)) = k
        /\ \A i \in 1 .. k : SubSeq(C, 1, k)[i] = C[i]
  <2> SUFFICES ASSUME NEW k \in 0 .. Len(C)
               PROVE  /\ SubSeq(C, 1, k) \in Seq(Extension) /\ Len(SubSeq(C, 1, k)) = k
                      /\ \A i \in 1 .. k : SubSeq(C, 1, k)[i] = C[i]
    OBVIOUS
  <2> DEFINE d == SubSeq(C, 1, k)
  <2>1. k \in Int /\ 1 \in Int /\ \A i \in 1 .. k : C[i] \in Extension
    BY <1>1
  <2>2. /\ d \in Seq(Extension) /\ Len(d) = IF 1 <= k THEN k - 1 + 1 ELSE 0
        /\ \A i \in 1 .. k - 1 + 1 : d[i] = C[1 + i - 1]
    BY <2>1, SubSeqProperties
  <2> HIDE DEF d
  <2>3. Len(d) = k
    BY <1>1, <2>2
  <2>4. \A i \in 1 .. k : d[i] = C[i]
    BY <1>1, <2>2
  <2> QED
    BY <2>2, <2>3, <2>4 DEF d
<1>3. SubSeq(C, 1, 0) = << >>
  <2>1. Len(SubSeq(C, 1, 0)) = 0 /\ SubSeq(C, 1, 0) \in Seq(Extension)
    BY <1>1, <1>2
  <2> QED
    BY <2>1, EmptySeq
<1>4. SubSeq(C, 1, Len(C)) = C
  <2>1. Len(C) \in 0 .. Len(C)
    BY <1>1
  <2> QED
    BY <1>2, <2>1, SeqEqual
<1>5. ASSUME NEW k \in 1 .. Len(C)
      PROVE  SubSeq(C, 1, k) = Append(SubSeq(C, 1, k - 1), C[k])
  <2> DEFINE x == SubSeq(C, 1, k)
             y == SubSeq(C, 1, k - 1)
  <2>1. k \in 0 .. Len(C) /\ k - 1 \in 0 .. Len(C) /\ k - 1 + 1 = k
    BY <1>1
  <2>2. /\ x \in Seq(Extension) /\ Len(x) = k /\ \A i \in 1 .. k : x[i] = C[i]
        /\ y \in Seq(Extension) /\ Len(y) = k - 1 /\ \A i \in 1 .. k - 1 : y[i] = C[i]
    BY <1>2, <2>1
  <2> HIDE DEF x, y
  <2>3. /\ Append(y, C[k]) \in Seq(Extension) /\ Len(Append(y, C[k])) = k
        /\ \A i \in 1 .. k - 1 : Append(y, C[k])[i] = y[i]
        /\ Append(y, C[k])[k] = C[k]
    BY <1>1, <2>1, <2>2, AppendProperties
  <2>4. \A i \in 1 .. k : x[i] = Append(y, C[k])[i]
    <3>1. \A i \in 1 .. k : i = k \/ i \in 1 .. k - 1
      OBVIOUS
    <3> QED
      BY <2>2, <2>3, <3>1
  <2>5. x = Append(y, C[k])
    BY <2>2, <2>3, <2>4, SeqEqual
  <2> QED
    BY <2>5 DEF x, y
<1> QED
  BY <1>3, <1>4, <1>5

\* A loop that stands at an extension of the path can step to the next place.
LEMMA NextPlace ==
  ASSUME NEW s, bytes \in Seq(Byte), Path(bytes, s), NEW k \in 1 .. Len(s) - 1,
         index = s[k], ext = Mark(bytes, s, k)
  PROVE  /\ InLoop /\ index \in Nat /\ index + 2 <= Len(bytes) /\ index + 1 < Len(bytes)
         /\ NextIndex = s[k + 1] /\ NextIndex <= Len(bytes) /\ NextIndex \in Nat
         /\ Announced(DataLen)
         /\ At(index) = Mark(bytes, s, k + 1) /\ At(index) \in Byte
         /\ [type |-> ext, data |-> Data] = Chain(bytes, s)[k]
         /\ k + 1 \in 1 .. Len(s)
<1>1. /\ s[k] + 2 <= Len(bytes) /\ Len(bytes) \in Nat /\ k + 1 \in 1 .. Len(s)
      /\ bytes[s[k] + 1] \in Byte
  BY PathPlaces
<1>2. s[k] \in Nat /\ s[k + 1] \in Nat /\ s[k + 1] <= Len(bytes)
  <2>1. k \in 1 .. Len(s) /\ k + 1 \in 1 .. Len(s)
    BY PathPlaces
  <2> QED
    BY <2>1, PathPlaces
<1>3. /\ Mark(bytes, s, k) # None
      /\ s[k + 1] = s[k] + 2 + bytes[s[k] + 2]
      /\ Announced(bytes[s[k] + 2])
  BY DEF Path
<1>4. DataLen = bytes[s[k] + 2]
  <2>1. s[k] + 1 + 1 = s[k] + 2
    BY <1>2
  <2> QED
    BY <2>1 DEF DataLen, At
<1>5. NextIndex = s[k + 1] /\ Announced(DataLen)
  BY <1>3, <1>4 DEF NextIndex
<1>6. index + 2 <= Len(bytes) /\ index + 1 < Len(bytes) /\ index < Len(bytes)
  BY <1>1, <1>2
<1>7. At(index) = Mark(bytes, s, k + 1)
  <2>1. k + 1 # 1 /\ k + 1 - 1 = k
    OBVIOUS
  <2> QED
    BY <2>1 DEF At, Mark, MarkerAt
<1>8. [type |-> ext, data |-> Data] = Chain(bytes, s)[k]
  BY <1>5, ChainType DEF Data
<1> QED
  BY <1>1, <1>2, <1>3, <1>5, <1>6, <1>7, <1>8, PathPlaces DEF InLoop

\* Of a whole path: the loop goes on exactly before the last place.
LEMMA LastPlace ==
  ASSUME NEW s, bytes \in Seq(Byte), Path(bytes, s), NEW k \in 1 .. Len(s), index = s[k],
         k < Len(s) => ext = Mark(bytes, s, k), k = Len(s) => ext = None
  PROVE  /\ InLoop => k \in 1 .. Len(s) - 1
         /\ ~ InLoop => k = Len(s)
<1>1. Len(s) \in Nat /\ (k = Len(s) \/ k \in 1 .. Len(s) - 1)
  BY PathPlaces
<1>2. CASE k = Len(s)
  BY <1>2 DEF InLoop
<1>3. CASE k \in 1 .. Len(s) - 1
  <2>1. ext = Mark(bytes, s, k)
    BY <1>1, <1>3
  <2> QED
    BY <1>3, <2>1, NextPlace
<1> QED
  BY <1>1, <1>2, <1>3

\* The first place of a packet without extensions.
LEMMA ShortPath ==
  ASSUME NEW b \in Seq(Byte), HeaderSize <= Len(b)
  PROVE  \E s \in Offsets : /\ Len(s) = 1 /\ s[1] = HeaderSize
                            /\ Path(b, s) /\ Chain(b, s) = << >> /\ Mark(b, s, 1) = b[2]
<1> DEFINE s == <<HeaderSize>>
<1>1. HeaderSize \in Nat
  BY LayoutAssumption
<1>2. s \in Seq(Nat) /\ Len(s) = 1 /\ s[1] = HeaderSize
  BY <1>1
<1> HIDE DEF s
<1>3. /\ \A i, j \in 1 .. Len(s) : ~ (i < j)
      /\ \A k \in 1 .. Len(s) - 1 : FALSE
  BY <1>2
<1>4. Path(b, s)
  BY <1>2, <1>3 DEF Path, Offsets
<1>5. Chain(b, s) = << >>
  <2>1. Chain(b, s) \in Seq(Extension) /\ Len(Chain(b, s)) = 0
    BY <1>2, <1>4, ChainType
  <2> QED
    BY <2>1, EmptySeq
<1>6. Mark(b, s, 1) = b[2] /\ s \in Offsets
  BY <1>2 DEF Mark, MarkerAt, Offsets
<1> QED
  BY <1>2, <1>4, <1>5, <1>6

\* A loop that starts is at the first place.
LEMMA StartReached ==
  ASSUME TypeOK, NEW s, Path(bytes, s), NEW loop, Start(loop), bytes' = bytes
  PROVE  /\ 1 \in 1 .. Len(s) /\ Reached(s, 1)' /\ GetReached(s)'
         /\ index' = s[1] /\ ext' = Mark(bytes, s, 1)
<1>1. 1 \in 1 .. Len(s) /\ Len(s) \in Nat
  BY PathPlaces, TypeFacts
<1>2. index' = s[1] /\ index' = HeaderSize
  BY DEF Start, Path
<1>3. ext' = Mark(bytes, s, 1)
  <2>1. At(1) = bytes[2]
    BY DEF At
  <2> QED
    BY <2>1 DEF Start, Mark, MarkerAt
<1>4. seen' = SubSeq(Chain(bytes, s), 1, 1 - 1)
  <2>1. Chain(bytes, s) \in Seq(Extension)
    BY ChainType, TypeFacts
  <2>2. SubSeq(Chain(bytes, s), 1, 0) = << >> /\ 1 - 1 = 0
    BY <2>1, ChainPrefix
  <2> QED
    BY <2>2 DEF Start
<1>5. Reached(s, 1)'
  BY <1>1, <1>2, <1>3, <1>4 DEF Reached
<1>6. GetReached(s)'
  BY <1>2, <1>3 DEF GetReached
<1> QED
  BY <1>1, <1>2, <1>3, <1>5, <1>6

\* A loop that advances along a path is at the next place of it.
LEMMA AdvanceReached ==
  ASSUME TypeOK, NEW s, Path(bytes, s), NEW k \in 1 .. Len(s) - 1, Reached(s, k),
         Advance, bytes' = bytes
  PROVE  k + 1 \in 1 .. Len(s) /\ Reached(s, k + 1)'
<1>1. bytes \in Seq(Byte)
  BY TypeFacts
<1>2. /\ index = s[k] /\ ext = Mark(bytes, s, k)
      /\ seen = SubSeq(Chain(bytes, s), 1, k - 1)
  BY DEF Reached
<1>3. /\ NextIndex = s[k + 1] /\ At(index) = Mark(bytes, s, k + 1)
      /\ [type |-> ext, data |-> Data] = Chain(bytes, s)[k]
      /\ k + 1 \in 1 .. Len(s)
  BY <1>1, <1>2, NextPlace
<1>4. seen' = SubSeq(Chain(bytes, s), 1, k + 1 - 1)
  <2>1. Chain(bytes, s) \in Seq(Extension) /\ Len(Chain(bytes, s)) = Len(s) - 1
    BY <1>1, ChainType
  <2>2. SubSeq(Chain(bytes, s), 1, k) = Append(SubSeq(Chain(bytes, s), 1, k - 1), Chain(bytes, s)[k])
    BY <2>1, ChainPrefix
  <2>3. k + 1 - 1 = k
    OBVIOUS
  <2> QED
    BY <1>2, <1>3, <2>2, <2>3 DEF Advance
<1> QED
  BY <1>3, <1>4 DEF Reached, Advance

\* What the step of a loop leaves of the invariant's types.
LEMMA LoopTypes ==
  ASSUME TypeOK, bytes' \in Seq(Byte), UNCHANGED <<sack, meant>>,
         pc' \in {"received", "check", "idle", "rejected", "iterate", "payload", "set",
                  "get", "got", "overrun", "panic"},
         \/ \E where : Stop(where)
         \/ HeaderParses /\ \E loop : Start(loop)
         \/ Advance /\ NextIndex \in Nat /\ At(index) \in Byte
              /\ [type |-> ext, data |-> Data] \in Extension
  PROVE  TypeOK'
<1>1. HeaderSize \in Nat /\ None \in Byte /\ << >> \in Seq(Extension)
  BY LayoutAssumption, ByteFacts, EmptySeq DEF None
<1>2. index' \in Nat /\ ext' \in Byte /\ seen' \in Seq(Extension)
  <2>1. CASE \E where : Stop(where)
    BY <1>1, <2>1 DEF Stop
  <2>2. CASE HeaderParses /\ \E loop : Start(loop)
    BY <1>1, <2>2, TypeFacts DEF Start
  <2>3. CASE Advance /\ NextIndex \in Nat /\ At(index) \in Byte
               /\ [type |-> ext, data |-> Data] \in Extension
    <3>1. Append(seen, [type |-> ext, data |-> Data]) \in Seq(Extension)
      BY <2>3, TypeFacts, AppendProperties
    <3> QED
      BY <2>3, <3>1 DEF Advance
  <2> QED
    BY <2>1, <2>2, <2>3
<1> QED
  BY <1>2 DEF TypeOK

LEMMA KeptLayout ==
  ASSUME KnownLayout, UNCHANGED <<bytes, meant>>,
         pc' \notin {"check", "iterate", "payload", "get"}
  PROVE  KnownLayout'
<1>1. PICK s \in Offsets : Whole(bytes, s) /\ MeantIs(s)
  BY DEF KnownLayout
<1>2. Whole(bytes, s)' /\ MeantIs(s)'
  BY <1>1 DEF Whole, Path, Mark, MarkerAt, MeantIs, Chain, Rest
<1>3. HeaderParses'
  BY DEF KnownLayout, HeaderParses, At
<1> QED
  BY <1>1, <1>2, <1>3 DEF KnownLayout

LEMMA KeptAtPlace ==
  ASSUME HeaderParses, UNCHANGED <<bytes, meant>>, NEW s \in Offsets,
         Whole(bytes, s), MeantIs(s), pc' # "set",
         pc' \in {"check", "iterate", "payload"} => \E k \in 1 .. Len(s) : Reached(s, k)',
         pc' = "get" => GetReached(s)'
  PROVE  KnownLayout'
<1>1. Whole(bytes, s)' /\ MeantIs(s)'
  BY DEF Whole, Path, Mark, MarkerAt, MeantIs, Chain, Rest
<1>2. HeaderParses'
  BY DEF HeaderParses, At
<1> QED
  BY <1>1, <1>2 DEF KnownLayout

-----------------------------------------------------------------------------
(* The check that lets a packet in.                                        *)

LEMMA BeginCheckKeepsLayout ==
  ASSUME LayoutInv, BeginCheck
  PROVE  LayoutInv'
<1> DEFINE Accepts == HeaderParses /\ (Len(bytes) = HeaderSize => At(1) = None)
<1> USE DEF LayoutInv
<1>1. UNCHANGED <<bytes, sack, meant>> /\ pc = "received" /\ TypeOK
  BY DEF BeginCheck
<1>2. bytes \in Seq(Byte) /\ Len(bytes) \in Nat
  BY TypeFacts
<1>3. meant.known => Accepts
  <2> SUFFICES ASSUME meant.known PROVE Accepts
    OBVIOUS
  <2>1. KnownLayout
    BY <1>1 DEF Layout
  <2>2. PICK s \in Offsets : Whole(bytes, s)
    BY <2>1 DEF KnownLayout
  <2>3. Path(bytes, s) /\ Mark(bytes, s, Len(s)) = None
    BY <2>2 DEF Whole
  <2>4. HeaderParses
    BY <2>1 DEF KnownLayout
  <2>5. ASSUME Len(bytes) = HeaderSize
        PROVE  At(1) = None
    <3>1. Len(s) = 1
      <4>1. Len(s) \in Nat /\ Len(s) > 0
        BY <1>2, <2>3, PathPlaces
      <4>2. CASE 1 \in 1 .. Len(s) - 1
        <5>1. s[1] + 2 <= Len(bytes) /\ s[1] = HeaderSize /\ HeaderSize \in Nat
          BY <1>2, <2>3, <4>2, PathPlaces, LayoutAssumption DEF Path
        <5> QED
          BY <2>5, <5>1
      <4>3. Len(s) = 1 \/ 1 \in 1 .. Len(s) - 1
        <5> DEFINE n == Len(s)
        <5>1. n \in Nat /\ n > 0
          BY <4>1
        <5> HIDE DEF n
        <5>2. n = 1 \/ 1 \in 1 .. n - 1
          BY <5>1
        <5> QED
          BY <5>2 DEF n
      <4> QED
        BY <4>2, <4>3
    <3>2. At(1) = bytes[2]
      BY DEF At
    <3> QED
      BY <2>3, <3>1, <3>2 DEF Mark, MarkerAt
  <2> QED
    BY <2>4, <2>5
<1>4. CASE Accepts
  <2>1. Start("check") /\ HeaderParses
    BY <1>4 DEF BeginCheck
  <2>2. pc' = "check"
    BY <2>1 DEF Start
  <2>3. TypeOK'
    BY <1>1, <1>2, <2>1, <2>2, LoopTypes
  <2>4. ASSUME meant.known
        PROVE  KnownLayout'
    <3>1. PICK s \in Offsets : Whole(bytes, s) /\ MeantIs(s)
      BY <1>1, <2>4 DEF Layout, KnownLayout
    <3>2. 1 \in 1 .. Len(s) /\ Reached(s, 1)'
      BY <1>1, <2>1, <3>1, StartReached DEF Whole
    <3> QED
      BY <1>1, <2>1, <2>2, <3>1, <3>2, KeptAtPlace
  <2>5. CheckedLayout'
    <3>1. PICK s \in Offsets : Len(s) = 1 /\ Path(bytes, s)
      BY <1>1, <1>2, <2>1, TypeFacts, ShortPath
    <3>2. Reached(s, 1)'
      BY <1>1, <2>1, <3>1, StartReached
    <3>3. HeaderParses'
      BY <1>1, <2>1 DEF HeaderParses, At
    <3>4. Path(bytes, s)'
      BY <1>1, <3>1
    <3> QED
      BY <3>1, <3>2, <3>3, <3>4 DEF CheckedLayout
  <2> QED
    BY <1>1, <2>2, <2>3, <2>4, <2>5
       DEF Layout, ReadersStayInside, StaysAccepted, GetSackFindsTheFirst
<1>5. CASE ~ Accepts
  <2>1. Stop("rejected")
    BY <1>5 DEF BeginCheck
  <2>2. pc' = "rejected"
    BY <2>1 DEF Stop
  <2>3. TypeOK'
    BY <1>1, <1>2, <2>1, <2>2, LoopTypes
  <2> QED
    BY <1>1, <1>3, <1>5, <2>2, <2>3
       DEF Layout, ReadersStayInside, StaysAccepted, GetSackFindsTheFirst
<1> QED
  BY <1>4, <1>5

LEMMA CheckExtensionKeepsLayout ==
  ASSUME LayoutInv, CheckExtension
  PROVE  LayoutInv'
<1> DEFINE Accepts == index + 2 <= Len(bytes) /\ DataLen # 0 /\ DataLen % Word = 0 /\ Fits
<1> USE DEF LayoutInv
<1>1. UNCHANGED <<bytes, sack, meant>> /\ pc = "check" /\ InLoop /\ TypeOK
  BY DEF CheckExtension
<1>2. bytes \in Seq(Byte) /\ Len(bytes) \in Nat
  BY TypeFacts
\* Of a packet that was accepted the loop stands before the last place.
<1>3. ASSUME meant.known
      PROVE  \E s, k : /\ s \in Offsets /\ k \in 1 .. Len(s) - 1 /\ HeaderParses
                       /\ Whole(bytes, s) /\ MeantIs(s) /\ Reached(s, k)
  <2>1. PICK s \in Offsets : /\ Whole(bytes, s) /\ MeantIs(s) /\ HeaderParses
                             /\ \E k \in 1 .. Len(s) : Reached(s, k)
    BY <1>1, <1>3 DEF Layout, KnownLayout
  <2>2. PICK k \in 1 .. Len(s) : Reached(s, k)
    BY <2>1
  <2>3. k \in 1 .. Len(s) - 1
    BY <1>1, <1>2, <2>1, <2>2, LastPlace DEF Whole, Reached
  <2> QED
    BY <2>1, <2>2, <2>3
<1>4. CASE Accepts
  <2>1. Advance /\ pc' = "check"
    BY <1>1, <1>4 DEF CheckExtension
  <2>2. ASSUME meant.known
        PROVE  TypeOK' /\ KnownLayout'
    <3>1. PICK s, k : /\ s \in Offsets /\ k \in 1 .. Len(s) - 1 /\ HeaderParses
                      /\ Whole(bytes, s) /\ MeantIs(s) /\ Reached(s, k)
      BY <1>3, <2>2
    <3>2. k + 1 \in 1 .. Len(s) /\ Reached(s, k + 1)'
      BY <1>1, <2>1, <3>1, AdvanceReached DEF Whole
    <3>3. KnownLayout'
      BY <1>1, <2>1, <3>1, <3>2, KeptAtPlace
    <3>4. /\ NextIndex \in Nat /\ At(index) \in Byte
          /\ [type |-> ext, data |-> Data] = Chain(bytes, s)[k]
      BY <1>2, <3>1, NextPlace DEF Whole, Reached
    <3>5. Chain(bytes, s)[k] \in Extension
      BY <1>2, <3>1, ChainType, ElementOfSeq DEF Whole
    <3>6. TypeOK'
      BY <1>1, <1>2, <2>1, <3>4, <3>5, LoopTypes
    <3> QED
      BY <3>3, <3>6
  <2>3. ASSUME ~ meant.known
        PROVE  TypeOK' /\ CheckedLayout'
    <3>1. PICK s \in Offsets : HeaderParses /\ Path(bytes, s) /\ Reached(s, Len(s))
      BY <1>1, <2>3 DEF Layout, CheckedLayout
    <3> DEFINE n == Len(s)
    <3>0. PICK next, t : next = NextIndex /\ t = Append(s, next)
      OBVIOUS
    <3>2. n \in Nat /\ n \in 1 .. n /\ s \in Seq(Nat) /\ s[n] \in Nat
      <4>1. n \in Nat /\ n > 0 /\ s \in Seq(Nat)
        BY <1>2, <3>1, PathPlaces
      <4>2. n \in 1 .. n
        BY <4>1
      <4> QED
        BY <4>1, <4>2, ElementOfSeq
    <3>3. /\ index = s[n] /\ ext = Mark(bytes, s, n)
          /\ seen = SubSeq(Chain(bytes, s), 1, n - 1)
      BY <3>1 DEF Reached
    <3>4. DataLen = bytes[s[n] + 2] /\ DataLen \in Nat
      <4>1. index + 1 + 1 = index + 2 /\ index + 2 \in 1 .. Len(bytes)
        BY <1>2, <1>4, <3>2, <3>3
      <4>2. bytes[index + 2] \in Byte
        BY <1>2, <4>1, ElementOfSeq
      <4> QED
        BY <3>3, <4>1, <4>2, ByteFacts DEF DataLen, At
    <3>5. /\ NextIndex = s[n] + 2 + bytes[s[n] + 2] /\ NextIndex \in Nat
          /\ NextIndex <= Len(bytes) /\ s[n] + 2 <= Len(bytes)
          /\ Announced(bytes[s[n] + 2]) /\ Mark(bytes, s, n) # None
      BY SMTT(30), <1>1, <1>4, <3>2, <3>3, <3>4 DEF NextIndex, Fits, Announced, InLoop
    <3>6. /\ Path(bytes, t) /\ Len(t) = n + 1 /\ t[n + 1] = next
          /\ Mark(bytes, t, n + 1) = bytes[s[n] + 1]
      BY ZenonT(30), <1>2, <3>0, <3>1, <3>5, LongerPath
    <3>c. Chain(bytes, t) = Append(Chain(bytes, s),
            [type |-> Mark(bytes, s, n), data |-> SubSeq(bytes, s[n] + 3, next)])
      BY <1>2, <3>0, <3>1, <3>5, LongerPath
    <3>7. t \in Offsets /\ n + 1 \in 1 .. n + 1 /\ n + 1 - 1 = n
      BY <3>2, <3>6 DEF Path
    <3> HIDE DEF n
    <3>d. Chain(bytes, t) \in Seq(Extension) /\ Len(Chain(bytes, t)) = n + 1 - 1
      <4>1. Chain(bytes, t) \in Seq(Extension) /\ Len(Chain(bytes, t)) = Len(t) - 1
        BY <1>2, <3>6, ChainType
      <4>2. Len(t) = n + 1 /\ n \in Nat
        BY <3>2, <3>6
      <4> QED
        BY <4>1, <4>2
    <3>8. seen' = SubSeq(Chain(bytes, t), 1, n + 1 - 1)
      <4>1. Chain(bytes, s) \in Seq(Extension) /\ Len(Chain(bytes, s)) = n - 1
        BY <1>2, <3>1, ChainType DEF n
      <4>3. seen = Chain(bytes, s)
        BY <3>3, <4>1, ChainPrefix
      <4>4. SubSeq(Chain(bytes, t), 1, n + 1 - 1) = Chain(bytes, t)
        BY <3>d, ChainPrefix
      <4> QED
        BY <2>1, <3>0, <3>3, <3>c, <4>3, <4>4 DEF Advance, Data
    <3>9. At(index) = Mark(bytes, t, n + 1)
      BY <3>3, <3>6 DEF At
    <3>10. Reached(t, n + 1)'
      <4>1. index' = t[n + 1] /\ ext' = Mark(bytes, t, n + 1)
        BY <2>1, <3>0, <3>6, <3>9 DEF Advance
      <4>2. n + 1 \in 1 .. Len(t)
        BY <3>6, <3>7
      <4> QED
        <5>1. bytes' = bytes
          BY <1>1
        <5>2. /\ n + 1 \in 1 .. Len(t) /\ index' = t[n + 1]
              /\ ext' = Mark(bytes', t, n + 1)
              /\ seen' = SubSeq(Chain(bytes', t), 1, n + 1 - 1)
          BY <3>8, <4>1, <4>2, <5>1
        <5> QED
          BY <5>2 DEF Reached, n
    <3>11. CheckedLayout'
      <4>1. HeaderParses'
        BY <1>1, <3>1 DEF HeaderParses, At
      <4>2. Path(bytes, t)'
        BY <1>1, <3>6
      <4> QED
        BY <1>1, <3>6, <3>7, <3>10, <4>1, <4>2 DEF CheckedLayout
    <3>12. TypeOK'
      <4>1. seen' \in Seq(Extension)
        BY <3>8, <3>d, ChainPrefix
      <4>2. ext' \in Byte /\ index' \in Nat
        <5>1. Mark(bytes, t, n + 1) \in Byte
          BY <1>2, <3>6, <3>7, PathPlaces
        <5> QED
          BY <2>1, <3>5, <3>9, <5>1 DEF Advance
      <4> QED
        BY <1>1, <2>1, <4>1, <4>2 DEF TypeOK
    <3> QED
      BY <3>11, <3>12
  <2> QED
    BY <1>1, <2>1, <2>2, <2>3
       DEF Layout, ReadersStayInside, StaysAccepted, GetSackFindsTheFirst
<1>5. CASE ~ Accepts
  <2>1. Stop("rejected")
    BY <1>5 DEF CheckExtension
  <2>2. pc' = "rejected"
    BY <2>1 DEF Stop
  <2>3. TypeOK'
    BY <1>1, <1>2, <2>1, <2>2, LoopTypes
  <2>4. ASSUME meant.known, SackFits
        PROVE  FALSE
    <3>1. PICK s, k : /\ s \in Offsets /\ k \in 1 .. Len(s) - 1 /\ HeaderParses
                      /\ Whole(bytes, s) /\ MeantIs(s) /\ Reached(s, k)
      BY <1>3, <2>4
    <3>2. index + 2 <= Len(bytes) /\ NextIndex <= Len(bytes) /\ Announced(DataLen)
      BY <1>2, <3>1, NextPlace DEF Whole, Reached
    <3> QED
      BY <1>5, <2>4, <3>2 DEF Fits, Announced
  <2>5. meant.known => KnownLayout'
    <3>1. meant.known => KnownLayout
      BY <1>1 DEF Layout
    <3> QED
      BY <1>1, <2>2, <3>1, KeptLayout
  <2> QED
    BY <1>1, <2>2, <2>3, <2>4, <2>5
       DEF Layout, ReadersStayInside, StaysAccepted, GetSackFindsTheFirst
<1> QED
  BY <1>4, <1>5

LEMMA EndCheckKeepsLayout ==
  ASSUME LayoutInv, EndCheck
  PROVE  LayoutInv'
<1> USE DEF LayoutInv
<1>1. UNCHANGED <<bytes, sack>> /\ pc = "check" /\ ~ InLoop /\ TypeOK
  BY DEF EndCheck
<1>2. bytes \in Seq(Byte) /\ Len(bytes) \in Nat
  BY TypeFacts
\* Of a packet that was accepted the loop stands at the last place.
<1>3. PICK s \in Offsets : /\ HeaderParses /\ Path(bytes, s) /\ Reached(s, Len(s))
                           /\ meant.known => Mark(bytes, s, Len(s)) = None
  <2>1. CASE meant.known
    <3>1. PICK s \in Offsets : /\ Whole(bytes, s) /\ HeaderParses
                               /\ \E k \in 1 .. Len(s) : Reached(s, k)
      BY <1>1, <2>1 DEF Layout, KnownLayout
    <3>2. PICK k \in 1 .. Len(s) : Reached(s, k)
      BY <3>1
    <3>3. k = Len(s)
      BY <1>1, <1>2, <3>1, <3>2, LastPlace DEF Whole, Reached
    <3> QED
      BY <3>1, <3>2, <3>3 DEF Whole
  <2>2. CASE ~ meant.known
    BY <1>1, <2>2 DEF Layout, CheckedLayout
  <2> QED
    BY <1>2, <2>1, <2>2, TypeFacts
<1>4. index = s[Len(s)] /\ ext = Mark(bytes, s, Len(s)) /\ seen = Chain(bytes, s)
  <2>1. Chain(bytes, s) \in Seq(Extension) /\ Len(Chain(bytes, s)) = Len(s) - 1
    BY <1>2, <1>3, ChainType
  <2>2. SubSeq(Chain(bytes, s), 1, Len(s) - 1) = Chain(bytes, s)
    BY <2>1, ChainPrefix
  <2> QED
    BY <1>3, <2>2 DEF Reached
<1>5. CASE ext = None
  <2>1. Stop("idle") /\ meant' = Meant(seen, Rest(index))
    BY <1>5 DEF EndCheck
  <2>2. Whole(bytes, s)
    BY <1>3, <1>4, <1>5 DEF Whole
  <2>3. KnownLayout'
    <3>1. MeantIs(s)'
      BY <1>1, <1>4, <2>1 DEF MeantIs, Meant, Rest
    <3>2. HeaderParses' /\ Whole(bytes, s)'
      BY <1>1, <1>3, <2>2 DEF HeaderParses, At
    <3>3. pc' = "idle"
      BY <2>1 DEF Stop
    <3> QED
      BY <3>1, <3>2, <3>3 DEF KnownLayout
  <2>4. TypeOK'
    <3>1. Rest(index) \in Seq(Byte)
      <4>1. Len(s) \in 1 .. Len(s)
        BY <1>3 DEF Reached
      <4>2. index \in Nat /\ index <= Len(bytes)
        BY <1>2, <1>3, <1>4, <4>1, PathPlaces
      <4>3. \A i \in index + 1 .. Len(bytes) : bytes[i] \in Byte
        BY <1>2, <4>2, ElementOfSeq
      <4> QED
        BY <1>2, <4>2, <4>3, SubSeqProperties DEF Rest
    <3>2. meant' \in [known : BOOLEAN, chain : Seq(Extension), payload : Seq(Byte)]
      BY <1>1, <2>1, <3>1, TypeFacts DEF Meant
    <3>3. HeaderSize \in Nat /\ None \in Byte /\ << >> \in Seq(Extension)
      BY LayoutAssumption, ByteFacts, EmptySeq DEF None
    <3> QED
      BY <1>1, <2>1, <3>2, <3>3 DEF TypeOK, Stop
  <2>5. pc' = "idle" /\ meant'.known
    BY <2>1 DEF Stop, Meant
  <2> QED
    BY <2>3, <2>4, <2>5 DEF Layout, ReadersStayInside, StaysAccepted, GetSackFindsTheFirst
<1>6. CASE ext # None
  <2>1. Stop("rejected") /\ meant' = meant
    BY <1>6 DEF EndCheck
  <2>2. pc' = "rejected" /\ ~ meant.known
    BY <1>3, <1>4, <1>6, <2>1 DEF Stop
  <2>3. TypeOK'
    BY <1>1, <1>2, <2>1, <2>2, LoopTypes
  <2> QED
    BY <2>1, <2>2, <2>3 DEF Layout, ReadersStayInside, StaysAccepted, GetSackFindsTheFirst
<1> QED
  BY <1>5, <1>6

-----------------------------------------------------------------------------
(* The readers.                                                            *)

LEMMA BeginReadKeepsLayout ==
  ASSUME LayoutInv, NEW loop \in {"iterate", "payload", "get"}, BeginRead(loop)
  PROVE  LayoutInv'
<1> USE DEF LayoutInv
<1>1. /\ UNCHANGED <<bytes, sack, meant>> /\ Start(loop) /\ pc' = loop /\ TypeOK
      /\ meant.known /\ pc # "set"
  BY DEF BeginRead, Readable, Start, Layout
<1>2. bytes \in Seq(Byte)
  BY TypeFacts
<1>3. PICK s \in Offsets : Whole(bytes, s) /\ MeantIs(s) /\ HeaderParses
  BY <1>1 DEF Layout, KnownLayout
<1>4. 1 \in 1 .. Len(s) /\ Reached(s, 1)' /\ GetReached(s)'
  BY <1>1, <1>3, StartReached DEF Whole
<1>5. KnownLayout'
  BY <1>1, <1>3, <1>4, KeptAtPlace
<1>6. TypeOK'
  BY <1>1, <1>2, <1>3, LoopTypes
<1> QED
  BY <1>1, <1>5, <1>6
     DEF Layout, ReadersStayInside, StaysAccepted, GetSackFindsTheFirst

LEMMA ReadExtensionKeepsLayout ==
  ASSUME LayoutInv, ReadExtension
  PROVE  LayoutInv'
<1> USE DEF LayoutInv
<1>1. /\ UNCHANGED <<bytes, sack, meant>> /\ pc \in {"iterate", "payload"} /\ InLoop /\ TypeOK
      /\ meant.known
  BY DEF ReadExtension, Layout
<1>2. bytes \in Seq(Byte)
  BY TypeFacts
<1>3. PICK s \in Offsets : /\ Whole(bytes, s) /\ MeantIs(s) /\ HeaderParses
                           /\ \E k \in 1 .. Len(s) : Reached(s, k)
  BY <1>1 DEF Layout, KnownLayout
<1>4. PICK k \in 1 .. Len(s) : Reached(s, k)
  BY <1>3
<1>5. k \in 1 .. Len(s) - 1
  BY <1>1, <1>2, <1>3, <1>4, LastPlace DEF Whole, Reached
<1>6. /\ index + 1 < Len(bytes) /\ NextIndex <= Len(bytes)
      /\ NextIndex \in Nat /\ At(index) \in Byte
      /\ [type |-> ext, data |-> Data] = Chain(bytes, s)[k]
  BY <1>2, <1>3, <1>4, <1>5, NextPlace DEF Whole, Reached
<1>7. Advance /\ pc' = pc
  BY <1>6 DEF ReadExtension
<1>8. k + 1 \in 1 .. Len(s) /\ Reached(s, k + 1)'
  BY <1>1, <1>3, <1>4, <1>5, <1>7, AdvanceReached DEF Whole
<1>9. KnownLayout'
  BY <1>1, <1>3, <1>7, <1>8, KeptAtPlace
<1>10. TypeOK'
  <2>1. Chain(bytes, s)[k] \in Extension
    BY <1>2, <1>3, <1>5, ChainType, ElementOfSeq DEF Whole
  <2> QED
    BY <1>1, <1>2, <1>6, <1>7, <2>1, LoopTypes
<1> QED
  BY <1>1, <1>7, <1>9, <1>10
     DEF Layout, ReadersStayInside, StaysAccepted, GetSackFindsTheFirst

LEMMA EndReadKeepsLayout ==
  ASSUME LayoutInv, EndRead
  PROVE  LayoutInv'
<1> USE DEF LayoutInv
<1>1. /\ UNCHANGED <<bytes, sack, meant>> /\ pc \in {"iterate", "payload"} /\ ~ InLoop
      /\ TypeOK /\ meant.known
  BY DEF EndRead, Layout
<1>2. bytes \in Seq(Byte)
  BY TypeFacts
<1>3. KnownLayout
  BY <1>1 DEF Layout
<1>4. ~ (index > Len(bytes))
  <2>1. PICK s \in Offsets : /\ Whole(bytes, s)
                             /\ \E k \in 1 .. Len(s) : Reached(s, k)
    BY <1>1, <1>3 DEF KnownLayout
  <2>2. PICK k \in 1 .. Len(s) : Reached(s, k)
    BY <2>1
  <2>3. s[k] <= Len(bytes) /\ s[k] \in Nat /\ Len(bytes) \in Nat
    BY <1>2, <2>1, PathPlaces DEF Whole
  <2> QED
    BY <2>2, <2>3 DEF Reached
<1>5. Stop("idle") /\ pc' = "idle"
  BY <1>4 DEF EndRead, Stop
<1>6. KnownLayout'
  BY <1>1, <1>3, <1>5, KeptLayout
<1>7. TypeOK'
  BY <1>1, <1>2, <1>5, LoopTypes
<1> QED
  BY <1>1, <1>5, <1>6, <1>7
     DEF Layout, ReadersStayInside, StaysAccepted, GetSackFindsTheFirst

-----------------------------------------------------------------------------
(* The writer.                                                             *)

\* The marker that announces the selective ack changes nothing else.
LEMMA MarkedLayout ==
  ASSUME TypeOK, NEW s \in Offsets, Path(bytes, s), MeantIs(s), HeaderParses,
         bytes' = [bytes EXCEPT ![MarkerAt(s, Len(s))] = SelectiveAck], meant' = meant
  PROVE  /\ bytes' \in Seq(Byte) /\ HeaderParses'
         /\ Path(bytes, s)' /\ MeantIs(s)' /\ Mark(bytes, s, Len(s))' = SelectiveAck
<1> DEFINE p == MarkerAt(s, Len(s))
           n == s[Len(s)]
<1>1. bytes \in Seq(Byte) /\ Len(bytes) \in Nat /\ 1 \in 1 .. Len(bytes)
  BY TypeFacts
<1>2. PICK b, c : b = bytes /\ c = bytes'
  OBVIOUS
<1>3. /\ c \in Seq(Byte) /\ Len(c) = Len(b)
      /\ Path(c, s) /\ Chain(c, s) = Chain(b, s)
      /\ Mark(c, s, Len(s)) = SelectiveAck
      /\ p \in Nat /\ 1 < p /\ p <= n
      /\ \A i \in 1 .. Len(b) : i # p => c[i] = b[i]
  <2>1. b \in Seq(Byte) /\ Path(b, s) /\ c = Marked(b, p)
    BY <1>1, <1>2 DEF Marked
  <2> QED
    BY <2>1, MarkedPath
<1>4. HeaderParses'
  <2>1. c[1] = b[1] /\ Len(c) = Len(b)
    BY <1>1, <1>2, <1>3
  <2> QED
    BY <1>2, <2>1 DEF HeaderParses, At
<1>5. SubSeq(c, n + 1, Len(c)) = SubSeq(b, n + 1, Len(b))
  <2>1. Len(s) \in 1 .. Len(s)
    <3>1. Len(s) \in Nat /\ Len(s) > 0
      BY <1>1, PathPlaces
    <3> QED
      BY <3>1
  <2>2. n \in Nat
    BY <1>1, <2>1, PathPlaces
  <2>3. \A i \in n + 1 .. Len(b) : i \in 1 .. Len(b) /\ i # p
    BY <1>1, <1>2, <1>3, <2>2
  <2>4. \A i \in n + 1 .. Len(b) : b[i] \in Byte /\ c[i] = b[i]
    BY <1>1, <1>2, <1>3, <2>3, ElementOfSeq
  <2>5. n + 1 \in Nat /\ Len(b) \in Nat
    BY <1>1, <1>2, <2>2
  <2>6. SubSeq(c, n + 1, Len(b)) = SubSeq(b, n + 1, Len(b))
    BY <2>4, <2>5, SameSubSeq
  <2> QED
    BY <1>3, <2>6
<1>6. MeantIs(s)'
  <2>1. Rest(n) = SubSeq(b, n + 1, Len(b)) /\ Rest(n)' = SubSeq(c, n + 1, Len(c))
    BY <1>2 DEF Rest
  <2> QED
    BY <1>2, <1>3, <1>5, <2>1 DEF MeantIs
<1> QED
  BY <1>2, <1>3, <1>4, <1>6

LEMMA BeginSetSackKeepsLayout ==
  ASSUME LayoutInv, BeginSetSack
  PROVE  LayoutInv'
<1> USE DEF LayoutInv
<1>1. /\ UNCHANGED <<sack, meant>> /\ Start("set") /\ pc' = "set" /\ TypeOK
      /\ meant.known /\ pc # "set"
  BY DEF BeginSetSack, Readable, Start, Layout
<1>2. bytes \in Seq(Byte)
  BY TypeFacts
<1>3. PICK s \in Offsets : Whole(bytes, s) /\ MeantIs(s) /\ HeaderParses
  BY <1>1 DEF Layout, KnownLayout
<1>4. Path(bytes, s) /\ Mark(bytes, s, Len(s)) = None
  BY <1>3 DEF Whole
<1>5. /\ Len(s) \in Nat /\ 1 \in 1 .. Len(s) /\ Len(s) \in 1 .. Len(s)
      /\ s[1] = HeaderSize /\ Mark(bytes, s, 1) = At(1)
  <2>1. Len(s) \in Nat /\ Len(s) > 0
    BY <1>2, <1>4, PathPlaces
  <2>2. bytes[2] = At(1)
    BY DEF At
  <2> QED
    BY <1>4, <2>1, <2>2 DEF Path, Mark, MarkerAt
<1>6. index' = s[1] /\ ext' = At(1)
  BY <1>1, <1>5 DEF Start
<1>7. CASE At(1) = None
  <2>1. Len(s) = 1
    <3>1. 1 \notin 1 .. Len(s) - 1
      BY <1>4, <1>5, <1>7 DEF Path
    <3> DEFINE n == Len(s)
    <3>2. n \in Nat /\ 1 \in 1 .. n /\ 1 \notin 1 .. n - 1
      BY <1>5, <3>1
    <3> HIDE DEF n
    <3>3. n = 1
      BY <3>2
    <3> QED
      BY <3>3 DEF n
  <2>2. bytes' = [bytes EXCEPT ![MarkerAt(s, Len(s))] = SelectiveAck]
    BY <1>7, <2>1 DEF BeginSetSack, MarkerAt
  <2>3. /\ bytes' \in Seq(Byte) /\ HeaderParses'
        /\ Path(bytes, s)' /\ MeantIs(s)' /\ Mark(bytes, s, Len(s))' = SelectiveAck
    BY <1>1, <1>3, <1>4, <2>2, MarkedLayout
  <2>4. SetLayout'
    <3>1. /\ 1 \in 1 .. Len(s) /\ ~ (1 < Len(s)) /\ 1 = Len(s)
          /\ index' = s[1] /\ ext' = None /\ Mark(bytes', s, Len(s)) = SelectiveAck
      BY <1>5, <1>6, <1>7, <2>1, <2>3
    <3> QED
      BY <2>3, <3>1 DEF SetLayout
  <2>5. TypeOK'
    BY <1>1, <1>3, <2>3, LoopTypes
  <2> QED
    BY <1>1, <2>4, <2>5
       DEF Layout, ReadersStayInside, StaysAccepted, GetSackFindsTheFirst
<1>8. CASE At(1) # None
  <2>1. bytes' = bytes
    BY <1>8 DEF BeginSetSack
  <2>2. 1 < Len(s)
    <3>1. Len(s) # 1
      BY <1>4, <1>5, <1>8
    <3> DEFINE n == Len(s)
    <3>2. n \in Nat /\ 1 \in 1 .. n /\ n # 1
      BY <1>5, <3>1
    <3> HIDE DEF n
    <3>3. 1 < n
      BY <3>2
    <3> QED
      BY <3>3 DEF n
  <2>3. HeaderParses' /\ Path(bytes, s)' /\ MeantIs(s)'
    BY <1>1, <1>3, <1>4, <2>1 DEF HeaderParses, At, MeantIs, Rest
  <2>4. SetLayout'
    <3>1. ext' = Mark(bytes', s, 1) /\ Mark(bytes', s, Len(s)) = None /\ 1 # Len(s)
      BY <1>4, <1>5, <1>6, <2>1, <2>2
    <3> QED
      BY <1>5, <1>6, <2>3, <3>1 DEF SetLayout
  <2>5. TypeOK'
    BY <1>1, <1>2, <1>3, <2>1, LoopTypes
  <2> QED
    BY <1>1, <2>4, <2>5
       DEF Layout, ReadersStayInside, StaysAccepted, GetSackFindsTheFirst
<1> QED
  BY <1>7, <1>8

LEMMA SkipExtensionKeepsLayout ==
  ASSUME LayoutInv, SkipExtension
  PROVE  LayoutInv'
<1> USE DEF LayoutInv
<1>1. UNCHANGED <<sack, meant>> /\ pc = "set" /\ InLoop /\ TypeOK /\ meant.known
  BY DEF SkipExtension, Layout
<1>2. bytes \in Seq(Byte)
  BY TypeFacts
<1>3. PICK s \in Offsets, k \in Nat :
        /\ HeaderParses /\ k \in 1 .. Len(s)
        /\ Path(bytes, s) /\ MeantIs(s) /\ index = s[k]
        /\ k < Len(s) => ext = Mark(bytes, s, k) /\ Mark(bytes, s, Len(s)) = None
        /\ k = Len(s) => ext = None
  BY <1>1 DEF Layout, SetLayout
<1>4. k \in 1 .. Len(s) - 1
  BY <1>1, <1>2, <1>3, LastPlace
<1>5. Len(s) \in Nat /\ k < Len(s)
  BY <1>2, <1>3, <1>4, PathPlaces
<1>6. /\ index + 1 < Len(bytes) /\ NextIndex = s[k + 1] /\ NextIndex \in Nat
      /\ At(index) = Mark(bytes, s, k + 1) /\ At(index) \in Byte
      /\ [type |-> ext, data |-> Data] = Chain(bytes, s)[k]
      /\ k + 1 \in 1 .. Len(s)
  BY <1>2, <1>3, <1>4, <1>5, NextPlace
<1>7. Advance /\ pc' = "set"
  BY <1>1, <1>6 DEF SkipExtension
<1>8. index' = s[k + 1] /\ ext' = At(index)
  BY <1>6, <1>7 DEF Advance
<1>9. [type |-> ext, data |-> Data] \in Extension
  <2>1. Chain(bytes, s)[k] \in Extension
    BY <1>2, <1>3, <1>4, ChainType, ElementOfSeq
  <2> QED
    BY <1>6, <2>1
<1>10. CASE At(index) = None
  <2>1. k + 1 = Len(s)
    <3>1. k + 1 \notin 1 .. Len(s) - 1
      BY <1>3, <1>6, <1>10 DEF Path
    <3> QED
      BY <1>4, <1>5, <3>1
  <2>2. bytes' = [bytes EXCEPT ![MarkerAt(s, Len(s))] = SelectiveAck]
    <3>1. Len(s) # 1 /\ Len(s) - 1 = k
      BY <1>4, <1>5, <2>1
    <3> QED
      BY <1>3, <1>6, <1>10, <3>1 DEF SkipExtension, MarkerAt
  <2>3. /\ bytes' \in Seq(Byte) /\ HeaderParses'
        /\ Path(bytes, s)' /\ MeantIs(s)' /\ Mark(bytes, s, Len(s))' = SelectiveAck
    BY <1>1, <1>3, <2>2, MarkedLayout
  <2>4. SetLayout'
    BY <1>6, <1>8, <1>10, <2>1, <2>3 DEF SetLayout
  <2>5. TypeOK'
    BY <1>1, <1>6, <1>7, <1>9, <2>3, LoopTypes
  <2> QED
    BY <1>1, <1>7, <2>4, <2>5
       DEF Layout, ReadersStayInside, StaysAccepted, GetSackFindsTheFirst
<1>11. CASE At(index) # None
  <2>1. bytes' = bytes
    BY <1>6, <1>11 DEF SkipExtension
  <2>2. k + 1 # Len(s) /\ Mark(bytes, s, Len(s)) = None
    BY <1>3, <1>5, <1>6, <1>11
  <2>3. HeaderParses' /\ Path(bytes, s)' /\ MeantIs(s)'
    BY <1>1, <1>3, <2>1 DEF HeaderParses, At, MeantIs, Rest
  <2>4. SetLayout'
    <3>1. ext' = Mark(bytes', s, k + 1) /\ Mark(bytes', s, Len(s)) = None
      BY <1>6, <1>8, <2>1, <2>2
    <3> QED
      BY <1>6, <1>8, <2>2, <2>3, <3>1 DEF SetLayout
  <2>5. TypeOK'
    BY <1>1, <1>2, <1>6, <1>7, <1>9, <2>1, LoopTypes
  <2> QED
    BY <1>1, <1>7, <2>4, <2>5
       DEF Layout, ReadersStayInside, StaysAccepted, GetSackFindsTheFirst
<1> QED
  BY <1>10, <1>11

LEMMA SetSackKeepsLayout ==
  ASSUME LayoutInv, NEW bv \in Sacks, SetSack(bv)
  PROVE  LayoutInv'
<1> USE DEF LayoutInv
<1>1. UNCHANGED sack /\ pc = "set" /\ ~ InLoop /\ TypeOK /\ meant.known
  BY DEF SetSack, Layout
<1>2. bytes \in Seq(Byte) /\ Len(bytes) \in Nat
  BY TypeFacts
<1>3. PICK s \in Offsets, k \in Nat :
        /\ HeaderParses /\ k \in 1 .. Len(s)
        /\ Path(bytes, s) /\ MeantIs(s) /\ index = s[k]
        /\ k < Len(s) => ext = Mark(bytes, s, k) /\ Mark(bytes, s, Len(s)) = None
        /\ k = Len(s) => ext = None /\ Mark(bytes, s, Len(s)) = SelectiveAck
  BY <1>1 DEF Layout, SetLayout
<1>4. k = Len(s)
  BY <1>1, <1>2, <1>3, LastPlace
<1>5. index = s[Len(s)] /\ Mark(bytes, s, Len(s)) = SelectiveAck
  BY <1>3, <1>4
<1>6. index \in Nat /\ index <= Len(bytes) /\ index >= 2
  <2>1. s[k] \in Nat /\ s[k] <= Len(bytes) /\ HeaderSize <= s[k]
    BY <1>2, <1>3, PathPlaces
  <2> QED
    BY <1>3, <2>1, LayoutAssumption
<1>7. /\ bytes' = Inserted(bv) /\ Stop("received")
      /\ meant' = [meant EXCEPT !.chain = Append(@, [type |-> SelectiveAck, data |-> bv])]
  BY <1>6 DEF SetSack
<1>8. bv \in Seq(Byte) /\ Len(bv) % ByteMod \in Byte /\ Len(bv) \in Nat
  BY SackFacts, ByteFacts
<1>9. InsertedAt(bytes', bytes, index, bv, Len(bv) % ByteMod)
  <2>1. bytes' = Spliced(bytes, index, bv, Len(bv) % ByteMod)
    BY <1>7 DEF Inserted, Spliced, Rest
  <2>2. index \in 0 .. Len(bytes)
    BY <1>2, <1>6
  <2> QED
    BY <1>2, <1>8, <2>1, <2>2, InsertedBytes
<1>10. PICK b, c : b = bytes /\ c = bytes'
  OBVIOUS
<1>11. /\ c \in Seq(Byte) /\ Len(c) = Len(b) + 2 + Len(bv)
       /\ \A j \in 1 .. s[Len(s)] : c[j] = b[j]
  BY <1>5, <1>9, <1>10 DEF InsertedAt
<1>12. PICK next \in Nat :
         /\ Whole(c, Append(s, next)) /\ Append(s, next) \in Offsets
         /\ SackFits =>
              /\ Chain(c, Append(s, next)) =
                   Append(Chain(b, s), [type |-> SelectiveAck, data |-> bv])
              /\ SubSeq(c, Append(s, next)[Len(Append(s, next))] + 1, Len(c)) =
                   SubSeq(b, s[Len(s)] + 1, Len(b))
  <2>1. /\ b \in Seq(Byte) /\ Path(b, s) /\ Mark(b, s, Len(s)) = SelectiveAck
        /\ InsertedAt(c, b, s[Len(s)], bv, Len(bv) % ByteMod)
    BY <1>2, <1>3, <1>5, <1>9, <1>10
  <2> QED
    BY ZenonT(30), <2>1, InsertedPath
<1>13. PICK t : t = Append(s, next)
  OBVIOUS
<1>14. MeantIs(t)'
  <2> SUFFICES ASSUME SackFits
               PROVE  meant'.chain = Chain(c, t) /\ meant'.payload = SubSeq(c, t[Len(t)] + 1, Len(c))
    BY <1>10 DEF MeantIs, Rest
  <2>1. meant.chain = Chain(b, s) /\ meant.payload = SubSeq(b, s[Len(s)] + 1, Len(b))
    BY <1>3, <1>10 DEF MeantIs, Rest
  <2>2. /\ meant'.chain = Append(meant.chain, [type |-> SelectiveAck, data |-> bv])
        /\ meant'.payload = meant.payload
    BY <1>1, <1>7 DEF TypeOK
  <2> QED
    BY <1>12, <1>13, <2>1, <2>2
<1>15. HeaderParses'
  <2>1. 1 \in 1 .. s[Len(s)]
    BY <1>5, <1>6
  <2>2. c[1] = b[1] /\ Len(c) >= Len(b)
    BY <1>2, <1>8, <1>10, <1>11, <2>1
  <2>3. Len(b) >= HeaderSize /\ Len(b) \in Nat /\ Len(c) \in Nat
    BY <1>2, <1>3, <1>10, <1>11, LenProperties DEF HeaderParses
  <2>4. Len(c) >= HeaderSize
    BY <2>2, <2>3, LayoutAssumption
  <2> QED
    BY <1>3, <1>10, <2>2, <2>4 DEF HeaderParses, At
<1>16. pc' = "received" /\ meant'.known
  BY <1>1, <1>7 DEF Stop, TypeOK
<1>17. KnownLayout'
  <2>1. Whole(bytes, t)' /\ t \in Offsets
    BY <1>10, <1>12, <1>13
  <2> QED
    BY <1>14, <1>15, <1>16, <2>1 DEF KnownLayout
<1>18. TypeOK'
  <2>1. [type |-> SelectiveAck, data |-> bv] \in Extension
    BY <1>8, ByteFacts DEF Extension, SelectiveAck
  <2>2. Append(meant.chain, [type |-> SelectiveAck, data |-> bv]) \in Seq(Extension)
    BY <1>1, <2>1, TypeFacts, AppendProperties
  <2>3. meant' \in [known : BOOLEAN, chain : Seq(Extension), payload : Seq(Byte)]
    BY <1>1, <1>7, <2>2 DEF TypeOK
  <2>4. HeaderSize \in Nat /\ None \in Byte /\ << >> \in Seq(Extension)
    BY LayoutAssumption, ByteFacts, EmptySeq DEF None
  <2>5. bytes' \in Seq(Byte)
    BY <1>10, <1>11
  <2> QED
    BY <1>1, <1>7, <1>16, <2>3, <2>4, <2>5 DEF TypeOK, Stop
<1> QED
  BY <1>16, <1>17, <1>18
     DEF Layout, ReadersStayInside, StaysAccepted, GetSackFindsTheFirst

LEMMA GetSackKeepsLayout ==
  ASSUME LayoutInv, GetSack
  PROVE  LayoutInv'
<1> USE DEF LayoutInv
<1>1. UNCHANGED <<bytes, meant>> /\ pc = "get" /\ TypeOK /\ meant.known
  BY DEF GetSack, Layout
<1>2. bytes \in Seq(Byte) /\ Len(bytes) \in Nat /\ index \in Nat
  BY TypeFacts
<1>3. PICK s \in Offsets : Whole(bytes, s) /\ MeantIs(s) /\ HeaderParses /\ GetReached(s)
  BY <1>1 DEF Layout, KnownLayout
<1>4. Path(bytes, s) /\ Mark(bytes, s, Len(s)) = None
  BY <1>3 DEF Whole
<1>5. /\ Len(s) \in Nat /\ 1 \in 1 .. Len(s) /\ s[1] = HeaderSize
      /\ Len(s) > 1 <=> 1 \in 1 .. Len(s) - 1
      /\ ~ (Len(s) > 1) => Len(s) = 1
  <2>1. Len(s) \in Nat /\ Len(s) > 0 /\ s[1] = HeaderSize
    BY <1>2, <1>4, PathPlaces DEF Path
  <2> DEFINE n == Len(s)
  <2> HIDE DEF n
  <2>2. n \in Nat /\ n > 0
    BY <2>1 DEF n
  <2>3. 1 \in 1 .. n /\ (n > 1 <=> 1 \in 1 .. n - 1) /\ (~ (n > 1) => n = 1)
    BY <2>2
  <2> QED
    BY <2>1, <2>3 DEF n
\* What the first extension is.
<1>6. ASSUME SackFits
      PROVE  /\ meant.chain # << >> => Len(s) > 1
             /\ Len(s) > 1 => /\ meant.chain # << >>
                              /\ meant.chain[1].type = Mark(bytes, s, 1)
                              /\ meant.chain[1] = Chain(bytes, s)[1]
  <2>1. meant.chain = Chain(bytes, s)
    BY <1>3, <1>6 DEF MeantIs
  <2>2. Chain(bytes, s) \in Seq(Extension) /\ Len(Chain(bytes, s)) = Len(s) - 1
    BY <1>2, <1>4, ChainType
  <2>3. Len(s) > 1 => Chain(bytes, s)[1].type = Mark(bytes, s, 1)
    <3>1. Len(s) > 1 => Chain(bytes, s)[1] =
            [type |-> Mark(bytes, s, 1), data |-> SubSeq(bytes, s[1] + 3, s[1 + 1])]
      BY <1>2, <1>4, <1>5, ChainType
    <3> QED
      BY <3>1
  <2>4. Len(s) = 1 => Chain(bytes, s) = << >>
    BY <2>2, EmptySeq
  <2>5. Len(s) > 1 => Chain(bytes, s) # << >>
    <3>1. Len(Chain(bytes, s)) = 0 => ~ (Len(s) > 1)
      <4>1. \A n \in Nat : n - 1 = 0 => ~ (n > 1)
        OBVIOUS
      <4> QED
        BY <1>5, <2>2, <4>1
    <3>2. Len(<< >>) = 0
      BY EmptySeq
    <3> QED
      BY <3>1, <3>2
  <2> QED
    BY <1>5, <2>1, <2>3, <2>4, <2>5
\* The loop is at the first extension, if there is one.
<1>7. ASSUME index = HeaderSize, ext = Mark(bytes, s, 1)
      PROVE  /\ InLoop <=> Len(s) > 1
             /\ Len(s) > 1 => /\ GetReaches
                              /\ [type |-> ext, data |-> Data] = Chain(bytes, s)[1]
  <2>1. Len(s) > 1 => /\ InLoop /\ index + 1 < Len(bytes) /\ NextIndex <= Len(bytes)
                      /\ [type |-> ext, data |-> Data] = Chain(bytes, s)[1]
    BY <1>2, <1>4, <1>5, <1>7, NextPlace
  <2>2. Len(s) = 1 => ~ InLoop
    BY <1>4, <1>7 DEF InLoop
  <2> QED
    BY <1>5, <2>1, <2>2 DEF GetReaches, Fits
<1>8. \/ index = HeaderSize /\ ext = Mark(bytes, s, 1)
      \/ Len(s) > 1 /\ Mark(bytes, s, 1) # SelectiveAck
  BY <1>3 DEF GetReached
<1>9. ASSUME InLoop, GetReaches
      PROVE  /\ NextIndex \in Nat
             /\ ext = SelectiveAck => Data \in Seq(Byte)
             /\ NextIndex < Len(bytes) => At(NextIndex) \in Byte
  <2>1. NextIndex \in Nat
    <3>1. index + 1 + 1 \in 1 .. Len(bytes)
      BY <1>2, <1>9 DEF GetReaches
    <3>2. DataLen \in Byte
      BY <1>2, <3>1, ElementOfSeq DEF DataLen, At
    <3> QED
      BY <1>2, <3>2, ByteFacts DEF NextIndex
  <2>2. ASSUME NextIndex <= Len(bytes)
        PROVE  Data \in Seq(Byte)
    <3>1. \A i \in index + 3 .. NextIndex : i \in 1 .. Len(bytes)
      BY <1>2, <2>1, <2>2
    <3>2. \A i \in index + 3 .. NextIndex : bytes[i] \in Byte
      BY <1>2, <3>1, ElementOfSeq
    <3>3. index + 3 \in Int /\ NextIndex \in Int
      BY <1>2, <2>1
    <3> QED
      BY <3>2, <3>3, SubSeqProperties DEF Data
  <2>3. ASSUME NextIndex < Len(bytes)
        PROVE  At(NextIndex) \in Byte
    <3>1. NextIndex + 1 \in 1 .. Len(bytes)
      BY <1>2, <2>1, <2>3
    <3> QED
      BY <1>2, <3>1, ElementOfSeq DEF At
  <2> QED
    BY <1>9, <2>1, <2>2, <2>3 DEF GetReaches, Fits
<1>10. HeaderSize \in Nat /\ None \in Byte /\ << >> \in Seq(Extension) /\ << >> \in Seq(Seq(Byte))
  BY LayoutAssumption, ByteFacts, EmptySeq DEF None
<1>11. CASE ~ InLoop /\ sack' = << >> /\ Stop("got")
  <2>1. pc' = "got"
    BY <1>11 DEF Stop
  <2>2. SackFits => ~ SackFirst
    BY <1>5, <1>6, <1>7, <1>8, <1>11 DEF SackFirst
  <2>3. KnownLayout'
    BY <1>1, <2>1, KeptLayout DEF Layout
  <2>4. TypeOK'
    BY <1>1, <1>10, <1>11 DEF TypeOK, Stop
  <2> QED
    BY <1>1, <2>1, <2>2, <2>3, <2>4
       DEF Layout, ReadersStayInside, StaysAccepted, GetSackFindsTheFirst, SackFirst
<1>12. CASE InLoop /\ ~ GetReaches /\ Stop("overrun") /\ UNCHANGED sack
  <2>1. pc' = "overrun"
    BY <1>12 DEF Stop
  <2>2. SackFits => ~ SackFirst /\ meant.chain # << >>
    BY <1>5, <1>6, <1>7, <1>8, <1>12 DEF SackFirst
  <2>3. KnownLayout'
    BY <1>1, <2>1, KeptLayout DEF Layout
  <2>4. TypeOK'
    BY <1>1, <1>10, <1>12 DEF TypeOK, Stop
  <2> QED
    BY <1>1, <2>1, <2>2, <2>3, <2>4
       DEF Layout, ReadersStayInside, StaysAccepted, GetSackFindsTheFirst, SackFirst
<1>13. CASE InLoop /\ GetReaches /\ ext = SelectiveAck /\ sack' = <<Data>> /\ Stop("got")
  <2>1. pc' = "got"
    BY <1>13 DEF Stop
  <2>2. SackFits /\ SackFirst => Data = meant.chain[1].data
    <3> SUFFICES ASSUME SackFits, SackFirst PROVE Data = meant.chain[1].data
      OBVIOUS
    <3>1. Len(s) > 1 /\ meant.chain[1] = Chain(bytes, s)[1] /\ Mark(bytes, s, 1) = SelectiveAck
      BY <1>6 DEF SackFirst
    <3>2. [type |-> ext, data |-> Data] = meant.chain[1]
      BY <1>7, <1>8, <3>1
    <3>3. [type |-> ext, data |-> Data].data = Data
      OBVIOUS
    <3> QED
      BY <3>2, <3>3
  <2>3. KnownLayout'
    BY <1>1, <2>1, KeptLayout DEF Layout
  <2>4. TypeOK'
    <3>1. Data \in Seq(Byte)
      BY <1>9, <1>13
    <3>2. <<Data>> \in Seq(Seq(Byte))
      BY <3>1
    <3> QED
      BY <1>1, <1>10, <1>13, <3>2 DEF TypeOK, Stop
  <2> QED
    BY <1>1, <1>13, <2>1, <2>2, <2>3, <2>4
       DEF Layout, ReadersStayInside, StaysAccepted, GetSackFindsTheFirst, SackFirst
<1>14. CASE /\ InLoop /\ GetReaches /\ ext # SelectiveAck
            /\ index' = NextIndex
            /\ ext' = (IF NextIndex < Len(bytes) THEN At(NextIndex) ELSE None)
            /\ UNCHANGED <<pc, seen, sack>>
  <2>1. Len(s) > 1 /\ Mark(bytes, s, 1) # SelectiveAck
    BY <1>7, <1>8, <1>14
  <2>2. GetReached(s)'
    BY <1>1, <2>1 DEF GetReached
  <2>3. KnownLayout'
    BY <1>1, <1>3, <1>14, <2>2, KeptAtPlace
  <2>4. TypeOK'
    BY <1>1, <1>9, <1>10, <1>14 DEF TypeOK
  <2> QED
    BY <1>1, <1>14, <2>3, <2>4
       DEF Layout, ReadersStayInside, StaysAccepted, GetSackFindsTheFirst
<1> QED
  BY <1>11, <1>12, <1>13, <1>14 DEF GetSack

-----------------------------------------------------------------------------
(* The whole buffer.                                                       *)

LEMMA LongerRest ==
  ASSUME NEW b \in Seq(Byte), NEW i \in 0 .. Len(b), NEW tail \in Seq(Byte)
  PROVE  /\ SubSeq(b, i + 1, Len(b)) \in Seq(Byte)
         /\ SubSeq(b \o tail, i + 1, Len(b \o tail)) = SubSeq(b, i + 1, Len(b)) \o tail
<1> DEFINE c == b \o tail
           R == SubSeq(b, i + 1, Len(b))
           d == R \o tail
           r == Len(b) - i
           v == Len(tail)
           m == Len(b)
<1>1. /\ i \in Nat /\ m \in Nat /\ r \in Nat /\ v \in Nat
      /\ i + r = m /\ i + r <= m
  BY LenProperties
<1>2. /\ c \in Seq(Byte) /\ Len(c) = m + v
      /\ \A j \in 1 .. m : c[j] = b[j]
      /\ \A j \in 1 .. v : c[m + j] = tail[j]
  BY ConcatAt
<1> HIDE DEF r
<1>3. R \in Seq(Byte) /\ Len(R) = r /\ \A j \in 1 .. r : R[j] = b[i + j]
  <2>1. /\ SubSeq(b, i + 1, i + r) \in Seq(Byte) /\ Len(SubSeq(b, i + 1, i + r)) = r
        /\ \A j \in 1 .. r : SubSeq(b, i + 1, i + r)[j] = b[i + j]
    BY <1>1, SubSeqAt
  <2> QED
    BY <1>1, <2>1
<1> HIDE DEF R, c
<1>4. /\ d \in Seq(Byte) /\ Len(d) = r + v
      /\ \A j \in 1 .. r : d[j] = R[j]
      /\ \A j \in 1 .. v : d[r + j] = tail[j]
  <2>1. /\ d \in Seq(Byte) /\ Len(d) = Len(R) + Len(tail)
        /\ \A j \in 1 .. Len(R) : d[j] = R[j]
        /\ \A j \in 1 .. Len(tail) : d[Len(R) + j] = tail[j]
    BY <1>3, ConcatAt
  <2> QED
    BY <1>3, <2>1
<1> HIDE DEF d, v, m
<1>5. ASSUME NEW j \in 1 .. r + v
      PROVE  c[i + j] = d[j]
  <2>1. CASE j <= r
    <3>1. j \in 1 .. r /\ i + j \in 1 .. m
      BY <1>1, <2>1
    <3> QED
      BY <1>2, <1>3, <1>4, <3>1
  <2>2. CASE ~ (j <= r)
    <3>1. PICK h \in 1 .. v : j = r + h
      BY <1>1, <2>2
    <3>2. i + j = m + h
      BY <1>1, <3>1
    <3> QED
      BY <1>2, <1>4, <3>1, <3>2
  <2> QED
    BY <2>1, <2>2
<1>6. i + Len(d) = Len(c) /\ i + Len(d) <= Len(c)
  <2>1. i + (r + v) = m + v /\ m + v \in Nat
    BY <1>1
  <2> QED
    BY <1>2, <1>4, <2>1
<1>7. SubSeq(c, i + 1, i + Len(d)) = d
  <2>1. \A j \in 1 .. Len(d) : c[i + j] = d[j]
    BY <1>4, <1>5
  <2> QED
    BY <1>1, <1>2, <1>4, <1>6, <2>1, SubSeqIs
<1>8. SubSeq(c, i + 1, Len(c)) = d
  BY <1>6, <1>7
<1> QED
  BY <1>3, <1>8 DEF c, d, R

LEMMA ParseWholeBufferKeepsLayout ==
  ASSUME LayoutInv, NEW tail \in Seq(Byte), ParseWholeBuffer(tail)
  PROVE  LayoutInv'
<1> USE DEF LayoutInv
<1>1. /\ bytes' = bytes \o tail /\ Stop("received") /\ UNCHANGED sack
      /\ meant' = [meant EXCEPT !.payload = @ \o tail]
      /\ pc = "idle" /\ TypeOK /\ meant.known
  BY DEF ParseWholeBuffer, Layout
<1>2. bytes \in Seq(Byte) /\ Len(bytes) \in Nat
  BY TypeFacts
<1>3. PICK s \in Offsets : Whole(bytes, s) /\ MeantIs(s) /\ HeaderParses
  BY <1>1 DEF Layout, KnownLayout
<1>4. PICK b, c, i : b = bytes /\ c = bytes' /\ i = s[Len(s)]
  OBVIOUS
<1>5. b \in Seq(Byte) /\ Path(b, s) /\ Mark(b, s, Len(s)) = None /\ c = b \o tail
  BY <1>1, <1>2, <1>3, <1>4 DEF Whole
<1>6. /\ c \in Seq(Byte) /\ Len(c) = Len(b) + Len(tail) /\ Len(b) \in Nat /\ Len(tail) \in Nat
      /\ \A j \in 1 .. Len(b) : c[j] = b[j]
  BY <1>5, ConcatAt
<1>7. /\ Len(s) \in 1 .. Len(s) /\ i \in Nat /\ i <= Len(b) /\ i \in 0 .. Len(b)
      /\ i <= Len(c)
  <2>1. Len(s) \in Nat /\ Len(s) > 0
    BY <1>5, PathPlaces
  <2>2. Len(s) \in 1 .. Len(s)
    BY <2>1
  <2>3. i \in Nat /\ i <= Len(b)
    BY <1>4, <1>5, <2>2, PathPlaces
  <2> QED
    BY <1>6, <2>2, <2>3
<1>8. Path(c, s) /\ Chain(c, s) = Chain(b, s) /\ Mark(c, s, Len(s)) = None
  <2>1. \A j \in 1 .. i : c[j] = b[j]
    BY <1>6, <1>7
  <2>2. s[Len(s)] <= Len(c) /\ \A j \in 1 .. s[Len(s)] : c[j] = b[j]
    BY <1>4, <1>7, <2>1
  <2>3. /\ Path(c, s) /\ Chain(c, s) = Chain(b, s)
        /\ \A k \in 1 .. Len(s) : Mark(c, s, k) = Mark(b, s, k)
    <3>1. b \in Seq(Byte) /\ Path(b, s) /\ c \in Seq(Byte)
      BY <1>5, <1>6
    <3> QED
      BY <2>2, <3>1, SamePath
  <2> QED
    BY <1>5, <1>7, <2>3
<1>9. SubSeq(c, i + 1, Len(c)) = SubSeq(b, i + 1, Len(b)) \o tail
  BY <1>5, <1>7, LongerRest
<1>10. MeantIs(s)'
  <2> SUFFICES ASSUME SackFits
               PROVE  meant'.chain = Chain(c, s) /\ meant'.payload = SubSeq(c, i + 1, Len(c))
    BY <1>4 DEF MeantIs, Rest
  <2>1. meant.chain = Chain(b, s) /\ meant.payload = SubSeq(b, i + 1, Len(b))
    BY <1>3, <1>4 DEF MeantIs, Rest
  <2>2. meant'.chain = meant.chain /\ meant'.payload = meant.payload \o tail
    BY <1>1 DEF TypeOK
  <2> QED
    BY <1>8, <1>9, <2>1, <2>2
<1>11. HeaderParses'
  <2>1. 1 \in 1 .. Len(b) /\ Len(b) >= HeaderSize
    BY <1>1, <1>3, <1>4, TypeFacts DEF HeaderParses
  <2>2. c[1] = b[1] /\ Len(c) >= HeaderSize
    BY <1>6, <2>1, LayoutAssumption
  <2> QED
    BY <1>3, <1>4, <2>2 DEF HeaderParses, At
<1>12. pc' = "received" /\ meant'.known
  BY <1>1 DEF Stop, TypeOK
<1>13. KnownLayout'
  <2>1. Whole(bytes, s)'
    BY <1>4, <1>8 DEF Whole
  <2> QED
    BY <1>10, <1>11, <1>12, <2>1 DEF KnownLayout
<1>14. TypeOK'
  <2>1. meant.payload \o tail \in Seq(Byte)
    BY <1>1, TypeFacts, ConcatAt
  <2>2. meant' \in [known : BOOLEAN, chain : Seq(Extension), payload : Seq(Byte)]
    BY <1>1, <2>1 DEF TypeOK
  <2>3. HeaderSize \in Nat /\ None \in Byte /\ << >> \in Seq(Extension)
    BY LayoutAssumption, ByteFacts, EmptySeq DEF None
  <2>4. bytes' \in Seq(Byte)
    BY <1>4, <1>6
  <2> QED
    BY <1>1, <1>12, <2>2, <2>3, <2>4 DEF TypeOK, Stop
<1> QED
  BY <1>12, <1>13, <1>14
     DEF Layout, ReadersStayInside, StaysAccepted, GetSackFindsTheFirst

-----------------------------------------------------------------------------
(* The invariant, and what follows from it.                                *)

LEMMA BlocksAreSequences ==
  ASSUME NEW lengths \in SUBSET Int, NEW values \in SUBSET Byte,
         \A n \in lengths : n >= 0, NEW p \in Blocks(lengths, values)
  PROVE  p \in Seq(Byte)
<1>1. PICK n \in lengths : p \in [1 .. n -> values]
  BY DEF Blocks
<1>2. n \in Nat /\ p \in [1 .. n -> Byte]
  BY <1>1
<1> QED
  BY <1>2, SeqDef

LEMMA InitHasLayout == Init => LayoutInv
<1> SUFFICES ASSUME Init PROVE LayoutInv
  OBVIOUS
<1>1. /\ HeaderSize \in Nat /\ HeaderSize >= 2 /\ None \in Byte /\ 1 \in Byte
      /\ << >> \in Seq(Extension) /\ << >> \in Seq(Byte) /\ << >> \in Seq(Seq(Byte))
      /\ Bytes \in SUBSET Byte /\ MaxDatagram \in Nat
  BY LayoutAssumption, InputAssumption, ByteFacts, EmptySeq DEF None
<1>2. index \in Nat /\ ext \in Byte /\ seen \in Seq(Extension) /\ sack \in Seq(Seq(Byte))
  BY <1>1 DEF Init
<1>3. CASE bytes \in Blocks(0 .. MaxDatagram, Bytes) /\ pc = "received" /\ meant = Unknown
  <2>1. bytes \in Seq(Byte)
    <3>1. 0 .. MaxDatagram \in SUBSET Int /\ \A n \in 0 .. MaxDatagram : n >= 0
      BY <1>1
    <3> QED
      BY <1>1, <1>3, <3>1, BlocksAreSequences
  <2>2. TypeOK
    BY <1>1, <1>2, <1>3, <2>1 DEF TypeOK, Unknown
  <2>3. Layout
    BY <1>3 DEF Layout, Unknown, ReadersStayInside, StaysAccepted, GetSackFindsTheFirst
  <2> QED
    BY <2>2, <2>3 DEF LayoutInv
<1>4. ASSUME NEW p \in Blocks(0 .. MaxDatagram - HeaderSize, Bytes),
             bytes = Fresh \o p, pc = "idle", meant = Meant(<< >>, p)
      PROVE  LayoutInv
  <2>1. p \in Seq(Byte)
    <3>1. /\ 0 .. MaxDatagram - HeaderSize \in SUBSET Int
          /\ \A n \in 0 .. MaxDatagram - HeaderSize : n >= 0
      BY <1>1
    <3> QED
      BY <1>1, <3>1, BlocksAreSequences
  <2>2. Fresh \in Seq(Byte) /\ Len(Fresh) = HeaderSize /\ Fresh[1] = 1 /\ Fresh[2] = 0
    <3>1. Fresh \in [1 .. HeaderSize -> Byte]
      BY <1>1 DEF Fresh, None
    <3>2. Fresh \in Seq(Byte)
      BY <1>1, <3>1, SeqDef
    <3>3. Len(Fresh) = HeaderSize
      BY <1>1, <3>1, <3>2, LenProperties
    <3>4. 1 \in 1 .. HeaderSize /\ 2 \in 1 .. HeaderSize
      BY <1>1
    <3>5. \A i \in 1 .. HeaderSize : Fresh[i] = IF i = 1 THEN 1 ELSE 0
      BY DEF Fresh, None
    <3>6. Fresh[1] = 1 /\ Fresh[2] = 0
      BY <3>4, <3>5
    <3> QED
      BY <3>2, <3>3, <3>6
  <2>3. /\ bytes \in Seq(Byte) /\ Len(bytes) = HeaderSize + Len(p) /\ Len(p) \in Nat
        /\ \A j \in 1 .. HeaderSize : bytes[j] = Fresh[j]
        /\ \A j \in 1 .. Len(p) : bytes[HeaderSize + j] = p[j]
    <3>1. /\ bytes \in Seq(Byte) /\ Len(bytes) = Len(Fresh) + Len(p) /\ Len(p) \in Nat
          /\ \A j \in 1 .. Len(Fresh) : bytes[j] = Fresh[j]
          /\ \A j \in 1 .. Len(p) : bytes[Len(Fresh) + j] = p[j]
      BY <1>4, <2>1, <2>2, ConcatAt
    <3> QED
      BY <2>2, <3>1
  <2>4. bytes[1] = 1 /\ bytes[2] = None
    <3>1. 1 \in 1 .. HeaderSize /\ 2 \in 1 .. HeaderSize
      BY <1>1
    <3> QED
      BY <2>2, <2>3, <3>1 DEF None
  <2>5. HeaderParses
    <3>1. 1 % Nibble = 1 /\ 1 \div Nibble = 0 /\ 0 <= LastType
      BY LayoutAssumption
    <3>2. Len(bytes) >= HeaderSize
      BY <1>1, <2>3
    <3> QED
      BY <2>4, <3>1, <3>2 DEF HeaderParses, At
  <2>6. HeaderSize <= Len(bytes) /\ bytes \in Seq(Byte)
    BY <1>1, <2>3
  <2>7. PICK s : /\ s \in Offsets /\ Len(s) = 1 /\ s[1] = HeaderSize
                 /\ Path(bytes, s) /\ Chain(bytes, s) = << >> /\ Mark(bytes, s, 1) = None
    <3>1. \E s \in Offsets : /\ Len(s) = 1 /\ s[1] = HeaderSize
                 /\ Path(bytes, s) /\ Chain(bytes, s) = << >> /\ Mark(bytes, s, 1) = bytes[2]
      BY <2>6, ShortPath
    <3> QED
      BY <2>4, <3>1
  <2>8. Rest(HeaderSize) = p
    <3>1. SubSeq(bytes, HeaderSize + 1, HeaderSize + Len(p)) = p
      <4>1. HeaderSize + Len(p) <= Len(bytes)
        BY <1>1, <2>3
      <4>2. HeaderSize \in Nat /\ bytes \in Seq(Byte)
        BY <1>1, <2>3
      <4>3. \A j \in 1 .. Len(p) : bytes[HeaderSize + j] = p[j]
        BY <2>3
      <4> QED
        BY <2>1, <4>1, <4>2, <4>3, SubSeqIs
    <3> QED
      BY <2>3, <3>1 DEF Rest
  <2>9. KnownLayout
    BY <1>4, <2>5, <2>7, <2>8 DEF KnownLayout, Whole, MeantIs, Meant
  <2>10. TypeOK
    BY <1>1, <1>2, <1>4, <2>1, <2>3 DEF TypeOK, Meant
  <2> QED
    BY <1>4, <2>9, <2>10
       DEF LayoutInv, Layout, Meant, ReadersStayInside, StaysAccepted, GetSackFindsTheFirst
<1> QED
  BY <1>3, <1>4 DEF Init

LEMMA NextKeepsLayout ==
  ASSUME LayoutInv, [Next]_vars
  PROVE  LayoutInv'
<1>1. CASE UNCHANGED vars
  <2>1. /\ bytes' = bytes /\ pc' = pc /\ index' = index /\ ext' = ext /\ seen' = seen
        /\ sack' = sack /\ meant' = meant
    BY <1>1 DEF vars, loopVars
  <2>2. HeaderParses' = HeaderParses
    BY <2>1 DEF HeaderParses, At
  <2>3. ASSUME NEW s
        PROVE  /\ Path(bytes, s)' = Path(bytes, s) /\ Whole(bytes, s)' = Whole(bytes, s)
               /\ MeantIs(s)' = MeantIs(s) /\ GetReached(s)' = GetReached(s)
               /\ \A k : Reached(s, k)' = Reached(s, k)
               /\ \A k : Mark(bytes, s, k)' = Mark(bytes, s, k)
    BY <2>1 DEF MeantIs, GetReached, Reached, Rest
  <2>4. KnownLayout' = KnownLayout
    BY <2>1, <2>2, <2>3 DEF KnownLayout
  <2>5. CheckedLayout' = CheckedLayout
    BY <2>1, <2>2, <2>3 DEF CheckedLayout
  <2>6. SetLayout' = SetLayout
    BY <2>1, <2>2, <2>3 DEF SetLayout
  <2>7. TypeOK' = TypeOK
    BY <2>1 DEF TypeOK
  <2> QED
    BY <2>1, <2>4, <2>5, <2>6, <2>7 DEF LayoutInv, Layout, ReadersStayInside, StaysAccepted,
       GetSackFindsTheFirst, SackFirst
<1>2. CASE BeginCheck
  BY <1>2, BeginCheckKeepsLayout
<1>3. CASE CheckExtension
  BY <1>3, CheckExtensionKeepsLayout
<1>4. CASE EndCheck
  BY <1>4, EndCheckKeepsLayout
<1>5. CASE \E loop \in {"iterate", "payload", "get"} : BeginRead(loop)
  BY <1>5, BeginReadKeepsLayout
<1>6. CASE ReadExtension
  BY <1>6, ReadExtensionKeepsLayout
<1>7. CASE EndRead
  BY <1>7, EndReadKeepsLayout
<1>8. CASE BeginSetSack
  BY <1>8, BeginSetSackKeepsLayout
<1>9. CASE SkipExtension
  BY <1>9, SkipExtensionKeepsLayout
<1>10. CASE \E bv \in Sacks : SetSack(bv)
  BY <1>10, SetSackKeepsLayout
<1>11. CASE GetSack
  BY <1>11, GetSackKeepsLayout
<1>12. CASE \E b \in Bytes : ParseWholeBuffer(<<b>>)
  <2>1. PICK b \in Bytes : ParseWholeBuffer(<<b>>)
    BY <1>12
  <2>2. <<b>> \in Seq(Byte)
    BY InputAssumption
  <2> QED
    BY <2>1, <2>2, ParseWholeBufferKeepsLayout
<1> QED
  BY <1>1, <1>2, <1>3, <1>4, <1>5, <1>6, <1>7, <1>8, <1>9, <1>10, <1>11, <1>12 DEF Next

LEMMA LayoutIsInvariant == Spec => []LayoutInv
<1>1. LayoutInv /\ [Next]_vars => LayoutInv'
  BY NextKeepsLayout
<1> QED
  BY <1>1, InitHasLayout, PTL DEF Spec

\* Every variable stays in its domain.
THEOREM TypeCorrect == Spec => []TypeOK
<1>1. LayoutInv => TypeOK
  BY DEF LayoutInv
<1> QED
  BY <1>1, LayoutIsInvariant, PTL

\* No reader of a packet that was made or accepted indexes outside of it: the
\* iterator, payload and set_sack may trust check_extensions, whatever the
\* datagram, and even behind a selective ack that is longer than its length
\* byte can say.
THEOREM NoReaderPanics == Spec => []ReadersStayInside
<1>1. LayoutInv => ReadersStayInside
  BY DEF LayoutInv, Layout
<1> QED
  BY <1>1, LayoutIsInvariant, PTL

\* When every selective ack fits its length byte, a packet that was made or
\* accepted is accepted again, with more bytes behind it or one more ack in it.
THEOREM AcceptedAgain == SackFits => (Spec => []StaysAccepted)
<1> SUFFICES ASSUME SackFits PROVE Spec => []StaysAccepted
  OBVIOUS
<1>1. LayoutInv => StaysAccepted
  BY DEF LayoutInv, Layout
<1> QED
  BY <1>1, LayoutIsInvariant, PTL

\* Then, too, whoever walks the chain to its end sees the extensions that the
\* maker of the packet or the check saw, and the payload they left.
THEOREM WalksAgree == SackFits => (Spec => []EveryWalkAgrees)
<1> SUFFICES ASSUME SackFits PROVE Spec => []EveryWalkAgrees
  OBVIOUS
<1>1. ASSUME LayoutInv, WalkEnded, meant.known
      PROVE  ext = None /\ seen = meant.chain /\ Rest(index) = meant.payload
  <2>1. TypeOK /\ bytes \in Seq(Byte)
    BY <1>1, TypeFacts DEF LayoutInv
  <2>2. PICK s \in Offsets : /\ Whole(bytes, s) /\ MeantIs(s)
                             /\ \E k \in 1 .. Len(s) : Reached(s, k)
    BY <1>1 DEF LayoutInv, Layout, KnownLayout, WalkEnded
  <2>3. PICK k \in 1 .. Len(s) : Reached(s, k)
    BY <2>2
  <2>4. k = Len(s)
    BY <1>1, <2>1, <2>2, <2>3, LastPlace DEF Whole, Reached, WalkEnded
  <2>5. Chain(bytes, s) \in Seq(Extension) /\ Len(Chain(bytes, s)) = Len(s) - 1
    BY <2>1, <2>2, ChainType DEF Whole
  <2>6. seen = Chain(bytes, s)
    BY <2>3, <2>4, <2>5, ChainPrefix DEF Reached
  <2> QED
    BY <2>2, <2>3, <2>4, <2>6 DEF Whole, Reached, MeantIs
<1>2. LayoutInv => EveryWalkAgrees
  BY <1>1 DEF EveryWalkAgrees
<1> QED
  BY <1>2, LayoutIsInvariant, PTL

\* Then, too, get_sack returns a selective ack that comes first.
THEOREM FirstSackIsFound == SackFits => (Spec => []GetSackFindsTheFirst)
<1> SUFFICES ASSUME SackFits PROVE Spec => []GetSackFindsTheFirst
  OBVIOUS
<1>1. LayoutInv => GetSackFindsTheFirst
  BY DEF LayoutInv, Layout
<1> QED
  BY <1>1, LayoutIsInvariant, PTL
=============================================================================
