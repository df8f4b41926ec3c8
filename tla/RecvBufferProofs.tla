--------------------------- MODULE RecvBufferProofs ---------------------------
(***************************************************************************)
(* Proofs about the buffer of the receive loop, for every size of header   *)
(* and payload and every length of datagrams and reads: whose bytes a      *)
(* packet carries when it is handed to the reader.                         *)
(***************************************************************************)
EXTENDS RecvBuffer, SequenceTheorems, TLAPS

\* A packet on its way to the reader, or what a read took of it.
Piece == [of : Nat, data : Seq(Nat)]

\* IsNewest, of any sequence of received lengths.
Newest(lengths, e, i, d) ==
  /\ e # 0 => e <= d /\ lengths[e] >= i
  /\ \A later \in e + 1 .. d : lengths[later] < i

\* A piece is right: its header is its own and its bytes are the newest.
Right(lengths, p) ==
  /\ p \in Piece
  /\ p.of \in 1 .. Len(lengths) /\ Len(p.data) <= Size
  /\ \A i \in 1 .. HeaderSize : i <= Len(p.data) => p.data[i] = p.of
  /\ \A i \in 1 .. Len(p.data) : Newest(lengths, p.data[i], i, p.of)

AllRight(lengths, s) == s \in Seq(Piece) /\ \A k \in 1 .. Len(s) : Right(lengths, s[k])

BufferInv ==
  /\ received \in Seq(Lengths) /\ Len(received) <= MaxReceived /\ running \in BOOLEAN
  /\ buf \in [1 .. Size -> 0 .. Len(received)]
  /\ \A i \in 1 .. Size : Newest(received, buf[i], i, Len(received))
  /\ AllRight(received, queue) /\ \A k \in 1 .. Len(queue) : Len(queue[k].data) = Size
  /\ AllRight(received, reads)

LEMMA Sizes ==
  /\ HeaderSize \in Nat \ {0} /\ BUF_SIZE \in Nat \ {0} /\ Size \in Nat \ {0}
  /\ HeaderSize <= Size
  /\ \A n \in Lengths \cup ReadSizes : n \in Nat
  /\ MaxReceived \in Nat
BY BufferAssumption DEF Size

-----------------------------------------------------------------------------
(* One datagram more.                                                      *)

LEMMA OneMore ==
  ASSUME NEW r \in Seq(Lengths), NEW n \in Lengths
  PROVE  /\ Append(r, n) \in Seq(Lengths) /\ Len(Append(r, n)) = Len(r) + 1
         /\ Len(r) \in Nat /\ n \in Nat
         /\ \A d \in 1 .. Len(r) : Append(r, n)[d] = r[d] /\ r[d] \in Nat
         /\ Append(r, n)[Len(r) + 1] = n
<1>1. \A d \in 1 .. Len(r) : r[d] \in Nat
  BY ElementOfSeq, Sizes
<1> QED
  BY <1>1, AppendProperties, LenProperties, Sizes

\* What was right stays right.
LEMMA StaysRight ==
  ASSUME NEW r \in Seq(Lengths), NEW n \in Lengths, NEW p, Right(r, p)
  PROVE  Right(Append(r, n), p)
<1>1. /\ Len(Append(r, n)) = Len(r) + 1 /\ Len(r) \in Nat
      /\ \A d \in 1 .. Len(r) : Append(r, n)[d] = r[d]
  BY OneMore
<1>2. p.of \in 1 .. Len(r) /\ p.of \in 1 .. Len(Append(r, n))
  BY <1>1 DEF Right
<1>3. ASSUME NEW i \in 1 .. Len(p.data)
      PROVE  Newest(Append(r, n), p.data[i], i, p.of)
  <2>1. p.data[i] \in Nat
    BY ElementOfSeq DEF Right, Piece
  <2>2. Newest(r, p.data[i], i, p.of)
    BY DEF Right
  <2>3. \A e \in 1 .. p.of : Append(r, n)[e] = r[e]
    BY <1>1, <1>2
  <2> QED
    BY <1>2, <2>1, <2>2, <2>3 DEF Newest
<1> QED
  BY <1>2, <1>3 DEF Right

LEMMA BufferFilled ==
  ASSUME BufferInv, NEW n \in Lengths, received' = Append(received, n),
         buf' = Filled(n, Len(received) + 1)
  PROVE  /\ buf' \in [1 .. Size -> 0 .. Len(received')]
         /\ \A i \in 1 .. Size : Newest(received', buf'[i], i, Len(received'))
         /\ \A i \in 1 .. Size : i <= n => buf'[i] = Len(received')
<1>1. /\ Len(received') = Len(received) + 1 /\ Len(received) \in Nat /\ n \in Nat
      /\ \A d \in 1 .. Len(received) : received'[d] = received[d]
      /\ received'[Len(received) + 1] = n
  BY OneMore DEF BufferInv
<1>2. \A i \in 1 .. Size :
        /\ buf[i] \in 0 .. Len(received) /\ Newest(received, buf[i], i, Len(received))
        /\ buf'[i] = IF i <= n THEN Len(received) + 1 ELSE buf[i]
  BY DEF BufferInv, Filled
<1>3. buf' \in [1 .. Size -> 0 .. Len(received')]
  BY <1>1, <1>2 DEF Filled
<1>4. ASSUME NEW i \in 1 .. Size
      PROVE  Newest(received', buf'[i], i, Len(received'))
  <2>1. CASE i <= n
    <3>1. buf'[i] = Len(received') /\ received'[buf'[i]] = n
      BY <1>1, <1>2, <2>1
    <3> QED
      BY <1>1, <2>1, <3>1 DEF Newest
  <2>2. CASE ~ (i <= n)
    <3>1. buf'[i] = buf[i] /\ i > n /\ i \in Nat
      BY <1>1, <1>2, <2>2, Sizes
    <3>2. buf[i] # 0 => buf[i] <= Len(received') /\ received'[buf[i]] >= i
      BY <1>1, <1>2 DEF Newest
    <3>3. ASSUME NEW d \in buf[i] + 1 .. Len(received')
          PROVE  received'[d] < i
      <4>1. CASE d = Len(received) + 1
        BY <1>1, <3>1, <4>1
      <4>2. CASE d # Len(received) + 1
        <5>1. d \in 1 .. Len(received) /\ d \in buf[i] + 1 .. Len(received)
          BY <1>1, <1>2, <3>3, <4>2
        <5> QED
          BY <1>1, <1>2, <5>1 DEF Newest
      <4> QED
        BY <4>1, <4>2
    <3> QED
      BY <3>1, <3>2, <3>3 DEF Newest
  <2> QED
    BY <2>1, <2>2
<1>5. \A i \in 1 .. Size : i <= n => buf'[i] = Len(received')
  BY <1>1, <1>2
<1> QED
  BY <1>3, <1>4, <1>5

\* Right pieces, and one more.
LEMMA PushRight ==
  ASSUME NEW r, NEW s, AllRight(r, s), NEW p, Right(r, p)
  PROVE  /\ AllRight(r, Append(s, p))
         /\ Len(Append(s, p)) = Len(s) + 1 /\ Len(s) \in Nat
         /\ \A k \in 1 .. Len(s) : Append(s, p)[k] = s[k]
         /\ Append(s, p)[Len(s) + 1] = p
<1>1. s \in Seq(Piece) /\ p \in Piece /\ Len(s) \in Nat
  BY LenProperties DEF AllRight, Right
<1>2. /\ Append(s, p) \in Seq(Piece) /\ Len(Append(s, p)) = Len(s) + 1
      /\ \A k \in 1 .. Len(s) : Append(s, p)[k] = s[k]
      /\ Append(s, p)[Len(s) + 1] = p
  BY <1>1, AppendProperties
<1>3. ASSUME NEW k \in 1 .. Len(s) + 1
      PROVE  Right(r, Append(s, p)[k])
  <2>1. CASE k = Len(s) + 1
    BY <1>2, <2>1
  <2>2. CASE k # Len(s) + 1
    BY <1>1, <1>2, <2>2 DEF AllRight
  <2> QED
    BY <2>1, <2>2
<1> QED
  BY <1>1, <1>2, <1>3 DEF AllRight

-----------------------------------------------------------------------------
(* The steps.                                                              *)

\* What both receiving actions do.
LEMMA ReceivedInv ==
  ASSUME BufferInv, NEW n \in Lengths, Len(received) < MaxReceived,
         received' = Append(received, n), buf' = Filled(n, Len(received) + 1)
  PROVE  /\ received' \in Seq(Lengths) /\ Len(received') <= MaxReceived
         /\ buf' \in [1 .. Size -> 0 .. Len(received')]
         /\ \A i \in 1 .. Size : Newest(received', buf'[i], i, Len(received'))
         /\ \A i \in 1 .. Size : i <= n => buf'[i] = Len(received')
         /\ AllRight(received', queue) /\ AllRight(received', reads)
         /\ Len(received') = Len(received) + 1 /\ Len(received) \in Nat /\ n \in Nat
<1>1. /\ received \in Seq(Lengths) /\ AllRight(received, queue) /\ AllRight(received, reads)
  BY DEF BufferInv
<1>2. /\ received' \in Seq(Lengths) /\ Len(received') = Len(received) + 1
      /\ Len(received) \in Nat /\ n \in Nat
  BY <1>1, OneMore
<1>3. Len(received') <= MaxReceived
  BY <1>2, Sizes
<1>4. AllRight(received', queue) /\ AllRight(received', reads)
  BY <1>1, StaysRight DEF AllRight
<1> QED
  BY <1>2, <1>3, <1>4, BufferFilled

LEMMA RejectedInv ==
  ASSUME BufferInv, NEW n \in Lengths, RecvRejected(n)
  PROVE  BufferInv'
<1>1. /\ received' = Append(received, n) /\ buf' = Filled(n, Len(received) + 1)
      /\ Len(received) < MaxReceived /\ running' = FALSE /\ queue' = queue /\ reads' = reads
  BY DEF RecvRejected
<1>2. /\ received' \in Seq(Lengths) /\ Len(received') <= MaxReceived
      /\ buf' \in [1 .. Size -> 0 .. Len(received')]
      /\ \A i \in 1 .. Size : Newest(received', buf'[i], i, Len(received'))
      /\ AllRight(received', queue) /\ AllRight(received', reads)
  BY <1>1, ReceivedInv
<1> QED
  BY <1>1, <1>2 DEF BufferInv

LEMMA PacketInv ==
  ASSUME BufferInv, NEW n \in Lengths, RecvPacket(n)
  PROVE  BufferInv'
<1>1. PICK p : p = [of |-> Len(received) + 1, data |-> buf']
  OBVIOUS
<1>2. /\ received' = Append(received, n) /\ buf' = Filled(n, Len(received) + 1)
      /\ Len(received) < MaxReceived /\ running' = running /\ reads' = reads
      /\ n >= HeaderSize
      /\ queue' = queue \/ queue' = Append(queue, p)
  BY <1>1 DEF RecvPacket, LongEnough
<1>3. /\ received' \in Seq(Lengths) /\ Len(received') <= MaxReceived
      /\ buf' \in [1 .. Size -> 0 .. Len(received')]
      /\ \A i \in 1 .. Size : Newest(received', buf'[i], i, Len(received'))
      /\ \A i \in 1 .. Size : i <= n => buf'[i] = Len(received')
      /\ AllRight(received', queue) /\ AllRight(received', reads)
      /\ Len(received') = Len(received) + 1 /\ Len(received) \in Nat /\ n \in Nat
  BY <1>2, ReceivedInv
<1>4. buf' \in Seq(Nat) /\ Len(buf') = Size
  <2>1. buf' \in [1 .. Size -> Nat]
    BY <1>3
  <2>2. buf' \in Seq(Nat)
    BY <2>1, Sizes, SeqDef
  <2> QED
    BY <2>1, <2>2, Sizes, LenProperties
<1>5. /\ p \in Piece /\ p.of = Len(received') /\ p.data = buf'
  BY <1>1, <1>3, <1>4 DEF Piece
<1>6. Right(received', p)
  <2>1. p.of \in 1 .. Len(received') /\ Len(p.data) <= Size
    BY <1>3, <1>4, <1>5, Sizes
  <2>2. \A i \in 1 .. HeaderSize : p.data[i] = p.of
    <3>1. \A i \in 1 .. HeaderSize : i \in 1 .. Size /\ i <= n
      BY <1>2, <1>3, Sizes
    <3> QED
      BY <1>3, <1>5, <3>1
  <2>3. \A i \in 1 .. Len(p.data) : Newest(received', p.data[i], i, p.of)
    BY <1>3, <1>4, <1>5
  <2> QED
    BY <1>5, <2>1, <2>2, <2>3 DEF Right
<1>7. /\ AllRight(received', queue')
      /\ \A k \in 1 .. Len(queue') : Len(queue'[k].data) = Size
  <2>1. \A k \in 1 .. Len(queue) : Len(queue[k].data) = Size
    BY DEF BufferInv
  <2>2. CASE queue' = queue
    BY <1>3, <2>1, <2>2
  <2>3. CASE queue' = Append(queue, p)
    <3>1. /\ AllRight(received', queue')
          /\ Len(queue') = Len(queue) + 1 /\ Len(queue) \in Nat
          /\ \A k \in 1 .. Len(queue) : queue'[k] = queue[k]
          /\ queue'[Len(queue) + 1] = p
      BY <1>3, <1>6, <2>3, PushRight
    <3>2. ASSUME NEW k \in 1 .. Len(queue')
          PROVE  Len(queue'[k].data) = Size
      <4>1. k \in 1 .. Len(queue) \/ k = Len(queue) + 1
        BY <3>1
      <4> QED
        BY <1>4, <1>5, <2>1, <3>1, <4>1
    <3> QED
      BY <3>1, <3>2
  <2> QED
    BY <1>2, <2>2, <2>3
<1> QED
  BY <1>2, <1>3, <1>7 DEF BufferInv

LEMMA ReadInv ==
  ASSUME BufferInv, NEW m \in ReadSizes, Read(m)
  PROVE  BufferInv'
<1>1. PICK c \in 0 .. Size : c = Smaller(m, Size)
  BY Sizes DEF Smaller
<1>2. PICK h : h = Head(queue)
  OBVIOUS
<1>3. PICK r : r = [of |-> h.of, data |-> SubSeq(h.data, 1, c)]
  OBVIOUS
<1>4. /\ queue # << >> /\ reads' = Append(reads, r) /\ queue' = Tail(queue)
      /\ received' = received /\ buf' = buf /\ running' = running
  BY <1>1, <1>2, <1>3 DEF Read
<1>5. /\ AllRight(received, queue) /\ AllRight(received, reads) /\ queue \in Seq(Piece)
      /\ Len(queue) \in Nat \ {0}
      /\ \A k \in 1 .. Len(queue) : Len(queue[k].data) = Size
  BY <1>4, EmptySeq DEF BufferInv, AllRight
<1>6. Right(received, h) /\ Len(h.data) = Size
  <2>1. h = queue[1] /\ 1 \in 1 .. Len(queue)
    BY <1>2, <1>4, <1>5
  <2> QED
    BY <1>5, <2>1 DEF AllRight
<1>7. /\ AllRight(received, queue')
      /\ \A k \in 1 .. Len(queue') : Len(queue'[k].data) = Size
  <2>1. /\ queue' \in Seq(Piece) /\ Len(queue') = Len(queue) - 1
        /\ \A k \in 1 .. Len(queue') : queue'[k] = queue[k + 1]
    BY <1>4, <1>5, HeadTailProperties
  <2>2. \A k \in 1 .. Len(queue') : k + 1 \in 1 .. Len(queue)
    BY <1>5, <2>1
  <2> QED
    BY <1>5, <2>1, <2>2 DEF AllRight
<1>8. Right(received, r)
  <2>1. /\ h \in Piece /\ h.of \in 1 .. Len(received) /\ h.data \in Seq(Nat)
        /\ \A i \in 1 .. HeaderSize : i <= Len(h.data) => h.data[i] = h.of
        /\ \A i \in 1 .. Len(h.data) : Newest(received, h.data[i], i, h.of)
    BY <1>6 DEF Right, Piece
  <2>2. \A i \in 1 .. c : h.data[i] \in Nat
    BY <1>1, <1>6, <2>1, ElementOfSeq, Sizes
  <2>3. /\ r.data \in Seq(Nat) /\ Len(r.data) = c /\ r.of = h.of
        /\ \A i \in 1 .. c : r.data[i] = h.data[i]
    <3>1. c \in Int /\ 1 \in Int
      BY Sizes
    <3>2. /\ SubSeq(h.data, 1, c) \in Seq(Nat)
          /\ Len(SubSeq(h.data, 1, c)) = IF 1 <= c THEN c - 1 + 1 ELSE 0
          /\ \A i \in 1 .. c - 1 + 1 : SubSeq(h.data, 1, c)[i] = h.data[1 + i - 1]
      BY <2>2, <3>1, SubSeqProperties
    <3> QED
      BY <1>1, <1>3, <3>2, Sizes
  <2>4. r \in Piece /\ Len(r.data) <= Size
    BY <1>1, <1>3, <2>1, <2>3, Sizes DEF Piece
  <2>5. \A i \in 1 .. HeaderSize : i <= Len(r.data) => r.data[i] = r.of
    BY <1>1, <1>6, <2>1, <2>3, Sizes
  <2>6. \A i \in 1 .. Len(r.data) : Newest(received, r.data[i], i, r.of)
    BY <1>1, <1>6, <2>1, <2>3, Sizes
  <2> QED
    BY <2>1, <2>3, <2>4, <2>5, <2>6 DEF Right
<1>9. AllRight(received, reads')
  BY <1>4, <1>5, <1>8, PushRight
<1> QED
  BY <1>4, <1>7, <1>9 DEF BufferInv

-----------------------------------------------------------------------------
(* The results.                                                            *)

LEMMA InitInv == Init => BufferInv
<1> SUFFICES ASSUME Init PROVE BufferInv
  OBVIOUS
<1>1. /\ << >> \in Seq(Lengths) /\ << >> \in Seq(Piece) /\ Len(<< >>) = 0
  BY EmptySeq
<1>2. AllRight(received, << >>)
  BY <1>1 DEF AllRight
<1>3. \A i \in 1 .. Size : Newest(received, buf[i], i, Len(received))
  BY <1>1 DEF Init, Newest
<1> QED
  BY <1>1, <1>2, <1>3, Sizes DEF Init, BufferInv

LEMMA StepInv == BufferInv /\ [Next]_vars => BufferInv'
<1> SUFFICES ASSUME BufferInv, [Next]_vars PROVE BufferInv'
  OBVIOUS
<1>1. CASE UNCHANGED vars
  BY <1>1 DEF vars, BufferInv, AllRight, Right, Newest
<1> QED
  BY <1>1, RejectedInv, PacketInv, ReadInv DEF Next

\* The bytes in the buffer are the newest of their place, and what was handed
\* over of it is right.
THEOREM BufferInvHolds == Spec => []BufferInv
BY InitInv, StepInv, PTL DEF Spec

LEMMA HandedIsRight ==
  ASSUME BufferInv, NEW p \in Handed
  PROVE  Right(received, p) /\ DOMAIN p.data = 1 .. Len(p.data)
<1>1. Right(received, p)
  BY LenProperties DEF Handed, BufferInv, AllRight
<1> QED
  BY <1>1, LenProperties DEF Right, Piece

\* The header that is handled is that of the datagram that was received.
THEOREM HeadersAreOwn == Spec => []HeaderIsItsOwn
<1>1. BufferInv => HeaderIsItsOwn
  BY HandedIsRight DEF HeaderIsItsOwn, Right
<1> QED
  BY <1>1, BufferInvHolds, PTL

\* Every byte a reader gets is the one that reached its place last, whatever
\* the lengths of the datagrams were and however little a read takes.
THEOREM BytesAreNewest == Spec => []BytesAreTheNewest
<1>1. BufferInv => BytesAreTheNewest
  <2> SUFFICES ASSUME BufferInv, NEW p \in Handed, NEW i \in DOMAIN p.data
               PROVE  IsNewest(p.data[i], i, p.of)
    BY DEF BytesAreTheNewest
  <2>1. Newest(received, p.data[i], i, p.of)
    BY HandedIsRight DEF Right
  <2> QED
    BY <2>1 DEF Newest, IsNewest
<1> QED
  BY <1>1, BufferInvHolds, PTL
=============================================================================
