----------------------------- MODULE RecvBuffer -----------------------------
(***************************************************************************)
(* The one buffer of the receive loop.  Every datagram is received into it *)
(* over what the datagrams before left there; the packet that is handled   *)
(* and handed to the reader is the whole buffer, header included.          *)
(*                                                                         *)
(* A byte is represented by the datagram it comes from: position i of the  *)
(* buffer holds byte i of that datagram, and a zero belongs to datagram 0. *)
(***************************************************************************)
EXTENDS Naturals, Sequences

CONSTANTS
  HeaderSize,   \* 20 in the code
  BUF_SIZE,     \* payload bytes of a full packet (6)
  Lengths,      \* lengths of the datagrams that arrive, data and others
  ReadSizes,    \* sizes of the buffers given to read (25 in the example)
  MaxReceived, MaxQueued   \* bounds on the datagrams, in all and queued

Size == HeaderSize + BUF_SIZE
ASSUME BufferAssumption ==
  /\ HeaderSize \in Nat \ {0} /\ BUF_SIZE \in Nat \ {0}
  /\ Lengths \subseteq Nat /\ ReadSizes \subseteq Nat
  /\ {MaxReceived, MaxQueued} \subseteq Nat

VARIABLES
  received,   \* lengths of the datagrams received so far, oldest first
  buf,        \* where each byte of the buffer comes from
  running,    \* the loop has not ended
  queue,      \* packets handed to the reader and not read: [of, data]
  reads       \* what the reads returned

vars == <<received, buf, running, queue, reads>>

Init ==
  /\ received = << >> /\ running = TRUE
  /\ buf = [i \in 1 .. Size |-> 0]
  /\ queue = << >> /\ reads = << >>

-----------------------------------------------------------------------------
Smaller(a, b) == IF a < b THEN a ELSE b

\* recv_from fills the buffer from the front; what does not fit is cut off.
FilledFaulty(n, d) == [i \in 1 .. Size |-> IF i <= Smaller(n, HeaderSize) THEN d ELSE buf[i]]
Filled(n, d) == [i \in 1 .. Size |-> IF i <= n THEN d ELSE buf[i]]

\* The first parse looks only at the bytes received.  Its other conditions are
\* those of PacketExtensions, which also shows that the second parse, of the
\* whole buffer, repeats them: both outcomes are possible.
LongEnoughFaulty(n) == n > 0
LongEnough(n) == n >= HeaderSize
RecvRejected(n) ==
  /\ running /\ Len(received) < MaxReceived
  /\ received' = Append(received, n)
  /\ buf' = Filled(n, Len(received) + 1)
  /\ running' = FALSE
  /\ UNCHANGED <<queue, reads>>

\* The packet is lost by `drop`, ignored or answered, or it is handed over.
RecvPacket(n) ==
  /\ running /\ Len(received) < MaxReceived
  /\ LongEnough(n)
  /\ received' = Append(received, n)
  /\ buf' = Filled(n, Len(received) + 1)
  /\ \/ UNCHANGED queue
     \/ /\ Len(queue) < MaxQueued
        /\ queue' = Append(queue, [of |-> Len(received) + 1, data |-> buf'])
  /\ UNCHANGED <<running, reads>>

\* poll_read copies from the front of the packet; the rest of it is dropped.
Read(m) ==
  /\ queue # << >>
  /\ reads' = Append(reads, [of |-> Head(queue).of,
                             data |-> SubSeq(Head(queue).data, 1, Smaller(m, Size))])
  /\ queue' = Tail(queue)
  /\ UNCHANGED <<received, buf, running>>

Next ==
  \/ \E n \in Lengths : RecvRejected(n) \/ RecvPacket(n)
  \/ \E m \in ReadSizes : Read(m)

Spec == Init /\ [][Next]_vars

-----------------------------------------------------------------------------
(* Properties.                                                             *)

Handed ==
  {queue[k] : k \in DOMAIN queue} \cup {reads[k] : k \in DOMAIN reads}

\* Every variable stays in its domain.
TypeOK ==
  /\ received \in Seq(Lengths) /\ Len(received) <= MaxReceived
  /\ buf \in [1 .. Size -> 0 .. Len(received)]
  /\ running \in BOOLEAN
  /\ \A p \in Handed : p.of \in 1 .. Len(received) /\ Len(p.data) <= Size

\* The header that is handled belongs to the datagram that was received,
\* although it is read from the whole buffer.
HeaderIsItsOwn ==
  \A p \in Handed : \A i \in 1 .. HeaderSize : i <= Len(p.data) => p.data[i] = p.of

\* Each byte handed to the reader is the one at its place in the newest
\* datagram that reached so far: all of the packet's own bytes are there, and
\* the rest are those of earlier, longer datagrams.
IsNewest(e, i, d) ==
  /\ e # 0 => e <= d /\ received[e] >= i
  /\ \A later \in e + 1 .. d : received[later] < i
BytesAreTheNewest ==
  \A p \in Handed : \A i \in DOMAIN p.data : IsNewest(p.data[i], i, p.of)
=============================================================================
