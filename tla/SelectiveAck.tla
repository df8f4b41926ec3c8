---------------------------- MODULE SelectiveAck ----------------------------
(***************************************************************************)
(* One selective ack, from the numbers stored at the receiver to the       *)
(* numbers the sender takes out of its window or sends again: the loop of  *)
(* build_selective_ack, the length byte, the receive buffer, BitIterator   *)
(* and the loop of get_lost_seq_nr.  A byte is the set of its bits that    *)
(* are one, bit 0 the least significant.                                   *)
(*                                                                         *)
(* UtpConnection takes this whole path for one set of bits, with the       *)
(* definitions of SackNumbers; SackExchange is this path in terms of them, *)
(* and is implemented here.                                                *)
(***************************************************************************)
EXTENDS Naturals, Sequences, FiniteSetsExt

CONSTANTS
  U8BITS,           \* bits of a byte (8 in the code)
  WordBytes,        \* unit of the length of a selective ack (4)
  LenMod,           \* values of the length byte (256)
  Room,             \* bytes of selective ack a receive buffer holds (4)
  U16               \* values of a sequence number (65536)

SeqNr == 0 .. U16 - 1
NoPacket == U16

ASSUME SizeAssumption ==
  /\ {U8BITS, WordBytes, LenMod, Room, U16} \subseteq Nat \ {0}
  /\ LenMod % WordBytes = 0
\* The numbers do not go once around within one receive buffer.
ASSUME RoomAssumption == Room * U8BITS <= U16

VARIABLES
  last_acked, out_of_order,   \* the receiver's position and stored numbers
  newest,       \* the largest number in the sender's window, or NoPacket
  pc,
  todo,         \* stored numbers the build loop has not reached
  sack,         \* the bytes
  next_index,   \* of BitIterator
  ack_packets, result   \* what get_lost_seq_nr collects

peers == <<last_acked, out_of_order, newest>>
vars == <<peers, pc, todo, sack, next_index, ack_packets, result>>

Init ==
  /\ last_acked \in SeqNr /\ out_of_order \in SUBSET SeqNr
  /\ newest \in SeqNr \cup {NoPacket}
  /\ pc = "build" /\ todo = out_of_order /\ sack = << >>
  /\ next_index = 0 /\ ack_packets = {} /\ result = {}

-----------------------------------------------------------------------------
(* The receiver.                                                           *)

\* sack[byte] |= 1 << bit, on a vector that is resized first if need be.
WithBitFaulty(byte, bit) ==
  [b \in 1 .. Max({Len(sack), byte + 1}) |->
     IF b = byte + 1 THEN {bit} ELSE IF b <= Len(sack) THEN sack[b] ELSE {}]
WithBit(byte, bit) ==
  [b \in 1 .. Max({Len(sack), byte + 1}) |->
     (IF b <= Len(sack) THEN sack[b] ELSE {}) \cup (IF b = byte + 1 THEN {bit} ELSE {})]

\* The stored numbers come in ascending order; one at or behind last_acked is
\* passed over.
BuildNext ==
  /\ pc = "build" /\ todo # {}
  /\ LET n == Min(todo)
         diff == n - last_acked - 1
     IN  /\ todo' = todo \ {n}
         /\ sack' = IF n > last_acked
                    THEN WithBit(diff \div U8BITS, diff % U8BITS) ELSE sack
  /\ UNCHANGED <<peers, pc, next_index, ack_packets, result>>

Full(n) == n % WordBytes = 0
EndBuild ==
  /\ pc = "build" /\ todo = {}
  /\ pc' = "pad"
  /\ UNCHANGED <<peers, todo, sack, next_index, ack_packets, result>>

Pad ==
  /\ pc = "pad"
  /\ IF Full(Len(sack)) THEN pc' = "built" /\ UNCHANGED sack
                        ELSE sack' = Append(sack, {}) /\ UNCHANGED pc
  /\ UNCHANGED <<peers, todo, next_index, ack_packets, result>>

-----------------------------------------------------------------------------
(* The sender.                                                             *)

\* The datagram announces its length in one byte and is cut off at the end of
\* the buffer; check_extensions accepts it if what is announced is there.
Announced == Len(sack) % LenMod
Arrives == Announced <= Min({Len(sack), Room})
Receive ==
  /\ pc = "built" /\ sack # << >>
  /\ pc' = IF Announced # 0 /\ Arrives
           THEN "read" ELSE "rejected"
  /\ sack' = SubSeq(sack, 1, Announced)
  /\ UNCHANGED <<peers, todo, next_index, ack_packets, result>>

\* BitIterator::next.
end_index == Len(sack) * U8BITS
BitFaulty(i) == U8BITS - 1 - (i % U8BITS) \in sack[i \div U8BITS + 1]
Bit(i) == i % U8BITS \in sack[i \div U8BITS + 1]

Number == last_acked + 1 + next_index

\* Only numbers below the newest of the window are judged.  In the release
\* build a number past the end of u16 wraps.
ReadBit ==
  /\ pc = "read" /\ newest # NoPacket
  /\ next_index # end_index
  /\ LET n == Number % U16
     IN  /\ ack_packets' = ack_packets \cup {m \in {n} : m < newest /\ Bit(next_index)}
         /\ result' = result \cup {m \in {n} : m < newest /\ ~ Bit(next_index)}
  /\ next_index' = next_index + 1
  /\ UNCHANGED <<peers, pc, todo, sack>>

\* The debug build panics at the first bit whose number is no u16, even if it
\* is a padding bit.
ReadPanic ==
  /\ pc = "read" /\ newest # NoPacket
  /\ next_index # end_index
  /\ Number = U16
  /\ pc' = "panic"
  /\ UNCHANGED <<peers, todo, sack, next_index, ack_packets, result>>

EndRead ==
  /\ pc = "read"
  /\ newest = NoPacket \/ next_index = end_index
  /\ pc' = "done"
  /\ UNCHANGED <<peers, todo, sack, next_index, ack_packets, result>>

Next ==
  BuildNext \/ EndBuild \/ Pad \/ Receive \/ ReadBit \/ ReadPanic \/ EndRead
Spec == Init /\ [][Next]_vars

-----------------------------------------------------------------------------
(* Properties.                                                             *)

Ahead == {n \in out_of_order : n > last_acked}

\* The bits of the selective ack are the stored numbers ahead of last_acked,
\* each at its distance, and its length is what set_sack asserts: whole words,
\* no more of them than the farthest number needs, none without a number.
BitsNameTheStored ==
  pc = "built" =>
    /\ {i \in 0 .. end_index - 1 : Bit(i)} = {n - last_acked - 1 : n \in Ahead}
    /\ Len(sack) % WordBytes = 0
    /\ \A k \in 1 .. Len(sack) :
         \E n \in Ahead :
           n - last_acked > ((k - 1) \div WordBytes) * WordBytes * U8BITS

\* Whatever length was announced, the sender takes exactly the stored numbers
\* out of its window that lie within that length and below its newest packet.
Judged == {n \in last_acked + 1 .. last_acked + end_index : n < newest}
AcksAreTheStored ==
  pc = "done" /\ newest # NoPacket => ack_packets = Ahead \cap Judged

\* A number that is sent again is not stored ahead, and none that is missing
\* is left out; numbers past the end of u16 come out at its start.
LostAreTheMissing ==
  pc = "done" /\ newest # NoPacket =>
    /\ result \cap Ahead = {}
    /\ (Judged \cap SeqNr) \ Ahead \subseteq result
    /\ \A n \in result : n \in Judged \/ n <= last_acked

\* The debug build panics only within one buffer of the end of u16, and never
\* before it has judged every number the receiver stored.
PanicsAtTheEndOnly ==
  pc = "panic" =>
    /\ last_acked + Room * U8BITS >= U16
    /\ \A n \in Ahead : n < newest => n \in ack_packets

-----------------------------------------------------------------------------
(* The abstract exchange.                                                  *)

Exchange == INSTANCE SackExchange
              WITH SackWord <- WordBytes * U8BITS,
                   SackLenMod <- LenMod \div WordBytes,
                   stage <- IF pc \in {"build", "pad", "built", "read"} THEN "sent" ELSE pc,
                   acked <- IF pc = "done" THEN ack_packets ELSE {},
                   lost <- IF pc = "done" THEN result ELSE {}

\* With a buffer for one word the bytes and loops have the effect that
\* UtpConnection gives a selective ack in one step: it is rejected, judged or
\* overflows under the same conditions, and the same numbers leave the window
\* or are sent again (build_selective_ack, set_sack, get_lost_seq_nr).
ImplementsExchange == Exchange!Spec
=============================================================================
