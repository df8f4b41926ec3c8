---------------------------- MODULE SackNumbers ----------------------------
(***************************************************************************)
(* What the bits of a selective ack mean: bit i of an ack with number a    *)
(* stands for sequence number a + 1 + i.  UtpConnection computes with      *)
(* these definitions; SelectiveAck has the loops that arrive at them.      *)
(*                                                                         *)
(* A definition named ...Faulty is its neighbour with a plausible bug.     *)
(***************************************************************************)
EXTENDS Naturals

CONSTANTS
  U16,              \* number of values of a u16 (65536 in the code)
  SackWord,         \* bits of the smallest selective ack (32 in the code)
  SackLenMod        \* words after which the length byte of a SACK wraps (64)

SeqNr == 0 .. U16 - 1

SackNrFaulty(a, i) == (a + i) % U16
SackNr(a, i) == (a + 1 + i) % U16

BitsOfFaulty(a, S) == {n - a : n \in {m \in S : m > a}}
\* build_selective_ack: one bit per stored number of S that is ahead of a.
BitsOf(a, S) == {n - a - 1 : n \in {m \in S : m > a}}

\* The receive buffer has room for a selective ack of one word; a longer one is
\* cut off and fails to parse, unless its length byte has wrapped to one word:
\* the words before that of the last bit are a multiple of what the byte counts.
Decodable(bits) ==
  bits = {} \/ \E i \in bits : /\ \A j \in bits : j <= i
                               /\ (i \div SackWord) % SackLenMod = 0

\* get_lost_seq_nr walks the bits of one word.
WordBits == 0 .. SackWord - 1
Acked(a, bits) == {SackNr(a, i) : i \in bits \cap WordBits}
Missing(a, bits) == {SackNr(a, i) : i \in WordBits \ bits}
=============================================================================
