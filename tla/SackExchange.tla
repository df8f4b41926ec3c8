---------------------------- MODULE SackExchange ----------------------------
(***************************************************************************)
(* One selective ack as UtpConnection sees it: it is understood or not,    *)
(* and if it is, the sender learns at once which of its numbers the        *)
(* receiver has stored and which are missing.  There are no bytes, no      *)
(* padding, no length byte and no loops.                                   *)
(***************************************************************************)
EXTENDS SackNumbers

VARIABLES
  last_acked, out_of_order,   \* the receiver's position and stored numbers
  newest,       \* the largest number in the sender's window, or NoPacket
  stage,        \* "sent", then how it ended
  acked, lost   \* what the sender takes out of its window, and sends again

peers == <<last_acked, out_of_order, newest>>
vars == <<peers, stage, acked, lost>>

NoPacket == U16
Bits == BitsOf(last_acked, out_of_order)
BelowNewest(S) == {n \in S : n < newest}

Init ==
  /\ last_acked \in SeqNr /\ out_of_order \in SUBSET SeqNr
  /\ newest \in SeqNr \cup {NoPacket}
  /\ stage = "sent" /\ acked = {} /\ lost = {}

Reject ==
  /\ stage = "sent" /\ ~ Decodable(Bits)
  /\ stage' = "rejected"
  /\ UNCHANGED <<peers, acked, lost>>

Understood == stage = "sent" /\ Bits # {} /\ Decodable(Bits)

Judge ==
  /\ Understood /\ newest # NoPacket
  /\ acked' = BelowNewest(Acked(last_acked, Bits))
  /\ lost' = BelowNewest(Missing(last_acked, Bits))
  /\ stage' = "done"
  /\ UNCHANGED peers

\* The sender's window is empty.
NothingToJudge ==
  /\ Understood /\ newest = NoPacket
  /\ stage' = "done"
  /\ UNCHANGED <<peers, acked, lost>>

\* Only a word that runs past the end of u16 makes the debug build panic.
Overflow ==
  /\ Understood /\ newest # NoPacket
  /\ last_acked + SackWord >= U16
  /\ stage' = "panic"
  /\ UNCHANGED <<peers, acked, lost>>

Next == Reject \/ Judge \/ NothingToJudge \/ Overflow
Spec == Init /\ [][Next]_vars
=============================================================================
