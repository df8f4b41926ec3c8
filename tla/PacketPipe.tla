----------------------------- MODULE PacketPipe -----------------------------
(***************************************************************************)
(* What a stream promises between the handler of packets and the reader:   *)
(* the packets that were handled come out one by one, in order, and none   *)
(* is kept for ever.  There are no locks, no channel and no tasks.         *)
(***************************************************************************)
EXTENDS Naturals, Sequences

CONSTANT MaxBurst     \* packets one pass of the receive loop may hand over

VARIABLES
  sent,    \* packets handed over, oldest first
  got      \* packets the reader has

vars == <<sent, got>>

Init == sent = << >> /\ got = << >>

Put(k) ==
  /\ sent' = sent \o [i \in 1 .. k |-> Len(sent) + i]
  /\ UNCHANGED got

Get ==
  /\ Len(got) < Len(sent)
  /\ got' = Append(got, sent[Len(got) + 1])
  /\ UNCHANGED sent

Next == Get \/ \E k \in 0 .. MaxBurst : Put(k)

Spec == Init /\ [][Next]_vars
Fairness == WF_vars(Get)
=============================================================================
