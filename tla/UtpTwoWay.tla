----------------------------- MODULE UtpTwoWay -----------------------------
(***************************************************************************)
(* A connection on which both endpoints write.  Each endpoint keeps one    *)
(* last_acked for two jobs, the last packet of its own that was            *)
(* acknowledged and the last packet of the peer it has taken, so much less *)
(* can be promised than for one direction.                                 *)
(***************************************************************************)
EXTENDS UtpConnection

\* No chunk reaches an application twice, although a retransmitted packet
\* may arrive after last_acked was moved by an ack of the other direction.
DeliverOnce ==
  \A e \in Endpoint : \A i, j \in 1 .. Len(delivered[e]) :
    i < j => delivered[e][i] # delivered[e][j]

\* Wherever a data packet of e is kept or on its way, its number stands for
\* one chunk: seq_nr, which also counts what e receives, never goes back.
DataOf(e) ==
  {p \in net[Other(e)] \cup sent_window[e] \cup out_of_order[Other(e)] : p.type = "Data"}
SeqIdentifiesChunk ==
  \A e \in Endpoint : \A p, q \in DataOf(e) : p.seq_nr = q.seq_nr => p.data = q.data

-----------------------------------------------------------------------------
(* The abstract stream, one for each direction.                            *)

FromClient == INSTANCE SkippingStream
                WITH written <- written[Client], received <- delivered[Server]
FromServer == INSTANCE SkippingStream
                WITH written <- written[Server], received <- delivered[Client]

\* What reaches an application was written by the other one, and comes in the
\* order of writing.  Chunks may be missing for good: last_acked, which also
\* follows the acks for the other direction, may pass a chunk that was not
\* taken.  But none comes late, out of out_of_order or the network, after a
\* chunk that was written after it (handle_packet, Data).
ImplementsSkippingStream == FromClient!Spec /\ FromServer!Spec
=============================================================================
