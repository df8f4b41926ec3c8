----------------------------- MODULE UtpOneWay -----------------------------
(***************************************************************************)
(* A connection used the way examples/client.rs and examples/server.rs use *)
(* it: the client connects and, once connected, writes; the server only    *)
(* receives.  The properties of that use, the abstract stream it            *)
(* implements, and the inductive invariant behind both.                    *)
(***************************************************************************)
EXTENDS UtpConnection

ASSUME OneWayAssumption ==
  /\ Connectors = {Client} /\ Writers = {Client}
  /\ WriteStates = {"Connected"}
  /\ FinSenders \subseteq {Client}
  /\ MaxChunks + 2 < U16       \* no sequence number is used twice

\* Everything the server's connection has taken in order, whether or not the
\* channel has it yet.
Accepted == delivered[Server] \o incoming_buffer[Server]
Stored == {q.data : q \in out_of_order[Server]}
Held(c) == c <= Len(Accepted) \/ c \in Stored

-----------------------------------------------------------------------------
(* Safety.                                                                 *)

\* The application of the server receives exactly a prefix of what the client
\* wrote, in order and without repetition, whatever the network does to the
\* datagrams and wherever the receive loop stops (handle_packet, Data).
DeliveredInOrder ==
  /\ Len(delivered[Server]) <= written[Client]
  /\ \A i \in 1 .. Len(delivered[Server]) : delivered[Server][i] = i

\* A chunk leaves the client's window only when the server holds it: neither
\* the counted acks nor the bits of a selective ack drop one too many.
NothingLost ==
  \A c \in 1 .. written[Client] :
    Held(c) \/ \E q \in sent_window[Client] : q.data = c

\* No ack on its way to the client claims a chunk the server does not hold,
\* in its number or in its selective-ack bits (chunk c travels as c + 1).
AckTruthful ==
  \A p \in net[Client] : p.type = "Ack" =>
    /\ \A c \in 1 .. p.ack_nr - 1 : Held(c)
    /\ \A i \in p.sack : Held(p.ack_nr + i)

\* The drain of out_of_order never stops early: what is stored lies beyond a
\* chunk that is still missing.
StoredBeyondGap ==
  \A q \in out_of_order[Server] : q.seq_nr > last_acked[Server] + 1

\* The client believes itself connected only when the server has accepted.
HandshakeAgreement ==
  state[Client] = "Connected" => state[Server] \in {"Connected", "Closed"}

\* The server's side of the debug build never overflows, so its receive task
\* never panics as long as the sequence numbers have not wrapped.
ServerNeverPanics == receiving[Server] # "panicked"

\* Data is dropped as old only when the server does hold its chunk (the last
\* branch of handle_packet's Data arm).
IgnoredDataIsHeld ==
  [][\A p \in net[Server] : RecvDataOld(Server, p) => Held(p.data)]_vars

\* While nothing is duplicated and every gap fits one word of selective ack,
\* neither receive loop of the release build ends: no reply is undecodable
\* and no lookup of a packet to send again fails.
ReceiveLoopsSurvive == \A e \in Endpoint : receiving[e] = "running"

\* A connection that was reset or closed does not come back to life, whatever
\* late datagrams of its past arrive.
AbortIsFinal ==
  [][\A e \in Endpoint :
       /\ state[e] = "ResetReceived" => state'[e] = "ResetReceived"
       /\ state[e] = "Closed" => state'[e] \in {"Closed", "ResetReceived"}]_vars

-----------------------------------------------------------------------------
(* Liveness.                                                               *)

\* A datagram that is sent again and again arrives in the end, and the
\* application keeps calling send_packets, which sends the window again: the
\* library has no timer of its own.
ReceiveData(n) ==
  \E p \in net[Server] : p.type = "Data" /\ p.seq_nr = n /\ Receive(Server, p)
LiveSpec ==
  /\ Spec
  /\ WF_vars(Write(Client, 0))
  /\ \A n \in SeqNr : SF_vars(ReceiveData(n))

\* Every chunk the client writes reaches the server's application.
EveryChunkArrives ==
  \A c \in 1 .. MaxChunks :
    written[Client] >= c ~> Len(delivered[Server]) >= c

-----------------------------------------------------------------------------
(* The abstract stream.                                                    *)

Stream == INSTANCE OrderedStream
            WITH written <- written[Client],
                 unacked <- {q.data : q \in sent_window[Client]} \ {NoData},
                 stored <- Stored,
                 received <- Accepted

\* Every step of the connection is a step of the ordered stream or none.
ImplementsStream == Stream!Spec

-----------------------------------------------------------------------------
(* The inductive invariant.                                                *)

\* A data packet of the client: its number follows from its chunk.
IsChunk(q) ==
  q.type = "Data" /\ q.data \in 1 .. written[Client] /\ q.seq_nr = q.data + 1

\* Nothing happens before the client connects, and it counts its chunks.
ClientPhase ==
  /\ state[Client] \in {"NoPeer", "SynSent", "Connected", "ResetReceived"}
  /\ connecting[Client] => state[Client] = "NoPeer"
  /\ state[Client] = "NoPeer" =>
       state[Server] = "NoPeer" /\ \A e \in Endpoint : net[e] = {}
  /\ state[Client] \in {"NoPeer", "SynSent"} =>
       written[Client] = 0 /\ seq_nr[Client] = 1
  /\ state[Client] = "Connected" => seq_nr[Client] = written[Client] + 2
  /\ \A q \in sent_window[Client] : q = SynPacket \/ IsChunk(q)

\* The server counts what it has accepted; it never is a sender.
ServerPhase ==
  /\ state[Server] \in {"NoPeer", "New", "Connected", "Closed"}
  /\ ~ connecting[Server]
  /\ Len(Accepted) <= written[Client]
  /\ \A i \in 1 .. Len(Accepted) : Accepted[i] = i
  /\ seq_nr[Server] <= Len(Accepted) + 1
  /\ \A q \in out_of_order[Server] : IsChunk(q)
  /\ IF state[Server] \in {"NoPeer", "New"}
     THEN Accepted = << >> /\ out_of_order[Server] = {} /\ net[Client] = {}
     ELSE last_acked[Server] = Len(Accepted) + 1

\* What the network carries each way.
Datagrams ==
  /\ \A p \in net[Server] :
       p.type = "Fin" \/ (p.type = "Syn" /\ p.seq_nr = 1) \/ IsChunk(p)
  /\ \A p \in net[Client] : p.type \in {"State", "Reset", "Ack"}

OneWayInv ==
  /\ TypeOK
  /\ ClientPhase
  /\ ServerPhase
  /\ Datagrams
  /\ NothingLost
  /\ AckTruthful
  /\ StoredBeyondGap
  /\ HandshakeAgreement
  /\ ServerNeverPanics
=============================================================================
