-------------------------- MODULE UtpOneWayProofs --------------------------
(***************************************************************************)
(* Proofs about a connection used in one direction, for every width of the *)
(* numbers, every bound on the chunks, both build profiles and every kind  *)
(* of network: the inductive invariant of UtpOneWay and what follows from  *)
(* it, the receive loops, and the implementation of the ordered stream.    *)
(***************************************************************************)
EXTENDS UtpOneWay, UtpConnectionProofs, WellFoundedInduction

-----------------------------------------------------------------------------
(* Consequences of the invariant.                                          *)

LEMMA Domains ==
  ASSUME OneWayInv
  PROVE  /\ TypeOK
         /\ state \in [Endpoint -> SocketState \cup {"NoPeer"}]
         /\ seq_nr \in [Endpoint -> SeqNr] /\ last_acked \in [Endpoint -> SeqNr]
         /\ sent_window \in [Endpoint -> SUBSET Packet]
         /\ out_of_order \in [Endpoint -> SUBSET Packet]
         /\ incoming_buffer \in [Endpoint -> Seq(0 .. MaxChunks)]
         /\ delivered \in [Endpoint -> Seq(0 .. MaxChunks)]
         /\ written \in [Endpoint -> 0 .. MaxChunks]
         /\ connecting \in [Endpoint -> BOOLEAN]
         /\ receiving \in [Endpoint -> {"running", "stopped", "panicked"}]
         /\ net \in [Endpoint -> SUBSET Packet]
         /\ written[Client] \in Nat /\ seq_nr[Server] \in Nat
BY SMTT(30), Constants DEF OneWayInv, TypeOK, SeqNr

LEMMA AcceptedType ==
  ASSUME TypeOK
  PROVE  /\ delivered[Server] \in Seq(0 .. MaxChunks)
         /\ incoming_buffer[Server] \in Seq(0 .. MaxChunks)
         /\ Accepted \in Seq(0 .. MaxChunks)
         /\ Len(Accepted) \in Nat
<1>1. /\ delivered[Server] \in Seq(0 .. MaxChunks)
      /\ incoming_buffer[Server] \in Seq(0 .. MaxChunks)
  BY Constants DEF TypeOK
<1>2. Accepted \in Seq(0 .. MaxChunks)
  BY <1>1, ConcatProperties DEF Accepted
<1> QED
  BY <1>1, <1>2, LenProperties

\* While the numbers do not wrap, no addition of the server overflows.
LEMMA ServerNumbers ==
  ASSUME OneWayInv
  PROVE  /\ written[Client] \in Nat /\ written[Client] <= MaxChunks
         /\ Len(Accepted) \in Nat /\ Len(Accepted) <= written[Client]
         /\ seq_nr[Server] \in Nat /\ seq_nr[Server] + 1 < U16
         /\ Inc(seq_nr[Server]) = seq_nr[Server] + 1
         /\ Established(Server) =>
              /\ last_acked[Server] = Len(Accepted) + 1
              /\ last_acked[Server] + 1 < U16
              /\ Inc(last_acked[Server]) = last_acked[Server] + 1
<1>1. written[Client] \in Nat /\ written[Client] <= MaxChunks /\ seq_nr[Server] \in Nat
  BY Constants DEF OneWayInv, TypeOK, SeqNr
<1>2. Len(Accepted) \in Nat /\ Len(Accepted) <= written[Client]
      /\ seq_nr[Server] <= Len(Accepted) + 1
  BY AcceptedType DEF OneWayInv, ServerPhase
<1>3. Established(Server) => last_acked[Server] = Len(Accepted) + 1
  BY DEF Established, OneWayInv, ServerPhase
<1>4. U16 \in Nat /\ MaxChunks \in Nat /\ MaxChunks + 2 < U16
  BY Constants, OneWayAssumption
<1>5. seq_nr[Server] + 1 < U16 /\ Inc(seq_nr[Server]) = seq_nr[Server] + 1
  <2>1. seq_nr[Server] + 1 < U16
    BY <1>1, <1>2, <1>4
  <2> QED
    BY <1>1, <2>1, IncNoWrap
<1>6. ASSUME Established(Server)
      PROVE  /\ last_acked[Server] + 1 < U16
             /\ Inc(last_acked[Server]) = last_acked[Server] + 1
  <2>1. last_acked[Server] \in Nat /\ last_acked[Server] + 1 < U16
    BY <1>1, <1>2, <1>3, <1>4, <1>6
  <2> QED
    BY <2>1, IncNoWrap
<1> QED
  BY <1>1, <1>2, <1>3, <1>5, <1>6

LEMMA ChunkNumber ==
  ASSUME OneWayInv, NEW q, IsChunk(q)
  PROVE  /\ q.type = "Data" /\ q.data \in 1 .. written[Client]
         /\ q.seq_nr = q.data + 1 /\ q.seq_nr + 1 < U16 /\ q.seq_nr \in Nat
         /\ q.data \in Nat /\ q.data # 0
BY ServerNumbers, Constants, OneWayAssumption DEF IsChunk

-----------------------------------------------------------------------------
(* A step of the client, or of the network, that leaves the server alone.  *)

LEMMA ClientSide ==
  ASSUME OneWayInv, TypeOK', ClientPhase', NothingLost', HandshakeAgreement',
         state'[Server] = state[Server], connecting'[Server] = connecting[Server],
         last_acked'[Server] = last_acked[Server], seq_nr'[Server] = seq_nr[Server],
         out_of_order'[Server] = out_of_order[Server],
         delivered'[Server] = delivered[Server],
         incoming_buffer'[Server] = incoming_buffer[Server],
         receiving'[Server] \in {receiving[Server], "stopped"},
         written'[Client] >= written[Client],
         net'[Client] \subseteq net[Client],
         \A p \in net'[Server] :
           p \in net[Server] \/ p.type = "Fin" \/ p = SynPacket \/ IsChunk(p)'
  PROVE  OneWayInv'
<1>1. Accepted' = Accepted /\ Stored' = Stored
  BY DEF Accepted, Stored
<1>2. \A c : Held(c)' <=> Held(c)
  BY <1>1 DEF Held
<1>3. \A q : IsChunk(q) => IsChunk(q)'
  <2>1. written[Client] \in Nat /\ written'[Client] \in Nat
    BY Constants DEF OneWayInv, TypeOK
  <2> QED
    BY <2>1 DEF IsChunk
<1>4. ServerPhase'
  <2>1. Len(Accepted) <= written'[Client]
    <3>1. written[Client] \in Nat /\ written'[Client] \in Nat /\ Len(Accepted) \in Nat
      BY Constants, AcceptedType DEF OneWayInv, TypeOK
    <3> QED
      BY <3>1 DEF OneWayInv, ServerPhase
  <2> QED
    BY <1>1, <1>3, <2>1 DEF OneWayInv, ServerPhase
<1>5. Datagrams'
  <2>1. SynPacket.type = "Syn" /\ SynPacket.seq_nr = 1
    BY DEF SynPacket, NewPacket
  <2>2. \A p \in net'[Server] :
          p.type = "Fin" \/ (p.type = "Syn" /\ p.seq_nr = 1) \/ IsChunk(p)'
    BY <1>3, <2>1 DEF OneWayInv, Datagrams
  <2> QED
    BY <2>2 DEF OneWayInv, Datagrams
<1>6. AckTruthful' /\ StoredBeyondGap' /\ ServerNeverPanics'
  BY <1>2 DEF OneWayInv, AckTruthful, StoredBeyondGap, ServerNeverPanics
<1> QED
  BY <1>4, <1>5, <1>6 DEF OneWayInv

\* A packet the server holds may leave the client's window.
LEMMA WindowShrinks ==
  ASSUME OneWayInv, NEW W, W \subseteq sent_window[Client],
         \A q \in sent_window[Client] \ W : IsChunk(q) => Held(q.data),
         sent_window'[Client] = W, written' = written,
         delivered'[Server] = delivered[Server],
         incoming_buffer'[Server] = incoming_buffer[Server],
         out_of_order'[Server] = out_of_order[Server]
  PROVE  NothingLost'
<1>1. \A c : Held(c)' <=> Held(c)
  BY DEF Held, Accepted, Stored
<1>2. SUFFICES ASSUME NEW c \in 1 .. written[Client]
               PROVE  Held(c) \/ \E q \in W : q.data = c
  BY <1>1 DEF NothingLost
<1>3. CASE Held(c)
  BY <1>3
<1>4. CASE ~ Held(c)
  <2>1. PICK q \in sent_window[Client] : q.data = c
    BY <1>4 DEF OneWayInv, NothingLost
  <2>2. q # SynPacket
    BY <2>1, Constants DEF SynPacket, NewPacket, NoData
  <2>3. IsChunk(q)
    BY <2>1, <2>2 DEF OneWayInv, ClientPhase
  <2> QED
    BY <1>4, <2>1, <2>3
<1> QED
  BY <1>3, <1>4

\* Steps that leave the client's phase and its window as they are.
LEMMA ClientIdle ==
  ASSUME OneWayInv, TypeOK',
         UNCHANGED <<state, connecting, written, sent_window, seq_nr,
                     out_of_order, incoming_buffer, delivered>>,
         last_acked'[Server] = last_acked[Server],
         receiving'[Server] \in {receiving[Server], "stopped"},
         net'[Client] \subseteq net[Client],
         \A p \in net'[Server] :
           \/ p \in net[Server]
           \/ /\ state[Client] # "NoPeer"
              /\ p.type = "Fin" \/ p \in sent_window[Client]
  PROVE  OneWayInv'
<1>1. \A q : IsChunk(q) <=> IsChunk(q)'
  BY DEF IsChunk
<1>2. ClientPhase'
  <2>1. state[Client] = "NoPeer" => \A e \in Endpoint : net'[e] = {}
    BY Constants DEF OneWayInv, ClientPhase
  <2> QED
    BY <1>1, <2>1 DEF OneWayInv, ClientPhase
<1>3. NothingLost' /\ HandshakeAgreement'
  BY DEF OneWayInv, NothingLost, Held, Accepted, Stored, HandshakeAgreement
<1>4. \A p \in net'[Server] :
        p \in net[Server] \/ p.type = "Fin" \/ p = SynPacket \/ IsChunk(p)'
  BY <1>1 DEF OneWayInv, ClientPhase
<1>5. written'[Client] >= written[Client]
  BY Constants DEF OneWayInv, TypeOK
<1> QED
  BY <1>2, <1>3, <1>4, <1>5, ClientSide

-----------------------------------------------------------------------------
(* The client's steps.                                                     *)

LEMMA ConnectStep ==
  ASSUME OneWayInv, TypeOK', NEW e \in Endpoint, ConnectCheck(e) \/ ConnectInsert(e)
  PROVE  OneWayInv'
<1>1. e = Client
  BY Constants, OneWayAssumption
     DEF ConnectCheck, ConnectInsert, OneWayInv, ServerPhase
<1>2. CASE ConnectCheck(Client)
  <2>1. ClientPhase'
    BY <1>2 DEF ConnectCheck, OneWayInv, ClientPhase, IsChunk, sendVars, TypeOK
  <2>2. NothingLost' /\ HandshakeAgreement'
    BY <1>2 DEF ConnectCheck, OneWayInv, NothingLost, Held, Accepted, Stored,
                HandshakeAgreement, sendVars, recvVars
  <2>3. connecting'[Server] = connecting[Server]
    BY <1>2, Domains, Constants DEF ConnectCheck
  <2>4. written'[Client] >= written[Client]
    <3>1. written' = written
      BY <1>2 DEF ConnectCheck, sendVars
    <3> QED
      BY <3>1, Domains
  <2> QED
    BY <1>2, <2>1, <2>2, <2>3, <2>4, ClientSide
       DEF ConnectCheck, sendVars, ackVars, recvVars
<1>3. CASE ConnectInsert(Client)
  <2>1. /\ state[Client] = "NoPeer" /\ state[Server] = "NoPeer"
        /\ written[Client] = 0 /\ \A x \in Endpoint : net[x] = {}
    BY <1>3 DEF ConnectInsert, OneWayInv, ClientPhase
  <2>2. /\ state'[Client] = "SynSent" /\ state'[Server] = state[Server]
        /\ connecting'[Client] = FALSE /\ connecting'[Server] = connecting[Server]
        /\ seq_nr'[Client] = 1 /\ seq_nr'[Server] = seq_nr[Server]
        /\ last_acked'[Server] = last_acked[Server]
        /\ sent_window'[Client] = {SynPacket} /\ written' = written
        /\ out_of_order'[Server] = out_of_order[Server]
        /\ incoming_buffer'[Server] = incoming_buffer[Server]
        /\ delivered' = delivered /\ receiving' = receiving
        /\ net'[Client] = net[Client] /\ net'[Server] = net[Server] \cup {SynPacket}
    BY <1>3, Constants DEF ConnectInsert, Become, Send, OneWayInv, TypeOK
  <2>3. ClientPhase' /\ HandshakeAgreement'
    BY <2>1, <2>2 DEF ClientPhase, HandshakeAgreement
  <2>4. NothingLost'
    BY <2>1, <2>2 DEF NothingLost
  <2>5. written'[Client] >= written[Client]
    BY <2>1, <2>2
  <2> QED
    BY <2>2, <2>3, <2>4, <2>5, ClientSide
<1> QED
  BY <1>1, <1>2, <1>3

LEMMA WriteStep ==
  ASSUME OneWayInv, TypeOK', NEW e \in Endpoint, NEW k \in WriteSizes, Write(e, k)
  PROVE  OneWayInv'
<1> DEFINE w == written[Client]
<1>1. e = Client /\ state[Client] = "Connected" /\ w + k <= MaxChunks
  BY OneWayAssumption DEF Write
<1>2. k \in Nat /\ w \in Nat /\ MaxChunks \in Nat
  BY Constants DEF OneWayInv, TypeOK
<1>3. seq_nr[Client] = w + 2
  BY <1>1 DEF OneWayInv, ClientPhase
<1>4. /\ state' = state /\ connecting' = connecting /\ receiving' = receiving
      /\ last_acked' = last_acked /\ out_of_order' = out_of_order
      /\ delivered' = delivered /\ incoming_buffer' = incoming_buffer
      /\ seq_nr'[Server] = seq_nr[Server] /\ seq_nr'[Client] = (w + 2 + k) % U16
      /\ written'[Client] = w + k
      /\ sent_window'[Client] = Windowed(Client, k)
      /\ net'[Client] = net[Client] /\ net'[Server] = net[Server] \cup Windowed(Client, k)
  BY <1>1, <1>3, Constants DEF Write, Send, ackVars, recvVars, OneWayInv, TypeOK
<1>5. (w + 2 + k) % U16 = w + k + 2
  <2>1. w + 2 + k \in Nat /\ w + 2 + k < U16
    BY <1>1, <1>2, Constants, OneWayAssumption
  <2> QED
    BY <1>2, <2>1, NoWrap
<1>6. ASSUME NEW j \in 0 .. k - 1
      PROVE  (seq_nr[Client] + j) % U16 = w + j + 2
  <2>1. seq_nr[Client] + j = w + j + 2 /\ w + j + 2 \in Nat /\ w + j + 2 < U16
    BY <1>1, <1>2, <1>3, Constants, OneWayAssumption
  <2> QED
    BY <2>1, NoWrap
<1>7. \A q \in Chunks(Client, k) :
        q.type = "Data" /\ q.data \in w + 1 .. w + k /\ q.seq_nr = q.data + 1
  BY <1>2, <1>6 DEF Chunks, NewPacket
<1>8. \A q \in Windowed(Client, k) : q = SynPacket \/ IsChunk(q)'
  <2>1. \A q \in Chunks(Client, k) : IsChunk(q)'
    BY <1>2, <1>4, <1>7 DEF IsChunk
  <2>2. \A q \in sent_window[Client] : q = SynPacket \/ IsChunk(q)'
    BY <1>2, <1>4 DEF OneWayInv, ClientPhase, IsChunk
  <2> QED
    BY <2>1, <2>2 DEF Windowed
<1>9. ClientPhase'
  BY <1>1, <1>3, <1>4, <1>5, <1>8 DEF ClientPhase, OneWayInv
<1>10. NothingLost'
  <2> SUFFICES ASSUME NEW c \in 1 .. w + k
               PROVE  Held(c) \/ \E q \in Windowed(Client, k) : q.data = c
    BY <1>4 DEF NothingLost, Held, Accepted, Stored
  <2>1. CASE c > w
    <3> DEFINE j == c - w - 1
               q == NewPacket("Data", (seq_nr[Client] + j) % U16, ack_nr[Client],
                              {}, w + j + 1)
    <3>1. j \in 0 .. k - 1 /\ w + j + 1 = c
      BY <1>2, <2>1
    <3>2. q \in Chunks(Client, k)
      BY <3>1 DEF Chunks
    <3>3. q.data = c
      BY <3>1 DEF NewPacket
    <3> QED
      BY <3>2, <3>3 DEF Windowed
  <2>2. CASE c <= w /\ ~ Held(c)
    <3>1. PICK q \in sent_window[Client] : q.data = c
      BY <1>2, <2>2 DEF OneWayInv, NothingLost
    <3>3. IsChunk(q)
      <4>1. SynPacket.data = 0
        BY DEF SynPacket, NewPacket, NoData
      <4>2. q # SynPacket
        BY <3>1, <4>1
      <4> QED
        BY <3>1, <4>2 DEF OneWayInv, ClientPhase
    <3>4. ~ HasSeq(Chunks(Client, k), q.seq_nr)
      BY <1>2, <1>7, <2>2, <3>1, <3>3 DEF IsChunk, HasSeq
    <3> QED
      BY <3>1, <3>4 DEF Windowed
  <2> QED
    BY <1>2, <2>1, <2>2
<1>11. HandshakeAgreement' /\ written'[Client] >= written[Client]
  BY <1>2, <1>4 DEF OneWayInv, HandshakeAgreement
<1> QED
  BY <1>4, <1>8, <1>9, <1>10, <1>11, ClientSide

LEMMA EnvironmentStep ==
  ASSUME OneWayInv, TypeOK', NEW e \in Endpoint,
         SendFin(e) \/ RecvError(e) \/ \E p \in net[e] : Lose(e, p)
  PROVE  OneWayInv'
<1>1. CASE SendFin(e)
  <2>1. e = Client /\ state[Client] # "NoPeer"
    BY <1>1, OneWayAssumption DEF SendFin
  <2>2. /\ net'[Client] = net[Client]
        /\ \A p \in net'[Server] : p \in net[Server] \/ p.type = "Fin"
    <3> DEFINE fin == NewPacket("Fin", seq_nr[Client], 0, {}, NoData)
    <3>1. net' = [net EXCEPT ![Server] = @ \cup {fin}]
      BY <1>1, <2>1, Constants DEF SendFin, Send
    <3>2. fin.type = "Fin"
      BY DEF NewPacket
    <3>3. net'[Client] = net[Client] /\ net'[Server] = net[Server] \cup {fin}
      BY <3>1, Domains, Constants
    <3> QED
      BY <3>2, <3>3
  <2>3. /\ UNCHANGED <<state, connecting, written, sent_window, seq_nr,
                     out_of_order, incoming_buffer, delivered>>
        /\ last_acked' = last_acked /\ receiving' = receiving
    BY <1>1 DEF SendFin, sendVars, ackVars, recvVars
  <2> QED
    BY <2>1, <2>2, <2>3, ClientIdle
<1>2. CASE RecvError(e)
  <2>1. receiving'[Server] \in {receiving[Server], "stopped"}
    <3>1. receiving' = [receiving EXCEPT ![e] = "stopped"]
      BY <1>2 DEF RecvError
    <3> QED
      BY <3>1, Domains, Constants
  <2>2. /\ UNCHANGED <<state, connecting, written, sent_window, seq_nr,
                     out_of_order, incoming_buffer, delivered>>
        /\ last_acked' = last_acked /\ net' = net
    BY <1>2 DEF RecvError, sendVars, ackVars, recvVars
  <2> QED
    BY <2>1, <2>2, ClientIdle
<1>3. ASSUME NEW p \in net[e], Lose(e, p) PROVE OneWayInv'
  <2>1. net'[Client] \subseteq net[Client] /\ net'[Server] \subseteq net[Server]
    <3>1. net' = [net EXCEPT ![e] = @ \ {p}]
      BY <1>3 DEF Lose
    <3> QED
      BY <3>1, Domains, Constants
  <2>2. /\ UNCHANGED <<state, connecting, written, sent_window, seq_nr,
                     out_of_order, incoming_buffer, delivered>>
        /\ last_acked' = last_acked /\ receiving' = receiving
    BY <1>3 DEF Lose, sendVars, ackVars, recvVars
  <2> QED
    BY <2>1, <2>2, ClientIdle
<1> QED
  BY <1>1, <1>2, <1>3

\* What an answer of the client does to the network and to the loops.
LEMMA ClientAnswer ==
  ASSUME TypeOK, NEW p, NEW sent, NEW rsp,
         Answer(Client, p, sent, rsp)
  PROVE  /\ net'[Client] \subseteq net[Client]
         /\ net'[Server] \subseteq net[Server] \cup sent \cup rsp
         /\ receiving'[Server] = receiving[Server]
<1>1. net'[Client] \subseteq net[Client]
  BY Constants DEF Answer, Exchange
<1>2. net'[Server] \subseteq net[Server] \cup sent \cup rsp
  BY Constants DEF Answer, Exchange
<1>3. receiving' \in {receiving, [receiving EXCEPT ![Client] = "stopped"]}
  BY DEF Answer
<1>4. receiving'[Server] = receiving[Server]
  BY <1>3, Constants DEF TypeOK
<1> QED
  BY <1>1, <1>2, <1>4

LEMMA ClientExchange ==
  ASSUME TypeOK, NEW p, Exchange(Client, p, {}), UNCHANGED receiving \/ Panic(Client)
  PROVE  /\ net'[Client] \subseteq net[Client]
         /\ net'[Server] = net[Server]
         /\ receiving'[Server] = receiving[Server]
<1>1. net'[Client] \subseteq net[Client] /\ net'[Server] = net[Server]
  BY Constants DEF Exchange
<1>2. receiving'[Server] = receiving[Server]
  BY Constants DEF Panic, TypeOK
<1> QED
  BY <1>1, <1>2

LEMMA RecvStateSynSentStep ==
  ASSUME OneWayInv, TypeOK', NEW p \in net[Client], RecvStateSynSent(Client, p)
  PROVE  OneWayInv'
<1>1. /\ state[Client] = "SynSent" /\ written[Client] = 0 /\ seq_nr[Client] = 1
      /\ state[Server] \in {"Connected", "Closed"}
  BY DEF RecvStateSynSent, OneWayInv, ClientPhase, ServerPhase
<1>2. /\ state'[Client] = "Connected" /\ state'[Server] = state[Server]
      /\ connecting' = connecting /\ written' = written /\ receiving' = receiving
      /\ seq_nr'[Client] = 2 /\ seq_nr'[Server] = seq_nr[Server]
      /\ last_acked'[Server] = last_acked[Server]
      /\ sent_window'[Client] \subseteq sent_window[Client]
      /\ out_of_order' = out_of_order /\ incoming_buffer' = incoming_buffer
      /\ delivered' = delivered
  <2>1. state'[Client] = "Connected" /\ state'[Server] = state[Server]
    BY Domains, Constants DEF RecvStateSynSent, Become
  <2>2. seq_nr'[Client] = 2 /\ seq_nr'[Server] = seq_nr[Server]
    <3>1. Inc(1) = 2
      BY Constants DEF Inc
    <3>2. seq_nr' = [seq_nr EXCEPT ![Client] = Inc(@)]
      BY DEF RecvStateSynSent
    <3> QED
      BY <1>1, <3>1, <3>2, Domains, Constants
  <2>3. last_acked'[Server] = last_acked[Server]
    BY Domains, Constants DEF RecvStateSynSent
  <2>4. sent_window'[Client] \subseteq sent_window[Client]
    BY Domains, Constants DEF RecvStateSynSent, Without
  <2> QED
    BY <2>1, <2>2, <2>3, <2>4 DEF RecvStateSynSent, recvVars
<1>3. net'[Client] \subseteq net[Client] /\ net'[Server] = net[Server]
  BY Constants DEF RecvStateSynSent, Exchange
<1>4. ClientPhase'
  BY <1>1, <1>2 DEF OneWayInv, ClientPhase, IsChunk
<1>5. NothingLost' /\ HandshakeAgreement' /\ written'[Client] >= written[Client]
  BY <1>1, <1>2 DEF NothingLost, HandshakeAgreement
<1> QED
  BY <1>2, <1>3, <1>4, <1>5, ClientSide

\* What the selective ack and the number of a truthful ack take out of the
\* window is held by the server.
LEMMA AckedIsHeld ==
  ASSUME OneWayInv, NEW p \in net[Client], p.type = "Ack",
         NEW q \in sent_window[Client],
         IsChunk(q),
         \/ q \notin AckedWindow(Client, p)
         \/ q \in SackedPackets(p, AckedWindow(Client, p))
  PROVE  Held(q.data)
<1>1. /\ \A c \in 1 .. p.ack_nr - 1 : Held(c)
      /\ \A i \in p.sack : Held(p.ack_nr + i)
  BY DEF OneWayInv, AckTruthful
<1>2. /\ p.ack_nr \in Nat /\ p.ack_nr < U16 /\ \A i \in p.sack : i \in Nat /\ i < U16
  <2>1. p \in Packet
    BY Domains, Constants
  <2> QED
    BY <2>1, PacketFields, Constants DEF SeqNr
<1>3. CASE q.seq_nr = p.ack_nr
  BY <1>1, <1>2, <1>3, ChunkNumber
<1>4. CASE \E i \in p.sack : q.seq_nr = SackNr(p.ack_nr, i)
  <2>1. PICK i \in p.sack : q.seq_nr = (p.ack_nr + 1 + i) % U16
    BY <1>4 DEF SackNr
  <2>2. Held(p.ack_nr + i)
    BY <1>1
  <2>3. p.ack_nr + i <= written[Client]
    <3>1. CASE p.ack_nr + i <= Len(Accepted)
      BY <1>2, <3>1, ServerNumbers
    <3>2. CASE p.ack_nr + i \in Stored
      <4>1. PICK r \in out_of_order[Server] : r.data = p.ack_nr + i
        BY <3>2 DEF Stored
      <4>2. IsChunk(r)
        BY DEF OneWayInv, ServerPhase
      <4> QED
        BY <1>2, <4>1, <4>2, ServerNumbers DEF IsChunk
    <3> QED
      BY <2>2, <3>1, <3>2 DEF Held
  <2>4. (p.ack_nr + 1 + i) % U16 = p.ack_nr + 1 + i
    <3>1. p.ack_nr + 1 + i < U16
      BY <1>2, <2>3, ServerNumbers, Constants, OneWayAssumption
    <3> QED
      BY <1>2, <3>1, NoWrap
  <2>5. q.data = p.ack_nr + i
    BY <1>2, <2>1, <2>4, ChunkNumber
  <2> QED
    BY <2>2, <2>5
<1> QED
  BY <1>3, <1>4 DEF AckedWindow, SackedPackets, Acked

LEMMA RecvAckStep ==
  ASSUME OneWayInv, TypeOK', NEW p \in net[Client],
         RecvAck(Client, p) \/ AckPanic(Client, p)
  PROVE  OneWayInv'
<1> DEFINE W == AckedWindow(Client, p)
<1>1. /\ UNCHANGED <<state, connecting, written, seq_nr, out_of_order,
                     incoming_buffer, delivered>>
      /\ p.type = "Ack"
  BY DEF RecvAck, AckPanic, Arrives, recvVars
<1>2. last_acked'[Server] = last_acked[Server]
  BY Constants DEF RecvAck, AckPanic, CountAck, ackVars, OneWayInv, TypeOK
<1>3. /\ sent_window'[Client] \in {sent_window[Client], W, W \ SackedPackets(p, W)}
      /\ sent_window'[Client] \subseteq sent_window[Client]
  <2>1. W \subseteq sent_window[Client]
    BY DEF AckedWindow
  <2>2. sent_window'[Client] \in {sent_window[Client], W, W \ SackedPackets(p, W)}
    BY Constants DEF RecvAck, AckPanic, OneWayInv, TypeOK
  <2> QED
    BY <2>1, <2>2
<1>4. /\ net'[Client] \subseteq net[Client]
      /\ net'[Server] \subseteq net[Server] \cup sent_window[Client]
      /\ receiving'[Server] = receiving[Server]
  <2>1. /\ LostPackets(p, W) \subseteq sent_window[Client]
        /\ FastResend(Client, p, W) \subseteq sent_window[Client]
    BY DEF LostPackets, FastResend, BelowNewest, AckedWindow
  <2>2. CASE RecvAck(Client, p)
    <3>1. Answer(Client, p, LostPackets(p, W), FastResend(Client, p, W))
      BY <2>2 DEF RecvAck
    <3> QED
      BY <2>1, <3>1, Domains, ClientAnswer
  <2>3. CASE AckPanic(Client, p)
    <3>1. Exchange(Client, p, {}) /\ Panic(Client)
      BY <2>3 DEF AckPanic
    <3> QED
      BY <3>1, Domains, ClientExchange
  <2> QED
    BY <2>2, <2>3
<1>5. ClientPhase'
  <2>1. state[Client] # "NoPeer"
    BY Constants DEF OneWayInv, ClientPhase
  <2> QED
    BY <1>1, <1>3, <2>1 DEF OneWayInv, ClientPhase, IsChunk
<1>6. NothingLost'
  <2>1. \A q \in sent_window[Client] \ sent_window'[Client] : IsChunk(q) => Held(q.data)
    BY <1>1, <1>3, AckedIsHeld
  <2> QED
    BY <1>1, <1>3, <2>1, WindowShrinks
<1>7. HandshakeAgreement' /\ written'[Client] >= written[Client]
  BY <1>1, Constants DEF OneWayInv, HandshakeAgreement, TypeOK
<1>8. \A q \in net'[Server] : q \in net[Server] \/ q = SynPacket \/ IsChunk(q)'
  BY <1>1, <1>4 DEF OneWayInv, ClientPhase, IsChunk
<1> QED
  BY <1>1, <1>2, <1>4, <1>5, <1>6, <1>7, <1>8, ClientSide

LEMMA ClientReceiveStep ==
  ASSUME OneWayInv, TypeOK', NEW p \in net[Client], Receive(Client, p)
  PROVE  OneWayInv'
<1>1. p.type \in {"State", "Reset", "Ack"} /\ state[Client] # "NoPeer"
  BY Constants DEF OneWayInv, Datagrams, ClientPhase
<1>2. CASE RecvUndecodable(Client, p)
  <2>1. net'[Client] \subseteq net[Client] /\ net'[Server] = net[Server]
    BY <1>2, Constants DEF RecvUndecodable, Exchange
  <2>2. receiving'[Server] = receiving[Server]
    <3>1. receiving' = [receiving EXCEPT ![Client] = "stopped"]
      BY <1>2 DEF RecvUndecodable
    <3> QED
      BY <3>1, Domains, Constants
  <2>3. /\ UNCHANGED <<state, connecting, written, sent_window, seq_nr,
                     out_of_order, incoming_buffer, delivered>>
        /\ last_acked' = last_acked
    BY <1>2 DEF RecvUndecodable, sendVars, ackVars, recvVars
  <2> QED
    BY <2>1, <2>2, <2>3, ClientIdle
<1>3. CASE RecvState(Client, p) \/ StatePanic(Client, p)
  <2>1. StateResend(Client, p) \subseteq sent_window[Client]
    BY DEF StateResend
  <2>2. \/ Answer(Client, p, {}, StateResend(Client, p))
        \/ Exchange(Client, p, {}) /\ (UNCHANGED receiving \/ Panic(Client))
    BY <1>3 DEF RecvState, StatePanic
  <2>3. /\ net'[Client] \subseteq net[Client]
        /\ net'[Server] \subseteq net[Server] \cup sent_window[Client]
        /\ receiving'[Server] = receiving[Server]
    <3>1. CASE Answer(Client, p, {}, StateResend(Client, p))
      BY <2>1, <3>1, Domains, ClientAnswer
    <3>2. CASE Exchange(Client, p, {}) /\ (UNCHANGED receiving \/ Panic(Client))
      BY <3>2, Domains, ClientExchange
    <3> QED
      BY <2>2, <3>1, <3>2
  <2>4. last_acked'[Server] = last_acked[Server]
    <3>1. UNCHANGED ackVars \/ CountState(Client, p)
      BY <1>3 DEF RecvState, StatePanic
    <3> QED
      BY <3>1, Domains, Constants DEF CountState, ackVars
  <2>5. UNCHANGED <<state, connecting, written, sent_window, seq_nr,
                  out_of_order, incoming_buffer, delivered>>
    BY <1>3 DEF RecvState, StatePanic, sendVars, recvVars
  <2> QED
    BY <1>1, <2>3, <2>4, <2>5, ClientIdle
<1>4. CASE RecvReset(Client, p) \/ RecvUnhandled(Client, p)
  <2>1. /\ state'[Client] \in {state[Client], "ResetReceived"}
        /\ state'[Server] = state[Server]
    BY <1>1, <1>4, Constants
       DEF RecvReset, RecvUnhandled, Become, Current, OneWayInv, TypeOK
  <2>2. UNCHANGED <<sendVars, ackVars, recvVars, connecting, receiving>>
    BY <1>4 DEF RecvReset, RecvUnhandled
  <2>3. net'[Client] \subseteq net[Client] /\ net'[Server] = net[Server]
    BY <1>4, Constants DEF RecvReset, RecvUnhandled, Exchange
  <2>4. ClientPhase'
    BY <1>1, <2>1, <2>2 DEF OneWayInv, ClientPhase, IsChunk, sendVars
  <2>5. NothingLost' /\ HandshakeAgreement' /\ written'[Client] >= written[Client]
    BY <2>1, <2>2, Constants
       DEF OneWayInv, NothingLost, Held, Accepted, Stored, HandshakeAgreement,
           sendVars, recvVars, TypeOK
  <2> QED
    BY <2>1, <2>2, <2>3, <2>4, <2>5, ClientSide DEF sendVars, ackVars, recvVars
<1> QED
  BY <1>1, <1>2, <1>3, <1>4, RecvStateSynSentStep, RecvAckStep
     DEF Receive, RecvSynNew, RecvSynOther, RecvDataInOrder, RecvDataAhead,
         RecvDataOld, DataPanic, RecvFin, Arrives

-----------------------------------------------------------------------------
(* A step of the server.                                                   *)

\* A reply that claims nothing the server does not hold.
TruthfulReply(q) ==
  \/ q.type \in {"State", "Reset"}
  \/ /\ q.type = "Ack"
     /\ \A c \in 1 .. q.ack_nr - 1 : Held(c)
     /\ \A i \in q.sack : Held(q.ack_nr + i)

LEMMA ServerSide ==
  ASSUME OneWayInv, TypeOK', ServerPhase', StoredBeyondGap',
         state[Client] # "NoPeer",
         state'[Client] = state[Client], connecting'[Client] = connecting[Client],
         seq_nr'[Client] = seq_nr[Client], sent_window'[Client] = sent_window[Client],
         written' = written,
         state[Server] \in {"Connected", "Closed"} =>
           state'[Server] \in {"Connected", "Closed"},
         receiving'[Server] # "panicked",
         net'[Server] \subseteq net[Server],
         \A c \in Nat : Held(c) => Held(c)',
         \A q \in net'[Client] : q \in net[Client] \/ TruthfulReply(q)'
  PROVE  OneWayInv'
<1>1. \A q : IsChunk(q)' <=> IsChunk(q)
  BY DEF IsChunk
<1>2. ClientPhase'
  BY <1>1 DEF OneWayInv, ClientPhase
<1>3. Datagrams'
  <2>1. \A q \in net'[Client] : q.type \in {"State", "Reset", "Ack"}
    BY DEF OneWayInv, Datagrams, TruthfulReply
  <2> QED
    BY <1>1, <2>1 DEF OneWayInv, Datagrams
<1>4. NothingLost'
  BY Domains DEF OneWayInv, NothingLost
<1>5. AckTruthful'
  <2> SUFFICES ASSUME NEW q \in net'[Client], q.type = "Ack"
               PROVE  /\ \A c \in 1 .. q.ack_nr - 1 : Held(c)'
                      /\ \A i \in q.sack : Held(q.ack_nr + i)'
    BY DEF AckTruthful
  <2>1. CASE q \in net[Client]
    <3>1. q.ack_nr \in Nat /\ \A i \in q.sack : i \in Nat
      BY <2>1, Domains, Constants, PacketFields
    <3> QED
      BY <2>1, <3>1 DEF OneWayInv, AckTruthful
  <2>2. CASE TruthfulReply(q)'
    BY <2>2 DEF TruthfulReply
  <2> QED
    BY <2>1, <2>2
<1>6. HandshakeAgreement' /\ ServerNeverPanics'
  BY DEF OneWayInv, HandshakeAgreement, ServerNeverPanics
<1> QED
  BY <1>2, <1>3, <1>4, <1>5, <1>6 DEF OneWayInv

\* Steps of the server that take no data.
LEMMA ServerIdle ==
  ASSUME OneWayInv, TypeOK', state[Client] # "NoPeer",
         UNCHANGED <<connecting, written, sent_window, seq_nr,
                     out_of_order, incoming_buffer, delivered>>,
         last_acked'[Server] = last_acked[Server],
         state'[Client] = state[Client],
         \/ state'[Server] = state[Server]
         \/ state[Server] = "NoPeer" /\ state'[Server] = "New"
         \/ state[Server] = "Connected" /\ state'[Server] = "Closed",
         receiving'[Server] # "panicked",
         net'[Server] \subseteq net[Server],
         \A q \in net'[Client] :
           \/ q \in net[Client]
           \/ state[Server] \notin {"NoPeer", "New"} /\ TruthfulReply(q)
  PROVE  OneWayInv'
<1>1. Accepted' = Accepted /\ Stored' = Stored
  BY DEF Accepted, Stored
<1>2. \A c : Held(c)' <=> Held(c)
  BY <1>1 DEF Held
<1>3. \A q : IsChunk(q)' <=> IsChunk(q)
  BY DEF IsChunk
<1>4. ServerPhase'
  BY <1>1, <1>3 DEF OneWayInv, ServerPhase
<1>5. StoredBeyondGap'
  BY DEF OneWayInv, StoredBeyondGap
<1>6. \A q \in net'[Client] : q \in net[Client] \/ TruthfulReply(q)'
  BY <1>2 DEF TruthfulReply
<1>7. state[Server] \in {"Connected", "Closed"} =>
        state'[Server] \in {"Connected", "Closed"}
  OBVIOUS
<1> QED
  BY <1>2, <1>4, <1>5, <1>6, <1>7, ServerSide

LEMMA ServerAnswer ==
  ASSUME TypeOK, NEW p, NEW rsp, Answer(Server, p, {}, rsp),
         receiving[Server] = "running"
  PROVE  /\ net'[Server] \subseteq net[Server]
         /\ \A q \in net'[Client] : q \in net[Client] \/ q \in rsp
         /\ receiving'[Server] # "panicked"
<1>1. net'[Server] \subseteq net[Server]
  BY Constants DEF Answer, Exchange
<1>2. \A q \in net'[Client] : q \in net[Client] \/ q \in rsp
  BY Constants DEF Answer, Exchange
<1>3. receiving' \in {receiving, [receiving EXCEPT ![Server] = "stopped"]}
  BY DEF Answer
<1>4. receiving'[Server] # "panicked"
  BY <1>3, Constants DEF TypeOK
<1> QED
  BY <1>1, <1>2, <1>4

\* What the server can receive.
LEMMA ServerReceives ==
  ASSUME OneWayInv, NEW p \in net[Server]
  PROVE  /\ state[Client] # "NoPeer"
         /\ p \in Packet
         /\ p.type \in {"Fin", "Syn", "Data"}
         /\ p.type = "Syn" => p.seq_nr = 1
         /\ p.type = "Data" => IsChunk(p)
<1>1. state[Client] # "NoPeer"
  BY Constants DEF OneWayInv, ClientPhase
<1>2. p \in Packet
  BY Domains, Constants
<1>3. p.type = "Fin" \/ (p.type = "Syn" /\ p.seq_nr = 1) \/ IsChunk(p)
  BY DEF OneWayInv, Datagrams
<1>4. IsChunk(p) => p.type = "Data"
  BY DEF IsChunk
<1> QED
  BY <1>1, <1>2, <1>3, <1>4

\* An ack of everything accepted, without or with bits for what is stored.
LEMMA AckIsTruthful ==
  ASSUME NEW sack, Len(Accepted) \in Nat, last_acked[Server] = Len(Accepted) + 1,
         \A i \in sack : Held(last_acked[Server] + i),
         NEW q, q.type = "Ack", q.ack_nr = last_acked[Server], q.sack = sack
  PROVE  TruthfulReply(q)
BY DEF TruthfulReply, Held

LEMMA SynStep ==
  ASSUME OneWayInv, TypeOK', NEW p \in net[Server],
         RecvSynNew(Server, p) \/ RecvSynOther(Server, p)
  PROVE  OneWayInv'
<1>1. state[Client] # "NoPeer" /\ p.seq_nr = 1 /\ receiving[Server] = "running"
  BY ServerReceives DEF RecvSynNew, RecvSynOther, Arrives
<1>2. CASE RecvSynOther(Server, p)
  <2> DEFINE rst == NewPacket("Reset", p.seq_nr, p.seq_nr, {}, NoData)
  <2>1. Answer(Server, p, {}, {rst})
    BY <1>2 DEF RecvSynOther
  <2>2. /\ net'[Server] \subseteq net[Server]
        /\ \A q \in net'[Client] : q \in net[Client] \/ q \in {rst}
        /\ receiving'[Server] # "panicked"
    BY <1>1, <2>1, Domains, ServerAnswer
  <2>3. TruthfulReply(rst)
    BY DEF TruthfulReply, NewPacket
  <2>4. state[Server] \notin {"NoPeer", "New"}
    BY <1>2 DEF RecvSynOther, Current
  <2>5. UNCHANGED <<connecting, written, sent_window, seq_nr,
                    out_of_order, incoming_buffer, delivered>>
        /\ last_acked' = last_acked /\ state' = state
    BY <1>2 DEF RecvSynOther, sendVars, ackVars, recvVars
  <2> QED
    BY <1>1, <2>2, <2>3, <2>4, <2>5, ServerIdle
<1>3. CASE RecvSynNew(Server, p)
  <2> DEFINE ok == NewPacket("State", p.seq_nr, p.seq_nr, {}, NoData)
  <2>1. Answer(Server, p, {}, {ok})
    BY <1>3 DEF RecvSynNew
  <2>2. /\ net'[Server] \subseteq net[Server]
        /\ \A q \in net'[Client] : q \in net[Client] \/ q \in {ok}
        /\ receiving'[Server] # "panicked"
    BY <1>1, <2>1, Domains, ServerAnswer
  <2>3. \A q \in {ok} : TruthfulReply(q)'
    BY DEF TruthfulReply, NewPacket
  <2>4. UNCHANGED <<connecting, written, sent_window, seq_nr,
                    out_of_order, incoming_buffer, delivered>>
    BY <1>3 DEF RecvSynNew, sendVars, recvVars
  <2>5. state'[Client] = state[Client] /\ state'[Server] = "Connected"
    BY <1>3, Domains, Constants DEF RecvSynNew, Become
  <2>6. last_acked'[Server] = 1
    BY <1>1, <1>3, Domains, Constants DEF RecvSynNew
  <2>7. state[Server] \in {"NoPeer", "New"}
    BY <1>3, Domains, Constants DEF RecvSynNew, Current, SocketState
  <2>8. Accepted = << >> /\ out_of_order[Server] = {}
    BY <2>7 DEF OneWayInv, ServerPhase
  <2>9. Accepted' = Accepted /\ \A c : Held(c)' <=> Held(c)
    BY <2>4 DEF Accepted, Held, Stored
  <2>10. ServerPhase'
    <3>1. Len(Accepted) = 0
      BY <2>8
    <3>2. /\ Len(Accepted') <= written'[Client]
          /\ seq_nr'[Server] <= Len(Accepted') + 1
          /\ \A i \in 1 .. Len(Accepted') : Accepted'[i] = i
      BY <2>4, <2>9 DEF OneWayInv, ServerPhase
    <3> QED
      BY <2>4, <2>5, <2>6, <2>8, <2>9, <3>1, <3>2 DEF OneWayInv, ServerPhase
  <2>11. StoredBeyondGap'
    BY <2>4, <2>8 DEF StoredBeyondGap
  <2> QED
    BY <1>1, <2>2, <2>3, <2>4, <2>5, <2>9, <2>10, <2>11, ServerSide
<1> QED
  BY <1>2, <1>3

LEMMA QuietStep ==
  ASSUME OneWayInv, TypeOK', NEW p \in net[Server],
         \/ RecvUndecodable(Server, p) \/ RecvFin(Server, p)
         \/ RecvUnhandled(Server, p)
  PROVE  OneWayInv'
<1>1. state[Client] # "NoPeer" /\ receiving[Server] = "running"
  BY ServerReceives DEF RecvUndecodable, RecvFin, RecvUnhandled, Arrives
<1>2. UNCHANGED <<connecting, written, sent_window, seq_nr,
                  out_of_order, incoming_buffer, delivered>>
      /\ last_acked' = last_acked
  BY DEF RecvUndecodable, RecvFin, RecvUnhandled, sendVars, ackVars, recvVars
<1>3. CASE RecvUndecodable(Server, p)
  <2>1. net'[Client] = net[Client] /\ net'[Server] \subseteq net[Server]
    BY <1>3, Constants DEF RecvUndecodable, Exchange
  <2>2. receiving' = [receiving EXCEPT ![Server] = "stopped"] /\ state' = state
    BY <1>3 DEF RecvUndecodable
  <2>3. receiving'[Server] # "panicked"
    BY <2>2, Domains, Constants
  <2> QED
    BY <1>1, <1>2, <2>1, <2>2, <2>3, ServerIdle
<1>4. CASE RecvFin(Server, p)
  <2> DEFINE ok == NewPacket("State", p.seq_nr, p.seq_nr, {}, NoData)
  <2>1. Answer(Server, p, {}, {ok}) /\ Established(Server)
    BY <1>4 DEF RecvFin
  <2>2. /\ net'[Server] \subseteq net[Server]
        /\ \A q \in net'[Client] : q \in net[Client] \/ q \in {ok}
        /\ receiving'[Server] # "panicked"
    BY <1>1, <2>1, Domains, ServerAnswer
  <2>3. TruthfulReply(ok)
    BY DEF TruthfulReply, NewPacket
  <2>4. state[Server] = "Connected"
    BY <2>1 DEF Established, OneWayInv, ServerPhase
  <2>5. state'[Client] = state[Client] /\ state'[Server] = "Closed"
    BY <1>4, Domains, Constants DEF RecvFin, Become
  <2> QED
    BY <1>1, <1>2, <2>2, <2>3, <2>4, <2>5, ServerIdle
<1>5. CASE RecvUnhandled(Server, p)
  <2>1. net'[Client] = net[Client] /\ net'[Server] \subseteq net[Server]
    BY <1>5, Constants DEF RecvUnhandled, Exchange
  <2>2. receiving' = receiving
    BY <1>5 DEF RecvUnhandled
  <2>3. /\ state'[Client] = state[Client]
        /\ \/ state'[Server] = state[Server]
           \/ state[Server] = "NoPeer" /\ state'[Server] = "New"
    BY <1>5, Domains, Constants DEF RecvUnhandled, Become, Current
  <2> QED
    BY <1>1, <1>2, <2>1, <2>2, <2>3, ServerIdle
<1> QED
  BY <1>3, <1>4, <1>5

LEMMA DataOldStep ==
  ASSUME OneWayInv, TypeOK', NEW p \in net[Server], RecvDataOld(Server, p)
  PROVE  OneWayInv'
<1> DEFINE ack == AckPacket(Server, {})
<1>1. /\ state[Client] # "NoPeer" /\ receiving[Server] = "running"
      /\ Established(Server)
  BY ServerReceives DEF RecvDataOld, Arrives
<1>2. UNCHANGED <<connecting, written, sent_window, seq_nr,
                  out_of_order, incoming_buffer, delivered>>
      /\ last_acked' = last_acked /\ state' = state
      /\ Answer(Server, p, {}, {ack})
  BY DEF RecvDataOld, sendVars, ackVars, recvVars
<1>3. /\ net'[Server] \subseteq net[Server]
      /\ \A q \in net'[Client] : q \in net[Client] \/ q \in {ack}
      /\ receiving'[Server] # "panicked"
  BY <1>1, <1>2, Domains, ServerAnswer
<1>4. TruthfulReply(ack)
  <2>1. ack.type = "Ack" /\ ack.ack_nr = last_acked[Server] /\ ack.sack = {}
    BY <1>2 DEF AckPacket, NewPacket
  <2>2. Len(Accepted) \in Nat /\ last_acked[Server] = Len(Accepted) + 1
    BY <1>1, ServerNumbers
  <2> QED
    BY <2>1, <2>2, AckIsTruthful
<1>5. state[Server] \notin {"NoPeer", "New"}
  BY <1>1 DEF Established
<1> QED
  BY <1>1, <1>2, <1>3, <1>4, <1>5, ServerIdle

\* The checks of the debug build never fail on the server.
LEMMA NoDataPanic ==
  ASSUME OneWayInv, NEW p \in net[Server]
  PROVE  ~ DataPanic(Server, p)
<1> SUFFICES ASSUME DataPanic(Server, p) PROVE FALSE
  OBVIOUS
<1>1. p.type = "Data" /\ Established(Server)
  BY DEF DataPanic, Arrives
<1>2. IsChunk(p)
  BY <1>1, ServerReceives
<1>3. /\ last_acked[Server] + 1 < U16 /\ seq_nr[Server] + 1 < U16
      /\ p.seq_nr + 1 < U16 /\ p.seq_nr \in Nat /\ U16 \in Nat
      /\ last_acked[Server] \in Nat /\ seq_nr[Server] \in Nat
  BY <1>1, <1>2, ServerNumbers, ChunkNumber, Constants
<1>4. ~ Overflows(last_acked[Server] + 1) /\ ~ Overflows(seq_nr[Server] + 1)
      /\ ~ Overflows(p.seq_nr + 1)
  BY <1>3 DEF Overflows
<1> QED
  BY <1>4 DEF DataPanic

LEMMA DataAheadStep ==
  ASSUME OneWayInv, TypeOK', NEW p \in net[Server], RecvDataAhead(Server, p)
  PROVE  OneWayInv'
<1> DEFINE ack == AckPacket(Server, SackBits(Server))
           last == last_acked[Server]
<1>1. /\ state[Client] # "NoPeer" /\ receiving[Server] = "running"
      /\ Established(Server) /\ IsChunk(p)
  BY ServerReceives DEF RecvDataAhead, Arrives
<1>2. /\ UNCHANGED <<connecting, written, sent_window, seq_nr,
                     incoming_buffer, delivered>>
      /\ last_acked' = last_acked /\ state' = state
      /\ Answer(Server, p, {}, {ack})
  BY DEF RecvDataAhead, sendVars, ackVars, recvVars
<1>3. /\ net'[Server] \subseteq net[Server]
      /\ \A q \in net'[Client] : q \in net[Client] \/ q \in {ack}
      /\ receiving'[Server] # "panicked"
  BY <1>1, <1>2, Domains, ServerAnswer
<1>4. out_of_order'[Server] = Without(out_of_order[Server], p.seq_nr) \cup {p}
  BY Domains, Constants DEF RecvDataAhead
<1>5. \A q \in out_of_order'[Server] : IsChunk(q)
  BY <1>1, <1>4 DEF Without, OneWayInv, ServerPhase
<1>6. \A q : IsChunk(q)' <=> IsChunk(q)
  BY <1>2 DEF IsChunk
<1>7. Accepted' = Accepted
  BY <1>2 DEF Accepted
<1>8. /\ last \in Nat /\ Len(Accepted) \in Nat /\ last = Len(Accepted) + 1
      /\ Inc(last) = last + 1
  BY <1>1, ServerNumbers
<1>9. p.seq_nr > last + 1
  <2>1. p.seq_nr > last /\ p.seq_nr # last + 1
    BY <1>8 DEF RecvDataAhead
  <2> QED
    BY <1>1, <1>8, <2>1, ChunkNumber
<1>10. \A c : Held(c) => Held(c)'
  <2>1. \A c : c \in Stored => c \in Stored'
    <3> SUFFICES ASSUME NEW q \in out_of_order[Server]
                 PROVE  \E r \in out_of_order'[Server] : r.data = q.data
      BY DEF Stored
    <3>1. CASE q.seq_nr = p.seq_nr
      <4>1. IsChunk(q)
        BY DEF OneWayInv, ServerPhase
      <4>2. q.data = p.data
        BY <1>1, <3>1, <4>1, ChunkNumber
      <4> QED
        BY <1>4, <4>2
    <3>2. CASE q.seq_nr # p.seq_nr
      BY <1>4, <3>2 DEF Without
    <3> QED
      BY <3>1, <3>2
  <2> QED
    BY <1>7, <2>1 DEF Held
<1>11. ServerPhase'
  <2>1. state[Server] \notin {"NoPeer", "New"}
    BY <1>1 DEF Established
  <2> QED
    BY <1>2, <1>5, <1>6, <1>7, <1>8, <2>1 DEF OneWayInv, ServerPhase
<1>12. StoredBeyondGap'
  BY <1>2, <1>4, <1>9 DEF Without, OneWayInv, StoredBeyondGap
<1>13. \A q \in net'[Client] : q \in net[Client] \/ TruthfulReply(q)'
  <2>1. ack.type = "Ack" /\ ack.ack_nr = last /\ ack.sack = SackBits(Server)
    BY <1>2 DEF AckPacket, NewPacket
  <2>2. \A i \in SackBits(Server) : last + i \in Stored'
    <3> SUFFICES ASSUME NEW q \in out_of_order'[Server]
                 PROVE  last + (q.seq_nr - last - 1) \in Stored'
      BY <1>2 DEF SackBits, BitsOf
    <3>1. last + (q.seq_nr - last - 1) = q.data
      BY <1>5, <1>8, ChunkNumber
    <3> QED
      BY <3>1 DEF Stored
  <2>3. \A c \in 1 .. last - 1 : Held(c)'
    BY <1>7, <1>8 DEF Held
  <2>4. SUFFICES ASSUME NEW q, q = ack
                 PROVE  TruthfulReply(q)'
    BY <1>3
  <2>5. q.type = "Ack" /\ q.ack_nr = last /\ q.sack = SackBits(Server)
    BY <2>1, <2>4
  <2>6. \A i \in q.sack : Held(q.ack_nr + i)'
    BY <2>2, <2>5 DEF Held
  <2> HIDE DEF ack
  <2> QED
    BY <2>3, <2>5, <2>6 DEF TruthfulReply
<1> QED
  BY <1>1, <1>2, <1>3, <1>10, <1>11, <1>12, <1>13, ServerSide

-----------------------------------------------------------------------------
(* Data in order, and what it releases from out_of_order.                  *)

LEMMA CountingOn ==
  ASSUME NEW S, NEW s \in Seq(S), NEW t \in Seq(S),
         \A i \in 1 .. Len(s) : s[i] = i,
         \A i \in 1 .. Len(t) : t[i] = Len(s) + i
  PROVE  /\ s \o t \in Seq(S)
         /\ Len(s \o t) = Len(s) + Len(t)
         /\ \A i \in 1 .. Len(s \o t) : (s \o t)[i] = i
<1>1. Len(s) \in Nat /\ Len(t) \in Nat
  BY LenProperties
<1>2. /\ s \o t \in Seq(S) /\ Len(s \o t) = Len(s) + Len(t)
      /\ \A i \in 1 .. Len(s) + Len(t) :
           (s \o t)[i] = IF i <= Len(s) THEN s[i] ELSE t[i - Len(s)]
  BY ConcatProperties
<1>3. SUFFICES ASSUME NEW i \in 1 .. Len(s) + Len(t) PROVE (s \o t)[i] = i
  BY <1>2
<1>4. CASE i <= Len(s)
  BY <1>1, <1>2, <1>4
<1>5. CASE i > Len(s)
  <2>1. i - Len(s) \in 1 .. Len(t) /\ Len(s) + (i - Len(s)) = i
    BY <1>1, <1>5
  <2> QED
    BY <1>1, <1>2, <1>5, <2>1
<1> QED
  BY <1>1, <1>4, <1>5

\* The run the drain finds ends at a number that was sent, so no number of it
\* wraps, and whatever stays stored lies beyond a new gap.
LEMMA DrainedRun ==
  ASSUME OneWayInv, NEW n \in SeqNr, n = last_acked[Server] + 1,
         NEW d \in SeqNr, IsRun(Drained(Server, n), n, d),
         n <= written[Client] + 1
  PROVE  /\ n + d <= written[Client] + 1
         /\ \A j \in 1 .. d : (n + j) % U16 = n + j
         /\ \A q \in Drained(Server, n) : q.seq_nr \in n + 1 .. n + d
         /\ \A q \in out_of_order[Server] \ Drained(Server, n) : q.seq_nr > n + d + 1
<1> DEFINE D == Drained(Server, n)
           O == out_of_order[Server]
<1>1. n \in Nat /\ n < U16 /\ d \in Nat /\ U16 \in Nat /\ d < U16
  BY Constants DEF SeqNr
<1>2. \A q \in O : q.seq_nr \in Nat /\ q.seq_nr > n /\ q.seq_nr <= written[Client] + 1
  <2> SUFFICES ASSUME NEW q \in O
               PROVE  q.seq_nr \in Nat /\ q.seq_nr > n /\ q.seq_nr <= written[Client] + 1
    OBVIOUS
  <2>1. IsChunk(q)
    BY DEF OneWayInv, ServerPhase
  <2>2. q.seq_nr > n
    BY DEF OneWayInv, StoredBeyondGap
  <2> QED
    BY <2>1, <2>2, ChunkNumber, ServerNumbers
<1>3. D \subseteq O
  BY DEF Drained
<1>4. \A j \in 1 .. d : \E q \in D : q.seq_nr = (n + j) % U16
  BY DEF IsRun
<1>5. n + d < U16
  <2> SUFFICES ASSUME n + d >= U16 PROVE FALSE
    BY <1>1
  <2>1. U16 - n \in 1 .. d /\ n + (U16 - n) = U16
    BY <1>1
  <2>2. U16 % U16 = 0
    BY <1>1, Constants
  <2>3. PICK q \in D : q.seq_nr = 0
    BY <1>4, <2>1, <2>2
  <2> QED
    BY <1>1, <1>2, <1>3, <2>3
<1>6. ASSUME NEW j \in 1 .. d PROVE (n + j) % U16 = n + j
  <2>1. n + j \in Nat /\ n + j < U16
    BY <1>1, <1>5
  <2> QED
    BY <2>1, NoWrap
<1>7. n + d <= written[Client] + 1
  <2>1. CASE d = 0
    BY <1>1, <2>1
  <2>2. CASE d # 0
    <3>1. d \in 1 .. d
      BY <1>1, <2>2
    <3>2. PICK q \in D : q.seq_nr = n + d
      BY <1>4, <1>6, <3>1
    <3> QED
      BY <1>2, <1>3, <3>2
  <2> QED
    BY <2>1, <2>2
<1>8. ASSUME NEW q \in D PROVE \E j \in 1 .. d : q.seq_nr = n + j
  <2>1. q.seq_nr \in {(n + j) % U16 : j \in 1 .. d}
    BY DEF IsRun
  <2>2. PICK j \in 1 .. d : q.seq_nr = (n + j) % U16
    BY <2>1
  <2> QED
    BY <1>6, <2>2
<1>9. \A q \in D : q.seq_nr \in n + 1 .. n + d
  BY <1>1, <1>8
<1>10. ASSUME NEW q \in O \ D PROVE q.seq_nr > n + d + 1
  <2>1. q.seq_nr \in Nat /\ q.seq_nr > n
    BY <1>2
  <2>2. CASE q.seq_nr <= n + d
    <3>1. q.seq_nr - n \in 1 .. d /\ n + (q.seq_nr - n) = q.seq_nr
      BY <1>1, <2>1, <2>2
    <3>2. PICK r \in D : r.seq_nr = q.seq_nr
      BY <1>4, <1>6, <3>1
    <3>3. q \in D
      BY <3>2 DEF Drained
    <3> QED
      BY <3>3
  <2>3. CASE q.seq_nr = n + d + 1
    <3> DEFINE low == {r.seq_nr : r \in {x \in O : x.seq_nr <= q.seq_nr}}
    <3>1. Inc(n) = n + 1
      <4>1. n + 1 < U16
        BY <1>1, ServerNumbers, Constants, OneWayAssumption
      <4> QED
        BY <1>1, <4>1, IncNoWrap
    <3>2. low \subseteq n + 1 .. q.seq_nr
      BY <1>1, <1>2, <2>1
    <3>3. ASSUME NEW m \in n + 1 .. q.seq_nr PROVE m \in low
      <4>1. CASE m = q.seq_nr
        BY <2>1, <4>1
      <4>2. CASE m # q.seq_nr
        <5>1. m - n \in 1 .. d /\ n + (m - n) = m /\ m <= q.seq_nr
          BY <1>1, <2>1, <2>3, <4>2
        <5>2. PICK r \in D : r.seq_nr = m
          BY <1>4, <1>6, <5>1
        <5> QED
          BY <1>3, <5>1, <5>2
      <4> QED
        BY <4>1, <4>2
    <3>4. low = Inc(n) .. q.seq_nr
      BY <3>1, <3>2, <3>3
    <3>5. q \in D
      BY <3>4 DEF Drained
    <3> QED
      BY <3>5
  <2> QED
    BY <1>1, <2>1, <2>2, <2>3
<1> QED
  BY <1>6, <1>7, <1>9, <1>10

LEMMA DeliverAccepted ==
  ASSUME TypeOK, NEW chunks \in Seq(0 .. MaxChunks), Deliver(Server, chunks)
  PROVE  Accepted' = Accepted \o chunks
<1>1. /\ delivered[Server] \in Seq(0 .. MaxChunks)
      /\ incoming_buffer[Server] \in Seq(0 .. MaxChunks)
      /\ incoming_buffer[Server] \o chunks \in Seq(0 .. MaxChunks)
      /\ delivered[Server] \o incoming_buffer[Server] \in Seq(0 .. MaxChunks)
  BY AcceptedType, ConcatProperties
<1>2. (delivered[Server] \o incoming_buffer[Server]) \o chunks
        = delivered[Server] \o (incoming_buffer[Server] \o chunks)
  <2> DEFINE s == delivered[Server]
             t == incoming_buffer[Server]
             S == Seq(0 .. MaxChunks)
  <2>1. s \in S /\ t \in S /\ chunks \in S
    BY <1>1
  <2> HIDE DEF s, t
  <2>2. (s \o t) \o chunks = s \o (t \o chunks)
    BY <2>1, ConcatAssociative
  <2> QED
    BY <2>2 DEF s, t
<1>3. CASE /\ delivered' = [delivered EXCEPT ![Server] = @ \o incoming_buffer[Server] \o chunks]
           /\ incoming_buffer' = [incoming_buffer EXCEPT ![Server] = << >>]
  <2>1. /\ delivered'[Server] = (delivered[Server] \o incoming_buffer[Server]) \o chunks
        /\ incoming_buffer'[Server] = << >>
    BY <1>3, Constants DEF TypeOK
  <2>2. (delivered[Server] \o incoming_buffer[Server]) \o chunks \in Seq(0 .. MaxChunks)
    BY <1>1, ConcatProperties
  <2> QED
    BY <2>1, <2>2, ConcatEmptySeq DEF Accepted
<1>4. CASE /\ incoming_buffer' = [incoming_buffer EXCEPT ![Server] = @ \o chunks]
           /\ UNCHANGED delivered
  <2>1. incoming_buffer'[Server] = incoming_buffer[Server] \o chunks
    BY <1>4, Constants DEF TypeOK
  <2> QED
    BY <1>2, <1>4, <2>1 DEF Accepted
<1> QED
  BY <1>3, <1>4 DEF Deliver

\* The packet and the d stored ones that follow it are accepted together, and
\* what stays stored lies beyond a new gap.
LEMMA DataInOrderEffect ==
  ASSUME OneWayInv, NEW p \in net[Server], RecvDataInOrder(Server, p)
  PROVE  \E d \in Nat :
           LET n == p.seq_nr
               D == Drained(Server, n)
               O == out_of_order[Server]
           IN  /\ Len(Accepted) \in Nat /\ n = Len(Accepted) + 2
               /\ Len(Accepted) + d + 1 <= written[Client]
               /\ Accepted' \in Seq(0 .. MaxChunks)
               /\ Len(Accepted)' = Len(Accepted) + d + 1
               /\ \A i \in 1 .. Len(Accepted)' : Accepted'[i] = i
               /\ last_acked'[Server] = Len(Accepted) + d + 2
               /\ out_of_order'[Server] = O \ D
               /\ \A q \in D : q.data <= Len(Accepted) + d + 1
               /\ Len(Accepted) + 2 .. Len(Accepted) + d + 1 \subseteq Stored
               /\ \A q \in O \ D : q.data > Len(Accepted) + d + 2
<1> DEFINE n == p.seq_nr
           D == Drained(Server, n)
           L == Len(Accepted)
           O == out_of_order[Server]
<1>1. /\ state[Client] # "NoPeer" /\ receiving[Server] = "running"
      /\ Established(Server) /\ IsChunk(p) /\ p \in Packet
  BY ServerReceives DEF RecvDataInOrder, Arrives
<1>2. /\ L \in Nat /\ last_acked[Server] = L + 1 /\ n = L + 2 /\ n \in SeqNr
      /\ p.data = L + 1 /\ n <= written[Client] + 1 /\ written[Client] \in Nat
      /\ p.data \in 0 .. MaxChunks
  <2>1. n = Inc(last_acked[Server])
    BY DEF RecvDataInOrder
  <2> QED
    BY SMTT(30), <1>1, <2>1, ServerNumbers, ChunkNumber, PacketFields
<1>3. PICK d \in SeqNr :
        /\ IsRun(D, n, d)
        /\ last_acked' = [last_acked EXCEPT ![Server] = (n + d) % U16]
        /\ out_of_order' = [out_of_order EXCEPT ![Server] = @ \ D]
        /\ Answer(Server, p, {}, {AckPacket(Server, {})})
        /\ Deliver(Server, <<p.data>> \o Run(D, n, d))
  BY DEF RecvDataInOrder
<1>4. /\ n + d <= written[Client] + 1
      /\ \A j \in 1 .. d : (n + j) % U16 = n + j
      /\ \A q \in D : q.seq_nr \in n + 1 .. n + d
      /\ \A q \in O \ D : q.seq_nr > n + d + 1
  BY <1>2, <1>3, DrainedRun
<1>5. d \in Nat /\ (n + d) % U16 = n + d
  <2>1. d \in Nat /\ n + d < U16 /\ n \in Nat
    BY <1>2, <1>3, <1>4, ServerNumbers, Constants, OneWayAssumption DEF SeqNr
  <2> QED
    BY <2>1, NoWrap
<1>6. \A q \in O : IsChunk(q) /\ q \in Packet
  BY Domains, Constants DEF OneWayInv, ServerPhase
<1>7. /\ Run(D, n, d) \in Seq(0 .. MaxChunks) /\ Len(Run(D, n, d)) = d
      /\ \A j \in 1 .. d : Run(D, n, d)[j] = L + 1 + j
  <2>1. D \in SUBSET Packet
    BY <1>6 DEF Drained
  <2>2. /\ Run(D, n, d) \in Seq(0 .. MaxChunks) /\ Len(Run(D, n, d)) = d
        /\ \A j \in 1 .. d :
             \E q \in D : q.seq_nr = (n + j) % U16 /\ Run(D, n, d)[j] = q.data
    BY <1>2, <1>3, <2>1, RunType
  <2>3. ASSUME NEW j \in 1 .. d PROVE Run(D, n, d)[j] = L + 1 + j
    <3>1. PICK q \in D : q.seq_nr = n + j /\ Run(D, n, d)[j] = q.data
      BY <1>4, <2>2
    <3>2. q.data + 1 = q.seq_nr /\ q.data \in Nat
      BY <1>6, ChunkNumber DEF Drained
    <3> QED
      BY <1>2, <1>5, <3>1, <3>2
  <2> QED
    BY <2>2, <2>3
<1> DEFINE chunks == <<p.data>> \o Run(D, n, d)
<1>8. /\ chunks \in Seq(0 .. MaxChunks) /\ Len(chunks) = d + 1
      /\ \A i \in 1 .. Len(chunks) : chunks[i] = L + i
  <2>1. <<p.data>> \in Seq(0 .. MaxChunks) /\ Len(<<p.data>>) = 1
        /\ <<p.data>>[1] = p.data
    BY <1>2
  <2>2. /\ chunks \in Seq(0 .. MaxChunks) /\ Len(chunks) = 1 + d
        /\ \A i \in 1 .. 1 + d :
             chunks[i] = IF i <= 1 THEN <<p.data>>[i] ELSE Run(D, n, d)[i - 1]
    BY <1>7, <2>1, ConcatProperties
  <2>3. ASSUME NEW i \in 1 .. 1 + d PROVE chunks[i] = L + i
    <3>1. CASE i = 1
      BY <1>2, <2>1, <2>2, <3>1
    <3>2. CASE i # 1
      <4>1. i - 1 \in 1 .. d /\ L + 1 + (i - 1) = L + i /\ ~ (i <= 1)
        BY <1>2, <1>5, <3>2
      <4> QED
        BY <1>7, <2>2, <4>1
    <3> QED
      BY <3>1, <3>2
  <2> QED
    BY <1>5, <2>2, <2>3
<1>9. Accepted' = Accepted \o chunks
  BY <1>3, <1>8, Domains, DeliverAccepted
<1>10. /\ Len(Accepted)' = L + d + 1 /\ \A i \in 1 .. Len(Accepted)' : Accepted'[i] = i
       /\ Accepted' \in Seq(0 .. MaxChunks)
  <2>1. \A i \in 1 .. L : Accepted[i] = i
    BY DEF OneWayInv, ServerPhase
  <2>2. Accepted \in Seq(0 .. MaxChunks)
    BY Domains, AcceptedType
  <2>3. /\ Len(Accepted \o chunks) = L + Len(chunks)
        /\ Accepted \o chunks \in Seq(0 .. MaxChunks)
        /\ \A i \in 1 .. Len(Accepted \o chunks) : (Accepted \o chunks)[i] = i
    <3> HIDE DEF chunks
    <3> QED
      BY <1>8, <2>1, <2>2, CountingOn
  <2>4. L + Len(chunks) = L + d + 1
    BY <1>2, <1>5, <1>8
  <2> HIDE DEF chunks
  <2> QED
    BY <1>9, <2>3, <2>4
<1>11. out_of_order'[Server] = O \ D /\ last_acked'[Server] = L + d + 2
  <2>1. n + d = L + d + 2
    BY <1>2, <1>5
  <2> QED
    BY <1>3, <1>5, <2>1, Domains, Constants
<1>12. ASSUME NEW q \in D PROVE q.data <= L + d + 1
  <2>1. q \in O /\ q.seq_nr \in n + 1 .. n + d
    BY <1>4 DEF Drained
  <2>2. q.data + 1 = q.seq_nr /\ q.data \in Nat
    BY <1>6, <2>1, ChunkNumber
  <2> QED
    BY <1>2, <1>5, <2>1, <2>2
<1>13. ASSUME NEW c \in L + 2 .. L + d + 1 PROVE c \in Stored
  <2>1. c + 1 - n \in 1 .. d /\ n + (c + 1 - n) = c + 1
    BY <1>2, <1>5
  <2>2. PICK q \in D : q.seq_nr = c + 1
    BY <1>3, <1>4, <2>1 DEF IsRun
  <2>3. q \in O
    BY DEF Drained
  <2>4. q.data = c
    BY <1>2, <1>6, <2>2, <2>3, ChunkNumber
  <2> QED
    BY <2>3, <2>4 DEF Stored
<1>14. ASSUME NEW q \in O \ D PROVE q.data > L + d + 2
  <2>1. q.data + 1 = q.seq_nr /\ q.data \in Nat /\ q.seq_nr > n + d + 1
    BY <1>4, <1>6, ChunkNumber
  <2> QED
    BY <1>2, <1>5, <2>1
<1>15. L + d + 1 <= written[Client]
  BY <1>2, <1>4, <1>5
<1> QED
  BY <1>2, <1>5, <1>10, <1>11, <1>12, <1>13, <1>14, <1>15

LEMMA DataInOrderStep ==
  ASSUME OneWayInv, TypeOK', NEW p \in net[Server], RecvDataInOrder(Server, p)
  PROVE  OneWayInv'
<1> DEFINE D == Drained(Server, p.seq_nr)
           L == Len(Accepted)
           O == out_of_order[Server]
<1>1. /\ state[Client] # "NoPeer" /\ receiving[Server] = "running"
      /\ Established(Server)
  BY ServerReceives DEF RecvDataInOrder, Arrives
<1>2. PICK d \in Nat :
        /\ L \in Nat /\ L + d + 1 <= written[Client]
        /\ Len(Accepted)' = L + d + 1
        /\ \A i \in 1 .. Len(Accepted)' : Accepted'[i] = i
        /\ last_acked'[Server] = L + d + 2
        /\ out_of_order'[Server] = O \ D
        /\ \A q \in D : q.data <= L + d + 1
        /\ \A q \in O \ D : q.data > L + d + 2
  BY DataInOrderEffect
<1>3. /\ UNCHANGED <<state, connecting, sent_window, written>>
      /\ seq_nr' = [seq_nr EXCEPT ![Server] = Inc(@)]
      /\ Answer(Server, p, {}, {AckPacket(Server, {})})
  BY DEF RecvDataInOrder
<1>4. seq_nr'[Server] = seq_nr[Server] + 1 /\ seq_nr'[Client] = seq_nr[Client]
  BY <1>3, Domains, Constants, ServerNumbers
<1>5. /\ net'[Server] \subseteq net[Server]
      /\ \A q \in net'[Client] : q \in net[Client] \/ q \in {AckPacket(Server, {})}
      /\ receiving'[Server] # "panicked"
  BY <1>1, <1>3, Domains, ServerAnswer
<1>6. \A q \in O : IsChunk(q)
  BY DEF OneWayInv, ServerPhase
<1>7. ServerPhase'
  <2>1. state[Server] \notin {"NoPeer", "New"}
    BY <1>1 DEF Established
  <2>2. Len(Accepted)' <= written'[Client] /\ last_acked'[Server] = Len(Accepted)' + 1
    BY <1>2, <1>3
  <2>3. seq_nr'[Server] <= Len(Accepted)' + 1
    <3>1. seq_nr[Server] <= L + 1 /\ seq_nr[Server] \in Nat
      BY Domains DEF OneWayInv, ServerPhase
    <3> QED
      BY <1>2, <1>4, <3>1
  <2>4. \A q \in out_of_order'[Server] : IsChunk(q)'
    BY <1>2, <1>3, <1>6 DEF IsChunk
  <2> QED
    BY <1>2, <1>3, <2>1, <2>2, <2>3, <2>4 DEF OneWayInv, ServerPhase
<1>8. StoredBeyondGap'
  <2> SUFFICES ASSUME NEW q \in O \ D PROVE q.seq_nr > L + d + 2 + 1
    BY <1>2 DEF StoredBeyondGap
  <2>1. q.seq_nr = q.data + 1 /\ q.data \in Nat /\ q.data > L + d + 2
    BY <1>2, <1>6, ChunkNumber
  <2> QED
    BY <1>2, <2>1
<1>9. \A c \in Nat : Held(c) => Held(c)'
  <2>1. ASSUME NEW q \in O PROVE Held(q.data)'
    <3>1. CASE q \in D
      BY <1>2, <3>1 DEF Held
    <3>2. CASE q \notin D
      BY <1>2, <3>2 DEF Held, Stored
    <3> QED
      BY <3>1, <3>2
  <2>2. ASSUME NEW c, c \in Stored PROVE Held(c)'
    <3>1. PICK q \in O : q.data = c
      BY <2>2 DEF Stored
    <3> QED
      BY <2>1, <3>1
  <2>3. ASSUME NEW c \in Nat, c <= L PROVE Held(c)'
    BY <1>2, <2>3 DEF Held
  <2> QED
    BY <2>2, <2>3 DEF Held
<1>10. \A q \in net'[Client] : q \in net[Client] \/ TruthfulReply(q)'
  <2>1. SUFFICES ASSUME NEW q, q = AckPacket(Server, {})
                 PROVE  TruthfulReply(q)'
    BY <1>5
  <2>2. q.type = "Ack" /\ q.ack_nr = last_acked'[Server] /\ q.sack = {}
    BY <2>1 DEF AckPacket, NewPacket
  <2>3. \A c \in 1 .. q.ack_nr - 1 : Held(c)'
    BY <1>2, <2>2 DEF Held
  <2> QED
    BY <2>2, <2>3 DEF TruthfulReply
<1> QED
  BY <1>1, <1>3, <1>4, <1>5, <1>7, <1>8, <1>9, <1>10, ServerSide

-----------------------------------------------------------------------------
(* The invariant holds.                                                    *)

LEMMA ServerReceiveStep ==
  ASSUME OneWayInv, TypeOK', NEW p \in net[Server], Receive(Server, p)
  PROVE  OneWayInv'
<1>1. p.type \in {"Fin", "Syn", "Data"}
  BY ServerReceives
<1>2. ~ DataPanic(Server, p)
  BY NoDataPanic
<1>3. \/ RecvUndecodable(Server, p) \/ RecvFin(Server, p) \/ RecvUnhandled(Server, p)
      \/ RecvSynNew(Server, p) \/ RecvSynOther(Server, p)
      \/ RecvDataInOrder(Server, p) \/ RecvDataAhead(Server, p)
      \/ RecvDataOld(Server, p)
  BY <1>1, <1>2 DEF Receive, RecvStateSynSent, RecvState, StatePanic, RecvAck,
                    AckPanic, RecvReset, Arrives
<1> QED
  BY <1>3, QuietStep, SynStep, DataInOrderStep, DataAheadStep, DataOldStep

LEMMA InitInv == Init => OneWayInv
<1> SUFFICES ASSUME Init PROVE OneWayInv
  OBVIOUS
<1>1. /\ state[Client] = "NoPeer" /\ state[Server] = "NoPeer"
      /\ written[Client] = 0 /\ seq_nr[Client] = 1 /\ seq_nr[Server] = 1
      /\ ~ connecting[Client] /\ ~ connecting[Server]
      /\ sent_window[Client] = {} /\ out_of_order[Server] = {}
      /\ delivered[Server] = << >> /\ incoming_buffer[Server] = << >>
      /\ receiving[Server] = "running" /\ \A e \in Endpoint : net[e] = {}
  BY Constants DEF Init
<1>2. Accepted = << >> /\ Len(Accepted) = 0
  BY <1>1 DEF Accepted
<1>3. TypeOK
  BY InitType
<1>4. ClientPhase
  BY <1>1 DEF ClientPhase
<1>5. ServerPhase
  BY <1>1, <1>2, Constants DEF ServerPhase
<1>6. Datagrams /\ NothingLost /\ AckTruthful /\ StoredBeyondGap
      /\ HandshakeAgreement /\ ServerNeverPanics
  BY <1>1, Constants DEF Datagrams, NothingLost, AckTruthful, StoredBeyondGap,
                         HandshakeAgreement, ServerNeverPanics
<1> QED
  BY <1>3, <1>4, <1>5, <1>6 DEF OneWayInv

LEMMA StepInv == OneWayInv /\ [Next]_vars => OneWayInv'
<1> SUFFICES ASSUME OneWayInv, [Next]_vars PROVE OneWayInv'
  OBVIOUS
<1>1. TypeOK'
  BY Domains, TypeStep
<1>2. CASE UNCHANGED vars
  BY <1>2 DEF vars, sendVars, ackVars, recvVars, OneWayInv, TypeOK, ClientPhase,
              ServerPhase, Datagrams, IsChunk, NothingLost, AckTruthful, Held,
              Accepted, Stored, StoredBeyondGap, HandshakeAgreement, ServerNeverPanics
<1>3. ASSUME NEW e \in Endpoint, ConnectCheck(e) \/ ConnectInsert(e)
      PROVE  OneWayInv'
  BY <1>1, <1>3, ConnectStep
<1>4. ASSUME NEW e \in Endpoint, NEW k \in WriteSizes, Write(e, k)
      PROVE  OneWayInv'
  BY <1>1, <1>4, WriteStep
<1>5. ASSUME NEW e \in Endpoint,
             SendFin(e) \/ RecvError(e) \/ \E p \in net[e] : Lose(e, p)
      PROVE  OneWayInv'
  BY <1>1, <1>5, EnvironmentStep
<1>6. ASSUME NEW e \in Endpoint, NEW p \in net[e], Receive(e, p)
      PROVE  OneWayInv'
  <2>1. CASE e = Client
    BY <1>1, <1>6, <2>1, ClientReceiveStep
  <2>2. CASE e = Server
    BY <1>1, <1>6, <2>2, ServerReceiveStep
  <2> QED
    BY <2>1, <2>2, Constants
<1> QED
  BY <1>2, <1>3, <1>4, <1>5, <1>6 DEF Next

\* The conjunction of the type invariant, the phases of both endpoints, what
\* the network carries and the five safety properties is inductive: every
\* handler of socket.rs preserves it.
THEOREM InvHolds == Spec => []OneWayInv
BY InitInv, StepInv, PTL DEF Spec

\* Whatever the network loses, reorders or duplicates, and however many chunks
\* are written below the wrap of the sequence numbers, the client's window
\* keeps every chunk the server does not hold (the Ack arm of handle_packet).
THEOREM WindowKeepsWhatIsMissing == Spec => []NothingLost
BY InvHolds, PTL DEF OneWayInv

\* No ack the server puts on the network claims a chunk it does not hold, in
\* its number or in a selective-ack bit (build_selective_ack).
THEOREM AcksAreTruthful == Spec => []AckTruthful
BY InvHolds, PTL DEF OneWayInv

\* The application of the server receives a prefix of what was written, in
\* order and without repetition (the Data arm of handle_packet).
THEOREM DeliveryIsInOrder == Spec => []DeliveredInOrder
<1>1. OneWayInv => DeliveredInOrder
  <2> SUFFICES ASSUME OneWayInv PROVE DeliveredInOrder
    OBVIOUS
  <2> DEFINE s == delivered[Server]
             t == incoming_buffer[Server]
             S == 0 .. MaxChunks
  <2>1. s \in Seq(S) /\ t \in Seq(S) /\ Accepted = s \o t
    BY Domains, Constants DEF Accepted
  <2>2. /\ Len(Accepted) <= written[Client] /\ written[Client] \in Nat
        /\ \A i \in 1 .. Len(Accepted) : Accepted[i] = i
    BY Domains DEF OneWayInv, ServerPhase
  <2> HIDE DEF s, t, S
  <2>3. /\ Len(s) \in Nat /\ Len(t) \in Nat
        /\ Len(Accepted) = Len(s) + Len(t)
        /\ \A i \in 1 .. Len(s) + Len(t) :
             Accepted[i] = IF i <= Len(s) THEN s[i] ELSE t[i - Len(s)]
    BY <2>1, LenProperties, ConcatProperties
  <2>4. Len(s) <= written[Client]
    BY <2>2, <2>3
  <2>5. \A i \in 1 .. Len(s) : s[i] = i
    BY <2>2, <2>3
  <2> QED
    BY <2>4, <2>5 DEF DeliveredInOrder, s
<1> QED
  BY <1>1, InvHolds, PTL

\* What out_of_order still keeps after a drain lies beyond a chunk that is
\* missing (the while loop over out_of_order in the Data arm).
THEOREM DrainLeavesAGap == Spec => []StoredBeyondGap
BY InvHolds, PTL DEF OneWayInv

\* In the debug build no handler of the server overflows a u16 before the
\* sequence numbers wrap, so its receive task never panics.
THEOREM ServerSurvives == Spec => []ServerNeverPanics
BY InvHolds, PTL DEF OneWayInv

\* Data the server drops as old is data it holds: the number that makes it old
\* is the number of a chunk it has accepted (the last branch of the Data arm).
THEOREM OnlyHeldDataIsIgnored == Spec => IgnoredDataIsHeld
<1>1. OneWayInv => \A p \in net[Server] : RecvDataOld(Server, p) => Held(p.data)
  <2> SUFFICES ASSUME OneWayInv, NEW p \in net[Server], RecvDataOld(Server, p)
               PROVE  Held(p.data)
    OBVIOUS
  <2>1. p.type = "Data" /\ p.seq_nr <= last_acked[Server] /\ Established(Server)
    BY DEF RecvDataOld, Arrives
  <2>2. IsChunk(p)
    BY <2>1 DEF OneWayInv, Datagrams
  <2>3. p.data \in Nat /\ p.seq_nr = p.data + 1
    BY <2>2, ChunkNumber
  <2>4. Len(Accepted) \in Nat /\ last_acked[Server] = Len(Accepted) + 1
    BY <2>1, ServerNumbers
  <2> QED
    BY <2>1, <2>3, <2>4 DEF Held
<1>2. OneWayInv /\ [Next]_vars =>
        [\A p \in net[Server] : RecvDataOld(Server, p) => Held(p.data)]_vars
  BY <1>1
<1> QED
  BY <1>2, InvHolds, PTL DEF Spec, IgnoredDataIsHeld

\* A closed connection never opens again and a reset one stays reset: late
\* datagrams of the handshake meet no arm that accepts them, and connect never
\* overwrites an entry that is in use (connect, handle_packet).
THEOREM AbortsAreFinal == Spec => AbortIsFinal
<1> DEFINE Final(e) ==
      /\ state[e] = "ResetReceived" => state'[e] = "ResetReceived"
      /\ state[e] = "Closed" => state'[e] \in {"Closed", "ResetReceived"}
<1>1. ASSUME OneWayInv, Next PROVE \A f \in Endpoint : Final(f)
  <2> USE Constants
  <2>1. state \in [Endpoint -> SocketState \cup {"NoPeer"}]
    BY <1>1, Domains
  <2>2. CASE state' = state
    BY <2>2
  <2>3. ASSUME NEW e \in Endpoint, NEW s, Become(e, s),
               \/ state[e] \notin {"Closed", "ResetReceived"}
               \/ s = "ResetReceived"
               \/ s = state[e]
        PROVE  \A f \in Endpoint : Final(f)
    BY <2>1, <2>3 DEF Become
  <2>4. ASSUME NEW e \in Endpoint, ConnectInsert(e)
        PROVE  \A f \in Endpoint : Final(f)
    <3>1. state[e] = "NoPeer"
      BY <1>1, <2>4 DEF ConnectInsert, OneWayInv, ClientPhase, ServerPhase
    <3> QED
      BY <2>3, <2>4, <3>1 DEF ConnectInsert
  <2>5. ASSUME NEW e \in Endpoint, NEW p \in net[e], Receive(e, p)
        PROVE  \A f \in Endpoint : Final(f)
    <3>1. CASE RecvSynNew(e, p)
      BY <2>3, <3>1 DEF RecvSynNew, Current
    <3>2. CASE RecvStateSynSent(e, p)
      BY <2>3, <3>2 DEF RecvStateSynSent
    <3>3. CASE RecvFin(e, p)
      BY <2>3, <3>3 DEF RecvFin, Established
    <3>4. CASE RecvReset(e, p)
      BY <2>3, <3>4 DEF RecvReset
    <3>5. CASE RecvUnhandled(e, p)
      BY <2>3, <3>5 DEF RecvUnhandled, Current
    <3>6. CASE \/ RecvUndecodable(e, p) \/ RecvSynOther(e, p) \/ RecvState(e, p)
               \/ StatePanic(e, p) \/ RecvAck(e, p) \/ AckPanic(e, p)
               \/ RecvDataInOrder(e, p) \/ RecvDataAhead(e, p) \/ RecvDataOld(e, p)
               \/ DataPanic(e, p)
      BY <2>2, <3>6 DEF RecvUndecodable, RecvSynOther, RecvState, StatePanic, RecvAck,
           AckPanic, RecvDataInOrder, RecvDataAhead, RecvDataOld, DataPanic
    <3> QED
      BY <2>5, <3>1, <3>2, <3>3, <3>4, <3>5, <3>6 DEF Receive
  <2>6. ASSUME NEW e \in Endpoint,
               \/ ConnectCheck(e) \/ SendFin(e) \/ RecvError(e)
               \/ \E k \in WriteSizes : Write(e, k)
               \/ \E p \in net[e] : Lose(e, p)
        PROVE  \A f \in Endpoint : Final(f)
    BY <2>2, <2>6 DEF ConnectCheck, SendFin, RecvError, Write, Lose
  <2> QED
    BY <1>1, <2>4, <2>5, <2>6 DEF Next
<1>2. OneWayInv /\ [Next]_vars =>
        [\A e \in Endpoint :
           /\ state[e] = "ResetReceived" => state'[e] = "ResetReceived"
           /\ state[e] = "Closed" => state'[e] \in {"Closed", "ResetReceived"}]_vars
  BY <1>1
<1> QED
  BY <1>2, InvHolds, PTL DEF Spec, AbortIsFinal

-----------------------------------------------------------------------------
(* The receive loops of the release build.                                 *)

\* Nothing is duplicated, no socket fails and no application sends a Fin.
CalmRelease ==
  ~ OverflowChecks /\ ~ Duplication /\ IoErrors = {} /\ FinSenders = {}

\* What is stored fits one word of selective ack.
NarrowGaps ==
  \A q \in out_of_order[Server] : q.seq_nr <= last_acked[Server] + SackWord

StatePacket == NewPacket("State", 1, 1, {}, NoData)
OneWord == 0 .. SackWord - 1

\* The handshake takes one Syn and one State: no State is left that could
\* reach a connected client, whose handler would look up a packet to send again.
OneHandshake ==
  /\ \A p \in net[Server] : p.type = "Syn" =>
       /\ p = SynPacket /\ state[Server] \in {"NoPeer", "New"} /\ state[Client] # "Connected"
       /\ \A q \in net[Client] : q.type # "State"
  /\ \A q \in net[Client] : q.type = "State" => q = StatePacket /\ state[Client] # "Connected"
  /\ \A p \in net[Server] : p.type # "Fin"
  /\ state[Client] = "Connected" => \A q \in sent_window[Client] : q.type = "Data"

Readable ==
  /\ \A q \in net[Client] : q.sack \subseteq OneWord
  /\ \A p \in net[Server] \cup sent_window[Client] : p.sack = {}

LoopsInv == OneHandshake /\ Readable /\ ReceiveLoopsSurvive

\* A selective ack of one word is read.
LEMMA OneWordDecodes ==
  ASSUME NEW p, p.sack \subseteq OneWord
  PROVE  Decodes(p)
<1> DEFINE R == {ss \in Nat \X Nat : ss[1] < ss[2]}
           S == {SackWord - i : i \in p.sack}
<1>1. SackWord \in Nat /\ SackWord > 0 /\ SackLenMod \in Nat \ {0}
  BY WidthAssumption
<1>2. CASE p.sack = {}
  BY <1>2 DEF Decodes, Decodable
<1>3. CASE p.sack # {}
  <2>1. S \subseteq Nat /\ S # {}
    BY <1>1, <1>3 DEF OneWord
  <2>2. IsWellFoundedOn(R, Nat)
    BY NatLessThanWellFounded, Zenon DEF OpToRel
  <2>3. PICK x \in S : \A y \in S : ~ (<<y, x>> \in R)
    <3> HIDE DEF R, S
    <3> QED
      BY <2>1, <2>2, WFMin
  <2>4. \A y \in S : x <= y
    <3> TAKE y \in S
    <3>1. <<y, x>> \in Nat \X Nat /\ <<y, x>>[1] = y /\ <<y, x>>[2] = x
      BY <2>1, <2>3
    <3> QED
      BY <2>1, <2>3, <3>1
  <2>5. PICK i \in p.sack : x = SackWord - i
    BY <2>3
  <2>6. \A j \in p.sack : j <= i
    BY <1>1, <2>4, <2>5 DEF OneWord
  <2>7. i \div SackWord = 0 /\ 0 % SackLenMod = 0
    BY <1>1, <2>5 DEF OneWord
  <2> QED
    BY <2>5, <2>6, <2>7 DEF Decodes, Decodable
<1> QED
  BY <1>2, <1>3

\* Without duplication a datagram is gone once it is taken; without errors
\* of the socket a reply is always sent.
LEMMA CalmAnswer ==
  ASSUME CalmRelease, TypeOK, NEW e \in Endpoint, NEW p, NEW sent, NEW rsp,
         Answer(e, p, sent, rsp)
  PROVE  /\ net'[e] = net[e] \ {p}
         /\ net'[Other(e)] = net[Other(e)] \cup sent \cup rsp
         /\ receiving' = receiving
BY Constants DEF CalmRelease, TypeOK, Answer, Exchange, Other

LEMMA ServerReply ==
  ASSUME CalmRelease, TypeOK, NEW p, NEW q, Answer(Server, p, {}, {q})
  PROVE  /\ net'[Server] = net[Server] \ {p}
         /\ net'[Client] = net[Client] \cup {q}
         /\ receiving' = receiving
BY Constants DEF CalmRelease, TypeOK, Answer, Exchange

LEMMA CalmExchange ==
  ASSUME CalmRelease, TypeOK, NEW e \in Endpoint, NEW p, Exchange(e, p, {})
  PROVE  /\ net'[e] = net[e] \ {p}
         /\ net'[Other(e)] = net[Other(e)]
BY Constants DEF CalmRelease, TypeOK, Exchange, Other

LEMMA InitLoops == Init => LoopsInv
BY Constants DEF Init, LoopsInv, OneHandshake, Readable, ReceiveLoopsSurvive

\* Steps after which the network, the window and the phases hold no more than before.
LEMMA LoopsKept ==
  ASSUME LoopsInv, receiving' = receiving,
         net'[Client] \subseteq net[Client],
         \A p \in net'[Server] : p \in net[Server] \cup sent_window[Client],
         sent_window'[Client] \subseteq sent_window[Client],
         state'[Client] \in {state[Client], "ResetReceived"},
         net'[Server] \subseteq net[Server] \/ state[Client] = "Connected",
         state'[Server] = state[Server] \/ state'[Server] \in {"NoPeer", "New"}
  PROVE  LoopsInv'
<1>1. \A p \in net'[Server] : p.type \in {"Syn", "Fin"} => p \in net[Server]
  BY DEF LoopsInv, OneHandshake
<1>2. OneHandshake'
  BY <1>1 DEF LoopsInv, OneHandshake
<1>3. Readable'
  BY DEF LoopsInv, Readable
<1> QED
  BY <1>2, <1>3 DEF LoopsInv, ReceiveLoopsSurvive

LEMMA ConnectLoops ==
  ASSUME OneWayInv, LoopsInv, NEW e \in Endpoint, ConnectCheck(e) \/ ConnectInsert(e)
  PROVE  LoopsInv'
<1>1. e = Client
  BY Constants, OneWayAssumption
     DEF ConnectCheck, ConnectInsert, OneWayInv, ServerPhase
<1>2. CASE ConnectCheck(Client)
  BY <1>2, LoopsKept DEF ConnectCheck, sendVars
<1>3. CASE ConnectInsert(Client)
  <2>1. /\ state[Server] = "NoPeer" /\ net[Client] = {} /\ net[Server] = {}
    BY <1>3, Constants DEF ConnectInsert, OneWayInv, ClientPhase
  <2>2. /\ state'[Client] = "SynSent" /\ state'[Server] = "NoPeer"
        /\ sent_window'[Client] = {SynPacket} /\ receiving' = receiving
        /\ net'[Client] = {} /\ net'[Server] = {SynPacket}
    BY <1>3, <2>1, Domains, Constants DEF ConnectInsert, Become, Send
  <2>3. SynPacket.type = "Syn" /\ SynPacket.sack = {}
    BY DEF SynPacket, NewPacket
  <2>4. OneHandshake' /\ Readable'
    BY <2>2, <2>3 DEF OneHandshake, Readable
  <2> QED
    BY <2>2, <2>4 DEF LoopsInv, ReceiveLoopsSurvive
<1> QED
  BY <1>1, <1>2, <1>3

LEMMA WriteLoops ==
  ASSUME OneWayInv, LoopsInv, NEW e \in Endpoint, NEW k \in WriteSizes, Write(e, k)
  PROVE  LoopsInv'
<1>1. e = Client /\ state[Client] = "Connected"
  BY OneWayAssumption DEF Write
<1>2. /\ state' = state /\ receiving' = receiving
      /\ sent_window'[Client] = Windowed(Client, k)
      /\ net'[Client] = net[Client] /\ net'[Server] = net[Server] \cup Windowed(Client, k)
  BY <1>1, Domains, Constants DEF Write, Send
<1>3. \A q \in Windowed(Client, k) : q.type = "Data" /\ q.sack = {}
  BY <1>1 DEF Windowed, Chunks, NewPacket, LoopsInv, OneHandshake, Readable
<1>4. OneHandshake'
  BY <1>1, <1>2, <1>3 DEF LoopsInv, OneHandshake
<1>5. Readable'
  BY <1>2, <1>3 DEF LoopsInv, Readable
<1> QED
  BY <1>2, <1>4, <1>5 DEF LoopsInv, ReceiveLoopsSurvive

LEMMA EnvironmentLoops ==
  ASSUME CalmRelease, OneWayInv, LoopsInv, NEW e \in Endpoint,
         SendFin(e) \/ RecvError(e) \/ \E p \in net[e] : Lose(e, p)
  PROVE  LoopsInv'
<1>1. PICK p \in net[e] : Lose(e, p)
  BY DEF CalmRelease, SendFin, RecvError
<1>2. net'[Client] \subseteq net[Client] /\ net'[Server] \subseteq net[Server]
  BY <1>1, Domains, Constants DEF Lose
<1> QED
  BY <1>1, <1>2, LoopsKept DEF Lose, sendVars

LEMMA ClientLoops ==
  ASSUME CalmRelease, OneWayInv, LoopsInv, NEW p \in net[Client], Receive(Client, p)
  PROVE  LoopsInv'
<1>1. p.type \in {"State", "Reset", "Ack"} /\ Decodes(p)
  BY OneWordDecodes DEF OneWayInv, Datagrams, LoopsInv, Readable
<1>2. CASE RecvStateSynSent(Client, p)
  <2>1. p = StatePacket /\ state[Client] = "SynSent" /\ p.type = "State" /\ p.seq_nr = 1
    BY <1>2 DEF RecvStateSynSent, Arrives, LoopsInv, OneHandshake, StatePacket, NewPacket
  <2>2. /\ net'[Client] = net[Client] \ {p} /\ net'[Server] = net[Server]
    BY <1>2, Domains, Constants, CalmExchange DEF RecvStateSynSent
  <2>3. /\ state'[Client] = "Connected" /\ state'[Server] = state[Server]
        /\ sent_window'[Client] = Without(sent_window[Client], 1) /\ receiving' = receiving
    BY <1>2, <2>1, Domains, Constants DEF RecvStateSynSent, Become
  <2>4. sent_window'[Client] = {}
    <3>1. written[Client] = 0
      BY <2>1 DEF OneWayInv, ClientPhase
    <3>2. SynPacket.seq_nr = 1
      BY DEF SynPacket, NewPacket
    <3>3. \A q \in sent_window[Client] : q = SynPacket
      BY <3>1 DEF OneWayInv, ClientPhase, IsChunk
    <3> QED
      BY <2>3, <3>2, <3>3 DEF Without
  <2>5. \A q \in net'[Client] : q.type # "State"
    BY <2>1, <2>2 DEF LoopsInv, OneHandshake
  <2>6. \A q \in net[Server] : q.type \notin {"Syn", "Fin"}
    BY <2>1 DEF LoopsInv, OneHandshake
  <2>7. OneHandshake' /\ Readable'
    BY <2>2, <2>4, <2>5, <2>6 DEF OneHandshake, Readable, LoopsInv
  <2> QED
    BY <2>3, <2>7 DEF LoopsInv, ReceiveLoopsSurvive
<1>3. CASE RecvAck(Client, p)
  <2> DEFINE W == AckedWindow(Client, p)
  <2>1. state[Client] = "Connected"
    BY <1>3 DEF RecvAck, Established, OneWayInv, ClientPhase
  <2>2. LostPackets(p, W) \cup FastResend(Client, p, W) \subseteq sent_window[Client]
    BY DEF LostPackets, FastResend, BelowNewest, AckedWindow
  <2>3. Answer(Client, p, LostPackets(p, W), FastResend(Client, p, W))
    BY <1>3 DEF RecvAck
  <2>4. /\ net'[Client] = net[Client] \ {p} /\ receiving' = receiving
        /\ net'[Server] = net[Server] \cup LostPackets(p, W) \cup FastResend(Client, p, W)
    <3> HIDE DEF W
    <3> QED
      BY <2>3, Domains, Constants, CalmAnswer
  <2>5. sent_window'[Client] \subseteq sent_window[Client] /\ state' = state
    BY <1>3, Domains, Constants DEF RecvAck, AckedWindow
  <2> QED
    BY <2>1, <2>2, <2>4, <2>5, LoopsKept
<1>4. CASE RecvReset(Client, p) \/ RecvUnhandled(Client, p)
  <2>1. state[Client] # "NoPeer"
    BY Constants DEF OneWayInv, ClientPhase
  <2>2. net'[Client] = net[Client] \ {p} /\ net'[Server] = net[Server] /\ receiving' = receiving
    BY <1>4, Domains, Constants, CalmExchange DEF RecvReset, RecvUnhandled
  <2>3. /\ state'[Client] \in {state[Client], "ResetReceived"} /\ state'[Server] = state[Server]
        /\ sent_window' = sent_window
    BY <1>4, <2>1, Domains, Constants DEF RecvReset, RecvUnhandled, Become, Current, sendVars
  <2> QED
    BY <2>2, <2>3, LoopsKept
<1>5. ~ RecvState(Client, p) /\ ~ StatePanic(Client, p)
  BY DEF RecvState, StatePanic, Arrives, LoopsInv, OneHandshake
<1>6. ~ AckPanic(Client, p)
  BY DEF AckPanic, CountOverflows, ResendOverflows, Overflows, CalmRelease
<1> QED
  BY <1>1, <1>2, <1>3, <1>4, <1>5, <1>6
     DEF Receive, RecvUndecodable, RecvSynNew, RecvSynOther, RecvDataInOrder, RecvDataAhead,
         RecvDataOld, DataPanic, RecvFin, Arrives

\* An answer of the server to data: an Ack of at most one word.
LEMMA DataLoops ==
  ASSUME CalmRelease, OneWayInv, LoopsInv, NEW p \in net[Server], NEW sack,
         sack \subseteq OneWord, Established(Server),
         Answer(Server, p, {}, {AckPacket(Server, sack)}),
         state' = state, sent_window' = sent_window
  PROVE  LoopsInv'
<1> DEFINE q == AckPacket(Server, sack)
<1>1. q.type = "Ack" /\ q.sack = sack
  BY DEF AckPacket, NewPacket
<1> HIDE DEF q
<1>2. /\ net'[Server] = net[Server] \ {p} /\ net'[Client] = net[Client] \cup {q}
      /\ receiving' = receiving
  <2>1. Answer(Server, p, {}, {q})
    BY DEF q
  <2> QED
    BY <2>1, Domains, ServerReply
<1>3. OneHandshake' /\ Readable'
  BY <1>1, <1>2 DEF OneHandshake, Readable, LoopsInv
<1> QED
  BY <1>2, <1>3 DEF LoopsInv, ReceiveLoopsSurvive

LEMMA ServerLoops ==
  ASSUME CalmRelease, OneWayInv, OneWayInv', NarrowGaps', LoopsInv,
         NEW p \in net[Server], Receive(Server, p)
  PROVE  LoopsInv'
<1>1. p.type \in {"Syn", "Data"} /\ Decodes(p)
  BY ServerReceives, OneWordDecodes DEF LoopsInv, OneHandshake, Readable
<1>2. CASE RecvSynNew(Server, p)
  <2>1. /\ p = SynPacket /\ p.type = "Syn" /\ p.seq_nr = 1 /\ state[Client] # "Connected"
        /\ \A q \in net[Client] : q.type # "State"
    BY <1>2 DEF RecvSynNew, Arrives, LoopsInv, OneHandshake, SynPacket, NewPacket
  <2>2. Answer(Server, p, {}, {StatePacket})
    BY <1>2, <2>1 DEF RecvSynNew, StatePacket
  <2>3. /\ net'[Server] = net[Server] \ {p} /\ net'[Client] = net[Client] \cup {StatePacket}
        /\ receiving' = receiving
    BY <2>2, Domains, ServerReply
  <2>4. state'[Client] = state[Client] /\ sent_window' = sent_window
    BY <1>2, Domains, Constants DEF RecvSynNew, Become, sendVars
  <2>5. \A q \in net'[Server] : q.type \notin {"Syn", "Fin"}
    BY <2>1, <2>3 DEF LoopsInv, OneHandshake
  <2>6. StatePacket.type = "State" /\ StatePacket.sack = {}
    BY DEF StatePacket, NewPacket
  <2>7. OneHandshake'
    BY <2>1, <2>3, <2>4, <2>5 DEF LoopsInv, OneHandshake
  <2>8. Readable'
    BY <2>3, <2>4, <2>6 DEF LoopsInv, Readable
  <2> QED
    BY <2>3, <2>7, <2>8 DEF LoopsInv, ReceiveLoopsSurvive
<1>3. ~ RecvSynOther(Server, p)
  BY DEF RecvSynOther, Arrives, Current, LoopsInv, OneHandshake
<1>4. CASE RecvUnhandled(Server, p)
  <2>1. net'[Server] = net[Server] \ {p} /\ net'[Client] = net[Client] /\ receiving' = receiving
    BY <1>4, Domains, Constants, CalmExchange DEF RecvUnhandled
  <2>2. /\ state'[Client] = state[Client] /\ sent_window' = sent_window
        /\ state'[Server] = state[Server] \/ state'[Server] \in {"NoPeer", "New"}
    BY <1>4, Domains, Constants DEF RecvUnhandled, Become, Current, sendVars
  <2> QED
    BY <2>1, <2>2, LoopsKept
<1>5. CASE RecvDataInOrder(Server, p)
  BY <1>5, DataLoops DEF RecvDataInOrder
<1>6. CASE RecvDataAhead(Server, p)
  <2>1. SackBits(Server) \subseteq OneWord
    <3> SUFFICES ASSUME NEW q \in out_of_order'[Server], q.seq_nr > last_acked[Server]
                 PROVE  q.seq_nr - last_acked[Server] - 1 \in OneWord
      BY DEF SackBits, BitsOf
    <3>1. last_acked'[Server] = last_acked[Server] /\ last_acked[Server] \in Nat
      BY <1>6, Domains, Constants DEF RecvDataAhead, ackVars, SeqNr
    <3>2. q \in Packet
      BY Constants DEF OneWayInv, TypeOK
    <3>3. q.seq_nr \in Nat
      BY <3>2, PacketFields
    <3> QED
      BY <3>1, <3>3, Constants DEF NarrowGaps, OneWord
  <2> QED
    BY <1>6, <2>1, DataLoops DEF RecvDataAhead, sendVars
<1>7. CASE RecvDataOld(Server, p)
  BY <1>7, DataLoops DEF RecvDataOld, sendVars
<1>8. ~ DataPanic(Server, p)
  BY DEF DataPanic, Overflows, CalmRelease
<1> QED
  BY <1>1, <1>2, <1>3, <1>4, <1>5, <1>6, <1>7, <1>8
     DEF Receive, RecvUndecodable, RecvStateSynSent, RecvState, StatePanic, RecvAck, AckPanic,
         RecvFin, RecvReset, Arrives

LEMMA StepLoops ==
  ASSUME CalmRelease
  PROVE  OneWayInv /\ OneWayInv' /\ NarrowGaps' /\ LoopsInv /\ [Next]_vars => LoopsInv'
<1> SUFFICES ASSUME OneWayInv, OneWayInv', NarrowGaps', LoopsInv, [Next]_vars PROVE LoopsInv'
  OBVIOUS
<1>1. CASE UNCHANGED vars
  BY <1>1 DEF vars, sendVars, LoopsInv, OneHandshake, Readable, ReceiveLoopsSurvive
<1>2. ASSUME NEW e \in Endpoint, NEW p \in net[e], Receive(e, p) PROVE LoopsInv'
  <2>1. CASE e = Client
    BY <1>2, <2>1, ClientLoops
  <2>2. CASE e = Server
    BY <1>2, <2>2, ServerLoops
  <2> QED
    BY <2>1, <2>2, Constants
<1>3. ASSUME NEW e \in Endpoint, ConnectCheck(e) \/ ConnectInsert(e) PROVE LoopsInv'
  BY <1>3, ConnectLoops
<1>4. ASSUME NEW e \in Endpoint, NEW k \in WriteSizes, Write(e, k) PROVE LoopsInv'
  BY <1>4, WriteLoops
<1>5. ASSUME NEW e \in Endpoint,
             SendFin(e) \/ RecvError(e) \/ \E p \in net[e] : Lose(e, p)
      PROVE  LoopsInv'
  BY <1>5, EnvironmentLoops
<1> QED
  BY <1>1, <1>2, <1>3, <1>4, <1>5 DEF Next

\* As long as every gap fits one word of selective ack, no receive loop of the
\* release build ends while the network duplicates nothing: every reply can be
\* parsed, and no State reaches a connected client (recv_packets_from).
THEOREM LoopsSurviveNarrowGaps ==
  ASSUME CalmRelease
  PROVE  Spec /\ []NarrowGaps => []ReceiveLoopsSurvive
<1>1. Init => LoopsInv
  BY InitLoops
<1>2. OneWayInv /\ OneWayInv' /\ NarrowGaps' /\ LoopsInv /\ [Next]_vars => LoopsInv'
  BY StepLoops
<1>3. LoopsInv => ReceiveLoopsSurvive
  BY DEF LoopsInv
<1> QED
  BY <1>1, <1>2, <1>3, InvHolds, PTL DEF Spec

\* A transfer of at most SackWord chunks has narrow gaps only.
THEOREM LoopsSurviveShortTransfer ==
  ASSUME CalmRelease, MaxChunks <= SackWord
  PROVE  Spec => []ReceiveLoopsSurvive
<1>1. OneWayInv => NarrowGaps
  <2> SUFFICES ASSUME OneWayInv, NEW q \in out_of_order[Server]
               PROVE  q.seq_nr <= last_acked[Server] + SackWord
    BY DEF NarrowGaps
  <2>1. IsChunk(q) /\ q.data <= MaxChunks /\ q.seq_nr = q.data + 1 /\ q.data \in Nat
    <3>1. IsChunk(q)
      BY DEF OneWayInv, ServerPhase
    <3>2. q.data \in 1 .. written[Client] /\ q.seq_nr = q.data + 1 /\ q.data \in Nat
      BY <3>1, ChunkNumber
    <3>3. written[Client] \in 0 .. MaxChunks
      BY Domains, Constants
    <3> QED
      BY <3>1, <3>2, <3>3, Constants
  <2>2. last_acked[Server] = Len(Accepted) + 1 /\ Len(Accepted) \in Nat
    BY ServerNumbers DEF OneWayInv, ServerPhase
  <2> QED
    BY <2>1, <2>2, Constants
<1> QED
  BY <1>1, InvHolds, LoopsSurviveNarrowGaps, PTL

-----------------------------------------------------------------------------
(* One direction implements the ordered stream: what the sender's window,  *)
(* the receiver's out_of_order and its accepted chunks are to the stream   *)
(* follows from the refinement mapping of UtpOneWay.                       *)

\* The chunks of the client's window.
Unacked == {q.data : q \in sent_window[Client]} \ {NoData}

LEMMA StreamStutter ==
  ASSUME written'[Client] = written[Client], Unacked' = Unacked,
         Stored' = Stored, Accepted' = Accepted
  PROVE  UNCHANGED Stream!vars
BY DEF Stream!vars, Unacked

\* Steps that leave the window and the receiver alone.
LEMMA IdleRefines ==
  ASSUME UNCHANGED <<written, sent_window, out_of_order, incoming_buffer, delivered>>
  PROVE  UNCHANGED Stream!vars
<1>1. Unacked' = Unacked /\ Stored' = Stored /\ Accepted' = Accepted
  BY DEF Unacked, Stored, Accepted
<1> QED
  BY <1>1, StreamStutter

LEMMA InitRefines == Init => Stream!Init
<1> SUFFICES ASSUME Init PROVE Stream!Init
  OBVIOUS
<1>1. /\ written[Client] = 0 /\ sent_window[Client] = {} /\ out_of_order[Server] = {}
      /\ delivered[Server] = << >> /\ incoming_buffer[Server] = << >>
  BY Constants DEF Init
<1>2. Accepted = << >>
  BY <1>1 DEF Accepted
<1> QED
  BY <1>1, <1>2 DEF Stream!Init, Stored

\* Before the first chunk is written a window holds none.
LEMMA NothingUnacked ==
  ASSUME NEW W, \A q \in W : q = SynPacket \/ q.data \in 1 .. 0
  PROVE  {q.data : q \in W} \ {NoData} = {}
<1>1. SynPacket.data = NoData
  BY DEF SynPacket, NewPacket
<1>2. \A q \in W : q.data = NoData
  BY <1>1
<1> QED
  BY <1>2

LEMMA ConnectRefines ==
  ASSUME OneWayInv, OneWayInv', NEW e \in Endpoint, ConnectCheck(e) \/ ConnectInsert(e)
  PROVE  [Stream!Next]_Stream!vars
<1>1. CASE ConnectCheck(e)
  BY <1>1, IdleRefines DEF ConnectCheck, sendVars, recvVars
<1>2. CASE ConnectInsert(e)
  <2>1. e = Client
    <3>1. ~ connecting[Server]
      BY DEF OneWayInv, ServerPhase
    <3>2. connecting[e]
      BY <1>2 DEF ConnectInsert
    <3> QED
      BY <3>1, <3>2, Constants
  <2>2. written[Client] = 0
    BY <1>2, <2>1 DEF ConnectInsert, OneWayInv, ClientPhase
  <2>3. /\ written' = written /\ delivered' = delivered
        /\ incoming_buffer'[Server] = incoming_buffer[Server]
        /\ out_of_order'[Server] = out_of_order[Server]
    BY <1>2, <2>1, Domains, Constants DEF ConnectInsert
  <2>4. Unacked = {} /\ Unacked' = {}
    <3>1. /\ \A q \in sent_window[Client] : q = SynPacket \/ q.data \in 1 .. 0
          /\ \A q \in sent_window'[Client] : q = SynPacket \/ q.data \in 1 .. 0
      BY <2>2, <2>3 DEF OneWayInv, ClientPhase, IsChunk
    <3> QED
      BY <3>1, NothingUnacked DEF Unacked
  <2>5. Stored' = Stored /\ Accepted' = Accepted
    BY <2>3 DEF Stored, Accepted
  <2> QED
    BY <2>3, <2>4, <2>5, StreamStutter
<1> QED
  BY <1>1, <1>2

LEMMA WriteRefines ==
  ASSUME OneWayInv, NEW e \in Endpoint, NEW k \in WriteSizes, Write(e, k)
  PROVE  Stream!Next
<1> DEFINE w == written[Client]
<1>1. e = Client /\ state[Client] = "Connected" /\ w + k <= MaxChunks
  BY OneWayAssumption DEF Write
<1>2. k \in Nat /\ w \in Nat /\ MaxChunks \in Nat
  BY Constants, Domains
<1>3. seq_nr[Client] = w + 2
  BY <1>1 DEF OneWayInv, ClientPhase
<1>4. /\ written'[Client] = w + k
      /\ sent_window'[Client] = Windowed(Client, k)
      /\ UNCHANGED <<out_of_order, incoming_buffer, delivered>>
  BY <1>1, Domains, Constants DEF Write, recvVars
<1>5. \A q \in Chunks(Client, k) : q.data \in w + 1 .. w + k /\ q.seq_nr >= w + 2
  <2> SUFFICES ASSUME NEW j \in 0 .. k - 1
               PROVE  /\ w + j + 1 \in w + 1 .. w + k
                      /\ (seq_nr[Client] + j) % U16 >= w + 2
    BY DEF Chunks, NewPacket
  <2>1. seq_nr[Client] + j = w + 2 + j /\ w + 2 + j \in Nat /\ w + 2 + j < U16
    BY <1>1, <1>2, <1>3, Constants, OneWayAssumption
  <2>2. (seq_nr[Client] + j) % U16 = w + 2 + j
    BY <2>1, NoWrap
  <2> QED
    BY <1>2, <2>2
<1>6. ASSUME NEW c \in w + 1 .. w + k
      PROVE  \E q \in Chunks(Client, k) : q.data = c
  <2> DEFINE j == c - w - 1
             q == NewPacket("Data", (seq_nr[Client] + j) % U16, ack_nr[Client],
                            {}, w + j + 1)
  <2>1. j \in 0 .. k - 1 /\ w + j + 1 = c
    BY <1>2
  <2>2. q \in Chunks(Client, k)
    BY <2>1 DEF Chunks
  <2>3. q.data = c
    BY <2>1 DEF NewPacket
  <2> QED
    BY <2>2, <2>3
<1>7. ASSUME NEW q \in sent_window[Client], q.data # NoData
      PROVE  q \in Windowed(Client, k)
  <2>1. SynPacket.data = NoData
    BY DEF SynPacket, NewPacket
  <2>2. IsChunk(q)
    BY <1>7, <2>1 DEF OneWayInv, ClientPhase
  <2>3. q.seq_nr <= w + 1 /\ q.seq_nr \in Nat
    BY <1>2, <2>2, ChunkNumber
  <2>4. ~ HasSeq(Chunks(Client, k), q.seq_nr)
    BY <1>2, <1>5, <2>3 DEF HasSeq
  <2> QED
    BY <2>4 DEF Windowed
<1>8. Unacked' = Unacked \cup (w + 1 .. w + k)
  <2>1. ASSUME NEW c \in Unacked PROVE c \in Unacked'
    BY <1>4, <1>7 DEF Unacked
  <2>2. ASSUME NEW c \in w + 1 .. w + k PROVE c \in Unacked'
    <3>1. PICK q \in Chunks(Client, k) : q.data = c
      BY <1>6
    <3>2. c # NoData
      BY <1>2 DEF NoData
    <3> QED
      BY <1>4, <3>1, <3>2 DEF Unacked, Windowed
  <2>3. ASSUME NEW c \in Unacked' PROVE c \in Unacked \cup (w + 1 .. w + k)
    <3>1. PICK q \in Windowed(Client, k) : q.data = c /\ c # NoData
      BY <1>4 DEF Unacked
    <3> QED
      BY <1>5, <3>1 DEF Unacked, Windowed
  <2> QED
    BY <2>1, <2>2, <2>3
<1>9. Stored' = Stored /\ Accepted' = Accepted
  BY <1>4 DEF Stored, Accepted
<1>10. Stream!Write(k)
  BY <1>4, <1>8, <1>9 DEF Stream!Write, Unacked
<1> QED
  BY <1>10 DEF Stream!Next

\* A window that only loses packets the server holds.
LEMMA ForgetRefines ==
  ASSUME sent_window'[Client] \subseteq sent_window[Client],
         \A q \in sent_window[Client] \ sent_window'[Client] :
           q.data = NoData \/ Held(q.data),
         UNCHANGED <<written, out_of_order, incoming_buffer, delivered>>
  PROVE  Stream!Next
<1>1. PICK S : S = Unacked \ Unacked'
  OBVIOUS
<1>2. ASSUME NEW c \in S PROVE Stream!Held(c)
  <2>1. PICK q \in sent_window[Client] : q.data = c /\ c # NoData
    BY <1>1 DEF Unacked
  <2>2. q \notin sent_window'[Client]
    BY <1>1, <2>1 DEF Unacked
  <2>3. Held(c)
    BY <2>1, <2>2
  <2> QED
    BY <2>3 DEF Stream!Held, Held
<1>3. Unacked' = Unacked \ S /\ S \in SUBSET Unacked
  BY <1>1 DEF Unacked
<1>4. Stored' = Stored /\ Accepted' = Accepted /\ written'[Client] = written[Client]
  BY DEF Stored, Accepted
<1>5. Stream!Forget(S)
  BY <1>2, <1>3, <1>4 DEF Stream!Forget, Unacked
<1> QED
  BY <1>3, <1>5 DEF Stream!Next, Unacked

LEMMA RecvAckRefines ==
  ASSUME OneWayInv, NEW p \in net[Client], RecvAck(Client, p) \/ AckPanic(Client, p)
  PROVE  Stream!Next
<1> DEFINE W == AckedWindow(Client, p)
<1>1. /\ UNCHANGED <<written, out_of_order, incoming_buffer, delivered>>
      /\ p.type = "Ack"
  BY DEF RecvAck, AckPanic, Arrives, recvVars
<1>2. W \subseteq sent_window[Client]
  BY DEF AckedWindow
<1>3. sent_window'[Client] \in {sent_window[Client], W, W \ SackedPackets(p, W)}
  BY Domains, Constants DEF RecvAck, AckPanic
<1>4. ASSUME NEW q \in sent_window[Client] \ sent_window'[Client]
      PROVE  q.data = NoData \/ Held(q.data)
  <2>1. CASE q = SynPacket
    BY <2>1 DEF SynPacket, NewPacket
  <2>2. CASE IsChunk(q)
    <3>1. q \notin W \/ q \in SackedPackets(p, W)
      BY <1>3
    <3> QED
      BY <1>1, <2>2, <3>1, AckedIsHeld
  <2> QED
    BY <2>1, <2>2 DEF OneWayInv, ClientPhase
<1> QED
  BY <1>1, <1>2, <1>3, <1>4, ForgetRefines

LEMMA HandshakeRefines ==
  ASSUME OneWayInv, OneWayInv', NEW p \in net[Client], RecvStateSynSent(Client, p)
  PROVE  UNCHANGED Stream!vars
<1>1. written[Client] = 0
  BY DEF RecvStateSynSent, OneWayInv, ClientPhase
<1>2. UNCHANGED <<written, out_of_order, incoming_buffer, delivered>>
  BY DEF RecvStateSynSent, recvVars
<1>3. Unacked = {} /\ Unacked' = {}
  <2>1. /\ \A q \in sent_window[Client] : q = SynPacket \/ q.data \in 1 .. 0
        /\ \A q \in sent_window'[Client] : q = SynPacket \/ q.data \in 1 .. 0
    BY <1>1, <1>2 DEF OneWayInv, ClientPhase, IsChunk
  <2> QED
    BY <2>1, NothingUnacked DEF Unacked
<1>4. Stored' = Stored /\ Accepted' = Accepted
  BY <1>2 DEF Stored, Accepted
<1> QED
  BY <1>2, <1>3, <1>4, StreamStutter

LEMMA DataAheadRefines ==
  ASSUME OneWayInv, NEW p \in net[Server], RecvDataAhead(Server, p)
  PROVE  Stream!Next
<1> DEFINE L == Len(Accepted)
<1>1. Established(Server) /\ IsChunk(p)
  BY ServerReceives DEF RecvDataAhead, Arrives
<1>2. L \in Nat /\ last_acked[Server] = L + 1 /\ Inc(last_acked[Server]) = L + 2
      /\ written[Client] \in Nat
  BY <1>1, ServerNumbers
<1>3. p.data \in L + 2 .. written[Client] /\ p.data \in 1 .. written[Client]
  <2>1. p.seq_nr > L + 1 /\ p.seq_nr # L + 2
    BY <1>2 DEF RecvDataAhead
  <2> QED
    BY <1>1, <1>2, <2>1, ChunkNumber
<1>4. out_of_order'[Server] = Without(out_of_order[Server], p.seq_nr) \cup {p}
  BY Domains, Constants DEF RecvDataAhead
<1>5. Stored' = Stored \cup {p.data}
  <2>1. ASSUME NEW q \in out_of_order[Server], q.seq_nr = p.seq_nr
        PROVE  q.data = p.data
    <3>1. IsChunk(q)
      BY DEF OneWayInv, ServerPhase
    <3> QED
      BY <1>1, <2>1, <3>1, ChunkNumber
  <2> QED
    BY <1>4, <2>1 DEF Stored, Without
<1>6. UNCHANGED <<written, sent_window, incoming_buffer, delivered>>
  BY DEF RecvDataAhead, sendVars
<1>7. Unacked' = Unacked /\ Accepted' = Accepted
  BY <1>6 DEF Unacked, Accepted
<1>8. Stream!Store(p.data)
  BY <1>3, <1>5, <1>6, <1>7 DEF Stream!Store, Unacked
<1> QED
  BY <1>3, <1>8 DEF Stream!Next

LEMMA DataInOrderRefines ==
  ASSUME OneWayInv, NEW p \in net[Server], RecvDataInOrder(Server, p)
  PROVE  Stream!Next
<1> DEFINE D == Drained(Server, p.seq_nr)
           L == Len(Accepted)
           O == out_of_order[Server]
<1>1. PICK d \in Nat :
        /\ L \in Nat /\ L + d + 1 <= written[Client]
        /\ Accepted' \in Seq(0 .. MaxChunks)
        /\ Len(Accepted)' = L + d + 1
        /\ \A i \in 1 .. Len(Accepted)' : Accepted'[i] = i
        /\ out_of_order'[Server] = O \ D
        /\ \A q \in D : q.data <= L + d + 1
        /\ L + 2 .. L + d + 1 \subseteq Stored
        /\ \A q \in O \ D : q.data > L + d + 2
  BY DataInOrderEffect
<1> DEFINE n == L + d + 1
<1>2. n \in L + 1 .. written[Client] /\ n \in 1 .. written[Client] /\ n \in Nat
  BY <1>1, Domains
<1>3. \A q \in O : q.data \in Nat
  BY ChunkNumber DEF OneWayInv, ServerPhase
<1>4. \A q \in O : q.data # n + 1
  <2>1. \A q \in D : q.data <= n
    BY <1>1
  <2>2. \A q \in O \ D : q.data > n + 1
    BY <1>1
  <2> QED
    BY <1>2, <1>3, <2>1, <2>2
<1>5. n + 1 \notin Stored
  BY <1>4 DEF Stored
<1>6. Accepted' = [i \in 1 .. n |-> i]
  <2>1. Accepted' \in [1 .. n -> 0 .. MaxChunks]
    <3>1. DOMAIN Accepted' = 1 .. Len(Accepted') /\ Len(Accepted') = n
      BY <1>1, LenProperties
    <3> QED
      BY <1>1, <3>1, LenProperties
  <2>2. \A i \in 1 .. n : Accepted'[i] = i
    BY <1>1
  <2> QED
    BY <2>1, <2>2
<1>7. Stored' = {c \in Stored : c > n}
  <2>1. \A q \in O : q.data > n <=> q \notin D
    BY <1>1, <1>3
  <2>2. Stored' = {q.data : q \in O \ D}
    BY <1>1 DEF Stored
  <2> QED
    BY <2>1, <2>2 DEF Stored
<1>8. UNCHANGED <<written, sent_window>>
  BY DEF RecvDataInOrder
<1>9. Unacked' = Unacked
  BY <1>8 DEF Unacked
<1>10. Stream!Take(n)
  BY <1>1, <1>2, <1>5, <1>6, <1>7, <1>8, <1>9 DEF Stream!Take, Unacked
<1> QED
  BY <1>2, <1>10 DEF Stream!Next

LEMMA ReceiveRefines ==
  ASSUME OneWayInv, OneWayInv', NEW e \in Endpoint, NEW p \in net[e], Receive(e, p)
  PROVE  [Stream!Next]_Stream!vars
<1>1. CASE \/ RecvUndecodable(e, p) \/ RecvSynNew(e, p) \/ RecvSynOther(e, p)
           \/ RecvState(e, p) \/ StatePanic(e, p) \/ RecvDataOld(e, p)
           \/ RecvFin(e, p) \/ RecvReset(e, p) \/ RecvUnhandled(e, p)
  <2>1. UNCHANGED <<written, sent_window, out_of_order, incoming_buffer, delivered>>
    BY <1>1 DEF RecvUndecodable, RecvSynNew, RecvSynOther, RecvState, StatePanic,
                RecvDataOld, RecvFin, RecvReset, RecvUnhandled, sendVars, recvVars
  <2> QED
    BY <2>1, IdleRefines
<1>2. CASE e = Client
  <2>1. p.type \in {"State", "Reset", "Ack"}
    BY <1>2 DEF OneWayInv, Datagrams
  <2>2. CASE RecvStateSynSent(e, p)
    BY <1>2, <2>2, HandshakeRefines
  <2>3. CASE RecvAck(e, p) \/ AckPanic(e, p)
    BY <1>2, <2>3, RecvAckRefines
  <2> QED
    BY <1>1, <2>1, <2>2, <2>3
       DEF Receive, RecvDataInOrder, RecvDataAhead, DataPanic, Arrives
<1>3. CASE e = Server
  <2>1. p.type \in {"Fin", "Syn", "Data"}
    BY <1>3, ServerReceives
  <2>2. ~ DataPanic(e, p)
    BY <1>3, NoDataPanic
  <2>3. CASE RecvDataInOrder(e, p)
    BY <1>3, <2>3, DataInOrderRefines
  <2>4. CASE RecvDataAhead(e, p)
    BY <1>3, <2>4, DataAheadRefines
  <2> QED
    BY <1>1, <2>1, <2>2, <2>3, <2>4
       DEF Receive, RecvStateSynSent, RecvAck, AckPanic, Arrives
<1> QED
  BY <1>2, <1>3, Constants

LEMMA StepRefines ==
  OneWayInv /\ OneWayInv' /\ [Next]_vars => [Stream!Next]_Stream!vars
<1> SUFFICES ASSUME OneWayInv, OneWayInv', [Next]_vars
             PROVE  [Stream!Next]_Stream!vars
  OBVIOUS
<1>1. ASSUME NEW e \in Endpoint, ConnectCheck(e) \/ ConnectInsert(e)
      PROVE  [Stream!Next]_Stream!vars
  BY <1>1, ConnectRefines
<1>2. ASSUME NEW e \in Endpoint, NEW k \in WriteSizes, Write(e, k)
      PROVE  [Stream!Next]_Stream!vars
  BY <1>2, WriteRefines
<1>3. ASSUME NEW e \in Endpoint,
             SendFin(e) \/ RecvError(e) \/ \E p \in net[e] : Lose(e, p)
      PROVE  [Stream!Next]_Stream!vars
  <2>1. UNCHANGED <<written, sent_window, out_of_order, incoming_buffer, delivered>>
    BY <1>3 DEF SendFin, RecvError, Lose, sendVars, recvVars
  <2> QED
    BY <2>1, IdleRefines
<1>4. ASSUME NEW e \in Endpoint, NEW p \in net[e], Receive(e, p)
      PROVE  [Stream!Next]_Stream!vars
  BY <1>4, ReceiveRefines
<1>5. CASE UNCHANGED vars
  <2>1. UNCHANGED <<written, sent_window, out_of_order, incoming_buffer, delivered>>
    BY <1>5 DEF vars, sendVars, recvVars
  <2> QED
    BY <2>1, IdleRefines
<1> QED
  BY <1>1, <1>2, <1>3, <1>4, <1>5 DEF Next

\* A connection with one writer implements the ordered stream: every step of
\* any handler of socket.rs writes, stores, takes or forgets chunks as the
\* stream allows, or leaves the stream alone.
THEOREM OneWayRefines == Spec => ImplementsStream
BY InitRefines, StepRefines, InvHolds, PTL DEF Spec, ImplementsStream, Stream!Spec
=============================================================================
