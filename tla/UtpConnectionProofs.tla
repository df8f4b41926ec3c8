------------------------ MODULE UtpConnectionProofs ------------------------
(***************************************************************************)
(* Proofs about the connection whatever its two endpoints do: what every   *)
(* use of it shares, for every width of the numbers, every bound on the    *)
(* chunks, both build profiles and every kind of network.                  *)
(***************************************************************************)
EXTENDS UtpConnection, SequenceTheorems, TLAPS

-----------------------------------------------------------------------------
(* Numbers and packets.                                                    *)

LEMMA WrapInRange ==
  \A n \in Nat : n % U16 \in SeqNr
BY WidthAssumption DEF SeqNr

LEMMA NoWrap ==
  ASSUME NEW n \in Nat, n < U16
  PROVE  n % U16 = n
BY WidthAssumption

LEMMA IncNoWrap ==
  ASSUME NEW n \in Nat, n + 1 < U16
  PROVE  Inc(n) = n + 1
BY WidthAssumption DEF Inc

LEMMA IncType == \A n \in SeqNr : Inc(n) \in SeqNr
BY WidthAssumption DEF SeqNr, Inc

LEMMA NewPacketType ==
  ASSUME NEW t \in PacketType, NEW seq \in SeqNr, NEW ack \in SeqNr,
         NEW sack \in SUBSET SeqNr, NEW data \in 0 .. MaxChunks
  PROVE  NewPacket(t, seq, ack, sack, data) \in Packet
BY DEF NewPacket, Packet

LEMMA Constants ==
  /\ Endpoint = {Client, Server} /\ Client # Server
  /\ Other(Client) = Server /\ Other(Server) = Client
  /\ U16 \in Nat /\ U16 > 3 /\ SackWord \in Nat /\ MaxChunks \in Nat
  /\ 0 \in SeqNr /\ 1 \in SeqNr
  /\ SynPacket \in Packet
  /\ \A k \in WriteSizes : k \in Nat
BY EndpointAssumption, WidthAssumption, EnvironmentAssumption, NewPacketType
   DEF Endpoint, Other, SeqNr, SynPacket, NewPacket, Packet, PacketType, NoData

LEMMA PacketFields ==
  ASSUME NEW p \in Packet
  PROVE  /\ p.type \in PacketType /\ p.seq_nr \in SeqNr /\ p.ack_nr \in SeqNr
         /\ p.seq_nr \in Nat /\ p.seq_nr < U16 /\ p.ack_nr \in Nat /\ p.ack_nr < U16
         /\ p.sack \subseteq SeqNr /\ \A i \in p.sack : i \in Nat
         /\ p.data \in 0 .. MaxChunks
<1>1. /\ p.type \in PacketType /\ p.seq_nr \in SeqNr /\ p.ack_nr \in SeqNr
      /\ p.sack \subseteq SeqNr /\ p.data \in 0 .. MaxChunks
  BY DEF Packet
<1> QED
  BY <1>1, Constants DEF SeqNr

LEMMA RunType ==
  ASSUME NEW D \in SUBSET Packet, NEW n \in SeqNr, NEW d \in SeqNr, IsRun(D, n, d)
  PROVE  /\ Run(D, n, d) \in Seq(0 .. MaxChunks)
         /\ Len(Run(D, n, d)) = d
         /\ \A j \in 1 .. d : \E q \in D : q.seq_nr = (n + j) % U16 /\ Run(D, n, d)[j] = q.data
<1>1. \A j \in 1 .. d : \E q \in D : q.seq_nr = (n + j) % U16
  BY DEF IsRun
<1>2. \A j \in 1 .. d :
        LET q == CHOOSE q \in D : q.seq_nr = (n + j) % U16
        IN  q \in D /\ q.seq_nr = (n + j) % U16
  BY <1>1
<1>3. \A q \in D : q.data \in 0 .. MaxChunks
  BY DEF Packet
<1>4. Run(D, n, d) \in [1 .. d -> 0 .. MaxChunks]
  BY <1>2, <1>3 DEF Run
<1>5. d \in Nat
  BY DEF SeqNr
<1>6. Run(D, n, d) \in Seq(0 .. MaxChunks)
  BY <1>4, <1>5, SeqDef
<1>7. DOMAIN Run(D, n, d) = 1 .. d
  BY DEF Run
<1>8. Len(Run(D, n, d)) = d
  BY <1>5, <1>6, <1>7, LenProperties
<1>9. ASSUME NEW j \in 1 .. d
      PROVE  \E q \in D : q.seq_nr = (n + j) % U16 /\ Run(D, n, d)[j] = q.data
  BY <1>2 DEF Run
<1> QED
  BY <1>6, <1>8, <1>9

-----------------------------------------------------------------------------
(* Type correctness.                                                       *)

LEMMA InitType == Init => TypeOK
BY Constants, EmptySeq DEF Init, TypeOK, SocketState

LEMMA ExchangeType ==
  ASSUME TypeOK, NEW e \in Endpoint, NEW p, NEW out \in SUBSET Packet, Exchange(e, p, out)
  PROVE  net' \in [Endpoint -> SUBSET Packet]
BY DEF Exchange, TypeOK

LEMMA AnswerType ==
  ASSUME TypeOK, NEW e \in Endpoint, NEW p, NEW sent \in SUBSET Packet,
         NEW rsp \in SUBSET Packet, Answer(e, p, sent, rsp)
  PROVE  /\ net' \in [Endpoint -> SUBSET Packet]
         /\ receiving' \in [Endpoint -> {"running", "stopped", "panicked"}]
<1>1. CASE Exchange(e, p, sent \cup rsp) /\ UNCHANGED receiving
  BY <1>1, ExchangeType DEF TypeOK
<1>2. CASE Exchange(e, p, sent) /\ receiving' = [receiving EXCEPT ![e] = "stopped"]
  BY <1>2, ExchangeType DEF TypeOK
<1> QED
  BY <1>1, <1>2 DEF Answer

LEMMA WriteType ==
  ASSUME TypeOK, NEW e \in Endpoint, NEW k \in WriteSizes, Write(e, k)
  PROVE  TypeOK'
<1>1. /\ k \in Nat /\ written[e] \in Nat /\ written[e] + k <= MaxChunks
      /\ seq_nr[e] \in SeqNr /\ ack_nr[e] \in SeqNr /\ MaxChunks \in Nat
  BY Constants DEF Write, TypeOK
<1>2. Chunks(e, k) \subseteq Packet
  <2> SUFFICES ASSUME NEW j \in 0 .. k - 1
               PROVE  NewPacket("Data", (seq_nr[e] + j) % U16, ack_nr[e], {},
                                written[e] + j + 1) \in Packet
    BY DEF Chunks
  <2>1. (seq_nr[e] + j) % U16 \in SeqNr
    BY <1>1, WrapInRange DEF SeqNr
  <2>2. written[e] + j + 1 \in 0 .. MaxChunks
    BY <1>1
  <2> QED
    BY <1>1, <2>1, <2>2, NewPacketType DEF PacketType
<1>3. Windowed(e, k) \subseteq Packet
  BY <1>2 DEF Windowed, TypeOK
<1>4. (seq_nr[e] + k) % U16 \in SeqNr
  BY <1>1, WrapInRange DEF SeqNr
<1>5. net' \in [Endpoint -> SUBSET Packet]
  BY <1>3 DEF Write, Send, TypeOK
<1>6. written' \in [Endpoint -> 0 .. MaxChunks] /\ seq_nr' \in [Endpoint -> SeqNr]
  BY <1>1, <1>4 DEF Write, TypeOK
<1>7. sent_window' \in [Endpoint -> SUBSET Packet]
  BY <1>3 DEF Write, TypeOK
<1> QED
  BY <1>5, <1>6, <1>7 DEF Write, TypeOK, ackVars, recvVars

LEMMA DeliverType ==
  ASSUME TypeOK, NEW e \in Endpoint, NEW chunks \in Seq(0 .. MaxChunks),
         Deliver(e, chunks)
  PROVE  /\ incoming_buffer' \in [Endpoint -> Seq(0 .. MaxChunks)]
         /\ delivered' \in [Endpoint -> Seq(0 .. MaxChunks)]
<1>1. /\ incoming_buffer[e] \o chunks \in Seq(0 .. MaxChunks)
      /\ delivered[e] \o incoming_buffer[e] \o chunks \in Seq(0 .. MaxChunks)
      /\ << >> \in Seq(0 .. MaxChunks)
  BY ConcatProperties, EmptySeq DEF TypeOK
<1>2. CASE /\ delivered' = [delivered EXCEPT ![e] = @ \o incoming_buffer[e] \o chunks]
           /\ incoming_buffer' = [incoming_buffer EXCEPT ![e] = << >>]
  BY <1>1, <1>2 DEF TypeOK
<1>3. CASE /\ incoming_buffer' = [incoming_buffer EXCEPT ![e] = @ \o chunks]
           /\ UNCHANGED delivered
  BY <1>1, <1>3 DEF TypeOK
<1> QED
  BY <1>2, <1>3 DEF Deliver

LEMMA DataInOrderType ==
  ASSUME TypeOK, NEW e \in Endpoint, NEW p \in net[e], RecvDataInOrder(e, p)
  PROVE  TypeOK'
<1> DEFINE D == Drained(e, p.seq_nr)
<1>1. p \in Packet /\ p.seq_nr \in SeqNr /\ p.data \in 0 .. MaxChunks
  BY DEF TypeOK, Packet
<1>2. D \in SUBSET Packet
  BY DEF Drained, TypeOK
<1>3. PICK d \in SeqNr :
        /\ IsRun(D, p.seq_nr, d)
        /\ last_acked' = [last_acked EXCEPT ![e] = (p.seq_nr + d) % U16]
        /\ out_of_order' = [out_of_order EXCEPT ![e] = @ \ D]
        /\ Answer(e, p, {}, {AckPacket(e, {})})
        /\ Deliver(e, <<p.data>> \o Run(D, p.seq_nr, d))
  BY DEF RecvDataInOrder
<1>4. last_acked' \in [Endpoint -> SeqNr] /\ seq_nr' \in [Endpoint -> SeqNr]
  <2>1. (p.seq_nr + d) % U16 \in SeqNr
    BY <1>1, WrapInRange DEF SeqNr
  <2>2. Inc(seq_nr[e]) \in SeqNr
    BY IncType DEF TypeOK
  <2> QED
    BY <1>3, <2>1, <2>2 DEF RecvDataInOrder, TypeOK
<1>5. AckPacket(e, {}) \in Packet
  BY <1>4, Constants, NewPacketType DEF AckPacket, PacketType, NoData
<1>6. /\ net' \in [Endpoint -> SUBSET Packet]
      /\ receiving' \in [Endpoint -> {"running", "stopped", "panicked"}]
  BY <1>3, <1>5, AnswerType
<1>7. <<p.data>> \o Run(D, p.seq_nr, d) \in Seq(0 .. MaxChunks)
  <2>1. <<p.data>> \in Seq(0 .. MaxChunks)
    BY <1>1
  <2>2. Run(D, p.seq_nr, d) \in Seq(0 .. MaxChunks)
    BY <1>1, <1>2, <1>3, RunType
  <2> QED
    BY <2>1, <2>2, ConcatProperties
<1>8. /\ incoming_buffer' \in [Endpoint -> Seq(0 .. MaxChunks)]
      /\ delivered' \in [Endpoint -> Seq(0 .. MaxChunks)]
  BY <1>3, <1>7, DeliverType
<1>9. out_of_order' \in [Endpoint -> SUBSET Packet]
  BY <1>3 DEF TypeOK
<1> QED
  BY <1>4, <1>6, <1>8, <1>9 DEF RecvDataInOrder, TypeOK

LEMMA DataAheadType ==
  ASSUME TypeOK, NEW e \in Endpoint, NEW p \in net[e], RecvDataAhead(e, p)
  PROVE  TypeOK'
<1>1. out_of_order' \in [Endpoint -> SUBSET Packet]
  BY DEF RecvDataAhead, TypeOK, Without
<1>2. last_acked' \in [Endpoint -> SeqNr] /\ seq_nr' \in [Endpoint -> SeqNr]
  BY DEF RecvDataAhead, TypeOK, ackVars, sendVars
<1>3. SackBits(e) \subseteq SeqNr
  <2> SUFFICES ASSUME NEW q \in out_of_order'[e], q.seq_nr > last_acked[e]
               PROVE  q.seq_nr - last_acked[e] - 1 \in SeqNr
    BY DEF SackBits, BitsOf
  <2>1. q.seq_nr \in SeqNr /\ last_acked[e] \in SeqNr
    BY <1>1 DEF Packet, TypeOK
  <2> QED
    BY <2>1, Constants DEF SeqNr
<1>4. AckPacket(e, SackBits(e)) \in Packet
  BY <1>2, <1>3, Constants, NewPacketType DEF AckPacket, PacketType, NoData
<1>5. /\ net' \in [Endpoint -> SUBSET Packet]
      /\ receiving' \in [Endpoint -> {"running", "stopped", "panicked"}]
  BY <1>4, AnswerType DEF RecvDataAhead
<1> QED
  BY <1>1, <1>5 DEF RecvDataAhead, TypeOK, ackVars, sendVars

LEMMA CountAckType ==
  ASSUME TypeOK, NEW e \in Endpoint, NEW p \in Packet, CountAck(e, p) \/ CountState(e, p)
  PROVE  /\ last_acked' \in [Endpoint -> SeqNr]
         /\ duplicate_ack_count' \in [Endpoint -> SeqNr]
<1>1. p.ack_nr \in SeqNr /\ Inc(duplicate_ack_count[e]) \in SeqNr /\ 1 \in SeqNr
  BY IncType, Constants DEF TypeOK, Packet
<1>2. last_acked' \in {last_acked, [last_acked EXCEPT ![e] = p.ack_nr]}
  BY DEF CountAck, CountState, ackVars
<1>3. duplicate_ack_count' \in {duplicate_ack_count,
                                [duplicate_ack_count EXCEPT ![e] = 1],
                                [duplicate_ack_count EXCEPT ![e] = Inc(@)]}
  BY DEF CountAck, CountState, ackVars
<1>4. last_acked \in [Endpoint -> SeqNr] /\ duplicate_ack_count \in [Endpoint -> SeqNr]
  BY DEF TypeOK
<1>5. last_acked' \in [Endpoint -> SeqNr]
  BY <1>1, <1>2, <1>4
<1>6. duplicate_ack_count' \in [Endpoint -> SeqNr]
  BY <1>1, <1>3, <1>4
<1> QED
  BY <1>5, <1>6

LEMMA TypeStep == TypeOK /\ [Next]_vars => TypeOK'
<1> SUFFICES ASSUME TypeOK, [Next]_vars PROVE TypeOK'
  OBVIOUS
<1> USE Constants
<1>1. ASSUME NEW e \in Endpoint, ConnectCheck(e) PROVE TypeOK'
  BY <1>1 DEF ConnectCheck, TypeOK, sendVars, ackVars, recvVars
<1>2. ASSUME NEW e \in Endpoint, ConnectInsert(e) PROVE TypeOK'
  BY <1>2, EmptySeq DEF ConnectInsert, TypeOK, Become, SocketState, Send
<1>3. ASSUME NEW e \in Endpoint, SendFin(e) PROVE TypeOK'
  <2>1. NewPacket("Fin", seq_nr[e], 0, {}, NoData) \in Packet
    BY NewPacketType DEF TypeOK, PacketType, NoData
  <2> QED
    BY <1>3, <2>1 DEF SendFin, Send, TypeOK, sendVars, ackVars, recvVars
<1>4. ASSUME NEW e \in Endpoint, RecvError(e) PROVE TypeOK'
  BY <1>4 DEF RecvError, TypeOK, sendVars, ackVars, recvVars
<1>5. ASSUME NEW e \in Endpoint, NEW p \in net[e], Lose(e, p) PROVE TypeOK'
  BY <1>5 DEF Lose, TypeOK, sendVars, ackVars, recvVars
<1>6. ASSUME NEW e \in Endpoint, NEW p \in net[e], Receive(e, p) PROVE TypeOK'
  <2>1. /\ p \in Packet /\ p.seq_nr \in SeqNr /\ p.ack_nr \in SeqNr
        /\ \A t \in PacketType : NewPacket(t, p.seq_nr, p.seq_nr, {}, NoData) \in Packet
    <3>1. p \in Packet /\ p.seq_nr \in SeqNr /\ p.ack_nr \in SeqNr
      BY DEF TypeOK, Packet
    <3> QED
      BY <3>1, NewPacketType DEF NoData
  <2>2. CASE RecvUndecodable(e, p)
    BY <2>2, ExchangeType DEF RecvUndecodable, TypeOK, sendVars, ackVars, recvVars
  <2>3. CASE RecvSynNew(e, p)
    <3>1. {NewPacket("State", p.seq_nr, p.seq_nr, {}, NoData)} \in SUBSET Packet
      BY <2>1 DEF PacketType
    <3>2. /\ net' \in [Endpoint -> SUBSET Packet]
          /\ receiving' \in [Endpoint -> {"running", "stopped", "panicked"}]
      BY <2>3, <3>1, AnswerType DEF RecvSynNew
    <3> QED
      BY <2>1, <2>3, <3>2 DEF RecvSynNew, Become, SocketState, TypeOK, sendVars, recvVars
  <2>4. CASE RecvSynOther(e, p)
    <3>1. {NewPacket("Reset", p.seq_nr, p.seq_nr, {}, NoData)} \in SUBSET Packet
      BY <2>1 DEF PacketType
    <3>2. /\ net' \in [Endpoint -> SUBSET Packet]
          /\ receiving' \in [Endpoint -> {"running", "stopped", "panicked"}]
      BY <2>4, <3>1, AnswerType DEF RecvSynOther
    <3> QED
      BY <2>4, <3>2 DEF RecvSynOther, TypeOK, sendVars, ackVars, recvVars
  <2>5. CASE RecvStateSynSent(e, p)
    <3>1. Inc(seq_nr[e]) \in SeqNr /\ net' \in [Endpoint -> SUBSET Packet]
      BY <2>5, IncType, ExchangeType DEF RecvStateSynSent, TypeOK
    <3> QED
      BY <2>1, <2>5, <3>1
         DEF RecvStateSynSent, Become, SocketState, Without, TypeOK, recvVars
  <2>6. CASE RecvState(e, p)
    <3>1. StateResend(e, p) \in SUBSET Packet
      BY DEF StateResend, TypeOK
    <3>2. /\ net' \in [Endpoint -> SUBSET Packet]
          /\ receiving' \in [Endpoint -> {"running", "stopped", "panicked"}]
      BY <2>6, <3>1, AnswerType, ExchangeType DEF RecvState, TypeOK
    <3> QED
      BY <2>1, <2>6, <3>2, CountAckType DEF RecvState, TypeOK, sendVars, recvVars
  <2>7. CASE StatePanic(e, p)
    <3>1. /\ last_acked' \in [Endpoint -> SeqNr]
          /\ duplicate_ack_count' \in [Endpoint -> SeqNr]
      BY <2>1, <2>7, CountAckType DEF StatePanic, TypeOK, ackVars
    <3>2. net' \in [Endpoint -> SUBSET Packet]
      BY <2>7, ExchangeType DEF StatePanic
    <3> QED
      BY <2>7, <3>1, <3>2 DEF StatePanic, Panic, TypeOK, sendVars, recvVars
  <2>8. CASE RecvAck(e, p)
    <3> DEFINE W == AckedWindow(e, p)
    <3>1. W \in SUBSET Packet
      BY DEF AckedWindow, TypeOK
    <3>2. LostPackets(p, W) \in SUBSET Packet /\ FastResend(e, p, W) \in SUBSET Packet
      BY <3>1 DEF LostPackets, FastResend, BelowNewest
    <3>3. /\ net' \in [Endpoint -> SUBSET Packet]
          /\ receiving' \in [Endpoint -> {"running", "stopped", "panicked"}]
      BY <2>8, <3>2, AnswerType DEF RecvAck
    <3>4. sent_window' \in [Endpoint -> SUBSET Packet]
      BY <2>8, <3>1 DEF RecvAck, TypeOK
    <3> QED
      BY <2>1, <2>8, <3>3, <3>4, CountAckType DEF RecvAck, TypeOK, recvVars
  <2>9. CASE AckPanic(e, p)
    <3>1. /\ last_acked' \in [Endpoint -> SeqNr]
          /\ duplicate_ack_count' \in [Endpoint -> SeqNr]
      BY <2>1, <2>9, CountAckType DEF AckPanic, TypeOK, ackVars
    <3>2. net' \in [Endpoint -> SUBSET Packet]
      BY <2>9, ExchangeType DEF AckPanic
    <3>3. sent_window' \in [Endpoint -> SUBSET Packet]
      BY <2>9 DEF AckPanic, AckedWindow, TypeOK
    <3> QED
      BY <2>9, <3>1, <3>2, <3>3 DEF AckPanic, Panic, TypeOK, recvVars
  <2>10. CASE RecvDataInOrder(e, p)
    BY <2>10, DataInOrderType
  <2>11. CASE RecvDataAhead(e, p)
    BY <2>11, DataAheadType
  <2>12. CASE RecvDataOld(e, p)
    <3>1. {AckPacket(e, {})} \in SUBSET Packet
      BY <2>12, NewPacketType
         DEF RecvDataOld, AckPacket, PacketType, NoData, TypeOK, sendVars, ackVars
    <3>2. /\ net' \in [Endpoint -> SUBSET Packet]
          /\ receiving' \in [Endpoint -> {"running", "stopped", "panicked"}]
      BY <2>12, <3>1, AnswerType DEF RecvDataOld
    <3> QED
      BY <2>12, <3>2 DEF RecvDataOld, TypeOK, sendVars, ackVars, recvVars
  <2>13. CASE DataPanic(e, p)
    <3>1. Inc(seq_nr[e]) \in SeqNr /\ p.data \in 0 .. MaxChunks
      BY <2>1, IncType DEF TypeOK, Packet
    <3>2. Append(incoming_buffer[e], p.data) \in Seq(0 .. MaxChunks)
      BY <3>1 DEF TypeOK
    <3>3. net' \in [Endpoint -> SUBSET Packet]
      BY <2>13, ExchangeType DEF DataPanic
    <3>4. last_acked' \in [Endpoint -> SeqNr] /\ seq_nr' \in [Endpoint -> SeqNr]
      BY <2>1, <2>13, <3>1 DEF DataPanic, TypeOK
    <3>5. incoming_buffer' \in [Endpoint -> Seq(0 .. MaxChunks)]
      <4>1. \/ incoming_buffer' = incoming_buffer
            \/ incoming_buffer' = [incoming_buffer EXCEPT ![e] = Append(@, p.data)]
        BY <2>13 DEF DataPanic
      <4>2. incoming_buffer \in [Endpoint -> Seq(0 .. MaxChunks)]
        BY DEF TypeOK
      <4> QED
        BY <3>2, <4>1, <4>2, Zenon
    <3> QED
      BY <2>13, <3>3, <3>4, <3>5 DEF DataPanic, Panic, TypeOK
  <2>14. CASE RecvFin(e, p)
    <3>1. {NewPacket("State", p.seq_nr, p.seq_nr, {}, NoData)} \in SUBSET Packet
      BY <2>1 DEF PacketType
    <3>2. /\ net' \in [Endpoint -> SUBSET Packet]
          /\ receiving' \in [Endpoint -> {"running", "stopped", "panicked"}]
      BY <2>14, <3>1, AnswerType DEF RecvFin
    <3> QED
      BY <2>14, <3>2 DEF RecvFin, Become, SocketState, TypeOK, sendVars, ackVars, recvVars
  <2>15. CASE RecvReset(e, p)
    BY <2>15, ExchangeType
       DEF RecvReset, Become, SocketState, TypeOK, sendVars, ackVars, recvVars
  <2>16. CASE RecvUnhandled(e, p)
    BY <2>16, ExchangeType
       DEF RecvUnhandled, Become, Current, SocketState, TypeOK, sendVars, ackVars, recvVars
  <2> QED
    BY <1>6, <2>2, <2>3, <2>4, <2>5, <2>6, <2>7, <2>8, <2>9, <2>10, <2>11, <2>12,
       <2>13, <2>14, <2>15, <2>16 DEF Receive
<1>7. CASE UNCHANGED vars
  BY <1>7 DEF vars, TypeOK, sendVars, ackVars, recvVars
<1> QED
  BY <1>1, <1>2, <1>3, <1>4, <1>5, <1>6, <1>7, WriteType DEF Next

\* Every variable stays in its domain, for every number of bits, in both build
\* profiles and over every kind of network (all handlers of socket.rs).
THEOREM TypeCorrect == Spec => []TypeOK
BY InitType, TypeStep, PTL DEF Spec
=============================================================================
