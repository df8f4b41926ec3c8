--------------------------- MODULE UtpConnection ---------------------------
(***************************************************************************)
(* One uTP connection between two sockets: the per-peer state that         *)
(* `UtpSocket` keeps in its `peers` map, the handler of every packet type, *)
(* `connect` and `send_packets`, over a UDP network that may lose, reorder *)
(* and duplicate datagrams.  Both endpoints run the same code, so every    *)
(* variable is a function of the endpoint and either one may play either   *)
(* role; which of them connects and writes is chosen by constants.         *)
(*                                                                         *)
(* Both `recv_packets_from` and `send_packets` hold the mutex of the peer  *)
(* from their first access to its state to their last, so each is one      *)
(* step here.  Payloads are numbered: chunk i is the i-th chunk the        *)
(* application of an endpoint wrote, and 0 stands for an empty payload.    *)
(*                                                                         *)
(* A definition named ...Faulty is its neighbour with a plausible bug; no  *)
(* action uses one.  They show which property notices the bug.             *)
(***************************************************************************)
EXTENDS Naturals, Sequences, SackNumbers

CONSTANTS
  Client, Server,   \* the two endpoints
  OverflowChecks,   \* TRUE: debug profile, u16 overflow panics; FALSE: wraps
  Connectors,       \* endpoints whose application calls connect
  Writers,          \* endpoints whose application calls send_packets
  WriteStates,      \* states in which these calls happen
  WriteSizes,       \* numbers of chunks in the buffer of one call
  MaxChunks,        \* bound on the chunks one endpoint writes
  FinSenders,       \* endpoints whose application sends a Fin by send_to
  IoErrors,         \* endpoints on which recv_from may return an error
  Duplication,      \* TRUE: a datagram may arrive any number of times
  Loss              \* TRUE: a datagram may be lost

Endpoint == {Client, Server}
Other(e) == IF e = Client THEN Server ELSE Client

SocketState == {"New", "Connected", "SynSent", "FinSent", "ResetReceived", "Closed"}
PacketType == {"Data", "Fin", "State", "Reset", "Syn", "Ack"}
NoData == 0

ASSUME EndpointAssumption == Client # Server
ASSUME WidthAssumption ==
  /\ U16 \in Nat /\ U16 > 3
  /\ SackWord \in 1 .. U16
  /\ SackLenMod \in Nat \ {0}
ASSUME EnvironmentAssumption ==
  /\ MaxChunks \in Nat
  /\ WriteSizes \subseteq Nat
  /\ WriteStates \subseteq SocketState \ {"Closed"}
  /\ {OverflowChecks, Duplication, Loss} \subseteq BOOLEAN

(***************************************************************************)
(* A packet keeps the header fields some handler reads.  The selective ack *)
(* is the set of bits that are set; bit i stands for sequence number       *)
(* ack_nr + 1 + i, and a packet without the extension has no bit set.      *)
(***************************************************************************)
Packet == [type : PacketType, seq_nr : SeqNr, ack_nr : SeqNr,
           sack : SUBSET SeqNr, data : 0 .. MaxChunks]

NewPacket(t, seq, ack, sack, data) ==
  [type |-> t, seq_nr |-> seq, ack_nr |-> ack, sack |-> sack, data |-> data]

VARIABLES
  state,                \* state of the entry in `peers`, "NoPeer" without one
  seq_nr, ack_nr, last_acked, duplicate_ack_count,
  sent_window,          \* packets sent and not yet acknowledged
  out_of_order,         \* data packets received ahead of a gap
  incoming_buffer,      \* chunks in order that are not in the channel yet
  delivered,            \* chunks handed to the mpsc channel, oldest first
  written,              \* number of chunks accepted by send_packets
  connecting,           \* connect is past its check of `peers`
  receiving,            \* the task of start_receiving
  net                   \* datagrams on their way to an endpoint

ackVars  == <<last_acked, duplicate_ack_count>>
sendVars == <<seq_nr, ack_nr, sent_window, written>>
recvVars == <<out_of_order, incoming_buffer, delivered>>
vars == <<state, sendVars, ackVars, recvVars, connecting, receiving, net>>

Init ==
  /\ state = [e \in Endpoint |-> "NoPeer"]
  /\ seq_nr = [e \in Endpoint |-> 1]
  /\ ack_nr = [e \in Endpoint |-> 0]
  /\ last_acked = [e \in Endpoint |-> 0]
  /\ duplicate_ack_count = [e \in Endpoint |-> 0]
  /\ sent_window = [e \in Endpoint |-> {}]
  /\ out_of_order = [e \in Endpoint |-> {}]
  /\ incoming_buffer = [e \in Endpoint |-> << >>]
  /\ delivered = [e \in Endpoint |-> << >>]
  /\ written = [e \in Endpoint |-> 0]
  /\ connecting = [e \in Endpoint |-> FALSE]
  /\ receiving = [e \in Endpoint |-> "running"]
  /\ net = [e \in Endpoint |-> {}]

-----------------------------------------------------------------------------
(* Helpers.                                                                *)

IncFaulty(n) == n + 1
Inc(n) == (n + 1) % U16
Overflows(n) == OverflowChecks /\ n >= U16

\* A BTreeMap keyed by sequence number, as the set of its packets.
Without(W, n) == {q \in W : q.seq_nr # n}
HasSeq(W, n) == \E q \in W : q.seq_nr = n

Send(e, out) == net' = [net EXCEPT ![Other(e)] = @ \cup out]

\* e consumes datagram p and puts the datagrams of out on the network.
Exchange(e, p, out) ==
  net' = [x \in Endpoint |->
            IF x = e THEN (IF Duplication THEN net[x] ELSE net[x] \ {p})
                     ELSE net[x] \cup out]

\* The handler of p sent the datagrams of sent on its own; rsp is its reply,
\* at most one packet, which the loop sends.  A failed reply ends the loop.
Answer(e, p, sent, rsp) ==
  \/ /\ Exchange(e, p, sent \cup rsp)
     /\ UNCHANGED receiving
  \/ /\ e \in IoErrors /\ rsp # {}
     /\ Exchange(e, p, sent)
     /\ receiving' = [receiving EXCEPT ![e] = "stopped"]

\* check_extensions accepts what is in the receive buffer.
Decodes(p) == Decodable(p.sack)

Arrives(e, p, t) ==
  /\ receiving[e] = "running"
  /\ p \in net[e] /\ p.type = t /\ Decodes(p)

CurrentFaulty(e) ==
  IF state[e] \in {"NoPeer", "Closed", "ResetReceived"} THEN "New" ELSE state[e]
\* `or_insert_with`: the first datagram of an unknown peer creates its entry.
Current(e) == IF state[e] = "NoPeer" THEN "New" ELSE state[e]
Become(e, s) == state' = [state EXCEPT ![e] = s]
Established(e) == state[e] \in {"Connected", "FinSent"}

Panic(e) == receiving' = [receiving EXCEPT ![e] = "panicked"]

-----------------------------------------------------------------------------
(* The application's calls.                                                *)

\* connect finds no entry for the address; a task of its own, the receive
\* loop, may create one before connect inserts its own.
ConnectCheck(e) ==
  /\ e \in Connectors
  /\ ~ connecting[e]
  /\ state[e] = "NoPeer"
  /\ connecting' = [connecting EXCEPT ![e] = TRUE]
  /\ UNCHANGED <<state, sendVars, ackVars, recvVars, receiving, net>>

SynPacket == NewPacket("Syn", 1, 0, {}, NoData)

\* connect inserts a new peer state over whatever `peers` holds by now and
\* sends the Syn, whose loss or failed send leaves the entry in place.
ConnectInsert(e) ==
  /\ connecting[e]
  /\ connecting' = [connecting EXCEPT ![e] = FALSE]
  /\ Become(e, "SynSent")
  /\ seq_nr' = [seq_nr EXCEPT ![e] = 1]
  /\ ack_nr' = [ack_nr EXCEPT ![e] = 0]
  /\ last_acked' = [last_acked EXCEPT ![e] = 0]
  /\ duplicate_ack_count' = [duplicate_ack_count EXCEPT ![e] = 0]
  /\ sent_window' = [sent_window EXCEPT ![e] = {SynPacket}]
  /\ out_of_order' = [out_of_order EXCEPT ![e] = {}]
  /\ incoming_buffer' = [incoming_buffer EXCEPT ![e] = << >>]
  /\ Send(e, {SynPacket})
  /\ UNCHANGED <<delivered, written, receiving>>

ChunksFaulty(e, k) ==
  {NewPacket("Data", (seq_nr[e] + U16 + j - 1) % U16, ack_nr[e], {}, written[e] + j + 1) :
     j \in 0 .. k - 1}
ChunksSameSeq(e, k) ==
  {NewPacket("Data", seq_nr[e], ack_nr[e], {}, written[e] + j + 1) : j \in 0 .. k - 1}
ChunksReversed(e, k) ==
  {NewPacket("Data", (seq_nr[e] + j) % U16, ack_nr[e], {}, written[e] + k - j) :
     j \in 0 .. k - 1}
\* The data packets of the next k chunks, and the window with them inserted.
Chunks(e, k) ==
  {NewPacket("Data", (seq_nr[e] + j) % U16, ack_nr[e], {}, written[e] + j + 1) :
     j \in 0 .. k - 1}
WindowedFaulty(e, k) == Chunks(e, k)
Windowed(e, k) ==
  {q \in sent_window[e] : ~ HasSeq(Chunks(e, k), q.seq_nr)} \cup Chunks(e, k)

\* send_packets queues the chunks of its buffer and sends the whole window,
\* old packets included.  It accepts every state but Closed.
Write(e, k) ==
  /\ e \in Writers
  /\ state[e] \in WriteStates
  /\ written[e] + k <= MaxChunks
  /\ sent_window' = [sent_window EXCEPT ![e] = Windowed(e, k)]
  /\ seq_nr' = [seq_nr EXCEPT ![e] = (@ + k) % U16]
  /\ written' = [written EXCEPT ![e] = @ + k]
  /\ Send(e, Windowed(e, k))
  /\ UNCHANGED <<state, ack_nr, ackVars, recvVars, connecting, receiving>>

\* No code of the library sends a Fin; an application can build one and pass
\* it to send_to, numbered as the next packet.
SendFin(e) ==
  /\ e \in FinSenders
  /\ state[e] # "NoPeer"
  /\ Send(e, {NewPacket("Fin", seq_nr[e], 0, {}, NoData)})
  /\ UNCHANGED <<state, sendVars, ackVars, recvVars, connecting, receiving>>

-----------------------------------------------------------------------------
(* The receive loop.  Every action below is one pass through               *)
(* recv_packets_from; an error of the pass itself ends the loop, an error  *)
(* of handle_packet does not.                                              *)

\* recv_from returns an error, which ends the loop.
RecvError(e) ==
  /\ e \in IoErrors
  /\ receiving[e] = "running"
  /\ receiving' = [receiving EXCEPT ![e] = "stopped"]
  /\ UNCHANGED <<state, sendVars, ackVars, recvVars, connecting, net>>

\* The datagram does not parse, which ends the loop too.
RecvUndecodable(e, p) ==
  /\ receiving[e] = "running"
  /\ p \in net[e] /\ ~ Decodes(p)
  /\ receiving' = [receiving EXCEPT ![e] = "stopped"]
  /\ Exchange(e, p, {})
  /\ UNCHANGED <<state, sendVars, ackVars, recvVars, connecting>>

\* A datagram the network or the socket's own `drop` simulation loses.
Lose(e, p) ==
  /\ Loss
  /\ p \in net[e]
  /\ net' = [net EXCEPT ![e] = @ \ {p}]
  /\ UNCHANGED <<state, sendVars, ackVars, recvVars, connecting, receiving>>

\* (New, Syn): accept the connection.
RecvSynNew(e, p) ==
  /\ Arrives(e, p, "Syn")
  /\ Current(e) = "New"
  /\ last_acked' = [last_acked EXCEPT ![e] = p.seq_nr]
  /\ Become(e, "Connected")
  /\ Answer(e, p, {}, {NewPacket("State", p.seq_nr, p.seq_nr, {}, NoData)})
  /\ UNCHANGED <<sendVars, duplicate_ack_count, recvVars, connecting>>

\* (_, Syn): answered with a Reset, the state does not change.
RecvSynOther(e, p) ==
  /\ Arrives(e, p, "Syn")
  /\ Current(e) # "New"
  /\ Answer(e, p, {}, {NewPacket("Reset", p.seq_nr, p.seq_nr, {}, NoData)})
  /\ UNCHANGED <<state, sendVars, ackVars, recvVars, connecting>>

\* (SynSent, State): the Syn is acknowledged.
RecvStateSynSent(e, p) ==
  /\ Arrives(e, p, "State")
  /\ state[e] = "SynSent"
  /\ ack_nr' = [ack_nr EXCEPT ![e] = p.seq_nr]
  /\ seq_nr' = [seq_nr EXCEPT ![e] = Inc(@)]
  /\ Become(e, "Connected")
  /\ last_acked' = [last_acked EXCEPT ![e] = p.ack_nr]
  /\ sent_window' = [sent_window EXCEPT ![e] = Without(@, p.seq_nr)]
  /\ Exchange(e, p, {})
  /\ UNCHANGED <<duplicate_ack_count, written, recvVars, connecting, receiving>>

-----------------------------------------------------------------------------
(* (Connected | FinSent, Ack): the sender's side of an acknowledgement.    *)

CountAckFaulty(e, p) ==
  IF p.ack_nr = last_acked[e]
  THEN /\ duplicate_ack_count' = [duplicate_ack_count EXCEPT ![e] = Inc(@)]
       /\ UNCHANGED last_acked
  ELSE /\ duplicate_ack_count' = [duplicate_ack_count EXCEPT ![e] = 1]
       /\ last_acked' = [last_acked EXCEPT ![e] = p.ack_nr]
\* The number of an Ack counts when it repeats the last one or follows it by
\* exactly one; an Ack that is further ahead is not counted.
CountAck(e, p) ==
  \/ /\ p.ack_nr = last_acked[e]
     /\ duplicate_ack_count' = [duplicate_ack_count EXCEPT ![e] = Inc(@)]
     /\ UNCHANGED last_acked
  \/ /\ p.ack_nr = Inc(last_acked[e])
     /\ duplicate_ack_count' = [duplicate_ack_count EXCEPT ![e] = 1]
     /\ last_acked' = [last_acked EXCEPT ![e] = p.ack_nr]
  \/ /\ p.ack_nr \notin {last_acked[e], Inc(last_acked[e])}
     /\ UNCHANGED ackVars

AckedWindowFaulty(e, p) ==
  {q \in sent_window[e] : ~ (p.ack_nr = Inc(last_acked[e]) /\ q.seq_nr >= p.ack_nr)}
\* The window once the number of the Ack is counted.
AckedWindow(e, p) ==
  {q \in sent_window[e] :
     ~ (p.ack_nr = Inc(last_acked[e]) /\ q.seq_nr = p.ack_nr)}

\* The third Ack in a row with this number brings the next packet back.
FastResend(e, p, W) ==
  {q \in W : duplicate_ack_count'[e] >= 3 /\ q.seq_nr = Inc(p.ack_nr)}

\* get_lost_seq_nr looks only at numbers below the newest of the window: a set
\* bit takes the packet out of the window, a clear one has it sent again.
BelowNewest(W) == {q \in W : \E r \in W : q.seq_nr < r.seq_nr}
SackedPackets(p, W) == {q \in BelowNewest(W) : q.seq_nr \in Acked(p.ack_nr, p.sack)}
LostPackets(p, W) ==
  {q \in BelowNewest(W) : p.sack # {} /\ q.seq_nr \in Missing(p.ack_nr, p.sack)}

\* u16 additions of this handler that overflow: while counting, and after it.
CountOverflows(e, p) ==
  Overflows(1 + IF p.ack_nr = last_acked[e] THEN duplicate_ack_count[e]
                                            ELSE last_acked[e])
ResendOverflows(e, p, W) ==
  \/ duplicate_ack_count'[e] >= 3 /\ Overflows(p.ack_nr + 1)
  \/ p.sack # {} /\ W # {} /\ Overflows(p.ack_nr + SackWord)

\* A resend that fails makes handle_packet return an error the loop ignores:
\* the datagrams it leaves unsent are lost ones.
RecvAck(e, p) ==
  /\ Arrives(e, p, "Ack")
  /\ Established(e)
  /\ ~ CountOverflows(e, p)
  /\ CountAck(e, p)
  /\ LET W == AckedWindow(e, p)
     IN  /\ ~ ResendOverflows(e, p, W)
         /\ sent_window' = [sent_window EXCEPT ![e] = W \ SackedPackets(p, W)]
         /\ Answer(e, p, LostPackets(p, W), FastResend(e, p, W))
  /\ UNCHANGED <<state, seq_nr, ack_nr, written, recvVars, connecting>>

AckPanic(e, p) ==
  /\ Arrives(e, p, "Ack")
  /\ Established(e)
  /\ \/ /\ CountOverflows(e, p)
        /\ UNCHANGED <<ackVars, sent_window>>
     \/ /\ ~ CountOverflows(e, p)
        /\ CountAck(e, p)
        /\ ResendOverflows(e, p, AckedWindow(e, p))
        /\ sent_window' = [sent_window EXCEPT ![e] = AckedWindow(e, p)]
  /\ Panic(e)
  /\ Exchange(e, p, {})
  /\ UNCHANGED <<state, seq_nr, ack_nr, written, recvVars, connecting>>

-----------------------------------------------------------------------------
(* (Connected | FinSent, Data): the receiver's side.                       *)

DrainedFaulty(e, n) == {}
\* The stored packets that follow number n without a gap.  The code walks them
\* from the smallest number up and stops at the first that does not fit.
Drained(e, n) ==
  {q \in out_of_order[e] :
     {r.seq_nr : r \in {x \in out_of_order[e] : x.seq_nr <= q.seq_nr}}
       = Inc(n) .. q.seq_nr}

\* d is the length of that run, and Run lists its chunks in order.
IsRun(D, n, d) == {q.seq_nr : q \in D} = {(n + j) % U16 : j \in 1 .. d}
RunFaulty(D, n, d) ==
  [j \in 1 .. d |-> (CHOOSE q \in D : q.seq_nr = (n + d + 1 - j) % U16).data]
Run(D, n, d) ==
  [j \in 1 .. d |-> (CHOOSE q \in D : q.seq_nr = (n + j) % U16).data]

AckPacketFaulty(e, sack) ==
  NewPacket("Ack", seq_nr'[e], Inc(last_acked'[e]), sack, NoData)
AckPacket(e, sack) == NewPacket("Ack", seq_nr'[e], last_acked'[e], sack, NoData)

\* The new chunks go through incoming_buffer into the channel, unless the
\* reply fails: then they stay there, and nothing reads it after the loop.
Deliver(e, chunks) ==
  \/ /\ receiving' = receiving
     /\ delivered' = [delivered EXCEPT ![e] = @ \o incoming_buffer[e] \o chunks]
     /\ incoming_buffer' = [incoming_buffer EXCEPT ![e] = << >>]
  \/ /\ receiving' # receiving
     /\ incoming_buffer' = [incoming_buffer EXCEPT ![e] = @ \o chunks]
     /\ UNCHANGED delivered

RecvDataInOrder(e, p) ==
  /\ Arrives(e, p, "Data")
  /\ Established(e)
  /\ ~ Overflows(last_acked[e] + 1)
  /\ p.seq_nr = Inc(last_acked[e])
  /\ ~ Overflows(seq_nr[e] + 1)
  /\ ~ (out_of_order[e] # {} /\ Overflows(p.seq_nr + 1))
  /\ seq_nr' = [seq_nr EXCEPT ![e] = Inc(@)]
  /\ LET D == Drained(e, p.seq_nr)
     IN  \E d \in SeqNr :
           /\ IsRun(D, p.seq_nr, d)
           /\ last_acked' = [last_acked EXCEPT ![e] = (p.seq_nr + d) % U16]
           /\ out_of_order' = [out_of_order EXCEPT ![e] = @ \ D]
           /\ Answer(e, p, {}, {AckPacket(e, {})})
           /\ Deliver(e, <<p.data>> \o Run(D, p.seq_nr, d))
  /\ UNCHANGED <<state, ack_nr, duplicate_ack_count, sent_window, written, connecting>>

\* The numbers of the stored packets, as bits.
SackBits(e) == BitsOf(last_acked[e], {q.seq_nr : q \in out_of_order'[e]})

RecvDataAhead(e, p) ==
  /\ Arrives(e, p, "Data")
  /\ Established(e)
  /\ ~ Overflows(last_acked[e] + 1)
  /\ p.seq_nr # Inc(last_acked[e])
  /\ p.seq_nr > last_acked[e]
  /\ out_of_order' = [out_of_order EXCEPT ![e] = Without(@, p.seq_nr) \cup {p}]
  /\ UNCHANGED <<state, sendVars, ackVars, incoming_buffer, delivered, connecting>>
  /\ Answer(e, p, {}, {AckPacket(e, SackBits(e))})

\* Already acknowledged, or taken for it: dropped and acknowledged again.
RecvDataOld(e, p) ==
  /\ Arrives(e, p, "Data")
  /\ Established(e)
  /\ ~ Overflows(last_acked[e] + 1)
  /\ p.seq_nr # Inc(last_acked[e])
  /\ p.seq_nr <= last_acked[e]
  /\ UNCHANGED <<state, sendVars, ackVars, recvVars, connecting>>
  /\ Answer(e, p, {}, {AckPacket(e, {})})

\* The u16 additions of this handler overflow in three places, each leaving
\* behind what was assigned before it.
DataPanic(e, p) ==
  /\ Arrives(e, p, "Data")
  /\ Established(e)
  /\ \/ /\ Overflows(last_acked[e] + 1)
        /\ UNCHANGED <<last_acked, seq_nr, incoming_buffer>>
     \/ /\ ~ Overflows(last_acked[e] + 1)
        /\ p.seq_nr = Inc(last_acked[e])
        /\ last_acked' = [last_acked EXCEPT ![e] = p.seq_nr]
        /\ \/ /\ Overflows(seq_nr[e] + 1)
              /\ UNCHANGED <<seq_nr, incoming_buffer>>
           \/ /\ ~ Overflows(seq_nr[e] + 1)
              /\ out_of_order[e] # {} /\ Overflows(p.seq_nr + 1)
              /\ seq_nr' = [seq_nr EXCEPT ![e] = Inc(@)]
              /\ incoming_buffer' = [incoming_buffer EXCEPT ![e] = Append(@, p.data)]
  /\ Panic(e)
  /\ Exchange(e, p, {})
  /\ UNCHANGED <<state, ack_nr, duplicate_ack_count, sent_window, written,
                 out_of_order, delivered, connecting>>

-----------------------------------------------------------------------------
(* (Connected, State), Fin, Reset and everything else.                     *)

CountState(e, p) ==
  \/ /\ p.ack_nr = last_acked[e]
     /\ duplicate_ack_count' = [duplicate_ack_count EXCEPT ![e] = Inc(@)]
     /\ UNCHANGED last_acked
  \/ /\ p.ack_nr # last_acked[e]
     /\ duplicate_ack_count' = [duplicate_ack_count EXCEPT ![e] = 1]
     /\ last_acked' = [last_acked EXCEPT ![e] = p.ack_nr]

DupOverflows(e, p) ==
  p.ack_nr = last_acked[e] /\ Overflows(duplicate_ack_count[e] + 1)

\* Loss is assumed as soon as anything is in flight; the packet that is sent
\* again is looked up under the number before the acknowledged one.
LossDetected(e) == sent_window[e] # {} \/ duplicate_ack_count'[e] = 3
StateResend(e, p) ==
  {q \in sent_window[e] : q.seq_nr = (p.ack_nr + U16 - 1) % U16}
LookupFails(e, p) == StateResend(e, p) = {} \/ (OverflowChecks /\ p.ack_nr = 0)

RecvState(e, p) ==
  /\ Arrives(e, p, "State")
  /\ state[e] = "Connected"
  /\ ~ DupOverflows(e, p)
  /\ CountState(e, p)
  /\ \/ /\ ~ LossDetected(e)
        /\ Exchange(e, p, {})
        /\ UNCHANGED receiving
     \/ /\ LossDetected(e)
        /\ ~ LookupFails(e, p)
        /\ Answer(e, p, {}, StateResend(e, p))
  /\ UNCHANGED <<state, sendVars, recvVars, connecting>>

\* The lookup unwraps: the receive task panics when nothing is found.
StatePanic(e, p) ==
  /\ Arrives(e, p, "State")
  /\ state[e] = "Connected"
  /\ \/ /\ DupOverflows(e, p)
        /\ UNCHANGED ackVars
     \/ /\ ~ DupOverflows(e, p)
        /\ CountState(e, p)
        /\ LossDetected(e)
        /\ LookupFails(e, p)
  /\ Panic(e)
  /\ Exchange(e, p, {})
  /\ UNCHANGED <<state, sendVars, recvVars, connecting>>

\* A Fin closes at once, whether or not packets are missing.
RecvFin(e, p) ==
  /\ Arrives(e, p, "Fin")
  /\ Established(e)
  /\ Become(e, "Closed")
  /\ Answer(e, p, {}, {NewPacket("State", p.seq_nr, p.seq_nr, {}, NoData)})
  /\ UNCHANGED <<sendVars, ackVars, recvVars, connecting>>

\* (_, Reset); the application is not told.
RecvReset(e, p) ==
  /\ Arrives(e, p, "Reset")
  /\ Become(e, "ResetReceived")
  /\ Exchange(e, p, {})
  /\ UNCHANGED <<sendVars, ackVars, recvVars, connecting, receiving>>

\* Every other pair of state and type is an error the loop ignores, but the
\* entry of an unknown peer has been created.
RecvUnhandled(e, p) ==
  /\ \/ Arrives(e, p, "Ack") \/ Arrives(e, p, "Data")
     \/ Arrives(e, p, "Fin") \/ Arrives(e, p, "State")
  /\ IF p.type = "State" THEN state[e] \notin {"SynSent", "Connected"}
                         ELSE ~ Established(e)
  /\ Become(e, Current(e))
  /\ Exchange(e, p, {})
  /\ UNCHANGED <<sendVars, ackVars, recvVars, connecting, receiving>>

Receive(e, p) ==
  \/ RecvUndecodable(e, p)
  \/ RecvSynNew(e, p) \/ RecvSynOther(e, p)
  \/ RecvStateSynSent(e, p) \/ RecvState(e, p) \/ StatePanic(e, p)
  \/ RecvAck(e, p) \/ AckPanic(e, p)
  \/ RecvDataInOrder(e, p) \/ RecvDataAhead(e, p) \/ RecvDataOld(e, p)
  \/ DataPanic(e, p)
  \/ RecvFin(e, p) \/ RecvReset(e, p) \/ RecvUnhandled(e, p)

Next ==
  \E e \in Endpoint :
    \/ ConnectCheck(e) \/ ConnectInsert(e)
    \/ \E k \in WriteSizes : Write(e, k)
    \/ SendFin(e)
    \/ RecvError(e)
    \/ \E p \in net[e] : Receive(e, p) \/ Lose(e, p)

Spec == Init /\ [][Next]_vars

-----------------------------------------------------------------------------
(* Type correctness.                                                       *)

\* Every variable stays in its domain; in particular no handler produces a
\* number outside u16 or a selective-ack bit no header could carry.
TypeOK ==
  /\ state \in [Endpoint -> SocketState \cup {"NoPeer"}]
  /\ seq_nr \in [Endpoint -> SeqNr]
  /\ ack_nr \in [Endpoint -> SeqNr]
  /\ last_acked \in [Endpoint -> SeqNr]
  /\ duplicate_ack_count \in [Endpoint -> SeqNr]
  /\ sent_window \in [Endpoint -> SUBSET Packet]
  /\ out_of_order \in [Endpoint -> SUBSET Packet]
  /\ incoming_buffer \in [Endpoint -> Seq(0 .. MaxChunks)]
  /\ delivered \in [Endpoint -> Seq(0 .. MaxChunks)]
  /\ written \in [Endpoint -> 0 .. MaxChunks]
  /\ connecting \in [Endpoint -> BOOLEAN]
  /\ receiving \in [Endpoint -> {"running", "stopped", "panicked"}]
  /\ net \in [Endpoint -> SUBSET Packet]
=============================================================================
