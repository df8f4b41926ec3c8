----------------------------- MODULE StreamTasks -----------------------------
(***************************************************************************)
(* The tasks around one UtpStream and what they wait for: the spawned      *)
(* receive task, the application that polls the stream, and tasks that     *)
(* call send_packets on a clone of the socket.  They share the DashMap of  *)
(* peers, whose guards block a thread, the tokio mutex of the peer, which  *)
(* suspends a task, and the bounded channel from the loop to the stream.   *)
(*                                                                         *)
(* A step ends where the code awaits, or lets go of a guard another thread *)
(* may take.  Packets are numbered as the handler accepts them, writes as  *)
(* the tasks begin them.                                                   *)
(***************************************************************************)
EXTENDS Naturals, Sequences, FiniteSets

CONSTANTS
  Receiver,     \* the task of start_receiving
  App,          \* the task that polls the stream: reads and writes need &mut
  Senders,      \* tasks that call send_packets on a clone of the socket
  Free,         \* owner of a mutex nobody holds
  Capacity,     \* places of the channel (100 in the code)
  Workers,      \* threads of the runtime
  AppCalls,     \* what the application does: "read", "write", "drop"
  Failures,     \* TRUE: sending and receiving may fail, a handler panic
  Spurious,     \* TRUE: the application's task is also woken by other events
  MaxPackets, MaxBurst,   \* bounds on the packets, in all and of one pass
  MaxWrites, MaxCuts      \* bounds on the writes and on their cut-off polls

Writers == {App} \cup Senders
Tasks == Writers \cup {Receiver}

ASSUME TaskAssumption ==
  /\ App \notin Senders /\ Receiver \notin Writers /\ Free \notin Tasks
  /\ IsFiniteSet(Senders)
ASSUME SizeAssumption ==
  /\ Capacity \in Nat \ {0}
  /\ {Workers, MaxPackets, MaxBurst, MaxWrites, MaxCuts} \subseteq Nat
  /\ {Failures, Spurious} \subseteq BOOLEAN

VARIABLES
  pc,                \* where each task is
  mutex,             \* owner of the mutex of the peer's state
  known, state,      \* `peers` has the peer; its state, "Connected" for all but two
  handled,           \* number of packets handle_packet has accepted
  incoming_buffer,   \* accepted packets that are not in the channel yet
  channel, read,     \* packets in the channel, packets poll_read returned
  open,              \* the UtpStream has not been dropped
  call,              \* the write each task is carrying out, 0 without one
  result,            \* what each write that was begun returned
  queued,            \* writes in the order their chunks entered sent_window
  cut                \* polls of each write that ended with its chunks queued

peerVars == <<known, state>>
packetVars == <<handled, incoming_buffer, channel, read, open>>
writeVars == <<call, result, queued, cut>>
vars == <<pc, mutex, peerVars, packetVars, writeVars>>

Init ==
  /\ pc = [t \in Tasks |-> IF t = Receiver THEN "recv" ELSE "idle"]
  /\ mutex = Free
  /\ known \in BOOLEAN
  /\ state = "Connected"
  /\ handled = 0
  /\ incoming_buffer = << >> /\ channel = << >> /\ read = << >>
  /\ open = TRUE
  /\ call = [t \in Writers |-> 0]
  /\ result = << >> /\ queued = << >> /\ cut = << >>

-----------------------------------------------------------------------------
(* Waiting.                                                                *)

\* The guard of the map's entry lives until recv_packets_from returns.
MapHeld == pc[Receiver] \in {"lock", "handle", "reply", "push"}

\* A task that asks the map for its peer meanwhile blocks its thread, and a
\* task makes progress only on a thread that is not blocked.
Blocked == {t \in Writers : pc[t] = "find" /\ MapHeld}
Runs(t) == t \notin Blocked /\ Cardinality(Blocked) < Workers

Goto(t, where) == pc' = [pc EXCEPT ![t] = where]

-----------------------------------------------------------------------------
(* The receive task: one pass of recv_packets_from.                        *)

\* A datagram arrives and the entry of its peer is found or made; or
\* recv_from fails, or the datagram does not parse, which ends the task.
RecvDatagram ==
  /\ Runs(Receiver) /\ pc[Receiver] = "recv"
  /\ handled < MaxPackets
  /\ \/ Goto(Receiver, "lock") /\ known' = TRUE
     \/ Failures /\ Goto(Receiver, "ended") /\ UNCHANGED known
  /\ UNCHANGED <<mutex, state, packetVars, writeVars>>

LockState ==
  /\ Runs(Receiver) /\ pc[Receiver] = "lock"
  /\ mutex = Free
  /\ mutex' = Receiver
  /\ Goto(Receiver, "handle")
  /\ UNCHANGED <<peerVars, packetVars, writeVars>>

\* The end of a pass, or of the task, lets go of the mutex and the map.
Leave(where) == mutex' = Free /\ Goto(Receiver, where)

\* handle_packet accepts the packets a datagram completes, or a Fin closes the
\* connection, or a Reset does, in any state.  A panic ends the task.
HandlePacket ==
  /\ Runs(Receiver) /\ pc[Receiver] = "handle"
  /\ \/ \E k \in 0 .. MaxBurst :
          /\ state # "Connected" => k = 0
          /\ handled + k <= MaxPackets
          /\ handled' = handled + k
          /\ incoming_buffer' = incoming_buffer \o [i \in 1 .. k |-> handled + i]
          /\ UNCHANGED state
     \/ /\ state' \in {"ResetReceived"} \cup (IF state = "Connected" THEN {"Closed"} ELSE {})
        /\ UNCHANGED <<handled, incoming_buffer>>
  /\ \/ Goto(Receiver, "reply") /\ UNCHANGED mutex
     \/ Failures /\ Leave("ended")
  /\ UNCHANGED <<known, channel, read, open, writeVars>>

SendReply ==
  /\ Runs(Receiver) /\ pc[Receiver] = "reply"
  /\ \/ Goto(Receiver, "push") /\ UNCHANGED mutex
     \/ Failures /\ Leave("ended")
  /\ UNCHANGED <<peerVars, packetVars, writeVars>>

PushFaulty ==
  /\ Runs(Receiver) /\ pc[Receiver] = "push"
  /\ incoming_buffer # << >> /\ open
  /\ channel' = IF Len(channel) < Capacity
                THEN Append(channel, Head(incoming_buffer)) ELSE channel
  /\ incoming_buffer' = Tail(incoming_buffer)
  /\ UNCHANGED <<pc, mutex, peerVars, handled, read, open, writeVars>>
PushLast ==
  /\ Runs(Receiver) /\ pc[Receiver] = "push"
  /\ incoming_buffer # << >> /\ open /\ Len(channel) < Capacity
  /\ channel' = Append(channel, incoming_buffer[Len(incoming_buffer)])
  /\ incoming_buffer' = SubSeq(incoming_buffer, 1, Len(incoming_buffer) - 1)
  /\ UNCHANGED <<pc, mutex, peerVars, handled, read, open, writeVars>>
RoomFaulty == Len(channel) <= Capacity
Room == Len(channel) < Capacity
\* One packet goes into the channel, once there is a place.  Without a stream
\* the packet is gone and the task ends.
Push ==
  /\ Runs(Receiver) /\ pc[Receiver] = "push"
  /\ incoming_buffer # << >>
  /\ \/ /\ open /\ Room
        /\ channel' = Append(channel, Head(incoming_buffer))
        /\ UNCHANGED <<pc, mutex>>
     \/ /\ ~ open
        /\ UNCHANGED channel
        /\ Leave("ended")
  /\ incoming_buffer' = Tail(incoming_buffer)
  /\ UNCHANGED <<peerVars, handled, read, open, writeVars>>

EndPass ==
  /\ Runs(Receiver) /\ pc[Receiver] = "push"
  /\ incoming_buffer = << >>
  /\ Leave("recv")
  /\ UNCHANGED <<peerVars, packetVars, writeVars>>

-----------------------------------------------------------------------------
(* poll_read, and the end of the stream.                                   *)

BeginRead ==
  /\ Runs(App) /\ pc[App] = "idle" /\ "read" \in AppCalls
  /\ Goto(App, "reading")
  /\ UNCHANGED <<mutex, peerVars, packetVars, writeVars>>

\* poll_recv yields a packet.  It never yields None: the stream's own socket
\* holds a sender of the channel.
EndRead ==
  /\ Runs(App) /\ pc[App] = "reading"
  /\ channel # << >>
  /\ read' = Append(read, Head(channel))
  /\ channel' = Tail(channel)
  /\ Goto(App, "idle")
  /\ UNCHANGED <<mutex, peerVars, handled, incoming_buffer, open, writeVars>>

\* The application drops the stream and with it the receiver of the channel;
\* the receive task is detached and goes on.
DropStream ==
  /\ Runs(App) /\ pc[App] = "idle" /\ "drop" \in AppCalls
  /\ open' = FALSE
  /\ channel' = << >>
  /\ Goto(App, "gone")
  /\ UNCHANGED <<mutex, peerVars, handled, incoming_buffer, read, writeVars>>

-----------------------------------------------------------------------------
(* send_packets, awaited by a task of its own or polled by poll_write.     *)

BeginWrite(t) ==
  /\ Runs(t) /\ pc[t] = "idle"
  /\ t = App => "write" \in AppCalls
  /\ Len(result) < MaxWrites
  /\ result' = Append(result, "none")
  /\ cut' = Append(cut, 0)
  /\ call' = [call EXCEPT ![t] = Len(result) + 1]
  /\ Goto(t, "find")
  /\ UNCHANGED <<mutex, peerVars, packetVars, queued>>

Return(t, r) ==
  /\ result' = [result EXCEPT ![call[t]] = r]
  /\ call' = [call EXCEPT ![t] = 0]
  /\ Goto(t, "idle")

\* The peer is looked up in the map and the guard dropped.
FindPeer(t) ==
  /\ Runs(t) /\ pc[t] = "find"
  /\ \/ known /\ Goto(t, "lock") /\ UNCHANGED <<call, result>>
     \/ ~ known /\ Return(t, "NotFound")
  /\ UNCHANGED <<mutex, peerVars, packetVars, queued, cut>>

QueueChunksFaulty(t) ==
  /\ Runs(t) /\ pc[t] = "lock"
  /\ mutex = Free
  /\ IF state = "Closed"
     THEN Return(t, "NotConnected") /\ UNCHANGED queued
     ELSE Goto(t, "send") /\ queued' = Append(queued, call[t]) /\ UNCHANGED <<call, result>>
  /\ UNCHANGED <<mutex, peerVars, packetVars, cut>>
\* With the mutex, the chunks enter sent_window unless the peer is closed.
QueueChunks(t) ==
  /\ Runs(t) /\ pc[t] = "lock"
  /\ mutex = Free
  /\ \/ /\ state = "Closed"
        /\ Return(t, "NotConnected")
        /\ UNCHANGED <<mutex, queued>>
     \/ /\ state # "Closed"
        /\ mutex' = t
        /\ queued' = Append(queued, call[t])
        /\ Goto(t, "send")
        /\ UNCHANGED <<call, result>>
  /\ UNCHANGED <<peerVars, packetVars, cut>>

SendWindowFaulty(t) ==
  /\ Runs(t) /\ pc[t] = "send"
  /\ mutex' = Free
  /\ \/ Return(t, "Ok")
     \/ Failures /\ Goto(t, "find") /\ UNCHANGED <<call, result>>
  /\ UNCHANGED <<peerVars, packetVars, queued, cut>>
\* The whole window is sent, with the mutex held.
SendWindow(t) ==
  /\ Runs(t) /\ pc[t] = "send"
  /\ mutex' = Free
  /\ \/ Return(t, "Ok")
     \/ Failures /\ Return(t, "NetworkUnreachable")
  /\ UNCHANGED <<peerVars, packetVars, queued, cut>>

\* poll_write drops its future when it is pending, and with the future what
\* would have woken the task: only a task that tokio made yield wakes again.
Pending == \E where \in {"woken", "lost"} : Goto(App, where)

PollPendingAtLock ==
  /\ Runs(App) /\ pc[App] = "lock"
  /\ \/ mutex # Free /\ Pending
     \/ mutex = Free /\ Goto(App, "woken")
  /\ UNCHANGED <<mutex, peerVars, packetVars, writeVars>>

PollPendingAtSendFaulty ==
  /\ Runs(App) /\ pc[App] = "send"
  /\ cut[call[App]] < MaxCuts
  /\ cut' = [cut EXCEPT ![call[App]] = @ + 1]
  /\ UNCHANGED mutex
  /\ Pending
  /\ UNCHANGED <<peerVars, packetVars, call, result, queued>>
\* The chunks stay in sent_window; the mutex goes with the future.
PollPendingAtSend ==
  /\ Runs(App) /\ pc[App] = "send"
  /\ cut[call[App]] < MaxCuts
  /\ cut' = [cut EXCEPT ![call[App]] = @ + 1]
  /\ mutex' = Free
  /\ Pending
  /\ UNCHANGED <<peerVars, packetVars, call, result, queued>>

\* The next poll_write starts over with a new future.
PollAgain ==
  /\ Runs(App)
  /\ pc[App] = "woken" \/ (Spurious /\ pc[App] = "lost")
  /\ Goto(App, "find")
  /\ UNCHANGED <<mutex, peerVars, packetVars, writeVars>>

-----------------------------------------------------------------------------
Receive == RecvDatagram \/ LockState \/ HandlePacket \/ SendReply \/ Push \/ EndPass
Write(t) == FindPeer(t) \/ QueueChunks(t) \/ SendWindow(t)
PollPending == PollPendingAtLock \/ PollPendingAtSend

Next ==
  \/ Receive
  \/ BeginRead \/ EndRead \/ DropStream
  \/ \E t \in Writers : BeginWrite(t) \/ Write(t)
  \/ PollPending \/ PollAgain

Spec == Init /\ [][Next]_vars

\* The runtime runs every task that can go on, and a task that awaits the mutex
\* is served in its turn.  poll_write never awaits it: at the end of a poll it
\* gives its place in the queue away.  The receive task needs no turn: while it
\* waits it holds the map, and no further task comes to the mutex.
Fairness ==
  /\ WF_vars(LockState \/ HandlePacket \/ SendReply \/ Push \/ EndPass)
  /\ \A t \in Senders : WF_vars(Write(t)) /\ SF_vars(QueueChunks(t))
  /\ WF_vars(EndRead) /\ WF_vars(Write(App) \/ PollPending)
  /\ WF_vars(pc[App] = "woken" /\ PollAgain)

\* The runtime promises that for tasks that do not block their threads.  A task
\* that was woken may lie in a slot that only one thread takes tasks from: while
\* a thread is blocked for good, any task may be left lying.
NoThreadIsLost == []<>(Blocked = {})
FairSpec == Spec /\ (NoThreadIsLost => Fairness)

-----------------------------------------------------------------------------
(* Properties.                                                             *)

Label == {"recv", "lock", "handle", "reply", "push", "ended", "idle", "reading",
          "gone", "find", "send", "woken", "lost"}
Outcome == {"none", "Ok", "NotFound", "NotConnected", "NetworkUnreachable"}

\* Every variable stays in its domain, and the channel within its places.
TypeOK ==
  /\ pc \in [Tasks -> Label]
  /\ pc[Receiver] \in {"recv", "lock", "handle", "reply", "push", "ended"}
  /\ mutex \in Tasks \cup {Free}
  /\ {known, open} \subseteq BOOLEAN
  /\ state \in {"Connected", "Closed", "ResetReceived"}
  /\ handled \in 0 .. MaxPackets
  /\ {incoming_buffer, channel, read} \subseteq Seq(Nat)
  /\ Len(channel) <= Capacity
  /\ result \in Seq(Outcome) /\ cut \in Seq(0 .. MaxCuts)
  /\ Len(result) <= MaxWrites /\ Len(cut) = Len(result)
  /\ call \in [Writers -> 0 .. Len(result)]
  /\ queued \in Seq(1 .. Len(result))

\* While the stream is open, every packet the handler accepted is with the
\* reader, in the channel or on its way there, in the order of acceptance:
\* a full channel, a failed reply or an ended task skips none.
NothingSkipped ==
  open => read \o channel \o incoming_buffer = [i \in 1 .. handled |-> i]

\* The mutex is held only where it was taken, by one task at a time, and who
\* holds it does not ask for the map: the order is map before mutex.
LockOrder ==
  /\ pc[Receiver] \in {"handle", "reply", "push"} <=> mutex = Receiver
  /\ \A t \in Writers : pc[t] = "send" <=> mutex = t

\* While a pass of the loop holds the map, some task can go on if the runtime runs
\* it, unless every worker is blocked, or the application writes where it would
\* have to read: it waits for the holder of the map, who waits for a place in
\* the full channel.  This is about who waits for whom; NoThreadIsLost is about
\* whether a task that can go on is run.
SomebodyGoesOn ==
  ENABLED (LockState \/ HandlePacket \/ SendReply \/ Push \/ EndPass \/ BeginRead
             \/ EndRead \/ PollAgain \/ \E t \in Writers : Write(t))
CircleNeedsTheReader ==
  MapHeld /\ ~ SomebodyGoesOn =>
    \/ Cardinality(Blocked) >= Workers
    \/ call[App] # 0 /\ Len(channel) = Capacity

\* A write that was cut off by a pending poll is queued again from the start.
\* Nothing else queues chunks twice, and Ok means that they are queued.
Copies(w) == Cardinality({i \in DOMAIN queued : queued[i] = w})
CopiesComeFromCutPolls ==
  \A w \in DOMAIN result :
    /\ Copies(w) <= cut[w] + 1
    /\ result[w] \in {"Ok", "NetworkUnreachable"} => Copies(w) = cut[w] + 1

\* No write succeeds on a closed connection: what QueueChunks saw of the state
\* still holds when the window has been sent.
ClosedWritesFail ==
  [][\A w \in DOMAIN result :
       state = "Closed" /\ result'[w] = "Ok" => result[w] = "Ok"]_vars

\* To a reader that comes back for more, and as long as no thread is blocked for
\* good, every packet that was handled is handed out, one by one and in order,
\* through a channel of a single place and whoever else writes meanwhile.
Pipe == INSTANCE PacketPipe
          WITH sent <- [i \in 1 .. handled |-> i], got <- read
ImplementsPipe ==
  Pipe!Spec /\ (NoThreadIsLost /\ []<>(pc[App] = "reading") => Pipe!Fairness)

\* A write that does not return has one of these reasons: a thread is blocked for
\* good; the map is held again and again when the write asks for its peer; nobody
\* empties the channel; or, for a write of the stream, no poll follows one that
\* lost its wakeup, or its polls are pending again and again.
Waiting(w) == Len(result) >= w /\ result[w] = "none"
WritesReturn ==
  \A w \in 1 .. MaxWrites : <>[]Waiting(w) =>
    \/ ~ NoThreadIsLost
    \/ []<>(\E t \in Blocked : call[t] = w)
    \/ <>[](Len(channel) = Capacity)
    \/ <>[](call[App] = w /\ pc[App] = "lost")
    \/ []<><<PollPending /\ call[App] = w>>_vars
=============================================================================
