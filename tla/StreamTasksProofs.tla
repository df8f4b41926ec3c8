-------------------------- MODULE StreamTasksProofs --------------------------
(***************************************************************************)
(* Proofs about the tasks around a stream, for any number of writing tasks *)
(* and workers, any capacity of the channel and every bound: the types, the*)
(* order of the locks, that no accepted packet is skipped, and that the    *)
(* handler, the channel and the reader implement the abstract pipe.        *)
(***************************************************************************)
EXTENDS StreamTasks, SequenceTheorems, FiniteSetTheorems, TLAPS

-----------------------------------------------------------------------------
(* The inductive invariant.                                                *)

\* A task that is in the middle of a write has begun it.
CallsBegun ==
  \A t \in Writers :
    pc[t] \in {"find", "lock", "send", "woken", "lost"} => call[t] \in 1 .. Len(result)

\* A connection is not closed while a write sends on it.
SendersOpen == \A t \in Writers : pc[t] = "send" => state # "Closed"

\* Only an application that is gone has dropped its stream.
ReaderOpen == open \/ pc[App] = "gone"

TasksInv ==
  /\ TypeOK
  /\ LockOrder
  /\ NothingSkipped
  /\ CallsBegun
  /\ SendersOpen
  /\ ReaderOpen

LEMMA Constants ==
  /\ App \in Writers /\ App \in Tasks /\ Receiver \in Tasks /\ Receiver \notin Writers
  /\ Writers \subseteq Tasks /\ \A t \in Tasks : t # Free
  /\ \A t \in Tasks : t = Receiver \/ t \in Writers
  /\ {Capacity, Workers, MaxPackets, MaxBurst, MaxWrites, MaxCuts} \subseteq Nat
BY TaskAssumption, SizeAssumption DEF Writers, Tasks

-----------------------------------------------------------------------------
(* Sequences.                                                              *)

LEMMA MoveHead ==
  ASSUME NEW S, NEW s \in Seq(S), NEW u \in Seq(S), u # << >>
  PROVE  Append(s, Head(u)) \o Tail(u) = s \o u
<1>1. /\ Head(u) \in S /\ Tail(u) \in Seq(S) /\ Len(Tail(u)) = Len(u) - 1
      /\ \A i \in 1 .. Len(Tail(u)) : Tail(u)[i] = u[i + 1]
  BY HeadTailProperties
<1>2. Head(u) = u[1] /\ Len(u) \in Nat \ {0} /\ Len(s) \in Nat
  BY EmptySeq, LenProperties
<1>3. /\ Append(s, Head(u)) \in Seq(S) /\ Len(Append(s, Head(u))) = Len(s) + 1
      /\ \A i \in 1 .. Len(s) : Append(s, Head(u))[i] = s[i]
      /\ Append(s, Head(u))[Len(s) + 1] = Head(u)
  BY <1>1, AppendProperties
<1> DEFINE a == Append(s, Head(u)) \o Tail(u)
           b == s \o u
<1>4. /\ a \in Seq(S) /\ Len(a) = Len(s) + Len(u)
      /\ \A i \in 1 .. Len(s) + Len(u) :
           a[i] = IF i <= Len(s) + 1 THEN Append(s, Head(u))[i] ELSE Tail(u)[i - (Len(s) + 1)]
  BY <1>1, <1>2, <1>3, ConcatProperties
<1>5. /\ b \in Seq(S) /\ Len(b) = Len(s) + Len(u)
      /\ \A i \in 1 .. Len(s) + Len(u) :
           b[i] = IF i <= Len(s) THEN s[i] ELSE u[i - Len(s)]
  BY ConcatProperties
<1>6. ASSUME NEW i \in 1 .. Len(s) + Len(u)
      PROVE  a[i] = b[i]
  <2>1. CASE i <= Len(s)
    BY <2>1, <1>2, <1>3, <1>4, <1>5
  <2>2. CASE i = Len(s) + 1
    BY <2>2, <1>2, <1>3, <1>4, <1>5
  <2>3. CASE i > Len(s) + 1
    <3>1. i - (Len(s) + 1) \in 1 .. Len(Tail(u))
      BY <2>3, <1>1, <1>2
    <3>2. Tail(u)[i - (Len(s) + 1)] = u[i - Len(s)]
      BY <3>1, <1>1, <1>2
    <3> QED
      BY <2>3, <3>2, <1>2, <1>4, <1>5
  <2> QED
    BY <2>1, <2>2, <2>3, <1>2
<1> HIDE DEF a, b
<1>7. a = b
  BY <1>4, <1>5, <1>6, SeqEqual
<1> QED
  BY <1>7 DEF a, b

LEMMA Associative ==
  \A s, t, u \in Seq(Nat) : (s \o t) \o u = s \o (t \o u)
BY SMTT(30), ConcatAssociative

LEMMA CountingType ==
  ASSUME NEW h \in Nat, NEW k \in Nat
  PROVE  /\ [i \in 1 .. k |-> h + i] \in Seq(Nat)
         /\ Len([i \in 1 .. k |-> h + i]) = k
<1>1. [i \in 1 .. k |-> h + i] \in [1 .. k -> Nat]
  OBVIOUS
<1>2. [i \in 1 .. k |-> h + i] \in Seq(Nat)
  BY <1>1, SeqDef
<1> QED
  BY <1>2, LenProperties

LEMMA CountOn ==
  ASSUME NEW h \in Nat, NEW k \in Nat
  PROVE  [i \in 1 .. h |-> i] \o [i \in 1 .. k |-> h + i] = [i \in 1 .. h + k |-> i]
<1> DEFINE s == [i \in 1 .. h |-> i]
           u == [i \in 1 .. k |-> h + i]
           v == [i \in 1 .. h + k |-> i]
<1>1. s \in Seq(Nat) /\ Len(s) = h /\ \A i \in 1 .. h : s[i] = i
  <2>1. s = [i \in 1 .. h |-> 0 + i]
    OBVIOUS
  <2> QED
    BY <2>1, CountingType
<1>2. u \in Seq(Nat) /\ Len(u) = k /\ \A i \in 1 .. k : u[i] = h + i
  BY CountingType
<1>3. v \in Seq(Nat) /\ Len(v) = h + k /\ \A i \in 1 .. h + k : v[i] = i
  <2>1. v = [i \in 1 .. h + k |-> 0 + i]
    OBVIOUS
  <2>2. h + k \in Nat
    OBVIOUS
  <2> QED
    BY <2>1, <2>2, CountingType
<1> HIDE DEF s, u, v
<1>4. /\ s \o u \in Seq(Nat) /\ Len(s \o u) = h + k
      /\ \A i \in 1 .. h + k : (s \o u)[i] = IF i <= h THEN s[i] ELSE u[i - h]
  BY <1>1, <1>2, ConcatProperties
<1>5. \A i \in 1 .. h + k : (s \o u)[i] = v[i]
  BY <1>1, <1>2, <1>3, <1>4
<1>6. s \o u = v
  BY <1>3, <1>4, <1>5, SeqEqual
<1> QED
  BY <1>6 DEF s, u, v

-----------------------------------------------------------------------------
(* The receive task.                                                       *)

\* Steps that move one task and leave packets and writes alone.
LEMMA GotoType ==
  ASSUME TypeOK, NEW t \in Tasks, NEW where \in Label, Goto(t, where),
         t = Receiver => where \in {"recv", "lock", "handle", "reply", "push", "ended"}
  PROVE  /\ pc' \in [Tasks -> Label]
         /\ pc'[Receiver] \in {"recv", "lock", "handle", "reply", "push", "ended"}
         /\ pc'[t] = where
         /\ \A u \in Tasks : u # t => pc'[u] = pc[u]
BY Constants DEF TypeOK, Goto

LEMMA RecvDatagramInv ==
  ASSUME TasksInv, RecvDatagram
  PROVE  TasksInv'
<1>1. \E where \in {"lock", "ended"} : Goto(Receiver, where)
  BY DEF RecvDatagram
<1>2. known' \in BOOLEAN
  BY DEF RecvDatagram, TasksInv, TypeOK
<1> QED
  BY SMTT(30), <1>1, <1>2, GotoType, Constants
     DEF RecvDatagram, TasksInv, TypeOK, Label, LockOrder, NothingSkipped, CallsBegun,
         SendersOpen, ReaderOpen, packetVars, writeVars

LEMMA LockStateInv ==
  ASSUME TasksInv, LockState
  PROVE  TasksInv'
<1>1. Goto(Receiver, "handle") /\ mutex' = Receiver /\ mutex = Free
  BY DEF LockState
<1> QED
  BY SMTT(30), <1>1, GotoType, Constants
     DEF LockState, TasksInv, TypeOK, Label, LockOrder, NothingSkipped, CallsBegun,
         SendersOpen, ReaderOpen, peerVars, packetVars, writeVars

\* The receive task goes on, or leaves and lets go of the mutex.
LEMMA LeaveType ==
  ASSUME TasksInv, pc[Receiver] \in {"handle", "reply", "push"},
         NEW next \in {"reply", "push"}, NEW last \in {"recv", "ended"},
         (Goto(Receiver, next) /\ UNCHANGED mutex) \/ Leave(last),
         UNCHANGED call, UNCHANGED result
  PROVE  /\ pc' \in [Tasks -> Label]
         /\ pc'[Receiver] \in {"recv", "lock", "handle", "reply", "push", "ended"}
         /\ \A u \in Writers : pc'[u] = pc[u]
         /\ mutex' \in Tasks \cup {Free}
         /\ LockOrder'
         /\ CallsBegun'
<1>1. mutex = Receiver /\ \A u \in Writers : pc[u] # "send"
  BY Constants DEF TasksInv, LockOrder
<1>2. \E where \in {next, last} : Goto(Receiver, where)
  BY DEF Leave
<1>3. /\ pc' \in [Tasks -> Label]
      /\ pc'[Receiver] \in {next, last}
      /\ \A u \in Writers : pc'[u] = pc[u]
  BY <1>2, GotoType, Constants DEF TasksInv, Label
<1>4. \/ mutex' = Receiver /\ pc'[Receiver] = next
      \/ mutex' = Free /\ pc'[Receiver] = last
  BY <1>1, GotoType, Constants DEF TasksInv, Leave, Label
<1> QED
  BY <1>1, <1>3, <1>4, Constants DEF LockOrder, CallsBegun, TasksInv

LEMMA HandlePacketInv ==
  ASSUME TasksInv, HandlePacket
  PROVE  TasksInv'
<1>1. /\ pc[Receiver] = "handle" /\ mutex = Receiver
      /\ UNCHANGED <<known, channel, read, open, call, result, queued, cut>>
  BY Constants DEF HandlePacket, writeVars, TasksInv, LockOrder
<1>2. /\ pc' \in [Tasks -> Label]
      /\ pc'[Receiver] \in {"recv", "lock", "handle", "reply", "push", "ended"}
      /\ \A u \in Writers : pc'[u] = pc[u]
      /\ mutex' \in Tasks \cup {Free}
      /\ LockOrder' /\ CallsBegun'
  BY <1>1, LeaveType DEF HandlePacket
<1>3. /\ handled' \in 0 .. MaxPackets /\ incoming_buffer' \in Seq(Nat)
      /\ state' \in {"Connected", "Closed", "ResetReceived"}
      /\ NothingSkipped'
  <2>1. CASE /\ state' \in {"ResetReceived"} \cup
                             (IF state = "Connected" THEN {"Closed"} ELSE {})
             /\ UNCHANGED <<handled, incoming_buffer>>
    BY <1>1, <2>1 DEF TasksInv, TypeOK, NothingSkipped
  <2>2. ASSUME NEW k \in 0 .. MaxBurst, handled + k <= MaxPackets, handled' = handled + k,
               incoming_buffer' = incoming_buffer \o [i \in 1 .. k |-> handled + i],
               UNCHANGED state
        PROVE  /\ handled' \in 0 .. MaxPackets /\ incoming_buffer' \in Seq(Nat)
               /\ state' \in {"Connected", "Closed", "ResetReceived"}
               /\ NothingSkipped'
    <3> DEFINE new == [i \in 1 .. k |-> handled + i]
    <3>1. handled \in Nat /\ k \in Nat /\ handled' \in 0 .. MaxPackets
      BY <2>2, Constants DEF TasksInv, TypeOK
    <3>2. /\ read \o channel \in Seq(Nat) /\ incoming_buffer \in Seq(Nat)
          /\ new \in Seq(Nat)
      BY <3>1, CountingType, ConcatProperties DEF TasksInv, TypeOK
    <3>3. read \o channel \o (incoming_buffer \o new)
            = (read \o channel \o incoming_buffer) \o new
      <4> HIDE DEF new
      <4> QED
        BY <3>2, Associative
    <3>4. incoming_buffer' \in Seq(Nat)
      BY <2>2, <3>2, ConcatProperties
    <3>5. open => read \o channel \o incoming_buffer = [i \in 1 .. handled |-> i]
      BY DEF TasksInv, NothingSkipped
    <3>6. [i \in 1 .. handled |-> i] \o new = [i \in 1 .. handled + k |-> i]
      BY <3>1, CountOn
    <3> HIDE DEF new
    <3>7. incoming_buffer' = incoming_buffer \o new
      BY <2>2 DEF new
    <3>8. open' => (read \o channel \o incoming_buffer)' = [i \in 1 .. handled' |-> i]
      BY <1>1, <2>2, <3>3, <3>5, <3>6, <3>7
    <3> QED
      BY <2>2, <3>1, <3>4, <3>8 DEF NothingSkipped, TasksInv, TypeOK
  <2> QED
    BY <2>1, <2>2 DEF HandlePacket
<1>4. \A u \in Writers : pc[u] # "send"
  BY <1>1, Constants DEF TasksInv, LockOrder
<1> QED
  BY <1>1, <1>2, <1>3, <1>4, Constants DEF TasksInv, TypeOK, SendersOpen, ReaderOpen

LEMMA SendReplyInv ==
  ASSUME TasksInv, SendReply
  PROVE  TasksInv'
<1>1. /\ pc[Receiver] = "reply"
      /\ UNCHANGED <<peerVars, packetVars, writeVars>>
      /\ (Goto(Receiver, "push") /\ UNCHANGED mutex) \/ Leave("ended")
  BY DEF SendReply
<1>2. /\ pc' \in [Tasks -> Label]
      /\ pc'[Receiver] \in {"recv", "lock", "handle", "reply", "push", "ended"}
      /\ \A u \in Writers : pc'[u] = pc[u]
      /\ mutex' \in Tasks \cup {Free}
      /\ LockOrder' /\ CallsBegun'
  BY <1>1, LeaveType DEF writeVars
<1> QED
  BY <1>1, <1>2, Constants
     DEF TasksInv, TypeOK, NothingSkipped, SendersOpen, ReaderOpen,
         peerVars, packetVars, writeVars

LEMMA PushInv ==
  ASSUME TasksInv, Push
  PROVE  TasksInv'
<1>1. /\ pc[Receiver] = "push" /\ incoming_buffer # << >>
      /\ incoming_buffer' = Tail(incoming_buffer)
      /\ UNCHANGED <<peerVars, handled, read, open, writeVars>>
  BY DEF Push
<1>2. /\ {read, channel, incoming_buffer} \subseteq Seq(Nat)
      /\ Head(incoming_buffer) \in Nat /\ Tail(incoming_buffer) \in Seq(Nat)
  BY <1>1, HeadTailProperties DEF TasksInv, TypeOK
<1>3. CASE /\ open /\ Room
           /\ channel' = Append(channel, Head(incoming_buffer))
           /\ UNCHANGED <<pc, mutex>>
  <2>1. channel' \in Seq(Nat) /\ Len(channel') = Len(channel) + 1
    BY <1>2, <1>3, AppendProperties
  <2>2. Len(channel') <= Capacity
    BY <1>2, <1>3, <2>1, LenProperties, Constants DEF Room
  <2>3. channel' \o incoming_buffer' = channel \o incoming_buffer
    BY <1>1, <1>2, <1>3, MoveHead
  <2>4. /\ read \o channel \o incoming_buffer = read \o (channel \o incoming_buffer)
        /\ read \o channel' \o incoming_buffer' = read \o (channel' \o incoming_buffer')
    <3>1. /\ read \in Seq(Nat) /\ channel \in Seq(Nat) /\ incoming_buffer \in Seq(Nat)
          /\ channel' \in Seq(Nat) /\ incoming_buffer' \in Seq(Nat)
      BY <1>1, <1>2, <2>1
    <3>2. read \o channel \o incoming_buffer = read \o (channel \o incoming_buffer)
      BY ZenonT(30), <3>1, Associative
    <3>3. read \o channel' \o incoming_buffer' = read \o (channel' \o incoming_buffer')
      BY SMTT(30), <3>1, Associative
    <3> QED
      BY <3>2, <3>3
  <2>5. NothingSkipped'
    BY <1>1, <2>3, <2>4 DEF TasksInv, NothingSkipped
  <2>6. TypeOK'
    BY <1>1, <1>2, <1>3, <2>1, <2>2 DEF TasksInv, TypeOK, peerVars, writeVars
  <2> QED
    BY <1>1, <1>3, <2>5, <2>6
       DEF TasksInv, LockOrder, CallsBegun, SendersOpen, ReaderOpen, peerVars, writeVars
<1>4. CASE ~ open /\ UNCHANGED channel /\ Leave("ended")
  <2>1. /\ pc' \in [Tasks -> Label]
        /\ pc'[Receiver] \in {"recv", "lock", "handle", "reply", "push", "ended"}
        /\ \A u \in Writers : pc'[u] = pc[u]
        /\ mutex' \in Tasks \cup {Free}
        /\ LockOrder' /\ CallsBegun'
    BY <1>1, <1>4, LeaveType DEF writeVars
  <2> QED
    BY <1>1, <1>2, <1>4, <2>1, Constants
       DEF TasksInv, TypeOK, NothingSkipped, SendersOpen, ReaderOpen, peerVars, writeVars
<1> QED
  BY <1>3, <1>4 DEF Push

LEMMA EndPassInv ==
  ASSUME TasksInv, EndPass
  PROVE  TasksInv'
<1>1. /\ pc[Receiver] = "push" /\ Leave("recv")
      /\ UNCHANGED <<peerVars, packetVars, writeVars>>
  BY DEF EndPass
<1>2. /\ pc' \in [Tasks -> Label]
      /\ pc'[Receiver] \in {"recv", "lock", "handle", "reply", "push", "ended"}
      /\ \A u \in Writers : pc'[u] = pc[u]
      /\ mutex' \in Tasks \cup {Free}
      /\ LockOrder' /\ CallsBegun'
  BY <1>1, LeaveType DEF writeVars
<1> QED
  BY <1>1, <1>2, Constants
     DEF TasksInv, TypeOK, NothingSkipped, SendersOpen, ReaderOpen,
         peerVars, packetVars, writeVars

-----------------------------------------------------------------------------
(* The application and the tasks that write.                               *)

LEMMA BeginReadInv ==
  ASSUME TasksInv, BeginRead
  PROVE  TasksInv'
<1>1. Goto(App, "reading") /\ pc[App] = "idle"
  BY DEF BeginRead
<1> QED
  BY <1>1, GotoType, Constants
     DEF BeginRead, TasksInv, TypeOK, Label, LockOrder, NothingSkipped, CallsBegun,
         SendersOpen, ReaderOpen, peerVars, packetVars, writeVars

LEMMA EndReadInv ==
  ASSUME TasksInv, EndRead
  PROVE  TasksInv'
<1>1. /\ pc[App] = "reading" /\ Goto(App, "idle") /\ channel # << >>
      /\ read' = Append(read, Head(channel)) /\ channel' = Tail(channel)
      /\ UNCHANGED <<mutex, peerVars, handled, incoming_buffer, open, writeVars>>
  BY DEF EndRead
<1>2. /\ read \in Seq(Nat) /\ channel \in Seq(Nat) /\ incoming_buffer \in Seq(Nat)
  BY DEF TasksInv, TypeOK
<1>3. /\ read' \in Seq(Nat) /\ channel' \in Seq(Nat) /\ Len(channel') <= Capacity
  <2>1. /\ Head(channel) \in Nat /\ Tail(channel) \in Seq(Nat)
        /\ Len(Tail(channel)) = Len(channel) - 1
    BY <1>1, <1>2, HeadTailProperties
  <2>2. Len(channel) \in Nat /\ Len(channel) <= Capacity
    BY <1>2, LenProperties DEF TasksInv, TypeOK
  <2> QED
    BY <1>1, <1>2, <2>1, <2>2, AppendProperties, Constants
<1>4. read' \o channel' = read \o channel
  BY <1>1, <1>2, MoveHead
<1>5. NothingSkipped'
  BY <1>1, <1>4 DEF TasksInv, NothingSkipped
<1>6. TypeOK'
  BY <1>1, <1>2, <1>3, GotoType, Constants DEF TasksInv, TypeOK, Label, peerVars, writeVars
<1> QED
  BY <1>1, <1>5, <1>6, GotoType, Constants
     DEF TasksInv, Label, LockOrder, CallsBegun, SendersOpen, ReaderOpen, peerVars, writeVars

LEMMA DropStreamInv ==
  ASSUME TasksInv, DropStream
  PROVE  TasksInv'
<1>1. /\ pc[App] = "idle" /\ Goto(App, "gone") /\ ~ open' /\ channel' = << >>
      /\ UNCHANGED <<mutex, peerVars, handled, incoming_buffer, read, writeVars>>
  BY DEF DropStream
<1>2. channel' \in Seq(Nat) /\ Len(channel') = 0 /\ open' = FALSE
  BY <1>1, EmptySeq DEF DropStream
<1>3. Len(channel') <= Capacity
  BY <1>2, Constants
<1>4. /\ pc' \in [Tasks -> Label] /\ pc'[App] = "gone"
      /\ \A u \in Tasks : u # App => pc'[u] = pc[u]
  BY <1>1, GotoType, Constants DEF TasksInv, Label
<1>5. TypeOK'
  BY <1>1, <1>2, <1>3, <1>4, Constants DEF TasksInv, TypeOK, peerVars, writeVars
<1>6. LockOrder' /\ NothingSkipped'
  BY <1>1, <1>2, <1>4, Constants DEF TasksInv, LockOrder, NothingSkipped
<1> QED
  BY <1>1, <1>4, <1>5, <1>6, Constants
     DEF TasksInv, CallsBegun, SendersOpen, ReaderOpen, peerVars, writeVars

LEMMA BeginWriteInv ==
  ASSUME TasksInv, NEW t \in Writers, BeginWrite(t)
  PROVE  TasksInv'
<1>1. /\ pc[t] = "idle" /\ Goto(t, "find") /\ Len(result) < MaxWrites
      /\ result' = Append(result, "none") /\ cut' = Append(cut, 0)
      /\ call' = [call EXCEPT ![t] = Len(result) + 1]
      /\ UNCHANGED <<mutex, peerVars, packetVars, queued>>
  BY DEF BeginWrite
<1>2. /\ result \in Seq(Outcome) /\ cut \in Seq(0 .. MaxCuts) /\ Len(result) \in Nat
      /\ Len(cut) = Len(result) /\ queued \in Seq(1 .. Len(result))
      /\ call \in [Writers -> 0 .. Len(result)]
  BY LenProperties DEF TasksInv, TypeOK
<1>3. /\ result' \in Seq(Outcome) /\ Len(result') = Len(result) + 1
      /\ Len(result') <= MaxWrites
  BY <1>1, <1>2, AppendProperties, Constants DEF Outcome
<1>4. cut' \in Seq(0 .. MaxCuts) /\ Len(cut') = Len(result')
  BY <1>1, <1>2, <1>3, AppendProperties, Constants
<1>5. queued' \in Seq(1 .. Len(result'))
  BY <1>1, <1>2, <1>3, SeqMonotonic
<1>6. call' \in [Writers -> 0 .. Len(result')] /\ call'[t] = Len(result')
      /\ \A u \in Writers : u # t => call'[u] = call[u]
  BY <1>1, <1>2, <1>3
<1>7. /\ pc' \in [Tasks -> Label] /\ pc'[t] = "find"
      /\ \A u \in Tasks : u # t => pc'[u] = pc[u]
      /\ pc'[Receiver] = pc[Receiver]
  BY <1>1, GotoType, Constants DEF TasksInv, Label
<1>8. TypeOK'
  BY <1>1, <1>3, <1>4, <1>5, <1>6, <1>7 DEF TasksInv, TypeOK, peerVars, packetVars
<1>9. CallsBegun'
  <2> SUFFICES ASSUME NEW u \in Writers,
                      pc'[u] \in {"find", "lock", "send", "woken", "lost"}
               PROVE  call'[u] \in 1 .. Len(result')
    BY DEF CallsBegun
  <2>1. CASE u = t
    BY <1>2, <1>3, <1>6, <2>1
  <2>2. CASE u # t
    <3>1. call[u] \in 1 .. Len(result)
      BY <1>7, <2>2, Constants DEF TasksInv, CallsBegun
    <3> QED
      BY <1>2, <1>3, <1>6, <2>2, <3>1
  <2> QED
    BY <2>1, <2>2
<1> QED
  BY <1>1, <1>7, <1>8, <1>9, Constants
     DEF TasksInv, LockOrder, NothingSkipped, SendersOpen, ReaderOpen, peerVars, packetVars

\* A write that returns leaves its task idle and its outcome behind.
LEMMA ReturnType ==
  ASSUME TasksInv, NEW t \in Writers, NEW r \in Outcome, Return(t, r),
         pc[t] \in {"find", "lock", "send"}
  PROVE  /\ result' \in Seq(Outcome) /\ Len(result') = Len(result)
         /\ \A w \in DOMAIN result : result'[w] = IF w = call[t] THEN r ELSE result[w]
         /\ call' \in [Writers -> 0 .. Len(result)]
         /\ \A u \in Writers : u # t => call'[u] = call[u]
         /\ pc' \in [Tasks -> Label] /\ pc'[t] = "idle"
         /\ \A u \in Tasks : u # t => pc'[u] = pc[u]
         /\ CallsBegun'
<1>1. result \in Seq(Outcome) /\ DOMAIN result = 1 .. Len(result) /\ Len(result) \in Nat
  BY LenProperties DEF TasksInv, TypeOK
<1>2. call[t] \in 1 .. Len(result)
  BY DEF TasksInv, CallsBegun
<1>3. result' = [result EXCEPT ![call[t]] = r]
  BY DEF Return
<1>4. /\ result' \in Seq(Outcome) /\ Len(result') = Len(result)
      /\ \A w \in DOMAIN result : result'[w] = IF w = call[t] THEN r ELSE result[w]
  BY <1>1, <1>2, <1>3, ExceptSeq
<1>5. /\ call' \in [Writers -> 0 .. Len(result)]
      /\ \A u \in Writers : u # t => call'[u] = call[u]
  BY <1>1 DEF Return, TasksInv, TypeOK
<1>6. /\ pc' \in [Tasks -> Label] /\ pc'[t] = "idle"
      /\ \A u \in Tasks : u # t => pc'[u] = pc[u]
  BY GotoType, Constants DEF Return, TasksInv, Label
<1>7. CallsBegun'
  <2> SUFFICES ASSUME NEW u \in Writers,
                      pc'[u] \in {"find", "lock", "send", "woken", "lost"}
               PROVE  call'[u] \in 1 .. Len(result')
    BY DEF CallsBegun
  <2>1. u # t /\ pc'[u] = pc[u] /\ call'[u] = call[u]
    BY <1>5, <1>6, Constants
  <2> QED
    BY <1>4, <2>1 DEF TasksInv, CallsBegun
<1> QED
  BY <1>4, <1>5, <1>6, <1>7

LEMMA FindPeerInv ==
  ASSUME TasksInv, NEW t \in Writers, FindPeer(t)
  PROVE  TasksInv'
<1>1. pc[t] = "find" /\ UNCHANGED <<mutex, peerVars, packetVars, queued, cut>>
  BY DEF FindPeer
<1>2. CASE Goto(t, "lock") /\ UNCHANGED <<call, result>>
  BY ZenonT(30), <1>1, <1>2, GotoType, Constants
     DEF TasksInv, TypeOK, Label, LockOrder, NothingSkipped, CallsBegun,
         SendersOpen, ReaderOpen, peerVars, packetVars
<1>3. CASE Return(t, "NotFound")
  <2>1. "NotFound" \in Outcome
    BY DEF Outcome
  <2>2. /\ result' \in Seq(Outcome) /\ Len(result') = Len(result)
        /\ call' \in [Writers -> 0 .. Len(result)]
        /\ pc' \in [Tasks -> Label] /\ pc'[t] = "idle"
        /\ \A u \in Tasks : u # t => pc'[u] = pc[u]
        /\ CallsBegun'
    BY <1>1, <1>3, <2>1, ReturnType
  <2>3. TypeOK'
    BY <1>1, <1>3, <2>2, Constants DEF TasksInv, TypeOK, peerVars, packetVars
  <2> QED
    BY <1>1, <1>3, <2>2, <2>3, Constants
       DEF TasksInv, LockOrder, NothingSkipped, SendersOpen, ReaderOpen,
           peerVars, packetVars
<1> QED
  BY <1>2, <1>3 DEF FindPeer

LEMMA QueueChunksInv ==
  ASSUME TasksInv, NEW t \in Writers, QueueChunks(t)
  PROVE  TasksInv'
<1>1. /\ pc[t] = "lock" /\ mutex = Free
      /\ UNCHANGED <<peerVars, packetVars, cut>>
  BY DEF QueueChunks
<1>2. CASE Return(t, "NotConnected") /\ UNCHANGED <<mutex, queued>>
  <2>1. "NotConnected" \in Outcome
    BY DEF Outcome
  <2>2. /\ result' \in Seq(Outcome) /\ Len(result') = Len(result)
        /\ call' \in [Writers -> 0 .. Len(result)]
        /\ pc' \in [Tasks -> Label] /\ pc'[t] = "idle"
        /\ \A u \in Tasks : u # t => pc'[u] = pc[u]
        /\ CallsBegun'
    BY <1>1, <1>2, <2>1, ReturnType
  <2>3. TypeOK'
    BY <1>1, <1>2, <2>2, Constants DEF TasksInv, TypeOK, peerVars, packetVars
  <2> QED
    BY <1>1, <1>2, <2>2, <2>3, Constants
       DEF TasksInv, LockOrder, NothingSkipped, SendersOpen, ReaderOpen,
           peerVars, packetVars
<1>3. CASE /\ state # "Closed" /\ mutex' = t
           /\ queued' = Append(queued, call[t]) /\ Goto(t, "send")
           /\ UNCHANGED <<call, result>>
  <2>1. call[t] \in 1 .. Len(result) /\ queued \in Seq(1 .. Len(result))
    BY <1>1 DEF TasksInv, TypeOK, CallsBegun
  <2>2. queued' \in Seq(1 .. Len(result'))
    BY <1>3, <2>1, AppendProperties
  <2>3. /\ pc' \in [Tasks -> Label] /\ pc'[t] = "send"
        /\ \A u \in Tasks : u # t => pc'[u] = pc[u]
    BY <1>3, GotoType, Constants DEF TasksInv, Label
  <2>4. TypeOK'
    BY <1>1, <1>3, <2>2, <2>3, Constants DEF TasksInv, TypeOK, peerVars, packetVars
  <2>5. LockOrder'
    BY <1>1, <1>3, <2>3, Constants DEF TasksInv, LockOrder
  <2> QED
    BY <1>1, <1>3, <2>1, <2>3, <2>4, <2>5, Constants
       DEF TasksInv, NothingSkipped, CallsBegun, SendersOpen, ReaderOpen,
           peerVars, packetVars
<1> QED
  BY <1>2, <1>3 DEF QueueChunks

LEMMA SendWindowInv ==
  ASSUME TasksInv, NEW t \in Writers, SendWindow(t)
  PROVE  TasksInv'
<1>1. /\ pc[t] = "send" /\ mutex = t /\ mutex' = Free
      /\ UNCHANGED <<peerVars, packetVars, queued, cut>>
  BY DEF SendWindow, TasksInv, LockOrder
<1>2. \E r \in Outcome : Return(t, r)
  BY DEF SendWindow, Outcome
<1>3. /\ result' \in Seq(Outcome) /\ Len(result') = Len(result)
      /\ call' \in [Writers -> 0 .. Len(result)]
      /\ pc' \in [Tasks -> Label] /\ pc'[t] = "idle"
      /\ \A u \in Tasks : u # t => pc'[u] = pc[u]
      /\ CallsBegun'
  BY <1>1, <1>2, ReturnType
<1>4. TypeOK'
  BY <1>1, <1>3, Constants DEF TasksInv, TypeOK, peerVars, packetVars
<1>5. LockOrder'
  BY <1>1, <1>3, Constants DEF TasksInv, LockOrder
<1> QED
  BY <1>1, <1>3, <1>4, <1>5, Constants
     DEF TasksInv, NothingSkipped, SendersOpen, ReaderOpen, peerVars, packetVars

LEMMA PollPendingInv ==
  ASSUME TasksInv, PollPending
  PROVE  TasksInv'
<1>1. /\ pc[App] \in {"lock", "send"}
      /\ \E where \in {"woken", "lost"} : Goto(App, where)
      /\ UNCHANGED <<peerVars, packetVars, call, result, queued>>
  BY DEF PollPending, PollPendingAtLock, PollPendingAtSend, Pending, writeVars
<1>2. /\ pc' \in [Tasks -> Label] /\ pc'[App] \in {"woken", "lost"}
      /\ \A u \in Tasks : u # App => pc'[u] = pc[u]
  BY <1>1, GotoType, Constants DEF TasksInv, Label
<1>3. mutex' = (IF pc[App] = "send" THEN Free ELSE mutex)
  BY DEF PollPending, PollPendingAtLock, PollPendingAtSend
<1>4. pc[App] = "send" => mutex = App
  BY Constants DEF TasksInv, LockOrder
<1>5. cut' \in Seq(0 .. MaxCuts) /\ Len(cut') = Len(cut)
  <2>1. CASE PollPendingAtSend
    <3>1. /\ call[App] \in 1 .. Len(cut) /\ cut \in Seq(0 .. MaxCuts)
          /\ cut[call[App]] \in 0 .. MaxCuts
      BY <2>1, Constants, ElementOfSeq DEF PollPendingAtSend, TasksInv, TypeOK, CallsBegun
    <3>2. cut[call[App]] + 1 \in 0 .. MaxCuts
      BY SMTT(30), <2>1, <3>1, Constants DEF PollPendingAtSend
    <3>3. cut' = [cut EXCEPT ![call[App]] = cut[call[App]] + 1]
      BY <2>1 DEF PollPendingAtSend
    <3> QED
      BY <3>1, <3>2, <3>3, ExceptSeq
  <2> QED
    BY <2>1 DEF PollPending, PollPendingAtLock, TasksInv, TypeOK, writeVars
<1>6. TypeOK'
  BY <1>1, <1>2, <1>3, <1>5, Constants DEF TasksInv, TypeOK, peerVars, packetVars
<1>7. LockOrder'
  BY <1>1, <1>2, <1>3, <1>4, Constants DEF TasksInv, LockOrder
<1> QED
  BY <1>1, <1>2, <1>6, <1>7, Constants
     DEF TasksInv, NothingSkipped, CallsBegun, SendersOpen, ReaderOpen, peerVars, packetVars

LEMMA PollAgainInv ==
  ASSUME TasksInv, PollAgain
  PROVE  TasksInv'
<1>1. Goto(App, "find") /\ pc[App] \in {"woken", "lost"}
  BY DEF PollAgain
<1> QED
  BY ZenonT(30), <1>1, GotoType, Constants
     DEF PollAgain, TasksInv, TypeOK, Label, LockOrder, NothingSkipped, CallsBegun,
         SendersOpen, ReaderOpen, peerVars, packetVars, writeVars

-----------------------------------------------------------------------------
(* The results.                                                            *)

LEMMA InitInv == Init => TasksInv
<1> SUFFICES ASSUME Init PROVE TasksInv
  OBVIOUS
<1>1. /\ << >> \in Seq(Nat) /\ << >> \in Seq(Outcome) /\ << >> \in Seq(0 .. MaxCuts)
      /\ << >> \in Seq(1 .. 0) /\ Len(<< >>) = 0
  BY EmptySeq
<1>2. TypeOK
  BY <1>1, Constants DEF Init, TypeOK, Label
<1>3. << >> \o << >> \o << >> = [i \in 1 .. 0 |-> i]
  BY <1>1, ConcatEmptySeq
<1>4. NothingSkipped
  BY <1>3 DEF Init, NothingSkipped
<1> QED
  BY <1>2, <1>4, Constants
     DEF Init, TasksInv, LockOrder, CallsBegun, SendersOpen, ReaderOpen

LEMMA StepInv == TasksInv /\ [Next]_vars => TasksInv'
<1> SUFFICES ASSUME TasksInv, [Next]_vars PROVE TasksInv'
  OBVIOUS
<1>1. CASE Receive
  BY <1>1, RecvDatagramInv, LockStateInv, HandlePacketInv, SendReplyInv, PushInv, EndPassInv
     DEF Receive
<1>2. CASE BeginRead \/ EndRead \/ DropStream
  BY <1>2, BeginReadInv, EndReadInv, DropStreamInv
<1>3. ASSUME NEW t \in Writers, BeginWrite(t) \/ Write(t)
      PROVE  TasksInv'
  BY <1>3, BeginWriteInv, FindPeerInv, QueueChunksInv, SendWindowInv DEF Write
<1>4. CASE PollPending \/ PollAgain
  BY <1>4, PollPendingInv, PollAgainInv
<1>5. CASE UNCHANGED vars
  BY <1>5
     DEF vars, peerVars, packetVars, writeVars, TasksInv, TypeOK, LockOrder, NothingSkipped,
         CallsBegun, SendersOpen, ReaderOpen
<1> QED
  BY <1>1, <1>2, <1>3, <1>4, <1>5 DEF Next

\* The inductive invariant holds of the tasks, whatever they do and whoever
\* fails, is cut off or goes away.
THEOREM TasksInvHolds == Spec => []TasksInv
BY InitInv, StepInv, PTL DEF Spec

\* Every variable stays in its domain, the channel within its capacity.
THEOREM TasksTypeCorrect == Spec => []TypeOK
<1>1. TasksInv => TypeOK
  BY DEF TasksInv
<1> QED
  BY <1>1, TasksInvHolds, PTL

\* The mutex of a peer has the holder the code says it has (recv_packets_from,
\* send_packets), and no task asks for the map while it holds the mutex.
THEOREM LocksAreOrdered == Spec => []LockOrder
<1>1. TasksInv => LockOrder
  BY DEF TasksInv
<1> QED
  BY <1>1, TasksInvHolds, PTL

\* While the stream is open no accepted packet is skipped or reordered on its
\* way from handle_packet to poll_read.
THEOREM NothingIsSkipped == Spec => []NothingSkipped
<1>1. TasksInv => NothingSkipped
  BY DEF TasksInv
<1> QED
  BY <1>1, TasksInvHolds, PTL

\* A send_packets that returns Ok found the peer open, and nobody closed it
\* before the window was sent.
THEOREM NoWriteOnClosed == Spec => ClosedWritesFail
<1>1. TasksInv /\ [Next]_vars =>
        [\A w \in DOMAIN result :
           state = "Closed" /\ result'[w] = "Ok" => result[w] = "Ok"]_vars
  <2> SUFFICES ASSUME TasksInv, Next, NEW w \in DOMAIN result, state = "Closed",
                      result'[w] = "Ok"
               PROVE  result[w] = "Ok"
    OBVIOUS
  <2>1. \A t \in Writers : pc[t] # "send"
    BY DEF TasksInv, SendersOpen
  <2>2. result \in Seq(Outcome) /\ w \in 1 .. Len(result)
    BY LenProperties DEF TasksInv, TypeOK
  <2>3. ASSUME NEW t \in Writers, BeginWrite(t)
        PROVE  result'[w] = result[w]
    BY <2>2, <2>3, AppendProperties DEF BeginWrite, Outcome
  <2>4. ASSUME NEW t \in Writers, NEW r \in {"NotFound", "NotConnected"}, Return(t, r),
               pc[t] \in {"find", "lock"}
        PROVE  result'[w] = result[w]
    BY <2>4, ReturnType DEF Outcome
  <2>5. ASSUME NEW t \in Writers, Write(t)
        PROVE  result'[w] = result[w]
    BY <2>1, <2>4, <2>5 DEF Write, FindPeer, QueueChunks, SendWindow
  <2>6. CASE Receive \/ BeginRead \/ EndRead \/ DropStream \/ PollPending \/ PollAgain
    <3>1. UNCHANGED result
      BY <2>6
         DEF Receive, RecvDatagram, LockState, HandlePacket, SendReply, Push, EndPass,
             BeginRead, EndRead, DropStream, PollPending, PollPendingAtLock,
             PollPendingAtSend, PollAgain, writeVars
    <3> QED
      BY <3>1
  <2> QED
    BY <2>3, <2>5, <2>6 DEF Next
<1> QED
  BY <1>1, TasksInvHolds, PTL DEF Spec, ClosedWritesFail

-----------------------------------------------------------------------------
(* The abstract pipe.                                                      *)

LEMMA HandedOver ==
  ASSUME NEW h \in Nat
  PROVE  /\ [i \in 1 .. h |-> i] \in Seq(Nat)
         /\ Len([i \in 1 .. h |-> i]) = h
<1>1. [i \in 1 .. h |-> i] = [i \in 1 .. h |-> 0 + i]
  OBVIOUS
<1> QED
  BY <1>1, CountingType

LEMMA InitIsEmptyPipe == Init => Pipe!Init
<1> SUFFICES ASSUME Init PROVE Pipe!Init
  OBVIOUS
<1>1. [i \in 1 .. 0 |-> i] = << >>
  OBVIOUS
<1> QED
  BY <1>1 DEF Init, Pipe!Init

LEMMA HandlePacketPuts ==
  ASSUME TasksInv, HandlePacket
  PROVE  [Pipe!Next]_Pipe!vars
<1>1. UNCHANGED read
  BY DEF HandlePacket
<1>2. CASE UNCHANGED handled
  BY <1>1, <1>2 DEF Pipe!vars
<1>3. ASSUME NEW k \in 0 .. MaxBurst, handled' = handled + k
      PROVE  Pipe!Put(k)
  <2>1. handled \in Nat /\ k \in Nat
    BY Constants DEF TasksInv, TypeOK
  <2>2. [i \in 1 .. handled |-> i] \o [i \in 1 .. k |-> handled + i]
          = [i \in 1 .. handled' |-> i]
    BY <1>3, <2>1, CountOn
  <2>3. Len([i \in 1 .. handled |-> i]) = handled
    BY <2>1, HandedOver
  <2> QED
    BY <1>1, <2>2, <2>3 DEF Pipe!Put
<1> QED
  BY <1>2, <1>3 DEF HandlePacket, Pipe!Next

LEMMA EndReadGets ==
  ASSUME TasksInv, EndRead
  PROVE  Pipe!Get
<1> DEFINE all == [i \in 1 .. handled |-> i]
<1>1. /\ pc[App] = "reading" /\ channel # << >>
      /\ read' = Append(read, Head(channel)) /\ UNCHANGED handled
  BY DEF EndRead
<1>2. /\ read \in Seq(Nat) /\ channel \in Seq(Nat) /\ incoming_buffer \in Seq(Nat)
      /\ read \o channel \in Seq(Nat) /\ handled \in Nat
  BY ConcatProperties, Constants DEF TasksInv, TypeOK
<1>3. read \o channel \o incoming_buffer = all
  BY <1>1 DEF TasksInv, ReaderOpen, NothingSkipped
<1>4. /\ Len(read) \in Nat /\ Len(channel) \in Nat \ {0} /\ Len(incoming_buffer) \in Nat
      /\ Head(channel) = channel[1]
  BY <1>1, <1>2, LenProperties, EmptySeq
<1>5. /\ Len(read \o channel) = Len(read) + Len(channel)
      /\ (read \o channel)[Len(read) + 1] = channel[1]
  <2>1. Len(read) + 1 \in 1 .. Len(read) + Len(channel)
    BY <1>4
  <2> QED
    BY <1>2, <1>4, <2>1, ConcatProperties
<1>6. /\ Len(read \o channel \o incoming_buffer)
           = Len(read) + Len(channel) + Len(incoming_buffer)
      /\ (read \o channel \o incoming_buffer)[Len(read) + 1] = channel[1]
  <2>1. Len(read) + 1 \in 1 .. Len(read \o channel) + Len(incoming_buffer)
    BY <1>4, <1>5
  <2>2. Len(read) + 1 <= Len(read \o channel)
    BY <1>4, <1>5
  <2> QED
    BY <1>2, <1>4, <1>5, <2>1, <2>2, ConcatProperties
<1>7. Len(all) = handled
  BY <1>2, HandedOver
<1>8. Len(read) < Len(all) /\ all[Len(read) + 1] = Head(channel)
  <2> HIDE DEF all
  <2> QED
    BY <1>3, <1>4, <1>6
<1> QED
  BY <1>1, <1>8 DEF Pipe!Get

LEMMA StepIsPiped == TasksInv /\ [Next]_vars => [Pipe!Next]_Pipe!vars
<1> SUFFICES ASSUME TasksInv, [Next]_vars PROVE [Pipe!Next]_Pipe!vars
  OBVIOUS
<1>1. CASE HandlePacket
  BY <1>1, HandlePacketPuts
<1>2. CASE EndRead
  BY <1>2, EndReadGets DEF Pipe!Next
<1>3. CASE UNCHANGED <<handled, read>>
  BY <1>3 DEF Pipe!vars
<1>4. CASE RecvDatagram \/ LockState \/ SendReply \/ Push \/ EndPass \/ BeginRead
           \/ DropStream \/ PollPending \/ PollAgain \/ UNCHANGED vars
  BY <1>3, <1>4
     DEF RecvDatagram, LockState, SendReply, Push, EndPass, BeginRead, DropStream,
         PollPending, PollPendingAtLock, PollPendingAtSend, PollAgain, packetVars, vars
<1>5. ASSUME NEW t \in Writers, BeginWrite(t) \/ Write(t)
      PROVE  UNCHANGED <<handled, read>>
  BY <1>5 DEF BeginWrite, Write, FindPeer, QueueChunks, SendWindow, packetVars
<1> QED
  BY <1>1, <1>2, <1>3, <1>4, <1>5 DEF Next, Receive

\* The tasks implement the abstract pipe: a handled datagram puts its packets
\* in, poll_read gets one, and every other step leaves the pipe alone.
THEOREM StreamIsAPipe == Spec => Pipe!Spec
BY InitIsEmptyPipe, StepIsPiped, TasksInvHolds, PTL DEF Spec, Pipe!Spec

-----------------------------------------------------------------------------
(* How often a write is queued.                                            *)

\* The window of write w is being sent, or has been.
Sends(w) ==
  \/ result[w] \in {"Ok", "NetworkUnreachable"}
  \/ \E t \in Writers : pc[t] = "send" /\ call[t] = w

\* Every task carries out a write of its own, which has no result yet.
OneCallEach ==
  /\ \A t \in Writers : call[t] # 0 =>
       /\ pc[t] \in {"find", "lock", "send", "woken", "lost"}
       /\ result[call[t]] = "none"
  /\ \A t, u \in Writers : t # u /\ call[t] # 0 => call[t] # call[u]

\* The chunks of a write are queued once for each poll that was cut off, and
\* once more when they are sent.
CopiesCounted ==
  \A w \in DOMAIN result : Copies(w) = cut[w] + (IF Sends(w) THEN 1 ELSE 0)

CopiesInv == TasksInv /\ OneCallEach /\ CopiesCounted

Places(s, w) == {i \in DOMAIN s : s[i] = w}

LEMMA PlacesFinite ==
  ASSUME NEW s \in Seq(Nat), NEW w
  PROVE  IsFiniteSet(Places(s, w)) /\ Cardinality(Places(s, w)) \in Nat
<1>1. DOMAIN s = 1 .. Len(s) /\ Len(s) \in Nat
  BY LenProperties
<1>2. IsFiniteSet(1 .. Len(s))
  BY <1>1, FS_Interval
<1>3. Places(s, w) \subseteq 1 .. Len(s)
  BY <1>1 DEF Places
<1> QED
  BY <1>2, <1>3, FS_Subset, FS_CardinalityType

LEMMA PlacesOfAppend ==
  ASSUME NEW s \in Seq(Nat), NEW v \in Nat, NEW w
  PROVE  Cardinality(Places(Append(s, v), w))
           = Cardinality(Places(s, w)) + (IF v = w THEN 1 ELSE 0)
<1>1. DOMAIN s = 1 .. Len(s) /\ Len(s) \in Nat
  BY LenProperties
<1>2. /\ DOMAIN Append(s, v) = 1 .. Len(s) + 1
      /\ \A i \in 1 .. Len(s) : Append(s, v)[i] = s[i]
      /\ Append(s, v)[Len(s) + 1] = v
  BY AppendProperties, LenProperties
<1>3. CASE v = w
  <2>1. Places(Append(s, v), w) = Places(s, w) \cup {Len(s) + 1}
    BY <1>1, <1>2, <1>3 DEF Places
  <2>2. Len(s) + 1 \notin Places(s, w)
    BY <1>1 DEF Places
  <2> QED
    BY <1>3, <2>1, <2>2, PlacesFinite, FS_AddElement
<1>4. CASE v # w
  <2>1. Places(Append(s, v), w) = Places(s, w)
    BY <1>1, <1>2, <1>4 DEF Places
  <2> QED
    BY <1>4, <2>1, PlacesFinite
<1> QED
  BY <1>3, <1>4

LEMMA CopiesType ==
  ASSUME TasksInv, NEW w
  PROVE  queued \in Seq(Nat) /\ Copies(w) = Cardinality(Places(queued, w)) /\ Copies(w) \in Nat
<1>1. queued \in Seq(1 .. Len(result)) /\ 1 .. Len(result) \subseteq Nat
  BY LenProperties DEF TasksInv, TypeOK
<1>2. queued \in Seq(Nat)
  BY <1>1, SeqMonotonic
<1> QED
  BY <1>2, PlacesFinite DEF Copies, Places

LEMMA CutType ==
  ASSUME TasksInv
  PROVE  /\ DOMAIN result = 1 .. Len(result) /\ Len(result) \in Nat
         /\ cut \in Seq(Nat) /\ Len(cut) = Len(result)
         /\ \A w \in DOMAIN result : cut[w] \in Nat
<1>1. /\ DOMAIN result = 1 .. Len(result) /\ Len(result) \in Nat
      /\ Len(cut) = Len(result) /\ cut \in Seq(0 .. MaxCuts)
  BY LenProperties DEF TasksInv, TypeOK
<1>2. 0 .. MaxCuts \subseteq Nat
  BY Constants
<1>3. cut \in Seq(Nat)
  BY <1>1, <1>2, SeqMonotonic
<1> QED
  BY <1>1, <1>3, ElementOfSeq

\* Steps that neither queue nor send.
LEMMA CopiesKept ==
  ASSUME CopiesInv, UNCHANGED writeVars,
         \A t \in Writers : pc'[t] = "send" <=> pc[t] = "send",
         \A t \in Writers : call[t] # 0 => pc'[t] \in {"find", "lock", "send", "woken", "lost"}
  PROVE  OneCallEach' /\ CopiesCounted'
<1>1. OneCallEach'
  BY DEF CopiesInv, OneCallEach, writeVars
<1>2. \A w : Copies(w)' = Copies(w) /\ (Sends(w)' <=> Sends(w))
  BY DEF Copies, Sends, writeVars
<1> QED
  BY <1>1, <1>2 DEF CopiesInv, CopiesCounted, writeVars

LEMMA BeginWriteCopies ==
  ASSUME CopiesInv, NEW t \in Writers, BeginWrite(t)
  PROVE  OneCallEach' /\ CopiesCounted'
<1>1. PICK n \in Nat : n = Len(result)
  BY CutType DEF CopiesInv
<1>2. /\ result \in Seq(Outcome) /\ DOMAIN result = 1 .. n
      /\ cut \in Seq(Nat) /\ Len(cut) = n
      /\ queued \in Seq(1 .. n) /\ call \in [Writers -> 0 .. n] /\ pc \in [Tasks -> Label]
  BY <1>1, CutType DEF CopiesInv, TasksInv, TypeOK
<1>3. /\ pc[t] = "idle" /\ result' = Append(result, "none") /\ cut' = Append(cut, 0)
      /\ UNCHANGED queued
      /\ call' = [call EXCEPT ![t] = n + 1] /\ pc' = [pc EXCEPT ![t] = "find"]
  BY <1>1 DEF BeginWrite, Goto
<1>4. DOMAIN result' = 1 .. n + 1 /\ result'[n + 1] = "none" /\ \A w \in 1 .. n : result'[w] = result[w]
  <2>1. "none" \in Outcome
    BY DEF Outcome
  <2>2. result' \in Seq(Outcome) /\ Len(result') = n + 1
    BY <1>1, <1>2, <1>3, <2>1, AppendProperties
  <2> QED
    BY <1>1, <1>2, <1>3, <2>1, <2>2, AppendProperties, LenProperties
<1>5. cut'[n + 1] = 0 /\ \A w \in 1 .. n : cut'[w] = cut[w]
  BY <1>2, <1>3, AppendProperties
<1>6. /\ call'[t] = n + 1 /\ pc'[t] = "find"
      /\ \A u \in Writers : u # t => call'[u] = call[u] /\ pc'[u] = pc[u]
      /\ \A u \in Writers : call[u] \in 0 .. n
  BY <1>2, <1>3, Constants
<1>7. OneCallEach'
  <2>1. ASSUME NEW u \in Writers, call'[u] # 0
        PROVE  pc'[u] \in {"find", "lock", "send", "woken", "lost"} /\ result'[call'[u]] = "none"
    <3>1. CASE u = t
      BY <1>4, <1>6, <3>1
    <3>2. CASE u # t
      <4>1. call[u] \in 1 .. n /\ call'[u] = call[u] /\ pc'[u] = pc[u]
        BY <1>6, <2>1, <3>2
      <4>2. result[call[u]] = "none" /\ pc[u] \in {"find", "lock", "send", "woken", "lost"}
        BY <4>1 DEF CopiesInv, OneCallEach
      <4> QED
        BY <1>4, <4>1, <4>2
    <3> QED
      BY <3>1, <3>2
  <2>2. ASSUME NEW u \in Writers, NEW v \in Writers, u # v, call'[u] # 0
        PROVE  call'[u] # call'[v]
    BY <1>6, <2>2 DEF CopiesInv, OneCallEach
  <2> QED
    BY <2>1, <2>2 DEF OneCallEach
<1>8. ASSUME NEW w \in 1 .. n
      PROVE  Copies(w)' = cut'[w] + (IF Sends(w)' THEN 1 ELSE 0)
  <2>1. \A u \in Writers :
          pc'[u] = "send" /\ call'[u] = w <=> pc[u] = "send" /\ call[u] = w
    BY <1>3, <1>6
  <2>2. Sends(w)' <=> Sends(w)
    BY <1>4, <2>1 DEF Sends
  <2>3. Copies(w)' = Copies(w)
    BY <1>3 DEF Copies
  <2> QED
    BY <1>2, <1>5, <2>2, <2>3 DEF CopiesInv, CopiesCounted
<1>9. Copies(n + 1)' = cut'[n + 1] + (IF Sends(n + 1)' THEN 1 ELSE 0)
  <2>1. ~ Sends(n + 1)'
    <3>1. \A u \in Writers : ~ (pc'[u] = "send" /\ call'[u] = n + 1)
      BY <1>6
    <3> QED
      BY <1>4, <3>1 DEF Sends
  <2>2. Copies(n + 1)' = 0
    <3>1. \A i \in DOMAIN queued : queued[i] \in 1 .. n
      BY <1>2, ElementOfSeq, LenProperties
    <3>2. {i \in DOMAIN queued' : queued'[i] = n + 1} = {}
      BY <1>3, <3>1
    <3> QED
      BY <3>2, FS_EmptySet DEF Copies
  <2> QED
    BY <1>5, <2>1, <2>2
<1>10. CopiesCounted'
  <2>1. \A w \in 1 .. n + 1 : w \in 1 .. n \/ w = n + 1
    OBVIOUS
  <2> QED
    BY <1>4, <1>8, <1>9, <2>1 DEF CopiesCounted
<1> QED
  BY <1>7, <1>10

\* A write that returns has been sent, or fails as it was not.
LEMMA ReturnCopies ==
  ASSUME CopiesInv, NEW t \in Writers, NEW r \in Outcome \ {"none"}, Return(t, r),
         pc[t] \in {"find", "lock", "send"}, UNCHANGED <<queued, cut>>,
         r \in {"Ok", "NetworkUnreachable"} <=> pc[t] = "send"
  PROVE  OneCallEach' /\ CopiesCounted'
<1>1. /\ result' \in Seq(Outcome) /\ Len(result') = Len(result)
      /\ \A w \in DOMAIN result : result'[w] = IF w = call[t] THEN r ELSE result[w]
      /\ \A u \in Writers : u # t => call'[u] = call[u]
      /\ pc'[t] = "idle" /\ \A u \in Tasks : u # t => pc'[u] = pc[u]
  BY ReturnType DEF CopiesInv
<1>2. /\ DOMAIN result = 1 .. Len(result) /\ DOMAIN result' = DOMAIN result
      /\ Len(result) \in Nat
  BY <1>1, LenProperties DEF CopiesInv, TasksInv, TypeOK
<1>3. /\ call'[t] = 0 /\ call[t] \in DOMAIN result /\ call[t] # 0
      /\ result[call[t]] = "none"
  BY SMTT(30), <1>2, Constants DEF CopiesInv, TasksInv, CallsBegun, TypeOK, OneCallEach, Return
<1>4. \A u \in Writers : u # t => call[u] # call[t]
  BY <1>3 DEF CopiesInv, OneCallEach
<1>5. \A u \in Writers : call[u] # 0 => call[u] \in DOMAIN result
  BY <1>2 DEF CopiesInv, TasksInv, TypeOK
<1>6. OneCallEach'
  <2>1. ASSUME NEW u \in Writers, call'[u] # 0
        PROVE  pc'[u] \in {"find", "lock", "send", "woken", "lost"} /\ result'[call'[u]] = "none"
    BY <1>1, <1>3, <1>4, <1>5, <2>1, Constants DEF CopiesInv, OneCallEach
  <2>2. ASSUME NEW u \in Writers, NEW v \in Writers, u # v, call'[u] # 0
        PROVE  call'[u] # call'[v]
    BY <1>1, <1>3, <2>2 DEF CopiesInv, OneCallEach
  <2> QED
    BY <2>1, <2>2 DEF OneCallEach
<1>7. ASSUME NEW w \in DOMAIN result
      PROVE  Sends(w)' <=> Sends(w)
  <2>1. CASE w = call[t]
    <3>1. Sends(w) <=> pc[t] = "send"
      BY <1>3, <1>4, <2>1 DEF Sends
    <3>2. Sends(w)' <=> r \in {"Ok", "NetworkUnreachable"}
      BY <1>1, <1>3, <1>4, <2>1, Constants DEF Sends
    <3> QED
      BY <3>1, <3>2
  <2>2. CASE w # call[t]
    BY <1>1, <2>2, Constants DEF Sends
  <2> QED
    BY <2>1, <2>2
<1>8. \A w : Copies(w)' = Copies(w)
  BY DEF Copies
<1> QED
  BY <1>2, <1>6, <1>7, <1>8 DEF CopiesInv, CopiesCounted

LEMMA QueueCopies ==
  ASSUME CopiesInv, NEW t \in Writers, pc[t] = "lock", mutex = Free,
         queued' = Append(queued, call[t]), Goto(t, "send"),
         UNCHANGED <<call, result, cut>>
  PROVE  OneCallEach' /\ CopiesCounted'
<1>1. /\ pc'[t] = "send" /\ \A u \in Tasks : u # t => pc'[u] = pc[u]
      /\ \A u \in Writers : pc[u] # "send"
  BY GotoType, Constants DEF CopiesInv, TasksInv, LockOrder, Label
<1>2. call[t] \in 1 .. Len(result) /\ Len(result) \in Nat /\ result[call[t]] = "none"
  BY LenProperties DEF CopiesInv, TasksInv, CallsBegun, TypeOK, OneCallEach
<1>3. OneCallEach'
  BY <1>1, Constants DEF CopiesInv, OneCallEach
<1>4. ASSUME NEW w \in DOMAIN result
      PROVE  Copies(w)' = cut[w] + (IF Sends(w)' THEN 1 ELSE 0)
  <2>1. Copies(w)' = Copies(w) + (IF call[t] = w THEN 1 ELSE 0)
    <3>1. queued \in Seq(Nat) /\ Copies(w) = Cardinality(Places(queued, w)) /\ call[t] \in Nat
      BY <1>2, CopiesType DEF CopiesInv
    <3>2. Copies(w)' = Cardinality(Places(Append(queued, call[t]), w))
      BY DEF Copies, Places
    <3> QED
      BY <3>1, <3>2, PlacesOfAppend
  <2>2. CASE w = call[t]
    <3>1. ~ Sends(w) /\ Sends(w)'
      BY <1>1, <1>2, <2>2 DEF Sends
    <3>2. Copies(w) = cut[w] /\ Copies(w) \in Nat
      BY <3>1, CopiesType, CutType DEF CopiesInv, CopiesCounted
    <3> QED
      BY <2>1, <2>2, <3>1, <3>2
  <2>3. CASE w # call[t]
    <3>1. Sends(w)' <=> Sends(w)
      BY <1>1, <2>3, Constants DEF Sends
    <3>2. Copies(w)' = Copies(w)
      BY <2>1, <2>3, CopiesType DEF CopiesInv
    <3> QED
      BY <3>1, <3>2 DEF CopiesInv, CopiesCounted
  <2> QED
    BY <2>2, <2>3
<1> QED
  BY <1>3, <1>4 DEF CopiesCounted

LEMMA CutCopies ==
  ASSUME CopiesInv, PollPendingAtSend
  PROVE  OneCallEach' /\ CopiesCounted'
<1>1. /\ pc[App] = "send" /\ \E where \in {"woken", "lost"} : Goto(App, where)
      /\ cut' = [cut EXCEPT ![call[App]] = cut[call[App]] + 1]
      /\ UNCHANGED <<call, result, queued>>
  BY DEF PollPendingAtSend, Pending
<1>2. /\ pc'[App] \in {"woken", "lost"} /\ \A u \in Tasks : u # App => pc'[u] = pc[u]
      /\ \A u \in Writers : u # App => pc[u] # "send"
  BY <1>1, GotoType, Constants DEF CopiesInv, TasksInv, LockOrder, Label
<1>3. /\ call[App] \in 1 .. Len(result) /\ Len(result) \in Nat /\ Len(cut) = Len(result)
      /\ DOMAIN result = 1 .. Len(result) /\ cut \in Seq(Nat)
      /\ result[call[App]] = "none"
  BY <1>1, CutType, Constants DEF CopiesInv, TasksInv, CallsBegun, OneCallEach
<1>4. /\ cut'[call[App]] = cut[call[App]] + 1 /\ cut[call[App]] \in Nat
      /\ \A w \in DOMAIN result : w # call[App] => cut'[w] = cut[w]
  BY <1>1, <1>3, CutType, LenProperties DEF CopiesInv
<1>5. OneCallEach'
  BY <1>1, <1>2, Constants DEF CopiesInv, OneCallEach
<1>6. ASSUME NEW w \in DOMAIN result
      PROVE  Copies(w)' = cut'[w] + (IF Sends(w)' THEN 1 ELSE 0)
  <2>1. Copies(w)' = Copies(w)
    BY <1>1 DEF Copies
  <2>2. CASE w = call[App]
    <3>1. Sends(w)
      BY <1>1, <2>2, Constants DEF Sends
    <3>2. ~ Sends(w)'
      <4>1. \A u \in Writers : pc'[u] # "send"
        BY <1>2, Constants
      <4> QED
        BY <1>1, <1>3, <2>2, <4>1 DEF Sends
    <3> QED
      BY <1>4, <2>1, <2>2, <3>1, <3>2 DEF CopiesInv, CopiesCounted
  <2>3. CASE w # call[App]
    <3>1. Sends(w)' <=> Sends(w)
      BY <1>1, <1>2, <2>3, Constants DEF Sends
    <3> QED
      BY <1>4, <2>1, <2>3, <3>1 DEF CopiesInv, CopiesCounted
  <2> QED
    BY <2>2, <2>3
<1> QED
  BY <1>1, <1>5, <1>6 DEF CopiesCounted

LEMMA StepCopies == CopiesInv /\ [Next]_vars => CopiesInv'
<1> SUFFICES ASSUME CopiesInv, [Next]_vars PROVE CopiesInv'
  OBVIOUS
<1>1. TasksInv'
  BY StepInv DEF CopiesInv
<1>2. CASE Receive
  <2>1. UNCHANGED writeVars /\ \A t \in Writers : pc'[t] = pc[t]
    BY <1>2, Constants
       DEF Receive, RecvDatagram, LockState, HandlePacket, SendReply, Push, EndPass, Leave,
           Goto, writeVars, CopiesInv, TasksInv, TypeOK
  <2> QED
    BY <1>1, <2>1, CopiesKept DEF CopiesInv, OneCallEach
<1>3. CASE BeginRead \/ EndRead \/ DropStream
  <2>1. /\ UNCHANGED writeVars /\ pc[App] \in {"idle", "reading"}
        /\ \E where \in {"idle", "reading", "gone"} : Goto(App, where)
    BY <1>3 DEF BeginRead, EndRead, DropStream
  <2>2. call[App] = 0
    BY <2>1, Constants DEF CopiesInv, OneCallEach
  <2>3. /\ pc'[App] \in {"idle", "reading", "gone"}
        /\ \A u \in Tasks : u # App => pc'[u] = pc[u]
    BY <2>1, Constants DEF Goto, CopiesInv, TasksInv, TypeOK
  <2> QED
    BY <1>1, <2>1, <2>2, <2>3, CopiesKept, Constants DEF CopiesInv, OneCallEach
<1>4. ASSUME NEW t \in Writers, BeginWrite(t) \/ Write(t)
      PROVE  OneCallEach' /\ CopiesCounted'
  <2>1. CASE BeginWrite(t)
    BY <2>1, BeginWriteCopies
  <2>2. CASE FindPeer(t)
    <3>1. pc[t] = "find" /\ UNCHANGED <<queued, cut>>
      BY <2>2 DEF FindPeer
    <3>2. CASE Return(t, "NotFound")
      <4>1. "NotFound" \in Outcome \ {"none"} /\ "NotFound" \notin {"Ok", "NetworkUnreachable"}
        BY DEF Outcome
      <4> QED
        BY <3>1, <3>2, <4>1, ReturnCopies
    <3>3. CASE Goto(t, "lock") /\ UNCHANGED <<call, result>>
      <4>1. pc'[t] = "lock" /\ \A u \in Tasks : u # t => pc'[u] = pc[u]
        BY <3>3, GotoType, Constants DEF CopiesInv, TasksInv, Label
      <4> QED
        BY <3>1, <3>3, <4>1, CopiesKept, Constants DEF CopiesInv, OneCallEach, writeVars
    <3> QED
      BY <2>2, <3>2, <3>3 DEF FindPeer
  <2>3. CASE QueueChunks(t)
    <3>1. pc[t] = "lock" /\ mutex = Free /\ UNCHANGED cut
      BY <2>3 DEF QueueChunks
    <3>2. CASE Return(t, "NotConnected") /\ UNCHANGED <<mutex, queued>>
      <4>1. /\ "NotConnected" \in Outcome \ {"none"}
            /\ "NotConnected" \notin {"Ok", "NetworkUnreachable"}
        BY DEF Outcome
      <4> QED
        BY <3>1, <3>2, <4>1, ReturnCopies
    <3>3. CASE /\ queued' = Append(queued, call[t]) /\ Goto(t, "send")
               /\ UNCHANGED <<call, result>>
      BY <3>1, <3>3, QueueCopies
    <3> QED
      BY <2>3, <3>2, <3>3 DEF QueueChunks
  <2>4. CASE SendWindow(t)
    <3>1. pc[t] = "send" /\ UNCHANGED <<queued, cut>>
      BY <2>4 DEF SendWindow
    <3>2. PICK r \in {"Ok", "NetworkUnreachable"} : Return(t, r)
      BY <2>4 DEF SendWindow
    <3>3. r \in Outcome \ {"none"}
      BY DEF Outcome
    <3> QED
      BY <3>1, <3>2, <3>3, ReturnCopies
  <2> QED
    BY <1>4, <2>1, <2>2, <2>3, <2>4 DEF Write
<1>5. CASE PollPendingAtLock \/ PollAgain
  <2>1. /\ UNCHANGED writeVars /\ pc[App] \in {"lock", "woken", "lost"}
        /\ \E where \in {"woken", "lost", "find"} : Goto(App, where)
    BY <1>5 DEF PollPendingAtLock, PollAgain, Pending
  <2>2. /\ pc'[App] \in {"woken", "lost", "find"}
        /\ \A u \in Tasks : u # App => pc'[u] = pc[u]
    BY <2>1, Constants DEF Goto, CopiesInv, TasksInv, TypeOK
  <2> QED
    BY <1>1, <2>1, <2>2, CopiesKept, Constants DEF CopiesInv, OneCallEach
<1>6. CASE PollPendingAtSend
  BY <1>1, <1>6, CutCopies DEF CopiesInv
<1>7. CASE UNCHANGED vars
  <2>1. UNCHANGED <<pc, writeVars>>
    BY <1>7 DEF vars
  <2> QED
    BY <1>1, <2>1, CopiesKept DEF CopiesInv, OneCallEach
<1> QED
  BY <1>1, <1>2, <1>3, <1>4, <1>5, <1>6, <1>7 DEF Next, PollPending, CopiesInv

\* Only polls of poll_write that end pending after the chunks were queued make
\* a write enter sent_window twice; a write that returns Ok is in it.
THEOREM CopiesAreCutPolls == Spec => []CopiesComeFromCutPolls
<1>1. Init => CopiesInv
  <2> SUFFICES ASSUME Init PROVE OneCallEach /\ CopiesCounted
    BY InitInv DEF CopiesInv
  <2> QED
    BY DEF Init, OneCallEach, CopiesCounted
<1>2. CopiesInv => CopiesComeFromCutPolls
  <2> SUFFICES ASSUME CopiesInv, NEW w \in DOMAIN result
               PROVE  /\ Copies(w) <= cut[w] + 1
                      /\ result[w] \in {"Ok", "NetworkUnreachable"} => Copies(w) = cut[w] + 1
    BY DEF CopiesComeFromCutPolls
  <2>1. cut[w] \in Nat
    BY CutType DEF CopiesInv
  <2> QED
    BY <2>1 DEF CopiesInv, CopiesCounted, Sends
<1> QED
  BY <1>1, <1>2, StepCopies, PTL DEF Spec
-----------------------------------------------------------------------------
(* A circle of waiting needs the reader.  ENABLED is beyond the prover, so *)
(* the guards of the steps are written out here.                           *)

\* LockState, HandlePacket, SendReply, Push or EndPass can be taken;
LoopReady ==
  /\ Runs(Receiver)
  /\ \/ pc[Receiver] = "lock" /\ mutex = Free
     \/ pc[Receiver] \in {"handle", "reply"}
     \/ pc[Receiver] = "push" /\ (incoming_buffer = << >> \/ ~ open \/ Room)
\* BeginRead, EndRead or PollAgain;
AppReady ==
  /\ Runs(App)
  /\ \/ pc[App] = "idle" /\ "read" \in AppCalls
     \/ pc[App] = "reading" /\ channel # << >>
     \/ pc[App] = "woken" \/ (Spurious /\ pc[App] = "lost")
\* FindPeer, QueueChunks or SendWindow of t.
WriterReady(t) ==
  Runs(t) /\ (pc[t] \in {"find", "send"} \/ (pc[t] = "lock" /\ mutex = Free))
SomebodyReady == LoopReady \/ AppReady \/ \E t \in Writers : WriterReady(t)

\* An application reads, writes or is gone, and is gone once it drops its stream.
AppPlaces ==
  /\ pc[App] \in {"idle", "reading", "gone", "find", "lock", "send", "woken", "lost"}
  /\ pc[App] = "gone" => ~ open

LEMMA StepPlaces == TasksInv /\ AppPlaces /\ [Next]_vars => AppPlaces'
<1> SUFFICES ASSUME TasksInv, AppPlaces, [Next]_vars PROVE AppPlaces'
  OBVIOUS
<1> USE Constants
<1>1. pc \in [Tasks -> Label] /\ App # Receiver
  BY DEF TasksInv, TypeOK
<1>2. CASE Receive
  <2>1. pc'[App] = pc[App] /\ open' = open
    BY <1>1, <1>2 DEF Receive, RecvDatagram, LockState, HandlePacket, SendReply, Push, EndPass,
                      Goto, Leave, packetVars
  <2> QED
    BY <2>1 DEF AppPlaces
<1>3. CASE BeginRead \/ EndRead \/ PollAgain \/ PollPending
  BY <1>1, <1>3 DEF BeginRead, EndRead, PollAgain, PollPending, PollPendingAtLock,
                    PollPendingAtSend, Pending, Goto, packetVars, AppPlaces
<1>4. CASE DropStream
  BY <1>1, <1>4 DEF DropStream, Goto, AppPlaces
<1>5. ASSUME NEW t \in Writers, BeginWrite(t) \/ Write(t) PROVE AppPlaces'
  <2>1. open' = open
    BY <1>5 DEF BeginWrite, Write, FindPeer, QueueChunks, SendWindow, packetVars
  <2>2. \E l \in {"idle", "find", "lock", "send"} : pc' = [pc EXCEPT ![t] = l]
    BY <1>5 DEF BeginWrite, Write, FindPeer, QueueChunks, SendWindow, Return, Goto
  <2> QED
    BY <1>1, <2>1, <2>2 DEF AppPlaces
<1>6. CASE UNCHANGED vars
  BY <1>6 DEF vars, packetVars, AppPlaces
<1> QED
  BY <1>2, <1>3, <1>4, <1>5, <1>6 DEF Next

\* While a pass of the loop holds the map, the guard of some step holds, unless
\* every worker is blocked, or the application writes and the channel is full.
CircleIsTheReaders ==
  MapHeld /\ ~ SomebodyReady =>
    \/ Cardinality(Blocked) >= Workers
    \/ call[App] # 0 /\ Len(channel) = Capacity

LEMMA PlacesMakeCircles ==
  ASSUME "read" \in AppCalls, TasksInv, AppPlaces
  PROVE  CircleIsTheReaders
<1> USE Constants
<1> SUFFICES ASSUME MapHeld, ~ SomebodyReady, ~ (Cardinality(Blocked) >= Workers)
             PROVE  call[App] # 0 /\ Len(channel) = Capacity
  BY DEF CircleIsTheReaders
<1>1. TypeOK /\ LockOrder /\ CallsBegun /\ ReaderOpen
  BY DEF TasksInv
<1>2. Cardinality(Blocked) < Workers
  <2>1. IsFiniteSet(Writers)
    BY TaskAssumption, FS_AddElement DEF Writers
  <2>2. Blocked \subseteq Writers
    BY DEF Blocked
  <2>3. Cardinality(Blocked) \in Nat
    BY <2>1, <2>2, FS_Subset, FS_CardinalityType
  <2> QED
    BY <2>3
<1>3. Runs(Receiver)
  BY <1>2 DEF Runs, Blocked
\* The owner of the mutex would go on, so the loop waits to push.
<1>4. pc[Receiver] # "lock"
  <2> SUFFICES ASSUME pc[Receiver] = "lock" PROVE FALSE
    OBVIOUS
  <2>1. mutex # Free /\ mutex # Receiver
    BY <1>1, <1>3 DEF SomebodyReady, LoopReady, LockOrder
  <2>2. PICK t \in Writers : mutex = t
    BY <1>1, <2>1 DEF TypeOK
  <2>3. pc[t] = "send"
    BY <1>1, <2>2 DEF LockOrder
  <2>4. WriterReady(t)
    BY <1>2, <2>3 DEF WriterReady, Runs, Blocked
  <2> QED
    BY <2>4 DEF SomebodyReady
<1>5. pc[Receiver] = "push" /\ incoming_buffer # << >> /\ open /\ ~ Room
  BY <1>3, <1>4 DEF MapHeld, SomebodyReady, LoopReady
<1>6. Len(channel) = Capacity /\ channel # << >>
  <2>1. Len(channel) \in Nat /\ Len(channel) <= Capacity /\ Capacity \in Nat \ {0}
    BY <1>1, SizeAssumption DEF TypeOK
  <2>2. Len(channel) = Capacity
    BY <1>5, <2>1 DEF Room
  <2> QED
    BY <2>1, <2>2, EmptySeq
\* It neither reads nor is it gone.
<1>7. pc[App] \notin {"idle", "reading", "gone"}
  <2>1. pc[App] \in {"idle", "reading"} => Runs(App)
    BY <1>2 DEF Runs, Blocked
  <2> QED
    BY <1>5, <1>6, <2>1 DEF SomebodyReady, AppReady, AppPlaces
<1>8. call[App] # 0
  BY <1>1, <1>7 DEF CallsBegun, AppPlaces
<1> QED
  BY <1>6, <1>8

\* Only a reader that writes, or too many writers for the threads, can close a
\* circle around the map, which the receive loop holds while it waits.
THEOREM OnlyTheReaderClosesACircle ==
  ASSUME "read" \in AppCalls
  PROVE  Spec => []CircleIsTheReaders
<1>1. Init => AppPlaces
  BY Constants DEF Init, AppPlaces
<1>2. TasksInv /\ AppPlaces /\ [Next]_vars => AppPlaces'
  BY StepPlaces
<1>3. TasksInv /\ AppPlaces => CircleIsTheReaders
  BY PlacesMakeCircles
<1> QED
  BY <1>1, <1>2, <1>3, TasksInvHolds, PTL DEF Spec
=============================================================================
