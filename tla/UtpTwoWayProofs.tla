-------------------------- MODULE UtpTwoWayProofs --------------------------
(***************************************************************************)
(* Proofs about a connection on which both endpoints may connect and       *)
(* write, for every width of the numbers and every bound on the chunks:    *)
(* over a network that duplicates nothing chunks are delivered in the      *)
(* order in which they were written and none twice, and a sequence number  *)
(* stands for one chunk, until the numbers run out.                        *)
(***************************************************************************)
EXTENDS UtpTwoWay, UtpConnectionProofs, FiniteSetTheorems

\* The debug build panics when the numbers run out; in the release build they
\* have to last for the chunks of both sides, since an endpoint counts both.
NumbersLast == OverflowChecks \/ 2 * MaxChunks + 3 < U16
\* No datagram arrives twice, no application sends a Fin, and an application
\* writes only once it is connected.
CarefulUse ==
  NumbersLast /\ ~ Duplication /\ FinSenders = {} /\ WriteStates = {"Connected"}

-----------------------------------------------------------------------------
(* The inductive invariants.                                               *)

\* What e has taken from the other side, whether or not the channel has it yet.
Taken(e) == delivered[e] \o incoming_buffer[e]
Unused(e) == written[e] = 0 /\ Taken(e) = << >>
Blank == {"NoPeer", "New"}
OneState == NewPacket("State", 1, 1, {}, NoData)

\* An endpoint sends at most one Syn, while it is SynSent, and is answered by
\* at most one State, which reaches it unused and never when it is connected.
Handshake(e) ==
  /\ state[e] \in Blank \cup {"SynSent", "Connected", "ResetReceived"}
  /\ \A p \in net[Other(e)] : p.type = "Syn" =>
       /\ p = SynPacket /\ state[e] \in {"SynSent", "ResetReceived"} /\ ~ connecting[e]
       /\ \A q \in net[e] : q.type # "State"
  /\ \A q \in net[e] : q.type = "State" =>
       /\ q = OneState /\ state[e] \in {"SynSent", "ResetReceived"} /\ ~ connecting[e]
       /\ state[Other(e)] \notin Blank /\ Unused(e)
  /\ \A q \in net[e] : q.type # "Fin"
  /\ state[e] = "SynSent" => sent_window[e] \subseteq {SynPacket}
  /\ state[e] = "Connected" => \A q \in sent_window[e] : q.type = "Data"
  /\ state[e] \in Blank => Unused(e) /\ sent_window[e] = {} /\ out_of_order[e] = {}
  /\ (~ Unused(e) \/ state[e] = "Connected") => state[Other(e)] \notin Blank

\* A chunk has one number, in every packet that carries it.
Numbering(e) ==
  /\ \A p \in DataOf(e) : p.data \in 1 .. written[e]
  /\ \A p, q \in DataOf(e) : p.data = q.data => p.seq_nr = q.seq_nr

\* What is taken is taken once, and last_acked has passed its number for good.
Has(e, c) == \E i \in 1 .. Len(Taken(e)) : Taken(e)[i] = c
Receiving(e) ==
  /\ \A q \in out_of_order[e] : q.type = "Data"
  /\ \A i \in 1 .. Len(Taken(e)) : Taken(e)[i] \in 1 .. written[Other(e)]
  /\ \A i, j \in 1 .. Len(Taken(e)) : i < j => Taken(e)[i] # Taken(e)[j]
  /\ state[e] = "Connected" =>
       \A p \in DataOf(Other(e)) : Has(e, p.data) => p.seq_nr <= last_acked[e]

TwoWayInv ==
  TypeOK /\ \A e \in Endpoint : Handshake(e) /\ Numbering(e) /\ Receiving(e)

\* No number in use exceeds the last one that both sides together can reach.
LastNumber == 2 * MaxChunks + 1
Low(e) ==
  /\ last_acked[e] <= LastNumber
  /\ seq_nr[e] <= 2 + written[e] + Len(Taken(e))
  /\ state[e] \in Blank \cup {"SynSent"} => seq_nr[e] = 1
  /\ \A p \in DataOf(e) : p.seq_nr <= LastNumber
  /\ \A q \in net[e] : q.type = "Ack" => q.ack_nr <= LastNumber
\* The debug build needs no such bound: what would pass the end panics.
LowInv == OverflowChecks \/ \A e \in Endpoint : Low(e)

\* The additions of a handler stay within the numbers, or are checked.
RoomLeft(e) == OverflowChecks \/ (last_acked[e] + 2 < U16 /\ seq_nr[e] + 1 < U16)

\* The number 0 comes after the largest one: no chunk has it before.
Nr(n) == IF n = 0 THEN U16 ELSE n
\* While an endpoint may still write, its seq_nr lies ahead of every number it
\* has used, and counts its own chunks and the ones it has taken.
Counting(e) ==
  /\ state[e] \in Blank \cup {"SynSent"} => seq_nr[e] = 1
  /\ state[e] = "Connected" /\ written[e] < MaxChunks =>
       /\ Nr(seq_nr[e]) <= 2 + written[e] + Len(Taken(e))
       /\ \A p \in DataOf(e) : Nr(p.seq_nr) < Nr(seq_nr[e])
  /\ \A p, q \in DataOf(e) : p.seq_nr = q.seq_nr => p.data = q.data

CountingInv == TwoWayInv /\ LowInv /\ \A e \in Endpoint : Counting(e)

\* Among the packets of e later chunks have later numbers, so last_acked of the
\* other side, which passes the number of a chunk that is taken, passes those
\* of the chunks before it too: none of them is taken any more.
Ordering(e) ==
  /\ \A p, q \in DataOf(e) : p.data <= q.data => Nr(p.seq_nr) <= Nr(q.seq_nr)
  /\ \A i, j \in 1 .. Len(Taken(e)) : i < j => Taken(e)[i] < Taken(e)[j]
  /\ state[e] = "Connected" =>
       \A p \in DataOf(Other(e)) : \A i \in 1 .. Len(Taken(e)) :
         p.data <= Taken(e)[i] => p.seq_nr <= last_acked[e]

OrderingInv == CountingInv /\ \A e \in Endpoint : Ordering(e)

-----------------------------------------------------------------------------
(* Steps that only move packets on and take chunks.                        *)

LEMMA Sides ==
  ASSUME NEW e \in Endpoint
  PROVE  /\ Other(e) \in Endpoint /\ Other(e) # e /\ Other(Other(e)) = e
         /\ \A x \in Endpoint : x = e \/ x = Other(e)
BY Constants

\* e takes the chunks of cs, sends again what its window holds or replies with
\* an Ack or a Reset, keeps data for later, is reset, or does none of it.
Moves(e, cs) ==
  /\ written' = written /\ connecting' = connecting
  /\ cs \in Seq(0 .. MaxChunks) /\ (cs # << >> => state[e] = "Connected")
  /\ Taken(e)' = Taken(e) \o cs /\ Taken(Other(e))' = Taken(Other(e))
  /\ \A j \in 1 .. Len(cs) :
       \E q \in DataOf(Other(e)) : q.data = cs[j] /\ q.seq_nr = last_acked[e] + j
  /\ net'[e] \subseteq net[e]
  /\ \A q \in net'[Other(e)] :
       \/ q \in net[Other(e)] \/ q.type \in {"Ack", "Reset"}
       \/ state[e] = "Connected" /\ q \in sent_window[e]
  /\ sent_window'[e] \subseteq sent_window[e]
  /\ sent_window'[Other(e)] = sent_window[Other(e)]
  /\ \A q \in out_of_order'[e] :
       q \in out_of_order[e] \/ (state[e] = "Connected" /\ q \in net[e] /\ q.type = "Data")
  /\ out_of_order'[Other(e)] = out_of_order[Other(e)]
  /\ state'[Other(e)] = state[Other(e)]
  /\ \/ state'[e] \in {state[e], "ResetReceived"}
     \/ state[e] = "NoPeer" /\ state'[e] = "New"
  /\ last_acked'[Other(e)] = last_acked[Other(e)]
  /\ state[e] = "Connected" => last_acked'[e] >= last_acked[e] + Len(cs)
  /\ seq_nr'[Other(e)] = seq_nr[Other(e)]
  /\ \/ seq_nr'[e] = seq_nr[e]
     \/ cs # << >> /\ seq_nr[e] + 1 < U16 /\ seq_nr'[e] = seq_nr[e] + 1

LEMMA TakenType ==
  ASSUME TypeOK, NEW e \in Endpoint
  PROVE  Taken(e) \in Seq(0 .. MaxChunks) /\ Len(Taken(e)) \in Nat
<1>1. delivered[e] \in Seq(0 .. MaxChunks) /\ incoming_buffer[e] \in Seq(0 .. MaxChunks)
  BY DEF TypeOK
<1>2. Taken(e) \in Seq(0 .. MaxChunks)
  BY <1>1, ConcatProperties DEF Taken
<1> QED
  BY <1>2, LenProperties

\* The taken chunks are different ones, so there are no more than exist.
LEMMA TakenBound ==
  TwoWayInv => \A e \in Endpoint : /\ Len(Taken(e)) <= written[Other(e)]
                                   /\ Len(Taken(e)) <= MaxChunks
<1> SUFFICES ASSUME TwoWayInv, NEW e \in Endpoint
             PROVE  Len(Taken(e)) <= written[Other(e)] /\ Len(Taken(e)) <= MaxChunks
  OBVIOUS
<1> DEFINE t == Taken(e)
           S == 1 .. Len(t)
           w == written[Other(e)]
           T == 1 .. w
<1>1. TypeOK /\ Receiving(e) /\ Other(e) \in Endpoint
  BY Sides DEF TwoWayInv
<1>2. /\ t \in Seq(0 .. MaxChunks) /\ Len(t) \in Nat /\ MaxChunks \in Nat
      /\ w \in Nat /\ w <= MaxChunks
  BY <1>1, TakenType, Constants DEF TypeOK
<1>4. \A i \in S : t[i] \in T
  BY <1>1 DEF Receiving
<1>5. \A i, j \in S : i # j => t[i] # t[j]
  <2>1. \A i, j \in S : i < j => t[i] # t[j]
    BY <1>1 DEF Receiving
  <2> QED
    BY <1>2, <2>1
<1> HIDE DEF t, w
<1>6. SUFFICES ASSUME Len(t) > w PROVE FALSE
  BY <1>2 DEF t, w
<1>7. /\ IsFiniteSet(S) /\ IsFiniteSet(T)
      /\ Cardinality(S) = Len(t) /\ Cardinality(T) = w
  <2>1. \A n \in Nat : IsFiniteSet(1 .. n) /\ Cardinality(1 .. n) = n
    BY FS_Interval
  <2> QED
    BY <1>2, <2>1
<1> DEFINE f == [i \in S |-> t[i]]
<1>8. f \in [S -> T]
  BY <1>4
<1>9. Cardinality(T) < Cardinality(S)
  BY <1>2, <1>6, <1>7
<1> HIDE DEF S, T, f
<1>10. \E x, y \in S : x # y /\ f[x] = f[y]
  BY <1>7, <1>8, <1>9, FS_PigeonHole
<1> QED
  BY <1>5, <1>10 DEF f

LEMMA SomeRoom ==
  ASSUME NumbersLast, TwoWayInv, LowInv, NEW e \in Endpoint
  PROVE  RoomLeft(e)
<1>1. /\ TypeOK /\ Len(Taken(e)) <= MaxChunks
  BY TakenBound DEF TwoWayInv
<1>2. /\ last_acked[e] \in Nat /\ seq_nr[e] \in Nat /\ MaxChunks \in Nat
      /\ written[e] \in Nat /\ written[e] <= MaxChunks /\ Len(Taken(e)) \in Nat
      /\ U16 \in Nat
  <2>1. Len(Taken(e)) \in Nat
    BY <1>1, TakenType
  <2>2. MaxChunks \in Nat /\ U16 \in Nat
    BY Constants
  <2>3. last_acked[e] \in SeqNr /\ seq_nr[e] \in SeqNr /\ written[e] \in 0 .. MaxChunks
    BY <1>1 DEF TypeOK
  <2> QED
    BY <2>1, <2>2, <2>3 DEF SeqNr
<1>3. CASE OverflowChecks
  BY <1>3 DEF RoomLeft
<1>4. CASE ~ OverflowChecks
  <2>1. /\ last_acked[e] <= 2 * MaxChunks + 1
        /\ seq_nr[e] <= 2 + written[e] + Len(Taken(e))
        /\ 2 * MaxChunks + 3 < U16
    BY <1>4 DEF LowInv, Low, LastNumber, NumbersLast
  <2> QED
    BY <1>1, <1>2, <2>1 DEF RoomLeft
<1> QED
  BY <1>3, <1>4

\* What the channel has is the front of what is taken.
LEMMA DeliveredIsTaken ==
  ASSUME TypeOK, NEW e \in Endpoint
  PROVE  /\ Len(delivered[e]) <= Len(Taken(e))
         /\ \A i \in 1 .. Len(delivered[e]) : Taken(e)[i] = delivered[e][i]
         /\ Len(delivered[e]) \in Nat /\ Len(Taken(e)) \in Nat
<1> DEFINE s == delivered[e]
           t == incoming_buffer[e]
<1>1. s \in Seq(0 .. MaxChunks) /\ t \in Seq(0 .. MaxChunks)
  BY DEF TypeOK
<1>2. Taken(e) = s \o t
  BY DEF Taken
<1> HIDE DEF s, t
<1>3. /\ Len(s) \in Nat /\ Len(t) \in Nat /\ Len(s \o t) = Len(s) + Len(t)
      /\ \A i \in 1 .. Len(s) : (s \o t)[i] = s[i]
  BY <1>1, LenProperties, ConcatProperties
<1> QED
  BY <1>2, <1>3 DEF s

LEMMA EmptyTake ==
  ASSUME TypeOK, NEW e \in Endpoint
  PROVE  << >> \in Seq(0 .. MaxChunks) /\ Len(<< >>) = 0 /\ Taken(e) \o << >> = Taken(e)
BY TakenType, EmptySeq, ConcatEmptySeq

\* The packets with data that e has sent and that are still about.
LEMMA MovesData ==
  ASSUME TwoWayInv, NEW e \in Endpoint, NEW cs, Moves(e, cs)
  PROVE  DataOf(e)' \subseteq DataOf(e) /\ DataOf(Other(e))' \subseteq DataOf(Other(e))
BY Sides DEF Moves, DataOf

LEMMA MovesHandshake ==
  ASSUME TwoWayInv, NEW e \in Endpoint, NEW cs, Moves(e, cs)
  PROVE  Handshake(e)' /\ Handshake(Other(e))'
<1> DEFINE o == Other(e)
<1>1. Handshake(e) /\ Handshake(o) /\ Other(o) = e
  BY Sides DEF TwoWayInv
<1>2. Unused(o)' <=> Unused(o)
  BY DEF Moves, Unused
<1>3. state[e] # "Connected" => (Unused(e)' <=> Unused(e))
  <2>1. TypeOK
    BY DEF TwoWayInv
  <2> QED
    BY <2>1, EmptyTake DEF Moves, Unused
<1>4. \A q \in net'[o] : q \in net[o] \/ q.type \in {"Ack", "Reset", "Data"}
  BY <1>1 DEF Moves, Handshake
<1> HIDE DEF o
<1>5. Handshake(o)'
  BY <1>1, <1>2, <1>4 DEF Moves, Handshake, Blank, o
<1>6. /\ state'[e] \in Blank \cup {"SynSent", "Connected", "ResetReceived"}
      /\ state'[e] \in Blank => state[e] \in Blank
      /\ state'[e] \in {"SynSent", "Connected"} => state[e] = state'[e]
      /\ state[e] \in {"SynSent", "ResetReceived"} => state'[e] \in {"SynSent", "ResetReceived"}
  BY <1>1 DEF Moves, Handshake, Blank
<1>7. /\ \A p \in net'[o] : p.type = "Syn" =>
           /\ p = SynPacket /\ state'[e] \in {"SynSent", "ResetReceived"} /\ ~ connecting'[e]
           /\ \A q \in net'[e] : q.type # "State"
      /\ \A q \in net'[e] : q.type # "Fin"
  BY <1>1, <1>4, <1>6 DEF Moves, Handshake, o
<1>8. \A q \in net'[e] : q.type = "State" =>
        /\ q = OneState /\ state'[e] \in {"SynSent", "ResetReceived"} /\ ~ connecting'[e]
        /\ state'[o] \notin Blank /\ Unused(e)'
  BY <1>1, <1>3, <1>6 DEF Moves, Handshake, o
<1>9. /\ state'[e] = "SynSent" => sent_window'[e] \subseteq {SynPacket}
      /\ state'[e] = "Connected" => \A q \in sent_window'[e] : q.type = "Data"
  BY <1>1, <1>6 DEF Moves, Handshake
<1>10. state'[e] \in Blank => Unused(e)' /\ sent_window'[e] = {} /\ out_of_order'[e] = {}
  BY <1>1, <1>3, <1>6 DEF Moves, Handshake, Blank
<1>11. (~ Unused(e)' \/ state'[e] = "Connected") => state'[o] \notin Blank
  BY <1>1, <1>3, <1>6 DEF Moves, Handshake, o
<1>12. Handshake(e)'
  BY <1>6, <1>7, <1>8, <1>9, <1>10, <1>11 DEF Handshake, o
<1> QED
  BY <1>5, <1>12 DEF o

LEMMA MovesNumbering ==
  ASSUME TwoWayInv, NEW e \in Endpoint, NEW cs, Moves(e, cs)
  PROVE  Numbering(e)' /\ Numbering(Other(e))'
<1>1. Numbering(e) /\ Numbering(Other(e))
  BY Sides DEF TwoWayInv
<1>2. written' = written
  BY DEF Moves
<1>3. DataOf(e)' \subseteq DataOf(e) /\ DataOf(Other(e))' \subseteq DataOf(Other(e))
  BY MovesData
<1> QED
  BY <1>1, <1>2, <1>3 DEF Numbering

LEMMA MovesReceiving ==
  ASSUME TwoWayInv, TypeOK', NEW e \in Endpoint, NEW cs, Moves(e, cs)
  PROVE  Receiving(e)' /\ Receiving(Other(e))'
<1> DEFINE o == Other(e)
           t == Taken(e)
<1>1. Handshake(e) /\ Receiving(e) /\ Receiving(o) /\ Numbering(o) /\ Other(o) = e
  BY Sides DEF TwoWayInv
<1>2. DataOf(e)' \subseteq DataOf(e) /\ DataOf(o)' \subseteq DataOf(o)
  BY MovesData
<1>3. Receiving(o)'
  <2>1. Taken(o)' = Taken(o) /\ written' = written /\ out_of_order'[o] = out_of_order[o]
        /\ state'[o] = state[o] /\ last_acked'[o] = last_acked[o]
    BY DEF Moves
  <2>2. \A c : Has(o, c)' <=> Has(o, c)
    BY <2>1 DEF Has
  <2> QED
    BY <1>1, <1>2, <2>1, <2>2 DEF Receiving
<1>4. /\ t \in Seq(0 .. MaxChunks) /\ Len(t) \in Nat /\ cs \in Seq(0 .. MaxChunks)
      /\ Len(cs) \in Nat /\ Taken(e)' = t \o cs
      /\ last_acked[e] \in Nat /\ last_acked'[e] \in Nat
  <2>1. TypeOK
    BY DEF TwoWayInv
  <2>2. t \in Seq(0 .. MaxChunks) /\ Len(t) \in Nat
    BY <2>1, TakenType
  <2>3. cs \in Seq(0 .. MaxChunks) /\ Taken(e)' = t \o cs
    BY DEF Moves
  <2>4. Len(cs) \in Nat
    BY <2>3, LenProperties
  <2>5. last_acked[e] \in Nat /\ last_acked'[e] \in Nat
    BY <2>1 DEF TypeOK, SeqNr
  <2> QED
    BY <2>2, <2>3, <2>4, <2>5
<1> HIDE DEF t, o
<1>5. /\ Len(t \o cs) = Len(t) + Len(cs)
      /\ \A i \in 1 .. Len(t) : (t \o cs)[i] = t[i]
      /\ \A j \in 1 .. Len(cs) : (t \o cs)[Len(t) + j] = cs[j]
  BY <1>4, ConcatProperties
<1>6. \A i \in 1 .. Len(t \o cs) :
        i \in 1 .. Len(t) \/ \E j \in 1 .. Len(cs) : i = Len(t) + j
  <2> TAKE i \in 1 .. Len(t \o cs)
  <2>1. CASE i <= Len(t)
    BY <1>4, <2>1
  <2>2. CASE i > Len(t)
    <3>1. i - Len(t) \in 1 .. Len(cs) /\ i = Len(t) + (i - Len(t))
      BY <1>4, <1>5, <2>2
    <3> QED
      BY <3>1
  <2> QED
    BY <1>4, <2>1, <2>2
<1>7. ASSUME NEW j \in 1 .. Len(cs)
      PROVE  /\ state[e] = "Connected" /\ cs[j] \in 1 .. written[o]
             /\ \E q \in DataOf(o) : q.data = cs[j] /\ q.seq_nr = last_acked[e] + j
  <2>1. cs # << >>
    BY <1>4, <1>7, EmptySeq
  <2>2. PICK q \in DataOf(o) : q.data = cs[j] /\ q.seq_nr = last_acked[e] + j
    BY DEF Moves, o
  <2> QED
    BY <1>1, <2>1, <2>2 DEF Moves, Numbering
<1>8. ASSUME NEW p \in DataOf(o), NEW j \in 1 .. Len(cs), p.data = cs[j]
      PROVE  p.seq_nr = last_acked[e] + j
  BY <1>1, <1>7, <1>8 DEF Numbering
<1>9. ASSUME NEW i \in 1 .. Len(t), NEW j \in 1 .. Len(cs)
      PROVE  t[i] # cs[j]
  <2>1. PICK q \in DataOf(o) : q.data = cs[j] /\ q.seq_nr = last_acked[e] + j
    BY <1>7
  <2>2. Has(e, q.data) => q.seq_nr <= last_acked[e]
    BY <1>1, <1>7 DEF Receiving, o
  <2>3. t[i] = cs[j] => Has(e, q.data)
    BY <2>1 DEF Has, t
  <2> QED
    BY <1>4, <2>1, <2>2, <2>3
<1>10. ASSUME NEW i \in 1 .. Len(cs), NEW j \in 1 .. Len(cs), i # j
       PROVE  cs[i] # cs[j]
  <2>1. PICK q \in DataOf(o) : q.data = cs[j] /\ q.seq_nr = last_acked[e] + j
    BY <1>7
  <2>2. cs[i] = cs[j] => q.seq_nr = last_acked[e] + i
    BY <1>8, <2>1
  <2> QED
    BY <1>4, <1>10, <2>1, <2>2
<1>11. \A q \in out_of_order'[e] : q.type = "Data"
  BY <1>1 DEF Receiving, Moves
<1>12. \A i \in 1 .. Len(t \o cs) : (t \o cs)[i] \in 1 .. written[o]
  <2> TAKE i \in 1 .. Len(t \o cs)
  <2>1. \A k \in 1 .. Len(t) : t[k] \in 1 .. written[o]
    BY <1>1 DEF Receiving, t, o
  <2> QED
    BY <1>5, <1>6, <1>7, <2>1
<1>13. \A i, j \in 1 .. Len(t \o cs) : i < j => (t \o cs)[i] # (t \o cs)[j]
  <2> SUFFICES ASSUME NEW i \in 1 .. Len(t \o cs), NEW j \in 1 .. Len(t \o cs), i < j
               PROVE  (t \o cs)[i] # (t \o cs)[j]
    OBVIOUS
  <2>1. CASE i \in 1 .. Len(t) /\ j \in 1 .. Len(t)
    <3>1. t[i] # t[j]
      BY <1>1, <2>1 DEF Receiving, t
    <3> QED
      BY <1>5, <2>1, <3>1
  <2>2. ASSUME i \in 1 .. Len(t), NEW l \in 1 .. Len(cs), j = Len(t) + l
        PROVE  (t \o cs)[i] # (t \o cs)[j]
    BY <1>5, <1>9, <2>2
  <2>3. ASSUME NEW k \in 1 .. Len(cs), i = Len(t) + k, NEW l \in 1 .. Len(cs), j = Len(t) + l
        PROVE  (t \o cs)[i] # (t \o cs)[j]
    <3>1. k # l
      BY <1>4, <2>3
    <3> QED
      BY <1>5, <1>10, <2>3, <3>1
  <2>4. ~ (j \in 1 .. Len(t) /\ \E k \in 1 .. Len(cs) : i = Len(t) + k)
    BY <1>4
  <2> QED
    BY <1>6, <2>1, <2>2, <2>3, <2>4
<1>14. ASSUME state'[e] = "Connected", NEW p \in DataOf(o)', NEW i \in 1 .. Len(t \o cs),
              (t \o cs)[i] = p.data
       PROVE  p.seq_nr <= last_acked'[e]
  <2>1. /\ p \in DataOf(o) /\ state[e] = "Connected"
        /\ last_acked'[e] >= last_acked[e] + Len(cs)
    BY <1>2, <1>14 DEF Moves
  <2>2. CASE i \in 1 .. Len(t)
    <3>1. Has(e, p.data)
      BY <1>5, <1>14, <2>2 DEF Has, t
    <3>2. p.seq_nr <= last_acked[e]
      BY <1>1, <2>1, <3>1 DEF Receiving, o
    <3>3. p.seq_nr \in Nat
      <4>1. p \in Packet
        BY <2>1, Sides DEF TwoWayInv, TypeOK, DataOf, o
      <4> QED
        BY <4>1, PacketFields
    <3> QED
      BY <1>4, <2>1, <3>2, <3>3
  <2>3. ASSUME NEW j \in 1 .. Len(cs), i = Len(t) + j PROVE p.seq_nr <= last_acked'[e]
    <3>1. p.seq_nr = last_acked[e] + j
      BY <1>5, <1>8, <1>14, <2>1, <2>3
    <3> QED
      BY <1>4, <2>1, <3>1
  <2> QED
    BY <1>6, <2>2, <2>3
<1>15. Receiving(e)'
  <2>1. written'[o] = written[o]
    BY DEF Moves
  <2> QED
    BY <1>4, <1>11, <1>12, <1>13, <1>14, <2>1 DEF Receiving, Has, o
<1> QED
  BY <1>3, <1>15 DEF o

LEMMA MovesKeep ==
  ASSUME TwoWayInv, TypeOK', NEW e \in Endpoint, NEW cs, Moves(e, cs)
  PROVE  TwoWayInv'
BY Sides, MovesHandshake, MovesNumbering, MovesReceiving DEF TwoWayInv

-----------------------------------------------------------------------------
(* Steps that take nothing.                                                *)

LEMMA ExchangeEffect ==
  ASSUME CarefulUse, TypeOK, NEW e \in Endpoint, NEW p, NEW out, Exchange(e, p, out)
  PROVE  net'[e] = net[e] \ {p} /\ net'[Other(e)] = net[Other(e)] \cup out
BY Sides DEF Exchange, CarefulUse

LEMMA AnswerEffect ==
  ASSUME CarefulUse, TypeOK, NEW e \in Endpoint, NEW p, NEW sent, NEW rsp,
         Answer(e, p, sent, rsp)
  PROVE  /\ net'[e] = net[e] \ {p}
         /\ net'[Other(e)] \subseteq net[Other(e)] \cup sent \cup rsp
<1>1. CASE Exchange(e, p, sent \cup rsp)
  BY <1>1, ExchangeEffect
<1>2. CASE Exchange(e, p, sent)
  BY <1>2, ExchangeEffect
<1> QED
  BY <1>1, <1>2 DEF Answer

\* While there is room a counted Ack moves last_acked on, never back.
LEMMA CountAckGrows ==
  ASSUME TypeOK, NEW e \in Endpoint, RoomLeft(e), NEW p \in Packet,
         ~ CountOverflows(e, p), CountAck(e, p)
  PROVE  /\ last_acked'[e] >= last_acked[e]
         /\ last_acked'[Other(e)] = last_acked[Other(e)]
<1>1. /\ last_acked \in [Endpoint -> SeqNr] /\ last_acked[e] \in Nat
      /\ p.ack_nr \in Nat /\ U16 \in Nat
  <2>1. last_acked \in [Endpoint -> SeqNr]
    BY DEF TypeOK
  <2>2. U16 \in Nat
    BY Constants
  <2>3. last_acked[e] \in Nat
    BY <2>1, <2>2 DEF SeqNr
  <2>4. p.ack_nr \in Nat
    BY PacketFields
  <2> QED
    BY <2>1, <2>2, <2>3, <2>4
<1>2. CASE last_acked' = last_acked
  BY <1>1, <1>2
<1>3. CASE p.ack_nr = last_acked[e] /\ last_acked' = [last_acked EXCEPT ![e] = p.ack_nr]
  BY <1>1, <1>3
<1>4. ASSUME p.ack_nr = Inc(last_acked[e]), p.ack_nr # last_acked[e],
             last_acked' = [last_acked EXCEPT ![e] = p.ack_nr]
      PROVE  /\ last_acked'[e] >= last_acked[e]
             /\ last_acked'[Other(e)] = last_acked[Other(e)]
  <2>1. last_acked[e] + 1 < U16
    BY <1>1, <1>4 DEF CountOverflows, Overflows, RoomLeft
  <2>2. p.ack_nr = last_acked[e] + 1
    BY <1>1, <1>4, <2>1, IncNoWrap
  <2> QED
    BY <1>1, <1>4, <2>2, Sides
<1> QED
  BY <1>2, <1>3, <1>4 DEF CountAck, ackVars

\* A step in which nothing is taken and the numbers do not go back.
LEMMA MovesNothing ==
  ASSUME TypeOK, NEW e \in Endpoint,
         UNCHANGED <<written, connecting, incoming_buffer, delivered, seq_nr>>,
         net'[e] \subseteq net[e],
         \A q \in net'[Other(e)] :
           \/ q \in net[Other(e)] \/ q.type \in {"Ack", "Reset"}
           \/ state[e] = "Connected" /\ q \in sent_window[e],
         sent_window'[e] \subseteq sent_window[e],
         sent_window'[Other(e)] = sent_window[Other(e)],
         \A q \in out_of_order'[e] :
           \/ q \in out_of_order[e]
           \/ state[e] = "Connected" /\ q \in net[e] /\ q.type = "Data",
         out_of_order'[Other(e)] = out_of_order[Other(e)],
         state'[Other(e)] = state[Other(e)],
         \/ state'[e] \in {state[e], "ResetReceived"}
         \/ state[e] = "NoPeer" /\ state'[e] = "New",
         last_acked'[Other(e)] = last_acked[Other(e)],
         last_acked'[e] >= last_acked[e]
  PROVE  Moves(e, << >>)
<1>1. Taken(e)' = Taken(e) /\ Taken(Other(e))' = Taken(Other(e))
  BY DEF Taken
<1>2. \A j \in 1 .. Len(<< >>) : FALSE
  BY EmptyTake
<1>3. last_acked'[e] >= last_acked[e] + Len(<< >>)
  BY EmptyTake DEF TypeOK, SeqNr
<1> QED
  BY <1>1, <1>2, <1>3, EmptyTake DEF Moves

LEMMA AckSteps ==
  ASSUME CarefulUse, TwoWayInv, NEW e \in Endpoint, RoomLeft(e), NEW p \in net[e],
         RecvAck(e, p) \/ AckPanic(e, p)
  PROVE  Moves(e, << >>)
<1>1. TypeOK /\ Handshake(e) /\ p \in Packet /\ state[e] = "Connected"
  <2>1. TypeOK /\ Handshake(e) /\ Established(e)
    BY DEF TwoWayInv, RecvAck, AckPanic
  <2> QED
    BY <2>1 DEF TypeOK, Handshake, Blank, Established
<1>2. /\ state' = state
      /\ UNCHANGED <<written, connecting, incoming_buffer, delivered, seq_nr, out_of_order>>
  BY DEF RecvAck, AckPanic, recvVars
<1>3. /\ sent_window'[e] \subseteq sent_window[e]
      /\ sent_window'[Other(e)] = sent_window[Other(e)]
  BY ZenonT(30), <1>1, Sides DEF RecvAck, AckPanic, AckedWindow, TypeOK
<1>4. last_acked'[e] >= last_acked[e] /\ last_acked'[Other(e)] = last_acked[Other(e)]
  <2>1. CASE last_acked' = last_acked
    BY <1>1, <2>1 DEF TypeOK, SeqNr
  <2>2. CASE ~ CountOverflows(e, p) /\ CountAck(e, p)
    BY <1>1, <2>2, CountAckGrows
  <2> QED
    BY <2>1, <2>2 DEF RecvAck, AckPanic, ackVars
<1>5. /\ net'[e] \subseteq net[e]
      /\ \A q \in net'[Other(e)] : q \in net[Other(e)] \/ q \in sent_window[e]
  <2>1. CASE RecvAck(e, p)
    <3> DEFINE W == AckedWindow(e, p)
    <3>1. Answer(e, p, LostPackets(p, W), FastResend(e, p, W))
      BY <2>1 DEF RecvAck
    <3>2. LostPackets(p, W) \subseteq sent_window[e] /\ FastResend(e, p, W) \subseteq sent_window[e]
      BY DEF LostPackets, FastResend, BelowNewest, AckedWindow
    <3> HIDE DEF W
    <3> QED
      BY <1>1, <3>1, <3>2, AnswerEffect
  <2>2. CASE AckPanic(e, p)
    BY <1>1, <2>2, ExchangeEffect DEF AckPanic
  <2> QED
    BY <2>1, <2>2
<1> QED
  BY <1>1, <1>2, <1>3, <1>4, <1>5, MovesNothing

LEMMA DataWaits ==
  ASSUME CarefulUse, TwoWayInv, NEW e \in Endpoint, NEW p \in net[e],
         RecvDataAhead(e, p) \/ RecvDataOld(e, p)
  PROVE  Moves(e, << >>)
<1>1. TypeOK /\ Handshake(e) /\ state[e] = "Connected" /\ p.type = "Data"
  <2>1. TypeOK /\ Handshake(e) /\ Established(e) /\ p.type = "Data"
    BY DEF TwoWayInv, RecvDataAhead, RecvDataOld, Arrives
  <2> QED
    BY <2>1 DEF Handshake, Blank, Established
<1>2. UNCHANGED <<state, written, connecting, incoming_buffer, delivered, seq_nr,
                  last_acked, sent_window>>
  BY DEF RecvDataAhead, RecvDataOld, sendVars, ackVars, recvVars
<1>3. /\ out_of_order'[e] \subseteq out_of_order[e] \cup {p}
      /\ out_of_order'[Other(e)] = out_of_order[Other(e)]
  BY <1>1, Sides DEF RecvDataAhead, RecvDataOld, Without, recvVars, TypeOK
<1>4. /\ net'[e] \subseteq net[e]
      /\ \A q \in net'[Other(e)] : q \in net[Other(e)] \/ q.type = "Ack"
  <2>1. PICK bits : Answer(e, p, {}, {AckPacket(e, bits)})
    BY DEF RecvDataAhead, RecvDataOld
  <2>2. AckPacket(e, bits).type = "Ack"
    BY DEF AckPacket, NewPacket
  <2> QED
    BY <1>1, <2>1, <2>2, AnswerEffect
<1>5. last_acked'[e] >= last_acked[e]
  BY <1>1, <1>2 DEF TypeOK, SeqNr
<1> QED
  BY <1>1, <1>2, <1>3, <1>4, <1>5, MovesNothing

LEMMA OtherSteps ==
  ASSUME CarefulUse, TwoWayInv, NEW e \in Endpoint, NEW p \in net[e],
         \/ RecvUndecodable(e, p) \/ Lose(e, p) \/ RecvSynOther(e, p)
         \/ RecvReset(e, p) \/ RecvUnhandled(e, p)
  PROVE  Moves(e, << >>)
<1>1. TypeOK
  BY DEF TwoWayInv
<1>2. UNCHANGED <<written, connecting, incoming_buffer, delivered, seq_nr, out_of_order,
                  last_acked, sent_window>>
  BY DEF RecvUndecodable, Lose, RecvSynOther, RecvReset, RecvUnhandled,
         sendVars, ackVars, recvVars
<1>3. /\ state'[Other(e)] = state[Other(e)]
      /\ \/ state'[e] \in {state[e], "ResetReceived"}
         \/ state[e] = "NoPeer" /\ state'[e] = "New"
  BY <1>1, Sides DEF RecvUndecodable, Lose, RecvSynOther, RecvReset, RecvUnhandled,
                     Become, Current, TypeOK
<1>4. /\ net'[e] \subseteq net[e]
      /\ \A q \in net'[Other(e)] : q \in net[Other(e)] \/ q.type = "Reset"
  <2>1. CASE RecvSynOther(e, p)
    <3> DEFINE r == NewPacket("Reset", p.seq_nr, p.seq_nr, {}, NoData)
    <3>1. Answer(e, p, {}, {r}) /\ r.type = "Reset"
      BY <2>1 DEF RecvSynOther, NewPacket
    <3> HIDE DEF r
    <3> QED
      BY <1>1, <3>1, AnswerEffect
  <2>2. CASE Lose(e, p)
    BY <1>1, <2>2, Sides DEF Lose, TypeOK
  <2>3. CASE Exchange(e, p, {})
    BY <1>1, <2>3, ExchangeEffect
  <2> QED
    BY <2>1, <2>2, <2>3 DEF RecvUndecodable, RecvReset, RecvUnhandled
<1>5. last_acked'[e] >= last_acked[e]
  BY <1>1, <1>2 DEF TypeOK, SeqNr
<1> QED
  BY <1>1, <1>2, <1>3, <1>4, <1>5, MovesNothing

LEMMA ErrorStep ==
  ASSUME TwoWayInv, NEW e \in Endpoint, RecvError(e)
  PROVE  Moves(e, << >>)
<1>1. TypeOK /\ last_acked[e] >= last_acked[e]
  BY DEF TwoWayInv, TypeOK, SeqNr
<1>2. UNCHANGED <<state, written, connecting, incoming_buffer, delivered, seq_nr,
                  out_of_order, last_acked, sent_window, net>>
  BY DEF RecvError, sendVars, ackVars, recvVars
<1> QED
  BY <1>1, <1>2, MovesNothing
-----------------------------------------------------------------------------
(* The step that takes chunks in order.                                    *)

LEMMA Regroup ==
  \A s, t, u \in Seq(0 .. MaxChunks) : s \o (t \o u) = (s \o t) \o u
<1>1. \A s, t, u \in Seq(0 .. MaxChunks) : (s \o t) \o u = s \o (t \o u)
  BY ConcatAssociative
<1> QED
  BY <1>1

LEMMA DeliverTakes ==
  ASSUME TypeOK, NEW e \in Endpoint, NEW chunks \in Seq(0 .. MaxChunks),
         Deliver(e, chunks)
  PROVE  Taken(e)' = Taken(e) \o chunks /\ Taken(Other(e))' = Taken(Other(e))
<1>1. /\ delivered[e] \in Seq(0 .. MaxChunks) /\ incoming_buffer[e] \in Seq(0 .. MaxChunks)
      /\ delivered \in [Endpoint -> Seq(0 .. MaxChunks)]
      /\ incoming_buffer \in [Endpoint -> Seq(0 .. MaxChunks)]
  BY DEF TypeOK
<1>2. /\ Taken(e) \o chunks \in Seq(0 .. MaxChunks)
      /\ (Taken(e) \o chunks) \o << >> = Taken(e) \o chunks
      /\ delivered[e] \o (incoming_buffer[e] \o chunks)
           = (delivered[e] \o incoming_buffer[e]) \o chunks
  <2>1. Taken(e) \o chunks \in Seq(0 .. MaxChunks)
    BY TakenType, ConcatProperties
  <2>2. (Taken(e) \o chunks) \o << >> = Taken(e) \o chunks
    BY <2>1, ConcatEmptySeq
  <2>3. delivered[e] \o (incoming_buffer[e] \o chunks)
          = (delivered[e] \o incoming_buffer[e]) \o chunks
    BY <1>1, Regroup
  <2> QED
    BY <2>1, <2>2, <2>3
<1>3. CASE /\ delivered' = [delivered EXCEPT ![e] = @ \o incoming_buffer[e] \o chunks]
           /\ incoming_buffer' = [incoming_buffer EXCEPT ![e] = << >>]
  BY <1>1, <1>2, <1>3, Sides DEF Taken
<1>4. CASE /\ incoming_buffer' = [incoming_buffer EXCEPT ![e] = @ \o chunks]
           /\ delivered' = delivered
  BY <1>1, <1>2, <1>4, Sides DEF Taken
<1> QED
  BY <1>3, <1>4 DEF Deliver

\* The run of drained packets does not wrap around.
LEMMA RunStaysBelow ==
  ASSUME TypeOK, NEW e \in Endpoint, NEW n \in SeqNr, NEW d \in SeqNr,
         OverflowChecks \/ n + 1 < U16,
         ~ (out_of_order[e] # {} /\ Overflows(n + 1)), IsRun(Drained(e, n), n, d)
  PROVE  n + d < U16
<1> DEFINE D == Drained(e, n)
<1>1. n \in Nat /\ d \in Nat /\ n < U16 /\ U16 \in Nat /\ U16 > 3
  BY Constants DEF SeqNr
<1>2. SUFFICES ASSUME n + d >= U16 PROVE FALSE
  BY <1>1
<1>3. U16 - n \in 1 .. d /\ (n + (U16 - n)) % U16 = 0
  <2>1. n + (U16 - n) = U16 /\ U16 % U16 = 0
    BY <1>1
  <2> QED
    BY <1>1, <1>2, <2>1
<1>4. PICK q \in D : q.seq_nr = 0
  <2>1. 0 \in {(n + j) % U16 : j \in 1 .. d}
    BY <1>3
  <2> QED
    BY <2>1 DEF IsRun
<1>5. q \in out_of_order[e]
  BY DEF Drained
<1>6. Inc(n) = n + 1
  BY <1>1, <1>5, IncNoWrap DEF Overflows
<1>7. 0 \in {r.seq_nr : r \in {x \in out_of_order[e] : x.seq_nr <= q.seq_nr}}
  BY <1>4, <1>5
<1>8. 0 \in n + 1 .. 0
  BY <1>4, <1>6, <1>7 DEF Drained
<1> QED
  BY <1>1, <1>8

LEMMA InOrderMoves ==
  ASSUME CarefulUse, TwoWayInv, NEW e \in Endpoint, RoomLeft(e), NEW p \in net[e],
         RecvDataInOrder(e, p)
  PROVE  \E cs : Moves(e, cs)
<1> DEFINE o == Other(e)
           n == p.seq_nr
           D == Drained(e, n)
<1>1. /\ TypeOK /\ Handshake(e) /\ Receiving(e) /\ state[e] = "Connected" /\ p.type = "Data"
      /\ Other(o) = e /\ o # e /\ o \in Endpoint
  <2>1. TypeOK /\ Handshake(e) /\ Receiving(e) /\ Established(e) /\ p.type = "Data"
    BY DEF TwoWayInv, RecvDataInOrder, Arrives
  <2> QED
    BY <2>1, Sides DEF Handshake, Blank, Established
<1>2. PICK d \in SeqNr :
        /\ IsRun(D, n, d)
        /\ last_acked' = [last_acked EXCEPT ![e] = (n + d) % U16]
        /\ out_of_order' = [out_of_order EXCEPT ![e] = @ \ D]
        /\ Answer(e, p, {}, {AckPacket(e, {})})
        /\ Deliver(e, <<p.data>> \o Run(D, n, d))
  BY DEF RecvDataInOrder
<1>3. /\ p \in Packet /\ n \in SeqNr /\ n \in Nat /\ d \in Nat /\ U16 \in Nat
      /\ last_acked[e] \in Nat /\ seq_nr[e] \in Nat /\ n < U16
      /\ p.data \in 0 .. MaxChunks
  <2>1. p \in Packet
    BY <1>1 DEF TypeOK
  <2>2. /\ n \in SeqNr /\ n \in Nat /\ n < U16 /\ p.data \in 0 .. MaxChunks
    BY <2>1, PacketFields
  <2>3. d \in Nat /\ U16 \in Nat /\ last_acked[e] \in Nat /\ seq_nr[e] \in Nat
    BY SMTT(30), <1>1, Constants DEF TypeOK, SeqNr
  <2> QED
    BY <2>1, <2>2, <2>3
<1>4. n = last_acked[e] + 1
  <2>1. last_acked[e] + 1 < U16
    BY <1>3 DEF RecvDataInOrder, Overflows, RoomLeft
  <2> QED
    BY <1>3, <2>1, IncNoWrap DEF RecvDataInOrder
<1>5. n + d < U16
  <2>1. OverflowChecks \/ n + 1 < U16
    BY <1>3, <1>4 DEF RoomLeft
  <2> QED
    BY <1>1, <1>2, <1>3, <2>1, RunStaysBelow DEF RecvDataInOrder
<1> DEFINE run == Run(D, n, d)
           cs == <<p.data>> \o run
<1>6. D \in SUBSET Packet /\ D \subseteq out_of_order[e]
  BY <1>1 DEF Drained, TypeOK
<1>7. /\ run \in Seq(0 .. MaxChunks) /\ Len(run) = d
      /\ \A j \in 1 .. d : \E q \in D : q.seq_nr = (n + j) % U16 /\ run[j] = q.data
  BY <1>2, <1>3, <1>6, RunType
<1>8. p \in DataOf(o) /\ D \subseteq DataOf(o)
  BY <1>1, <1>6 DEF DataOf, Receiving
<1> HIDE DEF o, n, D, run
<1>9. /\ cs \in Seq(0 .. MaxChunks) /\ Len(cs) = 1 + d
      /\ cs[1] = p.data /\ \A j \in 1 .. d : cs[1 + j] = run[j]
  <2>1. <<p.data>> \in Seq(0 .. MaxChunks) /\ Len(<<p.data>>) = 1 /\ <<p.data>>[1] = p.data
    BY <1>3
  <2> QED
    BY <1>3, <1>7, <2>1, ConcatProperties
<1>10. ASSUME NEW j \in 1 .. Len(cs)
       PROVE  \E q \in DataOf(o) : q.data = cs[j] /\ q.seq_nr = last_acked[e] + j
  <2>1. CASE j = 1
    BY <1>4, <1>8, <1>9, <2>1 DEF n
  <2>2. CASE j > 1
    <3> DEFINE i == j - 1
    <3>1. i \in 1 .. d /\ i \in Nat /\ j = 1 + i /\ n + i = last_acked[e] + j
      <4>1. j \in Nat /\ j <= 1 + d
        BY <1>3, <1>9
      <4>2. i \in 1 .. d /\ i \in Nat /\ j = 1 + i
        BY <1>3, <2>2, <4>1
      <4> HIDE DEF i
      <4>3. n + i = last_acked[e] + j
        BY SMTT(30), <1>3, <1>4, <4>2
      <4> QED
        BY <4>2, <4>3
    <3> HIDE DEF i
    <3>2. PICK q \in D : q.seq_nr = (n + i) % U16 /\ run[i] = q.data
      BY <1>7, <3>1
    <3>3. (n + i) % U16 = n + i
      <4>1. n + i \in Nat /\ n + i < U16
        BY <1>3, <1>5, <3>1
      <4> QED
        BY <4>1, NoWrap
    <3> QED
      BY <1>8, <1>9, <3>1, <3>2, <3>3
  <2> QED
    BY <1>3, <1>9, <2>1, <2>2
<1>11. Taken(e)' = Taken(e) \o cs /\ Taken(o)' = Taken(o)
  BY <1>1, <1>2, <1>9, DeliverTakes DEF run, o
<1>12. last_acked'[e] = last_acked[e] + Len(cs) /\ last_acked'[o] = last_acked[o]
  <2>1. (n + d) % U16 = n + d
    BY <1>3, <1>5, NoWrap
  <2>2. last_acked \in [Endpoint -> SeqNr]
    BY <1>1 DEF TypeOK
  <2> QED
    BY <1>1, <1>2, <1>3, <1>4, <1>9, <2>1, <2>2
<1>13. /\ net'[e] \subseteq net[e]
       /\ \A q \in net'[o] : q \in net[o] \/ q.type = "Ack"
  <2>1. AckPacket(e, {}).type = "Ack"
    BY DEF AckPacket, NewPacket
  <2> QED
    BY <1>1, <1>2, <2>1, AnswerEffect DEF o
<1>14. seq_nr'[e] = seq_nr[e] + 1 /\ seq_nr[e] + 1 < U16 /\ seq_nr'[o] = seq_nr[o]
  <2>1. seq_nr[e] + 1 < U16
    BY <1>3 DEF RecvDataInOrder, Overflows, RoomLeft
  <2>2. seq_nr \in [Endpoint -> SeqNr] /\ seq_nr' = [seq_nr EXCEPT ![e] = Inc(seq_nr[e])]
    BY <1>1 DEF TypeOK, RecvDataInOrder
  <2> QED
    BY <1>1, <1>3, <2>1, <2>2, IncNoWrap
<1>15. /\ out_of_order'[e] \subseteq out_of_order[e] /\ out_of_order'[o] = out_of_order[o]
       /\ UNCHANGED <<state, written, connecting, sent_window>>
  BY <1>1, <1>2 DEF RecvDataInOrder, TypeOK
<1>16. cs # << >>
  BY <1>3, <1>9, EmptySeq
<1>17. last_acked'[e] >= last_acked[e] + Len(cs)
  BY <1>3, <1>9, <1>12
<1> HIDE DEF cs
<1> QED
  BY <1>1, <1>9, <1>10, <1>11, <1>12, <1>13, <1>14, <1>15, <1>16, <1>17 DEF Moves, o

\* A receive task that panics in the middle of a Data packet may have taken
\* its chunk.
LEMMA DataPanicMoves ==
  ASSUME CarefulUse, TwoWayInv, NEW e \in Endpoint, RoomLeft(e), NEW p \in net[e],
         DataPanic(e, p)
  PROVE  \E cs : Moves(e, cs)
<1> DEFINE o == Other(e)
<1>1. /\ TypeOK /\ Handshake(e) /\ state[e] = "Connected" /\ p.type = "Data"
      /\ Other(o) = e /\ o # e /\ o \in Endpoint
  <2>1. TypeOK /\ Handshake(e) /\ Established(e) /\ p.type = "Data"
    BY DEF TwoWayInv, DataPanic, Arrives
  <2> QED
    BY <2>1, Sides DEF Handshake, Blank, Established
<1>2. /\ p \in Packet /\ p.data \in 0 .. MaxChunks /\ U16 \in Nat
      /\ last_acked \in [Endpoint -> SeqNr] /\ last_acked[e] \in Nat
      /\ seq_nr \in [Endpoint -> SeqNr] /\ seq_nr[e] \in Nat
  BY SMTT(30), <1>1, PacketFields, Constants DEF TypeOK, SeqNr
<1>3. net'[e] \subseteq net[e] /\ net'[o] = net[o]
  <2>1. Exchange(e, p, {})
    BY DEF DataPanic
  <2> QED
    BY SMTT(30), <1>1, <2>1, ExchangeEffect
<1>4. UNCHANGED <<state, sent_window, written, out_of_order, delivered, connecting>>
  BY DEF DataPanic
<1>5. p \in DataOf(o)
  BY <1>1 DEF DataOf
<1>6. last_acked' = last_acked \/ last_acked' = [last_acked EXCEPT ![e] = last_acked[e] + 1]
  <2>1. ASSUME ~ Overflows(last_acked[e] + 1)
        PROVE  Inc(last_acked[e]) = last_acked[e] + 1
    BY <1>2, <2>1, IncNoWrap DEF Overflows, RoomLeft
  <2> QED
    BY <2>1 DEF DataPanic
<1> HIDE DEF o
<1>7. /\ last_acked'[e] >= last_acked[e] /\ last_acked'[o] = last_acked[o]
      /\ last_acked'[e] \in {last_acked[e], last_acked[e] + 1}
  BY <1>1, <1>2, <1>6
<1>8. CASE UNCHANGED <<seq_nr, incoming_buffer>>
  <2>1. Moves(e, << >>)
    BY <1>1, <1>3, <1>4, <1>7, <1>8, MovesNothing DEF o
  <2> QED
    BY <2>1
<1>9. ASSUME ~ Overflows(last_acked[e] + 1), p.seq_nr = Inc(last_acked[e]),
             last_acked' = [last_acked EXCEPT ![e] = p.seq_nr],
             ~ Overflows(seq_nr[e] + 1),
             seq_nr' = [seq_nr EXCEPT ![e] = Inc(@)],
             incoming_buffer' = [incoming_buffer EXCEPT ![e] = Append(@, p.data)]
      PROVE  Moves(e, <<p.data>>)
  <2> DEFINE cs == <<p.data>>
  <2>1. p.seq_nr = last_acked[e] + 1 /\ last_acked'[e] = last_acked[e] + 1
    BY <1>1, <1>2, <1>9, IncNoWrap DEF Overflows, RoomLeft
  <2>2. seq_nr[e] + 1 < U16 /\ seq_nr'[e] = seq_nr[e] + 1 /\ seq_nr'[o] = seq_nr[o]
    BY <1>1, <1>2, <1>9, IncNoWrap DEF Overflows, RoomLeft
  <2>3. cs \in Seq(0 .. MaxChunks) /\ Len(cs) = 1 /\ cs[1] = p.data /\ cs # << >>
    BY <1>2
  <2>4. /\ incoming_buffer \in [Endpoint -> Seq(0 .. MaxChunks)]
        /\ delivered[e] \in Seq(0 .. MaxChunks) /\ incoming_buffer[e] \in Seq(0 .. MaxChunks)
    BY <1>1 DEF TypeOK
  <2>5. Append(incoming_buffer[e], p.data) = incoming_buffer[e] \o cs
    BY <1>2, <2>4, AppendIsConcat
  <2> HIDE DEF cs
  <2>6. delivered[e] \o (incoming_buffer[e] \o cs) = (delivered[e] \o incoming_buffer[e]) \o cs
    BY <2>3, <2>4, Regroup
  <2>7. Taken(e)' = Taken(e) \o cs /\ Taken(o)' = Taken(o)
    BY <1>1, <1>4, <1>9, <2>4, <2>5, <2>6 DEF Taken
  <2>8. ASSUME NEW j \in 1 .. Len(cs)
        PROVE  \E q \in DataOf(o) : q.data = cs[j] /\ q.seq_nr = last_acked[e] + j
    BY <1>5, <2>1, <2>3
  <2>9. last_acked'[e] >= last_acked[e] + Len(cs)
    BY <1>2, <2>1, <2>3
  <2>10. Moves(e, cs)
    BY <1>1, <1>3, <1>4, <1>7, <2>2, <2>3, <2>7, <2>8, <2>9 DEF Moves, o
  <2> QED
    BY <2>10 DEF cs
<1> QED
  BY <1>8, <1>9 DEF DataPanic
-----------------------------------------------------------------------------
(* The handshake and Write.                                                *)

LEMMA KeepsNumbering ==
  ASSUME TwoWayInv, NEW e \in Endpoint, written' = written, DataOf(e)' \subseteq DataOf(e)
  PROVE  Numbering(e)'
<1>1. Numbering(e)
  BY DEF TwoWayInv
<1> QED
  BY <1>1 DEF Numbering

LEMMA KeepsReceiving ==
  ASSUME TwoWayInv, NEW e \in Endpoint, written' = written, Taken(e)' = Taken(e),
         out_of_order'[e] \subseteq out_of_order[e],
         DataOf(Other(e))' \subseteq DataOf(Other(e)),
         \/ state'[e] = state[e] /\ last_acked'[e] = last_acked[e]
         \/ state'[e] # "Connected"
         \/ Taken(e) = << >>
  PROVE  Receiving(e)'
<1>1. Receiving(e)
  BY DEF TwoWayInv
<1>2. \A c : Has(e, c)' <=> Has(e, c)
  BY DEF Has
<1>3. Taken(e) = << >> => \A c : ~ Has(e, c)
  BY EmptySeq DEF Has
<1> QED
  BY <1>1, <1>2, <1>3 DEF Receiving

\* e takes a step of the handshake: no chunk is written or taken.
Opens(e) ==
  /\ written' = written
  /\ \A x \in Endpoint : DataOf(x)' \subseteq DataOf(x)
  /\ \A x \in Endpoint \ {e} : /\ state'[x] = state[x] /\ seq_nr'[x] = seq_nr[x]
                               /\ Taken(x)' = Taken(x) /\ last_acked'[x] = last_acked[x]
  /\ \/ /\ state'[e] = state[e] /\ seq_nr'[e] = seq_nr[e]
        /\ Taken(e)' = Taken(e) /\ last_acked'[e] = last_acked[e]
     \/ state'[e] = "SynSent" /\ seq_nr'[e] = 1 /\ Taken(e)' = delivered[e]
     \/ /\ state[e] \in Blank \cup {"SynSent"} /\ Unused(e) /\ state'[e] = "Connected"
        /\ seq_nr'[e] \in {seq_nr[e], Inc(seq_nr[e])} /\ Taken(e)' = Taken(e)

LEMMA CheckKeeps ==
  ASSUME TwoWayInv, TypeOK', NEW e \in Endpoint, ConnectCheck(e)
  PROVE  TwoWayInv' /\ Opens(e)
<1>1. /\ TypeOK /\ state[e] = "NoPeer"
      /\ connecting'[Other(e)] = connecting[Other(e)]
      /\ UNCHANGED <<state, seq_nr, written, incoming_buffer, delivered, last_acked,
                     out_of_order, sent_window, net>>
  BY Sides DEF TwoWayInv, ConnectCheck, TypeOK, sendVars, ackVars, recvVars
<1>2. ASSUME NEW x \in Endpoint PROVE Numbering(x)' /\ Receiving(x)'
  <2>1. Taken(x)' = Taken(x) /\ DataOf(x)' = DataOf(x) /\ DataOf(Other(x))' = DataOf(Other(x))
    BY <1>1 DEF Taken, DataOf
  <2> QED
    BY <1>1, <2>1, KeepsNumbering, KeepsReceiving
<1>3. ASSUME NEW x \in Endpoint PROVE Handshake(x)'
  <2>1. Handshake(x) /\ (Unused(x)' <=> Unused(x))
    BY <1>1 DEF TwoWayInv, Unused, Taken
  <2>2. state[x] \in {"SynSent", "ResetReceived"} => connecting'[x] = connecting[x]
    BY <1>1, Sides
  <2> QED
    BY <1>1, <2>1, <2>2 DEF Handshake
<1>4. Opens(e)
  BY <1>1, Sides DEF Opens, Taken, DataOf
<1> QED
  BY <1>1, <1>2, <1>3, <1>4 DEF TwoWayInv

\* connect may discard what the entry it replaces had taken and not delivered.
LEMMA InsertKeeps ==
  ASSUME TwoWayInv, TypeOK', NEW e \in Endpoint, ConnectInsert(e)
  PROVE  TwoWayInv' /\ Opens(e)
<1> DEFINE o == Other(e)
<1>1. /\ TypeOK /\ Handshake(e) /\ Handshake(o) /\ Receiving(e) /\ o \in Endpoint /\ o # e
      /\ Other(o) = e /\ \A x \in Endpoint : x = e \/ x = o
  BY Sides DEF TwoWayInv
<1>2. /\ connecting[e] /\ ~ connecting'[e] /\ connecting'[o] = connecting[o]
      /\ state'[e] = "SynSent" /\ state'[o] = state[o]
      /\ sent_window'[e] = {SynPacket} /\ sent_window'[o] = sent_window[o]
      /\ out_of_order'[e] = {} /\ out_of_order'[o] = out_of_order[o]
      /\ incoming_buffer'[e] = << >> /\ incoming_buffer'[o] = incoming_buffer[o]
      /\ last_acked'[o] = last_acked[o] /\ seq_nr'[e] = 1 /\ seq_nr'[o] = seq_nr[o]
      /\ delivered' = delivered /\ written' = written
      /\ net'[e] = net[e] /\ net'[o] = net[o] \cup {SynPacket}
  BY <1>1 DEF ConnectInsert, Become, Send, TypeOK
<1>3. SynPacket.type = "Syn"
  BY DEF SynPacket, NewPacket
<1> HIDE DEF o
<1>4. DataOf(e)' \subseteq DataOf(e) /\ DataOf(o)' \subseteq DataOf(o)
  BY <1>1, <1>2, <1>3 DEF DataOf, o
<1>5. Taken(o)' = Taken(o) /\ (Unused(o)' <=> Unused(o))
  BY <1>2 DEF Taken, Unused
<1>6. /\ Taken(e)' = delivered[e] /\ delivered[e] \in Seq(0 .. MaxChunks)
      /\ incoming_buffer[e] \in Seq(0 .. MaxChunks)
  <2>1. delivered[e] \in Seq(0 .. MaxChunks) /\ incoming_buffer[e] \in Seq(0 .. MaxChunks)
    BY <1>1 DEF TypeOK
  <2> QED
    BY <1>2, <2>1, ConcatEmptySeq DEF Taken
<1>7. /\ Len(delivered[e]) <= Len(Taken(e))
      /\ \A i \in 1 .. Len(delivered[e]) : Taken(e)[i] = delivered[e][i]
      /\ Len(delivered[e]) \in Nat /\ Len(Taken(e)) \in Nat
  BY <1>1, DeliveredIsTaken
<1>8. Receiving(e)'
  <2>1. \A i \in 1 .. Len(delivered[e]) : i \in 1 .. Len(Taken(e))
    BY <1>7
  <2>2. \A i \in 1 .. Len(delivered[e]) : delivered[e][i] \in 1 .. written[o]
    BY <1>1, <1>7, <2>1 DEF Receiving, o
  <2>3. \A i, j \in 1 .. Len(delivered[e]) : i < j => delivered[e][i] # delivered[e][j]
    BY <1>1, <1>7, <2>1 DEF Receiving
  <2> QED
    BY <1>2, <1>6, <2>2, <2>3 DEF Receiving, o
<1>9. Receiving(o)' /\ Numbering(e)' /\ Numbering(o)'
  BY <1>1, <1>2, <1>4, <1>5, KeepsReceiving, KeepsNumbering DEF o
<1>10. Unused(e) => Unused(e)'
  BY <1>2, <1>6, <1>7, EmptySeq DEF Unused
<1>11. Handshake(e)'
  BY <1>1, <1>2, <1>3, <1>10 DEF Handshake, Blank, o
<1>12. Handshake(o)'
  BY <1>1, <1>2, <1>3, <1>5 DEF Handshake, Blank, o
<1>13. Opens(e)
  BY <1>1, <1>2, <1>4, <1>5, <1>6 DEF Opens
<1> QED
  BY <1>1, <1>8, <1>9, <1>11, <1>12, <1>13 DEF TwoWayInv

LEMMA SynKeeps ==
  ASSUME CarefulUse, TwoWayInv, TypeOK', NEW e \in Endpoint, NEW p \in net[e],
         RecvSynNew(e, p)
  PROVE  TwoWayInv' /\ Opens(e)
<1> DEFINE o == Other(e)
<1>1. /\ TypeOK /\ Handshake(e) /\ Handshake(o) /\ o \in Endpoint /\ o # e
      /\ Other(o) = e /\ \A x \in Endpoint : x = e \/ x = o
  BY Sides DEF TwoWayInv
<1>2. p.type = "Syn" /\ state[e] \in Blank
  BY DEF RecvSynNew, Arrives, Current, Blank
<1>3. /\ p = SynPacket /\ state[o] \in {"SynSent", "ResetReceived"} /\ ~ connecting[o]
      /\ \A q \in net[o] : q.type # "State"
  BY <1>1, <1>2 DEF Handshake
<1>4. NewPacket("State", p.seq_nr, p.seq_nr, {}, NoData) = OneState /\ OneState.type = "State"
  BY <1>3 DEF OneState, SynPacket, NewPacket
<1>5. net'[e] = net[e] \ {p} /\ net'[o] \subseteq net[o] \cup {OneState}
  <2>1. Answer(e, p, {}, {OneState})
    BY <1>4 DEF RecvSynNew
  <2> QED
    BY <1>1, <2>1, AnswerEffect
<1>6. /\ state'[e] = "Connected" /\ state'[o] = state[o]
      /\ last_acked'[o] = last_acked[o]
      /\ UNCHANGED <<written, seq_nr, sent_window, out_of_order, incoming_buffer, delivered,
                     connecting>>
  BY <1>1 DEF RecvSynNew, Become, sendVars, recvVars, TypeOK
<1> HIDE DEF o
<1>7. DataOf(e)' \subseteq DataOf(e) /\ DataOf(o)' \subseteq DataOf(o)
  BY <1>1, <1>4, <1>5, <1>6 DEF DataOf, o
<1>8. /\ Taken(e)' = Taken(e) /\ Taken(o)' = Taken(o)
      /\ (Unused(e)' <=> Unused(e)) /\ (Unused(o)' <=> Unused(o))
  BY <1>6 DEF Taken, Unused
<1>9. Unused(e) /\ sent_window[e] = {} /\ Unused(o)
  BY <1>1, <1>2 DEF Handshake, o
<1>10. \A x \in Endpoint : Numbering(x)' /\ Receiving(x)'
  BY <1>1, <1>6, <1>7, <1>8, <1>9, KeepsNumbering, KeepsReceiving DEF o, Unused
<1>11. Handshake(e)'
  BY <1>1, <1>2, <1>3, <1>4, <1>5, <1>6, <1>8, <1>9 DEF Handshake, Blank, o
<1>12. Handshake(o)'
  <2>1. \A q \in net'[e] : q.type # "Syn"
    BY <1>1, <1>3, <1>5 DEF Handshake
  <2> QED
    BY <1>1, <1>3, <1>4, <1>5, <1>6, <1>8, <1>9, <2>1 DEF Handshake, Blank, o
<1>13. Opens(e)
  BY <1>1, <1>2, <1>6, <1>7, <1>8, <1>9 DEF Opens
<1> QED
  BY <1>1, <1>10, <1>11, <1>12, <1>13 DEF TwoWayInv

LEMMA StateKeeps ==
  ASSUME CarefulUse, TwoWayInv, TypeOK', NEW e \in Endpoint, NEW p \in net[e],
         RecvStateSynSent(e, p)
  PROVE  TwoWayInv' /\ Opens(e)
<1> DEFINE o == Other(e)
<1>1. /\ TypeOK /\ Handshake(e) /\ Handshake(o) /\ o \in Endpoint /\ o # e
      /\ Other(o) = e /\ \A x \in Endpoint : x = e \/ x = o
  BY Sides DEF TwoWayInv
<1>2. p.type = "State" /\ state[e] = "SynSent"
  BY DEF RecvStateSynSent, Arrives
<1>3. p = OneState /\ state[o] \notin Blank /\ Unused(e) /\ p.seq_nr = 1
  BY <1>1, <1>2 DEF Handshake, OneState, NewPacket
<1>4. net'[e] = net[e] \ {p} /\ net'[o] = net[o]
  <2>1. Exchange(e, p, {})
    BY DEF RecvStateSynSent
  <2> QED
    BY <1>1, <2>1, ExchangeEffect
<1>5. /\ state'[e] = "Connected" /\ state'[o] = state[o]
      /\ last_acked'[o] = last_acked[o]
      /\ seq_nr'[e] = Inc(seq_nr[e]) /\ seq_nr'[o] = seq_nr[o]
      /\ sent_window'[e] = Without(sent_window[e], 1) /\ sent_window'[o] = sent_window[o]
      /\ UNCHANGED <<written, out_of_order, incoming_buffer, delivered, connecting>>
  BY <1>1, <1>3 DEF RecvStateSynSent, Become, recvVars, TypeOK
<1>6. sent_window'[e] = {}
  BY <1>1, <1>2, <1>5 DEF Handshake, Without, SynPacket, NewPacket
<1> HIDE DEF o
<1>7. DataOf(e)' \subseteq DataOf(e) /\ DataOf(o)' \subseteq DataOf(o)
  BY <1>1, <1>4, <1>5, <1>6 DEF DataOf, o
<1>8. /\ Taken(e)' = Taken(e) /\ Taken(o)' = Taken(o)
      /\ (Unused(e)' <=> Unused(e)) /\ (Unused(o)' <=> Unused(o))
  BY <1>5 DEF Taken, Unused
<1>9. \A x \in Endpoint : Numbering(x)' /\ Receiving(x)'
  BY <1>1, <1>3, <1>5, <1>7, <1>8, KeepsNumbering, KeepsReceiving DEF o, Unused
<1>10. Handshake(e)'
  <2>1. \A q \in net'[e] : q.type # "State"
    BY <1>1, <1>3, <1>4 DEF Handshake
  <2>2. \A q \in net'[o] : q.type # "Syn"
    BY <1>1, <1>2, <1>4 DEF Handshake, o
  <2> QED
    BY <1>1, <1>3, <1>4, <1>5, <1>6, <1>8, <2>1, <2>2 DEF Handshake, Blank, o
<1>11. Handshake(o)'
  BY <1>1, <1>4, <1>5, <1>8 DEF Handshake, Blank, o
<1>12. Opens(e)
  BY <1>1, <1>2, <1>3, <1>5, <1>7, <1>8 DEF Opens
<1> QED
  BY <1>1, <1>9, <1>10, <1>11, <1>12 DEF TwoWayInv

\* What Write queues carries new chunks, numbered from seq_nr on.
LEMMA WriteQueues ==
  ASSUME TypeOK, NEW e \in Endpoint, NEW k \in WriteSizes, NEW q \in Chunks(e, k)
  PROVE  /\ q.type = "Data" /\ q.data \in Nat
         /\ q.data > written[e] /\ q.data <= written[e] + k
         /\ q.seq_nr = (seq_nr[e] + (q.data - written[e] - 1)) % U16
<1>1. k \in Nat /\ written[e] \in Nat
  BY Constants DEF TypeOK
<1>2. PICK j \in 0 .. k - 1 :
        q = NewPacket("Data", (seq_nr[e] + j) % U16, ack_nr[e], {}, written[e] + j + 1)
  BY DEF Chunks
<1>3. /\ q.type = "Data" /\ q.data = written[e] + j + 1
      /\ q.seq_nr = (seq_nr[e] + j) % U16
  BY <1>2 DEF NewPacket
<1>4. j \in Nat /\ j <= k - 1
  BY <1>1
<1>5. q.data - written[e] - 1 = j
  BY <1>1, <1>3, <1>4
<1> QED
  BY <1>1, <1>3, <1>4, <1>5

LEMMA WriteData ==
  ASSUME TypeOK, NEW e \in Endpoint, NEW k \in WriteSizes, Write(e, k)
  PROVE  /\ DataOf(e)' \subseteq DataOf(e) \cup Chunks(e, k)
         /\ DataOf(Other(e))' = DataOf(Other(e))
         /\ \A x \in Endpoint : Taken(x)' = Taken(x)
<1>1. Other(e) \in Endpoint /\ Other(e) # e /\ Other(Other(e)) = e
  BY Sides
<1>2. /\ sent_window'[e] \subseteq sent_window[e] \cup Chunks(e, k)
      /\ sent_window'[Other(e)] = sent_window[Other(e)] /\ net'[e] = net[e]
      /\ net'[Other(e)] \subseteq net[Other(e)] \cup sent_window[e] \cup Chunks(e, k)
      /\ UNCHANGED <<out_of_order, incoming_buffer, delivered>>
  BY <1>1 DEF Write, Send, Windowed, recvVars, TypeOK
<1> QED
  BY <1>1, <1>2 DEF DataOf, Taken

LEMMA WriteKeeps ==
  ASSUME CarefulUse, TwoWayInv, TypeOK', NEW e \in Endpoint, NEW k \in WriteSizes,
         Write(e, k)
  PROVE  TwoWayInv'
<1> DEFINE o == Other(e)
           C == Chunks(e, k)
<1>1. /\ TypeOK /\ Handshake(e) /\ Handshake(o) /\ o \in Endpoint /\ o # e
      /\ Other(o) = e /\ \A x \in Endpoint : x = e \/ x = o
      /\ Numbering(e) /\ Receiving(o) /\ state[e] = "Connected"
  BY Sides DEF TwoWayInv, Write, CarefulUse
<1>2. /\ k \in Nat /\ written[e] \in Nat
      /\ written'[e] = written[e] + k /\ written'[o] = written[o]
  BY <1>1, Constants DEF Write, TypeOK
<1>3. /\ sent_window'[e] \subseteq sent_window[e] \cup C /\ sent_window'[o] = sent_window[o]
      /\ net'[e] = net[e] /\ net'[o] \subseteq net[o] \cup sent_window[e] \cup C
      /\ UNCHANGED <<state, last_acked, out_of_order, incoming_buffer, delivered, connecting>>
  BY <1>1 DEF Write, Send, Windowed, ackVars, recvVars, TypeOK
<1>4. ASSUME NEW q \in C
      PROVE  /\ q.type = "Data" /\ q.data \in Nat
             /\ q.data > written[e] /\ q.data <= written[e] + k
             /\ q.seq_nr = (seq_nr[e] + (q.data - written[e] - 1)) % U16
  BY <1>1, WriteQueues
<1>5. DataOf(e)' \subseteq DataOf(e) \cup C /\ DataOf(o)' = DataOf(o)
  BY <1>1, WriteData
<1>6. \A x \in Endpoint : Taken(x)' = Taken(x)
  BY <1>1, WriteData
<1> HIDE DEF o, C
<1>7. \A p \in DataOf(e) : p.data \in Nat /\ p.data >= 1 /\ p.data <= written[e]
  BY <1>1, <1>2 DEF Numbering
<1>8. Numbering(e)'
  <2>1. \A p \in DataOf(e) \cup C : p.data \in 1 .. written[e] + k
    BY <1>2, <1>4, <1>7
  <2>2. \A p, q \in DataOf(e) : p.data = q.data => p.seq_nr = q.seq_nr
    BY <1>1 DEF Numbering
  <2>3. \A p, q \in C : p.data = q.data => p.seq_nr = q.seq_nr
    BY <1>4
  <2>4. \A p \in DataOf(e), q \in C : p.data # q.data
    BY <1>2, <1>4, <1>7
  <2> QED
    BY <1>2, <1>5, <2>1, <2>2, <2>3, <2>4 DEF Numbering
<1>9. Numbering(o)'
  <2>1. Numbering(o)
    BY <1>1 DEF TwoWayInv
  <2> QED
    BY <1>2, <1>5, <2>1 DEF Numbering
<1>10. Receiving(o)'
  <2>1. Taken(o)' = Taken(o)
    BY <1>1, <1>6
  <2>2. \A i \in 1 .. Len(Taken(o)) : Taken(o)[i] \in 1 .. written[e]
    BY <1>1 DEF Receiving
  <2>3. \A i \in 1 .. Len(Taken(o)) : Taken(o)[i] \in 1 .. written[e] + k
    BY <1>2, <2>2
  <2>4. \A p \in C : ~ Has(o, p.data)
    BY <1>2, <1>4, <2>2 DEF Has
  <2>5. \A c : Has(o, c)' <=> Has(o, c)
    BY <2>1 DEF Has
  <2> QED
    BY <1>1, <1>2, <1>3, <1>5, <2>1, <2>3, <2>4, <2>5 DEF Receiving
<1>11. Receiving(e)'
  <2>1. Receiving(e) /\ Taken(e)' = Taken(e)
    BY <1>1, <1>6 DEF TwoWayInv
  <2>2. \A c : Has(e, c)' <=> Has(e, c)
    BY <2>1 DEF Has
  <2> QED
    BY <1>1, <1>2, <1>3, <1>5, <2>1, <2>2 DEF Receiving, o
<1>12. \A q \in net'[o] : q \in net[o] \/ q.type = "Data"
  BY <1>1, <1>3, <1>4 DEF Handshake
<1>13. Handshake(e)'
  BY <1>1, <1>3, <1>4, <1>12 DEF Handshake, Blank, o
<1>14. Handshake(o)'
  <2>1. Unused(o)' <=> Unused(o)
    BY <1>1, <1>2, <1>6 DEF Unused
  <2> QED
    BY <1>1, <1>3, <1>12, <2>1 DEF Handshake, Blank, o
<1> QED
  BY <1>1, <1>8, <1>9, <1>10, <1>11, <1>13, <1>14 DEF TwoWayInv
-----------------------------------------------------------------------------
(* The first state, and the cases of a step.                               *)

LEMMA TwoWayInit == Init => TwoWayInv
<1> SUFFICES ASSUME Init PROVE TwoWayInv
  OBVIOUS
<1>1. ASSUME NEW e \in Endpoint
      PROVE  /\ state[e] = "NoPeer" /\ written[e] = 0 /\ Taken(e) = << >>
             /\ net[e] = {} /\ sent_window[e] = {} /\ out_of_order[e] = {}
  BY EmptySeq, ConcatEmptySeq DEF Init, Taken
<1>2. ASSUME NEW e \in Endpoint PROVE DataOf(e) = {}
  BY <1>1, Sides DEF DataOf
<1>3. Len(<< >>) = 0
  BY EmptySeq
<1>4. ASSUME NEW e \in Endpoint PROVE Handshake(e) /\ Numbering(e) /\ Receiving(e)
  BY <1>1, <1>2, <1>3, Sides DEF Handshake, Numbering, Receiving, Unused, Blank
<1> QED
  BY <1>4, InitType DEF TwoWayInv

\* What a step of the connection does to what e takes.
LEMMA StepCases ==
  ASSUME CarefulUse, TwoWayInv, LowInv, NEW e \in Endpoint
  PROVE  /\ ~ SendFin(e)
         /\ RecvError(e) => Moves(e, << >>)
         /\ \A p \in net[e] : Lose(e, p) => Moves(e, << >>)
         /\ \A p \in net[e] : Receive(e, p) =>
              \/ \E cs : Moves(e, cs)
              \/ RecvSynNew(e, p) \/ RecvStateSynSent(e, p)
<1> RoomLeft(e)
  BY SomeRoom DEF CarefulUse
<1>1. ~ SendFin(e)
  BY DEF SendFin, CarefulUse
<1>2. ASSUME NEW p \in net[e]
      PROVE  ~ RecvFin(e, p) /\ ~ RecvState(e, p) /\ ~ StatePanic(e, p)
  BY DEF TwoWayInv, Handshake, RecvFin, RecvState, StatePanic, Arrives
<1>3. ASSUME NEW p \in net[e], Receive(e, p), ~ RecvSynNew(e, p), ~ RecvStateSynSent(e, p)
      PROVE  \E cs : Moves(e, cs)
  <2>1. CASE \/ RecvAck(e, p) \/ AckPanic(e, p) \/ RecvDataAhead(e, p) \/ RecvDataOld(e, p)
             \/ RecvUndecodable(e, p) \/ RecvSynOther(e, p) \/ RecvReset(e, p)
             \/ RecvUnhandled(e, p)
    <3>1. Moves(e, << >>)
      BY <2>1, AckSteps, DataWaits, OtherSteps
    <3> QED
      BY <3>1
  <2>2. CASE RecvDataInOrder(e, p) \/ DataPanic(e, p)
    BY <2>2, InOrderMoves, DataPanicMoves
  <2> QED
    BY <1>2, <1>3, <2>1, <2>2 DEF Receive
<1> QED
  BY <1>1, <1>3, ErrorStep, OtherSteps

LEMMA IdleMoves ==
  ASSUME TwoWayInv, UNCHANGED vars, NEW e \in Endpoint
  PROVE  Moves(e, << >>)
<1>1. UNCHANGED <<state, written, connecting, incoming_buffer, delivered, seq_nr,
                  out_of_order, last_acked, sent_window, net>>
  BY DEF vars, sendVars, ackVars, recvVars
<1>2. TypeOK /\ last_acked[e] >= last_acked[e]
  BY DEF TwoWayInv, TypeOK, SeqNr
<1> QED
  BY <1>1, <1>2, MovesNothing

-----------------------------------------------------------------------------
(* The bound on the numbers of the release build.                          *)

\* What e acknowledges is where it stands, and it moves there by an Ack or by
\* data.
Sources(e) ==
  /\ \/ last_acked'[e] = last_acked[e]
     \/ \E q \in net[e] : q.type = "Ack" /\ last_acked'[e] = q.ack_nr
     \/ \E q \in DataOf(Other(e)) : last_acked'[e] = q.seq_nr
  /\ \A q \in net'[Other(e)] :
       q.type = "Ack" => q \in net[Other(e)] \/ q.ack_nr = last_acked'[e]

LEMMA AckSources ==
  ASSUME CarefulUse, TwoWayInv, NEW e \in Endpoint, NEW p \in net[e],
         RecvAck(e, p) \/ AckPanic(e, p)
  PROVE  Sources(e)
<1>1. TypeOK /\ Handshake(e) /\ state[e] = "Connected" /\ p.type = "Ack"
  <2>1. TypeOK /\ Handshake(e) /\ Established(e) /\ p.type = "Ack"
    BY DEF TwoWayInv, RecvAck, AckPanic, Arrives
  <2> QED
    BY <2>1 DEF Handshake, Blank, Established
<1>2. last_acked'[e] \in {last_acked[e], p.ack_nr}
  <2>1. CASE last_acked' = last_acked
    BY <2>1
  <2>2. CASE CountAck(e, p)
    BY <1>1, <2>2 DEF CountAck, ackVars, TypeOK
  <2> QED
    BY <2>1, <2>2 DEF RecvAck, AckPanic, ackVars
<1>3. \A q \in net'[Other(e)] : q \in net[Other(e)] \/ q \in sent_window[e]
  <2>1. CASE RecvAck(e, p)
    <3> DEFINE W == AckedWindow(e, p)
    <3>1. Answer(e, p, LostPackets(p, W), FastResend(e, p, W))
      BY <2>1 DEF RecvAck
    <3>2. LostPackets(p, W) \subseteq sent_window[e] /\ FastResend(e, p, W) \subseteq sent_window[e]
      BY DEF LostPackets, FastResend, BelowNewest, AckedWindow
    <3> HIDE DEF W
    <3> QED
      BY <1>1, <3>1, <3>2, AnswerEffect
  <2>2. CASE AckPanic(e, p)
    BY <1>1, <2>2, ExchangeEffect DEF AckPanic
  <2> QED
    BY <2>1, <2>2
<1>4. \A q \in sent_window[e] : q.type # "Ack"
  BY <1>1 DEF Handshake
<1> QED
  BY <1>1, <1>2, <1>3, <1>4 DEF Sources

LEMMA DataSources ==
  ASSUME CarefulUse, TwoWayInv, NEW e \in Endpoint, NEW p \in net[e],
         \/ RecvDataInOrder(e, p) \/ RecvDataAhead(e, p) \/ RecvDataOld(e, p)
         \/ DataPanic(e, p)
  PROVE  Sources(e)
<1> DEFINE o == Other(e)
<1>1. /\ TypeOK /\ Receiving(e) /\ p.type = "Data" /\ Other(o) = e
      /\ last_acked \in [Endpoint -> SeqNr]
  BY Sides DEF TwoWayInv, TypeOK, RecvDataInOrder, RecvDataAhead, RecvDataOld, DataPanic, Arrives
<1>2. p \in DataOf(o) /\ p.seq_nr \in Nat /\ p.seq_nr < U16 /\ U16 \in Nat
  <2>1. p \in Packet
    BY <1>1 DEF TypeOK
  <2> QED
    BY <1>1, <2>1, PacketFields, Constants DEF DataOf
<1>3. ASSUME NEW bits, Answer(e, p, {}, {AckPacket(e, bits)})
      PROVE  \A q \in net'[o] : q.type = "Ack" => q \in net[o] \/ q.ack_nr = last_acked'[e]
  <2>1. AckPacket(e, bits).ack_nr = last_acked'[e]
    BY DEF AckPacket, NewPacket
  <2> QED
    BY <1>1, <1>3, <2>1, AnswerEffect
<1>4. CASE RecvDataAhead(e, p) \/ RecvDataOld(e, p)
  <2>1. last_acked' = last_acked
    BY <1>4 DEF RecvDataAhead, RecvDataOld, ackVars
  <2>2. \E bits : Answer(e, p, {}, {AckPacket(e, bits)})
    BY <1>4 DEF RecvDataAhead, RecvDataOld
  <2> QED
    BY <1>3, <2>1, <2>2 DEF Sources
<1>5. CASE DataPanic(e, p)
  <2>1. last_acked'[e] \in {last_acked[e], p.seq_nr}
    BY <1>1, <1>5 DEF DataPanic
  <2>2. net'[o] = net[o]
    <3>1. Exchange(e, p, {})
      BY <1>5 DEF DataPanic
    <3> QED
      BY <1>1, <3>1, ExchangeEffect
  <2> QED
    BY <1>2, <2>1, <2>2 DEF Sources
<1>6. CASE RecvDataInOrder(e, p)
  <2> DEFINE D == Drained(e, p.seq_nr)
  <2>1. PICK d \in SeqNr :
          /\ IsRun(D, p.seq_nr, d)
          /\ last_acked' = [last_acked EXCEPT ![e] = (p.seq_nr + d) % U16]
          /\ Answer(e, p, {}, {AckPacket(e, {})})
    BY <1>6 DEF RecvDataInOrder
  <2>2. last_acked'[e] = (p.seq_nr + d) % U16 /\ d \in Nat
    BY <1>1, <1>2, <2>1 DEF SeqNr
  <2>3. D \subseteq DataOf(o)
    BY <1>1 DEF Drained, DataOf, Receiving
  <2> HIDE DEF D, o
  <2>4. CASE d = 0
    <3>1. (p.seq_nr + d) % U16 = p.seq_nr
      BY <1>2, <2>4, NoWrap
    <3> QED
      BY <1>2, <1>3, <2>1, <2>2, <3>1 DEF Sources, o
  <2>5. CASE d > 0
    <3>1. d \in 1 .. d
      BY <2>2, <2>5
    <3>2. \E q \in D : q.seq_nr = (p.seq_nr + d) % U16
      BY <2>1, <3>1 DEF IsRun
    <3> QED
      BY <1>3, <2>1, <2>2, <2>3, <3>2 DEF Sources, o
  <2> QED
    BY <2>2, <2>4, <2>5
<1> QED
  BY <1>4, <1>5, <1>6

LEMMA OtherSources ==
  ASSUME CarefulUse, TwoWayInv, NEW e \in Endpoint, NEW p \in net[e],
         \/ RecvUndecodable(e, p) \/ Lose(e, p) \/ RecvSynOther(e, p)
         \/ RecvReset(e, p) \/ RecvUnhandled(e, p)
  PROVE  Sources(e)
<1>1. TypeOK /\ Other(e) # e /\ Other(e) \in Endpoint
  BY Sides DEF TwoWayInv
<1>2. last_acked' = last_acked
  BY DEF RecvUndecodable, Lose, RecvSynOther, RecvReset, RecvUnhandled, ackVars
<1>3. \A q \in net'[Other(e)] : q \in net[Other(e)] \/ q.type = "Reset"
  <2>1. CASE RecvSynOther(e, p)
    <3> DEFINE r == NewPacket("Reset", p.seq_nr, p.seq_nr, {}, NoData)
    <3>1. Answer(e, p, {}, {r}) /\ r.type = "Reset"
      BY <2>1 DEF RecvSynOther, NewPacket
    <3> HIDE DEF r
    <3> QED
      BY <1>1, <3>1, AnswerEffect
  <2>2. CASE Lose(e, p)
    BY <1>1, <2>2 DEF Lose, TypeOK
  <2>3. CASE Exchange(e, p, {})
    BY <1>1, <2>3, ExchangeEffect
  <2> QED
    BY <2>1, <2>2, <2>3 DEF RecvUndecodable, RecvReset, RecvUnhandled
<1> QED
  BY <1>2, <1>3 DEF Sources

LEMMA LowTypes ==
  ASSUME TwoWayInv, NEW e \in Endpoint
  PROVE  /\ seq_nr[e] \in SeqNr /\ last_acked[e] \in Nat /\ written[e] \in Nat
         /\ written[e] <= MaxChunks /\ Len(Taken(e)) \in Nat /\ Len(Taken(e)) <= MaxChunks
         /\ MaxChunks \in Nat /\ U16 \in Nat /\ U16 > 3 /\ seq_nr[e] \in Nat
<1>1. TypeOK
  BY DEF TwoWayInv
<1>2. Len(Taken(e)) \in Nat /\ Len(Taken(e)) <= MaxChunks
  BY <1>1, TakenType, TakenBound
<1>3. MaxChunks \in Nat /\ U16 \in Nat /\ U16 > 3
  BY Constants
<1>4. last_acked[e] \in SeqNr /\ seq_nr[e] \in SeqNr /\ written[e] \in 0 .. MaxChunks
  BY <1>1 DEF TypeOK
<1> QED
  BY <1>2, <1>3, <1>4 DEF SeqNr

LEMMA LowTypesNext ==
  TwoWayInv' => (\A e \in Endpoint : Len(Taken(e)) \in Nat)'
<1>1. TwoWayInv => \A e \in Endpoint : Len(Taken(e)) \in Nat
  BY LowTypes
<1> QED
  BY <1>1, PTL

LEMMA MovesLow ==
  ASSUME TwoWayInv, \A x \in Endpoint : Low(x),
         NEW e \in Endpoint, NEW cs, Moves(e, cs), Sources(e)
  PROVE  \A x \in Endpoint : Low(x)'
<1> DEFINE o == Other(e)
<1>1. /\ Low(e) /\ Low(o) /\ o \in Endpoint /\ Other(o) = e /\ TypeOK
      /\ \A x \in Endpoint : x = e \/ x = o
  BY Sides DEF TwoWayInv
<1>2. DataOf(e)' \subseteq DataOf(e) /\ DataOf(o)' \subseteq DataOf(o)
  BY MovesData
<1>3. last_acked'[e] <= LastNumber
  BY <1>1 DEF Low, Sources
<1>4. Low(o)'
  <2>1. /\ seq_nr'[o] = seq_nr[o] /\ state'[o] = state[o] /\ written' = written
        /\ Taken(o)' = Taken(o) /\ last_acked'[o] = last_acked[o]
    BY DEF Moves
  <2>2. \A q \in net'[o] : q.type = "Ack" => q.ack_nr <= LastNumber
    BY <1>1, <1>3 DEF Low, Sources
  <2> QED
    BY <1>1, <1>2, <2>1, <2>2 DEF Low
<1>5. seq_nr'[e] <= 2 + written'[e] + Len(Taken(e)')
  <2>1. /\ Taken(e) \in Seq(0 .. MaxChunks) /\ cs \in Seq(0 .. MaxChunks)
        /\ Taken(e)' = Taken(e) \o cs /\ written' = written
    BY <1>1, TakenType DEF Moves
  <2>2. Len(cs) \in Nat /\ (cs # << >> => Len(cs) # 0)
    BY <2>1, LenProperties, EmptySeq
  <2>3. Len(Taken(e)') = Len(Taken(e)) + Len(cs)
    BY <2>1, ConcatProperties
  <2>4. /\ seq_nr[e] \in Nat /\ written[e] \in Nat /\ Len(Taken(e)) \in Nat
        /\ seq_nr[e] <= 2 + written[e] + Len(Taken(e))
    BY <1>1, LowTypes DEF Low
  <2>5. seq_nr'[e] = seq_nr[e] \/ (cs # << >> /\ seq_nr'[e] = seq_nr[e] + 1)
    BY DEF Moves
  <2> QED
    BY <2>1, <2>2, <2>3, <2>4, <2>5
<1>6. state'[e] \in Blank \cup {"SynSent"} => seq_nr'[e] = 1
  <2> SUFFICES ASSUME state'[e] \in Blank \cup {"SynSent"} PROVE seq_nr'[e] = 1
    OBVIOUS
  <2>1. state[e] \in Blank \cup {"SynSent"}
    BY DEF Moves, Blank
  <2>2. seq_nr'[e] = seq_nr[e]
    BY <2>1 DEF Moves, Blank
  <2> QED
    BY <1>1, <2>1, <2>2 DEF Low
<1>7. Low(e)'
  <2>1. net'[e] \subseteq net[e]
    BY DEF Moves
  <2> QED
    BY <1>1, <1>2, <1>3, <1>5, <1>6, <2>1 DEF Low
<1> QED
  BY <1>1, <1>4, <1>7

\* The handshake puts an endpoint at 0 or 1.
Starts(e) ==
  /\ \A x \in Endpoint \ {e} : last_acked'[x] = last_acked[x]
  /\ last_acked'[e] \in {last_acked[e], 0, 1}
  /\ \A x \in Endpoint : \A q \in net'[x] : q.type = "Ack" => q \in net[x]

LEMMA OpensStarts ==
  ASSUME CarefulUse, TwoWayInv, NEW e \in Endpoint,
         \/ ConnectCheck(e) \/ ConnectInsert(e)
         \/ \E p \in net[e] : RecvSynNew(e, p) \/ RecvStateSynSent(e, p)
  PROVE  Starts(e)
<1> DEFINE o == Other(e)
<1>1. /\ TypeOK /\ Handshake(e) /\ Handshake(o) /\ o \in Endpoint /\ o # e
      /\ Other(o) = e /\ \A x \in Endpoint : x = e \/ x = o
  BY Sides DEF TwoWayInv
<1>2. last_acked \in [Endpoint -> SeqNr] /\ net \in [Endpoint -> SUBSET Packet]
  BY <1>1 DEF TypeOK
<1>3. CASE ConnectCheck(e)
  BY <1>3 DEF ConnectCheck, Starts, ackVars
<1>4. CASE ConnectInsert(e)
  <2>1. SynPacket.type = "Syn"
    BY DEF SynPacket, NewPacket
  <2> QED
    BY <1>1, <1>2, <1>4, <2>1 DEF ConnectInsert, Send, Starts
<1>5. ASSUME NEW p \in net[e], RecvSynNew(e, p) PROVE Starts(e)
  <2>1. p.seq_nr = 1
    BY <1>1, <1>5 DEF RecvSynNew, Arrives, Handshake, SynPacket, NewPacket
  <2> DEFINE r == NewPacket("State", p.seq_nr, p.seq_nr, {}, NoData)
  <2>2. Answer(e, p, {}, {r}) /\ r.type = "State"
    BY <1>5 DEF RecvSynNew, NewPacket
  <2> HIDE DEF r
  <2>3. net'[e] = net[e] \ {p} /\ net'[o] \subseteq net[o] \cup {r}
    BY <1>1, <2>2, AnswerEffect
  <2>4. last_acked' = [last_acked EXCEPT ![e] = 1]
    BY <1>5, <2>1 DEF RecvSynNew
  <2> QED
    BY <1>1, <1>2, <2>2, <2>3, <2>4 DEF Starts
<1>6. ASSUME NEW p \in net[e], RecvStateSynSent(e, p) PROVE Starts(e)
  <2>1. p.ack_nr = 1
    BY <1>1, <1>6 DEF RecvStateSynSent, Arrives, Handshake, OneState, NewPacket
  <2>2. net'[e] = net[e] \ {p} /\ net'[o] = net[o]
    <3>1. Exchange(e, p, {})
      BY <1>6 DEF RecvStateSynSent
    <3> QED
      BY <1>1, <3>1, ExchangeEffect
  <2>3. last_acked' = [last_acked EXCEPT ![e] = 1]
    BY <1>6, <2>1 DEF RecvStateSynSent
  <2> QED
    BY <1>1, <1>2, <2>2, <2>3 DEF Starts
<1> QED
  BY <1>3, <1>4, <1>5, <1>6

LEMMA OpensLow ==
  ASSUME TwoWayInv, TwoWayInv', \A x \in Endpoint : Low(x),
         NEW e \in Endpoint, Opens(e), Starts(e)
  PROVE  \A x \in Endpoint : Low(x)'
<1>1. ASSUME NEW x \in Endpoint
      PROVE  /\ Low(x) /\ DataOf(x)' \subseteq DataOf(x) /\ written' = written
             /\ \A q \in net'[x] : q.type = "Ack" => q \in net[x]
  BY DEF Opens, Starts
<1>2. ASSUME NEW x \in Endpoint PROVE last_acked'[x] <= LastNumber
  <2>1. 0 <= LastNumber /\ 1 <= LastNumber
    BY Constants DEF LastNumber
  <2> QED
    BY <1>1, <2>1 DEF Low, Starts
<1>3. ASSUME NEW x \in Endpoint,
             seq_nr'[x] <= 2 + written'[x] + Len(Taken(x)'),
             state'[x] \in Blank \cup {"SynSent"} => seq_nr'[x] = 1
      PROVE  Low(x)'
  BY <1>1, <1>2, <1>3 DEF Low
<1>4. ASSUME NEW x \in Endpoint, state'[x] = state[x], seq_nr'[x] = seq_nr[x],
             Taken(x)' = Taken(x)
      PROVE  Low(x)'
  BY <1>1, <1>3, <1>4 DEF Low
<1>5. ASSUME seq_nr'[e] \in {1, 2}, state'[e] \in {"SynSent", "Connected"},
             state'[e] = "SynSent" => seq_nr'[e] = 1
      PROVE  Low(e)'
  <2>1. written'[e] \in Nat /\ Len(Taken(e)') \in Nat
    BY <1>1, LowTypes, LowTypesNext
  <2>2. seq_nr'[e] <= 2 + written'[e] + Len(Taken(e)')
    BY <1>5, <2>1
  <2> QED
    BY <1>3, <1>5, <2>2 DEF Blank
<1>6. ASSUME state[e] \in Blank \cup {"SynSent"}, seq_nr'[e] \in {seq_nr[e], Inc(seq_nr[e])}
      PROVE  seq_nr'[e] \in {1, 2}
  <2>1. Inc(1) = 2
    BY IncNoWrap, Constants
  <2> QED
    BY <1>1, <1>6, <2>1 DEF Low
<1> QED
  BY <1>4, <1>5, <1>6 DEF Opens

LEMMA WriteLow ==
  ASSUME NumbersLast, ~ OverflowChecks, CarefulUse, TwoWayInv, \A x \in Endpoint : Low(x),
         NEW e \in Endpoint, NEW k \in WriteSizes, Write(e, k)
  PROVE  \A x \in Endpoint : Low(x)'
<1> DEFINE o == Other(e)
           C == Chunks(e, k)
           n == seq_nr[e]
           w == written[e]
           l == Len(Taken(e))
<1>1. /\ TypeOK /\ Low(e) /\ Low(o) /\ o \in Endpoint /\ o # e /\ Other(o) = e
      /\ \A x \in Endpoint : x = e \/ x = o
      /\ state[e] = "Connected" /\ state' = state /\ last_acked' = last_acked
  BY Sides DEF TwoWayInv, Write, CarefulUse, ackVars
<1>2. /\ k \in Nat /\ w + k <= MaxChunks
      /\ written'[e] = w + k /\ written'[o] = written[o]
      /\ seq_nr'[e] = (n + k) % U16 /\ seq_nr'[o] = seq_nr[o]
  BY <1>1, Constants DEF Write, TypeOK
<1>3. /\ n \in Nat /\ w \in Nat /\ l \in Nat /\ l <= MaxChunks
      /\ MaxChunks \in Nat /\ U16 \in Nat /\ U16 > 3 /\ n <= 2 + w + l
      /\ 2 * MaxChunks + 3 < U16
  BY <1>1, LowTypes DEF Low, NumbersLast
<1>4. DataOf(e)' \subseteq DataOf(e) \cup C /\ DataOf(o)' = DataOf(o)
      /\ Taken(e)' = Taken(e) /\ Taken(o)' = Taken(o)
  BY <1>1, WriteData
<1>5. \A q \in C : q.type = "Data"
  BY <1>1, WriteQueues
<1>6. /\ \A q \in net'[e] : q.type = "Ack" => q \in net[e]
      /\ \A q \in net'[o] : q.type = "Ack" => q \in net[o]
  <2>1. /\ net'[e] = net[e]
        /\ net'[o] \subseteq net[o] \cup sent_window[e] \cup C
    BY <1>1 DEF Write, Send, Windowed, TypeOK
  <2>2. \A q \in sent_window[e] : q.type = "Data"
    BY <1>1 DEF TwoWayInv, Handshake
  <2> QED
    BY <1>5, <2>1, <2>2
<1>7. Low(o)'
  BY <1>1, <1>2, <1>4, <1>6 DEF Low
<1>8. ASSUME NEW q \in C PROVE q.seq_nr <= LastNumber
  <2> DEFINE i == q.data - w - 1
  <2>1. /\ q.data \in Nat /\ w < q.data /\ q.data <= w + k
        /\ q.seq_nr = (n + i) % U16
    BY <1>1, <1>8, WriteQueues
  <2> HIDE DEF n, w, l
  <2>2. i \in Nat /\ i <= k - 1
    BY <1>2, <1>3, <2>1
  <2> HIDE DEF i
  <2>3. n + i \in Nat /\ n + i <= 2 * MaxChunks + 1
    BY <1>2, <1>3, <2>2
  <2>4. n + i < U16
    BY <1>3, <2>3
  <2>5. (n + i) % U16 = n + i
    BY <1>3, <2>3, <2>4, NoWrap
  <2> QED
    BY <2>1, <2>3, <2>5 DEF LastNumber
<1>9. seq_nr'[e] <= 2 + (w + k) + l
  <2> HIDE DEF n, w, l
  <2>1. n + k \in Nat /\ n + k < U16 /\ n + k <= 2 + (w + k) + l
    BY <1>2, <1>3
  <2>2. (n + k) % U16 = n + k
    BY <1>3, <2>1, NoWrap
  <2> QED
    BY <1>2, <2>1, <2>2
<1>10. Low(e)'
  <2>1. state'[e] \notin Blank \cup {"SynSent"}
    BY <1>1 DEF Blank
  <2>2. \A p \in DataOf(e)' : p.seq_nr <= LastNumber
    BY <1>1, <1>4, <1>8 DEF Low
  <2>3. seq_nr'[e] <= 2 + written'[e] + Len(Taken(e)')
    BY <1>2, <1>4, <1>9
  <2> QED
    BY <1>1, <1>6, <2>1, <2>2, <2>3 DEF Low
<1> QED
  BY <1>1, <1>7, <1>10

-----------------------------------------------------------------------------
(* The first invariant.                                                    *)

LEMMA TwoWayStep ==
  CarefulUse /\ TwoWayInv /\ LowInv /\ [Next]_vars => TwoWayInv' /\ LowInv'
<1> SUFFICES ASSUME CarefulUse, TwoWayInv, LowInv, [Next]_vars
             PROVE  TwoWayInv' /\ LowInv'
  OBVIOUS
<1>1. TypeOK'
  BY TypeStep DEF TwoWayInv
<1>2. ASSUME NEW e \in Endpoint, NEW cs, Moves(e, cs), Sources(e)
      PROVE  TwoWayInv' /\ LowInv'
  BY <1>1, <1>2, MovesKeep, MovesLow DEF LowInv
<1>3. ASSUME NEW e \in Endpoint,
             \/ ConnectCheck(e) \/ ConnectInsert(e)
             \/ \E p \in net[e] : RecvSynNew(e, p) \/ RecvStateSynSent(e, p)
      PROVE  TwoWayInv' /\ LowInv'
  <2>1. TwoWayInv' /\ Opens(e)
    BY <1>1, <1>3, CheckKeeps, InsertKeeps, SynKeeps, StateKeeps
  <2>2. Starts(e)
    BY <1>3, OpensStarts
  <2> QED
    BY <2>1, <2>2, OpensLow DEF LowInv
<1>4. ASSUME NEW e \in Endpoint, NEW k \in WriteSizes, Write(e, k)
      PROVE  TwoWayInv' /\ LowInv'
  BY <1>1, <1>4, WriteKeeps, WriteLow DEF LowInv, CarefulUse
<1>5. ASSUME NEW e \in Endpoint, NEW p \in net[e], Receive(e, p),
             ~ RecvSynNew(e, p), ~ RecvStateSynSent(e, p)
      PROVE  Sources(e)
  <2>1. ~ RecvFin(e, p) /\ ~ RecvState(e, p) /\ ~ StatePanic(e, p)
    BY DEF TwoWayInv, Handshake, RecvFin, RecvState, StatePanic, Arrives
  <2> QED
    BY <1>5, <2>1, AckSources, DataSources, OtherSources DEF Receive
<1>6. ASSUME NEW e \in Endpoint, RecvError(e) \/ UNCHANGED vars
      PROVE  Moves(e, << >>) /\ Sources(e)
  BY <1>6, ErrorStep, IdleMoves DEF Sources, RecvError, vars, ackVars
<1>7. CASE UNCHANGED vars
  <2>1. PICK e \in Endpoint : TRUE
    BY Constants
  <2> QED
    BY <1>2, <1>6, <1>7, <2>1
<1>8. CASE Next
  <2>1. PICK e \in Endpoint :
          \/ ConnectCheck(e) \/ ConnectInsert(e) \/ \E k \in WriteSizes : Write(e, k)
          \/ SendFin(e) \/ RecvError(e)
          \/ \E p \in net[e] : Receive(e, p) \/ Lose(e, p)
    BY <1>8 DEF Next
  <2>2. ASSUME NEW p \in net[e], Receive(e, p) \/ Lose(e, p)
        PROVE  TwoWayInv' /\ LowInv'
    <3>1. CASE RecvSynNew(e, p) \/ RecvStateSynSent(e, p)
      BY <1>3, <3>1
    <3>2. CASE Lose(e, p)
      BY <1>2, <3>2, OtherSteps, OtherSources
    <3>3. CASE Receive(e, p) /\ ~ RecvSynNew(e, p) /\ ~ RecvStateSynSent(e, p)
      <4>1. \E cs : Moves(e, cs)
        BY <3>3, StepCases
      <4> QED
        BY <1>2, <1>5, <3>3, <4>1
    <3> QED
      BY <2>2, <3>1, <3>2, <3>3
  <2>3. ~ SendFin(e)
    BY StepCases
  <2> QED
    BY <1>2, <1>3, <1>4, <1>6, <2>1, <2>2, <2>3
<1> QED
  BY <1>7, <1>8

LEMMA LowInit == Init => LowInv
<1> SUFFICES ASSUME Init, NEW e \in Endpoint PROVE Low(e)
  BY DEF LowInv
<1>1. /\ last_acked[e] = 0 /\ seq_nr[e] = 1 /\ written[e] = 0 /\ net[e] = {}
      /\ Taken(e) = << >> /\ DataOf(e) = {}
  BY Sides, EmptySeq, ConcatEmptySeq DEF Init, Taken, DataOf
<1>2. Len(<< >>) = 0
  BY EmptySeq
<1> QED
  BY <1>1, <1>2, Constants DEF Low, LastNumber

THEOREM TwoWayInvHolds ==
  ASSUME CarefulUse
  PROVE  Spec => [](TwoWayInv /\ LowInv)
<1>1. Init => TwoWayInv /\ LowInv
  BY TwoWayInit, LowInit
<1>2. TwoWayInv /\ LowInv /\ [Next]_vars => TwoWayInv' /\ LowInv'
  BY TwoWayStep
<1> QED
  BY <1>1, <1>2, PTL DEF Spec

\* When nothing is duplicated, no chunk reaches an application twice, whatever is
\* lost, retransmitted, reset or panics (recv_packets_from).
THEOREM NothingTwice ==
  ASSUME CarefulUse
  PROVE  Spec => []DeliverOnce
<1>1. TwoWayInv => DeliverOnce
  <2> SUFFICES ASSUME TwoWayInv, NEW e \in Endpoint,
                      NEW i \in 1 .. Len(delivered[e]), NEW j \in 1 .. Len(delivered[e]), i < j
               PROVE  delivered[e][i] # delivered[e][j]
    BY DEF DeliverOnce
  <2>1. TypeOK /\ Receiving(e)
    BY DEF TwoWayInv
  <2>2. /\ i \in 1 .. Len(Taken(e)) /\ j \in 1 .. Len(Taken(e))
        /\ Taken(e)[i] = delivered[e][i] /\ Taken(e)[j] = delivered[e][j]
    BY <2>1, DeliveredIsTaken
  <2> QED
    BY <2>1, <2>2 DEF Receiving
<1> QED
  BY <1>1, TwoWayInvHolds, PTL
-----------------------------------------------------------------------------
(* The second invariant.  The largest number an endpoint may still use is  *)
(* bounded by the chunks both sides write, so it is not used twice.        *)

WideNumbers == 2 * MaxChunks < U16

LEMMA NrFacts ==
  ASSUME NEW n \in SeqNr
  PROVE  /\ n \in Nat /\ n < U16 /\ Nr(n) \in Nat /\ Nr(n) >= 1 /\ Nr(n) <= U16
         /\ Nr(n) < U16 => Nr(n) = n
         /\ \A m \in SeqNr : Nr(m) = Nr(n) => m = n
<1>1. n \in Nat /\ n < U16 /\ U16 \in Nat /\ U16 > 3
  BY Constants DEF SeqNr
<1>2. \A m \in SeqNr : m \in Nat /\ m < U16
  BY <1>1 DEF SeqNr
<1> QED
  BY <1>1, <1>2 DEF Nr

\* The number i places further on, as long as the largest one is not passed.
LEMMA NrAdvances ==
  ASSUME NEW n \in SeqNr, NEW i \in Nat, Nr(n) + i <= U16
  PROVE  (n + i) % U16 \in SeqNr /\ Nr((n + i) % U16) = Nr(n) + i
<1>1. n \in Nat /\ n < U16 /\ U16 \in Nat /\ U16 > 3
  BY NrFacts, Constants
<1>2. (n + i) % U16 \in SeqNr
  BY SMTT(30), <1>1, WrapInRange
<1>3. CASE n = 0
  <2>1. i = 0 /\ 0 % U16 = 0
    BY <1>1, <1>3 DEF Nr
  <2> QED
    BY <1>1, <1>2, <1>3, <2>1 DEF Nr
<1>4. CASE n > 0 /\ n + i < U16
  <2>1. (n + i) % U16 = n + i
    BY <1>1, <1>4, NoWrap
  <2> QED
    BY <1>1, <1>2, <1>4, <2>1 DEF Nr
<1>5. CASE n > 0 /\ n + i = U16
  <2>1. U16 % U16 = 0
    BY <1>1
  <2> QED
    BY <1>1, <1>2, <1>5, <2>1 DEF Nr
<1>6. n > 0 => n + i <= U16
  BY <1>1 DEF Nr
<1> QED
  BY <1>1, <1>3, <1>4, <1>5, <1>6

LEMMA TakenBoundNext ==
  TwoWayInv' => (\A e \in Endpoint : /\ Len(Taken(e)) <= written[Other(e)]
                                     /\ Len(Taken(e)) <= MaxChunks)'
BY TakenBound, PTL

\* Facts of types the counting steps share.
LEMMA CountTypes ==
  ASSUME TwoWayInv, NEW e \in Endpoint
  PROVE  /\ seq_nr[e] \in SeqNr /\ written[e] \in Nat /\ written[e] <= MaxChunks
         /\ Len(Taken(e)) \in Nat /\ Len(Taken(e)) <= MaxChunks
         /\ MaxChunks \in Nat /\ U16 \in Nat /\ U16 > 3
         /\ \A p \in DataOf(e) : p.seq_nr \in SeqNr
<1>1. TypeOK /\ Other(e) \in Endpoint
  BY Sides DEF TwoWayInv
<1>2. seq_nr[e] \in SeqNr /\ written[e] \in Nat /\ written[e] <= MaxChunks
  BY <1>1, Constants DEF TypeOK
<1>3. \A p \in DataOf(e) : p \in Packet
  BY <1>1 DEF TypeOK, DataOf
<1> QED
  BY <1>1, <1>2, <1>3, TakenType, TakenBound, Constants, PacketFields

LEMMA MovesCounting ==
  ASSUME WideNumbers, CountingInv, TwoWayInv', NEW e \in Endpoint, NEW cs, Moves(e, cs)
  PROVE  \A x \in Endpoint : Counting(x)'
<1> DEFINE o == Other(e)
<1>1. /\ TwoWayInv /\ Counting(e) /\ Counting(o) /\ o \in Endpoint
      /\ \A x \in Endpoint : x = e \/ x = o
  BY Sides DEF CountingInv
<1>2. DataOf(e)' \subseteq DataOf(e) /\ DataOf(o)' \subseteq DataOf(o)
  BY <1>1, MovesData
<1>3. Counting(o)'
  <2>1. /\ seq_nr'[o] = seq_nr[o] /\ state'[o] = state[o] /\ written' = written
        /\ Taken(o)' = Taken(o)
    BY DEF Moves
  <2> QED
    BY <1>1, <1>2, <2>1 DEF Counting
<1>4. /\ seq_nr[e] \in SeqNr /\ written[e] \in Nat /\ MaxChunks \in Nat /\ U16 \in Nat
      /\ Len(Taken(e)) \in Nat
  BY <1>1, CountTypes
<1>5. /\ Len(Taken(e)') = Len(Taken(e)) + Len(cs) /\ Len(cs) \in Nat
      /\ Len(Taken(e)') <= MaxChunks
      /\ cs # << >> => Len(cs) >= 1
  <2>1. /\ Taken(e) \in Seq(0 .. MaxChunks) /\ cs \in Seq(0 .. MaxChunks)
        /\ Taken(e)' = Taken(e) \o cs
    BY <1>1, TakenType DEF TwoWayInv, Moves
  <2>2. Len(cs) \in Nat /\ (cs # << >> => Len(cs) # 0)
    BY <2>1, LenProperties, EmptySeq
  <2>3. Len(Taken(e) \o cs) = Len(Taken(e)) + Len(cs)
    BY <2>1, ConcatProperties
  <2>4. Len(Taken(e)') <= MaxChunks
    BY TakenBoundNext
  <2>5. cs # << >> => Len(cs) >= 1
    BY <2>2
  <2>6. Len(Taken(e)') = Len(Taken(e)) + Len(cs)
    BY <2>1, <2>3
  <2> QED
    BY <2>2, <2>4, <2>5, <2>6
<1>6. state'[e] \in Blank \cup {"SynSent"} => seq_nr'[e] = 1
  <2> SUFFICES ASSUME state'[e] \in Blank \cup {"SynSent"} PROVE seq_nr'[e] = 1
    OBVIOUS
  <2>1. state[e] \in Blank \cup {"SynSent"}
    BY DEF Moves, Blank
  <2>2. seq_nr'[e] = seq_nr[e]
    BY <2>1 DEF Moves, Blank
  <2> QED
    BY <1>1, <2>1, <2>2 DEF Counting
<1>7. ASSUME state'[e] = "Connected", written'[e] < MaxChunks
      PROVE  /\ Nr(seq_nr'[e]) <= 2 + written'[e] + Len(Taken(e)')
             /\ \A p \in DataOf(e) : Nr(p.seq_nr) < Nr(seq_nr'[e])
  <2>1. state[e] = "Connected" /\ written'[e] = written[e]
    BY <1>7 DEF Moves
  <2>2. /\ Nr(seq_nr[e]) <= 2 + written[e] + Len(Taken(e))
        /\ \A p \in DataOf(e) : Nr(p.seq_nr) < Nr(seq_nr[e])
    BY <1>1, <1>7, <2>1 DEF Counting
  <2>3. Nr(seq_nr[e]) \in Nat
    BY <1>4, NrFacts
  <2>4. CASE seq_nr'[e] = seq_nr[e]
    BY <1>4, <1>5, <2>1, <2>2, <2>3, <2>4
  <2>5. ASSUME cs # << >>, seq_nr[e] + 1 < U16, seq_nr'[e] = seq_nr[e] + 1
        PROVE  /\ Nr(seq_nr'[e]) <= 2 + written'[e] + Len(Taken(e)')
               /\ \A p \in DataOf(e) : Nr(p.seq_nr) < Nr(seq_nr'[e])
    <3>1. Nr(seq_nr[e]) < U16
      BY <1>4, <1>5, <1>7, <2>1, <2>2, <2>3, <2>5 DEF WideNumbers
    <3>2. Nr(seq_nr[e]) = seq_nr[e] /\ Nr(seq_nr'[e]) = seq_nr[e] + 1 /\ seq_nr[e] \in Nat
      BY <1>4, <2>5, <3>1, NrFacts DEF Nr
    <3>3. ASSUME NEW p \in DataOf(e) PROVE Nr(p.seq_nr) < Nr(seq_nr'[e])
      <4>1. Nr(p.seq_nr) \in Nat
        BY <1>1, CountTypes, NrFacts
      <4> QED
        BY <2>2, <3>2, <4>1
    <3> QED
      BY <1>4, <1>5, <2>1, <2>2, <2>5, <3>2, <3>3
  <2> QED
    BY <2>4, <2>5 DEF Moves
<1>8. Counting(e)'
  BY <1>1, <1>2, <1>6, <1>7 DEF Counting
<1> QED
  BY <1>1, <1>3, <1>8

LEMMA OpensCounting ==
  ASSUME CountingInv, NEW e \in Endpoint, Opens(e)
  PROVE  \A x \in Endpoint : Counting(x)'
<1>1. /\ TwoWayInv /\ \A x \in Endpoint : Counting(x) /\ DataOf(x)' \subseteq DataOf(x)
      /\ written' = written
  BY DEF CountingInv, Opens
<1>2. ASSUME NEW x \in Endpoint, state'[x] = state[x], seq_nr'[x] = seq_nr[x],
             Taken(x)' = Taken(x)
      PROVE  Counting(x)'
  BY <1>1, <1>2 DEF Counting
<1>3. ASSUME state'[e] = "SynSent", seq_nr'[e] = 1 PROVE Counting(e)'
  BY <1>1, <1>3 DEF Counting
<1>4. ASSUME state[e] \in Blank \cup {"SynSent"}, Unused(e), state'[e] = "Connected",
             seq_nr'[e] \in {seq_nr[e], Inc(seq_nr[e])}, Taken(e)' = Taken(e)
      PROVE  Counting(e)'
  <2>1. DataOf(e)' = {}
    <3>1. Numbering(e) /\ written[e] = 0
      BY <1>1, <1>4 DEF TwoWayInv, Unused
    <3> QED
      BY <1>1, <3>1 DEF Numbering
  <2>2. seq_nr'[e] \in {1, 2}
    <3>1. Inc(1) = 2
      BY IncNoWrap, Constants
    <3> QED
      BY <1>1, <1>4, <3>1 DEF Counting
  <2>3. written'[e] = 0 /\ Len(Taken(e)') = 0
    BY <1>1, <1>4, EmptySeq DEF Unused
  <2> QED
    BY <1>4, <2>1, <2>2, <2>3 DEF Counting, Blank, Nr
<1> QED
  BY <1>2, <1>3, <1>4 DEF Opens

\* The numbers of what Write queues follow those in use.
LEMMA WriteNumbers ==
  ASSUME WideNumbers, CarefulUse, CountingInv, NEW e \in Endpoint,
         NEW k \in WriteSizes, Write(e, k), k > 0
  PROVE  LET n == seq_nr[e]
             w == written[e]
         IN  /\ Nr(n) <= 2 + w + Len(Taken(e)) /\ Nr(n) \in Nat
             /\ \A p \in DataOf(e) : Nr(p.seq_nr) < Nr(n)
             /\ \A q \in Chunks(e, k) :
                  /\ q.seq_nr \in SeqNr /\ q.data \in Nat /\ w < q.data /\ q.data <= w + k
                  /\ Nr(q.seq_nr) = Nr(n) + (q.data - w - 1)
<1> DEFINE C == Chunks(e, k)
           n == seq_nr[e]
           w == written[e]
           l == Len(Taken(e))
<1>1. /\ TwoWayInv /\ TypeOK /\ Counting(e) /\ state[e] = "Connected"
      /\ k \in Nat /\ w + k <= MaxChunks
  BY Constants DEF CountingInv, TwoWayInv, Write, CarefulUse
<1>2. /\ n \in SeqNr /\ w \in Nat /\ l \in Nat /\ l <= MaxChunks
      /\ MaxChunks \in Nat /\ U16 \in Nat
  BY <1>1, CountTypes
<1>3. /\ Nr(n) <= 2 + w + l /\ \A p \in DataOf(e) : Nr(p.seq_nr) < Nr(n)
      /\ Nr(n) \in Nat
  BY SMTT(30), <1>1, <1>2, NrFacts DEF Counting
<1> HIDE DEF n, w, l, C
<1>4. ASSUME NEW q \in C
      PROVE  /\ q.seq_nr \in SeqNr /\ q.data \in Nat /\ w < q.data
             /\ Nr(q.seq_nr) = Nr(n) + (q.data - w - 1) /\ q.data <= w + k
  <2> DEFINE i == q.data - w - 1
  <2>1. /\ q.data \in Nat /\ w < q.data /\ q.data <= w + k
        /\ q.seq_nr = (n + i) % U16
    BY <1>1, <1>2, WriteQueues DEF n, w, C
  <2>2. i \in Nat /\ i < k
    BY <1>1, <1>2, <2>1
  <2> HIDE DEF i
  <2>3. Nr(n) + i <= U16
    BY <1>1, <1>2, <1>3, <2>2 DEF WideNumbers
  <2>4. q.seq_nr \in SeqNr /\ Nr(q.seq_nr) = Nr(n) + i
    BY <1>2, <2>1, <2>2, <2>3, NrAdvances
  <2> QED
    BY <2>1, <2>4 DEF i
<1> QED
  BY <1>3, <1>4 DEF n, w, l, C

LEMMA WriteCounting ==
  ASSUME WideNumbers, CarefulUse, CountingInv, NEW e \in Endpoint,
         NEW k \in WriteSizes, Write(e, k)
  PROVE  \A x \in Endpoint : Counting(x)'
<1> DEFINE o == Other(e)
           C == Chunks(e, k)
           n == seq_nr[e]
           w == written[e]
           l == Len(Taken(e))
<1>1. /\ TwoWayInv /\ TypeOK /\ Counting(e) /\ Counting(o) /\ o \in Endpoint /\ o # e
      /\ \A x \in Endpoint : x = e \/ x = o
      /\ state[e] = "Connected" /\ state' = state
  BY Sides DEF CountingInv, TwoWayInv, Write, CarefulUse
<1>2. /\ k \in Nat /\ w + k <= MaxChunks
      /\ written'[e] = w + k /\ written'[o] = written[o]
      /\ seq_nr'[e] = (n + k) % U16 /\ seq_nr'[o] = seq_nr[o]
  BY <1>1, Constants DEF Write, TypeOK
<1>3. /\ n \in SeqNr /\ w \in Nat /\ l \in Nat /\ l <= MaxChunks
      /\ MaxChunks \in Nat /\ U16 \in Nat
      /\ \A p \in DataOf(e) : p.seq_nr \in SeqNr
  BY <1>1, CountTypes
<1>4. DataOf(e)' \subseteq DataOf(e) \cup C /\ DataOf(o)' = DataOf(o)
      /\ Taken(e)' = Taken(e) /\ Taken(o)' = Taken(o)
  BY <1>1, WriteData
<1>5. Counting(o)'
  BY <1>1, <1>2, <1>4 DEF Counting
<1>6. CASE k = 0
  <2>1. C = {}
    <3>1. 0 .. k - 1 = {}
      BY <1>6
    <3> QED
      BY <3>1 DEF Chunks
  <2>2. seq_nr'[e] = n /\ written'[e] = w
    BY <1>2, <1>3, <1>6, NrFacts, NoWrap
  <2>3. Counting(e)'
    BY <1>1, <1>4, <2>1, <2>2 DEF Counting
  <2> QED
    BY <1>1, <1>5, <2>3
<1>7. CASE k > 0
  <2>1. /\ Nr(n) <= 2 + w + l /\ \A p \in DataOf(e) : Nr(p.seq_nr) < Nr(n)
        /\ Nr(n) \in Nat
    BY <1>7, WriteNumbers
  <2>2. ASSUME NEW q \in C
        PROVE  /\ q.seq_nr \in SeqNr /\ q.data \in Nat /\ w < q.data
               /\ Nr(q.seq_nr) = Nr(n) + (q.data - w - 1) /\ q.data <= w + k
    BY <1>7, <2>2, WriteNumbers
  <2> HIDE DEF n, w, l, C, o
  <2>3. ASSUME w + k < MaxChunks
        PROVE  /\ Nr(seq_nr'[e]) = Nr(n) + k
               /\ Nr(seq_nr'[e]) <= 2 + (w + k) + l
    <3>1. Nr(n) + k <= U16
      BY <1>2, <1>3, <2>1, <2>3 DEF WideNumbers
    <3>2. Nr(seq_nr'[e]) = Nr(n) + k
      BY <1>2, <1>3, <3>1, NrAdvances
    <3> QED
      BY <1>2, <1>3, <2>1, <3>2
  <2>4. \A p \in DataOf(e), q \in C : p.seq_nr # q.seq_nr
    <3> TAKE p \in DataOf(e), q \in C
    <3>1. /\ Nr(p.seq_nr) \in Nat /\ Nr(p.seq_nr) < Nr(n)
          /\ Nr(q.seq_nr) = Nr(n) + (q.data - w - 1) /\ q.data \in Nat /\ w < q.data
      BY <1>3, <2>1, <2>2, NrFacts
    <3> QED
      BY <1>3, <2>1, <3>1
  <2>5. \A p, q \in C : p.seq_nr = q.seq_nr => p.data = q.data
    <3> TAKE p, q \in C
    <3>1. /\ Nr(p.seq_nr) = Nr(n) + (p.data - w - 1) /\ p.data \in Nat
          /\ Nr(q.seq_nr) = Nr(n) + (q.data - w - 1) /\ q.data \in Nat
      BY <2>2
    <3> QED
      BY <1>3, <2>1, <3>1
  <2>6. \A p \in DataOf(e) \cup C : w + k < MaxChunks => Nr(p.seq_nr) < Nr(seq_nr'[e])
    <3> SUFFICES ASSUME NEW p \in DataOf(e) \cup C, w + k < MaxChunks
                 PROVE  Nr(p.seq_nr) < Nr(n) + k
      BY <2>3
    <3>1. CASE p \in DataOf(e)
      <4>1. Nr(p.seq_nr) \in Nat /\ Nr(p.seq_nr) < Nr(n)
        BY <1>3, <2>1, <3>1, NrFacts
      <4> QED
        BY <1>2, <2>1, <4>1
    <3>2. CASE p \in C
      <4>1. /\ p.data \in Nat /\ w < p.data /\ p.data <= w + k
            /\ Nr(p.seq_nr) = Nr(n) + (p.data - w - 1)
        BY <2>2, <3>2
      <4> QED
        BY <1>2, <1>3, <2>1, <4>1
    <3> QED
      BY <3>1, <3>2
  <2>7. \A p, q \in DataOf(e) : p.seq_nr = q.seq_nr => p.data = q.data
    BY <1>1 DEF Counting
  <2>8. Counting(e)'
    <3>1. state'[e] \notin Blank \cup {"SynSent"}
      BY <1>1 DEF Blank
    <3>2. state'[e] = "Connected" /\ written'[e] < MaxChunks =>
            /\ Nr(seq_nr'[e]) <= 2 + written'[e] + Len(Taken(e)')
            /\ \A p \in DataOf(e)' : Nr(p.seq_nr) < Nr(seq_nr'[e])
      BY <1>2, <1>4, <2>3, <2>6 DEF l
    <3>3. \A p, q \in DataOf(e)' : p.seq_nr = q.seq_nr => p.data = q.data
      BY <1>4, <2>4, <2>5, <2>7
    <3> QED
      BY <3>1, <3>2, <3>3 DEF Counting
  <2> QED
    BY <1>1, <1>5, <2>8
<1> QED
  BY <1>2, <1>6, <1>7

LEMMA CountingStep == WideNumbers /\ CarefulUse /\ CountingInv /\ [Next]_vars => CountingInv'
<1> SUFFICES ASSUME WideNumbers, CarefulUse, CountingInv, [Next]_vars PROVE CountingInv'
  OBVIOUS
<1>1. TwoWayInv /\ LowInv /\ TwoWayInv' /\ LowInv' /\ TypeOK'
  BY TwoWayStep DEF CountingInv, TwoWayInv
<1>2. ASSUME NEW e \in Endpoint, NEW cs, Moves(e, cs) PROVE CountingInv'
  BY <1>1, <1>2, MovesCounting DEF CountingInv
<1>3. ASSUME NEW e \in Endpoint, Opens(e) PROVE CountingInv'
  BY <1>1, <1>3, OpensCounting DEF CountingInv
<1>4. ASSUME NEW e \in Endpoint, ConnectCheck(e) \/ ConnectInsert(e) PROVE Opens(e)
  BY <1>1, <1>4, CheckKeeps, InsertKeeps
<1>5. ASSUME NEW e \in Endpoint, NEW p \in net[e], RecvSynNew(e, p) \/ RecvStateSynSent(e, p)
      PROVE  Opens(e)
  BY <1>1, <1>5, SynKeeps, StateKeeps
<1>6. ASSUME NEW e \in Endpoint, NEW k \in WriteSizes, Write(e, k) PROVE CountingInv'
  BY <1>1, <1>6, WriteCounting DEF CountingInv
<1>7. CASE UNCHANGED vars
  <2>1. PICK e \in Endpoint : TRUE
    BY Constants
  <2>2. Moves(e, << >>)
    BY <1>1, <1>7, IdleMoves
  <2> QED
    BY <1>2, <2>2
<1>8. CASE Next
  <2>1. PICK e \in Endpoint :
          \/ ConnectCheck(e) \/ ConnectInsert(e) \/ \E k \in WriteSizes : Write(e, k)
          \/ SendFin(e) \/ RecvError(e)
          \/ \E p \in net[e] : Receive(e, p) \/ Lose(e, p)
    BY <1>8 DEF Next
  <2> QED
    BY <1>1, <1>2, <1>3, <1>4, <1>5, <1>6, <2>1, StepCases
<1> QED
  BY <1>7, <1>8

LEMMA CountingInit == Init => CountingInv
<1> SUFFICES ASSUME Init PROVE CountingInv
  OBVIOUS
<1>1. TwoWayInv /\ LowInv
  BY TwoWayInit, LowInit
<1>2. ASSUME NEW e \in Endpoint
      PROVE  state[e] = "NoPeer" /\ seq_nr[e] = 1 /\ DataOf(e) = {}
  BY Sides DEF Init, DataOf
<1> QED
  BY <1>1, <1>2 DEF CountingInv, Counting

THEOREM CountingInvHolds ==
  ASSUME CarefulUse, WideNumbers
  PROVE  Spec => []CountingInv
<1>1. Init => CountingInv
  BY CountingInit
<1>2. CountingInv /\ [Next]_vars => CountingInv'
  BY CountingStep
<1> QED
  BY <1>1, <1>2, PTL DEF Spec

\* With more numbers than both sides write chunks, a number that is about stands
\* for one chunk, although seq_nr also counts what an endpoint receives.
THEOREM NumberMeansChunk ==
  ASSUME CarefulUse, WideNumbers
  PROVE  Spec => []SeqIdentifiesChunk
<1>1. CountingInv => SeqIdentifiesChunk
  BY DEF CountingInv, Counting, SeqIdentifiesChunk
<1> QED
  BY <1>1, CountingInvHolds, PTL
-----------------------------------------------------------------------------
(* The third invariant: chunks are taken in the order of writing.          *)

\* Facts of types the ordering steps share.
LEMMA OrderTypes ==
  ASSUME TwoWayInv, NEW e \in Endpoint
  PROVE  /\ written[e] \in Nat /\ last_acked[e] \in Nat /\ Len(Taken(e)) \in Nat
         /\ \A p \in DataOf(e) :
              /\ p.seq_nr \in Nat /\ Nr(p.seq_nr) \in Nat /\ p.seq_nr <= Nr(p.seq_nr)
              /\ p.seq_nr >= 1 => Nr(p.seq_nr) = p.seq_nr
              /\ p.data \in Nat /\ p.data <= written[e]
         /\ \A i \in 1 .. Len(Taken(e)) :
              Taken(e)[i] \in Nat /\ Taken(e)[i] <= written[Other(e)]
<1>1. TypeOK /\ Numbering(e) /\ Receiving(e) /\ Other(e) \in Endpoint
  BY Sides DEF TwoWayInv
<1>2. written[e] \in Nat /\ last_acked[e] \in Nat /\ written[Other(e)] \in Nat
  BY <1>1, Constants DEF TypeOK, SeqNr
<1>3. ASSUME NEW p \in DataOf(e)
      PROVE  /\ p.seq_nr \in Nat /\ Nr(p.seq_nr) \in Nat /\ p.seq_nr <= Nr(p.seq_nr)
             /\ p.seq_nr >= 1 => Nr(p.seq_nr) = p.seq_nr
  <2>1. p.seq_nr \in SeqNr
    BY CountTypes
  <2>2. p.seq_nr \in Nat /\ p.seq_nr < U16 /\ U16 \in Nat
    BY <2>1, NrFacts, Constants
  <2> QED
    BY <2>2 DEF Nr
<1>4. \A p \in DataOf(e) : p.data \in Nat /\ p.data <= written[e]
  BY <1>1, <1>2 DEF Numbering
<1>5. \A i \in 1 .. Len(Taken(e)) :
        Taken(e)[i] \in Nat /\ Taken(e)[i] <= written[Other(e)]
  BY <1>1, <1>2 DEF Receiving
<1> QED
  BY <1>1, <1>2, <1>3, <1>4, <1>5, TakenType

LEMMA MovesOrdering ==
  ASSUME TwoWayInv, TwoWayInv', \A x \in Endpoint : Ordering(x),
         NEW e \in Endpoint, NEW cs, Moves(e, cs)
  PROVE  \A x \in Endpoint : Ordering(x)'
<1> DEFINE o == Other(e)
           t == Taken(e)
           la == last_acked[e]
<1>1. /\ Ordering(e) /\ Ordering(o) /\ o \in Endpoint /\ Other(o) = e
      /\ \A x \in Endpoint : x = e \/ x = o
  BY Sides
<1>2. DataOf(e)' \subseteq DataOf(e) /\ DataOf(o)' \subseteq DataOf(o)
  BY MovesData
<1>3. Ordering(o)'
  <2>1. /\ state'[o] = state[o] /\ Taken(o)' = Taken(o) /\ last_acked'[o] = last_acked[o]
    BY DEF Moves
  <2> QED
    BY <1>1, <1>2, <2>1 DEF Ordering
<1>4. /\ t \in Seq(0 .. MaxChunks) /\ cs \in Seq(0 .. MaxChunks) /\ Len(t) \in Nat
      /\ Len(cs) \in Nat /\ Taken(e)' = t \o cs /\ la \in Nat /\ last_acked'[e] \in Nat
  <2>1. TypeOK /\ cs \in Seq(0 .. MaxChunks) /\ Taken(e)' = t \o cs
    BY DEF TwoWayInv, Moves
  <2>2. last_acked'[e] \in Nat
    BY DEF TwoWayInv, TypeOK, SeqNr
  <2> QED
    BY <2>1, <2>2, TakenType, LenProperties, OrderTypes
<1>5. ASSUME NEW p \in DataOf(o)
      PROVE  /\ p.seq_nr \in Nat /\ Nr(p.seq_nr) \in Nat /\ p.seq_nr <= Nr(p.seq_nr)
             /\ p.seq_nr >= 1 => Nr(p.seq_nr) = p.seq_nr
             /\ p.data \in Nat
  BY <1>1, OrderTypes
<1>6. \A i \in 1 .. Len(t) : t[i] \in Nat
  BY OrderTypes
<1> HIDE DEF o, t, la
<1>7. /\ Len(t \o cs) = Len(t) + Len(cs)
      /\ \A i \in 1 .. Len(t) : (t \o cs)[i] = t[i]
      /\ \A j \in 1 .. Len(cs) : (t \o cs)[Len(t) + j] = cs[j]
  BY <1>4, ConcatProperties
<1>8. \A i \in 1 .. Len(t \o cs) :
        i \in 1 .. Len(t) \/ \E j \in 1 .. Len(cs) : i = Len(t) + j
  <2> TAKE i \in 1 .. Len(t \o cs)
  <2>1. i \in Nat /\ 1 <= i /\ i <= Len(t) + Len(cs)
    BY <1>4, <1>7
  <2>2. CASE i <= Len(t)
    BY <1>4, <2>1, <2>2
  <2>3. CASE i > Len(t)
    <3>1. i - Len(t) \in 1 .. Len(cs) /\ i = Len(t) + (i - Len(t))
      BY <1>4, <2>1, <2>3
    <3> QED
      BY <3>1
  <2> QED
    BY <1>4, <2>1, <2>2, <2>3
\* A chunk of cs, and what is known of the packets up to it.
<1>9. ASSUME NEW j \in 1 .. Len(cs)
      PROVE  /\ state[e] = "Connected" /\ j \in Nat /\ 1 <= j /\ j <= Len(cs)
             /\ cs[j] \in Nat
             /\ \E q \in DataOf(o) : q.data = cs[j] /\ q.seq_nr = la + j
             /\ \A p \in DataOf(o) : p.data <= cs[j] => p.seq_nr <= la + j
  <2>1. state[e] = "Connected" /\ j \in Nat /\ 1 <= j /\ j <= Len(cs)
    BY <1>4, <1>9, EmptySeq DEF Moves
  <2>2. PICK q \in DataOf(o) : q.data = cs[j] /\ q.seq_nr = la + j
    BY <1>9 DEF Moves, o, la
  <2>3. Nr(q.seq_nr) = la + j
    BY <1>4, <1>5, <2>1, <2>2
  <2>4. ASSUME NEW p \in DataOf(o), p.data <= cs[j] PROVE p.seq_nr <= la + j
    <3>1. Nr(p.seq_nr) <= Nr(q.seq_nr)
      BY <1>1, <2>2, <2>4 DEF Ordering
    <3> QED
      BY <1>4, <1>5, <2>1, <2>3, <3>1
  <2> QED
    BY <1>5, <2>1, <2>2, <2>4
<1>10. ASSUME NEW i \in 1 .. Len(t), NEW j \in 1 .. Len(cs)
       PROVE  t[i] < cs[j]
  <2>1. PICK q \in DataOf(o) : q.data = cs[j] /\ q.seq_nr = la + j
    BY <1>9
  <2>2. q.data <= t[i] => q.seq_nr <= la
    BY <1>1, <1>9 DEF Ordering, t, o, la
  <2>3. j \in Nat /\ 1 <= j /\ cs[j] \in Nat /\ t[i] \in Nat
    BY <1>6, <1>9
  <2> QED
    BY <1>4, <2>1, <2>2, <2>3
<1>11. ASSUME NEW i \in 1 .. Len(cs), NEW j \in 1 .. Len(cs), i < j
       PROVE  cs[i] < cs[j]
  <2>1. PICK q \in DataOf(o) : q.data = cs[j] /\ q.seq_nr = la + j
    BY <1>9
  <2>2. q.data <= cs[i] => q.seq_nr <= la + i
    BY <1>9
  <2>3. /\ i \in Nat /\ j \in Nat /\ cs[i] \in Nat /\ cs[j] \in Nat
    BY <1>9
  <2> QED
    BY <1>4, <1>11, <2>1, <2>2, <2>3
<1>12. ASSUME NEW i \in 1 .. Len(t \o cs), NEW j \in 1 .. Len(t \o cs), i < j
       PROVE  (t \o cs)[i] < (t \o cs)[j]
  <2>1. CASE i \in 1 .. Len(t) /\ j \in 1 .. Len(t)
    <3>1. t[i] < t[j]
      BY <1>1, <1>12, <2>1 DEF Ordering, t
    <3> QED
      BY <1>7, <2>1, <3>1
  <2>2. ASSUME i \in 1 .. Len(t), NEW l \in 1 .. Len(cs), j = Len(t) + l
        PROVE  (t \o cs)[i] < (t \o cs)[j]
    BY <1>7, <1>10, <2>2
  <2>3. ASSUME NEW k \in 1 .. Len(cs), i = Len(t) + k, NEW l \in 1 .. Len(cs), j = Len(t) + l
        PROVE  (t \o cs)[i] < (t \o cs)[j]
    <3>1. k < l
      BY <1>4, <1>9, <1>12, <2>3
    <3> QED
      BY <1>7, <1>11, <2>3, <3>1
  <2>4. ~ (j \in 1 .. Len(t) /\ \E k \in 1 .. Len(cs) : i = Len(t) + k)
    BY <1>4, <1>12
  <2> QED
    BY <1>8, <2>1, <2>2, <2>3, <2>4
<1>13. ASSUME state'[e] = "Connected", NEW p \in DataOf(o)', NEW i \in 1 .. Len(t \o cs),
              p.data <= (t \o cs)[i]
       PROVE  p.seq_nr <= last_acked'[e]
  <2>1. /\ p \in DataOf(o) /\ state[e] = "Connected"
        /\ last_acked'[e] >= la + Len(cs)
    BY <1>2, <1>13 DEF Moves, la
  <2>2. p.seq_nr \in Nat
    BY <1>5, <2>1
  <2>3. CASE i \in 1 .. Len(t)
    <3>1. p.data <= t[i]
      BY <1>7, <1>13, <2>3
    <3>2. p.seq_nr <= la
      BY <1>1, <2>1, <2>3, <3>1 DEF Ordering, t, o, la
    <3> QED
      BY <1>4, <2>1, <2>2, <3>2
  <2>4. ASSUME NEW j \in 1 .. Len(cs), i = Len(t) + j PROVE p.seq_nr <= last_acked'[e]
    <3>1. p.seq_nr <= la + j /\ j \in Nat /\ j <= Len(cs)
      BY <1>7, <1>9, <1>13, <2>1, <2>4
    <3> QED
      BY <1>4, <2>1, <2>2, <3>1
  <2> QED
    BY <1>8, <2>3, <2>4
<1>14. Ordering(e)'
  <2>1. \A p, q \in DataOf(e)' : p.data <= q.data => Nr(p.seq_nr) <= Nr(q.seq_nr)
    BY <1>1, <1>2 DEF Ordering
  <2> QED
    BY <1>4, <1>12, <1>13, <2>1 DEF Ordering, o
<1> QED
  BY <1>1, <1>3, <1>14

LEMMA OpensOrdering ==
  ASSUME TwoWayInv, \A x \in Endpoint : Ordering(x), NEW e \in Endpoint, Opens(e)
  PROVE  \A x \in Endpoint : Ordering(x)'
<1>1. /\ TypeOK
      /\ \A x \in Endpoint : Other(x) \in Endpoint /\ Ordering(x) /\ DataOf(x)' \subseteq DataOf(x)
  BY Sides DEF Opens, TwoWayInv
<1>2. ASSUME NEW x \in Endpoint, state'[x] = state[x], last_acked'[x] = last_acked[x],
             Taken(x)' = Taken(x)
      PROVE  Ordering(x)'
  BY <1>1, <1>2 DEF Ordering
<1>3. ASSUME state'[e] = "SynSent", Taken(e)' = delivered[e] PROVE Ordering(e)'
  <2>1. /\ Len(delivered[e]) <= Len(Taken(e))
        /\ \A i \in 1 .. Len(delivered[e]) : Taken(e)[i] = delivered[e][i]
        /\ Len(delivered[e]) \in Nat /\ Len(Taken(e)) \in Nat
    BY <1>1, DeliveredIsTaken
  <2>2. \A i, j \in 1 .. Len(delivered[e]) : i < j => delivered[e][i] < delivered[e][j]
    <3>1. \A i \in 1 .. Len(delivered[e]) : i \in 1 .. Len(Taken(e))
      BY <2>1
    <3>2. \A i, j \in 1 .. Len(Taken(e)) : i < j => Taken(e)[i] < Taken(e)[j]
      BY <1>1 DEF Ordering
    <3> QED
      BY <2>1, <3>1, <3>2
  <2> QED
    BY <1>1, <1>3, <2>2 DEF Ordering
<1>4. ASSUME Unused(e), Taken(e)' = Taken(e) PROVE Ordering(e)'
  <2>1. Taken(e)' = << >> /\ Len(<< >>) = 0
    BY <1>4, EmptySeq DEF Unused
  <2> QED
    BY <1>1, <2>1 DEF Ordering
<1> QED
  BY <1>2, <1>3, <1>4 DEF Opens

LEMMA WriteOrdering ==
  ASSUME WideNumbers, CarefulUse, CountingInv, \A x \in Endpoint : Ordering(x),
         NEW e \in Endpoint, NEW k \in WriteSizes, Write(e, k)
  PROVE  \A x \in Endpoint : Ordering(x)'
<1> DEFINE o == Other(e)
           C == Chunks(e, k)
           n == seq_nr[e]
           w == written[e]
<1>1. /\ TwoWayInv /\ TypeOK /\ Ordering(e) /\ Ordering(o) /\ o \in Endpoint
      /\ Other(o) = e /\ \A x \in Endpoint : x = e \/ x = o
      /\ k \in Nat /\ w \in Nat
      /\ state' = state /\ last_acked' = last_acked
  BY Sides, Constants, OrderTypes DEF CountingInv, TwoWayInv, Write, ackVars
<1>2. DataOf(e)' \subseteq DataOf(e) \cup C /\ DataOf(o)' = DataOf(o)
      /\ Taken(e)' = Taken(e) /\ Taken(o)' = Taken(o)
  BY <1>1, WriteData
<1>3. Ordering(e)' \/ k > 0
  <2>1. k = 0 => C = {}
    <3>1. k = 0 => 0 .. k - 1 = {}
      OBVIOUS
    <3> QED
      BY <3>1 DEF Chunks
  <2> QED
    BY <1>1, <1>2, <2>1 DEF Ordering
<1>4. ASSUME NEW q \in C
      PROVE  q.data \in Nat /\ w < q.data
  BY <1>1, <1>4, WriteQueues
<1>5. ASSUME k > 0
      PROVE  \A p, q \in DataOf(e) \cup C : p.data <= q.data => Nr(p.seq_nr) <= Nr(q.seq_nr)
  <2> SUFFICES ASSUME NEW p \in DataOf(e) \cup C, NEW q \in DataOf(e) \cup C, p.data <= q.data
               PROVE  Nr(p.seq_nr) <= Nr(q.seq_nr)
    OBVIOUS
  <2>1. Nr(n) \in Nat
    BY <1>5, WriteNumbers
  <2>2. ASSUME NEW r \in DataOf(e)
        PROVE  /\ Nr(r.seq_nr) \in Nat /\ Nr(r.seq_nr) < Nr(n)
               /\ r.data \in Nat /\ r.data <= w
    BY <1>1, <1>5, <2>2, WriteNumbers, OrderTypes
  <2>3. ASSUME NEW r \in C
        PROVE  /\ Nr(r.seq_nr) = Nr(n) + (r.data - w - 1)
               /\ r.data \in Nat /\ w < r.data
    BY <1>5, <2>3, WriteNumbers
  <2> HIDE DEF n, w, C
  <2>4. CASE p \in DataOf(e) /\ q \in DataOf(e)
    BY <1>1, <2>4 DEF Ordering
  <2>5. CASE p \in DataOf(e) /\ q \in C
    BY <1>1, <2>1, <2>2, <2>3, <2>5
  <2>6. CASE p \in C /\ q \in DataOf(e)
    BY <1>1, <2>2, <2>3, <2>6
  <2>7. CASE p \in C /\ q \in C
    BY <1>1, <2>1, <2>3, <2>7
  <2> QED
    BY <2>4, <2>5, <2>6, <2>7
<1>6. Ordering(e)'
  <2>1. k > 0 => \A p, q \in DataOf(e)' : p.data <= q.data => Nr(p.seq_nr) <= Nr(q.seq_nr)
    BY <1>2, <1>5
  <2> QED
    BY <1>1, <1>2, <1>3, <2>1 DEF Ordering
<1>7. Ordering(o)'
  <2>1. ASSUME NEW p \in C, NEW i \in 1 .. Len(Taken(o)), p.data <= Taken(o)[i]
        PROVE  FALSE
    <3>1. Taken(o)[i] \in Nat /\ Taken(o)[i] <= w
      BY <1>1, OrderTypes
    <3> QED
      BY <1>1, <1>4, <2>1, <3>1
  <2> QED
    BY <1>1, <1>2, <2>1 DEF Ordering
<1> QED
  BY <1>1, <1>6, <1>7

LEMMA OrderingStep == WideNumbers /\ CarefulUse /\ OrderingInv /\ [Next]_vars => OrderingInv'
<1> SUFFICES ASSUME WideNumbers, CarefulUse, OrderingInv, [Next]_vars PROVE OrderingInv'
  OBVIOUS
<1>1. /\ CountingInv /\ TwoWayInv /\ LowInv /\ \A x \in Endpoint : Ordering(x)
      /\ CountingInv' /\ TwoWayInv' /\ TypeOK'
  BY CountingStep DEF OrderingInv, CountingInv, TwoWayInv
<1>2. ASSUME NEW e \in Endpoint, NEW cs, Moves(e, cs) PROVE OrderingInv'
  BY <1>1, <1>2, MovesOrdering DEF OrderingInv
<1>3. ASSUME NEW e \in Endpoint, Opens(e) PROVE OrderingInv'
  BY <1>1, <1>3, OpensOrdering DEF OrderingInv
<1>4. ASSUME NEW e \in Endpoint, ConnectCheck(e) \/ ConnectInsert(e) PROVE Opens(e)
  BY <1>1, <1>4, CheckKeeps, InsertKeeps
<1>5. ASSUME NEW e \in Endpoint, NEW p \in net[e], RecvSynNew(e, p) \/ RecvStateSynSent(e, p)
      PROVE  Opens(e)
  BY <1>1, <1>5, SynKeeps, StateKeeps
<1>6. ASSUME NEW e \in Endpoint, NEW k \in WriteSizes, Write(e, k) PROVE OrderingInv'
  BY <1>1, <1>6, WriteOrdering DEF OrderingInv
<1>7. CASE UNCHANGED vars
  <2>1. PICK e \in Endpoint : TRUE
    BY Constants
  <2>2. Moves(e, << >>)
    BY <1>1, <1>7, IdleMoves
  <2> QED
    BY <1>2, <2>2
<1>8. CASE Next
  <2>1. PICK e \in Endpoint :
          \/ ConnectCheck(e) \/ ConnectInsert(e) \/ \E k \in WriteSizes : Write(e, k)
          \/ SendFin(e) \/ RecvError(e)
          \/ \E p \in net[e] : Receive(e, p) \/ Lose(e, p)
    BY <1>8 DEF Next
  <2> QED
    BY <1>1, <1>2, <1>3, <1>4, <1>5, <1>6, <2>1, StepCases
<1> QED
  BY <1>7, <1>8

LEMMA OrderingInit == Init => OrderingInv
<1> SUFFICES ASSUME Init PROVE OrderingInv
  OBVIOUS
<1>1. CountingInv
  BY CountingInit
<1>2. ASSUME NEW e \in Endpoint
      PROVE  state[e] = "NoPeer" /\ DataOf(e) = {} /\ Taken(e) = << >>
  BY Sides, EmptySeq, ConcatEmptySeq DEF Init, DataOf, Taken
<1>3. Len(<< >>) = 0
  BY EmptySeq
<1> QED
  BY <1>1, <1>2, <1>3 DEF OrderingInv, Ordering

\* Later chunks bear greater numbers, and last_acked of a connected endpoint is
\* past those of all chunks before one it has taken (send_packets, handle_packet).
THEOREM OrderingInvHolds ==
  ASSUME CarefulUse, WideNumbers
  PROVE  Spec => []OrderingInv
<1>1. Init => OrderingInv
  BY OrderingInit
<1>2. OrderingInv /\ [Next]_vars => OrderingInv'
  BY OrderingStep
<1> QED
  BY <1>1, <1>2, PTL DEF Spec

-----------------------------------------------------------------------------
(* Every step is a step of the stream of either direction, or of none.     *)

\* Only a write counts chunks, and only data in order reaches the channel.
LEMMA StreamSteps ==
  ASSUME TypeOK, [Next]_vars
  PROVE  \/ written' = written /\ delivered' = delivered
         \/ /\ delivered' = delivered
            /\ \E e \in Endpoint, k \in WriteSizes :
                 written' = [written EXCEPT ![e] = @ + k]
         \/ /\ written' = written
            /\ \E e \in Endpoint, cs \in Seq(0 .. MaxChunks) :
                 delivered' = [delivered EXCEPT ![e] = @ \o cs]
<1>1. CASE UNCHANGED vars
  BY <1>1 DEF vars, sendVars, recvVars
<1>2. ASSUME NEW e \in Endpoint, NEW k \in WriteSizes, Write(e, k)
      PROVE  delivered' = delivered /\ written' = [written EXCEPT ![e] = @ + k]
  BY <1>2 DEF Write, recvVars
<1>3. ASSUME NEW e \in Endpoint, ConnectCheck(e) \/ ConnectInsert(e) \/ SendFin(e) \/ RecvError(e)
      PROVE  written' = written /\ delivered' = delivered
  BY <1>3 DEF ConnectCheck, ConnectInsert, SendFin, RecvError, sendVars, recvVars
<1>4. ASSUME NEW e \in Endpoint, NEW p \in net[e],
             Receive(e, p) \/ Lose(e, p), ~ RecvDataInOrder(e, p)
      PROVE  written' = written /\ delivered' = delivered
  BY <1>4 DEF Receive, Lose, RecvUndecodable, RecvSynNew, RecvSynOther, RecvStateSynSent,
              RecvState, StatePanic, RecvAck, AckPanic, RecvDataAhead, RecvDataOld, DataPanic,
              RecvFin, RecvReset, RecvUnhandled, sendVars, recvVars
<1>5. ASSUME NEW e \in Endpoint, NEW p \in net[e], RecvDataInOrder(e, p)
      PROVE  /\ written' = written
             /\ \E cs \in Seq(0 .. MaxChunks) : delivered' = [delivered EXCEPT ![e] = @ \o cs]
  <2> DEFINE n == p.seq_nr
             D == Drained(e, n)
  <2>1. PICK d \in SeqNr :
          IsRun(D, n, d) /\ Deliver(e, <<p.data>> \o Run(D, n, d))
    BY <1>5 DEF RecvDataInOrder
  <2>2. /\ n \in SeqNr /\ p.data \in 0 .. MaxChunks /\ D \in SUBSET Packet
        /\ delivered \in [Endpoint -> Seq(0 .. MaxChunks)]
        /\ delivered[e] \in Seq(0 .. MaxChunks)
        /\ incoming_buffer[e] \in Seq(0 .. MaxChunks)
    <3>1. p \in Packet
      BY DEF TypeOK
    <3> QED
      BY <3>1, PacketFields DEF TypeOK, Drained
  <2>3. Run(D, n, d) \in Seq(0 .. MaxChunks) /\ <<p.data>> \in Seq(0 .. MaxChunks)
    BY <2>1, <2>2, RunType
  <2> DEFINE chunks == <<p.data>> \o Run(D, n, d)
             cs == incoming_buffer[e] \o chunks
  <2>4. chunks \in Seq(0 .. MaxChunks)
    BY <2>3, ConcatProperties
  <2>5. Deliver(e, chunks)
    BY <2>1
  <2> HIDE DEF n, D, chunks
  <2>6. cs \in Seq(0 .. MaxChunks)
    BY <2>2, <2>4, ConcatProperties
  <2>7. (delivered[e] \o incoming_buffer[e]) \o chunks = delivered[e] \o cs
    BY <2>2, <2>4, Regroup
  <2>8. delivered[e] \o << >> = delivered[e] /\ << >> \in Seq(0 .. MaxChunks)
    BY <2>2, ConcatEmptySeq, EmptySeq
  <2>9. CASE delivered' = [delivered EXCEPT ![e] = @ \o incoming_buffer[e] \o chunks]
    <3>1. delivered' = [delivered EXCEPT ![e] = @ \o cs]
      BY <2>2, <2>7, <2>9
    <3> QED
      BY <1>5, <2>6, <3>1 DEF RecvDataInOrder
  <2>10. CASE delivered' = delivered
    <3>1. delivered' = [delivered EXCEPT ![e] = @ \o << >>]
      BY <2>2, <2>8, <2>10
    <3> QED
      BY <1>5, <2>8, <3>1 DEF RecvDataInOrder
  <2> QED
    BY <2>5, <2>9, <2>10 DEF Deliver
<1>6. CASE Next
  <2>1. PICK e \in Endpoint :
          \/ ConnectCheck(e) \/ ConnectInsert(e) \/ \E k \in WriteSizes : Write(e, k)
          \/ SendFin(e) \/ RecvError(e)
          \/ \E p \in net[e] : Receive(e, p) \/ Lose(e, p)
    BY <1>6 DEF Next
  <2> QED
    BY <1>2, <1>3, <1>4, <1>5, <2>1
<1> QED
  BY <1>1, <1>6

\* What the application of e has was written by the other one, in this order.
InOrder(e) ==
  /\ Len(delivered[e]) <= written[Other(e)]
  /\ \A i \in 1 .. Len(delivered[e]) : delivered[e][i] \in 1 .. written[Other(e)]
  /\ \A i, j \in 1 .. Len(delivered[e]) : i < j => delivered[e][i] < delivered[e][j]

LEMMA OrderingShows == OrderingInv => \A e \in Endpoint : InOrder(e)
<1> SUFFICES ASSUME OrderingInv, NEW e \in Endpoint PROVE InOrder(e)
  OBVIOUS
<1>1. TwoWayInv /\ TypeOK /\ Receiving(e) /\ Ordering(e) /\ Other(e) \in Endpoint
  BY Sides DEF OrderingInv, CountingInv, TwoWayInv
<1>2. /\ Len(delivered[e]) <= Len(Taken(e))
      /\ \A i \in 1 .. Len(delivered[e]) : Taken(e)[i] = delivered[e][i]
      /\ Len(delivered[e]) \in Nat /\ Len(Taken(e)) \in Nat
  BY <1>1, DeliveredIsTaken
<1>3. Len(Taken(e)) <= written[Other(e)] /\ written[Other(e)] \in Nat
  BY <1>1, TakenBound, OrderTypes
<1>4. \A i \in 1 .. Len(delivered[e]) : i \in 1 .. Len(Taken(e))
  BY <1>2
<1>5. /\ \A i \in 1 .. Len(Taken(e)) : Taken(e)[i] \in 1 .. written[Other(e)]
      /\ \A i, j \in 1 .. Len(Taken(e)) : i < j => Taken(e)[i] < Taken(e)[j]
  BY <1>1 DEF Receiving, Ordering
<1>6. Len(delivered[e]) <= written[Other(e)]
  BY <1>2, <1>3
<1> QED
  BY <1>2, <1>4, <1>5, <1>6 DEF InOrder

LEMMA OrderingShowsNext == OrderingInv' => (\A e \in Endpoint : InOrder(e))'
BY OrderingShows, PTL

\* One direction: what e receives, and what the other side writes.
LEMMA DirectionSteps ==
  ASSUME TypeOK, OrderingInv', [Next]_vars, NEW e \in Endpoint
  PROVE  LET w == written[Other(e)]
             d == delivered[e]
         IN  \/ UNCHANGED <<w, d>>
             \/ \E k \in WriteSizes : w' = w + k /\ d' = d
             \/ \E n \in 1 .. w : \E cs \in [1 .. n -> 1 .. w] :
                  /\ \A i, j \in 1 .. Len(d \o cs) : i < j => (d \o cs)[i] < (d \o cs)[j]
                  /\ d' = d \o cs /\ w' = w
<1> DEFINE o == Other(e)
           w == written[o]
           d == delivered[e]
<1>1. /\ o \in Endpoint /\ \A x \in Endpoint : x = e \/ x = o
      /\ written \in [Endpoint -> 0 .. MaxChunks] /\ w \in Nat
      /\ delivered \in [Endpoint -> Seq(0 .. MaxChunks)] /\ d \in Seq(0 .. MaxChunks)
  BY Sides, Constants DEF TypeOK
<1>2. ASSUME NEW x \in Endpoint, NEW k \in WriteSizes, delivered' = delivered,
             written' = [written EXCEPT ![x] = @ + k]
      PROVE  d' = d /\ (w' = w \/ w' = w + k)
  BY <1>1, <1>2
<1>3. ASSUME NEW x \in Endpoint, NEW cs \in Seq(0 .. MaxChunks), written' = written,
             delivered' = [delivered EXCEPT ![x] = @ \o cs], d' # d
      PROVE  /\ d' = d \o cs /\ w' = w
             /\ \E n \in 1 .. w : cs \in [1 .. n -> 1 .. w]
             /\ \A i, j \in 1 .. Len(d \o cs) : i < j => (d \o cs)[i] < (d \o cs)[j]
  <2>1. d' = d \o cs /\ w' = w
    BY <1>1, <1>3
  <2>2. InOrder(e)'
    BY OrderingShowsNext
  <2>3. /\ Len(d \o cs) <= w
        /\ \A i \in 1 .. Len(d \o cs) : (d \o cs)[i] \in 1 .. w
        /\ \A i, j \in 1 .. Len(d \o cs) : i < j => (d \o cs)[i] < (d \o cs)[j]
    BY <2>1, <2>2 DEF InOrder
  <2> HIDE DEF d, w
  <2>4. /\ Len(d) \in Nat /\ Len(cs) \in Nat /\ Len(d \o cs) = Len(d) + Len(cs)
        /\ \A j \in 1 .. Len(cs) : (d \o cs)[Len(d) + j] = cs[j]
    BY <1>1, <1>3, LenProperties, ConcatProperties
  <2>5. Len(cs) \in 1 .. w
    <3>1. cs # << >>
      BY <1>1, <1>3, <2>1, ConcatEmptySeq
    <3>2. Len(cs) # 0
      BY <3>1, EmptySeq
    <3> QED
      BY <1>1, <2>3, <2>4, <3>2
  <2>6. cs \in [1 .. Len(cs) -> 1 .. w]
    <3>1. cs \in [1 .. Len(cs) -> 0 .. MaxChunks]
      BY LenProperties
    <3>2. \A j \in 1 .. Len(cs) : cs[j] \in 1 .. w
      <4> TAKE j \in 1 .. Len(cs)
      <4>1. Len(d) + j \in 1 .. Len(d \o cs)
        BY <2>4
      <4> QED
        BY <2>3, <2>4, <4>1
    <3> QED
      BY <3>1, <3>2
  <2> QED
    BY <2>1, <2>3, <2>5, <2>6
<1> HIDE DEF w, d
<1>4. CASE written' = written /\ delivered' = delivered
  BY <1>4 DEF w, d, o
<1>5. CASE /\ delivered' = delivered
           /\ \E x \in Endpoint, k \in WriteSizes : written' = [written EXCEPT ![x] = @ + k]
  BY <1>2, <1>5 DEF w, d, o
<1>6. CASE /\ written' = written
           /\ \E x \in Endpoint, cs \in Seq(0 .. MaxChunks) :
                delivered' = [delivered EXCEPT ![x] = @ \o cs]
  <2>1. CASE d' = d
    BY <1>6, <2>1 DEF w, d, o
  <2>2. CASE d' # d
    <3>1. PICK x \in Endpoint, cs \in Seq(0 .. MaxChunks) :
            delivered' = [delivered EXCEPT ![x] = @ \o cs]
      BY <1>6
    <3> QED
      BY <1>3, <1>6, <2>2, <3>1 DEF w, d, o
  <2> QED
    BY <2>1, <2>2
<1> QED
  BY <1>4, <1>5, <1>6, StreamSteps

LEMMA DirectionsInit == Init => FromClient!Init /\ FromServer!Init
BY Constants DEF Init, FromClient!Init, FromServer!Init, Endpoint

LEMMA DirectionsStep ==
  ASSUME TypeOK, OrderingInv', [Next]_vars
  PROVE  [FromClient!Next]_FromClient!vars /\ [FromServer!Next]_FromServer!vars
<1>1. /\ Client \in Endpoint /\ Server \in Endpoint
      /\ Other(Server) = Client /\ Other(Client) = Server
  BY EndpointAssumption DEF Endpoint, Other
<1>2. [FromClient!Next]_FromClient!vars
  BY <1>1, DirectionSteps
     DEF FromClient!Next, FromClient!vars, FromClient!Write, FromClient!Take,
         FromClient!Ascending
<1>3. [FromServer!Next]_FromServer!vars
  BY <1>1, DirectionSteps
     DEF FromServer!Next, FromServer!vars, FromServer!Write, FromServer!Take,
         FromServer!Ascending
<1> QED
  BY <1>2, <1>3

\* Both directions of a connection are streams that may skip chunks, but neither
\* reorder nor repeat them, although last_acked follows data and acks at once
\* (recv_packets_from, handle_packet).
THEOREM TwoWayRefines ==
  ASSUME CarefulUse, WideNumbers
  PROVE  Spec => ImplementsSkippingStream
<1>1. Init => FromClient!Init /\ FromServer!Init
  BY DirectionsInit
<1>2. OrderingInv /\ OrderingInv' /\ [Next]_vars =>
        [FromClient!Next]_FromClient!vars /\ [FromServer!Next]_FromServer!vars
  BY DirectionsStep DEF OrderingInv, CountingInv, TwoWayInv
<1> QED
  BY <1>1, <1>2, OrderingInvHolds, PTL
     DEF Spec, ImplementsSkippingStream, FromClient!Spec, FromServer!Spec
=============================================================================
