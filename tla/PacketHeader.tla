---------------------------- MODULE PacketHeader ----------------------------
(***************************************************************************)
(* The header of a packet as bytes: the struct the setters and getters     *)
(* overlay on them, its parser, and the reply to a packet, stamped with    *)
(* the clock.  The host is little-endian, the fields are not.              *)
(***************************************************************************)
EXTENDS Integers, Sequences

CONSTANTS
  Nibble,         \* values of half a byte (16)
  Micros,         \* microseconds of a second (1000000)
  U16Values, U32Values,   \* values given to the setters
  Times           \* times of the system clock, in microseconds since the epoch

B == Nibble * Nibble
Byte == 0 .. B - 1
\* The powers of B up to the fourth.
Powers == <<1, B, B * B, B * B * B, B * B * B * B>>
Power(k) == Powers[k + 1]
U32 == Power(4)
HeaderSize == 20

Data == 0
Fin == 1
State == 2
Reset == 3
Syn == 4
Ack == 5
PacketType == Data .. Ack

\* Where each field lies: its first byte, counted from 0, and its width.
Place ==
  [connection_id |-> <<2, 2>>, timestamp |-> <<4, 4>>, timestamp_difference |-> <<8, 4>>,
   wnd_size |-> <<12, 4>>, seq_nr |-> <<16, 2>>, ack_nr |-> <<18, 2>>]
Field == DOMAIN Place
First(f) == Place[f][1]
Width(f) == Place[f][2]

ASSUME HeaderAssumption ==
  /\ Nibble \in Nat /\ Nibble > Ack
  /\ Micros \in Nat \ {0} /\ Times \subseteq Nat
  /\ U16Values \subseteq 0 .. Power(2) - 1 /\ U32Values \subseteq 0 .. U32 - 1

VARIABLES
  header,      \* the bytes of the packet at hand, from 0
  now,         \* the system clock
  type, last   \* what type and fields were last set to

vars == <<header, now, type, last>>

Zero == [f \in Field |-> 0]
Default == [i \in 0 .. HeaderSize - 1 |-> IF i = 0 THEN 1 ELSE 0]

Init ==
  /\ header = Default /\ type = 0 /\ last = Zero
  /\ now \in Times

-----------------------------------------------------------------------------
(* Setters and getters.  The first byte of a field is its most significant.*)

Get(h, f) ==
  LET value[k \in 0 .. Width(f)] ==
        IF k = 0 THEN 0 ELSE value[k - 1] * B + h[First(f) + k - 1]
  IN  value[Width(f)]

SetFaulty(h, f, v) ==
  [i \in DOMAIN h |->
     IF i \in First(f) .. First(f) + Width(f)
     THEN (v \div Power(First(f) + Width(f) - i)) % B ELSE h[i]]
Set(h, f, v) ==
  [i \in DOMAIN h |->
     IF i \in First(f) .. First(f) + Width(f) - 1
     THEN (v \div Power(First(f) + Width(f) - 1 - i)) % B ELSE h[i]]

\* Byte 0 holds the type above the version, which every setter keeps.
GetType(h) == h[0] \div Nibble
GetVersion(h) == h[0] % Nibble
SetType(h, t) == [h EXCEPT ![0] = t * Nibble + GetVersion(h)]

\* PacketHeader::try_from puts the byte at offset i of a field at bit 8 * i of
\* a native integer, which a little-endian host lays out in the same order.
Native(h, f) ==
  LET sum[k \in 0 .. Width(f)] ==
        IF k = 0 THEN 0 ELSE sum[k - 1] + h[First(f) + k - 1] * Power(k - 1)
  IN  sum[Width(f)]
FieldAt(i) == CHOOSE f \in Field : i \in First(f) .. First(f) + Width(f) - 1
Reparsed(h) ==
  [i \in DOMAIN h |->
     IF i < 2 THEN h[i]
     ELSE (Native(h, FieldAt(i)) \div Power(i - First(FieldAt(i)))) % B]

-----------------------------------------------------------------------------
(* Time.                                                                   *)

\* Seconds and microseconds are reduced to a u32 each before they are added.
NowMicroseconds == ((((now \div Micros) * Micros) % U32) + (now % Micros)) % U32
AbsDiff(a, b) == IF a > b THEN a - b ELSE b - a

-----------------------------------------------------------------------------
NewPacket ==
  /\ header' = Default /\ type' = 0 /\ last' = Zero
  /\ UNCHANGED now

ChangeType(t) ==
  /\ header' = SetType(header, t) /\ type' = t
  /\ UNCHANGED <<now, last>>

SetField(f, v) ==
  /\ header' = Set(header, f, v)
  /\ last' = [last EXCEPT ![f] = v]
  /\ UNCHANGED <<now, type>>

\* The packet is parsed and its header written out again.
Reparse ==
  /\ GetVersion(header) = 1 /\ GetType(header) \in PacketType
  /\ header' = Reparsed(header)
  /\ UNCHANGED <<now, type, last>>

\* prepare_reply, with the clock's time and its distance from the timestamp of
\* the packet at hand.  The library answers what neither it nor its peer stamps.
ReplyTypes(t) ==
  CASE t = Data -> {Ack} [] t = Fin -> {State} [] t = Syn -> {State, Reset} [] OTHER -> {}
Reply(t, id, seq, ack) ==
  LET time == NowMicroseconds
      diff == AbsDiff(time, Get(header, "timestamp"))
      h1 == Set(Set(SetType(Default, t), "timestamp", time), "timestamp_difference", diff)
  IN  /\ t \in ReplyTypes(GetType(header)) /\ Get(header, "timestamp") = 0
      /\ header' = Set(Set(Set(h1, "connection_id", id), "seq_nr", seq), "ack_nr", ack)
      /\ last' = [Zero EXCEPT !.timestamp = now % U32, !.timestamp_difference = diff,
                              !.connection_id = id, !.seq_nr = seq, !.ack_nr = ack]
      /\ type' = t
      /\ UNCHANGED now

Tick ==
  /\ now' \in {t \in Times : t > now}
  /\ UNCHANGED <<header, type, last>>

Next ==
  \/ NewPacket \/ Reparse \/ Tick
  \/ \E t \in PacketType : ChangeType(t)
  \/ \E f \in {"connection_id", "seq_nr", "ack_nr"}, v \in U16Values : SetField(f, v)
  \/ \E f \in {"timestamp", "timestamp_difference", "wnd_size"}, v \in U32Values : SetField(f, v)
  \/ \E t \in PacketType, id, seq, ack \in U16Values : Reply(t, id, seq, ack)

Spec == Init /\ [][Next]_vars

-----------------------------------------------------------------------------
(* Properties.                                                             *)

\* Every field reads back what was last written to it, whatever was written
\* beside it and however often the header was parsed and written out; the
\* version stays 1, and the type is one that get_type can unwrap.
FieldsReadBack ==
  /\ \A f \in Field : Get(header, f) = last[f]
  /\ GetType(header) = type /\ type \in PacketType
  /\ GetVersion(header) = 1
=============================================================================
