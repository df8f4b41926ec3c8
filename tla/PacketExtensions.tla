-------------------------- MODULE PacketExtensions --------------------------
(***************************************************************************)
(* The bytes of one packet and the loops of packet.rs that walk its chain  *)
(* of extensions: check_extensions, which lets a datagram in, and the      *)
(* readers that trust it, ExtensionIterator, payload, set_sack, get_sack.  *)
(* A step is one pass of a loop.  The type of an extension stands before   *)
(* it, in the marker of the extension before or in byte 1 of the header:   *)
(*                                                                         *)
(*     header | next len data ... | next len data ... | payload            *)
(*                                                                         *)
(* `meant` keeps what the maker of the packet, or the last check it        *)
(* passed, holds its extensions and its payload to be.                     *)
(***************************************************************************)
EXTENDS Naturals, Sequences

CONSTANTS
  HeaderSize,     \* bytes of the header (20 in the code)
  Word,           \* unit of an extension's length (4)
  Nibble,         \* values of half a byte (16)
  LastType,       \* the largest packet type (5, Ack)
  Bytes,          \* byte values that occur in datagrams
  SackLengths, SackBytes,   \* the selective acks given to set_sack
  MaxDatagram, MaxLen       \* bounds on a datagram, and on a packet that grows

ByteMod == Nibble * Nibble
Byte == 0 .. ByteMod - 1
Blocks(lengths, values) == UNION {[1 .. n -> values] : n \in lengths}
Sacks == Blocks(SackLengths, SackBytes)

ASSUME LayoutAssumption ==
  /\ HeaderSize \in Nat /\ HeaderSize >= 2
  /\ Word \in Nat \ {0} /\ Nibble \in Nat /\ Nibble > 1
  /\ LastType \in 0 .. Nibble - 1
ASSUME InputAssumption ==
  /\ Bytes \cup SackBytes \subseteq Byte
  /\ MaxDatagram \in Nat /\ MaxLen \in Nat
\* What set_sack asserts of its argument.
ASSUME SackAssumption ==
  SackLengths \subseteq Nat /\ \A n \in SackLengths : n >= Word /\ n % Word = 0

VARIABLES
  bytes,        \* the packet
  pc,           \* "received", "idle", "rejected", "panic", "got", or the loop that runs
  index, ext,   \* the loop's position and the type of the extension there
  seen,         \* the extensions the loop has passed
  sack,         \* what get_sack returned: << >> or << the data >>
  meant         \* [known, chain, payload]

loopVars == <<index, ext, seen>>
vars == <<bytes, pc, loopVars, sack, meant>>

None == 0
SelectiveAck == 1
Meant(chain, payload) == [known |-> TRUE, chain |-> chain, payload |-> payload]
Unknown == [known |-> FALSE, chain |-> << >>, payload |-> << >>]

\* Byte i of the packet; Rust counts from 0.
At(i) == bytes[i + 1]
Rest(i) == SubSeq(bytes, i + 1, Len(bytes))

\* A datagram of any content arrives, or Packet::with_payload makes a packet.
Fresh == [i \in 1 .. HeaderSize |-> IF i = 1 THEN 1 ELSE 0]
Init ==
  /\ \/ /\ bytes \in Blocks(0 .. MaxDatagram, Bytes)
        /\ pc = "received" /\ meant = Unknown
     \/ \E p \in Blocks(0 .. MaxDatagram - HeaderSize, Bytes) :
          /\ bytes = Fresh \o p
          /\ pc = "idle" /\ meant = Meant(<< >>, p)
  /\ index = HeaderSize /\ ext = None /\ seen = << >> /\ sack = << >>

-----------------------------------------------------------------------------
(* The loops.                                                              *)

Start(loop) ==
  /\ pc' = loop
  /\ index' = HeaderSize /\ ext' = At(1) /\ seen' = << >>

InLoop == index < Len(bytes) /\ ext # None

\* One more extension is passed; its marker holds the type of the next.
DataLen == At(index + 1)
NextIndex == index + 2 + DataLen
Data == SubSeq(bytes, index + 3, NextIndex)
Advance ==
  /\ seen' = Append(seen, [type |-> ext, data |-> Data])
  /\ ext' = At(index)
  /\ index' = NextIndex

\* The loop's variables are gone when it has ended.
Stop(where) ==
  pc' = where /\ index' = HeaderSize /\ ext' = None /\ seen' = << >>

(* Packet::try_from.                                                       *)

\* PacketHeader::try_from looks at the length, the version and the type.
HeaderParses ==
  /\ Len(bytes) >= HeaderSize
  /\ At(0) % Nibble = 1
  /\ At(0) \div Nibble <= LastType

BeginCheck ==
  /\ pc = "received"
  /\ IF HeaderParses /\ (Len(bytes) = HeaderSize => At(1) = None)
     THEN Start("check") ELSE Stop("rejected")
  /\ UNCHANGED <<bytes, sack, meant>>

\* The markers and the data of the extension lie within the packet.
FitsFaulty == NextIndex < Len(bytes)
Fits == NextIndex <= Len(bytes)

CheckExtension ==
  /\ pc = "check" /\ InLoop
  /\ IF index + 2 <= Len(bytes) /\ DataLen # 0 /\ DataLen % Word = 0 /\ Fits
     THEN Advance /\ UNCHANGED pc ELSE Stop("rejected")
  /\ UNCHANGED <<bytes, sack, meant>>

EndCheck ==
  /\ pc = "check" /\ ~ InLoop
  /\ IF ext = None
     THEN /\ Stop("idle")
          /\ meant' = Meant(seen, Rest(index))
     ELSE Stop("rejected") /\ UNCHANGED meant
  /\ UNCHANGED <<bytes, sack>>

(* The readers: an index outside the packet panics.                        *)

\* A packet is read by the one who parsed it or by the one who made it.
Readable == pc = "idle" \/ (pc = "received" /\ meant.known)
BeginRead(loop) ==
  /\ Readable
  /\ Start(loop)
  /\ UNCHANGED <<bytes, sack, meant>>

\* ExtensionIterator::next slices the data of each extension, payload does not.
ReadExtensionFaulty ==
  /\ pc \in {"iterate", "payload"} /\ InLoop
  /\ seen' = Append(seen, [type |-> At(index), data |-> Data])
  /\ ext' = At(index)
  /\ index' = NextIndex
  /\ UNCHANGED <<bytes, pc, sack, meant>>
ReadExtension ==
  /\ pc \in {"iterate", "payload"} /\ InLoop
  /\ IF index + 1 < Len(bytes) /\ (pc = "iterate" => NextIndex <= Len(bytes))
     THEN Advance /\ UNCHANGED pc ELSE Stop("panic")
  /\ UNCHANGED <<bytes, sack, meant>>

\* The iterator is at its end; payload returns what lies behind the chain.
EndRead ==
  /\ pc \in {"iterate", "payload"} /\ ~ InLoop
  /\ Stop(IF pc = "payload" /\ index > Len(bytes) THEN "panic" ELSE "idle")
  /\ UNCHANGED <<bytes, sack, meant>>

\* set_sack announces the new extension in the header of a packet that has
\* none, or else in the marker of the last extension.
BeginSetSack ==
  /\ Readable
  /\ Start("set")
  /\ bytes' = IF At(1) = None THEN [bytes EXCEPT ![2] = SelectiveAck] ELSE bytes
  /\ UNCHANGED <<sack, meant>>

SkipExtension ==
  /\ pc = "set" /\ InLoop
  /\ IF index + 1 < Len(bytes)
     THEN /\ Advance /\ UNCHANGED pc
          /\ bytes' = IF At(index) = None
                      THEN [bytes EXCEPT ![index + 1] = SelectiveAck] ELSE bytes
     ELSE Stop("panic") /\ UNCHANGED bytes
  /\ UNCHANGED <<sack, meant>>

InsertedFaulty(bv) ==
  SubSeq(bytes, 1, index) \o <<SelectiveAck, Len(bv) % ByteMod>> \o bv \o Rest(index)
InsertedTooLong(bv) ==
  SubSeq(bytes, 1, index) \o <<None, Len(bv) + 2>> \o bv \o Rest(index)
\* The length is stored as one byte.
Inserted(bv) ==
  SubSeq(bytes, 1, index) \o <<None, Len(bv) % ByteMod>> \o bv \o Rest(index)

\* The selective ack goes in before the payload, and the packet is sent: the
\* peer parses it.
SetSack(bv) ==
  /\ pc = "set" /\ ~ InLoop
  /\ Len(bytes) + 2 + Len(bv) <= MaxLen
  /\ IF index <= Len(bytes)
     THEN /\ bytes' = Inserted(bv)
          /\ meant' = [meant EXCEPT
               !.chain = Append(@, [type |-> SelectiveAck, data |-> bv])]
          /\ Stop("received")
     ELSE Stop("panic") /\ UNCHANGED <<bytes, meant>>
  /\ UNCHANGED sack

\* get_sack takes the type of an extension from its own marker, not from the
\* marker of the one before; only for the first extension is that its type.
GetReaches == index + 1 < Len(bytes) /\ (ext = SelectiveAck => Fits)
GetSack ==
  /\ pc = "get"
  /\ \/ /\ ~ InLoop
        /\ sack' = << >> /\ Stop("got")
     \/ /\ InLoop /\ ~ GetReaches
        /\ Stop("overrun") /\ UNCHANGED sack
     \/ /\ InLoop /\ GetReaches /\ ext = SelectiveAck
        /\ sack' = <<Data>> /\ Stop("got")
     \/ /\ InLoop /\ GetReaches /\ ext # SelectiveAck
        /\ index' = NextIndex
        /\ ext' = (IF NextIndex < Len(bytes) THEN At(NextIndex) ELSE None)
        /\ UNCHANGED <<pc, seen, sack>>
  /\ UNCHANGED <<bytes, meant>>

\* The receive loop parses a datagram it accepted once more, with the rest of
\* its buffer behind it (recv_packets_from).
ParseWholeBuffer(tail) ==
  /\ pc = "idle"
  /\ Len(bytes) + Len(tail) <= MaxLen
  /\ bytes' = bytes \o tail
  /\ meant' = [meant EXCEPT !.payload = @ \o tail]
  /\ Stop("received")
  /\ UNCHANGED sack

-----------------------------------------------------------------------------
Next ==
  \/ BeginCheck \/ CheckExtension \/ EndCheck
  \/ \E loop \in {"iterate", "payload", "get"} : BeginRead(loop)
  \/ ReadExtension \/ EndRead
  \/ BeginSetSack \/ SkipExtension \/ \E bv \in Sacks : SetSack(bv)
  \/ GetSack
  \/ \E b \in Bytes : ParseWholeBuffer(<<b>>)

Spec == Init /\ [][Next]_vars

-----------------------------------------------------------------------------
(* Properties.                                                             *)

Extension == [type : Byte, data : Seq(Byte)]

\* Every variable stays in its domain.
TypeOK ==
  /\ bytes \in Seq(Byte)
  /\ pc \in {"received", "check", "idle", "rejected", "iterate", "payload", "set",
             "get", "got", "overrun", "panic"}
  /\ index \in Nat /\ ext \in Byte /\ seen \in Seq(Extension)
  /\ sack \in Seq(Seq(Byte))
  /\ meant \in [known : BOOLEAN, chain : Seq(Extension), payload : Seq(Byte)]

\* "Assume extension is valid because the bytes come from a (valid) Packet":
\* the iterator, payload and set_sack check no index and need not.
ReadersStayInside == pc # "panic"

\* A packet that was let in once is let in again, with any bytes behind it and
\* after set_sack: the receive loop parses every datagram twice.
StaysAccepted == pc = "rejected" => ~ meant.known

\* Whoever walks the chain to its end has seen the extensions that were meant,
\* a new selective ack last, and the payload that was meant behind them.
WalkEnded == pc \in {"check", "iterate", "payload"} /\ ~ InLoop
EveryWalkAgrees ==
  WalkEnded /\ meant.known =>
    ext = None /\ seen = meant.chain /\ Rest(index) = meant.payload

\* get_sack returns a selective ack that comes first, whatever follows it, and
\* leaves the packet only when something else comes first.
SackFirst == meant.chain # << >> /\ meant.chain[1].type = SelectiveAck
GetSackFindsTheFirst ==
  /\ pc = "got" /\ SackFirst => sack = <<meant.chain[1].data>>
  /\ pc = "overrun" => ~ SackFirst /\ meant.chain # << >>
=============================================================================
