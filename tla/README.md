# A verification of the uTP connection

The repository is a small Rust library that carries a byte stream over UDP in
the style of uTP: `UtpSocket` (src/socket.rs) keeps a state per peer and handles
packets, `Packet` (src/packet.rs) is the wire format, and `UtpStream`
(src/stream.rs) wraps both into `AsyncRead` and `AsyncWrite`. This directory
holds TLA+ models of it, TLC runs that check them on small instances, and TLAPS
proofs of the main results for every value of the constants.

`PROJECT.json` lists components, runs, findings, hazards and theorems, and maps
every definition to the source lines it translates.

## 1. Inventory

### Connection state machine (src/socket.rs, `UtpSocketState`, `handle_packet`, `connect`, `send_packets`)

* State, per peer: `state` (New, SynSent, Connected, FinSent, ResetReceived,
  Closed), `seq_nr`, `ack_nr`, `last_acked`, `duplicate_ack_count`,
  `sent_window` (sent and not acknowledged), `out_of_order` (received ahead of a
  gap), `incoming_buffer` (in order, on its way to the channel). The fields for
  round-trip times, congestion and retry limits are initialised and never read.
* Operations: `connect` checks the map, inserts a new entry in state SynSent and
  sends a Syn. `send_packets` cuts its buffer into packets, puts them into
  `sent_window` and sends the whole window. `handle_packet` has an arm per pair
  of state and packet type: (New, Syn) accepts; (_, Syn) answers with a Reset;
  (SynSent, State) completes the handshake; (Connected | FinSent, Ack) counts
  acks, drops packets from the window and resends; (Connected | FinSent, Data)
  takes data in order, stores data ahead of a gap or ignores old data, and
  answers with an ack; (Connected, State) counts duplicates and resends;
  (Connected | FinSent, Fin) closes; (_, Reset) marks the connection.
* Interaction: the receive task calls `handle_packet`, the application calls
  `connect` and `send_packets`; both lock the peer's mutex for the whole call.
* Hard: reordering, loss and duplication on the network; `last_acked` is at once
  the receive position of one direction and the ack position of the other;
  u16 arithmetic, checked in debug builds and wrapping in release builds; there
  is no timer, so loss is repaired only by acks that come and by further writes.
* Correct means: data is delivered in order, once and completely; a packet
  leaves the window only when the peer holds its data; acks claim nothing the
  receiver lacks; the handshake agrees; closed and reset connections stay so.

### Receive loop and socket map (src/socket.rs, `start_receiving`, `recv_packets_from`)

* State: the `DashMap` of peers, a 26-byte buffer, the sender of an mpsc channel.
* Operations: receive, parse the datagram, simulate a loss, create the peer's
  entry if it is unknown, handle, send the reply, push `incoming_buffer` into the
  channel. An error of the pass ends the loop; an error of `handle_packet` does
  not.
* Hard: a map guard is kept across awaits; the channel is bounded; the buffer is
  reused and is parsed twice, once up to the datagram's length and once whole,
  so the tail of an earlier datagram comes along; a failed reply leaves the state
  half-way.
* Correct means: the loop survives whatever an endpoint of this library sends,
  writers and readers never wait for each other in a circle, and what the
  handler accepted reaches the reader in its order.

### Selective acknowledgement (src/socket.rs `build_selective_ack`, `get_lost_seq_nr`; src/bit_iterator.rs)

* Pure: a set of stored packets to bits, and bits to packets of the window.
* Hard: the offset of the first bit, the length of the mask and of one word, the
  one-byte length field, padding bits at the end of the u16 range.
* Correct means: bit i set if and only if the packet `ack + 1 + i` is stored, and
  the sender reads the same set back.

### Packet codec (src/packet.rs)

* Pure: header fields in network order, the chain of extensions, `set_sack`,
  `get_sack`, the payload.
* Hard: truncated datagrams, chains that run off the end, the length byte; five
  loops walk the chain, one of them checks it, and `get_sack` takes the types
  from other bytes than the rest.
* Correct means: what one endpoint encodes the other decodes, all loops agree on
  the extensions and the payload, and no reader indexes outside the packet.

### `UtpStream` (src/stream.rs)

* State: the socket, the receiver of the channel (capacity 100), a spawned task.
* Operations: `bind` spawns the loop, `poll_read` takes from the channel,
  `poll_write` runs `send_packets`, dropping the stream drops the receiver.
* Hard: `poll_write` builds a new future at each poll and drops it when it is
  pending, and with it whatever would have woken the task and its place in the
  queue of the mutex; the end of the stream is never signalled.
* Correct means: a write is carried out once and returns, but for reasons that can
  be named; a reader gets every byte.

### Clock and replies (src/time.rs, src/util.rs, `prepare_reply`)

* `now_microseconds` is a u32 that turns over every 71 minutes; `abs_diff` is
  the distance a reply reports, from the timestamp of the packet it answers. What
  is answered, Syn, Data and Fin, is never stamped (socket.rs:190, 271).

### Without behaviour of their own

`congestion_control.rs` and `packet_loss_handler.rs` (traits nothing
implements), `error.rs` (names of errors), `ewma` and the random identifiers of
`util.rs`, the udp examples.

## 2. Modules

| Module | What it is |
| --- | --- |
| `UtpConnection` | Both endpoints of one connection and the network between them; all of `handle_packet`, `connect`, `send_packets`, the error paths of the loop. |
| `UtpOneWay` | The use of the examples: the client connects and writes, the server receives. Its properties, its refinement mapping and its inductive invariant. |
| `OrderedStream` | The abstract specification of one direction: chunks are written, stored, taken in order and forgotten by the sender once the receiver holds them. |
| `UtpTwoWay` | Both endpoints write: what still holds. |
| `SkippingStream` | The abstract specification of one direction when both write: chunks may be missing for good, but come in order and once. |
| `SackNumbers` | What the bits of a selective ack mean, and which acks get through: the definitions `UtpConnection` computes with. |
| `UtpClaims` | What comments say of the connection and the code does not do. |
| `UtpConnectionProofs` | Proofs: types, and lemmas about packets and numbers that the next two use. |
| `UtpOneWayProofs` | Proofs about one direction: the inductive invariant, its consequences, that it implements `OrderedStream`, when the receive loops survive. |
| `UtpTwoWayProofs` | Proofs about two writers: nothing twice, one number per chunk. |
| `StreamTasks` | The tasks around one `UtpStream`: receive loop, reader and writer, other writers; the map's guards, the mutex, the channel, dropped futures. |
| `PacketPipe` | The abstract specification of the way from the handler to the reader. |
| `StreamClaims` | What an example expects of the stream and the code does not do. |
| `StreamTasksProofs` | Proofs: locks, order, copies, closed connections, what it takes to get stuck, and that the tasks implement `PacketPipe`. |
| `RecvBuffer`, `RecvBufferProofs` | The reused buffer of the loop: which datagram each byte comes from. |
| `PacketExtensions`, `PacketExtensionsProofs` | The bytes of a packet and the loops that walk its extensions. |
| `PacketHeader`, `PacketHeaderProofs` | Header fields as bytes, the parser, what a reply carries. |
| `SelectiveAck`, `SelectiveAckProofs` | From stored numbers to bits and back, loop by loop. |
| `SackExchange` | The abstract specification of a selective ack, in terms of `SackNumbers`: rejected, judged, or overflowing, in one step. |

There is no separate MC module: every constant of a run is a number, a set of
numbers or a model value, so each `.cfg` gives it directly.

How the modules fit together. `UtpConnection` has a whole pass of the receive
loop as one step; `StreamTasks` justifies that (`LockOrder`: the mutex covers the
pass) and says what happens to a packet from the handler to the reader, without
the numbers. `UtpConnection` takes a selective ack for a set of bits, with the
definitions of `SackNumbers`; `SelectiveAck` implements `SackExchange`, which
uses the same definitions, so bytes, length byte and loops have just the effect
`UtpConnection` gives them in one step. `PacketExtensions` shows that the bytes
survive `set_sack` and both parses, `PacketHeader` that the fields do.
`RecvBuffer` says which bytes stand in the buffer that is parsed, and uses of
`PacketExtensions` that the second parse repeats the first. These are separate
modules because their states have nothing in common but the handed-over values.

### How `UtpConnection` corresponds to the code

* Each variable is a function of the endpoint and bears the name of the field it
  stands for. `written` and `delivered` are history: the number of chunks
  `send_packets` accepted and the chunks pushed into the channel. `receiving`
  is the fate of the spawned task, `connecting` the point between `connect`'s
  check and its insert.
* Each arm of `handle_packet` is an action `Recv...`, together with the rest of
  the pass of `recv_packets_from`: reply, drain into the channel. `Answer` has
  the reply succeed, or fail and end the loop. `...Panic` actions are the places
  where a debug build overflows or an `unwrap` meets `None`; they leave behind
  exactly what the handler had assigned so far. A tokio mutex is not poisoned by
  a panic, so the application goes on after one.
* `recv_packets_from` and `send_packets` hold the peer's mutex from the first
  access to its state to the last, so each is one step. `connect` is two: its
  check and its insert are separated by an await.
* A payload is the number of the chunk; 0 is an empty one. A selective ack is the
  set of its bits. The bytes are the subject of `PacketExtensions`, `RecvBuffer`
  and `SelectiveAck`.
* `Decodes` (with `Decodable`) says which datagrams the 26-byte buffer of the loop can take: the
  room after the header fits a selective ack of one word (32 bits, `SackWord`),
  a longer one is cut off and fails to parse, unless its length byte has wrapped.
* The network is a set per destination: datagrams are reordered freely, identical
  ones are merged. With `Duplication` a datagram stays after it is received;
  with `Loss` it may vanish, which also stands for the socket's `drop`
  simulation. A resend that fails inside `handle_packet` is a lost datagram.
* No code sends a Fin. `SendFin` is an application that builds one and passes it
  to `send_to`, which is public.
* Not a step of its own: `FinSent`, which no code assigns. `Established` keeps
  it since the arms match it.

### How `StreamTasks` corresponds to the code

* A step ends where the code awaits, or lets go of a guard another thread may
  take. `pc` names the await: `recv` for `recv_from`, `lock` for the mutex,
  `reply` and `send` for `send_to`, `push` for the channel.
* A guard of the `DashMap` blocks the thread that wants the same shard; the tokio
  mutex only suspends the task. So a task at `find` while the loop holds the map
  takes one of the `Workers` threads away, and nothing runs without a thread.
* `handle_packet` is reduced to what others can see: it accepts up to `MaxBurst`
  packets, closes or resets. An error, a panic or a failed push ends the loop
  (`ended`), and with the task go its guards.
* `poll_write` is `BeginWrite` and the steps of `send_packets`, any of which may
  be pending; then the future is dropped, the mutex released and the wakeup with
  it (`lost`), unless tokio itself had scheduled the task again (`woken`).
  `Spurious` says that other events also wake the application's task. The
  queue of the mutex is no variable: a task of `Senders` keeps its place there
  and is served in its turn, which is its fairness, and the application has none.
* `poll_read` never yields `None`, since the stream's own socket holds a sender.
  Dropping the stream drops the receiver of the channel and detaches the loop.

### How the codec modules correspond to the code

* `RecvBuffer`: a byte is represented by the datagram it comes from. The packet
  that is handled and delivered is the whole buffer, its header included, and
  with the rest of earlier datagrams behind a short one.
* `PacketExtensions`: one step per pass of a loop over bytes, from datagrams of
  any content. An index outside the packet panics, except that of `get_sack`,
  which only tests call: it may overrun a packet whose first extension is no
  selective ack, and the model keeps that as an outcome of its own.
  `ParseWholeBuffer` is the second parse of the receive loop.
* `PacketHeader`: on a little-endian host, as the parser assumes. Seconds and
  microseconds are each reduced to 32 bits before they are added; that the
  64-bit count of the system's clock wraps is left out. `Reply` is
  `prepare_reply` as its four callers use it: for a Syn, a Data or a Fin packet,
  which has no timestamp.
* `SelectiveAck`: a byte is the set of its bits. Both build profiles are in one
  model: at the first number that is no u16 the reader may go on with a wrapped
  number or panic.

### Definitions named ...Faulty

Next to a definition there may be a variant such as `SackNrFaulty` (an
off-by-one) or `DrainedFaulty` (the drain forgotten); a few have another name
that says what is wrong, such as `PushLast`. No action uses one. Each is a
plausible bug of the code the original translates; putting it in the original's
place makes TLC refute the property it is listed with in `PROJECT.json`, which
shows that the property depends on that code.

## 3. Runs

`oneway` takes one to three minutes, the others seconds to a minute. Deadlock is
not checked: the systems may really stop, when the loops have ended, when
nothing is on the network and nobody writes, or when an input is used up.

| Run | Question | Bounds |
| --- | --- | --- |
| `oneway` | Does the server take a prefix of what was written, is nothing forgotten too early, are acks truthful, do closed and reset connections stay so, is old data really held, and does the whole implement the ordered stream, when every datagram may come again or never, the client sends a Fin and the server's I/O fails? | 3 chunks in writes of 1 or 2, words of 2 bits, U16 = 6, release build |
| `oneway_live` | Does every chunk arrive over a fair lossy network, and do both loops survive? | 3 chunks, words of 3 bits |
| `twoway` | When both may connect and write: is a chunk delivered once, does a number stand for one chunk, and is each direction a stream that skips chunks but keeps their order, until the numbers run out? | 2 chunks each, U16 = 5, loss, debug build |
| `stream_tasks` | Is no packet skipped, are the locks ordered, does a circle of waiting need the reader, are chunks queued twice only after a cut-off poll, and does no write succeed on a closed connection, with failures, panics and a dropped stream? | channel of 1, 2 threads, 2 writing tasks, 3 packets, 2 writes, 2 cut polls |
| `stream_live` | For which reasons may a write never return, and does a reader that comes back for more get every packet? | channel of 1, 3 threads, 2 writing tasks, 2 packets, passes without end, 3 writes, 1 cut poll |
| `packet_walks` | Do all loops over the extensions agree with each other, stay inside, and accept again what was accepted? | header of 2 bytes, words of 2, byte values 0 to 3, datagrams up to 6 bytes, packets up to 11 |
| `packet_header` | Do fields read back through setters, parser, writer and replies? | 36 values per byte, so a u32 is 36^4; clock before, at and after it turns over |
| `recv_buffer` | Which datagram does each delivered byte come from? | header 2, payload 3, lengths 1 to 7, 4 datagrams |
| `sack_bits` | Do bits name exactly the stored packets and does the sender read the same set, for every set of stored numbers, as the exchange of `UtpConnection` says? | 10 numbers, bytes of 2 bits, words of 2 bytes, length byte of 4 values |
| `claim_ignored`, `claim_early`, `claim_end` | One sentence of a comment each, refuted. | as small as the trace allows |

Why the bounds are enough. Three chunks with words of 2 bits give runs of length
0 to 2 and a gap that does not fit a word, so selective acks are built, honoured
and cut off. In `oneway` a datagram stays on the network after it is received,
so one that is never received stands for a lost one, and a write of no chunks
(a mere resend) would change nothing. `U16` is just above the numbers a run uses
(`oneway`: `MaxChunks + 2 < U16`), or, in `twoway`, so small that the numbers run
out and the additions overflow. The handlers compare numbers only with their
neighbours, and the results for one direction are proved without bounds. A
channel of one place is full after one packet; two threads let one writer block
one and two block both. In `packet_walks` every marker, length and type value
occurs with every other, a datagram may bring an extension or one that runs off
its end, and `set_sack` adds a second. In `sack_bits` all 2^10 sets are taken with
every position, so that some need more bytes than the length byte can say, and
some bits lie past the last number. Two words are
announced as none, three as one. The third case, an ack that is announced as
longer than the buffer and is cut off, needs a length byte of more values and is
covered by the proofs, which leave the widths open.

Fairness. `LiveSpec` of the connection: weak fairness of `Write(Client, 0)`: the
library has no timer, so nothing but the application's next call of
`send_packets` sends a lost packet again; the property is what an application
gets that keeps calling it. Strong fairness of receiving data of each number: a
network that loses a datagram only finitely often if it is sent infinitely often.
Nothing is assumed of the handshake or of the acks: the property speaks of
chunks that were written, which needs a connection, and arrival does not need
acks. `FairSpec` of the tasks:

* The runtime runs every task that can go on (weak fairness), but promises so only
  for tasks that do not block their threads. A task that is woken lies in the slot
  of the thread that woke it, which no other thread takes tasks from, and a
  thread blocked by a guard of the map leaves it lying. So all fairness is under
  the condition `NoThreadIsLost`: no thread is blocked for good.
* The tokio mutex is first-come, first-served, so a task that *awaits* it gets it
  (strong fairness of `QueueChunks` for `Senders`). `poll_write` does not await
  it: its future, and its place in the queue, are gone at the end of each poll.
  The application gets weak fairness of what one poll does, and no more.
* The map gives no turns: no strong fairness of `FindPeer` for anybody.
* A lost wakeup is no promise: `PollAgain` is fair when tokio scheduled the task.
* None of `RecvDatagram`, since the peer need not send anything, and none of
  `BeginRead` and `BeginWrite`: what the application calls is its own affair.
* `send_to` completes: the UDP socket is writable again and again.

With that little, `WritesReturn` cannot say that every write returns. It says that
one that does not has one of five reasons, and each is needed, that is, TLC refutes
the property without it: a thread is blocked for good (a reader that writes into
a full channel, or the slot above); the map is held whenever the write asks for
its peer; nobody empties the channel, whose pusher holds the mutex; and for
the stream's own writes, that a lost wakeup is followed by no other, or that its
polls are pending again and again, which includes an application that never finds
the mutex free. So a write of a task that awaits is never stuck because of how the
application polls, drops its futures, or gives up: that is where a future that
kept the mutex would be caught. The bounds do not decide this: a pass of the loop
need not accept a packet, so datagrams come without end, the application may
poll without end, and the reasons are about what recurs, not about how
many writes there are; further writes of other tasks change nothing for one that
awaits, and for the application they are among the reasons.

`ImplementsPipe` has two conditions: no thread is blocked for good, and the
application is found reading again and again. One that writes to a full channel
instead of reading is not, and nothing is promised to it. The channel of the run has
one place for two packets, so it is full, and the loop waits to push, while the
second task waits for the mutex or the map.

### What the refuted claims show

* `claim_ignored` (socket.rs:617, of the branch at 615): the accepting endpoint
  numbers its first data packet 1, which the other endpoint takes for an old one:
  the chunk is dropped, and acknowledged.
* `claim_early` (socket.rs:481): `send_packets` works before the handshake is
  over; the first chunk then bears the Syn's number, and the State packet that
  acknowledges the Syn takes the chunk out of the window.
* `claim_end` (examples/server.rs:67): a reader is not told that the receive loop
  has ended; it waits for ever.

### Limits of the positive results

Behaviours the models show besides, which explain the conditions under which the
properties are stated; no run is devoted to them:

* An ack more than one ahead of `last_acked` is not counted (socket.rs:505): its
  packet stays in the window and is sent again. Harmless, but not what the
  comment suggests. Likewise `!sent_window.is_empty() ||` makes the first
  duplicate of a State packet a loss (socket.rs:643).
* A selective ack of more than one word does not fit the 26-byte buffer; the
  datagram is cut off, fails to parse and ends the loop (socket.rs:167). So
  `ReceiveLoopsSurvive` is checked with gaps within a word.
* Two endpoints that connect to each other at once overwrite each other's
  accepted connection (socket.rs:207), and early writes then reuse a number. So
  `SeqIdentifiesChunk` is about writes when connected.
* A duplicated State packet moves `last_acked` back (socket.rs:636), after which
  duplicated data is delivered again; a Fin may have the same effect when both
  write. So `DeliverOnce` is checked without duplication and Fins.
* An application that writes while the channel is full waits for the holder of
  the map, who waits for it to read (socket.rs:426). `CircleNeedsTheReader` says
  that this, and blocking every thread, are the only ways in which everyone waits
  for someone else. It is about who waits for whom, not about the runtime: a task
  that could go on may still be left lying by tokio, when the thread that woke it
  blocks next. A writer on a worker thread that returns, lets go of the mutex and
  at once writes again does just that to a receive task that awaited the mutex
  (socket.rs:252, 386).
* `poll_write` gives its place in the queue of the mutex away at each pending poll
  (stream.rs:68), so under steady traffic, of the peer or of other writers, the
  application may find it taken every time.
* Replies carry the clock in place of a delay: the packets they answer have no
  timestamp, so `timestamp_difference` is the time itself (socket.rs:190, 271, 730).
* A short datagram is delivered with the tail of an earlier one (socket.rs:404);
  `BytesAreTheNewest` says exactly which bytes.
* Two tests disagree about the length of a selective ack. With 5 to 9 and 15 to 22
  stored over 3, `test_packet_loss` asserts 3 bytes (socket.rs:914),
  `test_build_selective_ack` 4; the comment at socket.rs:714 and the loop under
  it say 4, whole words, and so does `BitsNameTheStored`. (Neither test
  stores a packet: the futures of `handle_packet` are dropped without being polled.)
* A selective ack of 256 bytes or more has a wrapped length (packet.rs:369). The
  numbers may wrap: for one direction the results end there (socket.rs:598).

## 4. Proofs

All of these hold for every value of the constants that the named assumptions of
the modules allow, and are checked by TLAPS to the last leaf.

### One direction of a connection (`UtpConnectionProofs`, `UtpOneWayProofs`)

For every `U16 > 3`, word size, number of chunks, set of write sizes, build
profile, combination of loss, duplication, failing loops and Fins. Assumptions:
those of `UtpConnection` on its constants, and for everything but `TypeCorrect`
the `OneWayAssumption` of `UtpOneWay`: only the client connects, writes (when
connected) and sends Fins, and the numbers do not wrap (`MaxChunks + 2 < U16`).

* `TypeCorrect`: `Spec => []TypeOK`, for any roles of the endpoints.
* `InvHolds`: `Spec => []OneWayInv`. The safety properties are not inductive on
  their own: that an ack is truthful needs that `last_acked` of the server is the
  number of what it accepted (`ServerPhase`), that it stays so needs that data
  packets carry the number of their chunk wherever they are (`IsChunk` in the
  window, in `out_of_order` and in `Datagrams`), and that needs the client's
  counter (`ClientPhase`). The argument for a step:
  * A step of the client or the network leaves the server alone (`ClientSide`);
    a packet leaves the window only by the number or by a bit of an ack, and a
    truthful ack speaks of chunks the server holds (`AckedIsHeld`).
  * A step of the server leaves the client alone (`ServerSide`), loses no chunk
    and sends truthful replies only. The heart is `DrainedRun`: the run that
    leaves `out_of_order` ends at a number that was sent, so no number of it
    wraps, and by the definition of the drain whatever stays is beyond a new gap.
  * In the debug build the additions of the server stay below `U16`
    (`ServerNumbers`, `NoDataPanic`), hence `ServerSurvives`.
* `DeliveryIsInOrder`, `WindowKeepsWhatIsMissing`, `AcksAreTruthful`,
  `DrainLeavesAGap`, `ServerSurvives`: consequences of it.
* `OnlyHeldDataIsIgnored`: data at or behind `last_acked` is data the server
  accepted, by `ServerPhase`; what is ahead is stored or taken.
* `AbortsAreFinal`: a connect in progress means that there is no entry yet
  (`ClientPhase`), and the server never connects (`ServerPhase`), so no insert
  overwrites an entry in use; no arm leaves Closed or ResetReceived otherwise.
* `OneWayRefines`: `Spec => ImplementsStream`. `send_packets` is the stream's
  Write, data ahead of a gap its Store, data in order its Take with the whole
  drained run, an ack its Forget; every other step leaves the stream alone.
* `LoopsSurviveNarrowGaps`: `Spec /\ []NarrowGaps => []ReceiveLoopsSurvive`, under
  the conditions of the run `oneway_live` (`CalmRelease`: release build, no
  duplicates, no I/O failures, no Fins). `NarrowGaps` says that what the server
  stores lies within one word of selective ack of `last_acked`. It is a
  condition on the behaviour, since the bounds of a run imply it only for short
  transfers: `LoopsSurviveShortTransfer` proves it of up to `SackWord` (32)
  chunks. The invariant `LoopsInv` adds that all selective acks on the
  network fit a word (`Readable`), and that the handshake takes one Syn and one
  State (`OneHandshake`): a second State that reached a connected client would
  make it look up the packet to send again and unwrap `None`.

### Two writers (`UtpTwoWayProofs`)

Both endpoints may connect, even to each other at once, and write; packets are
lost and reordered, sockets fail, connections are reset. Hypothesis of the
theorems is `CarefulUse`: no duplication, no Fins, writes only when connected, and
numbers that last (`NumbersLast`): in the release build `2 * MaxChunks + 3 < U16`,
in the debug build nothing. Why each is needed:

* with `Duplication`, a second State takes `last_acked` back, and TLC shows
  `DeliverOnce` violated; with Fins it and `SeqIdentifiesChunk` are violated too,
  since the State that answers a Fin may do the same;
* with writes in any state, a number is used twice (the crossed connects under
  "Limits" above), and `SeqIdentifiesChunk` is violated;
* in the release build the numbers wrap, as for one direction. The debug build
  panics first, so there `NothingTwice` needs no bound on the chunks at all.

The results:

* `TwoWayInvHolds`: the invariant `TwoWayInv` says of each endpoint that it sends at
  most one Syn and gets at most one State, never when it is connected or has
  taken data (`Handshake`); that a chunk has one number in all packets that carry
  it (`Numbering`); and that `last_acked` of a connected endpoint is at or past
  the number of every packet left of a chunk it has taken (`Receiving`). `last_acked` does go up by
  acks for the other direction, so data may be ignored that was never taken;
  that it never goes *back* is what the argument needs, and the State arm,
  which sets it to a number of the packet, is why `Handshake` is part of it.
* `NothingTwice`: `Spec => []DeliverOnce` follows: data is taken at the number
  `last_acked + 1` only, so a chunk that was taken is never taken again. Most
  arms are one case of the proof, `Moves`: nothing new but Acks and Resets
  goes out, and the chunks that are taken bear the numbers after `last_acked`.
* `LowInv`, proved together with it, is about the release build only: `last_acked`,
  `seq_nr`, and the numbers on the network stay at or below `LastNumber`, that
  of the last chunk if every chunk of both sides was counted. `last_acked` moves
  to numbers of data or of Acks only (`Sources`), and those were sent. So no addition wraps
  (`SomeRoom`), which is all the first invariant asks of the numbers.
* `NumberMeansChunk`: `Spec => []SeqIdentifiesChunk`, if the numbers are more than
  what both sides write (`WideNumbers`). `seq_nr` of an endpoint counts what it
  receives besides what it sends; by `Counting` it is at most two ahead of the
  sum, and ahead of every number used. 0 is counted as the number after the last
  (`Nr`), for the debug build computes it before it panics.
* `TwoWayRefines`: `Spec => ImplementsSkippingStream`, under the same hypotheses.
  Each direction implements `SkippingStream`, with the chunks written at one end
  and `delivered` at the other. (The mapping takes `delivered`, not what was
  accepted before it, since an insert by `connect` discards `incoming_buffer`.)
  `NothingTwice` is not enough for the order: a chunk that was skipped because
  `last_acked` passed it by an ack could turn up late, out of `out_of_order` or
  the network, after a chunk written after it. The invariant `OrderingInv`
  rules that out: among the packets of an endpoint numbers grow with the chunks,
  so when a chunk is taken, `last_acked` passes the numbers of all chunks before
  it, and by `Receiving`'s argument stays past them (`OrderingInvHolds`). A
  drained run is in order for the same reason.

### The tasks (`StreamTasksProofs`)

For any number of writing tasks, any channel and number of threads, with
failures, drops and cut-off polls. Assumptions: `TaskAssumption`,
`SizeAssumption`.

* `TasksInvHolds`: `TasksInv` is `TypeOK`, `LockOrder`, `NothingSkipped`, and what
  they need of the rest: a write that is being carried out was begun
  (`CallsBegun`), the connection is not closed while one sends on it
  (`SendersOpen`), and only an application that is gone has dropped its stream
  (`ReaderOpen`). `TasksTypeCorrect`, `LocksAreOrdered`, `NothingIsSkipped` follow
  from it.
* `NoWriteOnClosed`: between the look at the state and the end of the sending the
  writer owns the mutex, so by `LockOrder` the loop is not in the handler, and
  only the handler closes.
* `CopiesAreCutPolls`: from `CopiesInv`: no two tasks carry out the same write
  (`OneCallEach`), and a write is queued once per cut-off poll, and once more
  exactly while it is being sent or when it has been (`CopiesCounted`).
* `OnlyTheReaderClosesACircle`: for an application that reads at all. While a pass
  of the loop holds the map, some step of the loop, the application or another
  writer can be taken, unless all threads are blocked in `find`, or the
  application has a write under way and the channel is full. `SomebodyReady`
  writes out the guards of the actions, for ENABLED is out of the prover's
  reach. TLC checks the same with ENABLED, as `CircleNeedsTheReader`. The proof
  follows the waiting: the owner of the mutex could go on, so the loop waits to
  push; so the channel is full; so an application that reads takes a packet.
* `StreamIsAPipe`: the safety part of `ImplementsPipe`; `NothingSkipped` makes the
  packet that is read the next one.

### The buffer and the extensions (`RecvBufferProofs`, `PacketExtensionsProofs`)

* `BufferInvHolds`, `HeadersAreOwn`, `BytesAreNewest`: for every size of header
  and buffer and all lengths (`BufferAssumption`). `BufferInv` says of the buffer
  itself what the properties say of the packets taken from it.
* `TypeCorrect`, `NoReaderPanics`, `AcceptedAgain`, `WalksAgree`,
  `FirstSackIsFound`: for every size of header, word and byte and every datagram
  (`LayoutAssumption`, `InputAssumption`, `SackAssumption`). The last three have
  the hypothesis `SackFits`: the length of a selective ack fits its byte. The
  invariant `LayoutInv` says that a packet that was made or accepted has places
  s[1], s[2], ... of its extensions, each beginning where the data before ended
  (`Whole`); that the last marker is 0; and that a loop stands at one of the
  places and has seen the extensions before it (`Reached`). It is needed because
  the readers check no index, and because `set_sack` changes a marker in the
  middle of its loop (`SetLayout`). `NoReaderPanics` needs no hypothesis: a
  wrapped length only makes the new extension seem shorter than it is. It does
  not speak of `get_sack`, of which `FirstSackIsFound` says when it may overrun.

### Selective ack and header (`SelectiveAckProofs`, `PacketHeaderProofs`)

* `SackInvHolds`: for all widths of bytes, words, the length byte and the buffer,
  all sets of stored numbers and both positions (`SizeAssumption`,
  `RoomAssumption`: the buffer has no more bits than there are numbers, without
  which a bit in the middle of the buffer would name a packet twice). The
  invariant `SackInv` says what each loop has done by its present element: the
  bits set are those of the numbers no longer in `todo`; the numbers judged
  acknowledged or lost are those below the bit the iterator stands at, which
  stands for `last_acked + 1 + next_index` however it was reached.
  `SackIsExact`, `AcksAreExact`, `LostAreMissing`, `PanicsComeLate` are read off it.
* `ExchangeRefines`: `Spec => ImplementsExchange`, if the buffer has room for one
  word and the length byte has more values than a word has bytes (`OneWordRoom`;
  in the code 4 bytes, 4 and 256). This is what lets `UtpConnection` treat a
  selective ack as a set of bits: building, padding and receiving are invisible
  or a rejection, the passes of the reader's loop are invisible, its end is the
  judgement, an overflow is the exchange's. The heart is `AcceptedIsDecodable`:
  the ack has one word more than lie before the one of its last bit, its
  announced length is that number of words modulo 64, and what is announced
  fits the buffer exactly if that is one, which is `Decodable`. `ReadInv`
  (`ExchangeInvHolds`) says of the numbers collected so far that they are the
  images of the bits passed; that holds past the end of u16 as well, where
  `SackInv` only bounds them.
* `HeaderInvHolds`: for every number of values of a byte that leaves room for the
  types (256 in the code) and every clock. `HeaderInv` says that each field has the value last written,
  as digits in network order. A setter leaves the other fields alone because the
  fields' bytes are disjoint; that digits to the base B give the number back is
  proved for one, two and four bytes, the widths the header has, since a
  sum over any number of digits would need induction. `FieldsAreReadBack`
  follows.

### Only model-checked

* Liveness, since fairness is out of the prover's reach: `EveryChunkArrives`,
  `WritesReturn`, the fairness part of `ImplementsPipe`.
* `CircleNeedsTheReader` in the form with ENABLED; what it says is proved with the
  guards written out, see above.
* The refuted claims: a counterexample is TLC's to find.

## 5. Not modelled

* Several peers on one socket: their entries share nothing but the shards of the
  map and the channel; `send_packets` without an address picks one of them.
* `congestion_control.rs`, `packet_loss_handler.rs`: traits without an
  implementation or a caller. `ewma`: no caller.
* Identifiers: random, and never compared.
* The 64-bit wrap of the system's clock, big-endian hosts.
* The udp examples, which do not use the library; logging, `Debug` output, the
  texts and conversions of errors.
