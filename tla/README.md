# Formal models of Seam

TLA+ specifications of Seam's transport, written from the Rust sources under
`src/src/`. TLC checks them on small instances; TLAPS proves the central
theorems for every value of the constants. File and line references are
relative to `src/src/` unless they begin with `docs/`.

## 1. The system

Seam is an encrypted transport over UDP with a command-line tool on top.

| Layer | Parts | What happens there |
| --- | --- | --- |
| Packets | `crypto/encoder.rs`, `crypto/decoder.rs`, `crypto/replay.rs` | every packet is sealed under the next number of one counter; the receiver checks the number against a 1024-slot window, authenticates, then commits the number |
| Session | `session/mod.rs` with `stream.rs`, `arq.rs`, `ack.rs`, `flow.rs`, `datagram.rs` | ordered streams, retransmission, selective acknowledgement, connection-wide credit, datagrams, ping |
| Connection | `transport/connection.rs`, `cc.rs`, `congestion.rs`, `probe.rs`, `chaff.rs`, `tar.rs` | handshake phases, congestion-limited flush, retransmission timer, keepalive, migration, padding |
| Handshake | `handshake/` | cookie challenge and three messages |
| Tables | `api.rs`, `transport/endpoint.rs` | client retries, the server's connections by address, the stale sweep |
| Multiplexer | `tunnel.rs` | an event loop and a write loop per stream over one connection |
| Forward error correction | `fec/` | source groups and repair packets; `Connection` sends repairs and never decodes them |
| Not wired into `Connection` | `crypto/ratchet.rs`, `crypto/rekey.rs`, `session/rack.rs`, `session/resume.rs`, `transport/multipath.rs`, `transport/pacer.rs`, `transport/bandwidth.rs`, `bufpool.rs` | exported and unit-tested |
| Tool | `bin/seam/` | file transfer, sync, watch, share, daemon, audit log, known hosts, forwarding, diagnostics |

How the parts interact: the application calls `Session` through
`SeamConn` (open, write, finish, read, datagrams). Each call that may produce
packets is followed by `Connection::flush`, which calls `Session::flush` and sends
what it returns. A packet from the socket reaches `Session::receive_packet`, which
runs `PacketDecoder::decode`, then `AckRanges::on_received`, then the handler
of its type. `Connection`'s tick sends again what `ArqTracker::drain_expired`
returns. `PROJECT.json` lists every part with its status and every hazard at the
line where it bites.

## 2. Modules

| Module | Models | State and actions |
| --- | --- | --- |
| `ReplayWindow` | `crypto/replay.rs` | operators: `Check`, `Commit`, and the slide between them; the window is `base_seq` and the set of bits that are 1 |
| `PacketDecoder` | `crypto/decoder.rs` | `replay`, plus histories of acceptances and of the last verdict; `DecodeRefused`, `DecodeForged`, `DecodeGenuine` are the three ways through `decode` |
| `ReplayBitmap` | `crypto/replay.rs` | the same decoder with the bitmap as an array of words shifted with carries; refines `PacketDecoder` |
| `AckRanges` | `session/ack.rs` | operators: `OnReceived`, `BuildFrame`, `ParseAckFrame`; the frame is its list of descending ranges, as gaps and lengths |
| `PacketReceiver` | the first half of `Session::receive_packet` and the ACK part of `flush` | composes `PacketDecoder` and `AckRanges`; `Refuse`, `Receive`, `Acknowledge` |
| `FlowWindow` | `session/flow.rs` | operators on `limit` and `consumed` |
| `Stream` | `session/stream.rs` | operators on one stream record: write, finish, poll_send, receive, read |
| `Session` | `session/mod.rs`, `arq.rs`, `datagram.rs`, `encoder.rs` | operators from a session record and the arguments of a call to the new record and the result, one per method |
| `ByteStream` | what a stream promises | abstract: `written`, `finished`, `read`, `ended` per channel |
| `SessionPair` | two sessions and the network | one action per call of the application (`Open`, `Send`, `FinishWriting`, `Read`, `QueueDatagram`, `TakeDatagram`), of the connection (`Flush`, `Retransmit`, `Ping`, `Chaff`), and of the network (`Deliver`, `Duplicate`, `Lose`) |
| `PacketDecoderProofs` | | the theorems about `PacketDecoder` |
| `MC...` | | instances for TLC |

What is abstracted:

- A payload byte is its stream and its position there, so order, loss and mixing
  of streams are visible and nothing else is. A datagram is its ordinal and its size.
- A packet is a record of number, type and content. Sealing is modelled by the
  number alone; whether a packet authenticates is whether the peer sealed it.
- Time is left out. A retransmission timeout may pass at any moment, which covers
  every value that the RTT estimator may compute, and so may the 25 s of silence
  after which `maybe_queue_ping` queues a ping.
- `HashMap` iteration in `flush` is a choice over all orders that respect
  priorities (`FlushOrders`).
- Sequence numbers are naturals: 64-bit counters do not wrap in any run of the
  program.
- `drain_retransmits` sends all expired packets in one call. The model sends one
  per step; the call changes nothing but the network in between.

## 3. Runs

Seven runs pass.

| Run | Instance | Shows |
| --- | --- | --- |
| `packet_receiver` | window 3, ACK retention 4, numbers 0..7 | `AtMostOnce`, `RefusalsJustified`, `WindowMirrorsAccepted` (the decoder is exact); `FrameRoundTrips`, `RetainsRecent`, `TrackedOnArrival`, `DebtIsRemembered` (acknowledgement state is exact and complete) |
| `replay_bitmap` | 3 words of 2 bits | `ImplementsFlatWindow`: the shifted words behave as the flat window |
| `session_one_way` | 4 bytes, packets of at most 2, credit 2 | `ImplementsByteStream`, `NothingForgotten`, `SegmentsDisjoint`, `CreditSound`, `NumberSealsOnePacket` while MaxData extends the window; `KeepaliveDrains`: one ping and its answer acknowledge whatever has arrived |
| `session_two_way` | a stream per peer, both writing | `ImplementsByteStream`, `NothingForgotten` when both directions share packet numbers |
| `session_two_streams` | one peer writing two streams of equal priority | `ImplementsByteStream`, `NothingForgotten` when a flush takes the streams in either order of the hash map |
| `session_control` | no streams, queues of one entry | `DatagramsAtMostOnce`, `NumberSealsOnePacket` under pings, pongs, chaff and datagrams |
| `session_live` | 2 bytes in 2 packets and an end mark | `WrittenIsDelivered` under fairness |

Five runs are expected to be violated; each states a sentence of the repository
that the code does not keep, quoted under `findings` in `PROJECT.json`.

| Run | Property | What the counterexample shows |
| --- | --- | --- |
| `session_replay_span` | `WrittenIsDelivered` | a lost packet that is a whole replay window behind the newest accepted one is refused as too old whenever it is retransmitted |
| `session_lost_credit` | `CreditReturns` | MaxData is sent once; if it is lost while the sender has no credit left, both ends wait for ever, keepalive pings included |
| `session_stream_limit` | `NothingForgotten` | data refused because of the stream limit has already been acknowledged |
| `session_short_read` | `NothingForgotten` | a read that ends inside a segment discards the rest of the segment |
| `session_early_eof` | `EofIsComplete` | an end mark that overtakes data raises `StreamFinished` at once |

The passing runs stay clear of the last three by their instances: applications
read with a limit above any segment, the stream limit is not reached, and
`EofIsComplete` is not among their properties.

### Bounds

- Replay window: 3 slots against 8 numbers lets a number be in the window, fall
  out of it by one and by many, and jump past all of it. Three words of two bits
  give slides below one word, by whole words, across a word boundary and past
  the bitmap. The session runs that pass use 8 slots and send at most five
  tracked packets a direction, so the effect of `session_replay_span` is kept out of them.
- ACK retention is larger than the replay window, as 8192 is larger than 1024.
- Streams: with packets of at most two bytes and writes of one or two, a stream
  is cut into packets in several ways, and with a credit of two bytes the sender
  stalls and is released more than once in four bytes.
- Two streams of one peer with a byte and an end mark each are enough for a flush
  to find both pending and to put their packets in two different orders.
- Datagrams and control packets: `EXTRAS` says which kinds occur, and `MAX_EXTRA`
  stops new ones once a peer's packets and datagrams number three
  (`session_control`) or two (`session_lost_credit`, pings only). The others have
  none: a ping takes a number and carries no data, so it neither helps nor hinders
  the streams but through the replay window, which `session_replay_span` is about.
  Datagrams are of a size at the limit and of one above it. Both peers have the
  same limit, so the receiver's own check of the size is modelled and not reached.
- `FORGETFUL` says whether the network removes what it delivers. The safety
  runs use a network that keeps every packet: a packet that is never taken again
  is as good as lost, and any packet may be taken twice or late, so this covers
  loss, duplication and reordering with fewer states. The liveness runs use
  the forgetful network, where loss is visible.
- Deadlock checking is off in the session runs: when all bytes are written,
  read and acknowledged, two sessions are entitled to stop.

### Fairness

`FairSpec` assumes that a connection is ticked (a ping is queued after a silence,
what is pending is flushed, what is tracked is retransmitted), that the application
reads what is readable, and that the network delivers a packet that it is handed
infinitely often. The first is what `SeamConn::tick` does, in this order, and
`read_frame`'s ticker calls it (`api.rs:241`, `bin/seam/proto.rs`); `SeamMux` does not
tick, so the result does not carry over to it. Retransmission has weak fairness. A
ping, a flush and a read disable themselves, so their weak fairness is written as
infinitely many states in which they are disabled; this is equivalent and far
cheaper for TLC. Delivery is strong fairness per packet number, written as: a number
that is infinitely often in the network and new to its receiver does not stay new.

That a lost ACK is made good is stated as the invariant `KeepaliveDrains`, not as
liveness: every ping has a new number, so a run in which pings recur for ever has
no bound on its numbers. The invariant says of each state that one exchange which
gets through drains `in_flight`; the tick repeats the exchange until one does.
Nothing is assumed of `Open`, `Send`, `FinishWriting`, datagrams or chaff.

## 4. Proofs

`PacketDecoderProofs` proves, for every window size at least 1 and every set of
packet numbers:

- `DecodesAtMostOnce`: no number is accepted twice.
- `RefusesOnlyJustified`: a refusal has a cause in what was accepted, and
  unauthentic packets never cause one.
- `WindowIsMirror`: the bits are exactly the accepted numbers of the window's range.

The only assumptions are `WindowAssumption` and `NumbersAssumption`, which say that
the window is a positive number and packet numbers are naturals. `AtMostOnce` is
not inductive: a number accepted once is refused later only because its bit is
set or because it lies below the window. The invariant `IInv` therefore adds the
types and the mirror property, which ties the bits and the end of the window to the
accepted numbers. `CommitAfterCheck` is the lemma all rests on: after `Check`
has answered Ok, `Commit` succeeds, the new window reaches the number, and above its
base it holds the old bits and the new one. There is one lemma per action.

Only model-checked: everything about sessions, the refinement of the bitmap, the ACK
frame (it is built by folds over ranges), and all liveness, which is beyond the
proof system.

## 5. Observations without a run

- `ack.rs:7-18` describes a range length as a count of packets; `build_frame`
  and `parse_ack_frame` agree with each other on the count minus one (`ack.rs:113`).
- `stream.rs:38` says that a stream's window is "extended dynamically"; nothing calls
  `extend_send_window`, so a stream ends after 16 MiB.
- `Session::send` keeps the credit of a write that it then refuses (`mod.rs:250`).
- `flush` says streams of one priority are served by insertion order
  (`mod.rs:268`); they are served in the order of a hash map.

## 6. Not modelled

`PROJECT.json` gives the reason for every part. In short: cryptography, padding and
encodings have no state the properties tell apart; estimators and congestion
formulas are floating-point filters; the diagnostic commands only display. The rest
is planned.

## 7. Plan

In this order, each with its hazards from `PROJECT.json`:

1. `Connection`: congestion-limited flush over `Session` (what a full window does
   to data and to control packets behind it), the tick, keepalive and idle
   detection, migration. Composes with `SessionPair`, and takes over from
   `session_control` what it covers.
2. `Handshake` and `Server`: the phases of both ends over the lossy network,
   client retries on one socket, the table of connections and its sweep.
   Abstract specification: both ends established with the same keys, at
   most one connection per address.
3. `Mux` over `ByteStream`: event loop, write loops, channels.
4. `FileTransfer` over `ByteStream`: resume, checksum, promotion of the partial
   file, with interruption at every step. Then `Watch`, `Share`, `Daemon`, and
   the files that several processes share.
5. `Fec`, `MultiPath`, `Ratchet`, `ResumeStore` as components of their own.
6. Proofs: `CreditSound` for every window, the acknowledgement state of
   `PacketReceiver`, that ARQ lets go only of accepted packets, and the refinement of
   the flat window by the bitmap.
