------------------------------ MODULE Session -------------------------------
(***************************************************************************)
(* session/mod.rs: the session of one peer, a record with the fields of    *)
(* struct Session, and its methods as operators that return the session    *)
(* after the call together with what the call produced.  A wire packet is  *)
(* a record of its number, its type and its payload; encryption is left    *)
(* out, since both peers hold the right keys.  The encoder's counter and   *)
(* the decoder's window are fields of the session.                         *)
(***************************************************************************)
EXTENDS Integers, Sequences, SequencesExt, TLC,
        FlowWindow, Stream, AckRanges, ReplayWindow

CONSTANTS
  DEFAULT_WINDOW,      \* 16 MiB: the connection-wide credit window
  CHUNK,               \* MAX_PAYLOAD - 14: stream bytes per Data packet
  MAX_STREAMS,         \* SessionLimits.max_streams, 1024
  MAX_DATAGRAM_SIZE,   \* SessionLimits.max_datagram_size, 1200
  MAX_DATAGRAM_QUEUE   \* SessionLimits.max_datagram_queue, 64

ASSUME SessionAssumption ==
  /\ DEFAULT_WINDOW \in Nat
  /\ CHUNK \in Nat \ {0}
  /\ MAX_STREAMS \in Nat
  /\ MAX_DATAGRAM_SIZE \in Nat
  /\ MAX_DATAGRAM_QUEUE \in Nat \ {0}

NoLimit == -1          \* pending_max_data = None

EmptyMap == [x \in {} |-> x]

(* Session::with_limits; role "client" opens odd streams, "server" even. *)
NewSession(role) ==
  [role             |-> role,
   next_pkt_num     |-> 0,
   replay           |-> NewReplay,
   streams          |-> EmptyMap,
   next_stream_id   |-> IF role = "client" THEN 1 ELSE 2,
   send_window      |-> NewWindow(DEFAULT_WINDOW),
   recv_window      |-> NewWindow(DEFAULT_WINDOW),
   recv_consumed    |-> 0,
   pending_max_data |-> NoLimit,
   pending_pong     |-> FALSE,
   pending_ping     |-> FALSE,
   in_flight        |-> EmptyMap,
   dg_send          |-> <<>>,
   dg_recv          |-> <<>>,
   dg_dropped       |-> 0,
   pending_cc_ack   |-> 0,            \* acknowledged packets, 0 is None
   ack_ranges       |-> NewAckRanges]

LocalParity(role) == IF role = "client" THEN 1 ELSE 0

-----------------------------------------------------------------------------
(* Application side *)

(* try_open_stream_with_priority: None when the limit is reached. *)
CanOpenStream(s) == Cardinality(DOMAIN s.streams) < MAX_STREAMS
OpenStream(s, prio) ==
  [s EXCEPT !.streams = (s.next_stream_id :> NewStream(prio)) @@ @,
            !.next_stream_id = @ + 2]

(* Mutant of SessionSend: the credit is checked and not charged. *)
SessionSendUncharged(s, sid, data) ==
  IF ~CanReserve(s.send_window, Len(data))
  THEN [result |-> "FlowControlBlocked", session |-> s]
  ELSE [result |-> "Ok", session |-> [s EXCEPT !.streams[sid] = Write(@, data)]]

(***************************************************************************)
(* Session::send.  The credit is reserved first, and is not given back     *)
(* when the stream then turns out to be unknown, finished or full.         *)
(***************************************************************************)
SessionSend(s, sid, data) ==
  LET charged == [s EXCEPT !.send_window = Reserve(@, Len(data))]
  IN  IF ~CanReserve(s.send_window, Len(data))
      THEN [result |-> "FlowControlBlocked", session |-> s]
      ELSE IF sid \notin DOMAIN s.streams
      THEN [result |-> "UnknownStream", session |-> charged]
      ELSE IF ~CanWrite(s.streams[sid], Len(data))
      THEN [result |-> "StreamRefused", session |-> charged]
      ELSE [result |-> "Ok",
            session |-> [charged EXCEPT !.streams[sid] = Write(@, data)]]

(* Session::finish_stream ignores an unknown stream. *)
FinishStream(s, sid) ==
  IF sid \in DOMAIN s.streams THEN [s EXCEPT !.streams[sid] = Finish(@)] ELSE s

(* Session::read *)
SessionRead(s, sid, max) ==
  LET r == StreamRead(s.streams[sid], max)
  IN  IF sid \notin DOMAIN s.streams
      THEN [result |-> "UnknownStream", out |-> <<>>, session |-> s]
      ELSE [result |-> "Ok", out |-> r.out,
            session |-> [s EXCEPT !.streams[sid] = r.stream]]

(* The entries a full queue of datagrams gives up for the next one, its    *)
(* oldest, and the queue with that one in it.                              *)
Overflow(q) == IF Len(q) < MAX_DATAGRAM_QUEUE THEN 0 ELSE Len(q) + 1 - MAX_DATAGRAM_QUEUE
PushBounded(q, d) == Append(SubSeq(q, Overflow(q) + 1, Len(q)), d)

(* Session::send_datagram: a datagram that is too large is refused. *)
SendDatagram(s, d) ==
  IF d.size > MAX_DATAGRAM_SIZE
  THEN [result |-> "BufferTooSmall", session |-> s]
  ELSE [result  |-> "Ok",
        session |-> [s EXCEPT !.dg_send = PushBounded(@, d),
                              !.dg_dropped = @ + Overflow(s.dg_send)]]

(* DatagramQueue::receive: one that is too large is dropped and not        *)
(* counted, although the session reports it as received.                   *)
ReceiveDatagram(s, d) ==
  IF d.size > MAX_DATAGRAM_SIZE THEN s
  ELSE [s EXCEPT !.dg_recv = PushBounded(@, d), !.dg_dropped = @ + Overflow(s.dg_recv)]

(* Session::recv_datagram *)
RecvDatagram(s) == [out |-> Head(s.dg_recv), session |-> [s EXCEPT !.dg_recv = Tail(@)]]

(* Session::ping *)
QueuePing(s) == [s EXCEPT !.pending_ping = TRUE]

-----------------------------------------------------------------------------
(* Session::flush *)

(* The stream ids in an order flush may visit them: sorted by priority, in *)
(* the order of the hash map, which is arbitrary, within one priority.     *)
FlushOrders(s) ==
  {o \in SetToSeqs(DOMAIN s.streams) :
     \A i, j \in DOMAIN o :
       i < j => s.streams[o[i]].priority <= s.streams[o[j]].priority}

(* The Data frames of one stream: its chunks, then its end mark. *)
StreamFrames(st, sid) ==
  LET Frame(offset, data, fin) ==
        [type |-> "Data", sid |-> sid, offset |-> offset, data |-> data, fin |-> fin]
      chunks == Chunks(st, CHUNK)
  IN  [i \in DOMAIN chunks |-> Frame(chunks[i].offset, chunks[i].data, FALSE)]
        \o (IF OwesFin(st) THEN <<Frame(st.send_offset, <<>>, TRUE)>> ELSE <<>>)

(* Session::has_pending_ack and has_pending_max_data *)
HasPendingAck(s) == s.ack_ranges.ack_pending
HasPendingMaxData(s) == s.pending_max_data # NoLimit

(* The control frames at the end of flush, in the order it emits them. *)
ControlFrames(s) ==
  (IF HasPendingAck(s)
     THEN <<[type |-> "Ack", frame |-> BuildFrame(s.ack_ranges).frame]>> ELSE <<>>)
  \o (IF HasPendingMaxData(s)
        THEN <<[type |-> "MaxData", limit |-> s.pending_max_data]>> ELSE <<>>)
  \o (IF s.pending_pong THEN <<[type |-> "Pong"]>> ELSE <<>>)
  \o (IF s.pending_ping THEN <<[type |-> "Ping"]>> ELSE <<>>)

(* Mutant of Seal: the counter is read and not advanced between packets. *)
SealStuck(next_pkt_num, frames) ==
  [i \in DOMAIN frames |-> [num |-> next_pkt_num] @@ frames[i]]

(* PacketEncoder::encode gives each frame the next packet number. *)
Seal(next_pkt_num, frames) ==
  [i \in DOMAIN frames |-> [num |-> next_pkt_num + i - 1] @@ frames[i]]

(* Mutants of TrackSent: the number is taken after the packet is encoded;  *)
(* end marks are not tracked.                                              *)
TrackSentLate(in_flight, packets) ==
  LET data == {packets[i] : i \in {j \in DOMAIN packets : packets[j].type = "Data"}}
  IN  [n \in {p.num + 1 : p \in data} |-> CHOOSE p \in data : p.num + 1 = n] @@ in_flight

TrackSentNoFin(in_flight, packets) ==
  LET data == {packets[i] : i \in {j \in DOMAIN packets :
                                     packets[j].type = "Data" /\ ~packets[j].fin}}
  IN  [n \in {p.num : p \in data} |-> CHOOSE p \in data : p.num = n] @@ in_flight

(* ArqTracker::on_sent for every Data packet, under the number it got. *)
TrackSent(in_flight, packets) ==
  LET data == {packets[i] : i \in {j \in DOMAIN packets : packets[j].type = "Data"}}
  IN  [n \in {p.num : p \in data} |-> CHOOSE p \in data : p.num = n] @@ in_flight

(* Mutants of DataFrames: the loop over the streams ends after the first;  *)
(* the frames of every stream carry the id of the first.                   *)
DataFramesFirst(s, order) ==
  IF order = <<>> THEN <<>> ELSE StreamFrames(s.streams[order[1]], order[1])

DataFramesMixed(s, order) ==
  FlattenSeq([i \in DOMAIN order |-> StreamFrames(s.streams[order[i]], order[1])])

(* The Data frames of all streams, one stream after the other. *)
DataFrames(s, order) ==
  FlattenSeq([i \in DOMAIN order |-> StreamFrames(s.streams[order[i]], order[i])])

(* Everything flush takes out of the session, and the packets it returns. *)
SessionFlush(s, order) ==
  LET frames  == DataFrames(s, order)
                   \o [i \in DOMAIN s.dg_send |->
                         [type |-> "Datagram", dg |-> s.dg_send[i]]]
                   \o ControlFrames(s)
      packets == Seal(s.next_pkt_num, frames)
  IN  [packets |-> packets,
       session |->
         [s EXCEPT
            !.next_pkt_num     = @ + Len(packets),
            !.streams          = [sid \in DOMAIN @ |-> Drained(@[sid])],
            !.in_flight        = TrackSent(@, packets),
            !.dg_send          = <<>>,
            !.ack_ranges       = BuildFrame(@).ranges,
            !.recv_window      = UpdateLimit(@, s.pending_max_data),
            !.pending_max_data = NoLimit,
            !.pending_pong     = FALSE,
            !.pending_ping     = FALSE]]

(* Session::encode_raw: chaff and path packets, outside ARQ. *)
EncodeRaw(s, type) ==
  [packet  |-> [num |-> s.next_pkt_num, type |-> type],
   session |-> [s EXCEPT !.next_pkt_num = @ + 1]]

-----------------------------------------------------------------------------
(* Session::receive_packet *)

NotAckEliciting == {"Ack", "Chaff", "MaxData", "Pong"}

(* What a call of receive_packet returns; events only when it succeeds. *)
Outcome(s, result, events) == [session |-> s, result |-> result, events |-> events]

(* handle_data_frame, on a session that already counts the packet as       *)
(* received for the next ACK.                                              *)
HandleData(s, pkt) ==
  LET is_new   == pkt.sid \notin DOMAIN s.streams
      consumed == s.recv_consumed + Len(pkt.data)
      counted  == [s EXCEPT
                     !.recv_consumed = consumed,
                     !.pending_max_data =
                        IF consumed * 2 > s.recv_window.limit /\ @ = NoLimit
                        THEN consumed + DEFAULT_WINDOW ELSE @]
      before   == IF is_new THEN NewStream(4) ELSE s.streams[pkt.sid]
      received == StreamReceive(before, pkt.offset, pkt.data, pkt.fin)
      after    == [counted EXCEPT !.streams = (pkt.sid :> received.stream) @@ @]
      events   == (IF is_new THEN <<<<"NewStream", pkt.sid>>>> ELSE <<>>)
                    \o <<<<"DataAvailable", pkt.sid>>>>
                    \o (IF pkt.fin \/ IsRecvFinished(received.stream)
                        THEN <<<<"StreamFinished", pkt.sid>>>> ELSE <<>>)
  IN  IF is_new /\ pkt.sid % 2 = LocalParity(s.role)
      THEN Outcome(s, "ProtocolViolation", <<>>)
      ELSE IF is_new /\ ~CanOpenStream(s)
      THEN Outcome(s, "ProtocolViolation", <<>>)
      ELSE IF received.result # "Ok"
      THEN Outcome(after, received.result, <<>>)
      ELSE Outcome(after, "Ok", events)

(* Mutant of HandleAck: the largest number acknowledges all below it. *)
HandleAckCumulative(s, frame) ==
  [s EXCEPT !.in_flight = [n \in {m \in DOMAIN @ : m > frame.largest} |-> @[n]]]

(* handle_ack_frame: ArqTracker::on_ack for every number of every range. *)
HandleAck(s, frame) ==
  LET acked == Covered(ParseAckFrame(frame))
  IN  [s EXCEPT !.in_flight = [n \in DOMAIN @ \ acked |-> @[n]],
                !.pending_cc_ack = @ + Cardinality(DOMAIN s.in_flight \cap acked)]

(* Session::drain_cc_ack *)
DrainCcAck(s) == [s EXCEPT !.pending_cc_ack = 0]

(* The match on the packet type *)
Dispatch(s, pkt) ==
  CASE pkt.type = "Data"     -> HandleData(s, pkt)
    [] pkt.type = "Ack"      -> Outcome(HandleAck(s, pkt.frame), "Ok", <<>>)
    [] pkt.type = "MaxData"  ->
         Outcome([s EXCEPT !.send_window = UpdateLimit(@, pkt.limit)], "Ok", <<>>)
    [] pkt.type = "Ping"     -> Outcome([s EXCEPT !.pending_pong = TRUE], "Ok", <<>>)
    [] pkt.type = "Datagram" ->
         Outcome(ReceiveDatagram(s, pkt.dg), "Ok", <<<<"DatagramReceived">>>>)
    [] OTHER                 -> Outcome(s, "Ok", <<>>)

(* Mutant of ReceivePacket: the verdict of the window is ignored. *)
ReceivePacketUnchecked(s, pkt) ==
  Dispatch([s EXCEPT !.ack_ranges = OnReceived(@, pkt.num, pkt.type \notin NotAckEliciting)],
           pkt)

(* decode, note the number for the next ACK, dispatch.  A packet that the  *)
(* dispatch then refuses stays acknowledged.                               *)
ReceivePacket(s, pkt) ==
  IF Check(s.replay, pkt.num) # "Ok"
  THEN Outcome(s, Check(s.replay, pkt.num), <<>>)
  ELSE Dispatch([s EXCEPT
                   !.replay = Commit(@, pkt.num).window,
                   !.ack_ranges = OnReceived(@, pkt.num, pkt.type \notin NotAckEliciting)],
                pkt)
=============================================================================
