---------------------------- MODULE SessionPair -----------------------------
(***************************************************************************)
(* A client session and a server session joined by a network that loses,   *)
(* duplicates and reorders packets.  Each action is one call that the      *)
(* connection layer or the application makes on a session.  A byte is its  *)
(* stream and its place in it, counted from 1 in the order the application *)
(* writes, so that the bytes read at the other end can be compared.        *)
(***************************************************************************)
EXTENDS Session

CONSTANTS
  OPENS,               \* how many streams each peer opens
  PRIORITIES,          \* the priorities it opens them with
  WRITERS,             \* which peer writes to which stream, <<peer, stream>>
  MAX_BYTES,           \* bytes written per stream and direction
  WRITE_SIZES,         \* sizes of one write
  READ_SIZES,          \* the limits the application passes to read
  DATAGRAM_SIZES,      \* sizes of the datagrams that the applications send
  EXTRAS,              \* which of "Datagram", "Ping" and "Chaff" occur
  MAX_EXTRA,           \* bound: none of them at a peer once its packets and its
                       \* datagrams number this many
  FORGETFUL,           \* does the network forget packets?  A packet that it keeps
                       \* and never delivers again is as good as lost, so safety
                       \* is checked with a network that keeps every packet
  FAIR_NUMBERS         \* the packet numbers fairness speaks of

ASSUME PairAssumption ==
  /\ OPENS \in [{"client", "server"} -> Nat]
  /\ PRIORITIES \subseteq 0 .. 7
  /\ WRITERS \subseteq {"client", "server"} \X Nat
  /\ MAX_BYTES \in Nat
  /\ DATAGRAM_SIZES \subseteq Nat
  /\ EXTRAS \subseteq {"Datagram", "Ping", "Chaff"}
  /\ MAX_EXTRA \in [{"client", "server"} -> Nat]
  /\ FORGETFUL \in BOOLEAN
  /\ FAIR_NUMBERS \subseteq Nat
  /\ WRITE_SIZES \subseteq Nat \ {0}
  /\ READ_SIZES \subseteq Nat \ {0}

VARIABLES
  sess,                \* each peer's Session
  net,                 \* packets in the network, [to, pkt]
  got,                 \* history: bytes each peer's application read, per stream
  eof,                 \* history: streams each peer's application was told ended
  posted,              \* history: how many datagrams each peer has queued
  taken                \* history: the datagrams each application has taken

dgrams == <<posted, taken>>
vars == <<sess, net, got, eof, posted, taken>>

Peers == {"client", "server"}
Other(p) == IF p = "client" THEN "server" ELSE "client"

(* Every stream id that can occur under the bound on opens. *)
StreamIds == {2 * i - 1 : i \in 1 .. OPENS["client"]} \cup {2 * i : i \in 1 .. OPENS["server"]}

Init ==
  /\ sess = [p \in Peers |-> NewSession(p)]
  /\ net = {}
  /\ got = [p \in Peers |-> [sid \in StreamIds |-> <<>>]]
  /\ eof = [p \in Peers |-> {}]
  /\ posted = [p \in Peers |-> 0]
  /\ taken = [p \in Peers |-> <<>>]

-----------------------------------------------------------------------------

Written(sid, from, to) == [i \in 1 .. to - from |-> <<sid, from + i>>]

Put(p, s) == sess' = [sess EXCEPT ![p] = s]

Transmit(p, packets) ==
  net' = net \cup {[to |-> Other(p), pkt |-> packets[i]] : i \in DOMAIN packets}

Opened(p) == {sid \in DOMAIN sess[p].streams : sid % 2 = LocalParity(p)}

Open(p, prio) ==
  /\ Cardinality(Opened(p)) < OPENS[p]
  /\ CanOpenStream(sess[p])
  /\ Put(p, OpenStream(sess[p], prio))
  /\ UNCHANGED <<net, got, eof, dgrams>>

Writable(p, sid) ==
  sid \in DOMAIN sess[p].streams /\ ~sess[p].streams[sid].fin_sent

(* The application writes the next n bytes of a stream it has open.  A     *)
(* write that is refused leaves those bytes with the application.          *)
Send(p, sid, n) ==
  LET start == sess[p].streams[sid].send_offset
      call  == SessionSend(sess[p], sid, Written(sid, start, start + n))
  IN  /\ <<p, sid>> \in WRITERS
      /\ Writable(p, sid)
      /\ start + n <= MAX_BYTES
      /\ Put(p, call.session)
      /\ UNCHANGED <<net, got, eof, dgrams>>

FinishWriting(p, sid) ==
  /\ <<p, sid>> \in WRITERS
  /\ FinishStream(sess[p], sid) # sess[p]
  /\ Put(p, FinishStream(sess[p], sid))
  /\ UNCHANGED <<net, got, eof, dgrams>>

(* A read that fails or finds nothing changes nothing: it is a stutter. *)
Read(p, sid, max) ==
  LET call == SessionRead(sess[p], sid, max)
  IN  /\ call.session # sess[p]
      /\ Put(p, call.session)
      /\ got' = [got EXCEPT ![p][sid] = @ \o call.out]
      /\ UNCHANGED <<net, eof, dgrams>>

(* Would flush return a packet?  A call with nothing pending is a stutter. *)
FlushPending(p) ==
  \/ \E sid \in DOMAIN sess[p].streams :
       sess[p].streams[sid].send_buf # <<>> \/ OwesFin(sess[p].streams[sid])
  \/ sess[p].dg_send # <<>>
  \/ HasPendingAck(sess[p]) \/ HasPendingMaxData(sess[p])
  \/ sess[p].pending_pong \/ sess[p].pending_ping

Flush(p) ==
  /\ FlushPending(p)
  /\ \E order \in FlushOrders(sess[p]) :
       LET call == SessionFlush(sess[p], order)
       IN  Put(p, call.session) /\ Transmit(p, call.packets)
  /\ UNCHANGED <<got, eof, dgrams>>

(* drain_retransmits sends the tracked packets whose RTO has passed again  *)
(* as they were, under the number they already have.  It changes nothing   *)
(* that a property tells apart but the network, so a call that returns     *)
(* several packets is as many steps here, one for each.                    *)
Retransmit(p, n) ==
  /\ net' = net \cup {[to |-> Other(p), pkt |-> sess[p].in_flight[n]]}
  /\ UNCHANGED <<sess, got, eof, dgrams>>

Extra(p, kind) ==
  kind \in EXTRAS /\ sess[p].next_pkt_num + posted[p] < MAX_EXTRA[p]

(* A datagram is its size and the ordinal that its sender gives it.  One   *)
(* that is refused was never sent.                                         *)
QueueDatagram(p, size) ==
  LET call == SendDatagram(sess[p], [ord |-> posted[p] + 1, size |-> size])
  IN  /\ Extra(p, "Datagram")
      /\ Put(p, call.session)
      /\ posted' = IF call.result = "Ok" THEN [posted EXCEPT ![p] = @ + 1] ELSE posted
      /\ UNCHANGED <<net, got, eof, taken>>

TakeDatagram(p) ==
  LET call == RecvDatagram(sess[p])
  IN  /\ sess[p].dg_recv # <<>>
      /\ Put(p, call.session)
      /\ taken' = [taken EXCEPT ![p] = Append(@, call.out.ord)]
      /\ UNCHANGED <<net, got, eof, posted>>

(* maybe_queue_ping: 25 s may have passed since the last send.  A second   *)
(* ping before the next flush changes nothing.                             *)
MayPing(p) == Extra(p, "Ping") /\ ~sess[p].pending_ping

Ping(p) ==
  /\ MayPing(p)
  /\ Put(p, QueuePing(sess[p]))
  /\ UNCHANGED <<net, got, eof, dgrams>>

Chaff(p) ==
  /\ Extra(p, "Chaff")
  /\ Put(p, EncodeRaw(sess[p], "Chaff").session)
  /\ Transmit(p, <<EncodeRaw(sess[p], "Chaff").packet>>)
  /\ UNCHANGED <<got, eof, dgrams>>

(* The network hands over a packet; left is what it then still holds.  The *)
(* connection drains the congestion feedback right after receive_packet.   *)
Receive(p, m, left) ==
  LET call == ReceivePacket(sess[p], m.pkt)
  IN  /\ Put(p, DrainCcAck(call.session))
      /\ eof' = [eof EXCEPT ![p] = @ \cup {sid \in StreamIds :
                    \E i \in DOMAIN call.events : call.events[i] = <<"StreamFinished", sid>>}]
      /\ net' = left
      /\ UNCHANGED <<got, dgrams>>

Deliver(m) == Receive(m.to, m, IF FORGETFUL THEN net \ {m} ELSE net)

Duplicate(m) == FORGETFUL /\ Receive(m.to, m, net)

Lose(m) ==
  /\ FORGETFUL
  /\ net' = net \ {m}
  /\ UNCHANGED <<sess, got, eof, dgrams>>

Application(p) ==
  \/ \E prio \in PRIORITIES : Open(p, prio)
  \/ \E sid \in StreamIds, n \in WRITE_SIZES : Send(p, sid, n)
  \/ \E sid \in StreamIds : FinishWriting(p, sid)
  \/ \E sid \in StreamIds, max \in READ_SIZES : Read(p, sid, max)
  \/ \E size \in DATAGRAM_SIZES : QueueDatagram(p, size)
  \/ TakeDatagram(p)

Timers(p) ==
  \/ Flush(p)
  \/ \E n \in DOMAIN sess[p].in_flight : Retransmit(p, n)
  \/ Ping(p)
  \/ Chaff(p)

Network == \E m \in net : Deliver(m) \/ Duplicate(m) \/ Lose(m)

Next == Network \/ \E p \in Peers : Application(p) \/ Timers(p)

Spec == Init /\ [][Next]_vars

(***************************************************************************)
(* Fairness.  A ticked connection queues a ping after a silence, flushes   *)
(* and retransmits, again and again, and an application reads what its     *)
(* streams hold: weak fairness of Ping, Flush, Retransmit and Read.  Ping, *)
(* Flush and Read disable themselves, so weak fairness of them is the same *)
(* as infinitely many states in which they are disabled; written so, TLC   *)
(* need not run the handlers on every edge.  The rest of a tick, chaff,    *)
(* probes and migration, moves no data, and nothing is assumed of it.  The *)
(* network is lossy but fair: a packet handed to it again and again        *)
(* arrives in the end, and is then no longer new to its receiver.          *)
(***************************************************************************)
InNet(p, n) == \E m \in net : m.to = p /\ m.pkt.num = n

Has(replay, n) == Check(replay, n) = "Replay"

New(p, n) == Check(sess[p].replay, n) = "Ok"

Readable(p, sid) ==
  /\ sid \in DOMAIN sess[p].streams
  /\ \E seg \in sess[p].streams[sid].recv_buf : seg.offset <= sess[p].streams[sid].recv_offset

Fairness(p) ==
  /\ []<>~MayPing(p)
  /\ []<>~FlushPending(p)
  /\ \A n \in FAIR_NUMBERS : WF_vars(n \in DOMAIN sess[p].in_flight /\ Retransmit(p, n))
  /\ \A n \in FAIR_NUMBERS : []<>(InNet(p, n) /\ New(p, n)) => []<>~New(p, n)
  /\ \A sid \in StreamIds : []<>~Readable(p, sid)

FairSpec == Spec /\ \A p \in Peers : Fairness(p)

-----------------------------------------------------------------------------
(* Properties *)

Sent(p, sid) == IF sid \in DOMAIN sess[p].streams THEN sess[p].streams[sid].send_offset ELSE 0
Unsent(p, sid) == IF sid \in DOMAIN sess[p].streams THEN Len(sess[p].streams[sid].send_buf) ELSE 0
Finished(p, sid) == sid \in DOMAIN sess[p].streams /\ sess[p].streams[sid].fin_sent

(* The Data packets of stream sid that p still tracks for retransmission. *)
Tracked(p, sid) ==
  {pkt \in {sess[p].in_flight[n] : n \in DOMAIN sess[p].in_flight} : pkt.sid = sid}

TypeOK ==
  \A p \in Peers :
    /\ sess[p].next_pkt_num \in Nat
    /\ DOMAIN sess[p].streams \subseteq StreamIds
    /\ sess[p].send_window \in [limit : Nat, consumed : Nat]
    /\ sess[p].replay.bitmap \subseteq 0 .. WINDOW - 1
    /\ \A n \in DOMAIN sess[p].in_flight : n < sess[p].next_pkt_num
    /\ eof[p] \subseteq StreamIds

(***************************************************************************)
(* ARQ never lets go of data the receiver does not have: every byte and    *)
(* every end mark that flush has taken from a stream is tracked for        *)
(* retransmission or lies in the receiver's stream, read or buffered.      *)
(***************************************************************************)
NothingForgotten ==
  \A p \in Peers, sid \in StreamIds :
    LET peer    == sess[Other(p)].streams
        held    == IF sid \in DOMAIN peer THEN peer[sid].recv_buf ELSE {}
        bytes   == UNION {ToSet(seg.data) : seg \in held \cup Tracked(p, sid)}
        flushed == Sent(p, sid) - Unsent(p, sid)
    IN  /\ ToSet(Written(sid, 0, flushed)) \subseteq bytes \cup ToSet(got[Other(p)][sid])
        /\ (sid \in DOMAIN sess[p].streams /\ sess[p].streams[sid].fin_flushed) =>
             \/ \E pkt \in Tracked(p, sid) : pkt.fin
             \/ sid \in DOMAIN peer /\ peer[sid].fin_received # NoFin

(***************************************************************************)
(* Between two peers that run this code Stream::read never panics: no      *)
(* segment of the reassembly buffer overlaps another one or ends below the *)
(* bytes already read, so the slice that skips the bytes already read is   *)
(* always within the segment.                                              *)
(***************************************************************************)
SegmentsDisjoint ==
  \A p \in Peers : \A sid \in DOMAIN sess[p].streams :
    LET st == sess[p].streams[sid]
        End(seg) == seg.offset + Len(seg.data)
    IN  /\ \A seg \in st.recv_buf : st.recv_offset <= End(seg)
        /\ \A a, b \in st.recv_buf : a # b => End(a) <= b.offset \/ End(b) <= a.offset

(***************************************************************************)
(* Credit is sound between the two ends: the receiver never counts more    *)
(* bytes than the sender reserved, the sender never holds a limit that the *)
(* receiver has not granted, and so the sender is never more than one      *)
(* window ahead of what the receiver has counted.                          *)
(***************************************************************************)
CreditSound ==
  \A p \in Peers :
    LET send == sess[p].send_window
        recv == sess[Other(p)]
    IN  /\ send.consumed <= send.limit
        /\ recv.recv_consumed <= send.consumed
        /\ send.limit <= recv.recv_window.limit
        /\ recv.recv_window.limit <= recv.recv_consumed + DEFAULT_WINDOW

(***************************************************************************)
(* A lost ACK is made good by the next keepalive.  Retransmissions of a    *)
(* packet that the receiver has are refused as replays and draw no ACK;    *)
(* but in every state, one ping that arrives and whose answer arrives      *)
(* takes from in_flight every packet that the receiver has accepted, since *)
(* build_frame repeats the ranges it retains.                              *)
(***************************************************************************)
Arrived(s, packets) ==
  FoldLeft(LAMBDA acc, pkt : DrainCcAck(ReceivePacket(acc, pkt).session), s, packets)

KeepaliveDrains ==
  \A p \in Peers : \A order \in FlushOrders(sess[p]) :
    LET ping  == SessionFlush(QueuePing(sess[p]), order)
        heard == Arrived(sess[Other(p)], ping.packets)
    IN  \A back \in FlushOrders(heard) :
          LET after == Arrived(ping.session, SessionFlush(heard, back).packets)
          IN  \A n \in DOMAIN after.in_flight : ~Has(heard.replay, n)

(***************************************************************************)
(* The two sessions and the network between them implement one ordered     *)
(* reliable byte channel per stream and direction: every step of every     *)
(* handler is a write, a finish or a read of one channel, or changes       *)
(* nothing a channel shows.                                                *)
(***************************************************************************)
Channels == Peers \X StreamIds

Bytes ==
  INSTANCE ByteStream
    WITH written  <- [c \in Channels |-> Written(c[2], 0, Sent(c[1], c[2]))],
         finished <- {c \in Channels : Finished(c[1], c[2])},
         read     <- [c \in Channels |-> got[Other(c[1])][c[2]]],
         ended    <- {c \in Channels :
                        /\ c[2] \in DOMAIN sess[Other(c[1])].streams
                        /\ IsRecvFinished(sess[Other(c[1])].streams[c[2]])}

ImplementsByteStream == Bytes!Spec

(***************************************************************************)
(* Under fairness every byte that the application wrote is read at the     *)
(* other end, and a finished stream ends there: loss, repetition and       *)
(* reordering only delay the data.                                         *)
(***************************************************************************)
WrittenIsDelivered ==
  \A <<p, sid>> \in WRITERS :
    /\ \A k \in 1 .. MAX_BYTES :
         Sent(p, sid) >= k ~> Len(got[Other(p)][sid]) >= k
    /\ Finished(p, sid) ~>
         /\ sid \in DOMAIN sess[Other(p)].streams
         /\ IsRecvFinished(sess[Other(p)].streams[sid])

(***************************************************************************)
(* A datagram is handed to the application at most once and only if it was *)
(* sent: it may be lost, but copies that the network makes never show.     *)
(***************************************************************************)
DatagramsAtMostOnce ==
  \A p \in Peers :
    /\ ToSet(taken[p]) \subseteq 1 .. posted[Other(p)]
    /\ IsInjective(taken[p])

(***************************************************************************)
(* A packet number seals one packet only: whatever is in the network or    *)
(* kept for retransmission under a number is the same packet, so that no   *)
(* two payloads are ever encrypted under the same nonce.                   *)
(***************************************************************************)
NumberSealsOnePacket ==
  \A p \in Peers :
    LET kept == {[to |-> Other(p), pkt |-> sess[p].in_flight[n]] : n \in DOMAIN sess[p].in_flight}
        out  == {m \in net : m.to = Other(p)} \cup kept
    IN  /\ \A n \in DOMAIN sess[p].in_flight : sess[p].in_flight[n].num = n
        /\ \A a, b \in out : a.pkt.num = b.pkt.num => a = b
        /\ \A m \in out : m.pkt.num < sess[p].next_pkt_num

-----------------------------------------------------------------------------
(* What documents and comments say, and the code does not do *)

(***************************************************************************)
(* StreamFinished reaches the application only when all that the peer      *)
(* wrote has arrived: read_frame_opt takes it for a clean end of session,  *)
(* and the event loop of SeamMux drops the stream's channel on it.         *)
(***************************************************************************)
EofIsComplete ==
  \A p \in Peers : \A sid \in eof[p] :
    ToSet(Written(sid, 0, Sent(Other(p), sid))) \subseteq
      ToSet(got[p][sid]) \cup UNION {ToSet(seg.data) : seg \in sess[p].streams[sid].recv_buf}

(***************************************************************************)
(* MaxData extends the window before the sender stalls for good: a sender  *)
(* that has used up its credit is given more.  A keepalive does not help:  *)
(* neither Ping nor the Pong and the ACK it draws carry credit.            *)
(***************************************************************************)
CreditReturns ==
  \A p \in Peers :
    Available(sess[p].send_window) = 0 ~> Available(sess[p].send_window) > 0
=============================================================================
