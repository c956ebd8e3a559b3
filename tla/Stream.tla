------------------------------- MODULE Stream -------------------------------
(***************************************************************************)
(* session/stream.rs: one reliable ordered byte stream, its send buffer,   *)
(* its reassembly buffer and the state of its end mark.  Operators take a  *)
(* stream and return the stream after the call, with the call's result.    *)
(***************************************************************************)
EXTENDS Integers, Sequences, FiniteSets, SequencesExt, FiniteSetsExt

CONSTANT
  STREAM_WINDOW        \* Stream::DEFAULT_WINDOW, 16 MiB in the code

ASSUME StreamWindowAssumption == STREAM_WINDOW \in Nat

NoFin == -1            \* fin_received = None

(* Stream::new, with the priority its opener gives it. *)
NewStream(prio) ==
  [priority     |-> prio,
   send_buf     |-> <<>>,
   send_offset  |-> 0,
   recv_offset  |-> 0,
   recv_buf     |-> {},           \* the segments, as [offset, data] records
   fin_received |-> NoFin,
   fin_sent     |-> FALSE,
   fin_flushed  |-> FALSE]

(* Stream::write: refused after finish and past the stream's window, which *)
(* nothing in the program ever extends.                                    *)
CanWrite(s, n) == ~s.fin_sent /\ s.send_offset + n <= STREAM_WINDOW
Write(s, data) == [s EXCEPT !.send_buf = @ \o data, !.send_offset = @ + Len(data)]

(* Stream::finish *)
Finish(s) == [s EXCEPT !.fin_sent = TRUE]

(* Mutant of Chunks: the offset is computed after split_to. *)
ChunksAfterSplit(s, max_bytes) ==
  LET first == s.send_offset - Len(s.send_buf)
      count == (Len(s.send_buf) + max_bytes - 1) \div max_bytes
      Upto(i) == Min({i * max_bytes, Len(s.send_buf)})
  IN  [i \in 1 .. count |->
         [offset |-> first + Upto(i),
          data   |-> SubSeq(s.send_buf, (i - 1) * max_bytes + 1, Upto(i))]]

(***************************************************************************)
(* Stream::poll_send called until it returns None: the chunks in order,    *)
(* each at the stream offset it was written to.                            *)
(***************************************************************************)
Chunks(s, max_bytes) ==
  LET first == s.send_offset - Len(s.send_buf)
      count == (Len(s.send_buf) + max_bytes - 1) \div max_bytes
      Upto(i) == Min({i * max_bytes, Len(s.send_buf)})
  IN  [i \in 1 .. count |->
         [offset |-> first + (i - 1) * max_bytes,
          data   |-> SubSeq(s.send_buf, (i - 1) * max_bytes + 1, Upto(i))]]

(* should_send_fin once the buffer is drained, and mark_fin_flushed. *)
OwesFin(s) == s.fin_sent /\ ~s.fin_flushed
Drained(s) == [s EXCEPT !.send_buf = <<>>, !.fin_flushed = @ \/ s.fin_sent]

(* BTreeMap::insert replaces the segment already held at the offset. *)
InsertSegment(buf, offset, data) ==
  {seg \in buf : seg.offset # offset} \cup {[offset |-> offset, data |-> data]}

(***************************************************************************)
(* Stream::receive.  The end mark is recorded first, and is kept when the  *)
(* segment is then refused.                                                *)
(***************************************************************************)
StreamReceive(s, offset, data, is_fin) ==
  LET high   == offset + Len(data)
      marked == IF is_fin THEN [s EXCEPT !.fin_received = high] ELSE s
  IN  IF data = <<>> \/ high <= s.recv_offset
      THEN [result |-> "Ok", stream |-> marked]
      ELSE IF high > STREAM_WINDOW
      THEN [result |-> "FlowControlBlocked", stream |-> marked]
      ELSE [result |-> "Ok",
            stream |-> [marked EXCEPT !.recv_buf = InsertSegment(@, offset, data)]]

(* Mutant of ReadSegment: a gap does not end the loop. *)
ReadSegmentPastGap(acc, seg) ==
  LET take == Min({Len(seg.data), acc.room})
  IN  IF acc.room = 0 THEN acc
      ELSE [out    |-> acc.out \o SubSeq(seg.data, 1, take),
            room   |-> acc.room - take,
            stream |-> [acc.stream EXCEPT !.recv_offset = @ + take,
                                          !.recv_buf = @ \ {seg}]]

(***************************************************************************)
(* One turn of the loop of Stream::read.  The segment is removed from the  *)
(* buffer even when only the beginning of it fits into the caller's limit. *)
(***************************************************************************)
ReadSegment(acc, seg) ==
  LET skip == acc.stream.recv_offset - seg.offset
      take == Min({Len(seg.data) - skip, acc.room})
  IN  IF acc.room = 0 \/ skip < 0 THEN acc
      ELSE [out    |-> acc.out \o SubSeq(seg.data, skip + 1, skip + take),
            room   |-> acc.room - take,
            stream |-> [acc.stream EXCEPT !.recv_offset = @ + take,
                                          !.recv_buf = @ \ {seg}]]

(* recv_buf.iter(): by ascending offset *)
Ascending(buf) ==
  [i \in 1 .. Cardinality(buf) |->
     CHOOSE a \in buf : Cardinality({b \in buf : b.offset < a.offset}) = i - 1]

(* Stream::read: the segments are visited from the lowest offset on, and   *)
(* past a gap none of them qualifies.                                      *)
StreamRead(s, max_bytes) ==
  FoldLeft(ReadSegment,
           [out |-> <<>>, room |-> max_bytes, stream |-> s],
           Ascending(s.recv_buf))

(* Mutant of IsRecvFinished: the end mark alone counts. *)
IsRecvFinishedEarly(s) == s.fin_received # NoFin

(* Stream::is_recv_finished *)
IsRecvFinished(s) == s.fin_received # NoFin /\ s.recv_offset >= s.fin_received
=============================================================================
