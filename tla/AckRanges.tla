----------------------------- MODULE AckRanges ------------------------------
(***************************************************************************)
(* session/ack.rs: the set of received packet numbers, the ACK frame built *)
(* from it as descending ranges, and the parser of that frame.  A frame is *)
(* the record of its fields; its bytes are left out.                       *)
(***************************************************************************)
EXTENDS Integers, Sequences, FiniteSets, SequencesExt, FiniteSetsExt

CONSTANT ACK_RETAIN_WINDOW      \* 8192 in the code

ASSUME RetainAssumption == ACK_RETAIN_WINDOW \in Nat

(* AckRanges::new *)
NewAckRanges == [received |-> {}, largest_received |-> 0, ack_pending |-> FALSE]

(* Mutant of PruneBelow: the number at the threshold goes too. *)
PruneBelowInclusive(received, threshold) == {pn \in received : pn > threshold}

(* prune_below: BTreeSet::split_off keeps the numbers at or above it. *)
PruneBelow(received, threshold) == {pn \in received : pn >= threshold}

(* Mutants of OnReceived: the successor of the number is recorded; the debt  *)
(* is overwritten by the last packet; everything below the largest goes.     *)
OnReceivedNext(a, pn, ack_eliciting) ==
  [received |-> a.received \cup {pn + 1}, largest_received |-> pn + 1,
   ack_pending |-> a.ack_pending \/ ack_eliciting]

OnReceivedOverwrites(a, pn, ack_eliciting) ==
  [received |-> a.received \cup {pn},
   largest_received |-> Max({pn, a.largest_received}),
   ack_pending |-> ack_eliciting]

OnReceivedPrunesAll(a, pn, ack_eliciting) ==
  LET largest == Max({pn, a.largest_received})
  IN  [received |-> PruneBelow(a.received \cup {pn}, largest),
       largest_received |-> largest,
       ack_pending |-> a.ack_pending \/ ack_eliciting]

(* AckRanges::on_received *)
OnReceived(a, pn, ack_eliciting) ==
  LET largest == IF pn > a.largest_received \/ a.received = {}
                 THEN pn ELSE a.largest_received
  IN  [received         |-> PruneBelow(a.received \cup {pn},
                                       largest - ACK_RETAIN_WINDOW),
       largest_received |-> largest,
       ack_pending      |-> a.ack_pending \/ ack_eliciting]

(* The downward walk of build_frame, one (start, end) pair per range. *)
ExtendRanges(ranges, pn) ==
  LET cur == Last(ranges)
  IN  IF pn + 1 = cur.start
      THEN Append(Front(ranges), [cur EXCEPT !.start = pn])
      ELSE Append(ranges, [start |-> pn, end |-> pn])

(* received.iter().rev() *)
Descending(S) ==
  [i \in 1 .. Cardinality(S) |-> CHOOSE x \in S : Cardinality({y \in S : y > x}) = i - 1]

RangesOf(received) ==
  LET down == Descending(received)
  IN  FoldLeft(ExtendRanges, <<[start |-> Head(down), end |-> Head(down)]>>, Tail(down))

(* Mutant of FrameOf: the gap counts the end of the next range as well. *)
FrameOfWideGap(received) ==
  LET ranges == RangesOf(received)
  IN  [largest |-> Max(received),
       first_range_length |-> ranges[1].end - ranges[1].start,
       extra |-> [i \in 1 .. Len(ranges) - 1 |->
                    [gap    |-> ranges[i].start - ranges[i + 1].end,
                     length |-> ranges[i + 1].end - ranges[i + 1].start]]]

(* The fields of the payload that build_frame writes. *)
FrameOf(received) ==
  IF received = {}
  THEN [largest |-> 0, first_range_length |-> 0, extra |-> <<>>]
  ELSE LET ranges == RangesOf(received)
       IN  [largest |-> Max(received),
            first_range_length |-> ranges[1].end - ranges[1].start,
            extra |-> [i \in 1 .. Len(ranges) - 1 |->
                         [gap    |-> ranges[i].start - ranges[i + 1].end - 1,
                          length |-> ranges[i + 1].end - ranges[i + 1].start]]]

(* Mutant of BuildFrame: the numbers are given up with the debt. *)
BuildFrameOnce(a) ==
  [frame |-> FrameOf(a.received),
   ranges |-> [a EXCEPT !.ack_pending = FALSE, !.received = {}]]

(* AckRanges::build_frame: the ranges are kept, the debt is cleared. *)
BuildFrame(a) ==
  [frame |-> FrameOf(a.received), ranges |-> [a EXCEPT !.ack_pending = FALSE]]

(* One turn of parse_ack_frame's loop; checked_sub ends it with None, <<>>. *)
ParseExtra(ranges, extra) ==
  LET end   == Last(ranges).start - extra.gap - 1
      start == end - extra.length
  IN  IF ranges = <<>> \/ end < 0 \/ start < 0 THEN <<>>
      ELSE Append(ranges, [start |-> start, end |-> end])

(* parse_ack_frame; None is <<>>, which no frame parses to otherwise. *)
ParseAckFrame(frame) ==
  LET start == Max({0, frame.largest - frame.first_range_length})
  IN  FoldLeft(ParseExtra, <<[start |-> start, end |-> frame.largest]>>,
               frame.extra)

(* The packet numbers that handle_ack_frame takes from the ranges. *)
Covered(ranges) ==
  UNION {ranges[i].start .. ranges[i].end : i \in DOMAIN ranges}
=============================================================================
