--------------------------- MODULE PacketReceiver ---------------------------
(***************************************************************************)
(* The receiving end of a session at work: what PacketDecoder::decode lets *)
(* through is passed to AckRanges::on_received, and an ACK frame is built  *)
(* whenever Session::flush finds one owed.                                 *)
(***************************************************************************)
EXTENDS PacketDecoder, AckRanges

VARIABLES
  ack,                 \* Session.ack_ranges
  owed                 \* history: ack-eliciting numbers no frame has covered

vars == <<replay, times, verdict, ack, owed>>

Init ==
  /\ DecodeInit
  /\ ack = NewAckRanges
  /\ owed = {}

(* receive_packet returns the error of decode before anything else. *)
Refuse(seq) ==
  /\ DecodeRefused(seq) \/ DecodeForged(seq)
  /\ UNCHANGED <<ack, owed>>

(* A genuine packet, of a type that elicits an ACK or of one that does not. *)
Receive(pn, ack_eliciting) ==
  /\ DecodeGenuine(pn)
  /\ ack' = IF verdict'.result = "Ok" THEN OnReceived(ack, pn, ack_eliciting) ELSE ack
  /\ owed' = IF verdict'.result = "Ok" /\ ack_eliciting THEN owed \cup {pn} ELSE owed

(* The ACK part of Session::flush. *)
Acknowledge ==
  LET built == BuildFrame(ack)
  IN  /\ ack.ack_pending
      /\ ack' = built.ranges
      /\ owed' = owed \ Covered(ParseAckFrame(built.frame))
      /\ UNCHANGED <<replay, times, verdict>>

Next ==
  \/ \E seq \in Numbers : Refuse(seq)
  \/ \E pn \in Numbers, ack_eliciting \in BOOLEAN : Receive(pn, ack_eliciting)
  \/ Acknowledge

Spec == Init /\ [][Next]_vars

-----------------------------------------------------------------------------

TypeOK ==
  /\ DecodeTypeOK
  /\ ack \in [received : SUBSET Numbers, largest_received : Nat, ack_pending : BOOLEAN]
  /\ owed \subseteq Accepted

(***************************************************************************)
(* What build_frame writes, parse_ack_frame reads back: the ranges of a    *)
(* frame cover exactly the received numbers, for every pattern of gaps.    *)
(***************************************************************************)
FrameRoundTrips ==
  ack.received # {} =>
    Covered(ParseAckFrame(FrameOf(ack.received))) = ack.received

(***************************************************************************)
(* on_received forgets a number only once it is further below the largest  *)
(* one than ACK_RETAIN_WINDOW, so the tracked set stays bounded and loses  *)
(* nothing inside the bound.                                               *)
(***************************************************************************)
RetainsRecent ==
  ack.received = {pn \in Accepted : pn >= ack.largest_received - ACK_RETAIN_WINDOW}

(***************************************************************************)
(* A packet that got past the anti-replay window is tracked when           *)
(* on_received returns: pruning never drops the very number it was called  *)
(* for, however far behind the largest one it is.  This needs the retained *)
(* window to be no smaller than the anti-replay window, the relation that  *)
(* the comment on ACK_RETAIN_WINDOW states between the two constants.      *)
(***************************************************************************)
TrackedOnArrival ==
  [][\A pn \in Numbers : times'[pn] > times[pn] => pn \in ack'.received]_vars

(***************************************************************************)
(* A frame settles the debt it is built for: after it, every ACK-eliciting *)
(* packet still unacknowledged arrived after the frame or had already been *)
(* pruned, and while one inside the retained window waits a frame is owed. *)
(***************************************************************************)
DebtIsRemembered == owed \cap ack.received # {} => ack.ack_pending
=============================================================================
