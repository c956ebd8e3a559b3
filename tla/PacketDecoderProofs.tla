------------------------- MODULE PacketDecoderProofs ------------------------
(***************************************************************************)
(* Proofs about PacketDecoder for every window size and every set of       *)
(* packet numbers.  The invariant that carries them says that the window   *)
(* mirrors the accepted numbers and that none was accepted twice.          *)
(***************************************************************************)
EXTENDS PacketDecoder, TLAPS

IInv == DecodeTypeOK /\ AtMostOnce /\ WindowMirrorsAccepted /\ RefusalsJustified

(***************************************************************************)
(* What commit does to a window that check has just found free for seq: it *)
(* succeeds, the new window reaches seq, and above its base it has exactly *)
(* the bits of the old window and the one for seq.                         *)
(***************************************************************************)
LEMMA CommitAfterCheck ==
  ASSUME NEW w \in [base_seq : Nat, bitmap : SUBSET (0 .. WINDOW - 1)],
         NEW seq \in Nat,
         Check(w, seq) = "Ok"
  PROVE  LET c == Commit(w, seq)
         IN  /\ c.result = "Ok"
             /\ c.window \in [base_seq : Nat, bitmap : SUBSET (0 .. WINDOW - 1)]
             /\ c.window.base_seq = w.base_seq + SlideFor(w, seq)
             /\ SlideFor(w, seq) \in Nat
             /\ seq < c.window.base_seq + WINDOW
             /\ seq >= c.window.base_seq
             /\ SlideFor(w, seq) > 0 => c.window.base_seq + WINDOW - 1 = seq
             /\ c.window.bitmap =
                  {i \in 0 .. WINDOW - 1 : i + SlideFor(w, seq) \in w.bitmap}
                     \cup {seq - c.window.base_seq}
<1> DEFINE n == SlideFor(w, seq)
           slid == SlideBy(w, n)
           offset == seq - slid.base_seq
           kept == {i \in 0 .. WINDOW - 1 : i + n \in w.bitmap}
<1>1. /\ w.base_seq \in Nat
      /\ w.bitmap \in SUBSET (0 .. WINDOW - 1)
  OBVIOUS
<1>2. seq >= w.base_seq /\ ~(seq - w.base_seq < WINDOW /\ seq - w.base_seq \in w.bitmap)
  BY <1>1 DEF Check
<1>3. n \in Nat
  BY <1>1, <1>2, WindowAssumption DEF SlideFor
<1>4. slid.bitmap = kept
  <2>1. CASE n >= WINDOW
    BY <2>1, <1>1, <1>3, WindowAssumption DEF SlideBy
  <2>2. CASE ~(n >= WINDOW)
    BY <2>2 DEF SlideBy
  <2> QED BY <2>1, <2>2
<1>5. slid.base_seq = w.base_seq + n
  BY DEF SlideBy
<1>6. /\ offset \in 0 .. WINDOW - 1
      /\ n > 0 => slid.base_seq + WINDOW - 1 = seq
  BY <1>1, <1>2, <1>5, WindowAssumption DEF SlideFor
<1>7. offset \notin kept
  <2>1. CASE seq - w.base_seq >= WINDOW
    <3>1. offset + n = seq - w.base_seq
      BY <1>1, <1>3, <1>5
    <3> QED BY <2>1, <3>1, <1>1, WindowAssumption
  <2>2. CASE ~(seq - w.base_seq >= WINDOW)
    <3>1. offset + n = seq - w.base_seq
      BY <1>1, <1>3, <1>5
    <3> QED BY <2>2, <3>1, <1>1, <1>2, WindowAssumption
  <2> QED BY <2>1, <2>2
<1>8. Commit(w, seq) =
        [result |-> "Ok",
         window |-> [base_seq |-> w.base_seq + n, bitmap |-> kept \cup {offset}]]
  BY <1>1, <1>2, <1>4, <1>5, <1>7 DEF Commit
<1> DEFINE c == Commit(w, seq)
<1>9. /\ c.result = "Ok"
      /\ c.window.base_seq = w.base_seq + n
      /\ c.window.bitmap = kept \cup {offset}
      /\ c.window = [base_seq |-> w.base_seq + n, bitmap |-> kept \cup {offset}]
  <2> HIDE DEF n, slid, offset, kept
  <2> QED BY <1>8
<1>10. c.window \in [base_seq : Nat, bitmap : SUBSET (0 .. WINDOW - 1)]
  BY <1>1, <1>3, <1>6, <1>9
<1>11. /\ seq < c.window.base_seq + WINDOW
       /\ seq >= c.window.base_seq
       /\ n > 0 => c.window.base_seq + WINDOW - 1 = seq
  BY <1>1, <1>3, <1>5, <1>6, <1>9, WindowAssumption
<1> QED
  BY <1>3, <1>5, <1>9, <1>10, <1>11

(* The decoder starts with an empty window and nothing accepted. *)
LEMMA InitIInv == DecodeInit => IInv
BY WindowAssumption, NumbersAssumption
   DEF DecodeInit, IInv, DecodeTypeOK, AtMostOnce, WindowMirrorsAccepted,
       RefusalsJustified, NewReplay, Accepted, Results

(* A refused packet leaves the window alone, and its refusal is justified. *)
LEMMA RefusedIInv ==
  ASSUME IInv, NEW seq \in Numbers, DecodeRefused(seq)
  PROVE  IInv'
<1>1. seq \in Nat /\ seq + 0 = seq
  BY NumbersAssumption
<1>2. DecodeTypeOK' /\ AtMostOnce' /\ WindowMirrorsAccepted'
  BY <1>1 DEF DecodeRefused, IInv, DecodeTypeOK, AtMostOnce, WindowMirrorsAccepted,
              Accepted, Check, Results
<1>3. Accepted' = Accepted
  BY DEF DecodeRefused, Accepted
<1>4. verdict'.result = "Replay" => verdict'.seq \in Accepted
  BY <1>1 DEF DecodeRefused, IInv, DecodeTypeOK, WindowMirrorsAccepted, Check
<1>5. verdict'.result = "TooOld" =>
        \E high \in Accepted : verdict'.seq + WINDOW <= high
  BY <1>1, WindowAssumption
     DEF DecodeRefused, IInv, DecodeTypeOK, WindowMirrorsAccepted, Check
<1> QED BY <1>2, <1>3, <1>4, <1>5 DEF IInv, RefusalsJustified

(* A forged packet changes nothing but the answer. *)
LEMMA ForgedIInv ==
  ASSUME IInv, NEW seq \in Numbers, DecodeForged(seq)
  PROVE  IInv'
BY NumbersAssumption
   DEF DecodeForged, IInv, DecodeTypeOK, AtMostOnce, WindowMirrorsAccepted,
       RefusalsJustified, Accepted, Results

(* A genuine packet is accepted for the first time. *)
LEMMA GenuineIInv ==
  ASSUME IInv, NEW seq \in Numbers, DecodeGenuine(seq)
  PROVE  IInv' /\ times[seq] = 0 /\ verdict'.result = "Ok"
<1> DEFINE n == SlideFor(replay, seq)
<1>1. /\ seq \in Nat
      /\ replay \in [base_seq : Nat, bitmap : SUBSET (0 .. WINDOW - 1)]
      /\ Check(replay, seq) = "Ok"
      /\ times \in [Numbers -> Nat]
  BY NumbersAssumption DEF DecodeGenuine, IInv, DecodeTypeOK
<1>2. /\ Commit(replay, seq).result = "Ok"
      /\ replay' \in [base_seq : Nat, bitmap : SUBSET (0 .. WINDOW - 1)]
      /\ replay'.base_seq = replay.base_seq + n
      /\ n \in Nat
      /\ seq < replay'.base_seq + WINDOW
      /\ seq >= replay'.base_seq
      /\ n > 0 => replay'.base_seq + WINDOW - 1 = seq
      /\ replay'.bitmap =
           {i \in 0 .. WINDOW - 1 : i + n \in replay.bitmap}
             \cup {seq - replay'.base_seq}
  BY <1>1, CommitAfterCheck DEF DecodeGenuine
<1>3. /\ times' = [times EXCEPT ![seq] = @ + 1]
      /\ verdict' = [seq |-> seq, result |-> "Ok"]
  BY <1>2 DEF DecodeGenuine
<1>4. times[seq] = 0
  BY <1>1, WindowAssumption
     DEF IInv, WindowMirrorsAccepted, Accepted, Check
<1>5. Accepted' = Accepted \cup {seq}
  BY <1>1, <1>3, <1>4 DEF Accepted
<1>6. DecodeTypeOK'
  BY <1>1, <1>2, <1>3 DEF DecodeTypeOK, Results
<1>7. AtMostOnce'
  BY <1>1, <1>3, <1>4 DEF AtMostOnce, IInv
<1>8. RefusalsJustified'
  BY <1>3 DEF RefusalsJustified
<1>9. WindowMirrorsAccepted'
  <2>0. /\ \A s \in Accepted : s \in Nat /\ s < replay.base_seq + WINDOW
        /\ replay.base_seq \in Nat
    BY <1>1, NumbersAssumption DEF IInv, WindowMirrorsAccepted, Accepted
  <2>1. \A s \in Accepted' : s < replay'.base_seq + WINDOW
    BY <1>2, <1>5, <2>0, WindowAssumption
  <2>2. replay'.base_seq = 0 \/ replay'.base_seq + WINDOW - 1 \in Accepted'
    <3>1. CASE n > 0
      BY <3>1, <1>2, <1>5
    <3>2. CASE n = 0
      BY <3>2, <1>1, <1>2, <1>5, <2>0 DEF IInv, WindowMirrorsAccepted
    <3> QED BY <1>2, <3>1, <3>2
  <2>3. \A i \in replay'.bitmap : replay'.base_seq + i \in Accepted'
    <3> SUFFICES ASSUME NEW i \in replay'.bitmap
                 PROVE  replay'.base_seq + i \in Accepted'
      OBVIOUS
    <3>1. i \in 0 .. WINDOW - 1
      BY <1>2
    <3>2. CASE i = seq - replay'.base_seq
      BY <3>2, <1>1, <1>2, <1>5
    <3>3. CASE i + n \in replay.bitmap
      <4>1. replay.base_seq + (i + n) \in Accepted
        BY <3>3 DEF IInv, WindowMirrorsAccepted
      <4>2. replay'.base_seq + i = replay.base_seq + (i + n)
        BY <3>1, <1>2, <2>0
      <4> QED BY <4>1, <4>2, <1>5
    <3> QED BY <1>2, <3>2, <3>3
  <2>4. \A s \in Accepted' :
          s >= replay'.base_seq => s - replay'.base_seq \in replay'.bitmap
    <3> SUFFICES ASSUME NEW s \in Accepted, s >= replay'.base_seq
                 PROVE  s - replay'.base_seq \in replay'.bitmap
      BY <1>2, <1>5
    <3>1. s >= replay.base_seq
      BY <1>2, <2>0
    <3>2. s - replay.base_seq \in replay.bitmap
      BY <3>1 DEF IInv, WindowMirrorsAccepted
    <3>3. (s - replay'.base_seq) + n = s - replay.base_seq
      BY <1>2, <2>0
    <3>4. s - replay'.base_seq \in 0 .. WINDOW - 1
      BY <1>2, <1>5, <2>0, <2>1, WindowAssumption
    <3> QED BY <1>2, <3>2, <3>3, <3>4
  <2> QED BY <2>1, <2>2, <2>3, <2>4 DEF WindowMirrorsAccepted
<1> QED BY <1>2, <1>3, <1>4, <1>6, <1>7, <1>8, <1>9 DEF IInv

(* The invariant holds throughout. *)
THEOREM DecoderInvariant == DecodeSpec => []IInv
<1>1. IInv /\ [DecodeNext]_decodeVars => IInv'
  <2> SUFFICES ASSUME IInv, [DecodeNext]_decodeVars PROVE IInv'
    OBVIOUS
  <2>1. CASE DecodeNext
    BY <2>1, RefusedIInv, ForgedIInv, GenuineIInv DEF DecodeNext
  <2>2. CASE UNCHANGED decodeVars
    BY <2>2 DEF decodeVars, IInv, DecodeTypeOK, AtMostOnce, WindowMirrorsAccepted,
                RefusalsJustified, Accepted
  <2> QED BY <2>1, <2>2
<1> QED BY <1>1, InitIInv, PTL DEF DecodeSpec

(***************************************************************************)
(* For every window size no packet number is ever accepted twice by        *)
(* PacketDecoder::decode.                                                  *)
(***************************************************************************)
THEOREM DecodesAtMostOnce == DecodeSpec => []AtMostOnce
BY DecoderInvariant, PTL DEF IInv

(***************************************************************************)
(* For every window size PacketDecoder::decode refuses a number only when  *)
(* it was accepted before or when a number a window above it was.          *)
(***************************************************************************)
THEOREM RefusesOnlyJustified == DecodeSpec => []RefusalsJustified
BY DecoderInvariant, PTL DEF IInv

(* The window always mirrors the accepted numbers, whatever was forged.    *)
THEOREM WindowIsMirror == DecodeSpec => []WindowMirrorsAccepted
BY DecoderInvariant, PTL DEF IInv
=============================================================================
