---------------------------- MODULE PacketDecoder ---------------------------
(***************************************************************************)
(* PacketDecoder::decode of crypto/decoder.rs, the only place where a      *)
(* datagram from the network meets the anti-replay window: check the       *)
(* number, authenticate the packet, commit the number.  The network hands  *)
(* over genuine packets in any order and any number of times, and packets  *)
(* that fail authentication carrying any number at all.                    *)
(***************************************************************************)
EXTENDS ReplayWindow

CONSTANT Numbers       \* the packet numbers that may be seen on the wire

ASSUME NumbersAssumption == Numbers \subseteq Nat

VARIABLES
  replay,              \* PacketDecoder.replay
  times,               \* history: how often each number has been accepted
  verdict              \* what the last call of decode returned, for which number

decodeVars == <<replay, times, verdict>>

Results == {"none", "Ok", "TooOld", "Replay", "BadTag"}

DecodeInit ==
  /\ replay = NewReplay
  /\ times = [seq \in Numbers |-> 0]
  /\ verdict = [seq |-> 0, result |-> "none"]

(* The read-only check refuses the number before any decryption. *)
DecodeRefused(seq) ==
  /\ Check(replay, seq) # "Ok"
  /\ verdict' = [seq |-> seq, result |-> Check(replay, seq)]
  /\ UNCHANGED <<replay, times>>

(* Mutant of DecodeForged: the number is committed before the tag is checked. *)
DecodeForgedCommits(seq) ==
  /\ Check(replay, seq) = "Ok"
  /\ replay' = Commit(replay, seq).window
  /\ verdict' = [seq |-> seq, result |-> "BadTag"]
  /\ UNCHANGED times

(* decrypt_in_place fails: the peer did not seal these bytes.  A packet of  *)
(* a wrong length or an unknown type is turned away without effect too.    *)
DecodeForged(seq) ==
  /\ Check(replay, seq) = "Ok"
  /\ verdict' = [seq |-> seq, result |-> "BadTag"]
  /\ UNCHANGED <<replay, times>>

(* Authentication succeeds, and only then is the number committed. *)
DecodeGenuine(seq) ==
  LET committed == Commit(replay, seq)
  IN  /\ Check(replay, seq) = "Ok"
      /\ replay' = committed.window
      /\ verdict' = [seq |-> seq, result |-> committed.result]
      /\ times' = IF committed.result = "Ok"
                  THEN [times EXCEPT ![seq] = @ + 1]
                  ELSE times

DecodeNext ==
  \E seq \in Numbers :
    DecodeRefused(seq) \/ DecodeForged(seq) \/ DecodeGenuine(seq)

DecodeSpec == DecodeInit /\ [][DecodeNext]_decodeVars

-----------------------------------------------------------------------------

Accepted == {seq \in Numbers : times[seq] > 0}

DecodeTypeOK ==
  /\ replay \in [base_seq : Nat, bitmap : SUBSET (0 .. WINDOW - 1)]
  /\ times \in [Numbers -> Nat]
  /\ verdict \in [seq : Nat, result : Results]

(***************************************************************************)
(* No packet number is accepted twice, however the network repeats and     *)
(* reorders packets and whatever slides happen between two copies: what    *)
(* the decoder's nonce discipline and the exactly-once processing of a     *)
(* packet rest on.                                                         *)
(***************************************************************************)
AtMostOnce == \A seq \in Numbers : times[seq] <= 1

(***************************************************************************)
(* decode refuses nothing it should take: "Replay" is only said of a       *)
(* number already accepted, "TooOld" only of one that lies a whole window  *)
(* or more below a number accepted earlier.  A forged packet that moved    *)
(* the window would break this, since later genuine packets would be       *)
(* refused without any genuine packet having pushed them out.              *)
(***************************************************************************)
RefusalsJustified ==
  /\ verdict.result = "Replay" => verdict.seq \in Accepted
  /\ verdict.result = "TooOld" =>
       \E high \in Accepted : verdict.seq + WINDOW <= high

(***************************************************************************)
(* The window is a function of the numbers accepted so far: its last slot  *)
(* is the highest of them (or it has not moved), and a slot's bit is set   *)
(* exactly when the number of that slot has been accepted.                 *)
(***************************************************************************)
WindowMirrorsAccepted ==
  /\ \A seq \in Accepted : seq < replay.base_seq + WINDOW
  /\ replay.base_seq = 0 \/ replay.base_seq + WINDOW - 1 \in Accepted
  /\ \A i \in replay.bitmap : replay.base_seq + i \in Accepted
  /\ \A seq \in Accepted :
       seq >= replay.base_seq => seq - replay.base_seq \in replay.bitmap
=============================================================================
