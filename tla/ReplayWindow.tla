---------------------------- MODULE ReplayWindow ----------------------------
(***************************************************************************)
(* The anti-replay window of crypto/replay.rs.  A window is a record of    *)
(* the lowest packet number it still tracks and the set of offsets from it *)
(* whose bit is set.  The sixteen 64-bit words that hold those bits in the *)
(* code are the subject of module ReplayBitmap, which implements this one. *)
(***************************************************************************)
EXTENDS Integers

CONSTANT WINDOW        \* 1024 in the code: the number of slots

ASSUME WindowAssumption == WINDOW \in Nat \ {0}

(* ReplayWindow::new *)
NewReplay == [base_seq |-> 0, bitmap |-> {}]

(* ReplayWindow::check: read only, the answer given before decryption. *)
Check(w, seq) ==
  IF seq < w.base_seq THEN "TooOld"
  ELSE IF seq - w.base_seq < WINDOW /\ seq - w.base_seq \in w.bitmap
  THEN "Replay"
  ELSE "Ok"

(* Mutants of SlideFor: one slot too far, and no slide at all. *)
SlideForOneMore(w, seq) ==
  IF seq - w.base_seq >= WINDOW THEN seq - w.base_seq - (WINDOW - 2) ELSE 0

SlideForNever(w, seq) == 0

(* How far commit moves the window so that seq falls on its last slot. *)
SlideFor(w, seq) ==
  IF seq - w.base_seq >= WINDOW THEN seq - w.base_seq - (WINDOW - 1) ELSE 0

(* Mutant of SlideBy: every slide starts from an empty bitmap. *)
SlideByClears(w, n) ==
  [base_seq |-> w.base_seq + n, bitmap |-> IF n > 0 THEN {} ELSE w.bitmap]

(* The window after its first n slots have been shifted out. *)
SlideBy(w, n) ==
  [base_seq |-> w.base_seq + n,
   bitmap   |-> IF n >= WINDOW THEN {}
                ELSE {i \in 0 .. WINDOW - 1 : i + n \in w.bitmap}]

(***************************************************************************)
(* ReplayWindow::commit: the window slides before the bit is tested, and   *)
(* keeps the slide when the bit turns out to be set already.               *)
(***************************************************************************)
Commit(w, seq) ==
  LET slid   == SlideBy(w, SlideFor(w, seq))
      offset == seq - slid.base_seq
  IN  IF seq < w.base_seq THEN [result |-> "TooOld", window |-> w]
      ELSE IF offset \in slid.bitmap THEN [result |-> "Replay", window |-> slid]
      ELSE [result |-> "Ok",
            window |-> [base_seq |-> slid.base_seq,
                        bitmap   |-> slid.bitmap \cup {offset}]]
=============================================================================
