---------------------------- MODULE ReplayBitmap ----------------------------
(***************************************************************************)
(* The anti-replay window as crypto/replay.rs stores it: WORDS machine     *)
(* words of BITS bits each, shifted word by word with the carry of the     *)
(* next word when the window slides.  A word is the set of its one bits.   *)
(* Module PacketDecoder is what this representation must implement.        *)
(***************************************************************************)
EXTENDS Integers

CONSTANTS
  WORDS,               \* 16 in the code
  BITS,                \* 64 in the code
  Numbers              \* the packet numbers that may be seen on the wire

ASSUME BitmapAssumption ==
  /\ WORDS \in Nat \ {0}
  /\ BITS \in Nat \ {0}
  /\ Numbers \subseteq Nat

VARIABLES
  base_seq,            \* ReplayWindow.base_seq
  words,               \* ReplayWindow.bitmap
  times, verdict       \* as in PacketDecoder

vars == <<base_seq, words, times, verdict>>

SLOTS == WORDS * BITS

ZeroWords == [i \in 0 .. WORDS - 1 |-> {}]

(* bitmap[word] & (1u64 << bit) != 0 *)
BitSet(ws, pos) == pos % BITS \in ws[pos \div BITS]

(* u64 >> n and u64 << n *)
ShiftRight(word, n) == {b \in 0 .. BITS - 1 : b + n \in word}
ShiftLeft(word, n) == {b \in 0 .. BITS - 1 : b - n \in word}

(* Mutant of ShiftWords: the carry of the next word is dropped. *)
ShiftWordsNoCarry(ws, slide) ==
  [i \in 0 .. WORDS - 1 |->
     IF i + slide \div BITS < WORDS
     THEN ShiftRight(ws[i + slide \div BITS], slide % BITS) ELSE {}]

(* The loop of commit that fills new_bitmap. *)
ShiftWords(ws, slide) ==
  LET word_shift == slide \div BITS
      bit_shift  == slide % BITS
      Slot(src)  == ShiftRight(ws[src], bit_shift)
                      \cup IF bit_shift > 0 /\ src + 1 < WORDS
                           THEN ShiftLeft(ws[src + 1], BITS - bit_shift)
                           ELSE {}
  IN  [i \in 0 .. WORDS - 1 |->
         IF i + word_shift < WORDS THEN Slot(i + word_shift) ELSE {}]

WordsCheck(seq) ==
  IF seq < base_seq THEN "TooOld"
  ELSE IF seq - base_seq < SLOTS /\ BitSet(words, seq - base_seq) THEN "Replay"
  ELSE "Ok"

WordsCommit(seq) ==
  LET offset == seq - base_seq
      slide  == IF offset >= SLOTS THEN offset - (SLOTS - 1) ELSE 0
      slid   == IF slide = 0 THEN words
                ELSE IF slide >= SLOTS THEN ZeroWords
                ELSE ShiftWords(words, slide)
      pos    == offset - slide
  IN  IF seq < base_seq
      THEN [result |-> "TooOld", base |-> base_seq, words |-> words]
      ELSE IF BitSet(slid, pos)
      THEN [result |-> "Replay", base |-> base_seq + slide, words |-> slid]
      ELSE [result |-> "Ok", base |-> base_seq + slide,
            words |-> [slid EXCEPT ![pos \div BITS] = @ \cup {pos % BITS}]]

Init ==
  /\ base_seq = 0
  /\ words = ZeroWords
  /\ times = [seq \in Numbers |-> 0]
  /\ verdict = [seq |-> 0, result |-> "none"]

Refused(seq) ==
  /\ WordsCheck(seq) # "Ok"
  /\ verdict' = [seq |-> seq, result |-> WordsCheck(seq)]
  /\ UNCHANGED <<base_seq, words, times>>

Forged(seq) ==
  /\ WordsCheck(seq) = "Ok"
  /\ verdict' = [seq |-> seq, result |-> "BadTag"]
  /\ UNCHANGED <<base_seq, words, times>>

Genuine(seq) ==
  LET c == WordsCommit(seq)
  IN  /\ WordsCheck(seq) = "Ok"
      /\ base_seq' = c.base
      /\ words' = c.words
      /\ verdict' = [seq |-> seq, result |-> c.result]
      /\ times' = IF c.result = "Ok" THEN [times EXCEPT ![seq] = @ + 1] ELSE times

Next == \E seq \in Numbers : Refused(seq) \/ Forged(seq) \/ Genuine(seq)

Spec == Init /\ [][Next]_vars

-----------------------------------------------------------------------------

(* The window this bitmap stands for: the positions of its one bits.       *)
Flat ==
  INSTANCE PacketDecoder
    WITH WINDOW <- SLOTS,
         replay <- [base_seq |-> base_seq,
                    bitmap |-> {pos \in 0 .. SLOTS - 1 : BitSet(words, pos)}]

(***************************************************************************)
(* The array of words with its shifts and carries behaves, call for call,  *)
(* as the single row of bits that PacketDecoder describes: commit loses no *)
(* bit at a word boundary and invents none.                                *)
(***************************************************************************)
ImplementsFlatWindow == Flat!DecodeSpec
=============================================================================
