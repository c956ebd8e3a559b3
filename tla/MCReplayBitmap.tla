--------------------------- MODULE MCReplayBitmap ---------------------------
EXTENDS ReplayBitmap

(* Three words of two bits: slides by less than a word, by whole words, by *)
(* words and bits, and past the whole window.                              *)
MCNumbers == 0 .. 8 \cup {11}
=============================================================================
