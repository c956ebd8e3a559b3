----------------------------- MODULE ByteStream -----------------------------
(***************************************************************************)
(* What a Seam stream promises its application in one direction: an        *)
(* ordered reliable byte channel (docs/architecture.md, "Each stream is an *)
(* independent ordered reliable byte channel").  The writer appends bytes  *)
(* until it finishes the channel; the reader takes them in order; the      *)
(* channel ends for the reader when it is finished and all has been read.  *)
(* Nothing here knows of packets, numbers or acknowledgements.             *)
(***************************************************************************)
EXTENDS Integers, Sequences

CONSTANT Channels      \* the directions of all streams

VARIABLES
  written,             \* the bytes accepted from the writer, per channel
  finished,            \* the channels their writer has finished
  read,                \* the bytes handed to the reader, per channel
  ended                \* the channels whose end the reader has reached

vars == <<written, finished, read, ended>>

Init ==
  /\ written = [c \in Channels |-> <<>>]
  /\ finished = {}
  /\ read = [c \in Channels |-> <<>>]
  /\ ended = {}

Extends(longer, shorter) ==
  /\ Len(longer) >= Len(shorter)
  /\ SubSeq(longer, 1, Len(shorter)) = shorter

(* The writer appends some bytes to an unfinished channel. *)
Write(c) ==
  /\ c \notin finished
  /\ Extends(written'[c], written[c])
  /\ written' = [written EXCEPT ![c] = written'[c]]
  /\ UNCHANGED <<finished, read, ended>>

Finish(c) ==
  /\ finished' = finished \cup {c}
  /\ UNCHANGED <<written, read, ended>>

(* The reader takes the next bytes, may learn of the end, or both. *)
Read(c) ==
  /\ Extends(read'[c], read[c])
  /\ Extends(written[c], read'[c])
  /\ read' = [read EXCEPT ![c] = read'[c]]
  /\ ended' \in {ended, ended \cup {c}}
  /\ c \in ended' => c \in finished /\ read'[c] = written[c]
  /\ UNCHANGED <<written, finished>>

Next == \E c \in Channels : Write(c) \/ Finish(c) \/ Read(c)

Spec == Init /\ [][Next]_vars
=============================================================================
