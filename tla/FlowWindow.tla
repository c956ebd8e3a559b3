----------------------------- MODULE FlowWindow -----------------------------
(***************************************************************************)
(* session/flow.rs: a credit window, the bytes consumed so far and the     *)
(* limit up to which they may grow.  Both are u64 counters of bytes that   *)
(* were really sent, far from wrapping, and are natural numbers here.      *)
(***************************************************************************)
EXTENDS Integers

(* FlowWindow::new *)
NewWindow(initial) == [limit |-> initial, consumed |-> 0]

(* FlowWindow::reserve succeeds when the credit covers the whole request. *)
CanReserve(w, bytes) == w.consumed + bytes <= w.limit
Reserve(w, bytes) == [w EXCEPT !.consumed = @ + bytes]

(* FlowWindow::update_limit never lowers the limit. *)
UpdateLimit(w, new_limit) ==
  IF new_limit > w.limit THEN [w EXCEPT !.limit = new_limit] ELSE w

(* FlowWindow::available *)
Available(w) == w.limit - w.consumed
=============================================================================
