----------------------------- MODULE BookStream -----------------------------
(***************************************************************************)
(* What a venue promises each core::Receiver (core/receiver.h): the stream *)
(* a receiver sees opens with a snapshot of the pair's book; every update  *)
(* continues exactly the message received before it; and after OnGap() the *)
(* stream goes on with a snapshot.  A book built from such a stream is     *)
(* always one the venue had.                                               *)
(*                                                                         *)
(* A message is named by the stream it belongs to, numbered by the venue's *)
(* subscriptions to the pair, and by its place in it: 0 is the snapshot    *)
(* that opens the stream.                                                  *)
(***************************************************************************)
EXTENDS Integers

CONSTANT Receivers

VARIABLE heard     \* What each receiver was last told.

(* A receiver's phase: "none" yet; "fresh", and told nothing; "live",      *)
(* "disconnected" or "resubscribing" after Receive() or OnGap(); "gone".   *)
Nothing == [phase |-> "none", stream |-> 0, seq |-> 0]

Init == heard = [r \in Receivers |-> Nothing]

(* What may happen to one receiver, whose state goes from h to g. *)
Open(h, g)  == h.phase = "none" /\ g = [Nothing EXCEPT !.phase = "fresh"]
Snapshot(h, g) ==
  /\ h.phase \in {"fresh", "live", "disconnected", "resubscribing"}
  /\ g.phase = "live" /\ g.seq = 0 /\ g.stream \in Nat
Update(h, g) == h.phase = "live" /\ g = [h EXCEPT !.seq = @ + 1]
Break(h, g) ==
  /\ h.phase \in {"fresh", "live", "disconnected", "resubscribing"}
  /\ \E gap \in {"disconnected", "resubscribing"} : g = [h EXCEPT !.phase = gap]
Close(h, g) ==
  h.phase \notin {"none", "gone"} /\ g = [h EXCEPT !.phase = "gone"]

Next ==
  \A r \in Receivers :
    LET h == heard[r]
        g == heard'[r]
    IN g = h \/ Open(h, g) \/ Snapshot(h, g) \/ Update(h, g) \/ Break(h, g) \/ Close(h, g)

Spec == Init /\ [][Next]_heard
=============================================================================
