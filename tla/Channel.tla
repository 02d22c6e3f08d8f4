------------------------------ MODULE Channel ------------------------------
(***************************************************************************)
(* What the two users of core/spsc.h rely on: a reliable, ordered, bounded *)
(* channel between one sender and one receiver.  A sent value is in        *)
(* transit until it is received; the receiver sees the values in the order *)
(* they were sent, none twice and none left out.  The channel ends in one  *)
(* of two ways: drained, with nothing left in transit, or broken, because  *)
(* the receiver failed; only then may a value be lost.                     *)
(***************************************************************************)
EXTENDS Integers, Sequences

CONSTANTS Capacity,    \* The most values in transit.
          Values       \* How many values the sender offers, numbered in order.

VARIABLES sent,        \* Every value the channel took, in order.
          received,    \* Every value the receiver took, in order.
          end          \* "open", "drained" or "broken".

vars == <<sent, received, end>>

Init == sent = <<>> /\ received = <<>> /\ end = "open"

(* An unbroken channel takes every value offered; a broken one may lose    *)
(* any, but never reorders them.                                           *)
Send ==
  /\ end # "drained"
  /\ Len(sent) - Len(received) < Capacity
  /\ \E v \in 1..Values :
       /\ \A i \in 1..Len(sent) : sent[i] < v
       /\ end = "open" => v = Len(sent) + 1
       /\ sent' = Append(sent, v)
  /\ UNCHANGED <<received, end>>

Receive ==
  /\ end = "open"
  /\ Len(received) < Len(sent)
  /\ received' = Append(received, sent[Len(received) + 1])
  /\ UNCHANGED <<sent, end>>

Finish ==
  /\ end = "open"
  /\ end' \in {"drained", "broken"}
  /\ end' = "drained" => received = sent
  /\ UNCHANGED <<sent, received>>

Next == Send \/ Receive \/ Finish

Spec == Init /\ [][Next]_vars
=============================================================================
