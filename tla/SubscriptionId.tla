--------------------------- MODULE SubscriptionId ---------------------------
(***************************************************************************)
(* venue/manager.h: how an id names its subscription.  An id is an         *)
(* unsigned integer whose most significant part is a counter, followed by  *)
(* a byte for the venue and a byte for the sink.  The shifts and masks are *)
(* products, quotients and remainders, taken modulo the integer's width.   *)
(***************************************************************************)
EXTENDS Integers

CONSTANT MaxCounter    \* kMaxSubscriptionsAllowed: 2^48 - 1.

ASSUME MaxCounterAssumption == MaxCounter \in Nat \ {0}

Byte == 0..255
Counters == 1..MaxCounter

(* u64: the counter's 48 bits and the two bytes. *)
Width == (MaxCounter + 1) * 65536

MakeSubscriptionId(counter, venue, sink) ==
  (counter * 65536 + venue * 256 + sink) % Width

VenueAndCounterOf(id) == id \div 256        \* mutant: the counter is not masked

VenueOf(id)   == (id \div 256) % 256
SinkOf(id)    == id % 256
=============================================================================
