------------------------------ MODULE L2Parser ------------------------------
(***************************************************************************)
(* venue/l2_parser.{h,cc}: the routes from pairs to receivers, and what    *)
(* the parser thread does with one decoded book change.  The manager's     *)
(* module composes these with the threads around them.                     *)
(*                                                                         *)
(* A book change is named by the venue's stream it belongs to and its      *)
(* place in it (0 is the snapshot); `content` says how the book it leads   *)
(* to compares with the checksum it carries.  A book is the place in a     *)
(* stream it reflects, or unknown once an update was applied to any other  *)
(* book.                                                                   *)
(***************************************************************************)
EXTENDS Integers

CONSTANTS Symbols,       \* The pairs.
          Receivers,     \* The receivers, named by the id of their subscription.
          Depths,        \* The venue's book depths.
          HasChecksum    \* Whether the parser was given a ChecksumCheck.

ASSUME HasChecksumAssumption == HasChecksum \in BOOLEAN

VARIABLES
  routes,   \* routes_: per attached pair, its receiver, gate and book.
  heard     \* What each receiver was last told (see BookStream).

Contract == INSTANCE BookStream

NoBook      == [stream |-> 0, seq |-> 0]
UnknownBook == [stream |-> 0, seq |-> 1]

(* A message's content: unchecked, without a checksum; matches or differs, *)
(* one that agrees with the venue's book or not; malformed, the decoder    *)
(* throws.                                                                 *)
IsSnapshot(m) == m.seq = 0
PlaceOf(m) == [stream |-> m.stream, seq |-> m.seq]

Put(f, x, v) == [y \in DOMAIN f \cup {x} |-> IF y = x THEN v ELSE f[y]]
Without(f, x) == [y \in DOMAIN f \ {x} |-> f[y]]

(* The constructor. *)
ParserInit == routes = << >> /\ Contract!Init

-----------------------------------------------------------------------------
(* Attach(): the caller made sure `symbol` has no receiver. *)
NewRouteOpen(receiver, depth) ==      \* mutant: the gate starts open
  [receiver |-> receiver, depth |-> depth, awaiting |-> FALSE, book |-> NoBook]

NewRoute(receiver, depth) ==
  [receiver |-> receiver, depth |-> depth, awaiting |-> TRUE, book |-> NoBook]

AttachRoute(symbol, receiver, depth) ==
  routes' = Put(routes, symbol, NewRoute(receiver, depth))

(* Detach(). *)
DetachRoute(symbol) == routes' = Without(routes, symbol)

(* Start(): every pair starts over with a snapshot. *)
KeepGates == routes                   \* mutant: the last connection's gates stay

AwaitSnapshots == [s \in DOMAIN routes |-> [routes[s] EXCEPT !.awaiting = TRUE]]

(* FindRoute(), both times the decoder looks: Find() and Emit(). *)
HasRoute(m) ==
  /\ m.symbol \in DOMAIN routes
  /\ IsSnapshot(m) \/ ~routes[m.symbol].awaiting

(* l2::Book::Apply(), by what the book then reflects. *)
Applied(book, m) ==
  IF IsSnapshot(m) \/ (book.stream = m.stream /\ book.seq + 1 = m.seq)
    THEN PlaceOf(m) ELSE UnknownBook

(* The route's book once the change is applied; kept only to be checked. *)
BookAfter(m) ==
  LET book == routes[m.symbol].book
  IN IF HasChecksum THEN Applied(book, m) ELSE book

(* A zero checksum is not checked. *)
ChecksumFails(m) ==
  /\ HasChecksum
  /\ m.content # "unchecked"
  /\ m.content = "differs" \/ BookAfter(m) # PlaceOf(m)

(* Emit() up to Receive(). *)
Deliver(m) ==
  LET s == m.symbol
      r == routes[s].receiver
  IN /\ HasRoute(m)
     /\ ~ChecksumFails(m)
     /\ routes' = [routes EXCEPT ![s].awaiting = FALSE, ![s].book = BookAfter(m)]
     /\ heard' = [heard EXCEPT ![r] =
                    [phase |-> "live", stream |-> m.stream, seq |-> m.seq]]

(* Emit() on a mismatch: the book and the gate are reset, the receiver is   *)
(* told; the caller adds on_mismatch().                                    *)
AfterMismatch(route) == [route EXCEPT !.awaiting = TRUE, !.book = NoBook]

Mismatch(m) ==
  LET s == m.symbol
      r == routes[s].receiver
  IN /\ HasRoute(m)
     /\ ChecksumFails(m)
     /\ routes' = [routes EXCEPT ![s] = AfterMismatch(@)]
     /\ heard' = [heard EXCEPT ![r].phase = "resubscribing"]

(* A change no route takes. *)
Ignore(m) == ~HasRoute(m) /\ UNCHANGED <<routes, heard>>
=============================================================================
