--------------------------- MODULE CoinbaseDecoder ---------------------------
(***************************************************************************)
(* coinbase/l2_decoder.{h,cc}: the frames of one connection, and the book  *)
(* changes they become.  Coinbase sends no checksum; a frame lost on its   *)
(* way must show in the numbers the frames carry, and end the connection,  *)
(* before any later book change gets out.                                  *)
(*                                                                         *)
(* The venue and the wire are external: the venue numbers its frames, and  *)
(* on the way to us one may be lost, damaged, repeated or overtaken.  A    *)
(* frame has a channel and, for book changes, events: the products they    *)
(* change, in order, or "bad" for one that cannot be decoded.              *)
(***************************************************************************)
EXTENDS Integers, Sequences, SequencesExt

CONSTANTS Products,    \* The product ids with a route whose gate is open.
          Others,      \* Product ids no route takes.
          MaxFrames,   \* Bound: frames the venue sends.
          MaxFaults    \* Bound: frames lost, damaged, repeated or overtaken.

ASSUME DecoderAssumption == MaxFrames \in Nat /\ MaxFaults \in Nat

VARIABLES
  sent,           \* The frames the venue sent, in order.
  numbered,       \* How many of them have a number.
  heartbeats,     \* How many of them were heartbeats.
  wire,           \* The frames on their way.
  lastSequence,   \* last_sequence_, 0 for none.
  lastHeartbeat,  \* last_heartbeat_, 0 for none.
  emitted,        \* The book changes given to Output::Emit(), in order, by frame.
  failed,         \* Whether Decode() threw: the pipeline failed.
  first,          \* The number of the first frame followed, 0 for none.
  faults          \* Bounds the run.

decoderVars == <<lastSequence, lastHeartbeat, emitted, failed, first>>
vars == <<sent, numbered, heartbeats, wire, decoderVars, faults>>

None == 0

Init ==
  /\ sent = <<>> /\ numbered = 0 /\ heartbeats = 0 /\ wire = <<>>
  /\ lastSequence = None /\ lastHeartbeat = None
  /\ emitted = <<>> /\ failed = FALSE /\ first = None /\ faults = 0

-----------------------------------------------------------------------------
(* The venue and the wire. *)

Events == {<<p>> : p \in Products \cup Others \cup {"bad"}}
            \cup {<<p, q>> : p, q \in Products \cup Others \cup {"bad"}}

(* What every connection asks for: heartbeats come whatever is subscribed. *)
ConnectRequests == {"heartbeats"}

Channels == ConnectRequests \cup {"l2_data", "other", "error"}

(* The venue sends a frame under the connection's next number, from 1; an  *)
(* error report has none.  A heartbeat carries a counter of its own, which *)
(* skips if the venue lost one, and book changes before they were numbered.*)
Send(channel, events, skips) ==
  /\ Len(sent) < MaxFrames
  /\ heartbeats' = IF channel = "heartbeats" THEN heartbeats + 1 + skips ELSE heartbeats
  /\ numbered' = IF channel = "error" THEN numbered ELSE numbered + 1
  /\ LET frame == [channel |-> channel, events |-> events, counter |-> heartbeats',
                   sequence |-> IF channel = "error" THEN None ELSE numbered']
     IN sent' = Append(sent, frame) /\ wire' = Append(wire, frame)
  /\ UNCHANGED decoderVars

VenueSends ==
  /\ \/ \E events \in Events : Send("l2_data", events, 0)
     \/ \E channel \in Channels \ {"l2_data"} : Send(channel, <<>>, 0)
  /\ UNCHANGED faults

HeartbeatSkips ==
  /\ faults < MaxFaults /\ faults' = faults + 1
  /\ Send("heartbeats", <<>>, 1)

(* A frame lacks its events or a heartbeat its counter, or its number too, *)
(* or has something else in their place.                                   *)
Mistyped(frame) ==
  {[frame EXCEPT !.channel = "mistyped", !.sequence = number] :
   number \in {None, frame.sequence}}

(* A frame is lost, is no JSON, lacks a member, comes twice, or comes      *)
(* after the next one.                                                     *)
Disturb ==
  /\ faults < MaxFaults
  /\ faults' = faults + 1
  /\ \E i \in 1..Len(wire) :
       \/ wire' = RemoveAt(wire, i)
       \/ wire' = ReplaceAt(wire, i, [wire[i] EXCEPT !.channel = "garbled"])
       \/ \E frame \in Mistyped(wire[i]) : wire' = ReplaceAt(wire, i, frame)
       \/ wire' = InsertAt(wire, i, wire[i])
       \/ i < Len(wire) /\ wire' = ReplaceAt(ReplaceAt(wire, i, wire[i + 1]), i + 1, wire[i])
  /\ UNCHANGED <<sent, numbered, heartbeats, decoderVars>>

-----------------------------------------------------------------------------
(* Decode(), on the parser thread. *)

(* Advance(): the number is out of order, or skips past the next. *)
OutOfOrder(last, next) == last # None /\ next <= last

NeverSkips(last, next) == FALSE             \* mutant: a skip is not an error
SkipsTwo(last, next) == last # None /\ next > last + 2   \* mutant: off by one

Skips(last, next) == last # None /\ next > last + 1

Advances(last, next) == ~OutOfOrder(last, next) /\ ~Skips(last, next)

(* The changes of a frame, by their place in it, up to the first event that *)
(* cannot be decoded; a product nobody asked for is passed over.           *)
Changes(frame) ==
  {i \in DOMAIN frame.events :
     frame.events[i] \in Products /\ \A j \in 1..i : frame.events[j] # "bad"}

Emission(frame) == [sequence |-> frame.sequence, changes |-> Changes(frame)]

Throws(frame) == \E i \in DOMAIN frame.events : frame.events[i] = "bad"

(* What a frame whose number follows holds: a heartbeat's counter must     *)
(* follow as well, and the events of "l2_data" are emitted one by one.     *)
LookInto(frame) ==
  CASE frame.channel = "heartbeats" /\ OutOfOrder(lastHeartbeat, frame.counter) ->
         UNCHANGED <<lastHeartbeat, emitted, failed>>
    [] frame.channel = "heartbeats" /\ Skips(lastHeartbeat, frame.counter) ->
         failed' = TRUE /\ UNCHANGED <<lastHeartbeat, emitted>>
    [] frame.channel = "heartbeats" /\ Advances(lastHeartbeat, frame.counter) ->
         lastHeartbeat' = frame.counter /\ UNCHANGED <<emitted, failed>>
    [] frame.channel = "l2_data" ->
         /\ emitted' = Append(emitted, Emission(frame))
         /\ failed' = Throws(frame)
         /\ UNCHANGED lastHeartbeat
    [] frame.channel = "other" -> UNCHANGED <<lastHeartbeat, emitted, failed>>

(* Not JSON, or an error report: no number is looked at.                   *)
Ignore(frame) ==
  /\ frame.channel \in {"garbled", "error"}
  /\ UNCHANGED <<lastSequence, lastHeartbeat, emitted, failed, first>>

(* A member that is looked at is missing or of another type: it throws,    *)
(* unless the number says that the frame comes too late.  The numbers it   *)
(* may have stored by then are not read again.                             *)
Reject(frame) ==
  /\ frame.channel = "mistyped"
  /\ failed' = (frame.sequence = None \/ ~OutOfOrder(lastSequence, frame.sequence))
  /\ UNCHANGED <<lastSequence, lastHeartbeat, emitted, first>>

(* Any other frame: its number must follow the last one; then it is looked *)
(* into.                                                                   *)
Follow(frame) ==
  /\ frame.channel \notin {"garbled", "error", "mistyped"}
  /\ CASE OutOfOrder(lastSequence, frame.sequence) ->
            UNCHANGED <<lastSequence, lastHeartbeat, emitted, failed, first>>
       [] Skips(lastSequence, frame.sequence) ->
            failed' = TRUE /\ UNCHANGED <<lastSequence, lastHeartbeat, emitted, first>>
       [] Advances(lastSequence, frame.sequence) ->
            /\ lastSequence' = frame.sequence
            /\ first' = IF first = None THEN frame.sequence ELSE first
            /\ LookInto(frame)

Decode ==
  /\ ~failed /\ wire # <<>>
  /\ Ignore(Head(wire)) \/ Reject(Head(wire)) \/ Follow(Head(wire))
  /\ wire' = Tail(wire)
  /\ UNCHANGED <<sent, numbered, heartbeats, faults>>

Next == VenueSends \/ HeartbeatSkips \/ Disturb \/ Decode

Spec == Init /\ [][Next]_vars

-----------------------------------------------------------------------------
(* "A gap is one for every product" (l2_decoder.h:21): whatever was lost,  *)
(* damaged, repeated or overtaken on the way, what was emitted is an       *)
(* unbroken run of the venue's changes from the first frame followed on:   *)
(* none out of order or twice, none of another frame, none missing.        *)
BookFrames == {i \in DOMAIN sent : sent[i].channel = "l2_data" /\ sent[i].sequence >= first}

EmittedUnbroken ==
  \A k \in DOMAIN emitted :
    /\ \E i \in BookFrames : emitted[k] = Emission(sent[i])
    /\ \A l \in DOMAIN emitted : k < l => emitted[k].sequence < emitted[l].sequence
    /\ \A i \in BookFrames : sent[i].sequence < emitted[k].sequence =>
         \E l \in DOMAIN emitted : emitted[l] = Emission(sent[i])

(* "The heartbeat_counter must not skip" (l2_decoder.h:23): nothing of a   *)
(* frame behind a heartbeat that skipped is emitted.                       *)
Heartbeats == {i \in DOMAIN sent : sent[i].channel = "heartbeats"}

SkipsAt(i, j) ==
  /\ i < j /\ ~\E k \in Heartbeats : i < k /\ k < j
  /\ sent[j].counter > sent[i].counter + 1

NothingPastLostHeartbeat ==
  \A i, j \in Heartbeats :
    SkipsAt(i, j) /\ first # None /\ first <= sent[i].sequence =>
      \A k \in DOMAIN emitted : emitted[k].sequence < sent[j].sequence
=============================================================================
