------------------------------- MODULE Stream -------------------------------
(***************************************************************************)
(* frontend/stream.{h,cc}, outbox.{h,cc} and transmitter.{h,cc}: the books *)
(* of the live subscriptions and the clients watching them.  The parser    *)
(* thread (Receive, OnGap), the manager's lock holder (OnGap, Start, Stop) *)
(* and one command thread per client (Watch, Unwatch) meet in a Stream.    *)
(*                                                                         *)
(* Stream's methods hold its mutex throughout, so each is one step.  The   *)
(* Outbox lets go of its own lock between finding a stream and calling it, *)
(* so its Watch() and Unwatch() are two steps; a watcher's calls come one  *)
(* after the other (its session's strand).  Watcher::Send() only queues,   *)
(* in order; `view` is what a client knows once it has read all it was     *)
(* sent.  The messages a stream receives are BookStream's.                 *)
(***************************************************************************)
EXTENDS Integers, Sequences

CONSTANTS Ids,          \* Ids of live subscriptions.
          Watchers,     \* The client connections.
          MaxMessages,  \* Bound: messages and gaps per stream.
          MaxCalls      \* Bound: Watch() and Unwatch() calls per watcher.

ASSUME StreamBoundsAssumption == MaxMessages \in Nat /\ MaxCalls \in Nat

VARIABLES
  life,        \* Per id: "unused", "live", "detached" from the parser, "gone".
  book,        \* Per id, the place in the venue's streams book_ reflects.
  hasSnapshot, \* Per id, has_snapshot_.
  gapStatus,   \* Per id, gap_status_ while interrupted_, else "none".
  watchers,    \* Per id and watcher, how many entries of watchers_ are its.
  call,        \* Per watcher, the Outbox call it is in.
  wants,       \* Per watcher, the ids it watched and did not unwatch.
  view,        \* Per watcher and id, what the client was told.
  delivered,    \* Bounds the run: messages and gaps per id.
  called       \* Bounds the run: calls per watcher.

bookVars == <<book, hasSnapshot, gapStatus>>
outboxVars == <<life, bookVars, watchers, call, wants, view, delivered, called>>

NoBook == [stream |-> 0, seq |-> 0]
NoCall == [kind |-> "none"]
Untold == [book |-> NoBook, status |-> "none", unannounced |-> FALSE]

StreamInit ==
  /\ life = [id \in Ids |-> "unused"]
  /\ book = [id \in Ids |-> NoBook]
  /\ hasSnapshot = [id \in Ids |-> FALSE]
  /\ gapStatus = [id \in Ids |-> "none"]
  /\ watchers = [id \in Ids |-> [w \in Watchers |-> 0]]
  /\ call = [w \in Watchers |-> NoCall]
  /\ wants = [w \in Watchers |-> {}]
  /\ view = [w \in Watchers |-> [id \in Ids |-> Untold]]
  /\ delivered = [id \in Ids |-> 0]
  /\ called = [w \in Watchers |-> 0]

-----------------------------------------------------------------------------
(* The payloads, and what a client makes of one. *)

StreamInfo        == [kind |-> "info", place |-> NoBook]
FeedStatus(s)     == [kind |-> s, place |-> NoBook]
SnapshotOf(place) == [kind |-> "snapshot", place |-> place]
UpdateTo(place)   == [kind |-> "update", place |-> place]

Continues(place, from) ==
  from # NoBook /\ place = [from EXCEPT !.seq = @ + 1]

(* A StreamInfo starts over; an update that does not continue the book is  *)
(* one the client cannot apply; a snapshot the last status did not         *)
(* announce is noted.                                                      *)
Told(v, payload) ==
  CASE payload.kind = "info" -> Untold
    [] payload.kind = "snapshot" ->
         [v EXCEPT !.book = payload.place,
                   !.unannounced = @ \/ v.status \in {"disconnected", "degraded"}]
    [] payload.kind = "update" ->
         [v EXCEPT !.book = IF Continues(payload.place, @) THEN payload.place ELSE NoBook]
    [] payload.kind \in {"disconnected", "degraded"} ->
         [v EXCEPT !.book = NoBook, !.status = payload.kind]
    [] payload.kind = "live" -> [v EXCEPT !.status = "live"]

(* A call sends one payload or two. *)
ToldAll(v, payloads) ==
  IF Len(payloads) = 1 THEN Told(v, payloads[1]) ELSE Told(Told(v, payloads[1]), payloads[2])

(* SendLocked() of each payload, to every entry of watchers_: a client with *)
(* two is told everything twice, which stands for more as well.            *)
SendLocked(id, payloads) ==
  view' = [w \in Watchers |->
             [view[w] EXCEPT ![id] =
                CASE watchers[id][w] = 0 -> @
                  [] watchers[id][w] = 1 -> ToldAll(@, payloads)
                  [] OTHER -> ToldAll(ToldAll(@, payloads), payloads)]]

-----------------------------------------------------------------------------
(* The subscription: Transmitter, on the manager's and parser's threads. *)

Start(id) ==
  /\ life[id] = "unused"
  /\ life' = [life EXCEPT ![id] = "live"]
  /\ UNCHANGED <<bookVars, watchers, call, wants, view, delivered, called>>

(* Unsubscribe(): detached from the parser first, then destroyed, which    *)
(* unregisters it.                                                         *)
Stop(id) ==
  /\ life[id] \in {"live", "detached"}
  /\ life' = [life EXCEPT ![id] = IF @ = "live" THEN "detached" ELSE "gone"]
  /\ UNCHANGED <<bookVars, watchers, call, wants, view, delivered, called>>

CanTransmit(id) == life[id] = "live" /\ delivered[id] < MaxMessages

(* What a snapshot that ends a gap is announced by. *)
LiveStatus(id) == IF gapStatus[id] = "none" THEN <<>> ELSE <<FeedStatus("live")>>

ReceiveSnapshot(id) ==
  LET place == [stream |-> delivered[id] + 1, seq |-> 0]
  IN /\ CanTransmit(id)
     /\ hasSnapshot' = [hasSnapshot EXCEPT ![id] = TRUE]
     /\ gapStatus' = [gapStatus EXCEPT ![id] = "none"]
     /\ book' = [book EXCEPT ![id] = place]
     /\ SendLocked(id, LiveStatus(id) \o <<SnapshotOf(place)>>)
     /\ delivered' = [delivered EXCEPT ![id] = @ + 1]
     /\ UNCHANGED <<life, watchers, call, wants, called>>

ReceiveUpdate(id) ==
  LET place == [book[id] EXCEPT !.seq = @ + 1]
  IN /\ CanTransmit(id)
     /\ hasSnapshot[id]
     /\ book' = [book EXCEPT ![id] = place]
     /\ SendLocked(id, <<UpdateTo(place)>>)
     /\ delivered' = [delivered EXCEPT ![id] = @ + 1]
     /\ UNCHANGED <<life, hasSnapshot, gapStatus, watchers, call, wants, called>>

(* disconnected_ or resubscribing_. *)
StatusOf(gap) == IF gap = "resubscribing" THEN "degraded" ELSE "disconnected"

Interrupt(id, gap) ==
  /\ CanTransmit(id)
  /\ book' = [book EXCEPT ![id] = NoBook]
  /\ hasSnapshot' = [hasSnapshot EXCEPT ![id] = FALSE]
  /\ gapStatus' = [gapStatus EXCEPT ![id] = StatusOf(gap)]
  /\ SendLocked(id, <<FeedStatus(StatusOf(gap))>>)
  /\ delivered' = [delivered EXCEPT ![id] = @ + 1]
  /\ UNCHANGED <<life, watchers, call, wants, called>>

-----------------------------------------------------------------------------
(* The clients: Outbox::Watch() and Unwatch(). *)

Registered(id) == life[id] \in {"live", "detached"}

(* Find(): what the call goes on with, unless the id is not registered. *)
Find(w, kind, id) ==
  /\ call[w] = NoCall /\ called[w] < MaxCalls
  /\ called' = [called EXCEPT ![w] = @ + 1]
  /\ call' = [call EXCEPT ![w] = IF Registered(id) THEN [kind |-> kind, id |-> id] ELSE NoCall]
  /\ wants' = [wants EXCEPT ![w] = IF kind = "unwatch" THEN @ \ {id} ELSE @]
  /\ UNCHANGED <<life, bookVars, watchers, view, delivered>>

(* What Stream::Watch() sends first. *)
FirstPayloads(id) ==
  <<StreamInfo>> \o
  (IF gapStatus[id] # "none" THEN <<FeedStatus(gapStatus[id])>>
   ELSE IF hasSnapshot[id] THEN <<SnapshotOf(book[id])>>
   ELSE <<>>)

Doubled(id, w) == [watchers[id] EXCEPT ![w] = @ + 1]   \* mutant: not erased first

(* watchers_ once `w` watches: erased first, so at most once. *)
WatchersWith(id, w) == [watchers[id] EXCEPT ![w] = 1]

Watch(w) ==
  LET id == call[w].id
  IN /\ call[w].kind = "watch"
     /\ view' = [view EXCEPT ![w][id] = ToldAll(@, FirstPayloads(id))]
     /\ watchers' = [watchers EXCEPT ![id] = WatchersWith(id, w)]
     /\ wants' = [wants EXCEPT ![w] = @ \cup {id}]
     /\ call' = [call EXCEPT ![w] = NoCall]
     /\ UNCHANGED <<life, bookVars, delivered, called>>

(* watchers_ once Unwatch() returned. *)
StillWatching(id, w) == watchers[id]   \* mutant: not removed

WatchersWithout(id, w) == [watchers[id] EXCEPT ![w] = 0]

Unwatch(w) ==
  LET id == call[w].id
  IN /\ call[w].kind = "unwatch"
     /\ watchers' = [watchers EXCEPT ![id] = WatchersWithout(id, w)]
     /\ call' = [call EXCEPT ![w] = NoCall]
     /\ UNCHANGED <<life, bookVars, wants, view, delivered, called>>

StreamNext ==
  \/ \E id \in Ids :
       \/ Start(id) \/ Stop(id)
       \/ ReceiveSnapshot(id) \/ ReceiveUpdate(id)
       \/ \E gap \in {"disconnected", "resubscribing"} : Interrupt(id, gap)
  \/ \E w \in Watchers :
       \/ \E id \in Ids, kind \in {"watch", "unwatch"} : Find(w, kind, id)
       \/ Watch(w) \/ Unwatch(w)

StreamSpec == StreamInit /\ [][StreamNext]_outboxVars

-----------------------------------------------------------------------------
IsWatching(w, id) == watchers[id][w] > 0

(* "A client can start watching at any time" (stream.h:27): whatever came  *)
(* between its Watch() and now, a client that read all it was sent has the *)
(* stream's book exactly, or knows of the gap it is in, and why; and "a    *)
(* FeedStatus LIVE goes out ahead of the snapshot that ends the gap"       *)
(* (stream.h:35) to every client that was told of it.                      *)
WatchersHaveBook ==
  \A w \in Watchers, id \in Ids :
    /\ IsWatching(w, id) =>
         /\ view[w][id].book = book[id]
         /\ gapStatus[id] # "none" => view[w][id].status = gapStatus[id]
    /\ ~view[w][id].unannounced

(* A stream sends to a client exactly while it watches: Watch() and        *)
(* Unwatch() take effect whatever the stream received or lost in between   *)
(* (stream.h:63).                                                          *)
WatchedAsWanted ==
  \A w \in Watchers, id \in Ids :
    life[id] = "live" /\ call[w] = NoCall =>
      (IsWatching(w, id) <=> id \in wants[w])
=============================================================================
