----------------------------- MODULE L2Manager -----------------------------
(***************************************************************************)
(* venue/l2_manager.{h,cc} with the threads of one venue around it: the    *)
(* callers of Subscribe() and Unsubscribe() (the front end's command       *)
(* threads), the caller of Connect() (the Router's supervisor), the feed's *)
(* network thread (net/websocket_feed.cc), the parser thread               *)
(* (venue/l2_parser.cc) and the resubscriber thread.                       *)
(*                                                                         *)
(* What runs under life_cycle_mutex_ without waiting for another thread is *)
(* one step.  DisconnectLocked() waits twice, for the network thread and   *)
(* for the parser thread, so it is three steps, and the mutex is held in   *)
(* between: `lifeCycle` says where its holder is.  Storing stop_ is part   *)
(* of the first step: a read that completes after the store, before the    *)
(* network thread polls stop_ again, is the same run with the read first,  *)
(* as the holder did nothing yet that another thread sees.                 *)
(*                                                                         *)
(* The venue and the wire are external.  The wire to us is merged with the *)
(* network thread's read: frames on the wire when a connection ends are    *)
(* frames the venue did not send.                                          *)
(***************************************************************************)
EXTENDS L2Parser, Sequences, FiniteSets

CONSTANTS Recordings,     \* The ids with SinkOf(id) = kRecord; the others are kLive.
          QueueCapacity,  \* kMaxQueuedFrames.
          MaxSeq,         \* Bound: updates the venue sends per stream.
          MaxFaults       \* Bound: failed connections, bad frames and Disconnect()s.

ASSUME RecordingsAssumption == Recordings \subseteq Receivers
ASSUME BoundsAssumption ==
  QueueCapacity \in Nat \ {0} /\ MaxSeq \in Nat /\ MaxFaults \in Nat

Ids == Receivers

VARIABLES
  calls,        \* Where the Subscribe() call with each id is.
  subscriptions,\* subscriptions_: the book of each subscribed id.
  connected,    \* connected_.
  lifeCycle,    \* Where the holder of life_cycle_mutex_ is, or "free".
  operation,    \* Which call the holder is in.
  failed,       \* status_.failed.
  queue,        \* raw_frames_queue_.
  parser,       \* The parser thread.
  network,      \* The network thread.
  inHand,       \* The frame the network thread is pushing, if any.
  stopFeed,     \* The feed's stop_.
  requests,     \* Sent, and not handled by the venue yet.
  venue,        \* External: the venue's stream of each pair.
  opened,       \* External: how many streams of each pair the venue opened.
  pending,      \* pending_resubscribes_.
  resubscriber, \* The resubscriber thread: "waiting", "ended" or its pair.
  resubscribed, \* The pairs in its last_resubscribed.
  destroying,   \* Whether the destructor runs.
  faults        \* Bounds the run; counts up to MaxFaults.

feedVars == <<failed, queue, network, inHand, stopFeed, requests, venue, opened, faults>>
parserVars == <<routes, heard, parser>>
resubscriberVars == <<pending, resubscriber, resubscribed>>
lifeCycleVars == <<connected, lifeCycle, operation, destroying>>
subscriptionVars == <<calls, subscriptions>>

vars == <<feedVars, parserVars, resubscriberVars, lifeCycleVars, subscriptionVars>>

Book == [symbol : Symbols, depth : Depths]
NoCall == [state |-> "none"]
NotStreaming == [stream |-> 0, depth |-> 0, next |-> 0]

Init ==
  /\ ParserInit
  /\ calls = [id \in Ids |-> NoCall] /\ subscriptions = << >>
  /\ connected = FALSE /\ lifeCycle = "free" /\ operation = "none"
  /\ failed = FALSE /\ queue = <<>> /\ parser = "stopped"
  /\ network = "stopped" /\ inHand = <<>> /\ stopFeed = FALSE /\ requests = <<>>
  /\ venue = [s \in Symbols |-> NotStreaming] /\ opened = [s \in Symbols |-> 0]
  /\ pending = <<>> /\ resubscriber = "waiting" /\ resubscribed = {}
  /\ destroying = FALSE /\ faults = 0

(* What a venue adapter's MakeBookRequest() asks for. *)
MakeBookRequest(kind, book) ==
  [kind |-> kind, symbol |-> book.symbol, depth |-> book.depth]

(* SendLocked(). *)
Send(texts) == requests' = IF connected THEN requests \o texts ELSE requests

-----------------------------------------------------------------------------
(* Subscriptions, under life_cycle_mutex_. *)

(* FindSymbolLocked(). *)
SubscribersOf(symbol) ==
  {id \in DOMAIN subscriptions : subscriptions[id].symbol = symbol}

RecordedAtAnyDepth(taken, id, book) ==   \* mutant: the depth is not compared
  taken \in Recordings /\ id \in Recordings

NeverShared(taken, id, book) == FALSE    \* mutant: a second recording is refused

IsRecordedAs(taken, id, book) ==
  taken \in Recordings /\ id \in Recordings /\ subscriptions[taken] = book

(* ResolveTakenLocked(): what Subscribe() answers if the symbol is taken.  *)
(* The ids are the Router's, never used twice, so it does not throw.       *)
Answer(id, book) ==
  {IF IsRecordedAs(taken, id, book)
     THEN [state |-> "answered", book |-> book, id |-> taken, error |-> "none"]
     ELSE [state |-> "answered", book |-> book, id |-> id, error |-> "kSymbolInUse"] :
   taken \in SubscribersOf(book.symbol)}

(* Subscribe() up to the precision fetch, which runs unlocked. *)
Subscribe(id, book) ==
  /\ lifeCycle = "free" /\ ~destroying
  /\ calls[id].state = "none"
  /\ \E call \in IF Answer(id, book) = {} THEN {[state |-> "fetching", book |-> book]}
                                          ELSE Answer(id, book) :
       calls' = [calls EXCEPT ![id] = call]
  /\ UNCHANGED <<subscriptions, feedVars, parserVars, resubscriberVars, lifeCycleVars>>

(* The fetch fails, with an error or by throwing, or make_receiver throws: *)
(* nothing was changed.                                                    *)
SubscribeFails(id) ==
  /\ calls[id].state = "fetching"
  /\ calls' = [calls EXCEPT ![id] = [state |-> "answered", book |-> @.book,
                                     id |-> id, error |-> "failed"]]
  /\ UNCHANGED <<subscriptions, feedVars, parserVars, resubscriberVars, lifeCycleVars>>

(* The checks again, once the precision is there. *)
NotCheckedAgain(id, book) == {}       \* mutant: one check, before the fetch

TakenMeanwhile(id, book) == Answer(id, book)

(* The rest of Subscribe(). *)
SubscribeFetched(id) ==
  LET book == calls[id].book
      taken == TakenMeanwhile(id, book)
  IN /\ lifeCycle = "free"
     /\ calls[id].state = "fetching"
     /\ IF taken # {}
          THEN /\ \E call \in taken : calls' = [calls EXCEPT ![id] = call]
               /\ UNCHANGED <<subscriptions, routes, heard, requests>>
          ELSE /\ calls' = [calls EXCEPT ![id] =
                              [state |-> "answered", book |-> book, id |-> id, error |-> "none"]]
               /\ subscriptions' = Put(subscriptions, id, book)
               /\ AttachRoute(book.symbol, id, book.depth)
               /\ heard' = [heard EXCEPT ![id].phase = "fresh"]
               /\ Send(<<MakeBookRequest("subscribe", book)>>)
     /\ UNCHANGED <<failed, queue, network, inHand, stopFeed, venue, opened, faults, parser,
                    resubscriberVars, lifeCycleVars>>

(* What Unsubscribe() sends. *)
NoUnsubscribe(id) == <<>>             \* mutant: the venue is not told

UnsubscribeRequests(id) == <<MakeBookRequest("unsubscribe", subscriptions[id])>>

(* Unsubscribe(). *)
Unsubscribe(id) ==
  /\ lifeCycle = "free" /\ ~destroying
  /\ id \in DOMAIN subscriptions
  /\ DetachRoute(subscriptions[id].symbol)
  /\ Send(UnsubscribeRequests(id))
  /\ subscriptions' = Without(subscriptions, id)
  /\ heard' = [heard EXCEPT ![id].phase = "gone"]
  /\ UNCHANGED <<calls, failed, queue, network, inHand, stopFeed, venue, opened, faults, parser,
                 resubscriberVars, lifeCycleVars>>

-----------------------------------------------------------------------------
(* Connecting and disconnecting, holding life_cycle_mutex_. *)

Healthy == connected /\ ~failed

(* DisconnectLocked() tells the feed to stop, and joins its thread next. *)
BeginDisconnect(op) ==
  /\ lifeCycle = "free"
  /\ lifeCycle' = "joinFeed"
  /\ operation' = op
  /\ stopFeed' = TRUE
  /\ UNCHANGED <<connected, failed, queue, network, inHand, requests, venue, opened,
                 parserVars, subscriptionVars>>

(* Connect() on a manager that is not healthy. *)
Connect ==
  /\ ~destroying /\ ~Healthy
  /\ BeginDisconnect("connect")
  /\ UNCHANGED <<destroying, faults, resubscriberVars>>

(* Disconnect(), which counts as a fault of the run to bound it. *)
Disconnect ==
  /\ ~destroying /\ faults < MaxFaults
  /\ faults' = faults + 1
  /\ BeginDisconnect("disconnect")
  /\ UNCHANGED <<destroying, resubscriberVars>>

(* ~L2Manager() requests the resubscriber's stop.  No call is running. *)
Destroy ==
  /\ ~destroying /\ lifeCycle = "free"
  /\ \A id \in Ids : calls[id].state # "fetching"
  /\ destroying' = TRUE
  /\ UNCHANGED <<connected, lifeCycle, operation, feedVars, parserVars, resubscriberVars,
                 subscriptionVars>>

(* It has joined, so nothing sends on the connection being torn down. *)
DestroyDisconnects ==
  /\ destroying /\ resubscriber = "ended"
  /\ BeginDisconnect("destroy")
  /\ UNCHANGED <<destroying, faults, resubscriberVars>>

(* The network thread has ended: the connection is closed, and the parser  *)
(* thread is told to stop.                                                 *)
JoinFeed ==
  /\ lifeCycle = "joinFeed"
  /\ network \in {"stopped", "ended"}
  /\ network' = "stopped"
  /\ requests' = <<>>
  /\ venue' = [s \in Symbols |-> NotStreaming]
  /\ lifeCycle' = "joinParser"
  /\ UNCHANGED <<connected, operation, destroying, failed, queue, inHand, stopFeed, opened, faults,
                 parserVars, resubscriberVars, subscriptionVars>>

(* Drain() returned, or had failed before; its frames are stale. *)
WaitsUntilDrained == queue = <<>>     \* mutant: joins a parser that failed as well

ParserEnded == parser # "running" \/ queue = <<>>

(* The receivers OnGap(kDisconnected) is called on. *)
Disconnected == IF connected THEN DOMAIN subscriptions ELSE {}

(* raw_frames_queue_.reset(): only a parser that failed leaves frames.      *)
FramesKept == queue                   \* mutant: not reset

FramesLeft == <<>>

JoinParser ==
  /\ lifeCycle = "joinParser"
  /\ ParserEnded
  /\ parser' = "stopped"
  /\ queue' = FramesLeft
  /\ heard' = [r \in Receivers |-> IF r \in Disconnected
                                     THEN [heard[r] EXCEPT !.phase = "disconnected"]
                                     ELSE heard[r]]
  /\ connected' = FALSE
  /\ lifeCycle' = CASE operation = "connect" -> "connectFeed"
                    [] operation = "disconnect" -> "free"
                    [] operation = "destroy" -> "destroyed"
  /\ UNCHANGED <<operation, destroying, failed, network, inHand, stopFeed, requests, venue, opened,
                 faults, routes, resubscriberVars, subscriptionVars>>

(* What a new connection sends: a subscribe per subscription, by id.  The  *)
(* order of the ids is immaterial, so any order stands for the flat_map's. *)
IsSubscribeAll(texts) ==
  /\ Len(texts) = Cardinality(DOMAIN subscriptions)
  /\ \A id \in DOMAIN subscriptions :
       \E i \in 1..Len(texts) : texts[i] = MakeBookRequest("subscribe", subscriptions[id])

SubscribeAlls ==
  {texts \in [1..Cardinality(DOMAIN subscriptions) ->
                {MakeBookRequest("subscribe", subscriptions[id]) : id \in DOMAIN subscriptions}] :
     IsSubscribeAll(texts)}

(* The rest of Connect(): the parser starts, the feed connects. *)
ConnectFeed ==
  /\ lifeCycle = "connectFeed"
  /\ lifeCycle' = "free"
  /\ failed' = FALSE
  /\ routes' = AwaitSnapshots
  /\ parser' = "running"
  /\ network' = "reading" /\ stopFeed' = FALSE
  /\ connected' = TRUE
  /\ requests' \in SubscribeAlls
  /\ UNCHANGED <<operation, destroying, queue, inHand, venue, opened, faults, heard,
                 resubscriberVars, subscriptionVars>>

(* feed_.Connect() throws: the parser stops again, and Connect() rethrows. *)
ConnectFeedThrows ==
  /\ lifeCycle = "connectFeed"
  /\ lifeCycle' = "free"
  /\ failed' = FALSE
  /\ routes' = AwaitSnapshots
  /\ UNCHANGED <<connected, operation, destroying, queue, network, inHand, stopFeed, requests,
                 venue, opened, faults, parser, heard, resubscriberVars, subscriptionVars>>

-----------------------------------------------------------------------------
(* The network thread. *)

networkUnchanged == <<parserVars, resubscriberVars, lifeCycleVars, subscriptionVars>>

(* It writes the next request, and the venue handles it (external).  The   *)
(* venue opens a stream for a pair it does not stream, and refuses others. *)
VenueHandles ==
  /\ network = "reading" /\ ~stopFeed
  /\ requests # <<>>
  /\ LET r == Head(requests)
         s == r.symbol
         opens == r.kind = "subscribe" /\ venue[s].stream = 0
         closes == r.kind = "unsubscribe" /\ venue[s].depth = r.depth
     IN /\ opened' = IF opens THEN [opened EXCEPT ![s] = @ + 1] ELSE opened
        /\ venue' = [venue EXCEPT ![s] =
             CASE opens -> [stream |-> opened'[s], depth |-> r.depth, next |-> 0]
               [] closes -> NotStreaming
               [] OTHER -> @]
  /\ requests' = Tail(requests)
  /\ UNCHANGED <<failed, queue, network, inHand, stopFeed, faults, networkUnchanged>>

(* Next() returns the venue's next frame, which may come without a         *)
(* checksum or with one our book will not match, or be one the decoder     *)
(* throws on.                                                              *)
ReadFrame(s) ==
  /\ network = "reading" /\ ~stopFeed
  /\ venue[s].stream > 0 /\ venue[s].next <= MaxSeq
  /\ \E content \in {"unchecked"}
                    \cup (IF HasChecksum THEN {"matches"} ELSE {})
                    \cup (IF faults < MaxFaults THEN {"malformed"} ELSE {})
                    \cup (IF faults < MaxFaults /\ HasChecksum THEN {"differs"} ELSE {}) :
       /\ inHand' = <<[symbol |-> s, stream |-> venue[s].stream,
                       seq |-> venue[s].next, content |-> content]>>
       /\ faults' = IF content \in {"malformed", "differs"} THEN faults + 1 ELSE faults
  /\ venue' = [venue EXCEPT ![s].next = @ + 1]
  /\ network' = "pushing"
  /\ UNCHANGED <<failed, queue, stopFeed, requests, opened, networkUnchanged>>

(* PushBlocking(frames_, ..., status_.failed), see Spsc. *)
PushFrame ==
  /\ network = "pushing"
  /\ \/ Len(queue) < QueueCapacity /\ queue' = queue \o inHand
     \/ Len(queue) = QueueCapacity /\ failed /\ UNCHANGED queue
  /\ inHand' = <<>>
  /\ network' = "reading"
  /\ UNCHANGED <<failed, stopFeed, requests, venue, opened, faults, networkUnchanged>>

(* stop_ is set: Next() closes the connection, and Run() returns. *)
StopNetwork ==
  /\ network = "reading" /\ stopFeed
  /\ network' = "ended"
  /\ UNCHANGED <<failed, queue, inHand, stopFeed, requests, venue, opened, faults,
                 networkUnchanged>>

(* A read or a write failed. *)
NetworkFails ==
  /\ network = "reading" /\ faults < MaxFaults
  /\ faults' = faults + 1
  /\ failed' = TRUE
  /\ network' = "ended"
  /\ UNCHANGED <<queue, inHand, stopFeed, requests, venue, opened, networkUnchanged>>

-----------------------------------------------------------------------------
(* The parser thread. *)

NotRequested(symbol) == UNCHANGED pending   \* mutant: on_mismatch() does nothing

(* RequestResubscribe(): queued once. *)
RequestResubscribe(symbol) ==
  pending' = IF \E i \in 1..Len(pending) : pending[i] = symbol
               THEN pending ELSE Append(pending, symbol)

(* Drain() hands the next frame to Dispatch(). *)
Parse ==
  /\ parser = "running" /\ queue # <<>>
  /\ LET m == Head(queue)
     IN IF m.content = "malformed"
          THEN (* The decoder throws: Drain() fails and keeps the frame. *)
               /\ parser' = "failed" /\ failed' = TRUE
               /\ UNCHANGED <<queue, routes, heard, pending>>
          ELSE /\ \/ Ignore(m) /\ UNCHANGED pending
                  \/ Deliver(m) /\ UNCHANGED pending
                  \/ Mismatch(m) /\ RequestResubscribe(m.symbol)
               /\ queue' = Tail(queue)
               /\ UNCHANGED <<parser, failed>>
  /\ UNCHANGED <<network, inHand, stopFeed, requests, venue, opened, faults,
                 resubscriber, resubscribed, lifeCycleVars, subscriptionVars>>

-----------------------------------------------------------------------------
(* The resubscriber thread: ResubscribeQueued(). *)

resubscriberUnchanged ==
  <<failed, queue, network, inHand, stopFeed, venue, opened, faults, parserVars,
    lifeCycleVars, subscriptionVars>>

(* wait() returns true while a pair is pending, even once stopped. *)
TakePending ==
  /\ resubscriber = "waiting" /\ pending # <<>>
  /\ resubscriber' = Head(pending)
  /\ pending' = Tail(pending)
  /\ UNCHANGED <<resubscribed, requests, resubscriberUnchanged>>

(* Resubscribe(): sends nothing if not connected, or not subscribed to. *)
ResubscribeRequests(symbol) ==
  IF SubscribersOf(symbol) = {} THEN <<>>
  ELSE LET id == CHOOSE id \in SubscribersOf(symbol) : TRUE
       IN <<MakeBookRequest("unsubscribe", subscriptions[id]),
            MakeBookRequest("subscribe", subscriptions[id])>>

Resubscribe ==
  /\ resubscriber \in Symbols
  /\ lifeCycle = "free"
  /\ Send(ResubscribeRequests(resubscriber))
  /\ resubscriber' = "waiting"
  /\ resubscribed' = resubscribed \cup {resubscriber}
  /\ UNCHANGED <<pending, resubscriberUnchanged>>

(* The thread returns once stopped: nothing is pending, or it is waiting   *)
(* out the interval since the pair's last resubscribe.                     *)
EndResubscriber ==
  /\ destroying
  /\ \/ resubscriber = "waiting" /\ pending = <<>>
     \/ resubscriber \in resubscribed
  /\ resubscriber' = "ended"
  /\ UNCHANGED <<pending, resubscribed, requests, resubscriberUnchanged>>

-----------------------------------------------------------------------------
Holder == JoinFeed \/ JoinParser \/ ConnectFeedThrows

Network == VenueHandles \/ (\E s \in Symbols : ReadFrame(s)) \/ PushFrame \/ StopNetwork

Next ==
  \/ \E id \in Ids, book \in Book : Subscribe(id, book)
  \/ \E id \in Ids : SubscribeFails(id) \/ SubscribeFetched(id) \/ Unsubscribe(id)
  \/ Connect \/ Disconnect \/ Destroy \/ DestroyDisconnects
  \/ Holder \/ ConnectFeed
  \/ Network \/ NetworkFails
  \/ Parse
  \/ TakePending \/ Resubscribe \/ EndResubscriber

(* Every thread is scheduled and a mutex is eventually had; the Router's   *)
(* supervisor keeps connecting, and the venue can be reached again and     *)
(* again.  That ConnectFeed ends takes a venue that answers the handshakes *)
(* of feed_.Connect(), as these have no timeout (websocket_feed.cc:84).    *)
(* Nobody has to subscribe, unsubscribe or destroy the manager.            *)
Fairness ==
  /\ WF_vars(JoinFeed) /\ WF_vars(JoinParser) /\ SF_vars(ConnectFeed)
  /\ SF_vars(Connect) /\ WF_vars(DestroyDisconnects)
  /\ SF_vars(VenueHandles) /\ \A s \in Symbols : SF_vars(ReadFrame(s))
  /\ WF_vars(PushFrame) /\ WF_vars(StopNetwork)
  /\ WF_vars(Parse)
  /\ WF_vars(TakePending) /\ SF_vars(Resubscribe) /\ WF_vars(EndResubscriber)

Safety == Init /\ [][Next]_vars
Spec == Safety /\ Fairness

-----------------------------------------------------------------------------
(* "A pair has at most one subscription", and "each subscription is either *)
(* fully set up or fully torn down" (l2_manager.h:34 and 50): the routes   *)
(* are exactly the subscriptions', one per pair, at the subscribed depth.  *)
(* Two calls for one pair may both be past their first check.              *)
RoutedOncePerPair ==
  /\ \A a, b \in DOMAIN subscriptions :
       subscriptions[a].symbol = subscriptions[b].symbol => a = b
  /\ DOMAIN routes = {subscriptions[id].symbol : id \in DOMAIN subscriptions}
  /\ \A id \in DOMAIN subscriptions :
       LET route == routes[subscriptions[id].symbol]
       IN route.receiver = id /\ route.depth = subscriptions[id].depth

(* "Each leaves the manager either fully connected or fully disconnected"  *)
(* (l2_manager.h:49): once no call is in progress, both threads are there  *)
(* if it is connected, and else neither they nor anything of the last      *)
(* connection is left.                                                     *)
FullyConnectedOrNot ==
  lifeCycle \in {"free", "destroyed"} =>
    IF connected
      THEN network # "stopped" /\ parser # "stopped" /\ ~stopFeed
      ELSE /\ network = "stopped" /\ parser = "stopped"
           /\ queue = <<>> /\ inHand = <<>> /\ requests = <<>>

(* The gate of a route is open exactly while its receiver's stream goes    *)
(* on, and the book checked against the venue's checksums is then the one  *)
(* the receiver has (l2_parser.h:29), whatever ended the last stream.      *)
CheckedBookIsReceivers ==
  connected /\ lifeCycle = "free" =>
    \A s \in DOMAIN routes :
      LET h == heard[routes[s].receiver]
      IN /\ ~routes[s].awaiting <=> h.phase = "live"
         /\ HasChecksum /\ h.phase = "live" =>
              routes[s].book = [stream |-> h.stream, seq |-> h.seq]

(* The depth a pair is streamed at, if it is: now, and once the venue has  *)
(* handled the first n requests on the way to it.                          *)
VenueDepths(s) == IF venue[s].stream = 0 THEN {} ELSE {venue[s].depth}

AskedFor(request) == IF request.kind = "subscribe" THEN {request.depth} ELSE {}

StreamedAfter(n, s, depths) ==
  \/ /\ \A i \in 1..n : requests[i].symbol # s
     /\ depths = VenueDepths(s)
  \/ \E i \in 1..n :
       /\ requests[i].symbol = s
       /\ \A j \in (i + 1)..n : requests[j].symbol # s
       /\ depths = AskedFor(requests[i])

(* Requests go out in the order of the calls that made them, so the venue  *)
(* ends up streaming exactly the subscribed pairs at their depths, and no  *)
(* request on the way asks for a pair streamed already or ends one it does *)
(* not stream at that depth: the venue would refuse it.                    *)
VenueFollowsSubscriptions ==
  connected /\ lifeCycle = "free" =>
    /\ \A i \in 1..Len(requests) :
         StreamedAfter(i - 1, requests[i].symbol,
                       IF requests[i].kind = "subscribe" THEN {} ELSE {requests[i].depth})
    /\ \A s \in Symbols :
         StreamedAfter(Len(requests), s, IF s \in DOMAIN routes THEN {routes[s].depth} ELSE {})

(* Whatever reconnects, checksum mismatches, late frames of earlier        *)
(* subscriptions and resubscribes come together, every receiver sees a     *)
(* stream as core/receiver.h promises it.                                  *)
KeepsContract == Contract!Spec

(* An id answered is that of a subscription to exactly the book asked for, *)
(* the caller's own or a recording both are for.  A pair said to be in use *)
(* is held by another, and not by a recording of the same book that this   *)
(* recording would share.                                                  *)
AnswerIsTrue(id) ==
  LET call == calls[id]
  IN /\ call.error = "none" =>
          /\ call.id \in DOMAIN subscriptions /\ subscriptions[call.id] = call.book
          /\ call.id # id => {call.id, id} \subseteq Recordings
     /\ call.error = "kSymbolInUse" =>
          \E taken \in DOMAIN subscriptions \ {id} :
            /\ subscriptions[taken].symbol = call.book.symbol
            /\ {taken, id} \subseteq Recordings => subscriptions[taken].depth # call.book.depth

(* What Subscribe() answers holds when it answers, though the pair may be  *)
(* taken or let go while the precision is fetched (l2_manager.h:110).  An  *)
(* answer that is neither an id nor "in use" is that of a fetch that ran   *)
(* and failed; and what is subscribed, routed and requested changes only   *)
(* for a call that is answered its own id.                                 *)
AnswersHold ==
  [][\A id \in Ids :
       calls'[id] # calls[id] /\ calls'[id].state = "answered" =>
         /\ AnswerIsTrue(id)'
         /\ calls'[id].error = "failed" => calls[id].state = "fetching"
         /\ \/ calls'[id].error = "none" /\ calls'[id].id = id
            \/ UNCHANGED <<subscriptions, routes, requests>>]_vars

(* No deadlock between the mutex, the joins and the bounded queue: every   *)
(* Connect() gets to feed_.Connect(), and every Disconnect() and every     *)
(* destructor ends (l2_manager.cc:305).                                    *)
LifeCycleEnds ==
  /\ lifeCycle \in {"joinFeed", "joinParser"} ~>
       lifeCycle \in {"free", "connectFeed", "destroyed"}
  /\ destroying ~> lifeCycle = "destroyed"

(* "A gap ends with a fresh snapshot" (ARCHITECTURE.md:94), whatever       *)
(* opened it, unless the subscription or the manager goes first.           *)
GapEnds ==
  \A id \in Ids :
    heard[id].phase \in {"disconnected", "resubscribing"} ~>
      heard[id].phase \in {"live", "gone"} \/ destroying

(* core/receiver.h:30: a stream that broke says so before it goes on, so a *)
(* stream that goes on with a snapshot was told of a gap.                  *)
BreaksAreTold ==
  [][\A r \in Receivers :
       heard[r].phase = "live" /\ heard'[r].phase = "live" /\ heard'[r] # heard[r] =>
         heard'[r].stream = heard[r].stream]_vars
=============================================================================
