-------------------------- MODULE L2Manager_proofs --------------------------
(***************************************************************************)
(* The manager's safety for every number of pairs, receivers and depths,   *)
(* every queue capacity and any number of frames and faults.               *)
(*                                                                         *)
(* The invariants the runs check are not inductive: that a receiver sees a *)
(* gapless stream depends on frames that were sent to an earlier receiver  *)
(* and still wait in the queue, and that the venue refuses no request on   *)
(* those sent before it.  IInv adds what the frames on the way lead to,    *)
(* and VenueFollowsSubscriptions is already stated over the requests on    *)
(* the way.  The rest follows: the runs' invariants from IInv, and that    *)
(* every step is one BookStream allows, so Safety implements it.           *)
(***************************************************************************)
EXTENDS L2Manager, FunctionTheorems, FiniteSetTheorems, TLAPS

(* What a decoded frame, a route, a request, a call and what a receiver    *)
(* was told may be.                                                        *)
Content == {"unchecked", "matches", "differs", "malformed"}
Message == [symbol : Symbols, stream : Nat, seq : Nat, content : Content]
Place == [stream : Nat, seq : Nat]
Phase == {"none", "fresh", "live", "disconnected", "resubscribing", "gone"}
Route == [receiver : Receivers, depth : Depths, awaiting : BOOLEAN, book : Place]
Request == [kind : {"subscribe", "unsubscribe"}, symbol : Symbols, depth : Depths]
Call ==
  [state : {"none"}]
    \cup [state : {"fetching"}, book : Book]
    \cup [state : {"answered"}, book : Book, id : Ids, error : {"none", "kSymbolInUse", "failed"}]

(* The types of the variables, by the step lemmas that need them.          *)
FeedTypeOK ==
  /\ failed \in BOOLEAN
  /\ queue \in Seq(Message)
  /\ network \in {"stopped", "reading", "pushing", "ended"}
  /\ inHand \in Seq(Message)
  /\ stopFeed \in BOOLEAN
  /\ requests \in Seq(Request)
  /\ venue \in [Symbols -> [stream : Nat, depth : Depths \cup {0}, next : Nat]]
  /\ opened \in [Symbols -> Nat]

RouteTypeOK ==
  /\ DOMAIN subscriptions \subseteq Ids /\ IsFiniteSet(DOMAIN subscriptions)
  /\ subscriptions \in [DOMAIN subscriptions -> Book]
  /\ DOMAIN routes \subseteq Symbols
  /\ routes \in [DOMAIN routes -> Route]
  /\ heard \in [Receivers -> [phase : Phase, stream : Nat, seq : Nat]]
  /\ calls \in [Ids -> Call]

LifeTypeOK ==
  /\ lifeCycle \in {"free", "joinFeed", "joinParser", "connectFeed", "destroyed"}
  /\ operation \in {"none", "connect", "disconnect", "destroy"}
  /\ connected \in BOOLEAN
  /\ parser \in {"stopped", "running", "failed"}

TypeInv == FeedTypeOK /\ RouteTypeOK /\ LifeTypeOK

(* How the threads and what they share follow the life cycle: the network  *)
(* thread and the requests are there while the connection is, the queue is *)
(* empty without a parser, a frame is in hand while it is pushed, and      *)
(* nobody fails a connection but a parser that ended with it.              *)
LifeInv ==
  /\ lifeCycle \in {"joinFeed", "joinParser"} => operation # "none"
  /\ connected <=> parser # "stopped"
  /\ lifeCycle \in {"free", "joinFeed"} => (connected <=> network # "stopped")
  /\ lifeCycle \notin {"free", "joinFeed"} => network = "stopped"
  /\ lifeCycle \in {"connectFeed", "destroyed"} => ~connected
  /\ ~connected => queue = <<>>
  /\ network = "stopped" => requests = <<>> /\ \A s \in Symbols : venue[s].stream = 0
  /\ network = "pushing" => Len(inHand) = 1
  /\ network # "pushing" => inHand = <<>>
  /\ lifeCycle = "free" /\ connected => ~stopFeed
  /\ failed /\ network \in {"reading", "pushing"} => parser = "failed"

(* The routes are the subscriptions', a call that was not answered has     *)
(* changed nothing, and a subscribed receiver's stream has opened and not  *)
(* ended.                                                                  *)
SubscribedInv ==
  /\ RoutedOncePerPair
  /\ \A id \in Ids :
       calls[id].state \in {"none", "fetching"} =>
         id \notin DOMAIN subscriptions /\ heard[id] = Contract!Nothing
  /\ \A id \in DOMAIN subscriptions : heard[id].phase \notin {"none", "gone"}

(* The gate of a route agrees with its receiver's stream, and so does the  *)
(* book that is checked. It is stronger than CheckedBookIsReceivers: it    *)
(* holds during a Disconnect() too, which is when the parser drains the    *)
(* queue.                                                                  *)
GateOf(s) ==
  LET h == heard[routes[s].receiver]
  IN /\ connected => (~routes[s].awaiting <=> h.phase = "live")
     /\ ~connected => h.phase # "live"
     /\ connected /\ HasChecksum /\ h.phase = "live" =>
          routes[s].book = [stream |-> h.stream, seq |-> h.seq]

GateInv == \A s \in DOMAIN routes : GateOf(s)

(* The frames on the way from the venue to the parser.                     *)
frames == queue \o inHand

(* Whether the message at a place of a stream is one that a route's        *)
(* receiver, if its gate is open, is to see next.                          *)
RouteExpects(s, stream, seq) ==
  s \in DOMAIN routes /\ ~routes[s].awaiting =>
    LET h == heard[routes[s].receiver] IN h.stream = stream /\ h.seq + 1 = seq

(* Whether a message continues what a pair's receiver will have been told  *)
(* once the first n frames are parsed: it is a snapshot, or follows the    *)
(* pair's last of those frames, or what the receiver has now.              *)
Continues(n, s, stream, seq) ==
  \/ seq = 0
  \/ /\ \A i \in 1..n : frames[i].symbol # s
     /\ RouteExpects(s, stream, seq)
  \/ \E i \in 1..n :
       /\ frames[i].symbol = s
       /\ \A j \in (i + 1)..n : frames[j].symbol # s
       /\ frames[i].stream = stream /\ frames[i].seq + 1 = seq

(* Every frame on the way continues those before it, and so will the next  *)
(* frame the venue sends. It is what makes an update behind an open gate   *)
(* the next one of the receiver's stream; a dead parser delivers nothing,  *)
(* so nothing is said of the frames it left.                               *)
Continuity ==
  parser = "running" =>
    /\ \A i \in 1..Len(frames) :
         Continues(i - 1, frames[i].symbol, frames[i].stream, frames[i].seq)
    /\ \A s \in Symbols : Continues(Len(frames), s, venue[s].stream, venue[s].next)

(* The inductive invariant.                                                *)
IInv == TypeInv /\ LifeInv /\ SubscribedInv /\ GateInv /\ Continuity

-----------------------------------------------------------------------------
(* A manager that was just constructed satisfies it.                       *)
LEMMA InitIInv == Init => IInv
<1> SUFFICES ASSUME Init PROVE IInv
  OBVIOUS
<1> USE DEF Init, ParserInit, Contract!Init, Contract!Nothing
<1>1. FeedTypeOK
  <2>1. venue \in [Symbols -> [stream : Nat, depth : Depths \cup {0}, next : Nat]]
    BY DEF NotStreaming
  <2>2. queue \in Seq(Message) /\ inHand \in Seq(Message) /\ requests \in Seq(Request)
    OBVIOUS
  <2>3. QED
    BY <2>1, <2>2 DEF FeedTypeOK
<1>2. RouteTypeOK
  <2>1. DOMAIN subscriptions = {} /\ DOMAIN routes = {}
    OBVIOUS
  <2>2. IsFiniteSet(DOMAIN subscriptions)
    BY <2>1, FS_EmptySet
  <2>3. calls \in [Ids -> Call] /\ heard \in [Receivers -> [phase : Phase, stream : Nat, seq : Nat]]
    BY DEF NoCall, Call, Phase
  <2>4. QED
    BY <2>1, <2>2, <2>3 DEF RouteTypeOK
<1>3. LifeTypeOK /\ LifeInv
  BY DEF LifeTypeOK, LifeInv, NotStreaming
<1>4. SubscribedInv
  <2>1. DOMAIN subscriptions = {} /\ DOMAIN routes = {}
    OBVIOUS
  <2>2. RoutedOncePerPair
    BY <2>1 DEF RoutedOncePerPair
  <2>3. \A id \in Ids : heard[id] = Contract!Nothing
    BY DEF Ids
  <2>4. QED
    BY ONLY <2>1, <2>2, <2>3 DEF SubscribedInv
<1>5. GateInv /\ Continuity
  <2>1. DOMAIN routes = {} /\ parser = "stopped"
    OBVIOUS
  <2>2. QED
    BY ONLY <2>1 DEF GateInv, GateOf, Continuity
<1>6. QED
  BY <1>1, <1>2, <1>3, <1>4, <1>5 DEF IInv, TypeInv

(* The life cycle's part of the invariant needs only the types.            *)
LEMMA LifeStep == TypeInv /\ LifeInv /\ [Next]_vars => LifeTypeOK' /\ LifeInv'
<1> SUFFICES ASSUME TypeInv, LifeInv, [Next]_vars PROVE LifeTypeOK' /\ LifeInv'
  OBVIOUS
<1> USE DEF TypeInv, LifeTypeOK, LifeInv, FeedTypeOK
<1>1. CASE \/ \E id \in Ids, book \in Book : Subscribe(id, book)
           \/ \E id \in Ids : SubscribeFails(id)
  BY <1>1 DEF Subscribe, SubscribeFails, feedVars, parserVars, lifeCycleVars
<1>2. ASSUME NEW id \in Ids, SubscribeFetched(id) \/ Unsubscribe(id)
      PROVE  LifeTypeOK' /\ LifeInv'
  <2>1. requests' = requests \/ connected
    BY <1>2 DEF SubscribeFetched, Unsubscribe, Send
  <2>2. QED
    BY <1>2, <2>1 DEF SubscribeFetched, Unsubscribe, lifeCycleVars
<1>3. CASE Connect \/ Disconnect \/ DestroyDisconnects
  BY <1>3 DEF Connect, Disconnect, DestroyDisconnects, BeginDisconnect, parserVars
<1>4. CASE Destroy
  BY <1>4 DEF Destroy, feedVars, parserVars
<1>5. CASE JoinFeed
  BY <1>5 DEF JoinFeed, parserVars, NotStreaming
<1>6. CASE JoinParser
  BY <1>6 DEF JoinParser, FramesLeft
<1>7. CASE ConnectFeed \/ ConnectFeedThrows
  <2>1. CASE ConnectFeed
    BY <2>1 DEF ConnectFeed
  <2>2. CASE ConnectFeedThrows
    BY <2>2 DEF ConnectFeedThrows
  <2>3. QED
    BY <1>7, <2>1, <2>2
<1>8. CASE VenueHandles
  BY <1>8 DEF VenueHandles, networkUnchanged, parserVars, lifeCycleVars
<1>9. ASSUME NEW s \in Symbols, ReadFrame(s)
      PROVE  LifeTypeOK' /\ LifeInv'
  BY <1>9 DEF ReadFrame, networkUnchanged, parserVars, lifeCycleVars
<1>10. CASE PushFrame
  BY <1>10 DEF PushFrame, networkUnchanged, parserVars, lifeCycleVars
<1>11. CASE StopNetwork \/ NetworkFails
  BY <1>11 DEF StopNetwork, NetworkFails, networkUnchanged, parserVars, lifeCycleVars
<1>12. CASE Parse
  BY <1>12 DEF Parse, lifeCycleVars
<1>13. CASE TakePending \/ EndResubscriber
  BY <1>13 DEF TakePending, EndResubscriber, resubscriberUnchanged, parserVars, lifeCycleVars
<1>14. CASE Resubscribe
  BY <1>14 DEF Resubscribe, Send, resubscriberUnchanged, parserVars, lifeCycleVars
<1>15. CASE UNCHANGED vars
  BY <1>15 DEF vars, feedVars, parserVars, lifeCycleVars
<1>16. QED
  BY <1>1, <1>2, <1>3, <1>4, <1>5, <1>6, <1>7, <1>8, <1>9, <1>10, <1>11, <1>12, <1>13, <1>14, <1>15
     DEF Next, Holder, Network

(* What Put() and Without() make of a map. *)
LEMMA PutProperties ==
  ASSUME NEW f, NEW x, NEW v
  PROVE  /\ DOMAIN Put(f, x, v) = DOMAIN f \cup {x}
         /\ Put(f, x, v)[x] = v
         /\ \A y \in DOMAIN f : y # x => Put(f, x, v)[y] = f[y]
         /\ \A R : f \in [DOMAIN f -> R] /\ v \in R =>
                     Put(f, x, v) \in [DOMAIN f \cup {x} -> R]
BY DEF Put

(* What is left of a map without one of its keys.                          *)
LEMMA WithoutProperties ==
  ASSUME NEW f, NEW x
  PROVE  /\ DOMAIN Without(f, x) = DOMAIN f \ {x}
         /\ \A y \in DOMAIN f \ {x} : Without(f, x)[y] = f[y]
         /\ \A R : f \in [DOMAIN f -> R] => Without(f, x) \in [DOMAIN f \ {x} -> R]
BY DEF Without

(* MakeBookRequest() makes a request of a book.                            *)
LEMMA BookRequestType ==
  ASSUME NEW book \in Book, NEW kind \in {"subscribe", "unsubscribe"}
  PROVE  MakeBookRequest(kind, book) \in Request
BY DEF MakeBookRequest, Request, Book

(* SendLocked() adds requests or none.                                     *)
LEMMA SendType ==
  ASSUME NEW texts \in Seq(Request), requests \in Seq(Request), Send(texts)
  PROVE  requests' \in Seq(Request)
BY DEF Send

(* Frames, requests and the venue's streams keep their types.              *)
LEMMA FeedTypeStep == TypeInv /\ LifeInv /\ [Next]_vars => FeedTypeOK'
<1> SUFFICES ASSUME TypeInv, LifeInv, [Next]_vars PROVE FeedTypeOK'
  OBVIOUS
<1> USE DEF TypeInv, FeedTypeOK
<1>1. CASE \/ \E id \in Ids, book \in Book : Subscribe(id, book)
           \/ \E id \in Ids : SubscribeFails(id)
           \/ Destroy \/ ConnectFeedThrows \/ TakePending \/ EndResubscriber
           \/ UNCHANGED vars
  BY <1>1 DEF Subscribe, SubscribeFails, Destroy, ConnectFeedThrows, TakePending, EndResubscriber,
              resubscriberUnchanged, feedVars, vars
<1>2. ASSUME NEW id \in Ids, SubscribeFetched(id)
      PROVE  FeedTypeOK'
  <2>1. calls[id].book \in Book
    BY <1>2 DEF SubscribeFetched, RouteTypeOK, Call, Ids
  <2>2. <<MakeBookRequest("subscribe", calls[id].book)>> \in Seq(Request)
    BY <2>1, BookRequestType
  <2>3. requests' \in Seq(Request)
    BY <1>2, <2>2, SendType DEF SubscribeFetched
  <2>4. QED
    BY <1>2, <2>3 DEF SubscribeFetched
<1>3. ASSUME NEW id \in Ids, Unsubscribe(id)
      PROVE  FeedTypeOK'
  <2>1. subscriptions[id] \in Book
    BY <1>3 DEF Unsubscribe, RouteTypeOK
  <2>2. UnsubscribeRequests(id) \in Seq(Request)
    BY <2>1, BookRequestType DEF UnsubscribeRequests
  <2>3. requests' \in Seq(Request)
    BY <1>3, <2>2, SendType DEF Unsubscribe
  <2>4. QED
    BY <1>3, <2>3 DEF Unsubscribe
<1>4. CASE Connect \/ Disconnect \/ DestroyDisconnects
  BY <1>4 DEF Connect, Disconnect, DestroyDisconnects, BeginDisconnect
<1>5. CASE JoinFeed
  BY <1>5 DEF JoinFeed, NotStreaming
<1>6. CASE JoinParser
  BY <1>6 DEF JoinParser, FramesLeft
<1>7. CASE ConnectFeed
  <2>1. \A id \in DOMAIN subscriptions : MakeBookRequest("subscribe", subscriptions[id]) \in Request
    BY BookRequestType DEF RouteTypeOK
  <2>2. Cardinality(DOMAIN subscriptions) \in Nat
    BY FS_CardinalityType DEF RouteTypeOK
  <2>3. requests' \in [1..Cardinality(DOMAIN subscriptions) -> Request]
    BY <1>7, <2>1 DEF ConnectFeed, SubscribeAlls
  <2>4. requests' \in Seq(Request)
    BY ONLY <2>2, <2>3
  <2>5. QED
    BY <1>7, <2>4 DEF ConnectFeed
<1>8. CASE VenueHandles
  <2>1. Head(requests) \in Request /\ requests' \in Seq(Request)
    BY <1>8 DEF VenueHandles
  <2> DEFINE r == Head(requests)
             opens == r.kind = "subscribe" /\ venue[r.symbol].stream = 0
  <2>2. r.symbol \in Symbols /\ r.depth \in Depths
    BY <2>1 DEF Request
  <2>3. opened' = IF opens THEN [opened EXCEPT ![r.symbol] = @ + 1] ELSE opened
    BY <1>8 DEF VenueHandles
  <2>4. opened' \in [Symbols -> Nat]
    <3>1. opened[r.symbol] + 1 \in Nat
      BY <2>2
    <3>2. [opened EXCEPT ![r.symbol] = @ + 1] \in [Symbols -> Nat]
      BY <3>1
    <3>3. QED
      BY <2>3, <3>2
  <2>5. \E v \in {venue[r.symbol], NotStreaming,
                  [stream |-> opened'[r.symbol], depth |-> r.depth, next |-> 0]} :
          venue' = [venue EXCEPT ![r.symbol] = v]
    BY <1>8 DEF VenueHandles
  <2>6. venue' \in [Symbols -> [stream : Nat, depth : Depths \cup {0}, next : Nat]]
    BY <2>2, <2>4, <2>5 DEF NotStreaming
  <2>7. QED
    BY <1>8, <2>1, <2>4, <2>6 DEF VenueHandles
<1>9. ASSUME NEW s \in Symbols, ReadFrame(s)
      PROVE  FeedTypeOK'
  <2>1. venue[s].next + 1 \in Nat /\ venue[s].stream \in Nat /\ venue[s].next \in Nat
    OBVIOUS
  <2>2. venue' = [venue EXCEPT ![s] = [venue[s] EXCEPT !.next = @ + 1]]
    BY <1>9 DEF ReadFrame
  <2>3. [venue[s] EXCEPT !.next = @ + 1] \in [stream : Nat, depth : Depths \cup {0}, next : Nat]
    BY <2>1
  <2>4. venue' \in [Symbols -> [stream : Nat, depth : Depths \cup {0}, next : Nat]]
    BY <2>2, <2>3
  <2>5. \A content \in Content :
          [symbol |-> s, stream |-> venue[s].stream, seq |-> venue[s].next, content |-> content]
            \in Message
    BY <2>1 DEF Message
  <2>6. PICK content \in Content :
          inHand' = <<[symbol |-> s, stream |-> venue[s].stream,
                       seq |-> venue[s].next, content |-> content]>>
    BY ONLY <1>9 DEF ReadFrame, Content
  <2>7. inHand' \in Seq(Message)
    BY ONLY <2>5, <2>6
  <2>8. QED
    BY <1>9, <2>4, <2>7 DEF ReadFrame
<1>10. CASE PushFrame
  <2>1. queue' \in {queue, queue \o inHand} /\ inHand' = <<>>
    BY <1>10 DEF PushFrame
  <2>2. queue \in Seq(Message) /\ inHand \in Seq(Message)
    OBVIOUS
  <2>3. inHand' \in Seq(Message) /\ queue' \in Seq(Message)
    <3>1. queue \o inHand \in Seq(Message)
      BY ONLY <2>2
    <3>2. inHand' \in Seq(Message)
      BY ONLY <2>1
    <3>3. QED
      BY ONLY <2>1, <2>2, <3>1, <3>2
  <2>4. QED
    BY <1>10, <2>3 DEF PushFrame
<1>11. CASE StopNetwork \/ NetworkFails
  BY <1>11 DEF StopNetwork, NetworkFails
<1>12. CASE Parse
  <2>1. queue' \in {queue, Tail(queue)} /\ failed' \in {failed, TRUE} /\ queue # <<>>
    BY <1>12 DEF Parse
  <2>2. queue \in Seq(Message)
    OBVIOUS
  <2>3. queue' \in Seq(Message)
    BY ONLY <2>1, <2>2
  <2>4. QED
    BY <1>12, <2>1, <2>3 DEF Parse
<1>13. CASE Resubscribe
  <2>1. ResubscribeRequests(resubscriber) \in Seq(Request)
    <3>1. CASE SubscribersOf(resubscriber) = {}
      BY <3>1 DEF ResubscribeRequests
    <3>2. CASE SubscribersOf(resubscriber) # {}
      <4> DEFINE id == CHOOSE id \in SubscribersOf(resubscriber) : TRUE
      <4>1. subscriptions[id] \in Book
        BY <3>2 DEF SubscribersOf, RouteTypeOK
      <4>2. /\ MakeBookRequest("unsubscribe", subscriptions[id]) \in Request
            /\ MakeBookRequest("subscribe", subscriptions[id]) \in Request
        BY <4>1, BookRequestType
      <4>3. QED
        BY <3>2, <4>2 DEF ResubscribeRequests
    <3>3. QED
      BY <3>1, <3>2
  <2>2. requests' \in Seq(Request)
    BY <1>13, <2>1, SendType DEF Resubscribe
  <2>3. QED
    BY <1>13, <2>2 DEF Resubscribe, resubscriberUnchanged
<1>14. QED
  BY <1>1, <1>2, <1>3, <1>4, <1>5, <1>6, <1>7, <1>8, <1>9, <1>10, <1>11, <1>12, <1>13
     DEF Next, Holder, Network

-----------------------------------------------------------------------------
(* What a receiver was told.                                               *)
Heard == [phase : Phase, stream : Nat, seq : Nat]

(* Telling one receiver leaves the others as they were.                    *)
LEMMA HeardExcept ==
  ASSUME heard \in [Receivers -> Heard], NEW r \in Receivers, NEW p \in Phase
  PROVE  /\ [heard EXCEPT ![r].phase = p] \in [Receivers -> Heard]
         /\ [heard EXCEPT ![r].phase = p][r] =
              [phase |-> p, stream |-> heard[r].stream, seq |-> heard[r].seq]
         /\ \A q \in Receivers : q # r => [heard EXCEPT ![r].phase = p][q] = heard[q]
BY DEF Heard

(* What Subscribe() answers for a pair that has a subscription. *)
LEMMA AnswerProperties ==
  ASSUME NEW id \in Ids, NEW book \in Book, NEW call \in Answer(id, book)
  PROVE  \E taken \in SubscribersOf(book.symbol) :
           \/ /\ IsRecordedAs(taken, id, book)
              /\ call = [state |-> "answered", book |-> book, id |-> taken, error |-> "none"]
           \/ /\ ~IsRecordedAs(taken, id, book)
              /\ call = [state |-> "answered", book |-> book, id |-> id,
                         error |-> "kSymbolInUse"]
BY DEF Answer

(* Such an answer is a call's.                                             *)
LEMMA AnswerType ==
  ASSUME RouteTypeOK, NEW id \in Ids, NEW book \in Book, NEW call \in Answer(id, book)
  PROVE  call \in Call
<1>1. PICK taken \in SubscribersOf(book.symbol) :
        \/ call = [state |-> "answered", book |-> book, id |-> taken, error |-> "none"]
        \/ call = [state |-> "answered", book |-> book, id |-> id, error |-> "kSymbolInUse"]
  BY AnswerProperties
<1>2. taken \in Ids
  BY DEF SubscribersOf, RouteTypeOK
<1>3. QED
  BY <1>1, <1>2 DEF Call

(* Calls, subscriptions, routes and receivers keep their types.            *)
LEMMA RouteTypeStep == TypeInv /\ LifeInv /\ [Next]_vars => RouteTypeOK'
<1> SUFFICES ASSUME TypeInv, LifeInv, [Next]_vars PROVE RouteTypeOK'
  OBVIOUS
<1>0. RouteTypeOK
  BY DEF TypeInv
<1> USE <1>0 DEF RouteTypeOK
<1>1. ASSUME NEW id \in Ids, NEW book \in Book, Subscribe(id, book)
      PROVE  RouteTypeOK'
  <2>1. \A call \in Answer(id, book) : call \in Call
    BY AnswerType
  <2>2. [state |-> "fetching", book |-> book] \in Call
    BY DEF Call
  <2>3. calls' \in [Ids -> Call]
    BY <1>1, <2>1, <2>2 DEF Subscribe
  <2>4. QED
    BY <1>1, <2>3 DEF Subscribe, parserVars
<1>2. ASSUME NEW id \in Ids, SubscribeFails(id)
      PROVE  RouteTypeOK'
  <2>1. calls[id].book \in Book
    BY <1>2 DEF SubscribeFails, Call
  <2>2. [state |-> "answered", book |-> calls[id].book, id |-> id, error |-> "failed"] \in Call
    BY <2>1 DEF Call
  <2>3. calls' \in [Ids -> Call]
    BY <1>2, <2>2 DEF SubscribeFails
  <2>4. QED
    BY <1>2, <2>3 DEF SubscribeFails, parserVars
<1>3. ASSUME NEW id \in Ids, SubscribeFetched(id)
      PROVE  RouteTypeOK'
  <2>1. calls[id].book \in Book
    BY <1>3 DEF SubscribeFetched, Call
  <2> DEFINE book == calls[id].book
  <2>2. CASE TakenMeanwhile(id, book) # {}
    <3>1. \A call \in Answer(id, book) : call \in Call
      BY <2>1, AnswerType
    <3>2. calls' \in [Ids -> Call]
      BY <1>3, <2>2, <3>1 DEF SubscribeFetched, TakenMeanwhile
    <3>3. UNCHANGED <<subscriptions, routes, heard>>
      BY <1>3, <2>2 DEF SubscribeFetched
    <3>4. QED
      BY <3>2, <3>3
  <2>3. CASE TakenMeanwhile(id, book) = {}
    <3>1. [state |-> "answered", book |-> book, id |-> id, error |-> "none"] \in Call
      BY <2>1 DEF Call
    <3>2. calls' \in [Ids -> Call]
      BY <1>3, <2>3, <3>1 DEF SubscribeFetched
    <3>3. /\ subscriptions' = Put(subscriptions, id, book)
          /\ routes' = Put(routes, book.symbol, NewRoute(id, book.depth))
          /\ heard' = [heard EXCEPT ![id].phase = "fresh"]
      BY <1>3, <2>3 DEF SubscribeFetched, AttachRoute
    <3>4. /\ DOMAIN subscriptions' = DOMAIN subscriptions \cup {id}
          /\ subscriptions' \in [DOMAIN subscriptions \cup {id} -> Book]
      BY <2>1, <3>3, PutProperties
    <3>5. NewRoute(id, book.depth) \in Route /\ book.symbol \in Symbols
      BY <2>1 DEF NewRoute, Route, Place, NoBook, Book, Ids
    <3>6. /\ DOMAIN routes' = DOMAIN routes \cup {book.symbol}
          /\ routes' \in [DOMAIN routes \cup {book.symbol} -> Route]
      BY <3>3, <3>5, PutProperties
    <3>7. heard' \in [Receivers -> Heard]
      BY <3>3, HeardExcept DEF Ids, Phase, Heard
    <3>8. IsFiniteSet(DOMAIN subscriptions')
      BY <3>4, FS_AddElement
    <3>9. QED
      BY <3>2, <3>4, <3>5, <3>6, <3>7, <3>8 DEF Heard
  <2>4. QED
    BY <2>2, <2>3
<1>4. ASSUME NEW id \in Ids, Unsubscribe(id)
      PROVE  RouteTypeOK'
  <2>1. /\ subscriptions' = Without(subscriptions, id)
        /\ routes' = Without(routes, subscriptions[id].symbol)
        /\ heard' = [heard EXCEPT ![id].phase = "gone"]
        /\ calls' = calls
    BY <1>4 DEF Unsubscribe, DetachRoute
  <2>2. /\ DOMAIN subscriptions' = DOMAIN subscriptions \ {id}
        /\ subscriptions' \in [DOMAIN subscriptions \ {id} -> Book]
    BY <2>1, WithoutProperties
  <2>3. /\ DOMAIN routes' = DOMAIN routes \ {subscriptions[id].symbol}
        /\ routes' \in [DOMAIN routes \ {subscriptions[id].symbol} -> Route]
    BY <2>1, WithoutProperties
  <2>4. heard' \in [Receivers -> Heard]
    BY <2>1, HeardExcept DEF Ids, Phase, Heard
  <2>5. IsFiniteSet(DOMAIN subscriptions')
    BY <2>2, FS_RemoveElement
  <2>6. QED
    BY <2>1, <2>2, <2>3, <2>4, <2>5 DEF Heard
<1>5. CASE JoinParser
  <2>1. heard' \in [Receivers -> Heard]
    BY <1>5 DEF JoinParser, Heard, Phase
  <2>2. QED
    BY <1>5, <2>1 DEF JoinParser, subscriptionVars, Heard
<1>6. CASE ConnectFeed \/ ConnectFeedThrows
  <2>1. routes' = [s \in DOMAIN routes |-> [routes[s] EXCEPT !.awaiting = TRUE]]
    BY <1>6 DEF ConnectFeed, ConnectFeedThrows, AwaitSnapshots
  <2>2. \A s \in DOMAIN routes : [routes[s] EXCEPT !.awaiting = TRUE] \in Route
    BY DEF Route
  <2>3. DOMAIN routes' = DOMAIN routes /\ routes' \in [DOMAIN routes -> Route]
    BY <2>1, <2>2
  <2>4. QED
    BY <1>6, <2>3 DEF ConnectFeed, ConnectFeedThrows, subscriptionVars
<1>7. CASE Parse
  <2>1. UNCHANGED <<calls, subscriptions>>
    BY <1>7 DEF Parse, subscriptionVars
  <2> DEFINE m == Head(queue)
  <2>2. queue \in Seq(Message) /\ queue # <<>> /\ m \in Message
    BY <1>7 DEF Parse, TypeInv, FeedTypeOK
  <2>3. CASE UNCHANGED <<routes, heard>>
    BY <2>1, <2>3
  <2>4. CASE Deliver(m)
    <3>1. m.symbol \in DOMAIN routes /\ routes[m.symbol] \in Route
      BY <2>4 DEF Deliver, HasRoute
    <3>2. BookAfter(m) \in Place
      BY <2>2, <3>1 DEF BookAfter, Applied, PlaceOf, UnknownBook, Message, Route, Place
    <3>3. routes' = [routes EXCEPT ![m.symbol] =
                       [routes[m.symbol] EXCEPT !.awaiting = FALSE, !.book = BookAfter(m)]]
      BY <2>4, <3>1 DEF Deliver
    <3>4. [routes[m.symbol] EXCEPT !.awaiting = FALSE, !.book = BookAfter(m)] \in Route
      BY <3>1, <3>2 DEF Route
    <3>5. DOMAIN routes' = DOMAIN routes /\ routes' \in [DOMAIN routes -> Route]
      BY <3>3, <3>4
    <3>6. [phase |-> "live", stream |-> m.stream, seq |-> m.seq] \in Heard
      BY <2>2 DEF Heard, Phase, Message
    <3>7. heard' \in [Receivers -> Heard]
      BY <2>4, <3>6 DEF Deliver, Heard
    <3>8. QED
      BY <2>1, <3>5, <3>7 DEF Heard
  <2>5. CASE Mismatch(m)
    <3>1. m.symbol \in DOMAIN routes /\ routes[m.symbol] \in Route
      BY <2>5 DEF Mismatch, HasRoute
    <3>2. AfterMismatch(routes[m.symbol]) \in Route
      BY <3>1 DEF AfterMismatch, Route, Place, NoBook
    <3>3. DOMAIN routes' = DOMAIN routes /\ routes' \in [DOMAIN routes -> Route]
      BY <2>5, <3>2 DEF Mismatch
    <3>4. heard' \in [Receivers -> Heard]
      BY <2>5, <3>1, HeardExcept DEF Mismatch, Heard, Phase, Route
    <3>5. QED
      BY <2>1, <3>3, <3>4 DEF Heard
  <2>6. QED
    BY <1>7, <2>3, <2>4, <2>5 DEF Parse, Ignore
<1>8. CASE Connect \/ Disconnect \/ Destroy \/ DestroyDisconnects \/ JoinFeed
  BY <1>8 DEF Connect, Disconnect, Destroy, DestroyDisconnects, BeginDisconnect, JoinFeed,
              parserVars, subscriptionVars
<1>9. CASE VenueHandles \/ (\E s \in Symbols : ReadFrame(s)) \/ PushFrame \/ StopNetwork
             \/ NetworkFails
  BY <1>9 DEF VenueHandles, ReadFrame, PushFrame, StopNetwork, NetworkFails, networkUnchanged,
              parserVars, subscriptionVars
<1>10. CASE TakePending \/ Resubscribe \/ EndResubscriber
  BY <1>10 DEF TakePending, Resubscribe, EndResubscriber, resubscriberUnchanged, parserVars,
               subscriptionVars
<1>11. CASE UNCHANGED vars
  BY <1>11 DEF vars, parserVars, subscriptionVars
<1>12. QED
  BY <1>1, <1>2, <1>3, <1>4, <1>5, <1>6, <1>7, <1>8, <1>9, <1>10, <1>11
     DEF Next, Holder, Network

-----------------------------------------------------------------------------
(* No step takes a pair twice or leaves a route without its subscription:  *)
(* Subscribe() looks again once it has the lock back.                      *)
LEMMA SubscribedStep == TypeInv /\ LifeInv /\ SubscribedInv /\ [Next]_vars => SubscribedInv'
<1> SUFFICES ASSUME TypeInv, LifeInv, SubscribedInv, [Next]_vars PROVE SubscribedInv'
  OBVIOUS
<1>0. RouteTypeOK
  BY DEF TypeInv
<1>a. /\ \A a, b \in DOMAIN subscriptions :
           subscriptions[a].symbol = subscriptions[b].symbol => a = b
      /\ DOMAIN routes = {subscriptions[id].symbol : id \in DOMAIN subscriptions}
      /\ \A id \in DOMAIN subscriptions :
           /\ routes[subscriptions[id].symbol].receiver = id
           /\ routes[subscriptions[id].symbol].depth = subscriptions[id].depth
  BY DEF SubscribedInv, RoutedOncePerPair
<1>b. /\ \A id \in Ids : calls[id].state \in {"none", "fetching"} =>
                          id \notin DOMAIN subscriptions /\ heard[id] = Contract!Nothing
      /\ \A id \in DOMAIN subscriptions : heard[id].phase \notin {"none", "gone"}
  BY DEF SubscribedInv
<1>c. UNCHANGED <<subscriptions, routes, heard, calls>> => SubscribedInv'
  BY DEF SubscribedInv, RoutedOncePerPair
<1>d. DOMAIN subscriptions \subseteq Ids /\ calls \in [Ids -> Call]
      /\ heard \in [Receivers -> Heard]
  BY <1>0 DEF RouteTypeOK, Heard
<1>e. /\ subscriptions \in [DOMAIN subscriptions -> Book]
      /\ routes \in [DOMAIN routes -> Route]
  BY <1>0 DEF RouteTypeOK
<1>1. ASSUME NEW id \in Ids, NEW book \in Book, Subscribe(id, book)
      PROVE  SubscribedInv'
  <2>1. \A x \in Ids : calls'[x].state \in {"none", "fetching"} =>
                         calls[x].state \in {"none", "fetching"}
    BY <1>1, <1>d DEF Subscribe
  <2>2. UNCHANGED <<subscriptions, routes, heard>>
    BY <1>1 DEF Subscribe, parserVars
  <2>3. QED
    BY <1>a, <1>b, <2>1, <2>2 DEF SubscribedInv, RoutedOncePerPair
<1>2. ASSUME NEW id \in Ids, SubscribeFails(id)
      PROVE  SubscribedInv'
  <2>1. \A x \in Ids : calls'[x].state \in {"none", "fetching"} =>
                         calls[x].state \in {"none", "fetching"}
    BY <1>2, <1>d DEF SubscribeFails
  <2>2. UNCHANGED <<subscriptions, routes, heard>>
    BY <1>2 DEF SubscribeFails, parserVars
  <2>3. QED
    BY <1>a, <1>b, <2>1, <2>2 DEF SubscribedInv, RoutedOncePerPair
<1>3. ASSUME NEW id \in Ids, SubscribeFetched(id)
      PROVE  SubscribedInv'
  <2>1. calls[id].book \in Book
    BY <1>3, <1>d DEF SubscribeFetched, Call
  <2> DEFINE book == calls[id].book
  <2>2. CASE TakenMeanwhile(id, book) # {}
    <3>1. \A x \in Ids : calls'[x].state \in {"none", "fetching"} =>
                           calls[x].state \in {"none", "fetching"}
      BY <1>3, <1>d, <2>2 DEF SubscribeFetched
    <3>2. UNCHANGED <<subscriptions, routes, heard>>
      BY <1>3, <2>2 DEF SubscribeFetched
    <3>3. QED
      BY <1>a, <1>b, <3>1, <3>2 DEF SubscribedInv, RoutedOncePerPair
  <2>3. CASE TakenMeanwhile(id, book) = {}
    <3>1. /\ calls' = [calls EXCEPT ![id] = [state |-> "answered", book |-> book,
                                             id |-> id, error |-> "none"]]
          /\ subscriptions' = Put(subscriptions, id, book)
          /\ routes' = Put(routes, book.symbol, NewRoute(id, book.depth))
          /\ heard' = [heard EXCEPT ![id].phase = "fresh"]
      BY <1>3, <2>3 DEF SubscribeFetched, AttachRoute
    <3>2. id \notin DOMAIN subscriptions
      BY <1>3, <1>b DEF SubscribeFetched
    <3>3. \A x \in DOMAIN subscriptions : subscriptions[x].symbol # book.symbol
      <4>1. SubscribersOf(book.symbol) = {}
        BY <2>3 DEF TakenMeanwhile, Answer
      <4>2. QED
        BY <4>1 DEF SubscribersOf
    <3>4. /\ DOMAIN subscriptions' = DOMAIN subscriptions \cup {id}
          /\ subscriptions'[id] = book
          /\ \A x \in DOMAIN subscriptions : subscriptions'[x] = subscriptions[x]
      BY <3>1, <3>2 DEF Put
    <3>5. /\ DOMAIN routes' = DOMAIN routes \cup {book.symbol}
          /\ routes'[book.symbol] = NewRoute(id, book.depth)
          /\ \A s \in DOMAIN routes : s # book.symbol => routes'[s] = routes[s]
      BY <3>1 DEF Put
    <3>6. /\ heard'[id].phase = "fresh"
          /\ \A x \in Ids : x # id => heard'[x] = heard[x]
      BY <1>d, <3>1, HeardExcept DEF Ids, Phase
    <3>7. \A a, b \in DOMAIN subscriptions' :
            subscriptions'[a].symbol = subscriptions'[b].symbol => a = b
      BY <1>a, <3>3, <3>4
    <3>8. DOMAIN routes' = {subscriptions'[x].symbol : x \in DOMAIN subscriptions'}
      BY <1>a, <3>4, <3>5
    <3>9. ASSUME NEW x \in DOMAIN subscriptions'
          PROVE  /\ routes'[subscriptions'[x].symbol].receiver = x
                 /\ routes'[subscriptions'[x].symbol].depth = subscriptions'[x].depth
      <4>1. CASE x = id
        BY <4>1, <3>4, <3>5 DEF NewRoute
      <4>2. CASE x \in DOMAIN subscriptions
        <5>1. subscriptions[x].symbol \in DOMAIN routes /\ subscriptions[x].symbol # book.symbol
          BY <1>a, <3>3, <4>2
        <5>2. QED
          BY <1>a, <3>4, <3>5, <4>2, <5>1
      <4>3. QED
        BY <3>4, <4>1, <4>2
    <3>10. \A x \in Ids : calls'[x].state \in {"none", "fetching"} =>
                            x # id /\ calls[x].state \in {"none", "fetching"}
      BY <1>d, <3>1
    <3>11. \A x \in DOMAIN subscriptions' : heard'[x].phase \notin {"none", "gone"}
      BY <1>b, <1>d, <3>4, <3>6
    <3>12. \A x \in Ids : calls'[x].state \in {"none", "fetching"} =>
                          x \notin DOMAIN subscriptions' /\ heard'[x] = Contract!Nothing
      BY <1>b, <3>4, <3>6, <3>10
    <3>13. RoutedOncePerPair'
      BY <3>7, <3>8, <3>9 DEF RoutedOncePerPair
    <3>14. QED
      BY <3>11, <3>12, <3>13 DEF SubscribedInv
  <2>4. QED
    BY <2>2, <2>3
<1>4. ASSUME NEW id \in Ids, Unsubscribe(id)
      PROVE  SubscribedInv'
  <2> DEFINE s0 == subscriptions[id].symbol
  <2>1. /\ subscriptions' = Without(subscriptions, id)
        /\ routes' = Without(routes, s0)
        /\ heard' = [heard EXCEPT ![id].phase = "gone"]
        /\ calls' = calls /\ id \in DOMAIN subscriptions
    BY <1>4 DEF Unsubscribe, DetachRoute
  <2>2. /\ DOMAIN subscriptions' = DOMAIN subscriptions \ {id}
        /\ \A x \in DOMAIN subscriptions' : subscriptions'[x] = subscriptions[x]
    BY <2>1 DEF Without
  <2>3. /\ DOMAIN routes' = DOMAIN routes \ {s0}
        /\ \A s \in DOMAIN routes' : routes'[s] = routes[s]
    BY <2>1 DEF Without
  <2>4. \A x \in Ids : x # id => heard'[x] = heard[x]
    BY <1>d, <2>1, HeardExcept DEF Ids, Phase
  <2>5. \A x \in DOMAIN subscriptions' : subscriptions[x].symbol # s0
    BY <1>a, <2>1, <2>2
  <2>6. DOMAIN routes' = {subscriptions'[x].symbol : x \in DOMAIN subscriptions'}
    BY <1>a, <2>1, <2>2, <2>3, <2>5
  <2>7. \A x \in DOMAIN subscriptions' : subscriptions[x].symbol \in DOMAIN routes'
    BY <2>2, <2>6
  <2>8. RoutedOncePerPair'
    BY <1>a, <2>2, <2>3, <2>6, <2>7 DEF RoutedOncePerPair
  <2>9. \A x \in DOMAIN subscriptions' : heard'[x].phase \notin {"none", "gone"}
    BY <1>b, <1>d, <2>2, <2>4
  <2>10. \A x \in Ids : calls'[x].state \in {"none", "fetching"} =>
                        x \notin DOMAIN subscriptions' /\ heard'[x] = Contract!Nothing
    BY <1>b, <2>1, <2>2, <2>4
  <2>11. QED
    BY <2>8, <2>9, <2>10 DEF SubscribedInv
<1>5. CASE JoinParser
  <2>1. UNCHANGED <<subscriptions, routes, calls>>
    BY <1>5 DEF JoinParser, subscriptionVars
  <2>2. \A x \in Ids : heard'[x] = heard[x]
                         \/ (x \in DOMAIN subscriptions /\ heard'[x].phase = "disconnected")
    <3>1. SUFFICES ASSUME NEW x \in Ids
                   PROVE  heard'[x] = heard[x]
                            \/ (x \in DOMAIN subscriptions /\ heard'[x].phase = "disconnected")
      OBVIOUS
    <3>2. heard'[x] = IF x \in Disconnected THEN [heard[x] EXCEPT !.phase = "disconnected"]
                                            ELSE heard[x]
      BY <1>5 DEF JoinParser, Ids
    <3>3. heard[x] \in Heard
      BY <1>d DEF Ids
    <3>4. x \in Disconnected => x \in DOMAIN subscriptions
      BY DEF Disconnected
    <3>5. [heard[x] EXCEPT !.phase = "disconnected"].phase = "disconnected"
      BY <3>3 DEF Heard
    <3>6. CASE x \in Disconnected
      BY <3>2, <3>4, <3>5, <3>6, Zenon
    <3>7. CASE x \notin Disconnected
      BY <3>2, <3>7, Zenon
    <3>8. QED
      BY <3>6, <3>7
  <2>3. QED
    BY <1>a, <1>b, <1>d, <2>1, <2>2 DEF SubscribedInv, RoutedOncePerPair
<1>6. CASE ConnectFeed \/ ConnectFeedThrows
  <2>1. UNCHANGED <<subscriptions, heard, calls>>
    BY <1>6 DEF ConnectFeed, ConnectFeedThrows, subscriptionVars
  <2>2. /\ DOMAIN routes' = DOMAIN routes
        /\ \A s \in DOMAIN routes : routes'[s] = [routes[s] EXCEPT !.awaiting = TRUE]
    BY <1>6 DEF ConnectFeed, ConnectFeedThrows, AwaitSnapshots
  <2>3. \A s \in DOMAIN routes : routes'[s].receiver = routes[s].receiver
                                   /\ routes'[s].depth = routes[s].depth
    BY <1>e, <2>2 DEF Route
  <2>4. RoutedOncePerPair'
    BY <1>a, <2>1, <2>2, <2>3 DEF RoutedOncePerPair
  <2>5. QED
    BY <1>b, <2>1, <2>4 DEF SubscribedInv
<1>7. CASE Parse
  <2>1. UNCHANGED <<calls, subscriptions>>
    BY <1>7 DEF Parse, subscriptionVars
  <2> DEFINE m == Head(queue)
             r == routes[m.symbol].receiver
  <2>2. queue \in Seq(Message) /\ queue # <<>> /\ m \in Message
    BY <1>7 DEF Parse, TypeInv, FeedTypeOK
  <2>3. CASE UNCHANGED <<routes, heard>>
    BY <1>c, <2>1, <2>3
  <2>4. CASE m.symbol \in DOMAIN routes /\ (Deliver(m) \/ Mismatch(m))
    <3>1. /\ DOMAIN routes' = DOMAIN routes
          /\ \A s \in DOMAIN routes : routes'[s].receiver = routes[s].receiver
                                        /\ routes'[s].depth = routes[s].depth
      <4>1. routes[m.symbol] \in Route
        BY <1>e, <2>4
      <4>2. \E route : /\ routes' = [routes EXCEPT ![m.symbol] = route]
                       /\ route.receiver = r /\ route.depth = routes[m.symbol].depth
        <5>1. CASE Deliver(m)
          <6>1. routes' = [routes EXCEPT ![m.symbol] =
                  [routes[m.symbol] EXCEPT !.awaiting = FALSE, !.book = BookAfter(m)]]
            BY <2>4, <5>1 DEF Deliver
          <6>2. QED
            <7> DEFINE route == [routes[m.symbol] EXCEPT !.awaiting = FALSE, !.book = BookAfter(m)]
            <7>1. route.receiver = r /\ route.depth = routes[m.symbol].depth
              BY <4>1 DEF Route
            <7>2. QED
              BY <6>1, <7>1
        <5>2. CASE Mismatch(m)
          <6>1. routes' = [routes EXCEPT ![m.symbol] = AfterMismatch(routes[m.symbol])]
            BY <2>4, <5>2 DEF Mismatch
          <6>2. QED
            <7> DEFINE route == AfterMismatch(routes[m.symbol])
            <7>1. route.receiver = r /\ route.depth = routes[m.symbol].depth
              BY <4>1 DEF Route, AfterMismatch
            <7>2. QED
              BY <6>1, <7>1
        <5>3. QED
          BY <2>4, <5>1, <5>2
      <4>3. QED
        BY <4>2
    <3>2. r \in DOMAIN subscriptions
      BY <1>a, <2>4
    <3>3. r \in Receivers
      BY <1>d, <3>2 DEF Ids
    <3>4. heard'[r].phase \in {"live", "resubscribing"}
      BY <1>d, <2>4, <3>3 DEF Deliver, Mismatch, Heard
    <3>5. \A x \in Ids : x # r => heard'[x] = heard[x]
      BY <1>d, <2>4, <3>3 DEF Deliver, Mismatch, Ids
    <3>6. RoutedOncePerPair'
      BY <1>a, <2>1, <3>1 DEF RoutedOncePerPair
    <3>7. QED
      BY <1>b, <1>d, <2>1, <3>2, <3>4, <3>5, <3>6 DEF SubscribedInv
  <2>5. QED
    BY <1>7, <2>3, <2>4 DEF Parse, Ignore, Deliver, Mismatch, HasRoute
<1>8. CASE Connect \/ Disconnect \/ Destroy \/ DestroyDisconnects \/ JoinFeed
  BY <1>8, <1>c DEF Connect, Disconnect, Destroy, DestroyDisconnects, BeginDisconnect, JoinFeed,
              parserVars, subscriptionVars
<1>9. CASE VenueHandles \/ (\E s \in Symbols : ReadFrame(s)) \/ PushFrame \/ StopNetwork
             \/ NetworkFails
  BY <1>9, <1>c DEF VenueHandles, ReadFrame, PushFrame, StopNetwork, NetworkFails, networkUnchanged,
              parserVars, subscriptionVars
<1>10. CASE TakePending \/ Resubscribe \/ EndResubscriber
  BY <1>10, <1>c DEF TakePending, Resubscribe, EndResubscriber, resubscriberUnchanged, parserVars,
               subscriptionVars
<1>11. CASE UNCHANGED vars
  BY <1>11, <1>c DEF vars, parserVars, subscriptionVars
<1>12. QED
  BY <1>1, <1>2, <1>3, <1>4, <1>5, <1>6, <1>7, <1>8, <1>9, <1>10, <1>11
     DEF Next, Holder, Network

-----------------------------------------------------------------------------
(* Two routes have two receivers.                                          *)
LEMMA ReceiversApart ==
  ASSUME RouteTypeOK, SubscribedInv
  PROVE  /\ \A s \in DOMAIN routes :
              /\ routes[s].receiver \in DOMAIN subscriptions
              /\ routes[s].receiver \in Receivers
              /\ subscriptions[routes[s].receiver].symbol = s
         /\ \A s, t \in DOMAIN routes : routes[s].receiver = routes[t].receiver => s = t
<1>1. \A s \in DOMAIN routes :
        /\ routes[s].receiver \in DOMAIN subscriptions
        /\ subscriptions[routes[s].receiver].symbol = s
  BY DEF SubscribedInv, RoutedOncePerPair
<1>2. DOMAIN subscriptions \subseteq Receivers
  BY DEF RouteTypeOK, Ids
<1>3. QED
  BY <1>1, <1>2

(* The frames on the way, the parser's next one first.                     *)
LEMMA FramesProperties ==
  ASSUME queue \in Seq(Message), inHand \in Seq(Message)
  PROVE  /\ frames \in Seq(Message) /\ Len(frames) = Len(queue) + Len(inHand)
         /\ queue # <<>> => Len(frames) > 0 /\ frames[1] = Head(queue)
         /\ queue = <<>> /\ inHand = <<>> => frames = <<>>
BY DEF frames

(* An update that a route takes is the next one of its receiver's stream.  *)
LEMMA NextFrameFollows ==
  ASSUME IInv, parser = "running", queue # <<>>, NEW m, m = Head(queue), HasRoute(m), m.seq # 0
  PROVE  LET h == heard[routes[m.symbol].receiver]
         IN h.phase = "live" /\ h.stream = m.stream /\ h.seq + 1 = m.seq
<1>1. m \in Message /\ Len(frames) \in Nat /\ Len(frames) > 0 /\ frames[1] = m
  BY FramesProperties DEF IInv, TypeInv, FeedTypeOK
<1>2. Continues(0, m.symbol, m.stream, m.seq)
  BY <1>1 DEF IInv, Continuity
<1>3. RouteExpects(m.symbol, m.stream, m.seq)
  BY <1>2 DEF Continues
<1>4. m.symbol \in DOMAIN routes /\ ~routes[m.symbol].awaiting
  BY DEF HasRoute, IsSnapshot
<1>5. connected
  BY DEF IInv, LifeInv
<1>6. heard[routes[m.symbol].receiver].phase = "live"
  BY <1>4, <1>5 DEF IInv, GateInv, GateOf
<1>7. QED
  BY <1>3, <1>4, <1>6 DEF RouteExpects

(* So the book it leads to is the venue's, and only a checksum that        *)
(* differs, or no stream, fails it.                                        *)
LEMMA DeliveredBook ==
  ASSUME IInv, parser = "running", queue # <<>>, NEW m, m = Head(queue), HasRoute(m), HasChecksum
  PROVE  BookAfter(m) = PlaceOf(m)
<1>1. CASE m.seq = 0
  BY <1>1 DEF BookAfter, Applied, IsSnapshot
<1>2. CASE m.seq # 0
  <2> DEFINE h == heard[routes[m.symbol].receiver]
             book == routes[m.symbol].book
  <2>1. h.phase = "live" /\ h.stream = m.stream /\ h.seq + 1 = m.seq
    BY <1>2, NextFrameFollows
  <2>2. m.symbol \in DOMAIN routes /\ connected
    BY DEF HasRoute, IInv, LifeInv
  <2>3. book = [stream |-> h.stream, seq |-> h.seq]
    BY <2>1, <2>2 DEF IInv, GateInv, GateOf
  <2>4. book.stream = m.stream /\ book.seq + 1 = m.seq
    BY <2>1, <2>3
  <2>5. QED
    BY <2>4 DEF BookAfter, Applied
<1>3. QED
  BY <1>1, <1>2

(* Emit() to a receiver changes its route and what it was told, only.      *)
LEMMA DeliverEffect ==
  ASSUME RouteTypeOK, SubscribedInv, NEW m, Deliver(m)
  PROVE  LET r == routes[m.symbol].receiver
         IN /\ m.symbol \in DOMAIN routes /\ DOMAIN routes' = DOMAIN routes
            /\ \A s \in DOMAIN routes : routes'[s].receiver = routes[s].receiver
            /\ \A s \in DOMAIN routes : s # m.symbol => routes'[s] = routes[s]
            /\ ~routes'[m.symbol].awaiting /\ routes'[m.symbol].book = BookAfter(m)
            /\ heard'[r] = [phase |-> "live", stream |-> m.stream, seq |-> m.seq]
            /\ \A q \in Receivers : q # r => heard'[q] = heard[q]
<1>1. m.symbol \in DOMAIN routes /\ routes[m.symbol] \in Route
  BY DEF Deliver, HasRoute, RouteTypeOK
<1>2. routes' = [routes EXCEPT ![m.symbol] =
                   [routes[m.symbol] EXCEPT !.awaiting = FALSE, !.book = BookAfter(m)]]
  BY <1>1 DEF Deliver
<1>3. heard' = [heard EXCEPT ![routes[m.symbol].receiver] =
                  [phase |-> "live", stream |-> m.stream, seq |-> m.seq]]
  BY DEF Deliver
<1>4. routes[m.symbol].receiver \in Receivers /\ heard \in [Receivers -> Heard]
  BY <1>1 DEF Route, RouteTypeOK, Heard
<1> DEFINE route == [routes[m.symbol] EXCEPT !.awaiting = FALSE, !.book = BookAfter(m)]
<1>5. /\ route.receiver = routes[m.symbol].receiver
      /\ route.awaiting = FALSE /\ route.book = BookAfter(m)
  BY <1>1 DEF Route
<1>6. routes' = [routes EXCEPT ![m.symbol] = route]
  BY <1>2
<1> HIDE DEF route
<1>7. /\ DOMAIN routes' = DOMAIN routes /\ routes'[m.symbol] = route
      /\ \A s \in DOMAIN routes : s # m.symbol => routes'[s] = routes[s]
  BY <1>1, <1>6
<1>8. /\ heard'[routes[m.symbol].receiver] = [phase |-> "live", stream |-> m.stream, seq |-> m.seq]
      /\ \A q \in Receivers : q # routes[m.symbol].receiver => heard'[q] = heard[q]
  BY <1>3, <1>4
<1>9. QED
  BY <1>1, <1>5, <1>7, <1>8

(* And so does a mismatch.                                                 *)
LEMMA MismatchEffect ==
  ASSUME RouteTypeOK, SubscribedInv, NEW m, Mismatch(m)
  PROVE  LET r == routes[m.symbol].receiver
         IN /\ m.symbol \in DOMAIN routes /\ DOMAIN routes' = DOMAIN routes
            /\ \A s \in DOMAIN routes : routes'[s].receiver = routes[s].receiver
            /\ \A s \in DOMAIN routes : s # m.symbol => routes'[s] = routes[s]
            /\ routes'[m.symbol].awaiting
            /\ heard'[r] = [phase |-> "resubscribing", stream |-> heard[r].stream,
                            seq |-> heard[r].seq]
            /\ \A q \in Receivers : q # r => heard'[q] = heard[q]
<1>1. m.symbol \in DOMAIN routes /\ routes[m.symbol] \in Route
  BY DEF Mismatch, HasRoute, RouteTypeOK
<1> DEFINE route == AfterMismatch(routes[m.symbol])
<1>2. routes' = [routes EXCEPT ![m.symbol] = route]
  BY DEF Mismatch
<1>3. heard' = [heard EXCEPT ![routes[m.symbol].receiver].phase = "resubscribing"]
  BY DEF Mismatch
<1>4. routes[m.symbol].receiver \in Receivers /\ heard \in [Receivers -> Heard]
  BY <1>1 DEF Route, RouteTypeOK, Heard
<1>5. route.receiver = routes[m.symbol].receiver /\ route.awaiting = TRUE
  BY <1>1 DEF Route, AfterMismatch
<1> HIDE DEF route
<1>6. /\ DOMAIN routes' = DOMAIN routes /\ routes'[m.symbol] = route
      /\ \A s \in DOMAIN routes : s # m.symbol => routes'[s] = routes[s]
  BY <1>1, <1>2
<1>7. "resubscribing" \in Phase
  BY DEF Phase
<1>8. QED
  BY <1>1, <1>3, <1>4, <1>5, <1>6, <1>7, HeardExcept

(* Every step that ends a stream closes its gate, or the gate is closed    *)
(* before the next connection's first frame: Start() closes them all.      *)
LEMMA GateStep == IInv /\ [Next]_vars => GateInv'
<1> SUFFICES ASSUME IInv, [Next]_vars PROVE GateInv'
  OBVIOUS
<1>a. RouteTypeOK /\ LifeTypeOK /\ LifeInv /\ SubscribedInv /\ GateInv
  BY DEF IInv, TypeInv
<1>b. /\ \A s \in DOMAIN routes :
           /\ routes[s].receiver \in DOMAIN subscriptions
           /\ routes[s].receiver \in Receivers
           /\ subscriptions[routes[s].receiver].symbol = s
      /\ \A s, t \in DOMAIN routes : routes[s].receiver = routes[t].receiver => s = t
  BY <1>a, ReceiversApart
<1>c. UNCHANGED <<routes, heard, connected>> => GateInv'
  BY <1>a DEF GateInv, GateOf
<1>d. heard \in [Receivers -> Heard]
  BY <1>a DEF RouteTypeOK, Heard
<1>1. CASE \/ \E id \in Ids, book \in Book : Subscribe(id, book)
           \/ \E id \in Ids : SubscribeFails(id)
  BY <1>1, <1>c DEF Subscribe, SubscribeFails, parserVars, lifeCycleVars
<1>2. ASSUME NEW id \in Ids, SubscribeFetched(id)
      PROVE  GateInv'
  <2>0. PICK book : book = calls[id].book
    OBVIOUS
  <2>1. CASE TakenMeanwhile(id, book) # {}
    BY <1>2, <1>c, <2>0, <2>1 DEF SubscribeFetched, lifeCycleVars
  <2>2. CASE TakenMeanwhile(id, book) = {}
    <3>1. /\ routes' = Put(routes, book.symbol, NewRoute(id, book.depth))
          /\ heard' = [heard EXCEPT ![id].phase = "fresh"]
          /\ connected' = connected
      BY <1>2, <2>0, <2>2 DEF SubscribeFetched, AttachRoute, lifeCycleVars
    <3>2. id \notin DOMAIN subscriptions
      BY <1>2, <1>a DEF SubscribeFetched, SubscribedInv
    <3>3. /\ DOMAIN routes' = DOMAIN routes \cup {book.symbol}
          /\ routes'[book.symbol] = NewRoute(id, book.depth)
          /\ \A s \in DOMAIN routes : s # book.symbol => routes'[s] = routes[s]
      BY <3>1 DEF Put
    <3>4. /\ heard'[id].phase = "fresh"
          /\ \A x \in Receivers : x # id => heard'[x] = heard[x]
      BY <1>d, <3>1, HeardExcept DEF Ids, Phase
    <3>5. NewRoute(id, book.depth).receiver = id /\ NewRoute(id, book.depth).awaiting = TRUE
      BY DEF NewRoute
    <3>6. \A s \in DOMAIN routes' : s # book.symbol =>
            s \in DOMAIN routes /\ routes'[s] = routes[s]
              /\ heard'[routes[s].receiver] = heard[routes[s].receiver]
      BY <1>b, <3>2, <3>3, <3>4
    <3>7. GateOf(book.symbol)'
      BY <3>1, <3>3, <3>4, <3>5 DEF GateOf
    <3>8. ASSUME NEW s \in DOMAIN routes', s # book.symbol
          PROVE  GateOf(s)'
      <4>1. routes'[s] = routes[s] /\ heard'[routes[s].receiver] = heard[routes[s].receiver]
        BY <3>6, <3>8
      <4>2. GateOf(s)
        BY <1>a, <3>6, <3>8 DEF GateInv
      <4>3. QED
        BY <3>1, <4>1, <4>2 DEF GateOf
    <3>9. QED
      BY <3>7, <3>8 DEF GateInv
  <2>3. QED
    BY <2>1, <2>2
<1>3. ASSUME NEW id \in Ids, Unsubscribe(id)
      PROVE  GateInv'
  <2>1. /\ routes' = Without(routes, subscriptions[id].symbol)
        /\ heard' = [heard EXCEPT ![id].phase = "gone"]
        /\ connected' = connected
    BY <1>3 DEF Unsubscribe, DetachRoute, lifeCycleVars
  <2>2. /\ DOMAIN routes' = DOMAIN routes \ {subscriptions[id].symbol}
        /\ \A s \in DOMAIN routes' : routes'[s] = routes[s]
    BY <2>1 DEF Without
  <2>3. \A x \in Receivers : x # id => heard'[x] = heard[x]
    BY <1>d, <2>1, HeardExcept DEF Ids, Phase
  <2>4. \A s \in DOMAIN routes' :
          routes'[s] = routes[s] /\ heard'[routes[s].receiver] = heard[routes[s].receiver]
    BY <1>b, <2>2, <2>3
  <2>5. \A s \in DOMAIN routes' : GateOf(s)
    BY <1>a, <2>2 DEF GateInv
  <2>6. ASSUME NEW s \in DOMAIN routes' PROVE GateOf(s)'
    <3>1. routes'[s] = routes[s] /\ heard'[routes[s].receiver] = heard[routes[s].receiver]
      BY <2>4
    <3>2. GateOf(s)
      BY <2>5
    <3>3. QED
      BY <2>1, <3>1, <3>2 DEF GateOf
  <2>7. QED
    BY <2>6 DEF GateInv
<1>4. CASE JoinParser
  <2>1. routes' = routes /\ connected' = FALSE
    BY <1>4 DEF JoinParser
  <2>2. \A r \in Receivers :
          heard'[r] = IF r \in Disconnected THEN [heard[r] EXCEPT !.phase = "disconnected"]
                                            ELSE heard[r]
    BY <1>4 DEF JoinParser
  <2>3. \A r \in DOMAIN subscriptions : r \in Receivers => heard'[r].phase # "live"
                                          \/ (~connected /\ heard'[r] = heard[r])
    <3>1. SUFFICES ASSUME NEW r \in DOMAIN subscriptions, r \in Receivers
                   PROVE  heard'[r].phase # "live" \/ (~connected /\ heard'[r] = heard[r])
      OBVIOUS
    <3>2. CASE connected
      <4>1. heard'[r] = [heard[r] EXCEPT !.phase = "disconnected"]
        BY <2>2, <3>1, <3>2 DEF Disconnected
      <4>2. QED
        BY <1>d, <3>1, <4>1 DEF Heard
    <3>3. CASE ~connected
      BY <2>2, <3>1, <3>3 DEF Disconnected
    <3>4. QED
      BY <3>2, <3>3
  <2>4. \A s \in DOMAIN routes : heard'[routes[s].receiver].phase # "live"
    BY <1>a, <1>b, <2>3 DEF GateInv, GateOf
  <2>5. QED
    BY <2>1, <2>4 DEF GateInv, GateOf
<1>5. CASE ConnectFeed \/ ConnectFeedThrows
  <2>1. /\ DOMAIN routes' = DOMAIN routes
        /\ \A s \in DOMAIN routes : routes'[s] = [routes[s] EXCEPT !.awaiting = TRUE]
        /\ heard' = heard
    BY <1>5 DEF ConnectFeed, ConnectFeedThrows, AwaitSnapshots
  <2>2. \A s \in DOMAIN routes :
          routes'[s].receiver = routes[s].receiver /\ routes'[s].awaiting = TRUE
    BY <1>a, <2>1 DEF RouteTypeOK, Route
  <2>3. \A s \in DOMAIN routes : heard[routes[s].receiver].phase # "live"
    BY <1>5, <1>a DEF LifeInv, GateInv, GateOf, ConnectFeed, ConnectFeedThrows
  <2>4. QED
    BY <2>1, <2>2, <2>3 DEF GateInv, GateOf
<1>6. CASE Parse
  <2> DEFINE m == Head(queue)
             r == routes[m.symbol].receiver
  <2>1. parser = "running" /\ queue # <<>> /\ connected /\ connected' = connected
    BY <1>6, <1>a DEF Parse, LifeInv, lifeCycleVars
  <2>2. CASE UNCHANGED <<routes, heard>>
    BY <2>1, <2>2, <1>c
  <2>3. CASE Deliver(m)
    <3>1. /\ m.symbol \in DOMAIN routes /\ DOMAIN routes' = DOMAIN routes
          /\ \A s \in DOMAIN routes : routes'[s].receiver = routes[s].receiver
          /\ \A s \in DOMAIN routes : s # m.symbol => routes'[s] = routes[s]
          /\ ~routes'[m.symbol].awaiting /\ routes'[m.symbol].book = BookAfter(m)
          /\ heard'[r] = [phase |-> "live", stream |-> m.stream, seq |-> m.seq]
          /\ \A q \in Receivers : q # r => heard'[q] = heard[q]
      BY <1>a, <2>3, DeliverEffect
    <3>2. HasChecksum => BookAfter(m) = [stream |-> m.stream, seq |-> m.seq]
      BY <2>1, <2>3, DeliveredBook DEF Deliver, PlaceOf
    <3>3. \A s \in DOMAIN routes : s # m.symbol =>
            heard'[routes[s].receiver] = heard[routes[s].receiver]
      BY <1>b, <3>1
    <3>4. QED
      BY <1>a, <2>1, <3>1, <3>2, <3>3 DEF GateInv, GateOf
  <2>4. CASE Mismatch(m)
    <3>1. /\ m.symbol \in DOMAIN routes /\ DOMAIN routes' = DOMAIN routes
          /\ \A s \in DOMAIN routes : routes'[s].receiver = routes[s].receiver
          /\ \A s \in DOMAIN routes : s # m.symbol => routes'[s] = routes[s]
          /\ routes'[m.symbol].awaiting
          /\ heard'[r] = [phase |-> "resubscribing", stream |-> heard[r].stream,
                          seq |-> heard[r].seq]
          /\ \A q \in Receivers : q # r => heard'[q] = heard[q]
      BY <1>a, <2>4, MismatchEffect
    <3>2. \A s \in DOMAIN routes : s # m.symbol =>
            heard'[routes[s].receiver] = heard[routes[s].receiver]
      BY <1>b, <3>1
    <3>3. heard'[r].phase = "resubscribing"
      BY <3>1
    <3>4. QED
      BY <1>a, <2>1, <3>1, <3>2, <3>3 DEF GateInv, GateOf
  <2>5. QED
    BY <1>6, <2>2, <2>3, <2>4 DEF Parse, Ignore
<1>7. CASE Connect \/ Disconnect \/ Destroy \/ DestroyDisconnects \/ JoinFeed
  BY <1>7, <1>c DEF Connect, Disconnect, Destroy, DestroyDisconnects, BeginDisconnect, JoinFeed,
              parserVars
<1>8. CASE VenueHandles \/ (\E s \in Symbols : ReadFrame(s)) \/ PushFrame \/ StopNetwork
             \/ NetworkFails
  BY <1>8, <1>c DEF VenueHandles, ReadFrame, PushFrame, StopNetwork, NetworkFails, networkUnchanged,
              parserVars, lifeCycleVars
<1>9. CASE TakePending \/ Resubscribe \/ EndResubscriber
  BY <1>9, <1>c DEF TakePending, Resubscribe, EndResubscriber, resubscriberUnchanged, parserVars,
               lifeCycleVars
<1>10. CASE UNCHANGED vars
  BY <1>10, <1>c DEF vars, parserVars, lifeCycleVars
<1>11. QED
  BY <1>1, <1>2, <1>3, <1>4, <1>5, <1>6, <1>7, <1>8, <1>9, <1>10
     DEF Next, Holder, Network

-----------------------------------------------------------------------------
(* Continuity is about these variables only.                               *)
LEMMA ContinuityKept ==
  ASSUME Continuity, FeedTypeOK, parser = "running", frames' = frames,
         \A s, stream, seq : RouteExpects(s, stream, seq) => RouteExpects(s, stream, seq)',
         \A s \in Symbols : venue'[s].next = 0 \/ venue'[s] = venue[s]
  PROVE  Continuity'
<1>1. ASSUME NEW n, NEW s, NEW stream, NEW seq, Continues(n, s, stream, seq)
      PROVE  Continues(n, s, stream, seq)'
  BY <1>1 DEF Continues
<1>2. \A i \in 1..Len(frames) : Continues(i - 1, frames[i].symbol, frames[i].stream, frames[i].seq)
  BY DEF Continuity
<1>3. \A s \in Symbols : Continues(Len(frames), s, venue[s].stream, venue[s].next)
  BY DEF Continuity
<1>4. ASSUME NEW i \in 1..Len(frames')
      PROVE  Continues(i - 1, frames[i].symbol, frames[i].stream, frames[i].seq)'
  <2>1. PICK m : m = frames[i]
    OBVIOUS
  <2>2. Continues(i - 1, m.symbol, m.stream, m.seq)'
    BY <1>1, <1>2, <1>4, <2>1
  <2>3. frames'[i] = m
    BY <2>1
  <2>4. QED
    BY <2>2, <2>3
<1>5. ASSUME NEW s \in Symbols
      PROVE  Continues(Len(frames), s, venue[s].stream, venue[s].next)'
  <2>1. CASE venue'[s].next = 0
    BY <2>1 DEF Continues
  <2>2. CASE venue'[s] = venue[s]
    <3>1. PICK n, v : n = Len(frames) /\ v = venue[s]
      OBVIOUS
    <3>2. Continues(n, s, v.stream, v.next)'
      BY <1>1, <1>3, <3>1
    <3>3. Len(frames') = n /\ venue'[s] = v
      BY <2>2, <3>1
    <3>4. QED
      BY <3>2, <3>3
  <2>3. QED
    BY <2>1, <2>2
<1>6. QED
  BY <1>4, <1>5 DEF Continuity

(* A frame pushed behind the others changes nothing for those.             *)
LEMMA ContinuesExtended ==
  ASSUME frames \in Seq(Message), frames' \in Seq(Message), Len(frames') = Len(frames) + 1,
         \A i \in 1..Len(frames) : frames'[i] = frames[i],
         NEW n \in 0..Len(frames), NEW s, NEW stream, NEW seq, Continues(n, s, stream, seq),
         RouteExpects(s, stream, seq) => RouteExpects(s, stream, seq)'
  PROVE  /\ Continues(n, s, stream, seq)'
         /\ n = Len(frames) /\ frames'[n + 1].symbol # s => Continues(n + 1, s, stream, seq)'
<1>0. n \in Nat /\ \A i \in 1..n : frames'[i] = frames[i]
  OBVIOUS
<1>1. CASE seq = 0
  BY <1>1 DEF Continues
<1>2. CASE (\A i \in 1..n : frames[i].symbol # s) /\ RouteExpects(s, stream, seq)
  <2>1. (\A i \in 1..n : frames'[i].symbol # s) /\ RouteExpects(s, stream, seq)'
    BY <1>0, <1>2
  <2>2. frames'[n + 1].symbol # s => \A i \in 1..(n + 1) : frames'[i].symbol # s
    BY <1>0, <2>1
  <2>3. QED
    BY <2>1, <2>2 DEF Continues
<1>3. CASE \E i \in 1..n : /\ frames[i].symbol = s
                           /\ \A j \in (i + 1)..n : frames[j].symbol # s
                           /\ frames[i].stream = stream /\ frames[i].seq + 1 = seq
  <2>1. PICK i \in 1..n : /\ frames[i].symbol = s
                          /\ \A j \in (i + 1)..n : frames[j].symbol # s
                          /\ frames[i].stream = stream /\ frames[i].seq + 1 = seq
    BY <1>3
  <2>2. /\ frames'[i].symbol = s /\ frames'[i].stream = stream /\ frames'[i].seq + 1 = seq
        /\ \A j \in (i + 1)..n : frames'[j].symbol # s
    BY <1>0, <2>1
  <2>3. frames'[n + 1].symbol # s => \A j \in (i + 1)..(n + 1) : frames'[j].symbol # s
    BY <1>0, <2>2
  <2>4. i \in 1..(n + 1)
    BY <1>0
  <2>5. QED
    BY <2>2, <2>3, <2>4 DEF Continues
<1>4. QED
  BY <1>1, <1>2, <1>3 DEF Continues

(* Nor does parsing the first one, if its receiver was told of it.         *)
LEMMA ContinuesShifted ==
  ASSUME frames \in Seq(Message), frames' \in Seq(Message), Len(frames) = Len(frames') + 1,
         \A i \in 1..Len(frames') : frames'[i] = frames[i + 1],
         NEW n \in 1..Len(frames), NEW s, NEW stream, NEW seq, Continues(n, s, stream, seq),
         frames[1].symbol = s /\ frames[1].stream = stream /\ frames[1].seq + 1 = seq =>
           RouteExpects(s, stream, seq)',
         frames[1].symbol # s /\ RouteExpects(s, stream, seq) => RouteExpects(s, stream, seq)'
  PROVE  Continues(n - 1, s, stream, seq)'
<1>0. n \in Nat /\ Len(frames') \in Nat /\ \A i \in 1..(n - 1) : frames'[i] = frames[i + 1]
  OBVIOUS
<1>1. CASE seq = 0
  BY <1>1 DEF Continues
<1>2. CASE (\A i \in 1..n : frames[i].symbol # s) /\ RouteExpects(s, stream, seq)
  <2>1. frames[1].symbol # s
    BY <1>0, <1>2
  <2>2. \A i \in 1..(n - 1) : i + 1 \in 1..n
    BY <1>0
  <2>3. \A i \in 1..(n - 1) : frames'[i].symbol # s
    BY <1>0, <1>2, <2>2
  <2>4. QED
    BY <1>2, <2>1, <2>3 DEF Continues
<1>3. CASE \E i \in 1..n : /\ frames[i].symbol = s
                           /\ \A j \in (i + 1)..n : frames[j].symbol # s
                           /\ frames[i].stream = stream /\ frames[i].seq + 1 = seq
  <2>1. PICK i \in 1..n : /\ frames[i].symbol = s
                          /\ \A j \in (i + 1)..n : frames[j].symbol # s
                          /\ frames[i].stream = stream /\ frames[i].seq + 1 = seq
    BY <1>3
  <2>2. CASE i = 1
    <3>1. RouteExpects(s, stream, seq)'
      BY <2>1, <2>2
    <3>2. \A j \in 1..(n - 1) : j + 1 \in (i + 1)..n
      BY <1>0, <2>2
    <3>3. \A j \in 1..(n - 1) : frames'[j].symbol # s
      BY <1>0, <2>1, <3>2
    <3>4. QED
      BY <3>1, <3>3 DEF Continues
  <2>3. CASE i # 1
    <3>1. PICK k : k = i - 1
      OBVIOUS
    <3>2. k \in 1..(n - 1) /\ k + 1 = i
      BY <1>0, <2>3, <3>1
    <3>3. frames'[k] = frames[i]
      BY <1>0, <3>2
    <3>4. \A j \in (k + 1)..(n - 1) : j \in 1..(n - 1) /\ j + 1 \in (i + 1)..n
      BY <1>0, <3>2
    <3>5. \A j \in (k + 1)..(n - 1) : frames'[j].symbol # s
      BY <1>0, <2>1, <3>4
    <3>6. QED
      BY <2>1, <3>2, <3>3, <3>5 DEF Continues
  <2>4. QED
    BY <2>2, <2>3
<1>4. QED
  BY <1>1, <1>2, <1>3 DEF Continues

(* What the venue makes of the next request. *)
LEMMA VenueEffect ==
  ASSUME FeedTypeOK, VenueHandles
  PROVE  LET r == Head(requests)
             opens == r.kind = "subscribe" /\ venue[r.symbol].stream = 0
             closes == r.kind = "unsubscribe" /\ venue[r.symbol].depth = r.depth
         IN /\ r \in Request
            /\ \A s \in Symbols : s # r.symbol => venue'[s] = venue[s]
            /\ opens => venue'[r.symbol] = [stream |-> opened[r.symbol] + 1,
                                           depth |-> r.depth, next |-> 0]
            /\ closes => venue'[r.symbol] = NotStreaming
            /\ ~opens /\ ~closes => venue'[r.symbol] = venue[r.symbol]
<1> DEFINE r == Head(requests)
           opens == r.kind = "subscribe" /\ venue[r.symbol].stream = 0
           closes == r.kind = "unsubscribe" /\ venue[r.symbol].depth = r.depth
           handled == CASE opens -> [stream |-> opened'[r.symbol], depth |-> r.depth, next |-> 0]
                        [] closes -> NotStreaming
                        [] OTHER -> venue[r.symbol]
<1>1. requests \in Seq(Request) /\ requests # <<>>
  BY DEF FeedTypeOK, VenueHandles
<1>2. r \in Request
  BY <1>1
<1>3. r.symbol \in Symbols
  BY <1>2 DEF Request
<1>4. venue' = [venue EXCEPT ![r.symbol] = handled]
  BY DEF VenueHandles
<1>5. /\ DOMAIN venue = Symbols /\ DOMAIN opened = Symbols
      /\ venue = [s \in Symbols |-> venue[s]] /\ opened = [s \in Symbols |-> opened[s]]
  BY DEF FeedTypeOK
<1>6. opens => opened'[r.symbol] = opened[r.symbol] + 1
  BY <1>3, <1>5 DEF VenueHandles
<1>7. /\ opens => handled = [stream |-> opened'[r.symbol], depth |-> r.depth, next |-> 0]
      /\ closes => handled = NotStreaming
      /\ ~opens /\ ~closes => handled = venue[r.symbol]
  OBVIOUS
<1> HIDE DEF handled
<1>8. venue'[r.symbol] = handled /\ \A s \in Symbols : s # r.symbol => venue'[s] = venue[s]
  BY <1>3, <1>4, <1>5
<1>9. QED
  BY <1>2, <1>6, <1>7, <1>8

(* Frames reach the parser in the order the venue sent them, none is left  *)
(* out and none is left over from a connection before.                     *)
LEMMA ContinuityStep == IInv /\ FeedTypeOK' /\ [Next]_vars => Continuity'
<1> SUFFICES ASSUME IInv, FeedTypeOK', [Next]_vars, parser' = "running" PROVE Continuity'
  BY DEF Continuity
<1>a. FeedTypeOK /\ RouteTypeOK /\ LifeTypeOK /\ LifeInv /\ SubscribedInv /\ GateInv /\ Continuity
  BY DEF IInv, TypeInv
<1>b. /\ \A s \in DOMAIN routes :
           /\ routes[s].receiver \in DOMAIN subscriptions
           /\ routes[s].receiver \in Receivers
           /\ subscriptions[routes[s].receiver].symbol = s
      /\ \A s, t \in DOMAIN routes : routes[s].receiver = routes[t].receiver => s = t
  BY <1>a, ReceiversApart
<1>c. ASSUME UNCHANGED <<routes, heard, parser>>, frames' = frames,
             \A s \in Symbols : venue'[s].next = 0 \/ venue'[s] = venue[s]
      PROVE  Continuity'
  <2>1. \A s, stream, seq : RouteExpects(s, stream, seq) => RouteExpects(s, stream, seq)'
    BY <1>c DEF RouteExpects
  <2>2. parser = "running"
    BY <1>c
  <2>3. QED
    BY <1>a, <1>c, <2>1, <2>2, ContinuityKept
<1>d. UNCHANGED <<queue, inHand>> => frames' = frames
  BY DEF frames
<1>e. heard \in [Receivers -> Heard]
  BY <1>a DEF RouteTypeOK, Heard
<1>f. frames \in Seq(Message) /\ frames' \in Seq(Message) /\ Len(frames) \in Nat
  BY <1>a DEF FeedTypeOK, frames
<1>1. CASE \/ \E id \in Ids, book \in Book : Subscribe(id, book)
           \/ \E id \in Ids : SubscribeFails(id)
  BY <1>1, <1>c, <1>d DEF Subscribe, SubscribeFails, feedVars, parserVars
<1>2. ASSUME NEW id \in Ids, SubscribeFetched(id)
      PROVE  Continuity'
  <2>0. PICK book : book = calls[id].book
    OBVIOUS
  <2>1. UNCHANGED <<queue, inHand, venue, parser>>
    BY <1>2 DEF SubscribeFetched
  <2>2. CASE TakenMeanwhile(id, book) # {}
    BY <1>2, <1>c, <1>d, <2>0, <2>1, <2>2 DEF SubscribeFetched
  <2>3. CASE TakenMeanwhile(id, book) = {}
    <3>1. /\ routes' = Put(routes, book.symbol, NewRoute(id, book.depth))
          /\ heard' = [heard EXCEPT ![id].phase = "fresh"]
      BY <1>2, <2>0, <2>3 DEF SubscribeFetched, AttachRoute
    <3>2. id \notin DOMAIN subscriptions
      BY <1>2, <1>a DEF SubscribeFetched, SubscribedInv
    <3>3. /\ DOMAIN routes' = DOMAIN routes \cup {book.symbol}
          /\ routes'[book.symbol].awaiting = TRUE
          /\ \A s \in DOMAIN routes : s # book.symbol => routes'[s] = routes[s]
      BY <3>1 DEF Put, NewRoute
    <3>4. \A x \in Receivers : x # id => heard'[x] = heard[x]
      BY <1>e, <3>1, HeardExcept DEF Ids, Phase
    <3>5. ASSUME NEW s, NEW stream, NEW seq, RouteExpects(s, stream, seq)
          PROVE  RouteExpects(s, stream, seq)'
      <4>1. CASE s = book.symbol \/ s \notin DOMAIN routes'
        BY <3>3, <4>1 DEF RouteExpects
      <4>2. CASE s # book.symbol /\ s \in DOMAIN routes'
        <5>1. s \in DOMAIN routes /\ routes'[s] = routes[s] /\ routes[s].receiver # id
          BY <1>b, <3>2, <3>3, <4>2
        <5>2. heard'[routes[s].receiver] = heard[routes[s].receiver]
          BY <1>b, <3>4, <5>1
        <5>3. QED
          BY <3>5, <5>1, <5>2 DEF RouteExpects
      <4>3. QED
        BY <4>1, <4>2
    <3>6. QED
      BY <1>a, <1>d, <2>1, <3>5, ContinuityKept
  <2>4. QED
    BY <2>2, <2>3
<1>3. ASSUME NEW id \in Ids, Unsubscribe(id)
      PROVE  Continuity'
  <2>1. /\ routes' = Without(routes, subscriptions[id].symbol)
        /\ heard' = [heard EXCEPT ![id].phase = "gone"]
        /\ UNCHANGED <<queue, inHand, venue, parser>>
    BY <1>3 DEF Unsubscribe, DetachRoute
  <2>2. /\ DOMAIN routes' = DOMAIN routes \ {subscriptions[id].symbol}
        /\ \A s \in DOMAIN routes' : routes'[s] = routes[s]
    BY <2>1 DEF Without
  <2>3. \A x \in Receivers : x # id => heard'[x] = heard[x]
    BY <1>e, <2>1, HeardExcept DEF Ids, Phase
  <2>4. ASSUME NEW s, NEW stream, NEW seq, RouteExpects(s, stream, seq)
        PROVE  RouteExpects(s, stream, seq)'
    <3>1. CASE s \notin DOMAIN routes'
      BY <3>1 DEF RouteExpects
    <3>2. CASE s \in DOMAIN routes'
      <4>1. s \in DOMAIN routes /\ routes'[s] = routes[s] /\ routes[s].receiver # id
        BY <1>b, <2>2, <3>2
      <4>2. heard'[routes[s].receiver] = heard[routes[s].receiver]
        BY <1>b, <2>3, <4>1
      <4>3. QED
        BY <2>4, <4>1, <4>2 DEF RouteExpects
    <3>3. QED
      BY <3>1, <3>2
  <2>5. QED
    BY <1>a, <1>d, <2>1, <2>4, ContinuityKept
<1>4. CASE Connect \/ Disconnect \/ Destroy \/ DestroyDisconnects
  BY <1>4, <1>c, <1>d DEF Connect, Disconnect, Destroy, DestroyDisconnects, BeginDisconnect, feedVars,
              parserVars
<1>5. CASE JoinFeed
  BY <1>5, <1>c, <1>d DEF JoinFeed, parserVars, NotStreaming
<1>6. CASE JoinParser
  BY <1>6 DEF JoinParser
<1>7. CASE ConnectFeedThrows
  BY <1>7, <1>a DEF ConnectFeedThrows, LifeInv
<1>8. CASE ConnectFeed
  <2>1. queue = <<>> /\ inHand = <<>> /\ UNCHANGED <<queue, inHand>>
    BY <1>8, <1>a DEF ConnectFeed, LifeInv
  <2>2. frames' = <<>>
    BY <2>1 DEF frames
  <2>3. /\ DOMAIN routes' = DOMAIN routes
        /\ \A s \in DOMAIN routes : routes'[s] = [routes[s] EXCEPT !.awaiting = TRUE]
    BY <1>8 DEF ConnectFeed, AwaitSnapshots
  <2>4. \A s \in DOMAIN routes' : routes'[s].awaiting = TRUE
    BY <1>a, <2>3 DEF RouteTypeOK, Route
  <2>5. ASSUME NEW s, NEW stream, NEW seq
        PROVE  RouteExpects(s, stream, seq)'
    BY <2>4 DEF RouteExpects
  <2>6. ASSUME NEW s \in Symbols
        PROVE  Continues(Len(frames), s, venue[s].stream, venue[s].next)'
    <3>1. PICK stream, seq : stream = venue'[s].stream /\ seq = venue'[s].next
      OBVIOUS
    <3>2. Continues(0, s, stream, seq)'
      BY <2>5 DEF Continues
    <3>3. QED
      BY <2>2, <3>1, <3>2
  <2>7. QED
    BY <2>2, <2>6 DEF Continuity
<1>9. CASE VenueHandles
  <2>1. UNCHANGED <<queue, inHand, routes, heard, parser>>
    BY <1>9 DEF VenueHandles, networkUnchanged, parserVars
  <2>2. \A s \in Symbols : s # Head(requests).symbol => venue'[s] = venue[s]
    BY <1>9, <1>a, VenueEffect
  <2>3. LET s == Head(requests).symbol IN venue'[s].next = 0 \/ venue'[s] = venue[s]
    BY <1>9, <1>a, VenueEffect DEF NotStreaming
  <2>4. \A s \in Symbols : venue'[s].next = 0 \/ venue'[s] = venue[s]
    BY <2>2, <2>3
  <2>5. QED
    BY <1>c, <1>d, <2>1, <2>4
<1>10. ASSUME NEW s0 \in Symbols, ReadFrame(s0)
       PROVE  Continuity'
  <2>1. UNCHANGED <<queue, routes, heard, parser>> /\ inHand = <<>>
    BY <1>10, <1>a DEF ReadFrame, LifeInv, networkUnchanged, parserVars
  <2>2. PICK content : inHand' = <<[symbol |-> s0, stream |-> venue[s0].stream,
                                    seq |-> venue[s0].next, content |-> content]>>
    BY <1>10 DEF ReadFrame
  <2>3. PICK m : m = [symbol |-> s0, stream |-> venue[s0].stream,
                      seq |-> venue[s0].next, content |-> content]
    OBVIOUS
  <2>4. /\ Len(frames') = Len(frames) + 1
        /\ \A i \in 1..Len(frames) : frames'[i] = frames[i]
        /\ frames'[Len(frames) + 1] = m
    <3>1. queue \in Seq(Message)
      BY <1>a DEF FeedTypeOK
    <3>2. frames = queue /\ frames' = queue \o <<m>>
      BY <2>1, <2>2, <2>3, <3>1 DEF frames
    <3>3. QED
      BY <3>1, <3>2
  <2>5. ASSUME NEW s, NEW stream, NEW seq, RouteExpects(s, stream, seq)
        PROVE  RouteExpects(s, stream, seq)'
    BY <2>1, <2>5 DEF RouteExpects
  <2>6. parser = "running"
    BY <2>1
  <2>7. ASSUME NEW i \in 1..Len(frames')
        PROVE  Continues(i - 1, frames[i].symbol, frames[i].stream, frames[i].seq)'
    <3>1. PICK f : f = frames'[i]
      OBVIOUS
    <3>2. Continues(i - 1, f.symbol, f.stream, f.seq)
      <4>1. CASE i \in 1..Len(frames)
        BY <1>a, <2>4, <2>6, <3>1, <4>1 DEF Continuity
      <4>2. CASE i = Len(frames) + 1
        <5>1. f = m /\ i - 1 = Len(frames)
          BY <1>f, <2>4, <3>1, <4>2
        <5>2. Continues(Len(frames), s0, venue[s0].stream, venue[s0].next)
          BY <1>a, <2>6 DEF Continuity
        <5>3. QED
          BY <2>3, <5>1, <5>2
      <4>3. QED
        BY <1>f, <2>4, <4>1, <4>2
    <3>3. i - 1 \in 0..Len(frames)
      BY <1>f, <2>4
    <3>4. Continues(i - 1, f.symbol, f.stream, f.seq)'
      BY <1>f, <2>4, <2>5, <3>2, <3>3, ContinuesExtended
    <3>5. QED
      BY <3>1, <3>4
  <2>8. ASSUME NEW s \in Symbols
        PROVE  Continues(Len(frames), s, venue[s].stream, venue[s].next)'
    <3>1. PICK n : n = Len(frames)
      OBVIOUS
    <3>2. n \in Nat /\ Len(frames') = n + 1
      BY <1>f, <2>4, <3>1
    <3>3. venue' = [venue EXCEPT ![s0] = [venue[s0] EXCEPT !.next = @ + 1]]
      BY <1>10 DEF ReadFrame
    <3>4. venue \in [Symbols -> [stream : Nat, depth : Depths \cup {0}, next : Nat]]
      BY <1>a DEF FeedTypeOK
    <3>5. PICK stream, seq : stream = venue'[s].stream /\ seq = venue'[s].next
      OBVIOUS
    <3>6. Continues(n + 1, s, stream, seq)'
      <4>1. CASE s = s0
        <5>1. venue'[s0] = [venue[s0] EXCEPT !.next = @ + 1]
          BY <3>3, <3>4
        <5>2. stream = venue[s0].stream /\ seq = venue[s0].next + 1
          BY <3>4, <3>5, <4>1, <5>1
        <5>3. frames'[n + 1] = m /\ m.symbol = s /\ m.stream = stream /\ m.seq + 1 = seq
          BY <2>3, <2>4, <3>1, <4>1, <5>2
        <5>4. n + 1 \in 1..(n + 1) /\ \A j \in (n + 1 + 1)..(n + 1) : FALSE
          BY <3>2
        <5>5. QED
          BY <5>3, <5>4 DEF Continues
      <4>2. CASE s # s0
        <5>1. venue'[s] = venue[s]
          BY <3>3, <3>4, <4>2
        <5>2. Continues(n, s, stream, seq)
          BY <1>a, <2>6, <3>1, <3>5, <5>1 DEF Continuity
        <5>3. frames'[n + 1].symbol # s
          BY <2>3, <2>4, <3>1, <4>2
        <5>4. n \in 0..Len(frames)
          BY <3>1, <3>2
        <5>5. QED
          BY <1>f, <2>4, <2>5, <3>1, <5>2, <5>3, <5>4, ContinuesExtended
      <4>3. QED
        BY <4>1, <4>2
    <3>7. QED
      BY <3>2, <3>5, <3>6
  <2>9. QED
    BY <2>7, <2>8 DEF Continuity
<1>11. CASE PushFrame
  <2>1. UNCHANGED <<routes, heard, parser, venue>> /\ inHand' = <<>>
    BY <1>11 DEF PushFrame, networkUnchanged, parserVars
  <2>2. ~failed
    BY <1>11, <1>a, <2>1 DEF PushFrame, LifeInv
  <2>3. queue' = queue \o inHand
    BY <1>11, <2>2 DEF PushFrame
  <2>4. frames' = frames
    BY <1>f, <2>1, <2>3 DEF frames
  <2>5. QED
    BY <1>c, <2>1, <2>4
<1>12. CASE StopNetwork \/ NetworkFails
  BY <1>12, <1>c, <1>d DEF StopNetwork, NetworkFails, networkUnchanged, parserVars
<1>13. CASE Parse
  <2>0. PICK m : m = Head(queue)
    OBVIOUS
  <2> DEFINE r == routes[m.symbol].receiver
  <2>1. /\ parser = "running" /\ queue # <<>> /\ queue' = Tail(queue)
        /\ UNCHANGED <<inHand, venue>>
        /\ Ignore(m) \/ Deliver(m) \/ Mismatch(m)
    BY <1>13, <2>0 DEF Parse
  <2>2. /\ frames[1] = m /\ m \in Message
        /\ Len(frames) = Len(frames') + 1
        /\ \A i \in 1..Len(frames') : frames'[i] = frames[i + 1]
    <3>1. queue \in Seq(Message) /\ inHand \in Seq(Message)
      BY <1>a DEF FeedTypeOK
    <3>2. frames' = Tail(queue) \o inHand /\ frames = queue \o inHand
      BY <2>1 DEF frames
    <3>3. QED
      BY <2>0, <2>1, <3>1, <3>2
  <2>3. ASSUME NEW s, NEW stream, NEW seq, m.symbol = s, m.stream = stream, m.seq + 1 = seq
        PROVE  RouteExpects(s, stream, seq)'
    <3>1. CASE Ignore(m)
      BY <2>3, <3>1 DEF Ignore, HasRoute, RouteExpects
    <3>2. CASE Deliver(m)
      <4>1. /\ heard'[r] = [phase |-> "live", stream |-> m.stream, seq |-> m.seq]
            /\ routes'[m.symbol].receiver = r
        BY <1>a, <3>2, DeliverEffect
      <4>2. QED
        BY <2>3, <4>1 DEF RouteExpects
    <3>3. CASE Mismatch(m)
      <4>1. routes'[m.symbol].awaiting
        BY <1>a, <3>3, MismatchEffect
      <4>2. QED
        BY <2>3, <4>1 DEF RouteExpects
    <3>4. QED
      BY <2>1, <3>1, <3>2, <3>3
  <2>4. ASSUME NEW s, NEW stream, NEW seq, m.symbol # s, RouteExpects(s, stream, seq)
        PROVE  RouteExpects(s, stream, seq)'
    <3>1. CASE Ignore(m)
      BY <2>4, <3>1 DEF Ignore, RouteExpects
    <3>2. CASE s \notin DOMAIN routes'
      BY <3>2 DEF RouteExpects
    <3>3. CASE s \in DOMAIN routes' /\ (Deliver(m) \/ Mismatch(m))
      <4>1. /\ m.symbol \in DOMAIN routes /\ DOMAIN routes' = DOMAIN routes
            /\ \A t \in DOMAIN routes : t # m.symbol => routes'[t] = routes[t]
            /\ \A q \in Receivers : q # r => heard'[q] = heard[q]
        BY <1>a, <3>3, DeliverEffect, MismatchEffect
      <4>2. routes'[s] = routes[s] /\ heard'[routes[s].receiver] = heard[routes[s].receiver]
        BY <1>b, <2>4, <3>3, <4>1
      <4>3. QED
        BY <2>4, <3>3, <4>1, <4>2 DEF RouteExpects
    <3>4. QED
      BY <2>1, <3>1, <3>2, <3>3
  <2>5. ASSUME NEW n \in 1..Len(frames), NEW s, NEW stream, NEW seq, Continues(n, s, stream, seq)
        PROVE  Continues(n - 1, s, stream, seq)'
    BY <1>f, <2>2, <2>3, <2>4, <2>5, ContinuesShifted
  <2>6. ASSUME NEW i \in 1..Len(frames')
        PROVE  Continues(i - 1, frames[i].symbol, frames[i].stream, frames[i].seq)'
    <3>1. PICK f : f = frames'[i]
      OBVIOUS
    <3>2. i \in 1..Len(frames) /\ i + 1 \in 1..Len(frames) /\ f = frames[i + 1] /\ i + 1 - 1 = i
      BY <1>f, <2>2, <3>1
    <3>3. Continues(i, f.symbol, f.stream, f.seq)
      BY <1>a, <2>1, <3>2 DEF Continuity
    <3>4. Continues(i - 1, f.symbol, f.stream, f.seq)'
      BY <2>5, <3>2, <3>3
    <3>5. QED
      BY <3>1, <3>4
  <2>7. ASSUME NEW s \in Symbols
        PROVE  Continues(Len(frames), s, venue[s].stream, venue[s].next)'
    <3>1. PICK n, v : n = Len(frames) /\ v = venue[s]
      OBVIOUS
    <3>2. n \in 1..Len(frames) /\ Len(frames') = n - 1 /\ venue'[s] = v
      BY <1>f, <2>1, <2>2, <3>1
    <3>3. Continues(n, s, v.stream, v.next)
      BY <1>a, <2>1, <3>1 DEF Continuity
    <3>4. Continues(n - 1, s, v.stream, v.next)'
      BY <2>5, <3>2, <3>3
    <3>5. QED
      BY <3>2, <3>4
  <2>8. QED
    BY <2>6, <2>7 DEF Continuity
<1>14. CASE TakePending \/ Resubscribe \/ EndResubscriber
  BY <1>14, <1>c, <1>d DEF TakePending, Resubscribe, EndResubscriber, resubscriberUnchanged, parserVars
<1>15. CASE UNCHANGED vars
  BY <1>15, <1>c, <1>d DEF vars, feedVars, parserVars
<1>16. QED
  BY <1>1, <1>2, <1>3, <1>4, <1>5, <1>6, <1>7, <1>8, <1>9, <1>10, <1>11, <1>12, <1>13, <1>14, <1>15
     DEF Next, Holder, Network

-----------------------------------------------------------------------------
(* Requests sent later change nothing for those before them.               *)
LEMMA StreamedExtended ==
  ASSUME requests \in Seq(Request), requests' \in Seq(Request), Len(requests') >= Len(requests),
         \A i \in 1..Len(requests) : requests'[i] = requests[i],
         NEW n \in 0..Len(requests), NEW s, NEW depths, StreamedAfter(n, s, depths),
         VenueDepths(s)' = VenueDepths(s)
  PROVE  StreamedAfter(n, s, depths)'
<1>1. n \in Nat /\ \A i \in 1..n : requests'[i] = requests[i]
  OBVIOUS
<1>2. CASE (\A i \in 1..n : requests[i].symbol # s) /\ depths = VenueDepths(s)
  BY <1>1, <1>2 DEF StreamedAfter
<1>3. CASE \E i \in 1..n : /\ requests[i].symbol = s
                           /\ \A j \in (i + 1)..n : requests[j].symbol # s
                           /\ depths = AskedFor(requests[i])
  <2>1. PICK i \in 1..n : /\ requests[i].symbol = s
                          /\ \A j \in (i + 1)..n : requests[j].symbol # s
                          /\ depths = AskedFor(requests[i])
    BY <1>3
  <2>2. requests'[i].symbol = s /\ depths = AskedFor(requests'[i])
    BY <1>1, <2>1
  <2>3. \A j \in (i + 1)..n : requests'[j].symbol # s
    BY <1>1, <2>1
  <2>4. QED
    BY <2>2, <2>3 DEF StreamedAfter, AskedFor
<1>4. QED
  BY <1>2, <1>3 DEF StreamedAfter

(* Nor does a request for another pair.                                    *)
LEMMA StreamedPast ==
  ASSUME NEW n \in Nat, NEW s, NEW depths, StreamedAfter(n, s, depths),
         requests[n + 1].symbol # s
  PROVE  StreamedAfter(n + 1, s, depths)
<1>1. \A i \in 1..(n + 1) : i \in 1..n \/ i = n + 1
  OBVIOUS
<1>2. CASE (\A i \in 1..n : requests[i].symbol # s) /\ depths = VenueDepths(s)
  BY <1>1, <1>2 DEF StreamedAfter
<1>3. CASE \E i \in 1..n : /\ requests[i].symbol = s
                           /\ \A j \in (i + 1)..n : requests[j].symbol # s
                           /\ depths = AskedFor(requests[i])
  <2>1. PICK i \in 1..n : /\ requests[i].symbol = s
                          /\ \A j \in (i + 1)..n : requests[j].symbol # s
                          /\ depths = AskedFor(requests[i])
    BY <1>3
  <2>2. \A j \in (i + 1)..(n + 1) : j \in (i + 1)..n \/ j = n + 1
    OBVIOUS
  <2>3. QED
    BY <2>1, <2>2 DEF StreamedAfter
<1>4. QED
  BY <1>2, <1>3 DEF StreamedAfter

(* The last request for a pair decides how it is streamed.                 *)
LEMMA StreamedLast ==
  ASSUME NEW n \in Nat \ {0}, NEW s, requests[n].symbol = s
  PROVE  StreamedAfter(n, s, AskedFor(requests[n]))
<1>1. n \in 1..n /\ \A j \in (n + 1)..n : FALSE
  OBVIOUS
<1>2. QED
  BY <1>1 DEF StreamedAfter

(* Nor does the venue handling the first one, if it does what was asked.   *)
LEMMA StreamedShifted ==
  ASSUME requests \in Seq(Request), requests' \in Seq(Request), Len(requests) = Len(requests') + 1,
         \A i \in 1..Len(requests') : requests'[i] = requests[i + 1],
         NEW n \in 1..Len(requests), NEW s, NEW depths, StreamedAfter(n, s, depths),
         VenueDepths(s)' = IF requests[1].symbol = s THEN AskedFor(requests[1]) ELSE VenueDepths(s)
  PROVE  StreamedAfter(n - 1, s, depths)'
<1>0. n \in Nat /\ Len(requests') \in Nat /\ \A i \in 1..(n - 1) : requests'[i] = requests[i + 1]
  OBVIOUS
<1>1. CASE (\A i \in 1..n : requests[i].symbol # s) /\ depths = VenueDepths(s)
  <2>1. requests[1].symbol # s
    BY <1>0, <1>1
  <2>2. \A i \in 1..(n - 1) : i + 1 \in 1..n
    BY <1>0
  <2>3. \A i \in 1..(n - 1) : requests'[i].symbol # s
    BY <1>0, <1>1, <2>2
  <2>4. QED
    BY <1>1, <2>1, <2>3 DEF StreamedAfter
<1>2. CASE \E i \in 1..n : /\ requests[i].symbol = s
                           /\ \A j \in (i + 1)..n : requests[j].symbol # s
                           /\ depths = AskedFor(requests[i])
  <2>1. PICK i \in 1..n : /\ requests[i].symbol = s
                          /\ \A j \in (i + 1)..n : requests[j].symbol # s
                          /\ depths = AskedFor(requests[i])
    BY <1>2
  <2>2. CASE i = 1
    <3>1. \A j \in 1..(n - 1) : j + 1 \in (i + 1)..n
      BY <1>0, <2>2
    <3>2. \A j \in 1..(n - 1) : requests'[j].symbol # s
      BY <1>0, <2>1, <3>1
    <3>3. depths = VenueDepths(s)'
      BY <2>1, <2>2
    <3>4. QED
      BY <3>2, <3>3 DEF StreamedAfter
  <2>3. CASE i # 1
    <3>1. PICK k : k = i - 1
      OBVIOUS
    <3>2. k \in 1..(n - 1) /\ k + 1 = i
      BY <1>0, <2>3, <3>1
    <3>3. requests'[k] = requests[i]
      BY <1>0, <3>2
    <3>4. \A j \in (k + 1)..(n - 1) : j \in 1..(n - 1) /\ j + 1 \in (i + 1)..n
      BY <1>0, <3>2
    <3>5. \A j \in (k + 1)..(n - 1) : requests'[j].symbol # s
      BY <1>0, <2>1, <3>4
    <3>6. depths = AskedFor(requests'[k])
      BY <2>1, <3>3
    <3>7. QED
      BY <2>1, <3>2, <3>3, <3>5, <3>6 DEF StreamedAfter, AskedFor
  <2>4. QED
    BY <2>2, <2>3
<1>3. QED
  BY <1>1, <1>2 DEF StreamedAfter

(* A new connection's requests are for distinct pairs: one for each of as  *)
(* many subscriptions.                                                     *)
LEMMA SubscribeAllDistinct ==
  ASSUME RouteTypeOK, RoutedOncePerPair, NEW texts \in SubscribeAlls
  PROVE  /\ texts \in Seq(Request)
         /\ \A i \in 1..Len(texts) : texts[i].kind = "subscribe"
         /\ \A i, j \in 1..Len(texts) : texts[i].symbol = texts[j].symbol => i = j
         /\ \A id \in DOMAIN subscriptions : \E i \in 1..Len(texts) :
              texts[i].symbol = subscriptions[id].symbol
                /\ AskedFor(texts[i]) = {subscriptions[id].depth}
         /\ \A i \in 1..Len(texts) : \E id \in DOMAIN subscriptions :
              texts[i].symbol = subscriptions[id].symbol
<1> DEFINE Subscribed == DOMAIN subscriptions
           Text(id) == MakeBookRequest("subscribe", subscriptions[id])
           Texts == {Text(id) : id \in Subscribed}
           n == Cardinality(Subscribed)
<1>1. n \in Nat /\ IsFiniteSet(Subscribed)
  BY FS_CardinalityType DEF RouteTypeOK
<1>2. \A id \in Subscribed : subscriptions[id] \in Book
  BY DEF RouteTypeOK
<1>3. \A id \in Subscribed : /\ Text(id) \in Request /\ Text(id).kind = "subscribe"
                             /\ Text(id).symbol = subscriptions[id].symbol
                             /\ Text(id).depth = subscriptions[id].depth
  BY <1>2, BookRequestType DEF MakeBookRequest
<1>4. \A a, b \in Subscribed : Text(a).symbol = Text(b).symbol => a = b
  BY <1>3 DEF RoutedOncePerPair
<1>5. IsFiniteSet(Texts) /\ Cardinality(Texts) = n
  <2> DEFINE f == [id \in Subscribed |-> Text(id)]
  <2>1. f \in [Subscribed -> Texts]
    OBVIOUS
  <2>2. f \in Surjection(Subscribed, Texts)
    BY <2>1 DEF Surjection
  <2>3. f \in Injection(Subscribed, Texts)
    BY <1>4, <2>1 DEF Injection, IsInjective
  <2>4. ExistsBijection(Subscribed, Texts)
    BY <2>2, <2>3 DEF ExistsBijection, Bijection
  <2>5. QED
    BY <1>1, <2>4, FS_Bijection
<1>6. /\ texts \in [1..n -> Texts] /\ Len(texts) = n
      /\ \A id \in Subscribed : \E i \in 1..n : texts[i] = Text(id)
  BY DEF SubscribeAlls, IsSubscribeAll
<1>7. texts \in Surjection(1..n, Texts)
  BY <1>6 DEF Surjection
<1>8. IsFiniteSet(1..n) /\ Cardinality(1..n) = n
  BY <1>1, FS_Interval
<1>9. texts \in Injection(1..n, Texts)
  BY <1>5, <1>7, <1>8, FS_SurjSameCardinalityImpliesInj
<1>10. \A i, j \in 1..n : texts[i] = texts[j] => i = j
  BY <1>6, <1>9 DEF Injection, IsInjective
<1>11. \A i \in 1..n : \E id \in Subscribed : texts[i] = Text(id)
  BY <1>6
<1>12. texts \in Seq(Request)
  <2>1. texts \in [1..n -> Request]
    BY <1>3, <1>6
  <2>2. QED
    BY ONLY <1>1, <2>1
<1> HIDE DEF Text, n, Texts
<1>13. \A i, j \in 1..n : texts[i].symbol = texts[j].symbol => i = j
  <2>1. SUFFICES ASSUME NEW i \in 1..n, NEW j \in 1..n, texts[i].symbol = texts[j].symbol
                 PROVE  i = j
    OBVIOUS
  <2>2. PICK a \in Subscribed, b \in Subscribed : texts[i] = Text(a) /\ texts[j] = Text(b)
    BY <1>11
  <2>3. a = b
    BY <1>4, <2>1, <2>2
  <2>4. QED
    BY <1>10, <2>2, <2>3
<1>14. \A i \in 1..n : texts[i].kind = "subscribe"
  BY <1>3, <1>11
<1>15. \A id \in Subscribed : \E i \in 1..n :
         texts[i].symbol = subscriptions[id].symbol /\ AskedFor(texts[i]) = {subscriptions[id].depth}
  BY <1>3, <1>6 DEF AskedFor
<1>16. \A i \in 1..n : \E id \in Subscribed : texts[i].symbol = subscriptions[id].symbol
  BY <1>3, <1>11
<1>17. QED
  BY <1>6, <1>12, <1>13, <1>14, <1>15, <1>16

(* The venue and the requests after a step that leaves both as they are    *)
(* for every pair, but for where the venue is in its streams.              *)
LEMMA FollowsKept ==
  ASSUME VenueFollowsSubscriptions, FeedTypeOK, FeedTypeOK', UNCHANGED <<requests, connected>>,
         lifeCycle' = "free" => lifeCycle = "free",
         DOMAIN routes' = DOMAIN routes,
         \A s \in DOMAIN routes : routes'[s].depth = routes[s].depth,
         \A s \in Symbols : VenueDepths(s)' = VenueDepths(s)
  PROVE  VenueFollowsSubscriptions'
<1> SUFFICES ASSUME connected, lifeCycle = "free"
             PROVE  VenueFollowsSubscriptions'
  BY DEF VenueFollowsSubscriptions
<1>1. requests \in Seq(Request) /\ Len(requests) \in Nat
  BY DEF FeedTypeOK
<1>2. ASSUME NEW n \in 0..Len(requests), NEW s \in Symbols, NEW depths, StreamedAfter(n, s, depths)
      PROVE  StreamedAfter(n, s, depths)'
  BY <1>1, <1>2, StreamedExtended
<1>3. ASSUME NEW i \in 1..Len(requests')
      PROVE  StreamedAfter(i - 1, requests[i].symbol,
                IF requests[i].kind = "subscribe" THEN {} ELSE {requests[i].depth})'
  <2>1. PICK r : r = requests[i]
    OBVIOUS
  <2>2. r.symbol \in Symbols /\ i - 1 \in 0..Len(requests)
    <3>1. i \in 1..Len(requests)
      OBVIOUS
    <3>2. r \in Request
      BY ONLY <1>1, <2>1, <3>1
    <3>3. QED
      BY ONLY <1>1, <3>1, <3>2 DEF Request
  <2>3. StreamedAfter(i - 1, r.symbol, IF r.kind = "subscribe" THEN {} ELSE {r.depth})
    BY <2>1 DEF VenueFollowsSubscriptions
  <2>4. StreamedAfter(i - 1, r.symbol, IF r.kind = "subscribe" THEN {} ELSE {r.depth})'
    BY <1>2, <2>2, <2>3
  <2>5. QED
    BY <2>1, <2>4
<1>4. ASSUME NEW s \in Symbols
      PROVE  StreamedAfter(Len(requests), s, IF s \in DOMAIN routes THEN {routes[s].depth} ELSE {})'
  <2>1. PICK n, depths : n = Len(requests)
                         /\ depths = IF s \in DOMAIN routes THEN {routes[s].depth} ELSE {}
    OBVIOUS
  <2>2. StreamedAfter(n, s, depths)
    BY <2>1 DEF VenueFollowsSubscriptions
  <2>3. n \in 0..Len(requests)
    BY <1>1, <2>1
  <2>4. StreamedAfter(n, s, depths)'
    BY <1>2, <2>2, <2>3
  <2>5. n = Len(requests') /\ depths = IF s \in DOMAIN routes' THEN {routes'[s].depth} ELSE {}
    BY <2>1
  <2>6. QED
    BY <2>4, <2>5
<1>5. QED
  BY <1>3, <1>4 DEF VenueFollowsSubscriptions

(* Sending one or two more requests. *)
LEMMA FollowsSent ==
  ASSUME VenueFollowsSubscriptions, FeedTypeOK, FeedTypeOK', UNCHANGED venue,
         connected, lifeCycle = "free",
         NEW texts \in Seq(Request), requests' = requests \o texts, Len(texts) > 0,
         NEW symbol \in Symbols, \A i \in 1..Len(texts) : texts[i].symbol = symbol,
         DOMAIN routes' \subseteq DOMAIN routes \cup {symbol},
         DOMAIN routes \subseteq DOMAIN routes' \cup {symbol},
         \A s \in DOMAIN routes : s # symbol => routes'[s] = routes[s],
         (IF texts[1].kind = "subscribe" THEN {} ELSE {texts[1].depth}) =
           (IF symbol \in DOMAIN routes THEN {routes[symbol].depth} ELSE {}),
         Len(texts) = 1 \/ (Len(texts) = 2 /\ AskedFor(texts[1]) =
                             (IF texts[2].kind = "subscribe" THEN {} ELSE {texts[2].depth})),
         AskedFor(texts[Len(texts)]) =
           (IF symbol \in DOMAIN routes' THEN {routes'[symbol].depth} ELSE {})
  PROVE  VenueFollowsSubscriptions'
<1>0. PICK L, T : L = Len(requests) /\ T = Len(texts)
  OBVIOUS
<1>1. /\ requests \in Seq(Request) /\ requests' \in Seq(Request)
      /\ L \in Nat /\ T \in {1, 2} /\ Len(requests') = L + T
      /\ \A i \in 1..L : requests'[i] = requests[i]
      /\ requests'[L + 1] = texts[1]
      /\ T = 2 => requests'[L + 2] = texts[2]
  BY <1>0 DEF FeedTypeOK
<1>2. ASSUME NEW n \in 0..L, NEW s \in Symbols, NEW depths, StreamedAfter(n, s, depths)
      PROVE  StreamedAfter(n, s, depths)'
  <2>1. VenueDepths(s)' = VenueDepths(s)
    BY DEF VenueDepths
  <2>2. QED
    BY <1>0, <1>1, <1>2, <2>1, StreamedExtended
<1>3. ASSUME NEW i \in 1..Len(requests')
      PROVE  StreamedAfter(i - 1, requests[i].symbol,
                IF requests[i].kind = "subscribe" THEN {} ELSE {requests[i].depth})'
  <2>1. PICK r : r = requests'[i]
    OBVIOUS
  <2>2. r.symbol \in Symbols
    <3>1. r \in Request
      BY ONLY <1>1, <1>3, <2>1
    <3>2. QED
      BY ONLY <3>1 DEF Request
  <2>3. StreamedAfter(i - 1, r.symbol, IF r.kind = "subscribe" THEN {} ELSE {r.depth})'
    <3>1. CASE i \in 1..L
      <4>1. StreamedAfter(i - 1, r.symbol, IF r.kind = "subscribe" THEN {} ELSE {r.depth})
        BY <1>0, <1>1, <2>1, <3>1 DEF VenueFollowsSubscriptions
      <4>2. i - 1 \in 0..L
        BY <1>1, <3>1
      <4>3. QED
        BY <1>2, <2>2, <4>1, <4>2
    <3>2. CASE i = L + 1
      <4>1. r = texts[1] /\ r.symbol = symbol /\ i - 1 = L /\ L \in 0..L
        BY <1>0, <1>1, <2>1, <3>2
      <4>2. StreamedAfter(L, symbol, IF symbol \in DOMAIN routes THEN {routes[symbol].depth} ELSE {})
        BY <1>0 DEF VenueFollowsSubscriptions
      <4>3. StreamedAfter(L, symbol, IF r.kind = "subscribe" THEN {} ELSE {r.depth})
        BY <4>1, <4>2
      <4>4. QED
        BY <1>2, <4>1, <4>3
    <3>3. CASE i = L + 2
      <4>1. T = 2 /\ r = texts[2] /\ r.symbol = symbol /\ i - 1 = L + 1 /\ L + 1 \in Nat \ {0}
        BY <1>0, <1>1, <2>1, <3>3
      <4>2. requests'[L + 1].symbol = symbol
        BY <1>0, <1>1
      <4>3. StreamedAfter(L + 1, symbol, AskedFor(requests[L + 1]))'
        <5>1. PICK k : k = L + 1
          OBVIOUS
        <5>2. StreamedAfter(k, symbol, AskedFor(requests[k]))'
          <6>1. k \in 1..k /\ requests'[k].symbol = symbol /\ \A j \in (k + 1)..k : FALSE
            BY <4>1, <4>2, <5>1
          <6>2. QED
            BY ONLY <6>1 DEF StreamedAfter, AskedFor
        <5>3. QED
          BY <5>1, <5>2
      <4>4. AskedFor(requests'[L + 1]) = IF r.kind = "subscribe" THEN {} ELSE {r.depth}
        BY <1>0, <1>1, <4>1
      <4>5. QED
        BY <4>1, <4>3, <4>4 DEF AskedFor
    <3>4. QED
      BY <1>1, <3>1, <3>2, <3>3
  <2>4. QED
    BY <2>1, <2>3
<1>4. ASSUME NEW s \in Symbols
      PROVE  StreamedAfter(Len(requests), s, IF s \in DOMAIN routes THEN {routes[s].depth} ELSE {})'
  <2>1. PICK n, depths : n = Len(requests')
                         /\ depths = IF s \in DOMAIN routes' THEN {routes'[s].depth} ELSE {}
    OBVIOUS
  <2>2. StreamedAfter(n, s, depths)'
    <3>1. CASE s = symbol
      <4>1. requests'[n] = texts[T] /\ n \in 1..n /\ \A j \in (n + 1)..n : FALSE
        BY <1>0, <1>1, <2>1
      <4>2. requests'[n].symbol = s /\ depths = AskedFor(requests'[n])
        BY <1>0, <1>1, <2>1, <3>1, <4>1
      <4>3. QED
        BY <4>1, <4>2 DEF StreamedAfter, AskedFor
    <3>2. CASE s # symbol
      <4>1. StreamedAfter(L, s, depths)
        BY <1>0, <2>1, <3>2 DEF VenueFollowsSubscriptions
      <4>2. StreamedAfter(L, s, depths)'
        BY <1>1, <1>2, <4>1
      <4>3. requests'[L + 1].symbol # s /\ (T = 2 => requests'[L + 2].symbol # s)
        BY <1>0, <1>1, <3>2
      <4>4. \A i \in 1..n : i \in 1..L \/ requests'[i].symbol # s
        BY <1>0, <1>1, <2>1, <4>3
      <4>5. L <= n /\ n \in Nat
        BY <1>1, <2>1
      <4>6. CASE (\A i \in 1..L : requests'[i].symbol # s) /\ depths = VenueDepths(s)'
        BY <4>4, <4>6 DEF StreamedAfter
      <4>7. CASE \E i \in 1..L : /\ requests'[i].symbol = s
                                 /\ \A j \in (i + 1)..L : requests'[j].symbol # s
                                 /\ depths = AskedFor(requests'[i])
        <5>1. PICK i \in 1..L : /\ requests'[i].symbol = s
                                /\ \A j \in (i + 1)..L : requests'[j].symbol # s
                                /\ depths = AskedFor(requests'[i])
          BY <4>7
        <5>2. \A j \in (i + 1)..n : requests'[j].symbol # s
          <6>1. SUFFICES ASSUME NEW j \in (i + 1)..n PROVE requests'[j].symbol # s
            OBVIOUS
          <6>2. j \in 1..n /\ (j \in 1..L => j \in (i + 1)..L)
            BY ONLY <1>1, <4>5, <6>1
          <6>3. QED
            BY <4>4, <5>1, <6>2
        <5>3. i \in 1..n
          BY <1>1, <4>5
        <5>4. QED
          BY <5>1, <5>2, <5>3 DEF StreamedAfter, AskedFor
      <4>8. QED
        BY <4>2, <4>6, <4>7 DEF StreamedAfter, AskedFor
    <3>3. QED
      BY <3>1, <3>2
  <2>3. QED
    BY <2>1, <2>2
<1>5. QED
  BY <1>3, <1>4 DEF VenueFollowsSubscriptions

(* The venue refuses no request: it opens a stream for a subscribe, and    *)
(* ends the one it has for an unsubscribe.                                 *)
LEMMA FollowsHandled ==
  ASSUME FeedTypeOK, FeedTypeOK', VenueFollowsSubscriptions, VenueHandles,
         connected, lifeCycle = "free"
  PROVE  VenueFollowsSubscriptions'
<1>0. PICK r, L : r = Head(requests) /\ L = Len(requests)
  OBVIOUS
<1>1. /\ requests \in Seq(Request) /\ requests' \in Seq(Request)
      /\ requests # <<>> /\ requests' = Tail(requests) /\ UNCHANGED <<routes, connected, lifeCycle>>
  BY DEF FeedTypeOK, VenueHandles, networkUnchanged, parserVars, lifeCycleVars
<1>2. /\ L \in Nat \ {0} /\ Len(requests') = L - 1 /\ L = Len(requests') + 1
      /\ \A i \in 1..Len(requests') : requests'[i] = requests[i + 1]
      /\ r = requests[1] /\ r \in Request
  BY <1>0, <1>1
<1>3. r.symbol \in Symbols /\ r.kind \in {"subscribe", "unsubscribe"}
  BY <1>2 DEF Request
<1>4. VenueDepths(r.symbol) = IF r.kind = "subscribe" THEN {} ELSE {r.depth}
  <2>0. 1 \in 1..Len(requests)
    BY <1>0, <1>2
  <2>1. StreamedAfter(1 - 1, r.symbol, IF r.kind = "subscribe" THEN {} ELSE {r.depth})
    BY <1>2, <2>0 DEF VenueFollowsSubscriptions
  <2>2. \A i \in 1..(1 - 1) : FALSE
    OBVIOUS
  <2>3. QED
    BY <2>1, <2>2 DEF StreamedAfter
<1>5. /\ \A s \in Symbols : s # r.symbol => venue'[s] = venue[s]
      /\ r.kind = "subscribe" /\ venue[r.symbol].stream = 0 =>
           venue'[r.symbol] = [stream |-> opened[r.symbol] + 1, depth |-> r.depth, next |-> 0]
      /\ r.kind = "unsubscribe" /\ venue[r.symbol].depth = r.depth =>
           venue'[r.symbol] = NotStreaming
  BY <1>0, VenueEffect
<1>6. VenueDepths(r.symbol)' = AskedFor(r)
  <2>1. CASE r.kind = "subscribe"
    <3>1. venue[r.symbol].stream = 0
      BY <1>4, <2>1 DEF VenueDepths
    <3>2. opened[r.symbol] \in Nat
      BY <1>3 DEF FeedTypeOK
    <3>3. venue'[r.symbol].stream # 0 /\ venue'[r.symbol].depth = r.depth
      BY <1>5, <2>1, <3>1, <3>2
    <3>4. QED
      BY <2>1, <3>3 DEF VenueDepths, AskedFor
  <2>2. CASE r.kind = "unsubscribe"
    <3>1. venue[r.symbol].depth = r.depth
      BY <1>4, <2>2 DEF VenueDepths
    <3>2. QED
      BY <1>5, <2>2, <3>1 DEF VenueDepths, AskedFor, NotStreaming
  <2>3. QED
    BY <1>3, <2>1, <2>2
<1>7. ASSUME NEW n \in 1..L, NEW s \in Symbols, NEW depths, StreamedAfter(n, s, depths)
      PROVE  StreamedAfter(n - 1, s, depths)'
  <2>1. s # r.symbol => VenueDepths(s)' = VenueDepths(s)
    BY <1>5 DEF VenueDepths
  <2>2. VenueDepths(s)' = IF requests[1].symbol = s THEN AskedFor(requests[1]) ELSE VenueDepths(s)
    BY <1>2, <1>6, <2>1
  <2>3. QED
    BY <1>0, <1>1, <1>2, <1>7, <2>2, StreamedShifted
<1>8. ASSUME NEW i \in 1..Len(requests')
      PROVE  StreamedAfter(i - 1, requests[i].symbol,
                IF requests[i].kind = "subscribe" THEN {} ELSE {requests[i].depth})'
  <2>1. PICK q, k : q = requests'[i] /\ k = i + 1
    OBVIOUS
  <2>2. k \in 1..L /\ i \in 1..L /\ q = requests[k] /\ k - 1 = i
    BY <1>2, <2>1
  <2>3. q \in Request
    BY <1>1, <1>8, <2>1
  <2>4. q.symbol \in Symbols
    BY <2>3 DEF Request
  <2>5. StreamedAfter(k - 1, q.symbol, IF q.kind = "subscribe" THEN {} ELSE {q.depth})
    BY <1>0, <2>2 DEF VenueFollowsSubscriptions
  <2>6. StreamedAfter(i, q.symbol, IF q.kind = "subscribe" THEN {} ELSE {q.depth})
    BY <2>2, <2>5
  <2>7. StreamedAfter(i - 1, q.symbol, IF q.kind = "subscribe" THEN {} ELSE {q.depth})'
    BY <1>7, <2>2, <2>4, <2>6
  <2>8. QED
    BY <2>1, <2>7
<1>9. ASSUME NEW s \in Symbols
      PROVE  StreamedAfter(Len(requests), s, IF s \in DOMAIN routes THEN {routes[s].depth} ELSE {})'
  <2>1. PICK depths : depths = IF s \in DOMAIN routes THEN {routes[s].depth} ELSE {}
    OBVIOUS
  <2>2. StreamedAfter(L, s, depths) /\ L \in 1..L
    <3>1. StreamedAfter(Len(requests), s, IF s \in DOMAIN routes THEN {routes[s].depth} ELSE {})
      BY DEF VenueFollowsSubscriptions
    <3>2. L \in 1..L
      BY <1>2
    <3>3. QED
      BY <1>0, <2>1, <3>1, <3>2
  <2>3. StreamedAfter(L - 1, s, depths)'
    BY <1>7, <2>2
  <2>4. QED
    BY <1>1, <1>2, <2>1, <2>3
<1>10. QED
  BY <1>8, <1>9 DEF VenueFollowsSubscriptions

(* No call, no thread and no request under way leaves the venue streaming  *)
(* anything but the subscriptions once it has handled what was sent.       *)
LEMMA FollowsStep ==
  IInv /\ VenueFollowsSubscriptions /\ FeedTypeOK' /\ [Next]_vars => VenueFollowsSubscriptions'
<1> SUFFICES ASSUME IInv, VenueFollowsSubscriptions, FeedTypeOK', [Next]_vars
             PROVE  VenueFollowsSubscriptions'
  OBVIOUS
<1>a. FeedTypeOK /\ RouteTypeOK /\ LifeTypeOK /\ LifeInv /\ SubscribedInv /\ RoutedOncePerPair
  BY DEF IInv, TypeInv, SubscribedInv
<1>b. UNCHANGED <<requests, connected, routes, lifeCycle>>
        /\ (\A s \in Symbols : VenueDepths(s)' = VenueDepths(s)) => VenueFollowsSubscriptions'
  BY <1>a, FollowsKept
<1>c. UNCHANGED venue => \A s \in Symbols : VenueDepths(s)' = VenueDepths(s)
  BY DEF VenueDepths
<1>d. ~connected' \/ lifeCycle' # "free" => VenueFollowsSubscriptions'
  BY DEF VenueFollowsSubscriptions
<1>e. requests \in Seq(Request) /\ venue \in [Symbols -> [stream : Nat, depth : Depths \cup {0}, next : Nat]]
  BY <1>a DEF FeedTypeOK
<1>1. CASE \/ \E id \in Ids, book \in Book : Subscribe(id, book)
           \/ \E id \in Ids : SubscribeFails(id)
  BY <1>1, <1>b, <1>c DEF Subscribe, SubscribeFails, feedVars, parserVars, lifeCycleVars
<1>2. ASSUME NEW id \in Ids, SubscribeFetched(id)
      PROVE  VenueFollowsSubscriptions'
  <2>0. PICK book : book = calls[id].book
    OBVIOUS
  <2>1. CASE TakenMeanwhile(id, book) # {}
    BY <1>2, <1>b, <1>c, <2>0, <2>1 DEF SubscribeFetched, lifeCycleVars
  <2>2. CASE TakenMeanwhile(id, book) = {} /\ connected
    <3>1. /\ routes' = Put(routes, book.symbol, NewRoute(id, book.depth))
          /\ requests' = requests \o <<MakeBookRequest("subscribe", book)>>
          /\ venue' = venue /\ connected /\ lifeCycle = "free"
      BY <1>2, <2>0, <2>2 DEF SubscribeFetched, AttachRoute, Send
    <3>2. book \in Book
      BY <1>2, <1>a, <2>0 DEF SubscribeFetched, RouteTypeOK, Call, Ids
    <3>3. PICK request : request = MakeBookRequest("subscribe", book)
      OBVIOUS
    <3>4. /\ request \in Request /\ request.kind = "subscribe"
          /\ request.symbol = book.symbol /\ request.depth = book.depth /\ book.symbol \in Symbols
      BY <3>2, <3>3, BookRequestType DEF MakeBookRequest, Book
    <3>5. PICK texts : texts = <<request>>
      OBVIOUS
    <3>6. /\ texts \in Seq(Request) /\ Len(texts) = 1 /\ texts[1] = request
          /\ \A i \in 1..Len(texts) : texts[i].symbol = book.symbol
      BY <3>4, <3>5
    <3>7. SubscribersOf(book.symbol) = {}
      BY <2>2 DEF TakenMeanwhile, Answer
    <3>8. book.symbol \notin DOMAIN routes
      BY <1>a, <3>7 DEF SubscribersOf, RoutedOncePerPair
    <3>9. /\ DOMAIN routes' = DOMAIN routes \cup {book.symbol}
          /\ routes'[book.symbol] = NewRoute(id, book.depth)
          /\ \A s \in DOMAIN routes : s # book.symbol => routes'[s] = routes[s]
      BY <3>1 DEF Put
    <3>10. routes'[book.symbol].depth = book.depth
      BY <3>9 DEF NewRoute
    <3>11. AskedFor(texts[1]) = {book.depth}
      BY <3>4, <3>6 DEF AskedFor
    <3>12. requests' = requests \o texts
      BY <3>1, <3>3, <3>5
    <3>13. QED
      <4>1. (IF texts[1].kind = "subscribe" THEN {} ELSE {texts[1].depth})
              = (IF book.symbol \in DOMAIN routes THEN {routes[book.symbol].depth} ELSE {})
        BY <3>4, <3>6, <3>8
      <4>2. AskedFor(texts[Len(texts)])
              = (IF book.symbol \in DOMAIN routes' THEN {routes'[book.symbol].depth} ELSE {})
        BY <3>6, <3>9, <3>10, <3>11
      <4>3. /\ DOMAIN routes' \subseteq DOMAIN routes \cup {book.symbol}
            /\ DOMAIN routes \subseteq DOMAIN routes' \cup {book.symbol}
            /\ Len(texts) > 0
        BY <3>6, <3>9
      <4>4. QED
        BY <1>a, <3>1, <3>4, <3>6, <3>9, <3>12, <4>1, <4>2, <4>3, FollowsSent
  <2>3. CASE ~connected
    BY <1>2, <1>d, <2>3 DEF SubscribeFetched, lifeCycleVars
  <2>4. QED
    BY <2>1, <2>2, <2>3, <1>a DEF LifeTypeOK
<1>3. ASSUME NEW id \in Ids, Unsubscribe(id)
      PROVE  VenueFollowsSubscriptions'
  <2>1. CASE connected
    <3>0. PICK book : book = subscriptions[id]
      OBVIOUS
    <3>1. /\ routes' = Without(routes, book.symbol)
          /\ requests' = requests \o <<MakeBookRequest("unsubscribe", book)>>
          /\ venue' = venue /\ connected /\ lifeCycle = "free" /\ id \in DOMAIN subscriptions
      BY <1>3, <2>1, <3>0 DEF Unsubscribe, UnsubscribeRequests, DetachRoute, Send
    <3>2. book \in Book
      BY <1>a, <3>0, <3>1 DEF RouteTypeOK
    <3>3. PICK request : request = MakeBookRequest("unsubscribe", book)
      OBVIOUS
    <3>4. /\ request \in Request /\ request.kind = "unsubscribe"
          /\ request.symbol = book.symbol /\ request.depth = book.depth /\ book.symbol \in Symbols
      BY <3>2, <3>3, BookRequestType DEF MakeBookRequest, Book
    <3>5. PICK texts : texts = <<request>>
      OBVIOUS
    <3>6. /\ texts \in Seq(Request) /\ Len(texts) = 1 /\ texts[1] = request
          /\ \A i \in 1..Len(texts) : texts[i].symbol = book.symbol
      BY <3>4, <3>5
    <3>7. book.symbol \in DOMAIN routes /\ routes[book.symbol].depth = book.depth
      BY <1>a, <3>0, <3>1 DEF RoutedOncePerPair
    <3>8. /\ DOMAIN routes' = DOMAIN routes \ {book.symbol}
          /\ \A s \in DOMAIN routes : s # book.symbol => routes'[s] = routes[s]
      BY <3>1 DEF Without
    <3>9. AskedFor(texts[1]) = {}
      BY <3>4, <3>6 DEF AskedFor
    <3>10. requests' = requests \o texts
      BY <3>1, <3>3, <3>5
    <3>11. QED
      <4>1. (IF texts[1].kind = "subscribe" THEN {} ELSE {texts[1].depth})
              = (IF book.symbol \in DOMAIN routes THEN {routes[book.symbol].depth} ELSE {})
        BY <3>4, <3>6, <3>7
      <4>2. AskedFor(texts[Len(texts)])
              = (IF book.symbol \in DOMAIN routes' THEN {routes'[book.symbol].depth} ELSE {})
        BY <3>6, <3>8, <3>9
      <4>3. /\ DOMAIN routes' \subseteq DOMAIN routes \cup {book.symbol}
            /\ DOMAIN routes \subseteq DOMAIN routes' \cup {book.symbol}
            /\ Len(texts) > 0
        BY <3>6, <3>8
      <4>4. QED
        BY <1>a, <3>1, <3>4, <3>6, <3>8, <3>10, <4>1, <4>2, <4>3, FollowsSent
  <2>2. CASE ~connected
    BY <1>3, <1>d, <2>2 DEF Unsubscribe, lifeCycleVars
  <2>3. QED
    BY <2>1, <2>2
<1>4. CASE Connect \/ Disconnect \/ DestroyDisconnects
  BY <1>4, <1>d DEF Connect, Disconnect, DestroyDisconnects, BeginDisconnect
<1>5. CASE Destroy
  BY <1>5, <1>b, <1>c DEF Destroy, feedVars, parserVars
<1>6. CASE JoinFeed \/ JoinParser
  BY <1>6, <1>d DEF JoinFeed, JoinParser
<1>7. CASE ConnectFeedThrows
  BY <1>7, <1>a, <1>d DEF ConnectFeedThrows, LifeInv
<1>8. CASE ConnectFeed
  <2>1. PICK texts \in SubscribeAlls : requests' = texts
    BY <1>8 DEF ConnectFeed
  <2>2. /\ texts \in Seq(Request)
        /\ \A i \in 1..Len(texts) : texts[i].kind = "subscribe"
        /\ \A i, j \in 1..Len(texts) : texts[i].symbol = texts[j].symbol => i = j
        /\ \A x \in DOMAIN subscriptions : \E i \in 1..Len(texts) :
             texts[i].symbol = subscriptions[x].symbol
               /\ AskedFor(texts[i]) = {subscriptions[x].depth}
        /\ \A i \in 1..Len(texts) : \E x \in DOMAIN subscriptions :
             texts[i].symbol = subscriptions[x].symbol
    BY <1>a, SubscribeAllDistinct
  <2>3. Len(texts) \in Nat
    BY <2>2
  <2>4. \A s \in Symbols : VenueDepths(s)' = {}
    BY <1>8, <1>a DEF ConnectFeed, LifeInv, VenueDepths
  <2>5. /\ DOMAIN routes' = DOMAIN routes
        /\ \A s \in DOMAIN routes : routes'[s] = [routes[s] EXCEPT !.awaiting = TRUE]
    BY <1>8 DEF ConnectFeed, AwaitSnapshots
  <2>6. \A s \in DOMAIN routes : routes'[s].depth = routes[s].depth
    BY <1>a, <2>5 DEF RouteTypeOK, Route
  <2>7. ASSUME NEW i \in 1..Len(texts)
        PROVE  StreamedAfter(i - 1, requests[i].symbol,
                  IF requests[i].kind = "subscribe" THEN {} ELSE {requests[i].depth})'
    <3>1. texts[i] \in Request /\ i - 1 \in Nat
      BY <2>2, <2>3, <2>7
    <3>2. texts[i].symbol \in Symbols /\ texts[i].kind = "subscribe"
      BY <2>2, <3>1 DEF Request
    <3>3. VenueDepths(texts[i].symbol)' = {}
      BY <2>4, <3>2
    <3>4. \A j \in 1..(i - 1) : j \in 1..Len(texts) /\ j # i
      BY <2>3
    <3>5. \A j \in 1..(i - 1) : texts[j].symbol # texts[i].symbol
      BY <2>2, <3>4
    <3>6. QED
      BY <2>1, <3>2, <3>3, <3>5 DEF StreamedAfter
  <2>8. ASSUME NEW s \in Symbols
        PROVE  StreamedAfter(Len(requests), s, IF s \in DOMAIN routes THEN {routes[s].depth} ELSE {})'
    <3>1. CASE s \in DOMAIN routes
      <4>1. PICK x \in DOMAIN subscriptions : subscriptions[x].symbol = s
        BY <1>a, <3>1 DEF RoutedOncePerPair
      <4>2. routes[s].depth = subscriptions[x].depth
        BY <1>a, <4>1 DEF RoutedOncePerPair
      <4>3. PICK i \in 1..Len(texts) : texts[i].symbol = s /\ AskedFor(texts[i]) = {routes[s].depth}
        <5>1. \E i \in 1..Len(texts) : /\ texts[i].symbol = subscriptions[x].symbol
                                       /\ AskedFor(texts[i]) = {subscriptions[x].depth}
          BY ONLY <2>2, <4>1
        <5>2. QED
          BY ONLY <4>1, <4>2, <5>1
      <4>4. \A j \in (i + 1)..Len(texts) : j \in 1..Len(texts) /\ j # i
        BY <2>3, <4>3
      <4>5. \A j \in (i + 1)..Len(texts) : texts[j].symbol # s
        BY <2>2, <4>3, <4>4
      <4>6. AskedFor(requests[i])' = {routes[s].depth}
        BY <2>1, <4>3 DEF AskedFor
      <4>7. QED
        BY <2>1, <2>5, <2>6, <3>1, <4>3, <4>5, <4>6 DEF StreamedAfter
    <3>2. CASE s \notin DOMAIN routes
      <4>1. \A i \in 1..Len(texts) : texts[i].symbol # s
        BY <1>a, <2>2, <3>2 DEF RoutedOncePerPair
      <4>2. QED
        BY <2>1, <2>4, <2>5, <3>2, <4>1 DEF StreamedAfter
    <3>3. QED
      BY <3>1, <3>2
  <2>9. QED
    BY <2>1, <2>7, <2>8 DEF VenueFollowsSubscriptions
<1>9. CASE VenueHandles
  <2>1. UNCHANGED <<connected, lifeCycle>>
    BY <1>9 DEF VenueHandles, networkUnchanged, lifeCycleVars
  <2>2. QED
    BY <1>9, <1>a, <1>d, <2>1, FollowsHandled
<1>10. ASSUME NEW s \in Symbols, ReadFrame(s)
      PROVE  VenueFollowsSubscriptions'
  <2>1. venue' = [venue EXCEPT ![s] = [venue[s] EXCEPT !.next = @ + 1]]
    BY <1>10 DEF ReadFrame
  <2>2. venue[s] \in [stream : Nat, depth : Depths \cup {0}, next : Nat] /\ DOMAIN venue = Symbols
    BY <1>e
  <2>3. [venue[s] EXCEPT !.next = @ + 1].stream = venue[s].stream
        /\ [venue[s] EXCEPT !.next = @ + 1].depth = venue[s].depth
    BY <2>2
  <2>4. \A t \in Symbols : venue'[t].stream = venue[t].stream /\ venue'[t].depth = venue[t].depth
    BY <2>1, <2>2, <2>3
  <2>5. \A t \in Symbols : VenueDepths(t)' = VenueDepths(t)
    BY <2>4 DEF VenueDepths
  <2>6. QED
    BY <1>10, <1>b, <2>5 DEF ReadFrame, networkUnchanged, parserVars, lifeCycleVars
<1>11. CASE PushFrame \/ StopNetwork \/ NetworkFails
  BY <1>11, <1>b, <1>c DEF PushFrame, StopNetwork, NetworkFails, networkUnchanged, parserVars, lifeCycleVars
<1>12. CASE Parse
  <2> DEFINE m == Head(queue)
  <2>1. UNCHANGED <<requests, venue, connected, lifeCycle, subscriptions>>
    BY <1>12 DEF Parse, lifeCycleVars, subscriptionVars
  <2>2. CASE UNCHANGED <<routes, heard>>
    BY <2>1, <2>2, <1>b, <1>c
  <2>3. CASE Deliver(m) \/ Mismatch(m)
    <3>1. /\ DOMAIN routes' = DOMAIN routes
          /\ \A s \in DOMAIN routes : s # m.symbol => routes'[s] = routes[s]
      BY <1>a, <2>3, DeliverEffect, MismatchEffect
    <3>2. /\ routes \in [DOMAIN routes -> Route] /\ m.symbol \in DOMAIN routes
          /\ \/ routes' = [routes EXCEPT ![m.symbol] =
                              [routes[m.symbol] EXCEPT !.awaiting = FALSE, !.book = BookAfter(m)]]
             \/ routes' = [routes EXCEPT ![m.symbol] =
                              [routes[m.symbol] EXCEPT !.awaiting = TRUE, !.book = NoBook]]
      BY <1>a, <2>3 DEF Deliver, Mismatch, AfterMismatch, HasRoute, RouteTypeOK
    <3>3. routes'[m.symbol].depth = routes[m.symbol].depth
      BY <3>2 DEF Route
    <3>4. QED
      BY <1>a, <1>c, <2>1, <3>1, <3>3, FollowsKept
  <2>4. QED
    BY <1>12, <2>2, <2>3 DEF Parse, Ignore
<1>13. CASE TakePending \/ EndResubscriber
  BY <1>13, <1>b, <1>c DEF TakePending, EndResubscriber, resubscriberUnchanged, parserVars, lifeCycleVars
<1>14. CASE Resubscribe
  <2>1. CASE connected /\ SubscribersOf(resubscriber) # {}
    <3>1. PICK id \in SubscribersOf(resubscriber) :
            ResubscribeRequests(resubscriber) =
              <<MakeBookRequest("unsubscribe", subscriptions[id]),
                MakeBookRequest("subscribe", subscriptions[id])>>
      BY <2>1 DEF ResubscribeRequests
    <3>2. PICK book : book = subscriptions[id]
      OBVIOUS
    <3>3. id \in DOMAIN subscriptions /\ book.symbol = resubscriber
      BY <3>1, <3>2 DEF SubscribersOf
    <3>4. book \in Book
      BY <1>a, <3>2, <3>3 DEF RouteTypeOK
    <3>5. PICK old, new : /\ old = MakeBookRequest("unsubscribe", book)
                          /\ new = MakeBookRequest("subscribe", book)
      OBVIOUS
    <3>6. /\ old \in Request /\ old.kind = "unsubscribe"
          /\ old.symbol = book.symbol /\ old.depth = book.depth
          /\ new \in Request /\ new.kind = "subscribe"
          /\ new.symbol = book.symbol /\ new.depth = book.depth /\ book.symbol \in Symbols
      BY <3>4, <3>5, BookRequestType DEF MakeBookRequest, Book
    <3>7. PICK texts : texts = <<old, new>>
      OBVIOUS
    <3>8. /\ texts \in Seq(Request) /\ Len(texts) = 2 /\ texts[1] = old /\ texts[2] = new
          /\ \A i \in 1..Len(texts) : texts[i].symbol = book.symbol
      <4>1. texts \in Seq(Request) /\ Len(texts) = 2 /\ texts[1] = old /\ texts[2] = new
        BY ONLY <3>6, <3>7
      <4>2. \A i \in 1..Len(texts) : i = 1 \/ i = 2
        BY <4>1
      <4>3. QED
        BY <3>6, <4>1, <4>2
    <3>9. book.symbol \in DOMAIN routes /\ routes[book.symbol].depth = book.depth
      BY <1>a, <3>2, <3>3 DEF RoutedOncePerPair
    <3>10. /\ requests' = requests \o texts /\ routes' = routes /\ venue' = venue
           /\ connected /\ lifeCycle = "free"
      BY <1>14, <2>1, <3>1, <3>2, <3>5, <3>7 DEF Resubscribe, Send, resubscriberUnchanged, parserVars
    <3>11. AskedFor(texts[1]) = {} /\ AskedFor(texts[2]) = {book.depth}
      BY <3>6, <3>8 DEF AskedFor
    <3>12. QED
      <4>1. (IF texts[1].kind = "subscribe" THEN {} ELSE {texts[1].depth})
              = (IF book.symbol \in DOMAIN routes THEN {routes[book.symbol].depth} ELSE {})
        BY <3>6, <3>8, <3>9
      <4>2. AskedFor(texts[Len(texts)])
              = (IF book.symbol \in DOMAIN routes' THEN {routes'[book.symbol].depth} ELSE {})
        BY <3>8, <3>9, <3>10, <3>11
      <4>3. /\ DOMAIN routes' \subseteq DOMAIN routes \cup {book.symbol}
            /\ DOMAIN routes \subseteq DOMAIN routes' \cup {book.symbol}
            /\ \A s \in DOMAIN routes : s # book.symbol => routes'[s] = routes[s]
            /\ Len(texts) > 0
        BY <3>8, <3>10
      <4>4. AskedFor(texts[1]) = (IF texts[2].kind = "subscribe" THEN {} ELSE {texts[2].depth})
        BY <3>6, <3>8, <3>11
      <4>5. QED
        BY <1>a, <3>6, <3>8, <3>10, <4>1, <4>2, <4>3, <4>4, FollowsSent
  <2>2. CASE connected /\ SubscribersOf(resubscriber) = {}
    <3>1. requests' = requests
      BY <1>14, <1>e, <2>2 DEF Resubscribe, Send, ResubscribeRequests
    <3>2. QED
      BY <1>14, <1>b, <1>c, <3>1 DEF Resubscribe, resubscriberUnchanged, parserVars, lifeCycleVars
  <2>3. CASE ~connected
    BY <1>14, <1>d, <2>3 DEF Resubscribe, resubscriberUnchanged, lifeCycleVars
  <2>4. QED
    BY <2>1, <2>2, <2>3
<1>15. CASE UNCHANGED vars
  BY <1>15, <1>b, <1>c DEF vars, feedVars, parserVars, lifeCycleVars
<1>16. QED
  BY <1>1, <1>2, <1>3, <1>4, <1>5, <1>6, <1>7, <1>8, <1>9, <1>10, <1>11, <1>12, <1>13, <1>14, <1>15
     DEF Next, Holder, Network

-----------------------------------------------------------------------------
(* IInv, and the venue following the subscriptions, hold in every state.   *)
THEOREM ManagerInvariant == Safety => [](IInv /\ VenueFollowsSubscriptions)
<1>1. Init => IInv /\ VenueFollowsSubscriptions
  <2>1. Init => VenueFollowsSubscriptions
    BY DEF Init, VenueFollowsSubscriptions
  <2>2. QED
    BY <2>1, InitIInv
<1>2. IInv /\ VenueFollowsSubscriptions /\ [Next]_vars => IInv' /\ VenueFollowsSubscriptions'
  <2> SUFFICES ASSUME IInv, VenueFollowsSubscriptions, [Next]_vars
               PROVE  IInv' /\ VenueFollowsSubscriptions'
    OBVIOUS
  <2>1. TypeInv /\ LifeInv /\ SubscribedInv
    BY DEF IInv
  <2>2. LifeTypeOK' /\ LifeInv' /\ FeedTypeOK' /\ RouteTypeOK' /\ SubscribedInv'
    BY <2>1, LifeStep, FeedTypeStep, RouteTypeStep, SubscribedStep
  <2>3. GateInv' /\ Continuity' /\ VenueFollowsSubscriptions'
    BY <2>2, GateStep, ContinuityStep, FollowsStep
  <2>4. QED
    BY <2>2, <2>3 DEF IInv, TypeInv
<1>3. QED
  BY <1>1, <1>2, PTL DEF Safety

(* A pair has at most one subscription, and the parser's routes are        *)
(* exactly the subscriptions', at their depths (l2_manager.h:34), for any  *)
(* number of Subscribe() calls past their first check at once.             *)
THEOREM PairsAreRoutedOnce == Safety => []RoutedOncePerPair
<1>1. IInv => RoutedOncePerPair
  BY DEF IInv, SubscribedInv
<1>2. QED
  BY <1>1, ManagerInvariant, PTL

(* Between calls the manager is fully connected or fully disconnected      *)
(* (l2_manager.h:49).                                                      *)
THEOREM NothingHalfConnected == Safety => []FullyConnectedOrNot
<1>1. IInv => FullyConnectedOrNot
  <2> SUFFICES ASSUME IInv, lifeCycle \in {"free", "destroyed"} PROVE FullyConnectedOrNot
    BY DEF FullyConnectedOrNot
  <2>1. LifeInv /\ parser \in {"stopped", "running", "failed"} /\ connected \in BOOLEAN
    BY DEF IInv, TypeInv, LifeTypeOK
  <2>2. CASE connected
    BY <2>1, <2>2 DEF LifeInv, FullyConnectedOrNot
  <2>3. CASE ~connected
    BY <2>1, <2>3 DEF LifeInv, FullyConnectedOrNot
  <2>4. QED
    BY <2>2, <2>3
<1>2. QED
  BY <1>1, ManagerInvariant, PTL

(* The gate of a route is open exactly while its receiver's stream goes    *)
(* on, and a checked book is then the one the receiver has                 *)
(* (l2_parser.h:29).                                                       *)
THEOREM GatesFollowReceivers == Safety => []CheckedBookIsReceivers
<1>1. IInv => CheckedBookIsReceivers
  BY DEF IInv, GateInv, GateOf, CheckedBookIsReceivers
<1>2. QED
  BY <1>1, ManagerInvariant, PTL

(* Once the venue has handled what was sent to it, it streams exactly the  *)
(* subscribed pairs at their depths, and it refuses none of the requests   *)
(* on the way (l2_manager.cc:167).                                         *)
THEOREM VenueFollows == Safety => []VenueFollowsSubscriptions
BY ManagerInvariant, PTL

-----------------------------------------------------------------------------
(* What a receiver was told of: an open, an update, a gap or an end.       *)
LEMMA ContractStep == IInv /\ [Next]_vars => [Contract!Next]_heard
<1> SUFFICES ASSUME IInv, [Next]_vars, heard' # heard PROVE Contract!Next
  OBVIOUS
<1>a. FeedTypeOK /\ RouteTypeOK /\ LifeTypeOK /\ LifeInv /\ SubscribedInv
  BY DEF IInv, TypeInv
<1>b. heard \in [Receivers -> Heard]
  BY <1>a DEF RouteTypeOK, Heard
<1>c. \A id \in DOMAIN subscriptions :
        /\ id \in Receivers /\ heard[id] \in Heard
        /\ heard[id].phase \in {"fresh", "live", "disconnected", "resubscribing"}
  <2>1. \A id \in DOMAIN subscriptions : id \in Receivers /\ heard[id] \in Heard
    BY <1>a, <1>b DEF RouteTypeOK, Ids
  <2>2. \A id \in DOMAIN subscriptions : heard[id].phase \in Phase
    BY <2>1 DEF Heard
  <2>3. \A id \in DOMAIN subscriptions : heard[id].phase \notin {"none", "gone"}
    BY <1>a DEF SubscribedInv
  <2>4. QED
    BY <2>1, <2>2, <2>3 DEF Phase
<1>1. CASE \E id \in Ids : SubscribeFetched(id)
  <2>1. PICK id \in Ids : SubscribeFetched(id)
    BY <1>1
  <2>2. heard' = [heard EXCEPT ![id].phase = "fresh"] /\ calls[id].state = "fetching"
    BY <2>1 DEF SubscribeFetched
  <2>3. heard[id] = Contract!Nothing
    BY <1>a, <2>2 DEF SubscribedInv
  <2>4. heard'[id] = [heard[id] EXCEPT !.phase = "fresh"]
    BY <1>b, <2>2 DEF Ids
  <2>5. Contract!Open(heard[id], heard'[id])
    BY <2>3, <2>4 DEF Contract!Open, Contract!Nothing
  <2>6. \A r \in Receivers : r # id => heard'[r] = heard[r]
    BY <1>b, <2>2
  <2>7. QED
    BY <2>5, <2>6 DEF Contract!Next
<1>2. CASE \E id \in Ids : Unsubscribe(id)
  <2>1. PICK id \in Ids : Unsubscribe(id)
    BY <1>2
  <2>2. heard' = [heard EXCEPT ![id].phase = "gone"] /\ id \in DOMAIN subscriptions
    BY <2>1 DEF Unsubscribe
  <2>3. heard'[id] = [heard[id] EXCEPT !.phase = "gone"]
    BY <1>b, <2>2 DEF Ids
  <2>4. Contract!Close(heard[id], heard'[id])
    BY <1>c, <2>2, <2>3 DEF Contract!Close
  <2>5. \A r \in Receivers : r # id => heard'[r] = heard[r]
    BY <1>b, <2>2
  <2>6. QED
    BY <2>4, <2>5 DEF Contract!Next
<1>3. CASE JoinParser
  <2>1. \A r \in Receivers : heard'[r] = IF r \in Disconnected
                                          THEN [heard[r] EXCEPT !.phase = "disconnected"]
                                          ELSE heard[r]
    BY <1>3 DEF JoinParser
  <2>2. ASSUME NEW r \in Receivers, r \in Disconnected
        PROVE  Contract!Break(heard[r], heard'[r])
    <3>1. r \in DOMAIN subscriptions
      BY <2>2 DEF Disconnected
    <3>2. heard'[r] = [heard[r] EXCEPT !.phase = "disconnected"]
      BY <2>1, <2>2
    <3>3. QED
      BY <1>c, <3>1, <3>2 DEF Contract!Break
  <2>3. QED
    BY <2>1, <2>2 DEF Contract!Next
<1>4. CASE Parse
  <2>0. PICK m, r : m = Head(queue) /\ r = routes[m.symbol].receiver
    OBVIOUS
  <2>1. parser = "running" /\ queue # <<>> /\ (Deliver(m) \/ Mismatch(m))
    BY <1>4, <2>0 DEF Parse, Ignore
  <2>2. m \in Message
    BY <1>a, <2>0, <2>1 DEF FeedTypeOK
  <2>3. m.symbol \in DOMAIN routes /\ HasRoute(m)
    BY <2>1 DEF Deliver, Mismatch, HasRoute
  <2>4. r \in DOMAIN subscriptions
    BY <1>a, <2>0, <2>3, ReceiversApart
  <2>5. CASE Deliver(m)
    <3>1. /\ heard'[r] = [phase |-> "live", stream |-> m.stream, seq |-> m.seq]
          /\ \A q \in Receivers : q # r => heard'[q] = heard[q]
      BY <1>a, <2>0, <2>5, DeliverEffect
    <3>2. CASE m.seq = 0
      <4>1. m.stream \in Nat
        BY <2>2 DEF Message
      <4>2. Contract!Snapshot(heard[r], heard'[r])
        BY <1>c, <2>4, <3>1, <3>2, <4>1 DEF Contract!Snapshot
      <4>3. QED
        BY <3>1, <4>2 DEF Contract!Next
    <3>3. CASE m.seq # 0
      <4>1. heard[r].phase = "live" /\ heard[r].stream = m.stream /\ heard[r].seq + 1 = m.seq
        BY <2>0, <2>1, <2>3, <3>3, NextFrameFollows
      <4>2. heard[r] \in Heard
        BY <1>c, <2>4
      <4>3. heard'[r] = [heard[r] EXCEPT !.seq = @ + 1]
        BY <3>1, <4>1, <4>2 DEF Heard
      <4>4. Contract!Update(heard[r], heard'[r])
        BY <4>1, <4>3 DEF Contract!Update
      <4>5. QED
        BY <3>1, <4>4 DEF Contract!Next
    <3>4. QED
      BY <3>2, <3>3
  <2>6. CASE Mismatch(m)
    <3>1. /\ heard'[r] = [phase |-> "resubscribing", stream |-> heard[r].stream,
                          seq |-> heard[r].seq]
          /\ \A q \in Receivers : q # r => heard'[q] = heard[q]
      BY <1>a, <2>0, <2>6, MismatchEffect
    <3>2. heard'[r] = [heard[r] EXCEPT !.phase = "resubscribing"]
      BY <1>c, <2>4, <3>1 DEF Heard
    <3>3. Contract!Break(heard[r], heard'[r])
      BY <1>c, <2>4, <3>2 DEF Contract!Break
    <3>4. QED
      BY <3>1, <3>3 DEF Contract!Next
  <2>7. QED
    BY <2>1, <2>5, <2>6
<1>5. CASE \/ \E id \in Ids, book \in Book : Subscribe(id, book)
           \/ \E id \in Ids : SubscribeFails(id)
           \/ Connect \/ Disconnect \/ Destroy \/ DestroyDisconnects
           \/ JoinFeed \/ ConnectFeedThrows \/ ConnectFeed
           \/ Network \/ NetworkFails
           \/ TakePending \/ Resubscribe \/ EndResubscriber
           \/ UNCHANGED vars
  <2>1. heard' = heard
    BY <1>5 DEF Subscribe, SubscribeFails, Connect, Disconnect, Destroy, DestroyDisconnects,
                BeginDisconnect, JoinFeed, ConnectFeedThrows, ConnectFeed, Network, VenueHandles,
                ReadFrame, PushFrame, StopNetwork, NetworkFails, networkUnchanged, TakePending,
                Resubscribe, EndResubscriber, resubscriberUnchanged, parserVars, vars
  <2>2. QED
    BY <2>1
<1>6. QED
  BY <1>1, <1>2, <1>3, <1>4, <1>5 DEF Next, Holder

(* Whatever reconnects, mismatches, late frames and resubscribes come      *)
(* together, every receiver sees a stream as core/receiver.h promises it:  *)
(* the manager implements BookStream.                                      *)
THEOREM ContractKept == Safety => KeepsContract
<1>1. Init => Contract!Init
  BY DEF Init, ParserInit
<1>2. QED
  BY <1>1, ContractStep, ManagerInvariant, PTL DEF Safety, KeepsContract, Contract!Spec

-----------------------------------------------------------------------------
(* An answer for a taken pair says what is so, and changes nothing.        *)
LEMMA TakenIsTrue ==
  ASSUME NEW id \in Ids, NEW book \in Book, calls'[id] \in Answer(id, book),
         id \notin DOMAIN subscriptions, RouteTypeOK, UNCHANGED subscriptions
  PROVE  AnswerIsTrue(id)' /\ calls'[id].error # "failed"
<1>1. PICK taken \in SubscribersOf(book.symbol) :
        \/ /\ IsRecordedAs(taken, id, book)
           /\ calls'[id] =
                [state |-> "answered", book |-> book, id |-> taken, error |-> "none"]
        \/ /\ ~IsRecordedAs(taken, id, book)
           /\ calls'[id] =
                [state |-> "answered", book |-> book, id |-> id, error |-> "kSymbolInUse"]
  BY AnswerProperties
<1>2. taken \in DOMAIN subscriptions /\ taken # id /\ subscriptions[taken] \in Book
        /\ subscriptions[taken].symbol = book.symbol
  BY DEF SubscribersOf, RouteTypeOK
<1>3. CASE IsRecordedAs(taken, id, book)
  BY <1>1, <1>2, <1>3 DEF AnswerIsTrue, IsRecordedAs
<1>4. CASE ~IsRecordedAs(taken, id, book)
  <2>1. {taken, id} \subseteq Recordings => subscriptions[taken].depth # book.depth
    BY <1>2, <1>4 DEF IsRecordedAs, Book
  <2>2. QED
    BY <1>1, <1>2, <1>4, <2>1 DEF AnswerIsTrue
<1>5. QED
  BY <1>3, <1>4

(* A step that answers a call answers what is so.                          *)
LEMMA AnswerStep ==
  ASSUME IInv, [Next]_vars, NEW id \in Ids,
         calls'[id] # calls[id], calls'[id].state = "answered"
  PROVE  /\ AnswerIsTrue(id)'
         /\ calls'[id].error = "failed" => calls[id].state = "fetching"
         /\ \/ calls'[id].error = "none" /\ calls'[id].id = id
            \/ UNCHANGED <<subscriptions, routes, requests>>
<1>a. RouteTypeOK
  BY DEF IInv, TypeInv
<1>b. calls \in [Ids -> Call]
  BY <1>a DEF RouteTypeOK
<1>c. calls[id].state \in {"none", "fetching"} => id \notin DOMAIN subscriptions
  BY DEF IInv, SubscribedInv
<1>1. ASSUME NEW i \in Ids, NEW book \in Book, Subscribe(i, book)
      PROVE  /\ AnswerIsTrue(id)' /\ calls'[id].error # "failed"
             /\ UNCHANGED <<subscriptions, routes, requests>>
  <2>1. PICK c : /\ calls' = [calls EXCEPT ![i] = c]
                 /\ c \in Answer(i, book) \/ c = [state |-> "fetching", book |-> book]
    BY <1>1 DEF Subscribe
  <2>2. i = id /\ c = calls'[id]
    BY <1>b, <2>1
  <2>3. calls'[id] \in Answer(id, book)
    BY <2>1, <2>2
  <2>4. calls[id].state = "none" /\ UNCHANGED <<subscriptions, routes, requests>>
    BY <1>1, <2>2 DEF Subscribe, feedVars, parserVars
  <2>5. QED
    BY <1>a, <1>c, <2>3, <2>4, TakenIsTrue
<1>2. ASSUME NEW i \in Ids, SubscribeFails(i)
      PROVE  /\ AnswerIsTrue(id)' /\ calls[id].state = "fetching"
             /\ UNCHANGED <<subscriptions, routes, requests>>
  <2>1. i = id /\ calls'[id].error = "failed"
    BY <1>2, <1>b DEF SubscribeFails
  <2>2. QED
    BY <1>2, <2>1 DEF SubscribeFails, AnswerIsTrue, feedVars, parserVars
<1>3. ASSUME NEW i \in Ids, SubscribeFetched(i)
      PROVE  /\ AnswerIsTrue(id)' /\ calls'[id].error # "failed"
             /\ \/ calls'[id].error = "none" /\ calls'[id].id = id
                \/ UNCHANGED <<subscriptions, routes, requests>>
  <2>0. PICK book : book = calls[i].book
    OBVIOUS
  <2>1. book \in Book
    BY <1>3, <1>b, <2>0 DEF SubscribeFetched, Call
  <2>2. CASE TakenMeanwhile(i, book) # {}
    <3>1. PICK c \in Answer(i, book) : calls' = [calls EXCEPT ![i] = c]
      BY <1>3, <2>0, <2>2 DEF SubscribeFetched, TakenMeanwhile
    <3>2. i = id /\ c = calls'[id]
      BY <1>b, <3>1
    <3>3. UNCHANGED <<subscriptions, routes, requests>> /\ calls[id].state = "fetching"
      BY <1>3, <2>0, <2>2, <3>2 DEF SubscribeFetched
    <3>4. QED
      BY <1>a, <1>c, <2>1, <3>1, <3>2, <3>3, TakenIsTrue
  <2>3. CASE TakenMeanwhile(i, book) = {}
    <3>1. /\ calls' = [calls EXCEPT ![i] =
                         [state |-> "answered", book |-> book, id |-> i, error |-> "none"]]
          /\ subscriptions' = Put(subscriptions, i, book)
      BY <1>3, <2>0, <2>3 DEF SubscribeFetched
    <3>2. /\ i = id
          /\ calls'[id] = [state |-> "answered", book |-> book, id |-> id, error |-> "none"]
      BY <1>b, <3>1
    <3>3. id \in DOMAIN subscriptions' /\ subscriptions'[id] = book
      BY <3>1, <3>2 DEF Put
    <3>4. QED
      BY <3>2, <3>3 DEF AnswerIsTrue
  <2>4. QED
    BY <2>2, <2>3
<1>4. CASE \/ \E i \in Ids : Unsubscribe(i)
           \/ Connect \/ Disconnect \/ Destroy \/ DestroyDisconnects
           \/ Holder \/ ConnectFeed
           \/ Network \/ NetworkFails \/ Parse
           \/ TakePending \/ Resubscribe \/ EndResubscriber
           \/ UNCHANGED vars
  BY <1>4 DEF Unsubscribe, Connect, Disconnect, Destroy, DestroyDisconnects, BeginDisconnect,
              Holder, JoinFeed, JoinParser, ConnectFeedThrows, ConnectFeed, Network,
              VenueHandles, ReadFrame, PushFrame, StopNetwork, NetworkFails, networkUnchanged,
              Parse, TakePending, Resubscribe, EndResubscriber, resubscriberUnchanged,
              subscriptionVars, vars
<1>5. QED
  BY <1>1, <1>2, <1>3, <1>4 DEF Next

(* What Subscribe() answers holds when it answers (l2_manager.h:110):      *)
(* though the pair may have been taken while the precision was fetched.    *)
THEOREM AnswersAreTrue == Safety => AnswersHold
<1>1. IInv /\ [Next]_vars =>
        [\A id \in Ids :
           calls'[id] # calls[id] /\ calls'[id].state = "answered" =>
             /\ AnswerIsTrue(id)'
             /\ calls'[id].error = "failed" => calls[id].state = "fetching"
             /\ \/ calls'[id].error = "none" /\ calls'[id].id = id
                \/ UNCHANGED <<subscriptions, routes, requests>>]_vars
  BY AnswerStep
<1>2. QED
  BY <1>1, ManagerInvariant, PTL DEF Safety, AnswersHold
=============================================================================
