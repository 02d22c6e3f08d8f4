-------------------------- MODULE Commands_proofs --------------------------
(***************************************************************************)
(* Proofs about the ids of subscriptions (Router, SubscriptionId), for any *)
(* number of calls, counters, venues and sinks, and about the commands of  *)
(* several clients that they serve (Commands), for any number of clients,  *)
(* symbols and commands, and whatever the venues answer.  Last, the        *)
(* retries of the Router's thread (Supervisor), for any venues and delays. *)
(***************************************************************************)
EXTENDS Commands, Supervisor, WellFoundedInduction, NaturalsInduction, TLAPS

-----------------------------------------------------------------------------
(* The encoding of manager.h.  Shifting by a byte and masking one undo     *)
(* putting a byte below a number.                                          *)
LEMMA ByteBelow ==
  ASSUME NEW q \in Nat, NEW r \in Byte
  PROVE  (q * 256 + r) \div 256 = q /\ (q * 256 + r) % 256 = r
BY SMTT(30) DEF Byte

(* A number below the integer's width is itself modulo the width. *)
LEMMA Fits ==
  ASSUME NEW m \in Nat \ {0}, NEW n \in 0..(m - 1)
  PROVE  n % m = n
BY SMT

(* Up to the last counter, nothing of an id is lost to its width. *)
LEMMA IdFits ==
  ASSUME NEW k \in Counters, NEW v \in Byte, NEW s \in Byte
  PROVE  /\ MakeSubscriptionId(k, v, s) = (k * 256 + v) * 256 + s
         /\ MakeSubscriptionId(k, v, s) \in 0..(Width - 1)
<1> DEFINE n == k * 65536 + v * 256 + s
<1>1. k \in Nat /\ k <= MaxCounter /\ v \in 0..255 /\ s \in 0..255 /\ MaxCounter \in Nat
  BY MaxCounterAssumption DEF Counters, Byte, MaxCounterAssumption
<1>2. n = (k * 256 + v) * 256 + s
  BY <1>1
<1>3. Width \in Nat \ {0} /\ n \in 0..(Width - 1)
  BY <1>1 DEF Width
<1>4. MakeSubscriptionId(k, v, s) = n % Width
  BY DEF MakeSubscriptionId
<1> HIDE DEF n
<1>5. n % Width = n
  BY <1>3, Fits
<1>6. QED
  BY <1>2, <1>3, <1>4, <1>5

(* An id names its venue and its sink. *)
LEMMA IdNames ==
  ASSUME NEW k \in Counters, NEW v \in Byte, NEW s \in Byte
  PROVE  /\ VenueOf(MakeSubscriptionId(k, v, s)) = v
         /\ SinkOf(MakeSubscriptionId(k, v, s)) = s
<1> DEFINE q == k * 256 + v
<1>1. k \in Nat /\ q \in Nat
  BY DEF Counters, Byte
<1>2. MakeSubscriptionId(k, v, s) = q * 256 + s
  BY IdFits
<1>3. q % 256 = v
  BY <1>1, ByteBelow
<1> HIDE DEF q
<1>4. (q * 256 + s) \div 256 = q /\ (q * 256 + s) % 256 = s
  BY <1>1, ByteBelow
<1>5. QED
  BY <1>2, <1>3, <1>4 DEF VenueOf, SinkOf

(* Ids compare as their counters do, whatever their venues and sinks. *)
LEMMA IdsCompare ==
  ASSUME NEW k \in Counters, NEW v \in Byte, NEW s \in Byte,
         NEW l \in Counters, NEW w \in Byte, NEW t \in Byte,
         k < l
  PROVE  MakeSubscriptionId(k, v, s) < MakeSubscriptionId(l, w, t)
<1>1. k \in Nat /\ l \in Nat /\ v \in 0..255 /\ s \in 0..255 /\ w \in 0..255 /\ t \in 0..255
  BY DEF Counters, Byte
<1>2. (k * 256 + v) * 256 + s < (l * 256 + w) * 256 + t
  BY <1>1
<1>3. QED
  BY <1>2, IdFits

-----------------------------------------------------------------------------
(* The ids are in order because the i-th call took counter i, which no     *)
(* state of its own says: the invariant ties the two, and every id that is *)
(* handed out or in a manager's table to the encoding.                     *)
IdCall == [state : {"subscribing", "answered"}, venue : Venues, sink : Sinks, id : Nat]

Encoded(id, v) == \E k \in Counters, s \in Sinks : id = MakeSubscriptionId(k, v, s)

CallsNumbered ==
  /\ calls \in Seq({Exhausted} \cup IdCall)
  /\ counter = Len(calls) + 1
  /\ \A i \in DOMAIN calls :
       HasId(i) =>
         /\ i \in Counters
         /\ calls[i].id = MakeSubscriptionId(i, calls[i].venue, calls[i].sink)

TablesEncoded ==
  /\ DOMAIN tables = Venues
  /\ \A v \in Venues : \A id \in tables[v] : Encoded(id, v)

IdInv == CallsNumbered /\ TablesEncoded

(* A venue or a sink fits its byte of an id. *)
LEMMA Bytes == Venues \subseteq Byte /\ Sinks \subseteq Byte
BY RouterAssumption DEF RouterAssumption

(* A call with an id is a record of one. *)
LEMMA HasIdIsIdCall ==
  ASSUME calls \in Seq({Exhausted} \cup IdCall), NEW i \in DOMAIN calls, HasId(i)
  PROVE  calls[i] \in IdCall
BY DEF HasId, Exhausted, IdCall

(* The invariant of the ids holds at the start. *)
LEMMA InitIdInv == Init => IdInv
<1> SUFFICES ASSUME Init PROVE IdInv
  OBVIOUS
<1>1. calls = <<>> /\ counter = 1 /\ tables = [v \in Venues |-> {}]
  BY DEF Init
<1>2. CallsNumbered
  BY <1>1 DEF CallsNumbered
<1>3. TablesEncoded
  BY <1>1 DEF TablesEncoded
<1>4. QED
  BY <1>2, <1>3 DEF IdInv

(* Only subscribing takes a counter, and it appends the call of that number. *)
LEMMA SubscribeKeepsIdInv ==
  ASSUME IdInv, NEW venue \in Venues, NEW sink \in Sinks, Subscribe(venue, sink)
  PROVE  IdInv'
<1> DEFINE new == IF IdsLeft(counter)
                    THEN [state |-> "subscribing", venue |-> venue, sink |-> sink,
                          id |-> MakeSubscriptionId(counter, venue, sink)]
                    ELSE Exhausted
<1>1. calls' = Append(calls, new) /\ counter' = counter + 1 /\ tables' = tables
  BY DEF Subscribe
<1>2. calls \in Seq({Exhausted} \cup IdCall) /\ counter = Len(calls) + 1 /\ counter \in Nat
  BY DEF IdInv, CallsNumbered
<1>3. IdsLeft(counter) => counter \in Counters
  BY <1>2, MaxCounterAssumption DEF IdsLeft, Counters, MaxCounterAssumption
<1>4. counter \in Counters => MakeSubscriptionId(counter, venue, sink) \in Nat
  <2>1. venue \in Byte /\ sink \in Byte
    BY Bytes
  <2>2. Width \in Nat
    BY MaxCounterAssumption DEF Width, MaxCounterAssumption
  <2>3. counter \in Counters => MakeSubscriptionId(counter, venue, sink) \in 0..(Width - 1)
    BY <2>1, IdFits
  <2>4. QED
    BY <2>2, <2>3
<1>5. new \in {Exhausted} \cup IdCall
  BY <1>3, <1>4 DEF IdCall
<1>6. new # Exhausted =>
        /\ counter \in Counters
        /\ new.id = MakeSubscriptionId(counter, venue, sink)
        /\ new.venue = venue /\ new.sink = sink
  BY <1>3
<1> HIDE DEF new
<1>7. /\ calls' \in Seq({Exhausted} \cup IdCall) /\ Len(calls') = Len(calls) + 1
      /\ DOMAIN calls' = DOMAIN calls \cup {counter}
      /\ calls'[counter] = new
      /\ \A i \in DOMAIN calls : calls'[i] = calls[i]
  BY <1>1, <1>2, <1>5
<1>8. ASSUME NEW i \in DOMAIN calls', HasId(i)'
      PROVE  /\ i \in Counters
             /\ calls'[i].id = MakeSubscriptionId(i, calls'[i].venue, calls'[i].sink)
  <2>1. CASE i \in DOMAIN calls
    <3>1. HasId(i) /\ calls'[i] = calls[i]
      BY <1>7, <1>8, <2>1 DEF HasId
    <3>2. QED
      BY <3>1, <2>1 DEF IdInv, CallsNumbered
  <2>2. CASE i = counter
    <3>1. calls'[i] = new /\ new # Exhausted
      BY <1>7, <1>8, <2>2 DEF HasId, Exhausted
    <3>2. QED
      BY <3>1, <2>2, <1>6
  <2>3. QED
    BY <1>7, <2>1, <2>2
<1>9. CallsNumbered'
  BY <1>1, <1>2, <1>7, <1>8 DEF CallsNumbered
<1>10. TablesEncoded'
  BY <1>1 DEF IdInv, TablesEncoded
<1>11. QED
  BY <1>9, <1>10 DEF IdInv

(* The manager puts the call's own id into the table of the call's venue. *)
LEMMA ManagerSubscribesKeepsIdInv ==
  ASSUME IdInv, NEW i \in DOMAIN calls, ManagerSubscribes(i)
  PROVE  IdInv'
<1>1. /\ calls \in Seq({Exhausted} \cup IdCall) /\ HasId(i)
      /\ calls' = [calls EXCEPT ![i].state = "answered"] /\ counter' = counter
  BY DEF IdInv, CallsNumbered, ManagerSubscribes, HasId
<1>2. calls[i] \in IdCall
  BY <1>1, HasIdIsIdCall
<1>3. /\ calls' = [calls EXCEPT ![i] = [calls[i] EXCEPT !.state = "answered"]]
      /\ [calls[i] EXCEPT !.state = "answered"] \in IdCall
  BY <1>1, <1>2 DEF IdCall
<1>4. calls' \in Seq({Exhausted} \cup IdCall) /\ Len(calls') = Len(calls)
      /\ DOMAIN calls' = DOMAIN calls
  BY <1>1, <1>3
<1>5. ASSUME NEW j \in DOMAIN calls', HasId(j)'
      PROVE  /\ j \in Counters
             /\ calls'[j].id = MakeSubscriptionId(j, calls'[j].venue, calls'[j].sink)
  <2>1. j \in DOMAIN calls
    BY <1>4
  <2>2. HasId(j)
    BY <1>1, <1>3, <1>5, <2>1 DEF HasId
  <2>3. calls[j] \in IdCall
    BY <1>1, <2>1, <2>2, HasIdIsIdCall
  <2>4. /\ calls'[j].id = calls[j].id /\ calls'[j].venue = calls[j].venue
        /\ calls'[j].sink = calls[j].sink
    BY <1>1, <1>2, <1>3, <2>1, <2>3 DEF IdCall
  <2>5. QED
    BY <2>1, <2>2, <2>4 DEF IdInv, CallsNumbered
<1>6. CallsNumbered'
  BY <1>1, <1>4, <1>5 DEF CallsNumbered, IdInv
<1>7. Encoded(calls[i].id, calls[i].venue) /\ calls[i].venue \in Venues
  BY <1>1, <1>2 DEF Encoded, IdInv, CallsNumbered, IdCall
<1>8. TablesEncoded'
  <2>1. CASE tables' = tables
    BY <2>1 DEF IdInv, TablesEncoded
  <2>2. CASE tables' = [tables EXCEPT ![calls[i].venue] = @ \cup {calls[i].id}]
    <3>1. DOMAIN tables' = Venues
      BY <2>2 DEF IdInv, TablesEncoded
    <3>2. ASSUME NEW v \in Venues, NEW id \in tables'[v] PROVE Encoded(id, v)
      <4>1. id \in tables[v] \/ (v = calls[i].venue /\ id = calls[i].id)
        BY <2>2, <3>2 DEF IdInv, TablesEncoded
      <4>2. QED
        BY <4>1, <1>7 DEF IdInv, TablesEncoded
    <3>3. QED
      BY <3>1, <3>2 DEF TablesEncoded, Encoded
  <2>3. QED
    BY <2>1, <2>2 DEF ManagerSubscribes
<1>9. QED
  BY <1>6, <1>8 DEF IdInv

(* Unsubscribing only takes ids out of a table. *)
LEMMA UnsubscribeKeepsIdInv ==
  ASSUME IdInv, NEW id, Unsubscribe(id)
  PROVE  IdInv'
<1>1. /\ calls' = calls /\ counter' = counter
      /\ tables' = [tables EXCEPT ![VenueOf(id)] = @ \ {id}]
  BY DEF Unsubscribe
<1>2. CallsNumbered'
  BY <1>1 DEF IdInv, CallsNumbered, HasId
<1>3. DOMAIN tables' = Venues /\ \A v \in Venues : tables'[v] \subseteq tables[v]
  BY <1>1 DEF IdInv, TablesEncoded
<1>4. TablesEncoded'
  BY <1>3 DEF IdInv, TablesEncoded, Encoded
<1>5. QED
  BY <1>2, <1>4 DEF IdInv

(* Every step of a Subscribe() keeps it. *)
LEMMA IdInvStep == IdInv /\ [Next]_idVars => IdInv'
<1> SUFFICES ASSUME IdInv, [Next]_idVars PROVE IdInv'
  OBVIOUS
<1>1. CASE \E v \in Venues, sink \in Sinks : Subscribe(v, sink)
  BY <1>1, SubscribeKeepsIdInv
<1>2. CASE \E i \in DOMAIN calls : ManagerSubscribes(i)
  BY <1>2, ManagerSubscribesKeepsIdInv
<1>3. CASE \E v \in Venues : \E id \in tables[v] : Unsubscribe(id)
  BY <1>3, UnsubscribeKeepsIdInv
<1>4. CASE UNCHANGED idVars
  BY <1>4 DEF idVars, IdInv, CallsNumbered, TablesEncoded, HasId
<1>5. QED
  BY <1>1, <1>2, <1>3, <1>4 DEF Next

(* What the invariant says of two calls, by the encoding. *)
LEMMA IdInvOrders == IdInv => IdsInOrder
<1> SUFFICES ASSUME IdInv, NEW i \in DOMAIN calls, HasId(i)
             PROVE  /\ SinkOf(calls[i].id) = calls[i].sink
                    /\ \A j \in DOMAIN calls : HasId(j) /\ i < j => calls[i].id < calls[j].id
  BY DEF IdsInOrder
<1>1. ASSUME NEW j \in DOMAIN calls, HasId(j)
      PROVE  /\ j \in Counters /\ calls[j].venue \in Byte /\ calls[j].sink \in Byte
             /\ calls[j].id = MakeSubscriptionId(j, calls[j].venue, calls[j].sink)
  <2>1. calls[j] \in IdCall
    BY <1>1, HasIdIsIdCall DEF IdInv, CallsNumbered
  <2>2. QED
    BY <2>1, <1>1, Bytes DEF IdInv, CallsNumbered, IdCall
<1>2. SinkOf(calls[i].id) = calls[i].sink
  BY <1>1, IdNames
<1>3. ASSUME NEW j \in DOMAIN calls, HasId(j), i < j PROVE calls[i].id < calls[j].id
  BY <1>1, <1>3, IdsCompare
<1>4. QED
  BY <1>2, <1>3

(* A venue read back from an id is the one whose table holds it. *)
LEMMA IdInvReaches == IdInv => IdsReachTheirManager
<1> SUFFICES ASSUME IdInv, NEW v \in Venues, NEW id \in tables[v] PROVE VenueOf(id) = v
  BY DEF IdsReachTheirManager
<1>1. PICK k \in Counters, s \in Sinks : id = MakeSubscriptionId(k, v, s)
  BY DEF IdInv, TablesEncoded, Encoded
<1>2. QED
  BY <1>1, IdNames, Bytes

(* Ids sort in the order they were handed out and name their sink          *)
(* (manager.h:42), up to the last counter, however many calls overlap.     *)
THEOREM IdsSort == Spec => []IdsInOrder
BY InitIdInv, IdInvStep, IdInvOrders, PTL DEF Spec

(* Router::Unsubscribe() finds every subscription by its id alone.         *)
THEOREM IdsLead == Spec => []IdsReachTheirManager
BY InitIdInv, IdInvStep, IdInvReaches, PTL DEF Spec

-----------------------------------------------------------------------------
(* What the wire says of a venue or a sink is read as it was written.      *)
LEMMA WireKeeps ==
  /\ \A x \in {0, 1} : FromWire(ToWire(x)) = x
  /\ \A enum : FromWire(enum) # None => FromWire(enum) \in {0, 1}
BY DEF FromWire, ToWire, None

(* The venues and the sinks are those the wire knows. *)
LEMMA TwoOfEach == Venues = {0, 1} /\ Sinks = {0, 1}
BY CommandsAssumption DEF CommandsAssumption, Kraken, Coinbase

-----------------------------------------------------------------------------
(* A call whose answer is out, which is the only kind whose id is in a     *)
(* table; an id handed out later is none of these.                         *)
Answered == {calls[i].id : i \in {j \in DOMAIN calls : calls[j].state = "answered"}}

TablesAnswered == \A v \in Venues : tables[v] \subseteq Answered \cap DOMAIN books

(* A Start runs for the call it made, of the venue and the sink it names.  *)
StartRuns(c) ==
  cmd[c].stage \in {"checking", "fetching"} =>
    /\ DOMAIN cmd[c] = {"stage", "command", "call"}
    /\ cmd[c].command \in Starts
    /\ cmd[c].call \in DOMAIN calls /\ HasId(cmd[c].call)
    /\ calls[cmd[c].call].venue = FromWire(cmd[c].command.venue)
    /\ calls[cmd[c].call].sink = FromWire(cmd[c].command.sink)

(* A venue is asked for its pairs only for who lists pairs. *)
PairsRun(c) ==
  cmd[c].stage \in {"asking", "answered"} =>
    /\ {"stage", "command"} \subseteq DOMAIN cmd[c]
    /\ cmd[c].command.kind = "list_pairs"

(* What a manager was asked for, each id with the venue it names. *)
IsListing(l) ==
  /\ l = <<VenueOf(l[2]), l[2]>> /\ l[2] \in DOMAIN books
  /\ VenueOf(l[2]) \in Venues /\ SinkOf(l[2]) \in Sinks

(* Who lists for a Watch found no live stream of the id at the beginning.  *)
WatchMissed(c) ==
  cmd[c].command.kind = "watch" =>
    ~(cmd[c].command.id \in cmd[c].before /\ SinkOf(cmd[c].command.id) = 0)

(* While the managers are asked in turn, the subscriptions there were at   *)
(* the beginning and still are, of the venues asked so far, are found.     *)
ListRuns(c) ==
  cmd[c].stage = "listing" =>
    /\ DOMAIN cmd[c] = {"stage", "command", "asked", "found", "before"}
    /\ cmd[c].command.kind \in {"list", "watch"}
    /\ WatchMissed(c)
    /\ cmd[c].before \subseteq Answered /\ cmd[c].asked \subseteq Venues
    /\ \A l \in cmd[c].found : IsListing(l)
    /\ \A v \in cmd[c].asked :
         \A id \in cmd[c].before \cap tables[v] : <<v, id>> \in cmd[c].found

(* And what was found is answered, of which none that is still there goes. *)
ListIsAnswered(c) ==
  cmd[c].stage = "done" /\ cmd[c].command.kind = "list" =>
    LET listings == cmd[c].result.listings
    IN /\ cmd[c].before \subseteq Answered
       /\ cmd[c].before \cap AllIds \subseteq {l.id : l \in listings}
       /\ \A l \in listings :
            /\ l.id \in DOMAIN books
            /\ l.symbol = books[l.id].symbol /\ l.depth = books[l.id].depth
            /\ FromWire(l.venue) = VenueOf(l.id) /\ FromWire(l.sink) = SinkOf(l.id)

CommandRuns(c) == StartRuns(c) /\ PairsRun(c) /\ ListRuns(c) /\ ListIsAnswered(c)

CommandInv ==
  /\ TablesAnswered /\ DOMAIN cmd = Clients
  /\ \A c \in Clients : CommandRuns(c)

-----------------------------------------------------------------------------
(* What the commands do to the ids is what Router has them do.             *)

(* Who answers a Start answers its call, and changes one venue's table.    *)
LEMMA SubscribedEffect ==
  ASSUME NEW c, NEW added, NEW result, Subscribed(c, added, result)
  PROVE  /\ ManagerSubscribes(cmd[c].call)
         /\ tables' = [tables EXCEPT ![calls[cmd[c].call].venue] = @ \cup added]
         /\ cmd' = [cmd EXCEPT ![c] = Done(cmd[c].command, result)]
BY DEF Subscribed, Answer, Become

(* A Start on the wire takes an id of a venue and a sink there are.        *)
LEMMA StartSubscribes ==
  ASSUME NEW c \in Clients, NEW start \in Starts, Start(c, start)
  PROVE  \/ UNCHANGED idVars
         \/ /\ FromWire(start.venue) \in Venues /\ FromWire(start.sink) \in Sinks
            /\ Subscribe(FromWire(start.venue), FromWire(start.sink))
BY WireKeeps, TwoOfEach, Zenon DEF Start

(* A Stop that is not refused names a subscription in its venue's table.   *)
LEMMA StopUnsubscribes ==
  ASSUME NEW c \in Clients, NEW stop, Stop(c, stop)
  PROVE  \/ UNCHANGED idVars
         \/ /\ VenueOf(stop.id) \in Venues /\ stop.id \in tables[VenueOf(stop.id)]
            /\ Unsubscribe(stop.id) /\ SinkOf(stop.id) = FromWire(stop.sink)
BY DEF Stop, NamesOtherSink

LEMMA ClientStepsCalls ==
  ASSUME CommandInv, NEW c \in Clients, ClientSteps(c)
  PROVE  [Next]_idVars
<1>1. CASE Reply(c) \/ UnknownCommand(c) \/ List(c) \/ Listed(c) \/ ListVenues(c)
  BY <1>1 DEF Reply, UnknownCommand, List, Listed, ListVenues
<1>2. CASE VenueAnswers(c) \/ PairsFetched(c) \/ \E v \in Venues : VenueLists(c, v)
  BY <1>2 DEF VenueAnswers, PairsFetched, VenueLists
<1>3. CASE \E watch \in Watches : Watch(c, watch)
  BY <1>3 DEF Watch
<1>4. CASE \E list \in PairLists : ListPairs(c, list)
  BY <1>4 DEF ListPairs
<1>5. CASE \E start \in Starts : Start(c, start)
  BY <1>5, StartSubscribes DEF Next
<1>6. CASE \E stop \in Stops : Stop(c, stop)
  BY <1>6, StopUnsubscribes DEF Next
<1>7. ASSUME StartChecks(c) \/ StartFetched(c) PROVE [Next]_idVars
  <2>1. cmd[c].call \in DOMAIN calls
    BY <1>7 DEF CommandInv, CommandRuns, StartRuns, StartChecks, StartFetched
  <2>2. UNCHANGED idVars \/ ManagerSubscribes(cmd[c].call)
    <3>1. CASE StartChecks(c)
      BY <3>1, SMTT(40) DEF StartChecks, Subscribed
    <3>2. CASE StartFetched(c)
      BY <3>2 DEF StartFetched, Subscribed
    <3>3. QED
      BY <1>7, <3>1, <3>2
  <2>3. QED
    BY <2>1, <2>2 DEF Next
<1>8. QED
  BY <1>1, <1>2, <1>3, <1>4, <1>5, <1>6, <1>7 DEF ClientSteps

LEMMA CommandsCall == CommandInv /\ [CommandsNext]_commandsVars => [Next]_idVars
<1> SUFFICES ASSUME CommandInv, [CommandsNext]_commandsVars PROVE [Next]_idVars
  OBVIOUS
<1>1. CASE \E c \in Clients : ClientSteps(c)
  BY <1>1, ClientStepsCalls
<1>2. CASE \E v \in Venues, symbol \in Symbols : Change(v, symbol)
  BY <1>2 DEF Change
<1>3. CASE Tick
  BY <1>3 DEF Tick
<1>4. CASE UNCHANGED commandsVars
  BY <1>4 DEF commandsVars
<1>5. QED
  BY <1>1, <1>2, <1>3, <1>4 DEF CommandsNext

-----------------------------------------------------------------------------
(* What a step may do to what the clients share: calls stay, answered ones *)
(* answered, a book once known stays, and what enters a table was answered *)
(* just now.                                                               *)
CallsStay ==
  /\ \A i \in DOMAIN calls :
       /\ i \in DOMAIN calls'
       /\ HasId(i) => /\ HasId(i)' /\ calls'[i].id = calls[i].id
                      /\ calls'[i].venue = calls[i].venue /\ calls'[i].sink = calls[i].sink
  /\ Answered \subseteq Answered'
  /\ \A v \in Venues : tables'[v] \ tables[v] \subseteq Answered' \ Answered

BooksStay ==
  /\ DOMAIN books \subseteq DOMAIN books'
  /\ \A id \in DOMAIN books : books'[id] = books[id]
  /\ \A v \in Venues : tables'[v] \ tables[v] \subseteq DOMAIN books'

(* No two calls have an id in common. *)
LEMMA IdsDiffer ==
  ASSUME IdInv, NEW i \in DOMAIN calls, NEW j \in DOMAIN calls, HasId(i), HasId(j),
         calls[i].id = calls[j].id
  PROVE  i = j
<1>1. calls \in Seq({Exhausted} \cup IdCall)
  BY DEF IdInv, CallsNumbered
<1>2. calls[i].id \in Nat /\ calls[j].id \in Nat /\ i \in Nat /\ j \in Nat
  BY <1>1, HasIdIsIdCall DEF IdCall
<1>3. i < j => calls[i].id < calls[j].id
  BY IdInvOrders DEF IdsInOrder
<1>4. j < i => calls[j].id < calls[i].id
  BY IdInvOrders DEF IdsInOrder
<1>5. QED
  BY <1>2, <1>3, <1>4

LEMMA SubscribeStays ==
  ASSUME IdInv, NEW venue \in Venues, NEW sink \in Sinks, Subscribe(venue, sink)
  PROVE  CallsStay
<1>1. calls \in Seq({Exhausted} \cup IdCall)
  BY DEF IdInv, CallsNumbered
<1> DEFINE new == IF IdsLeft(counter)
                    THEN [state |-> "subscribing", venue |-> venue, sink |-> sink,
                          id |-> MakeSubscriptionId(counter, venue, sink)]
                    ELSE Exhausted
<1>2. calls' = Append(calls, new) /\ tables' = tables
  BY DEF Subscribe
<1> HIDE DEF new
<1>3. \A i \in DOMAIN calls : i \in DOMAIN calls' /\ calls'[i] = calls[i]
  <2>1. \A i \in 1..Len(calls) : i \in 1..(Len(calls) + 1) /\ Append(calls, new)[i] = calls[i]
    BY <1>1
  <2>2. DOMAIN calls = 1..Len(calls) /\ DOMAIN Append(calls, new) = 1..(Len(calls) + 1)
    BY <1>1
  <2>3. QED
    BY <2>1, <2>2, <1>2
<1>4. Answered \subseteq Answered'
  BY <1>3 DEF Answered
<1>5. QED
  BY <1>2, <1>3, <1>4 DEF CallsStay, HasId

LEMMA ManagerSubscribesStays ==
  ASSUME IdInv, NEW i \in DOMAIN calls, ManagerSubscribes(i)
  PROVE  CallsStay /\ calls[i].id \in Answered' \ Answered
<1>1. /\ calls[i].state = "subscribing"
      /\ calls' = [calls EXCEPT ![i].state = "answered"] /\ HasId(i)
      /\ calls \in Seq({Exhausted} \cup IdCall)
  BY DEF ManagerSubscribes, HasId, IdInv, CallsNumbered
<1>2. calls[i] \in IdCall
  BY <1>1, HasIdIsIdCall
<1>3. DOMAIN calls' = DOMAIN calls /\ calls'[i] = [calls[i] EXCEPT !.state = "answered"]
  BY <1>1
<1>4. /\ calls'[i].state = "answered" /\ calls'[i].id = calls[i].id
      /\ calls'[i].venue = calls[i].venue /\ calls'[i].sink = calls[i].sink
  BY <1>2, <1>3 DEF IdCall
<1>5. \A j \in DOMAIN calls : j # i => calls'[j] = calls[j]
  BY <1>1
<1>6. Answered \subseteq Answered'
  BY <1>1, <1>3, <1>5 DEF Answered
<1>7. calls[i].id \in Answered'
  BY <1>3, <1>4 DEF Answered
<1>8. calls[i].id \notin Answered
  <2> SUFFICES ASSUME NEW j \in DOMAIN calls, calls[j].state = "answered",
                      calls[j].id = calls[i].id
               PROVE  FALSE
    BY DEF Answered
  <2>1. HasId(j)
    BY DEF HasId
  <2>2. QED
    BY <1>1, <2>1, IdsDiffer
<1>9. \A v \in Venues : tables'[v] \ tables[v] \subseteq {calls[i].id}
  <2>1. DOMAIN tables = Venues
    BY DEF IdInv, TablesEncoded
  <2>2. \/ tables' = [tables EXCEPT ![calls[i].venue] = @ \cup {calls[i].id}]
        \/ tables' = tables
    BY DEF ManagerSubscribes
  <2>3. QED
    BY <2>1, <2>2
<1>10. QED
  BY <1>1, <1>3, <1>4, <1>5, <1>6, <1>7, <1>8, <1>9 DEF CallsStay, HasId

LEMMA UnsubscribeStays ==
  ASSUME IdInv, NEW id, Unsubscribe(id)
  PROVE  CallsStay /\ \A v \in Venues : tables'[v] \subseteq tables[v]
<1>1. calls' = calls /\ tables' = [tables EXCEPT ![VenueOf(id)] = @ \ {id}]
  BY DEF Unsubscribe
<1>2. \A v \in Venues : tables'[v] \subseteq tables[v]
  BY <1>1 DEF IdInv, TablesEncoded
<1>3. QED
  BY <1>1, <1>2 DEF CallsStay, HasId, Answered

LEMMA NextStays == IdInv /\ [Next]_idVars => CallsStay
<1> SUFFICES ASSUME IdInv, [Next]_idVars PROVE CallsStay
  OBVIOUS
<1>1. CASE UNCHANGED idVars
  BY <1>1 DEF idVars, CallsStay, HasId, Answered
<1>2. QED
  BY <1>1, SubscribeStays, ManagerSubscribesStays, UnsubscribeStays DEF Next

(* What a client runs is as good as it was after a step of another's.      *)
LEMMA OthersRun ==
  ASSUME CallsStay, BooksStay, NEW c, cmd'[c] = cmd[c], CommandRuns(c)
  PROVE  CommandRuns(c)'
<1>1. StartRuns(c)'
  <2>1. CASE cmd[c].stage \in {"checking", "fetching"}
    BY <2>1, Zenon DEF CommandRuns, StartRuns, CallsStay
  <2>2. QED
    BY <2>1 DEF StartRuns
<1>2. PairsRun(c)'
  BY DEF CommandRuns, PairsRun
<1>3. \A l : IsListing(l) => IsListing(l)'
  BY DEF IsListing, BooksStay
<1>4. ListRuns(c)'
  <2> SUFFICES ASSUME cmd'[c].stage = "listing" PROVE ListRuns(c)'
    BY DEF ListRuns
  <2>1. /\ DOMAIN cmd[c] = {"stage", "command", "asked", "found", "before"}
        /\ cmd[c].command.kind \in {"list", "watch"}
        /\ cmd[c].before \subseteq Answered /\ cmd[c].asked \subseteq Venues
        /\ \A l \in cmd[c].found : IsListing(l)
        /\ \A v \in cmd[c].asked :
             \A id \in cmd[c].before \cap tables[v] : <<v, id>> \in cmd[c].found
    BY DEF CommandRuns, ListRuns
  <2>2. cmd[c].before \subseteq Answered' /\ \A l \in cmd[c].found : IsListing(l)'
    BY <2>1, <1>3 DEF CallsStay
  <2>3. \A v \in cmd[c].asked :
          \A id \in cmd[c].before \cap tables'[v] : <<v, id>> \in cmd[c].found
    BY <2>1 DEF CallsStay
  <2>4. WatchMissed(c)'
    BY DEF CommandRuns, ListRuns, WatchMissed
  <2>5. QED
    BY <2>1, <2>2, <2>3, <2>4 DEF ListRuns
<1>5. ListIsAnswered(c)'
  <2> SUFFICES ASSUME cmd'[c].stage = "done", cmd'[c].command.kind = "list"
               PROVE ListIsAnswered(c)'
    BY DEF ListIsAnswered
  <2> DEFINE listings == cmd[c].result.listings
  <2>1. /\ cmd[c].before \subseteq Answered
        /\ cmd[c].before \cap AllIds \subseteq {l.id : l \in listings}
        /\ \A l \in listings :
             /\ l.id \in DOMAIN books
             /\ l.symbol = books[l.id].symbol /\ l.depth = books[l.id].depth
             /\ FromWire(l.venue) = VenueOf(l.id) /\ FromWire(l.sink) = SinkOf(l.id)
    BY DEF CommandRuns, ListIsAnswered
  <2>2. cmd[c].before \cap AllIds' \subseteq cmd[c].before \cap AllIds
    BY <2>1 DEF CallsStay, AllIds
  <2>3. \A l \in listings : l.id \in DOMAIN books' /\ books'[l.id] = books[l.id]
    BY <2>1 DEF BooksStay
  <2>4. cmd[c].before \subseteq Answered'
    BY <2>1 DEF CallsStay
  <2> HIDE DEF listings
  <2>5. listings = cmd'[c].result.listings
    BY DEF listings
  <2>6. QED
    BY <2>1, <2>2, <2>3, <2>4, <2>5 DEF ListIsAnswered
<1>6. QED
  BY <1>1, <1>2, <1>4, <1>5 DEF CommandRuns

(* What is in a table after a step was answered for and has its book.      *)
LEMMA TablesStayAnswered ==
  ASSUME CallsStay, BooksStay, TablesAnswered
  PROVE  TablesAnswered'
BY DEF CallsStay, BooksStay, TablesAnswered

-----------------------------------------------------------------------------
(* How a Start ends: with an answer for which nothing is added, or with    *)
(* its own id added and its book known from then on.                       *)
Book(start, precision) ==
  [symbol |-> start.symbol, depth |-> start.depth, precision |-> precision]

Declines(c) == \E result : Subscribed(c, {}, result) /\ books' = books

Adds(c) ==
  LET id == calls[cmd[c].call].id
  IN /\ Subscribed(c, {id}, Started(id))
     /\ \E precision : books' = Knowing(id, Book(cmd[c].command, precision))

LEMMA StartChecksEffect ==
  ASSUME NEW c, StartChecks(c)
  PROVE  /\ cmd[c].stage = "checking"
         /\ \/ Declines(c)
            \/ /\ UNCHANGED <<idVars, books>>
               /\ cmd' = [cmd EXCEPT ![c] = [cmd[c] EXCEPT !.stage = "fetching"]]
<1>1. books' = books
  BY DEF StartChecks, commandVars
<1>2. QED
  BY <1>1 DEF StartChecks, Declines, Become

LEMMA StartFetchedEffect ==
  ASSUME NEW c, StartFetched(c)
  PROVE  /\ cmd[c].stage = "fetching"
         /\ Declines(c) \/ Adds(c) \/ UNCHANGED <<idVars, cmd, books>>
<1> DEFINE call == calls[cmd[c].call]
           start == cmd[c].command
           responses == PrecisionAnswers(call.venue, start.symbol) \cup Failures(call.venue)
<1>1. PICK response \in responses :
      \E result \in FetchPrecision(call.venue, response, start.symbol) :
        \/ UNCHANGED <<idVars, cmd, books>>
        \/ \E answer : Subscribed(c, {}, answer) /\ books' = books
        \/ /\ Subscribed(c, {call.id}, Started(call.id))
           /\ books' = Knowing(call.id, Book(start, result.value))
  BY DEF StartFetched, Book
<1>2. QED
  BY <1>1 DEF StartFetched, Declines, Adds

-----------------------------------------------------------------------------
(* What the client that steps runs then. *)

(* A command that is done is a List only where the managers were listed.   *)
LEMMA DoneRuns ==
  ASSUME NEW c \in Clients, DOMAIN cmd = Clients, NEW command, NEW result,
         cmd' = [cmd EXCEPT ![c] = Done(command, result)], command.kind # "list"
  PROVE  CommandRuns(c)'
<1>1. cmd'[c].stage = "done" /\ cmd'[c].command = command
  BY DEF Done
<1>2. QED
  BY <1>1 DEF CommandRuns, StartRuns, PairsRun, ListRuns, ListIsAnswered

LEMMA IdleRuns ==
  ASSUME NEW c \in Clients, DOMAIN cmd = Clients, cmd' = [cmd EXCEPT ![c] = Idle]
  PROVE  CommandRuns(c)'
<1>1. cmd'[c].stage = "idle"
  BY DEF Idle
<1>2. QED
  BY <1>1 DEF CommandRuns, StartRuns, PairsRun, ListRuns, ListIsAnswered

LEMMA InvalidRuns ==
  ASSUME NEW c \in Clients, DOMAIN cmd = Clients, cmd' = [cmd EXCEPT ![c] = Invalid]
  PROVE  CommandRuns(c)'
<1>1. /\ cmd' = [cmd EXCEPT ![c] = Done([kind |-> "invalid"], Failure("INVALID_COMMAND"))]
      /\ [kind |-> "invalid"].kind # "list"
  BY DEF Invalid
<1>2. QED
  BY <1>1, DoneRuns

LEMMA StartActs ==
  ASSUME CommandInv, IdInv, CallsStay, NEW c \in Clients, NEW start \in Starts, Start(c, start)
  PROVE  CommandRuns(c)'
<1>1. DOMAIN cmd = Clients /\ start.kind # "list"
  BY DEF CommandInv, Starts
<1> DEFINE venue == FromWire(start.venue)
           sink == FromWire(start.sink)
<1>2. CASE Become(c, Invalid)
  BY <1>1, <1>2, InvalidRuns DEF Become
<1>3. ASSUME venue \in Venues, sink \in Sinks, Subscribe(venue, sink),
             Become(c, IF IdsLeft(counter)
                         THEN [stage |-> "checking", command |-> start, call |-> Len(calls')]
                         ELSE Done(start, Error("kIdsExhausted")))
      PROVE  CommandRuns(c)'
  <2>1. CASE ~IdsLeft(counter)
    BY <1>1, <1>3, <2>1, DoneRuns DEF Become
  <2>2. CASE IdsLeft(counter)
    <3> DEFINE new == [state |-> "subscribing", venue |-> venue, sink |-> sink,
                       id |-> MakeSubscriptionId(counter, venue, sink)]
    <3>1. calls \in Seq({Exhausted} \cup IdCall) /\ calls' = Append(calls, new)
      BY <1>3, <2>2 DEF IdInv, CallsNumbered, Subscribe
    <3>2. new.state = "subscribing" /\ new.venue = venue /\ new.sink = sink
      OBVIOUS
    <3> HIDE DEF new
    <3>3. Len(calls') \in DOMAIN calls' /\ calls'[Len(calls')] = new
      BY <3>1
    <3>4. cmd'[c] = [stage |-> "checking", command |-> start, call |-> Len(calls')]
      BY <1>1, <1>3, <2>2 DEF Become
    <3>5. StartRuns(c)'
      BY <3>2, <3>3, <3>4 DEF StartRuns, HasId
    <3>6. QED
      BY <3>4, <3>5 DEF CommandRuns, PairsRun, ListRuns, ListIsAnswered
  <2>3. QED
    BY <2>1, <2>2
<1>4. QED
  BY <1>2, <1>3, WireKeeps, TwoOfEach, Zenon DEF Start

LEMMA StartEndsRuns ==
  ASSUME CommandInv, NEW c \in Clients, cmd[c].stage \in {"checking", "fetching"},
         Declines(c) \/ Adds(c)
  PROVE  CommandRuns(c)'
<1>1. DOMAIN cmd = Clients /\ cmd[c].command.kind # "list"
  BY DEF CommandInv, CommandRuns, StartRuns, Starts
<1>2. PICK result : cmd' = [cmd EXCEPT ![c] = Done(cmd[c].command, result)]
  BY SubscribedEffect DEF Declines, Adds
<1>3. QED
  BY <1>1, <1>2, DoneRuns

LEMMA StartChecksActs ==
  ASSUME CommandInv, CallsStay, NEW c \in Clients, StartChecks(c)
  PROVE  CommandRuns(c)'
<1>1. CASE Declines(c)
  BY <1>1, StartChecksEffect, StartEndsRuns
<1>2. CASE cmd' = [cmd EXCEPT ![c] = [cmd[c] EXCEPT !.stage = "fetching"]]
  <2>1. StartRuns(c) /\ cmd[c].stage = "checking" /\ DOMAIN cmd = Clients
    BY StartChecksEffect DEF CommandInv, CommandRuns
  <2>2. DOMAIN cmd[c] = {"stage", "command", "call"}
    BY <2>1 DEF StartRuns
  <2>3. /\ DOMAIN cmd'[c] = {"stage", "command", "call"} /\ cmd'[c].stage = "fetching"
        /\ cmd'[c].command = cmd[c].command /\ cmd'[c].call = cmd[c].call
    BY <1>2, <2>1, <2>2
  <2>4. StartRuns(c)'
    BY <2>1, <2>3, Zenon DEF StartRuns, CallsStay
  <2>5. QED
    BY <2>3, <2>4 DEF CommandRuns, PairsRun, ListRuns, ListIsAnswered
<1>3. QED
  BY <1>1, <1>2, StartChecksEffect

LEMMA StartFetchedActs ==
  ASSUME CommandInv, CallsStay, BooksStay, NEW c \in Clients, StartFetched(c)
  PROVE  CommandRuns(c)'
<1>1. CASE Declines(c) \/ Adds(c)
  BY <1>1, StartFetchedEffect, StartEndsRuns
<1>2. CASE cmd' = cmd
  BY <1>2, OthersRun DEF CommandInv
<1>3. QED
  BY <1>1, <1>2, StartFetchedEffect

LEMMA StopActs ==
  ASSUME CommandInv, NEW c \in Clients, NEW stop \in Stops, Stop(c, stop)
  PROVE  CommandRuns(c)'
<1>1. DOMAIN cmd = Clients /\ stop.kind # "list"
  BY DEF CommandInv, Stops
<1>2. \/ cmd' = [cmd EXCEPT ![c] = Invalid]
      \/ \E result : cmd' = [cmd EXCEPT ![c] = Done(stop, result)]
  BY DEF Stop, Become
<1>3. QED
  BY <1>1, <1>2, InvalidRuns, DoneRuns

(* A listing starts with every id there is, and nothing of it found. *)
LEMMA ListingRuns ==
  ASSUME TablesAnswered, Answered' = Answered, NEW c, NEW command,
         command.kind \in {"list", "watch"}, cmd'[c] = Listing(command),
         command.kind = "watch" => ~(command.id \in AllIds /\ SinkOf(command.id) = 0)
  PROVE  CommandRuns(c)'
<1>1. AllIds \subseteq Answered'
  BY DEF TablesAnswered, AllIds
<1>2. /\ DOMAIN cmd'[c] = {"stage", "command", "asked", "found", "before"}
      /\ cmd'[c].stage = "listing" /\ cmd'[c].command = command
      /\ cmd'[c].asked = {} /\ cmd'[c].found = {} /\ cmd'[c].before = AllIds
  BY DEF Listing
<1>3. ListRuns(c)'
  BY <1>1, <1>2 DEF ListRuns, WatchMissed
<1>4. QED
  BY <1>2, <1>3 DEF CommandRuns, StartRuns, PairsRun, ListIsAnswered

LEMMA ListActs ==
  ASSUME CommandInv, NEW c \in Clients, List(c)
  PROVE  CommandRuns(c)'
<1>1. TablesAnswered /\ DOMAIN cmd = Clients /\ Answered' = Answered
  BY DEF CommandInv, List, idVars, Answered
<1>2. cmd'[c] = Listing([kind |-> "list"])
  BY <1>1 DEF List, Become
<1>3. QED
  BY <1>1, <1>2, ListingRuns

LEMMA WatchActs ==
  ASSUME CommandInv, NEW c \in Clients, NEW watch \in Watches, Watch(c, watch)
  PROVE  CommandRuns(c)'
<1>1. TablesAnswered /\ DOMAIN cmd = Clients /\ Answered' = Answered /\ watch.kind = "watch"
  BY DEF CommandInv, Watch, idVars, Answered, Watches
<1>2. \/ cmd' = [cmd EXCEPT ![c] = Done(watch, Ok)]
      \/ ~(watch.id \in AllIds /\ SinkOf(watch.id) = 0) /\ cmd'[c] = Listing(watch)
  BY <1>1 DEF Watch, Become
<1>3. QED
  BY <1>1, <1>2, ListingRuns, DoneRuns

(* What a manager lists are ids of its venue, whose books are known. *)
LEMMA TablesHoldListings ==
  ASSUME IdInv, TablesAnswered, NEW v \in Venues, NEW id \in tables[v]
  PROVE  IsListing(<<v, id>>)
<1>1. PICK k \in Counters, s \in Sinks : id = MakeSubscriptionId(k, v, s)
  BY DEF IdInv, TablesEncoded, Encoded
<1>2. VenueOf(id) = v /\ SinkOf(id) = s
  BY <1>1, IdNames, Bytes
<1>3. id \in DOMAIN books
  BY DEF TablesAnswered
<1>4. QED
  BY <1>1, <1>2, <1>3 DEF IsListing

LEMMA VenueListsActs ==
  ASSUME IdInv, CommandInv, NEW c \in Clients, NEW v \in Venues, VenueLists(c, v)
  PROVE  CommandRuns(c)'
<1>1. /\ cmd[c].stage = "listing" /\ DOMAIN cmd = Clients /\ TablesAnswered /\ ListRuns(c)
      /\ tables' = tables /\ books' = books /\ Answered' = Answered
      /\ cmd'[c] = [cmd[c] EXCEPT !.asked = @ \cup {v}, !.found = Found(c, v)]
  BY DEF CommandInv, CommandRuns, VenueLists, Become, idVars, commandVars, Answered
<1>2. /\ DOMAIN cmd[c] = {"stage", "command", "asked", "found", "before"}
      /\ cmd[c].command.kind \in {"list", "watch"}
      /\ cmd[c].before \subseteq Answered /\ cmd[c].asked \subseteq Venues
      /\ \A l \in cmd[c].found : IsListing(l)
      /\ \A u \in cmd[c].asked :
           \A id \in cmd[c].before \cap tables[u] : <<u, id>> \in cmd[c].found
  BY <1>1 DEF ListRuns
<1>3. /\ DOMAIN cmd'[c] = {"stage", "command", "asked", "found", "before"}
      /\ cmd'[c].stage = "listing" /\ cmd'[c].command = cmd[c].command
      /\ cmd'[c].before = cmd[c].before
      /\ cmd'[c].asked = cmd[c].asked \cup {v} /\ cmd'[c].found = Found(c, v)
  BY <1>1, <1>2
<1>4. \A l \in Found(c, v) : IsListing(l)'
  <2>1. \A l \in Found(c, v) : IsListing(l)
    BY <1>1, <1>2, TablesHoldListings DEF Found
  <2>2. \A l : IsListing(l) => IsListing(l)'
    BY <1>1 DEF IsListing
  <2>3. QED
    BY <2>1, <2>2
<1>5. \A u \in cmd[c].asked \cup {v} :
        \A id \in cmd[c].before \cap tables'[u] : <<u, id>> \in Found(c, v)
  BY <1>1, <1>2 DEF Found
<1>6. ListRuns(c)'
  <2>1. WatchMissed(c)'
    BY <1>1, <1>3 DEF ListRuns, WatchMissed
  <2>2. QED
    BY <1>1, <1>2, <1>3, <1>4, <1>5, <2>1 DEF ListRuns
<1>7. QED
  BY <1>3, <1>6 DEF CommandRuns, StartRuns, PairsRun, ListIsAnswered

(* Every venue was asked, so what is answered is all there was. *)
LEMMA ListedActs ==
  ASSUME IdInv, CommandInv, NEW c \in Clients, Listed(c)
  PROVE  CommandRuns(c)'
<1>1. /\ cmd[c].stage = "listing" /\ DOMAIN cmd = Clients /\ TablesAnswered /\ ListRuns(c)
      /\ tables' = tables /\ books' = books /\ Answered' = Answered /\ cmd[c].asked = Venues
  BY DEF CommandInv, CommandRuns, Listed, idVars, commandVars, Answered
<1>2. /\ cmd[c].before \subseteq Answered
      /\ \A l \in cmd[c].found : IsListing(l)
      /\ \A u \in Venues :
           \A id \in cmd[c].before \cap tables[u] : <<u, id>> \in cmd[c].found
  BY <1>1 DEF ListRuns
<1>3. PICK result :
        /\ cmd'[c] = [stage |-> "done", command |-> cmd[c].command, result |-> result,
                      before |-> cmd[c].before]
        /\ cmd[c].command.kind = "list" =>
             result = [is |-> "subscriptions",
                       listings |-> {Subscription(l[1], l[2]) : l \in cmd[c].found}]
  BY <1>1, Zenon DEF Listed, AnswerListed, Become
<1>4. /\ cmd'[c].stage = "done" /\ cmd'[c].command = cmd[c].command
      /\ cmd'[c].result = result /\ cmd'[c].before = cmd[c].before
  BY <1>3
<1>5. ASSUME cmd[c].command.kind = "list" PROVE ListIsAnswered(c)'
  <2> DEFINE listings == {Subscription(l[1], l[2]) : l \in cmd[c].found}
  <2>1. cmd'[c].result.listings = listings
    BY <1>3, <1>4, <1>5
  <2>2. cmd[c].before \cap AllIds' \subseteq {l.id : l \in listings}
    <3> SUFFICES ASSUME NEW u \in Venues, NEW id \in cmd[c].before \cap tables[u]
                 PROVE  id \in {l.id : l \in listings}
      BY <1>1 DEF AllIds
    <3>1. Subscription(u, id) \in listings
      <4>1. <<u, id>> \in cmd[c].found
        BY <1>2
      <4>2. Subscription(<<u, id>>[1], <<u, id>>[2]) \in listings
        BY <4>1
      <4>3. QED
        BY <4>2
    <3>2. Subscription(u, id).id = id
      BY DEF Subscription
    <3> HIDE DEF listings
    <3>3. QED
      BY <3>1, <3>2
  <2>3. ASSUME NEW l \in listings
        PROVE  /\ l.id \in DOMAIN books
               /\ l.symbol = books[l.id].symbol /\ l.depth = books[l.id].depth
               /\ FromWire(l.venue) = VenueOf(l.id) /\ FromWire(l.sink) = SinkOf(l.id)
    <3>1. PICK f \in cmd[c].found : l = Subscription(f[1], f[2])
      OBVIOUS
    <3>2. IsListing(f)
      BY <1>2
    <3> DEFINE id == f[2]
    <3>3. /\ f[1] = VenueOf(id) /\ id \in DOMAIN books
          /\ VenueOf(id) \in {0, 1} /\ SinkOf(id) \in {0, 1}
      BY <3>2, TwoOfEach DEF IsListing
    <3> HIDE DEF id
    <3>4. /\ l.id = id /\ l.venue = ToWire(VenueOf(id)) /\ l.sink = ToWire(SinkOf(id))
          /\ l.symbol = books[id].symbol /\ l.depth = books[id].depth
      BY <3>1, <3>3 DEF Subscription, id
    <3>5. QED
      BY <3>3, <3>4, WireKeeps
  <2> HIDE DEF listings
  <2>4. QED
    BY <1>1, <1>2, <1>4, <2>1, <2>2, <2>3 DEF ListIsAnswered
<1>6. QED
  BY <1>4, <1>5 DEF CommandRuns, StartRuns, PairsRun, ListRuns, ListIsAnswered

LEMMA ListVenuesActs ==
  ASSUME CommandInv, NEW c \in Clients, ListVenues(c)
  PROVE  CommandRuns(c)'
<1>1. DOMAIN cmd = Clients /\ [kind |-> "list_venues"].kind # "list"
  BY DEF CommandInv
<1>2. \E result : cmd' = [cmd EXCEPT ![c] = Done([kind |-> "list_venues"], result)]
  BY DEF ListVenues, Become
<1>3. QED
  BY <1>1, <1>2, DoneRuns

LEMMA AskingRuns ==
  ASSUME NEW c, {"stage", "command"} \subseteq DOMAIN cmd'[c],
         cmd'[c].stage \in {"asking", "answered"}, cmd'[c].command.kind = "list_pairs"
  PROVE  CommandRuns(c)'
BY DEF CommandRuns, StartRuns, PairsRun, ListRuns, ListIsAnswered

LEMMA ListPairsActs ==
  ASSUME CommandInv, NEW c \in Clients, NEW list \in PairLists, ListPairs(c, list)
  PROVE  CommandRuns(c)'
<1>1. DOMAIN cmd = Clients /\ list.kind = "list_pairs"
  BY DEF CommandInv, PairLists
<1>2. \/ cmd' = [cmd EXCEPT ![c] = Invalid]
      \/ cmd' = [cmd EXCEPT ![c] = ManagerListsPairs(list, FromWire(list.venue))]
  BY DEF ListPairs, Become
<1>3. \/ \E result : ManagerListsPairs(list, FromWire(list.venue)) = Done(list, result)
      \/ ManagerListsPairs(list, FromWire(list.venue)) =
           [stage |-> "asking", command |-> list, since |-> 0]
  BY DEF ManagerListsPairs
<1>4. CASE cmd' = [cmd EXCEPT ![c] = [stage |-> "asking", command |-> list, since |-> 0]]
  <2>1. cmd'[c] = [stage |-> "asking", command |-> list, since |-> 0]
    BY <1>1, <1>4
  <2>2. /\ {"stage", "command"} \subseteq DOMAIN cmd'[c]
        /\ cmd'[c].stage = "asking" /\ cmd'[c].command = list
    BY <2>1
  <2>3. QED
    BY <1>1, <2>2, AskingRuns
<1>5. QED
  BY <1>1, <1>2, <1>3, <1>4, InvalidRuns, DoneRuns

LEMMA VenueAnswersActs ==
  ASSUME CommandInv, NEW c \in Clients, VenueAnswers(c)
  PROVE  CommandRuns(c)'
<1>1. /\ DOMAIN cmd = Clients /\ cmd[c].stage = "asking"
      /\ cmd[c].command.kind = "list_pairs"
  BY DEF CommandInv, CommandRuns, PairsRun, VenueAnswers
<1>2. PICK response :
        cmd' = [cmd EXCEPT ![c] = [stage |-> "answered", command |-> cmd[c].command,
                                   since |-> cmd[c].since, response |-> response]]
  BY DEF VenueAnswers, Become
<1>3. cmd'[c] = [stage |-> "answered", command |-> cmd[c].command,
                 since |-> cmd[c].since, response |-> response]
  BY <1>1, <1>2
<1>4. /\ {"stage", "command"} \subseteq DOMAIN cmd'[c]
      /\ cmd'[c].stage = "answered" /\ cmd'[c].command = cmd[c].command
  BY <1>3
<1>5. QED
  BY <1>1, <1>4, AskingRuns

(* Whatever the venue answered, the client has its answer or the program   *)
(* ends with its command as it was.                                        *)
LEMMA PairsFetchedEffect ==
  ASSUME NEW c, PairsFetched(c)
  PROVE  /\ cmd[c].stage = "answered"
         /\ \/ UNCHANGED cmd
            \/ \E result : cmd' = [cmd EXCEPT ![c] = Done(cmd[c].command, result)]
<1>1. PICK fetched \in FetchPairs(FromWire(cmd[c].command.venue), cmd[c].response) :
        UNCHANGED cmd \/ \E result : Answer(c, result)
  BY DEF PairsFetched
<1>2. QED
  BY <1>1 DEF PairsFetched, Answer, Become

LEMMA PairsFetchedActs ==
  ASSUME CommandInv, CallsStay, BooksStay, NEW c \in Clients, PairsFetched(c)
  PROVE  CommandRuns(c)'
<1>1. DOMAIN cmd = Clients /\ CommandRuns(c) /\ cmd[c].command.kind = "list_pairs"
  BY PairsFetchedEffect DEF CommandInv, CommandRuns, PairsRun
<1>2. CASE cmd' = cmd
  BY <1>1, <1>2, OthersRun
<1>3. ASSUME NEW result, cmd' = [cmd EXCEPT ![c] = Done(cmd[c].command, result)]
      PROVE  CommandRuns(c)'
  BY <1>1, <1>3, DoneRuns
<1>4. QED
  BY <1>2, <1>3, PairsFetchedEffect

(* A tick ages what is under way and nothing else of a command. *)
LEMMA TickActs ==
  ASSUME CommandInv, CallsStay, BooksStay, Tick, NEW c \in Clients
  PROVE  CommandRuns(c)'
<1>1. /\ CommandRuns(c)
      /\ cmd'[c] = IF cmd[c].stage \in {"asking", "answered"}
                     THEN [cmd[c] EXCEPT !.since = Older(@)] ELSE cmd[c]
  BY DEF CommandInv, Tick
<1>2. CASE cmd[c].stage \notin {"asking", "answered"}
  BY <1>1, <1>2, OthersRun
<1>3. CASE cmd[c].stage \in {"asking", "answered"}
  <2>1. {"stage", "command"} \subseteq DOMAIN cmd[c] /\ cmd[c].command.kind = "list_pairs"
    BY <1>1, <1>3 DEF CommandRuns, PairsRun
  <2>2. /\ DOMAIN cmd'[c] = DOMAIN cmd[c]
        /\ cmd'[c].stage = cmd[c].stage /\ cmd'[c].command = cmd[c].command
    BY <1>1, <1>3, <2>1
  <2>3. QED
    BY <1>3, <2>1, <2>2, AskingRuns
<1>4. QED
  BY <1>2, <1>3

-----------------------------------------------------------------------------
(* No step forgets a book, or puts an id in a table whose book is unknown. *)
LEMMA SameBooks ==
  ASSUME books' = books, \A v \in Venues : tables'[v] \subseteq tables[v]
  PROVE  BooksStay
BY DEF BooksStay

LEMMA DeclinesKeepsBooks ==
  ASSUME IdInv, NEW c, Declines(c)
  PROVE  BooksStay
<1>1. books' = books /\ tables' = [tables EXCEPT ![calls[cmd[c].call].venue] = @ \cup {}]
  BY SubscribedEffect DEF Declines
<1>2. DOMAIN tables = Venues
  BY DEF IdInv, TablesEncoded
<1>3. QED
  BY <1>1, <1>2, SameBooks

LEMMA AddsKeepsBooks ==
  ASSUME IdInv, NEW c, Adds(c)
  PROVE  BooksStay
<1> DEFINE id == calls[cmd[c].call].id
<1>1. tables' = [tables EXCEPT ![calls[cmd[c].call].venue] = @ \cup {id}]
  BY SubscribedEffect DEF Adds
<1>2. PICK book : books' = Knowing(id, book)
  BY DEF Adds
<1>3. DOMAIN tables = Venues
  BY DEF IdInv, TablesEncoded
<1> HIDE DEF id
<1>4. \A v \in Venues : tables'[v] \ tables[v] \subseteq {id}
  BY <1>1, <1>3
<1>5. /\ DOMAIN books' = DOMAIN books \cup {id}
      /\ \A known \in DOMAIN books : books'[known] = books[known]
  BY <1>2 DEF Knowing
<1>6. QED
  BY <1>4, <1>5 DEF BooksStay

LEMMA ClientStepsBooks ==
  ASSUME IdInv, NEW c \in Clients, ClientSteps(c)
  PROVE  BooksStay
<1>1. CASE Reply(c) \/ UnknownCommand(c) \/ List(c) \/ Listed(c) \/ ListVenues(c)
  BY <1>1, SameBooks DEF Reply, UnknownCommand, List, Listed, ListVenues, idVars, commandVars
<1>2. CASE VenueAnswers(c) \/ PairsFetched(c) \/ \E v \in Venues : VenueLists(c, v)
  <2>1. books' = books /\ tables' = tables
    BY <1>2 DEF VenueAnswers, PairsFetched, VenueLists, idVars, commandVars
  <2>2. QED
    BY <2>1, SameBooks
<1>3. CASE \E watch \in Watches : Watch(c, watch)
  BY <1>3, SameBooks DEF Watch, idVars, commandVars
<1>4. CASE \E list \in PairLists : ListPairs(c, list)
  BY <1>4, SameBooks DEF ListPairs, idVars, commandVars
<1>5. CASE \E start \in Starts : Start(c, start)
  <2>1. books' = books /\ tables' = tables
    BY <1>5, StartSubscribes DEF Start, Subscribe, idVars, commandVars
  <2>2. QED
    BY <2>1, SameBooks
<1>6. CASE \E stop \in Stops : Stop(c, stop)
  <2>1. PICK stop \in Stops : Stop(c, stop)
    BY <1>6
  <2>2. books' = books
    BY <2>1 DEF Stop, commandVars
  <2>3. tables' = tables \/ \A v \in Venues : tables'[v] \subseteq tables[v]
    BY <2>1, StopUnsubscribes, UnsubscribeStays DEF idVars
  <2>4. QED
    BY <2>2, <2>3, SameBooks
<1>7. CASE StartChecks(c)
  <2>1. Declines(c) \/ (tables' = tables /\ books' = books)
    BY <1>7, StartChecksEffect DEF idVars
  <2>2. QED
    BY <2>1, DeclinesKeepsBooks, SameBooks
<1>8. CASE StartFetched(c)
  <2>1. Declines(c) \/ Adds(c) \/ (tables' = tables /\ books' = books)
    BY <1>8, StartFetchedEffect DEF idVars
  <2>2. QED
    BY <2>1, DeclinesKeepsBooks, AddsKeepsBooks, SameBooks
<1>9. QED
  BY <1>1, <1>2, <1>3, <1>4, <1>5, <1>6, <1>7, <1>8 DEF ClientSteps

(* The step of one client leaves the commands of the others alone. *)
LEMMA ClientStepsAlone ==
  ASSUME NEW c \in Clients, DOMAIN cmd = Clients, ClientSteps(c)
  PROVE  DOMAIN cmd' = Clients /\ \A d \in Clients \ {c} : cmd'[d] = cmd[d]
<1>1. cmd' = cmd \/ \E next : cmd' = [cmd EXCEPT ![c] = next]
  <2>1. CASE Reply(c) \/ UnknownCommand(c) \/ List(c) \/ Listed(c) \/ ListVenues(c)
    BY <2>1 DEF Reply, UnknownCommand, List, Listed, AnswerListed, ListVenues, Become
  <2>2. CASE VenueAnswers(c) \/ \E v \in Venues : VenueLists(c, v)
    BY <2>2 DEF VenueAnswers, VenueLists, Become
  <2>3. CASE PairsFetched(c)
    BY <2>3, PairsFetchedEffect
  <2>4. CASE \E watch \in Watches : Watch(c, watch)
    BY <2>4 DEF Watch, Become
  <2>5. CASE \E list \in PairLists : ListPairs(c, list)
    BY <2>5 DEF ListPairs, Become
  <2>6. CASE \E start \in Starts : Start(c, start)
    BY <2>6 DEF Start, Become
  <2>7. CASE \E stop \in Stops : Stop(c, stop)
    BY <2>7 DEF Stop, Become
  <2>8. CASE StartChecks(c)
    BY <2>8, StartChecksEffect, SubscribedEffect DEF Declines
  <2>9. CASE StartFetched(c)
    BY <2>9, StartFetchedEffect, SubscribedEffect DEF Declines, Adds
  <2>10. QED
    BY <2>1, <2>2, <2>3, <2>4, <2>5, <2>6, <2>7, <2>8, <2>9 DEF ClientSteps
<1>2. QED
  BY <1>1

LEMMA ClientStepsRuns ==
  ASSUME IdInv, CommandInv, CallsStay, BooksStay, NEW c \in Clients, ClientSteps(c)
  PROVE  CommandRuns(c)'
<1>1. CASE Reply(c) \/ UnknownCommand(c)
  <2>1. cmd' = [cmd EXCEPT ![c] = Idle] \/ cmd' = [cmd EXCEPT ![c] = Invalid]
    BY <1>1 DEF Reply, UnknownCommand, Become
  <2>2. QED
    BY <2>1, IdleRuns, InvalidRuns DEF CommandInv
<1>2. CASE List(c) \/ Listed(c) \/ ListVenues(c) \/ VenueAnswers(c) \/ PairsFetched(c)
  BY <1>2, ListActs, ListedActs, ListVenuesActs, VenueAnswersActs, PairsFetchedActs
<1>3. CASE (\E v \in Venues : VenueLists(c, v)) \/ \E watch \in Watches : Watch(c, watch)
  BY <1>3, VenueListsActs, WatchActs
<1>4. CASE \E list \in PairLists : ListPairs(c, list)
  BY <1>4, ListPairsActs
<1>5. CASE \E start \in Starts : Start(c, start)
  BY <1>5, StartActs
<1>6. CASE \E stop \in Stops : Stop(c, stop)
  BY <1>6, StopActs
<1>7. CASE StartChecks(c) \/ StartFetched(c)
  BY <1>7, StartChecksActs, StartFetchedActs
<1>8. QED
  BY <1>1, <1>2, <1>3, <1>4, <1>5, <1>6, <1>7 DEF ClientSteps

(* At the start no client runs a command and no id is handed out. *)
LEMMA InitCommandInv == CommandsInit => CommandInv
<1> SUFFICES ASSUME CommandsInit PROVE CommandInv
  OBVIOUS
<1>1. TablesAnswered
  BY DEF CommandsInit, Init, TablesAnswered
<1>2. DOMAIN cmd = Clients /\ \A c \in Clients : cmd[c].stage = "idle"
  BY DEF CommandsInit, Idle
<1>3. \A c \in Clients : CommandRuns(c)
  BY <1>2 DEF CommandRuns, StartRuns, PairsRun, ListRuns, ListIsAnswered
<1>4. QED
  BY <1>1, <1>2, <1>3 DEF CommandInv

(* A step keeps it of the client that steps, and of the others. *)
LEMMA CommandInvStep ==
  IdInv /\ CommandInv /\ [CommandsNext]_commandsVars => IdInv' /\ CommandInv'
<1> SUFFICES ASSUME IdInv, CommandInv, [CommandsNext]_commandsVars
             PROVE  IdInv' /\ CommandInv'
  OBVIOUS
<1>1. [Next]_idVars
  BY CommandsCall
<1>2. IdInv' /\ CallsStay
  BY <1>1, IdInvStep, NextStays
<1>3. TablesAnswered /\ DOMAIN cmd = Clients /\ \A c \in Clients : CommandRuns(c)
  BY DEF CommandInv
<1>4. ASSUME NEW c \in Clients, ClientSteps(c) PROVE CommandInv'
  <2>1. BooksStay
    BY <1>4, ClientStepsBooks
  <2>2. DOMAIN cmd' = Clients /\ \A d \in Clients \ {c} : cmd'[d] = cmd[d]
    BY <1>3, <1>4, ClientStepsAlone
  <2>3. \A d \in Clients \ {c} : CommandRuns(d)'
    BY <1>2, <1>3, <2>1, <2>2, OthersRun
  <2>4. CommandRuns(c)'
    BY <1>2, <1>4, <2>1, ClientStepsRuns
  <2>5. QED
    BY <1>2, <1>3, <2>1, <2>2, <2>3, <2>4, TablesStayAnswered DEF CommandInv
<1>5. ASSUME UNCHANGED <<idVars, books>>, DOMAIN cmd' = Clients,
             \A c \in Clients : CallsStay /\ BooksStay => CommandRuns(c)'
      PROVE  CommandInv'
  <2>1. BooksStay
    BY <1>5, SameBooks DEF idVars
  <2>2. QED
    BY <1>2, <1>3, <1>5, <2>1, TablesStayAnswered DEF CommandInv
<1>6. CASE (\E v \in Venues, symbol \in Symbols : Change(v, symbol)) \/ UNCHANGED commandsVars
  <2>1. UNCHANGED <<idVars, books, cmd>>
    BY <1>6 DEF Change, commandsVars, commandVars
  <2>2. \A c \in Clients : CallsStay /\ BooksStay => CommandRuns(c)'
    BY <1>3, <2>1, OthersRun
  <2>3. QED
    BY <1>2, <1>3, <1>5, <2>1, <2>2
<1>7. CASE Tick
  <2>1. UNCHANGED <<idVars, books>> /\ DOMAIN cmd' = Clients
    BY <1>7 DEF Tick
  <2>2. \A c \in Clients : CallsStay /\ BooksStay => CommandRuns(c)'
    BY <1>7, TickActs
  <2>3. QED
    BY <1>2, <1>5, <2>1, <2>2
<1>8. QED
  BY <1>2, <1>4, <1>6, <1>7 DEF CommandsNext

(* What the invariant says of a List that is answered. *)
LEMMA CommandInvLists == CommandInv => ListingsHold
BY DEF CommandInv, CommandRuns, ListIsAnswered, ListingsHold

(* Every command's use of the ids is one the Router allows: the commands   *)
(* of the clients, however they overlap, implement the Router's ids.       *)
THEOREM CommandsUseIds == CommandsSpec => Spec
<1>1. CommandsInit => Init
  BY DEF CommandsInit
<1>2. QED
  BY <1>1, InitIdInv, InitCommandInv, CommandInvStep, CommandsCall, PTL DEF CommandsSpec, Spec

(* Server::List() (server.cc:507) misses no subscription that was there    *)
(* from beginning to end, though Router::List() asks the managers one      *)
(* after the other, and reports each with its own venue, sink and book.    *)
THEOREM ListsAreWhole == CommandsSpec => []ListingsHold
<1>1. CommandsInit => IdInv
  BY InitIdInv DEF CommandsInit
<1>2. QED
  BY <1>1, InitCommandInv, CommandInvStep, CommandInvLists, PTL DEF CommandsSpec

(* The ids that clients are handed and name sort and lead as Router's do.  *)
THEOREM CommandsKeepIds == CommandsSpec => [](IdsInOrder /\ IdsReachTheirManager)
BY CommandsUseIds, IdsSort, IdsLead, PTL

-----------------------------------------------------------------------------
(* What becomes of the venues' answers. *)

(* A decimal text's dot is the first there is. *)
LEMMA DotIs ==
  ASSUME NEW text, NEW k \in 1..(Len(text) + 1), Len(text) \in Nat,
         \A i \in 1..(k - 1) : text[i] # ".", k = Len(text) + 1 \/ text[k] = "."
  PROVE  DotOf(text) = k
<1> DEFINE Is(n) == /\ \A i \in 1..(n - 1) : text[i] # "."
                    /\ n = Len(text) + 1 \/ text[n] = "."
<1>1. Is(k)
  OBVIOUS
<1>2. ASSUME NEW n \in 1..(Len(text) + 1), Is(n) PROVE n = k
  <2>1. n < k => text[n] = "." /\ n \in 1..(k - 1)
    BY <1>2
  <2>2. k < n => text[k] = "." /\ k \in 1..(n - 1)
    BY <1>2
  <2>3. QED
    BY <1>2, <2>1, <2>2
<1>3. DotOf(text) = CHOOSE n \in 1..(Len(text) + 1) : Is(n)
  BY DEF DotOf
<1> HIDE DEF Is
<1>4. QED
  BY <1>1, <1>2, <1>3

(* Its fraction ends at the last character that is no zero. *)
LEMMA LastIs ==
  ASSUME NEW text, NEW k \in Nat, Len(text) \in Nat,
         k \in 1..Len(text) /\ text[k] # "0",
         \A i \in (k + 1)..Len(text) : text[i] = "0"
  PROVE  FractionDigits(text) = IF k - DotOf(text) < 0 THEN 0 ELSE k - DotOf(text)
<1> DEFINE last == {0} \cup {i \in 1..Len(text) : text[i] # "0"}
<1>1. last \subseteq Nat /\ k \in last /\ \A j \in last : j <= k
  OBVIOUS
<1>2. FractionDigits(text) =
        LET place == (CHOOSE i \in last : \A j \in last : j <= i) - DotOf(text)
        IN IF place < 0 THEN 0 ELSE place
  BY DEF FractionDigits
<1> HIDE DEF last
<1>3. (CHOOSE i \in last : \A j \in last : j <= i) = k
  <2> DEFINE Is(i) == \A j \in last : j <= i
  <2>1. Is(k)
    BY <1>1
  <2>2. ASSUME NEW i \in last, Is(i) PROVE i = k
    <3>1. i \in Nat /\ i <= k /\ k <= i
      BY <1>1, <2>2
    <3>2. QED
      BY <3>1
  <2> HIDE DEF Is
  <2>3. (CHOOSE i \in last : Is(i)) = k
    BY <1>1, <2>1, <2>2
  <2>4. QED
    BY <2>3 DEF Is
<1>4. QED
  BY <1>2, <1>3

(* A step size at some number of decimals says how many it has. *)
LEMMA StepsSayDecimals ==
  ASSUME NEW n \in Nat
  PROVE  FractionDigits(StepText(n)) = n /\ StepText(n) # <<>>
<1>1. CASE n = 0
  <2> DEFINE text == <<"1">>
  <2>1. StepText(n) = text
    BY <1>1 DEF StepText
  <2>2. Len(text) = 1 /\ text[1] = "1"
    OBVIOUS
  <2> HIDE DEF text
  <2>3. DotOf(text) = 2
    BY <2>2, DotIs
  <2>4. FractionDigits(text) = IF 1 - DotOf(text) < 0 THEN 0 ELSE 1 - DotOf(text)
    BY <2>2, LastIs
  <2>5. text # <<>>
    BY <2>2
  <2>6. QED
    BY <1>1, <2>1, <2>3, <2>4, <2>5
<1>2. CASE n # 0
  <2> DEFINE middle == [i \in 1..n |-> IF i = n THEN "1" ELSE "0"]
             text == <<"0", ".">> \o middle \o <<"0">>
  <2>1. StepText(n) = text
    BY <1>2 DEF StepText
  <2>2. middle \in Seq({"0", "1", "."}) /\ Len(middle) = n
    OBVIOUS
  <2>3. \A i \in 1..n : middle[i] = IF i = n THEN "1" ELSE "0"
    OBVIOUS
  <2> HIDE DEF middle
  <2> DEFINE head == <<"0", ".">> \o middle
  <2>4. /\ head \in Seq({"0", "1", "."}) /\ Len(head) = n + 2
        /\ head[1] = "0" /\ head[2] = "." /\ \A i \in 1..n : head[i + 2] = middle[i]
    BY <2>2
  <2>5. text = head \o <<"0">>
    OBVIOUS
  <2> HIDE DEF head, text
  <2>6. /\ Len(text) = n + 3 /\ text[n + 3] = "0"
        /\ \A i \in 1..(n + 2) : text[i] = head[i]
    BY <2>4, <2>5
  <2>7. text[1] = "0" /\ text[2] = "."
    BY <2>4, <2>6
  <2>8. text[n + 2] = "1"
    <3>1. n \in 1..n /\ n + 2 \in 1..(n + 2)
      BY <1>2
    <3>2. text[n + 2] = head[n + 2] /\ head[n + 2] = middle[n] /\ middle[n] = "1"
      BY <3>1, <2>3, <2>4, <2>6
    <3>3. QED
      BY <3>2
  <2>9. DotOf(text) = 2
    BY <2>6, <2>7, DotIs
  <2>10. \A i \in (n + 3)..Len(text) : text[i] = "0"
    BY <2>6
  <2>11. FractionDigits(text) = IF n + 2 - DotOf(text) < 0 THEN 0 ELSE n + 2 - DotOf(text)
    <3> DEFINE k == n + 2
    <3>1. k \in Nat /\ k \in 1..Len(text) /\ k + 1 = n + 3
      BY <2>6
    <3>2. text[k] # "0" /\ \A i \in (k + 1)..Len(text) : text[i] = "0"
      BY <2>8, <2>10, <3>1
    <3>3. Len(text) \in Nat
      BY <2>6
    <3> HIDE DEF k
    <3>4. FractionDigits(text) = IF k - DotOf(text) < 0 THEN 0 ELSE k - DotOf(text)
      BY <3>1, <3>2, <3>3, LastIs
    <3>5. QED
      BY <2>9, <3>4 DEF k
  <2>12. text # <<>>
    BY <2>6
  <2>13. QED
    BY <2>1, <2>9, <2>11, <2>12
<1>3. QED
  BY <1>1, <1>2

(* Documents differ if their kinds do, and responses if their statuses do. *)
LEMMA DocumentsDiffer ==
  /\ \A document : document.kind \in {"string", "array", "object", "uint"} => document # Missing
  /\ \A status, body : status # 0 => Response(status, body) # Unreachable
  /\ Unknown # Throws /\ Aborts # Throws /\ Aborts # Unknown
  /\ \A value : Returns(value) \notin {Unknown, Throws, Aborts}
<1>1. \A document : document.kind \in {"string", "array", "object", "uint"} => document # Missing
  BY DEF Missing
<1>2. \A status, body : status # 0 => Response(status, body) # Unreachable
  <2> SUFFICES ASSUME NEW status, NEW body, status # 0 PROVE Response(status, body) # Unreachable
    OBVIOUS
  <2>1. Response(status, body).status = status /\ Unreachable.status = 0
    BY DEF Response, Unreachable
  <2>2. QED
    BY <2>1
<1>3. Unknown.is = "UnknownSymbolError" /\ Throws.is = "std::exception" /\ Aborts.is = "abort"
  BY DEF Unknown, Throws, Aborts
<1>4. \A value : Returns(value).is = "value"
  BY DEF Returns
<1>5. QED
  BY <1>1, <1>2, <1>3, <1>4

(* A member that is a bool is set if it is true. *)
LEMMA BoolIsSet ==
  ASSUME NEW body, NEW name, NEW b \in BOOLEAN, FindJsonMember(body, name) = JsonBool(b)
  PROVE  IsSet(body, name) = b
<1>1. CASE b = TRUE
  BY <1>1, Zenon DEF IsSet
<1>2. CASE b = FALSE
  <2>1. JsonBool(FALSE).bool = FALSE /\ JsonBool(TRUE).bool = TRUE
    BY DEF JsonBool
  <2>2. JsonBool(FALSE) # JsonBool(TRUE)
    BY <2>1, Zenon
  <2>3. QED
    BY <1>2, <2>2, Zenon DEF IsSet
<1>3. QED
  BY <1>1, <1>2

(* A product streams if and only if it is listed as online: neither        *)
(* delisted, disabled nor another's alias.                                 *)
LEMMA OnlineStreams ==
  ASSUME NEW symbol, NEW state \in ListedAs(Coinbase), state # "absent", NEW own \in BOOLEAN
  PROVE  WhyUnstreamable(Product(symbol, state, own)) = IF state = "online" THEN "none" ELSE "why"
<1> DEFINE body == Product(symbol, state, own)
<1>1. state \in {"online", "offline", "disabled", "alias"}
  BY DEF ListedAs, Coinbase, Kraken
<1>2. FindJsonMember(body, "product_id") = JsonString(symbol)
  BY DEF Product, JsonObject, FindJsonMember
<1>3. FindJsonMember(body, "status") = Word(IF state = "offline" THEN "delisted" ELSE "online")
  BY DEF Product, JsonObject, FindJsonMember
<1>4. FindJsonMember(body, "is_disabled") = JsonBool(state = "disabled" /\ own)
  BY DEF Product, JsonObject, FindJsonMember
<1>5. FindJsonMember(body, "trading_disabled") = JsonBool(state = "disabled" /\ ~own)
  BY DEF Product, JsonObject, FindJsonMember
<1>6. FindJsonMember(body, "alias") = JsonString(IF state = "alias" THEN <<"BTC-USD">> ELSE <<>>)
  BY DEF Product, JsonObject, FindJsonMember
<1> HIDE DEF body
<1>7. ~RequireThrows(body, "product_id", "string")
  BY <1>2 DEF RequireThrows, JsonString
<1>8. /\ ~FindJsonStringThrows(body, "status")
      /\ FindJsonString(body, "status") = <<IF state = "offline" THEN "delisted" ELSE "online">>
  BY <1>3 DEF FindJsonStringThrows, FindJsonString, Word, JsonString
<1>9. IsSet(body, "is_disabled") = (state = "disabled" /\ own)
  BY <1>4, BoolIsSet
<1>10. IsSet(body, "trading_disabled") = (state = "disabled" /\ ~own)
  BY <1>5, BoolIsSet
<1>11. /\ ~FindJsonStringThrows(body, "alias")
       /\ FindJsonString(body, "alias") = IF state = "alias" THEN <<"BTC-USD">> ELSE <<>>
  BY <1>6 DEF FindJsonStringThrows, FindJsonString, JsonString
<1>12. <<"delisted">> # <<"online">> /\ <<"BTC-USD">> # <<>>
  OBVIOUS
<1>13. WhyUnstreamable(body) = IF state = "online" THEN "none" ELSE "why"
  <2>1. CASE state = "offline"
    BY <2>1, <1>7, <1>8, <1>12 DEF WhyUnstreamable
  <2>2. CASE state = "disabled"
    BY <2>2, <1>7, <1>8, <1>9, <1>10, <1>12 DEF WhyUnstreamable
  <2>3. CASE state \in {"online", "alias"}
    BY <2>3, <1>7, <1>8, <1>9, <1>10, <1>11, <1>12 DEF WhyUnstreamable
  <2>4. QED
    BY <1>1, <2>1, <2>2, <2>3
<1>14. QED
  BY <1>13 DEF body

(* Coinbase's answer about a product that it lists, whether the product has *)
(* a step of its own or the currencies' steps are to be used.              *)
LEMMA ProductPrecision ==
  ASSUME NEW symbol, NEW state \in ListedAs(Coinbase), state # "absent", NEW own \in BOOLEAN
  PROVE  FetchProductPrecision(Response(200, Product(symbol, state, own))) =
           IF state = "online" THEN Returns(Precision) ELSE Unknown
<1> DEFINE body == Product(symbol, state, own)
<1>1. WhyUnstreamable(body) = IF state = "online" THEN "none" ELSE "why"
  BY OnlineStreams
<1>2. body.kind = "object"
  BY DEF Product, JsonObject
<1>3. FindJsonMember(body, "price_increment") =
        JsonString(IF own THEN StepText(Precision.price) ELSE <<>>)
  BY DEF Product, JsonObject, FindJsonMember
<1>4. FindJsonMember(body, "quote_increment") =
        JsonString(StepText(IF own THEN 0 ELSE Precision.price))
  BY DEF Product, JsonObject, FindJsonMember
<1>5. FindJsonMember(body, "base_increment") = JsonString(StepText(Precision.qty))
  BY DEF Product, JsonObject, FindJsonMember
<1> HIDE DEF body
<1>6. /\ ~FindJsonStringThrows(body, "price_increment")
      /\ FindJsonString(body, "price_increment") = IF own THEN StepText(Precision.price) ELSE <<>>
  BY <1>3 DEF FindJsonStringThrows, FindJsonString, JsonString
<1>7. /\ ~RequireThrows(body, "quote_increment", "string")
      /\ RequireJsonString(body, "quote_increment") =
           StepText(IF own THEN 0 ELSE Precision.price)
  BY <1>4 DEF RequireThrows, RequireJsonString, JsonString
<1>8. /\ ~RequireThrows(body, "base_increment", "string")
      /\ RequireJsonString(body, "base_increment") = StepText(Precision.qty)
  BY <1>5 DEF RequireThrows, RequireJsonString, JsonString
<1>9. /\ Precision.price \in Nat /\ Precision.qty \in Nat
      /\ Precision = [price |-> Precision.price, qty |-> Precision.qty]
  BY CommandsAssumption DEF CommandsAssumption
<1>10. FractionDigits(StepText(Precision.price)) = Precision.price
       /\ StepText(Precision.price) # <<>>
       /\ FractionDigits(StepText(Precision.qty)) = Precision.qty
  BY <1>9, StepsSayDecimals
<1> DEFINE chosen == IF FindJsonString(body, "price_increment") # <<>>
                       THEN FindJsonString(body, "price_increment")
                       ELSE RequireJsonString(body, "quote_increment")
<1>11. chosen = StepText(Precision.price)
  BY <1>6, <1>7, <1>10
<1>12. ParseProductPrecision(body) = IF state = "online" THEN Returns(Precision) ELSE Unknown
  <2>1. ~ParseObjectThrows(body)
    BY <1>2 DEF ParseObjectThrows
  <2>2. CASE state # "online"
    BY <1>1, <2>1, <2>2 DEF ParseProductPrecision
  <2>3. CASE state = "online"
    <3>1. WhyUnstreamable(body) = "none"
      BY <1>1, <2>3
    <3>2. ParseProductPrecision(body) =
            Returns([price |-> FractionDigits(chosen),
                     qty |-> FractionDigits(RequireJsonString(body, "base_increment"))])
      BY <2>1, <3>1, <1>6, <1>7, <1>8 DEF ParseProductPrecision
    <3> HIDE DEF chosen
    <3>3. QED
      BY <2>3, <3>2, <1>8, <1>9, <1>10, <1>11
  <2>4. QED
    BY <2>2, <2>3
<1>13. /\ Response(200, body) # Unreachable
       /\ Response(200, body).status = 200 /\ Response(200, body).body = body
  BY DocumentsDiffer DEF Response
<1>14. QED
  BY <1>12, <1>13 DEF FetchProductPrecision, body

(* Kraken's envelope: its errors, and its pairs each with its decimals. *)
LEMMA EnvelopeHolds ==
  ASSUME NEW errors, NEW symbols
  PROVE  /\ Envelope(errors, symbols) # Unreachable
         /\ FindJsonMember(Envelope(errors, symbols).body, "error") = JsonArray(errors)
         /\ FindJsonMember(Envelope(errors, symbols).body, "result") =
              JsonObject([s \in symbols |-> Pair(listed[Kraken][s])])
<1> DEFINE members == [error |-> JsonArray(errors),
                       result |-> JsonObject([s \in symbols |-> Pair(listed[Kraken][s])])]
<1>1. Envelope(errors, symbols) = Response(200, JsonObject(members))
  BY DEF Envelope
<1>2. /\ DOMAIN members = {"error", "result"} /\ members.error = JsonArray(errors)
      /\ members.result = JsonObject([s \in symbols |-> Pair(listed[Kraken][s])])
  OBVIOUS
<1> HIDE DEF members
<1>3. /\ Response(200, JsonObject(members)).body = JsonObject(members)
      /\ JsonObject(members).kind = "object" /\ JsonObject(members).members = members
  BY DEF Response, JsonObject
<1>4. Response(200, JsonObject(members)) # Unreachable
  BY DocumentsDiffer
<1>5. QED
  BY <1>1, <1>2, <1>3, <1>4 DEF FindJsonMember

LEMMA PairHolds ==
  ASSUME NEW state
  PROVE  /\ Pair(state) # Missing
         /\ FindJsonMember(Pair(state), "pair_decimals").number = Precision.price
         /\ FindJsonMember(Pair(state), "lot_decimals").number = Precision.qty
         /\ FindJsonMember(Pair(state), "status") =
              Word(IF state = "offline" THEN "cancel_only" ELSE "online")
<1>1. Pair(state).kind = "object"
  BY DEF Pair, JsonObject
<1>2. QED
  BY <1>1, DocumentsDiffer DEF Pair, JsonObject, JsonUint, FindJsonMember

(* With its errors empty, it has the pairs there are and reports none unknown. *)
LEMMA NoErrors ==
  ASSUME NEW document, FindJsonMember(document, "error") = JsonArray(<<>>)
  PROVE  ~ReportsUnknownPair(document) /\ ThrowOnRestError(document) = {"returns"}
<1>1. JsonArray(<<>>).kind = "array" /\ JsonArray(<<>>).values = <<>> /\ DOMAIN <<>> = {}
  BY DEF JsonArray
<1>2. QED
  BY <1>1 DEF ReportsUnknownPair, ThrowOnRestError

LEMMA PairPrecision ==
  ASSUME NEW symbol, NEW response, response = Envelope(<<>>, {symbol})
  PROVE  FetchPairPrecision(response, symbol) = {Returns(Precision)}
<1> DEFINE pair == FindJsonMember(FindJsonMember(response.body, "result"), symbol)
           pairs1 == [s \in {symbol} |-> Pair(listed[Kraken][s])]
<1>1. /\ response # Unreachable /\ ~ReportsUnknownPair(response.body)
      /\ ThrowOnRestError(response.body) = {"returns"}
  BY EnvelopeHolds, NoErrors
<1>2. pair = Pair(listed[Kraken][symbol])
  <2>1. FindJsonMember(response.body, "result") = JsonObject(pairs1)
    BY EnvelopeHolds
  <2>2. JsonObject(pairs1).kind = "object" /\ JsonObject(pairs1).members = pairs1
    BY DEF JsonObject
  <2>3. symbol \in DOMAIN pairs1 /\ pairs1[symbol] = Pair(listed[Kraken][symbol])
    OBVIOUS
  <2> HIDE DEF pairs1
  <2>4. QED
    BY <2>1, <2>2, <2>3 DEF FindJsonMember
<1> HIDE DEF pair
<1>3. Precision = [price |-> Precision.price, qty |-> Precision.qty]
  BY CommandsAssumption DEF CommandsAssumption
<1>4. /\ pair # Missing
      /\ [price |-> FindJsonMember(pair, "pair_decimals").number,
          qty |-> FindJsonMember(pair, "lot_decimals").number] = Precision
  BY <1>2, <1>3, PairHolds
<1>5. QED
  BY <1>1, <1>4 DEF FetchPairPrecision, pair

(* Every other answer of Kraken's throws, aborts or knows no such pair. *)
LEMMA PairPrecisionOrNone ==
  ASSUME NEW symbol \in Symbols, NEW response \in PrecisionAnswers(Kraken, symbol) \cup Failures(Kraken)
  PROVE  FetchPairPrecision(response, symbol) \subseteq {Throws, Unknown, Aborts, Returns(Precision)}
<1>1. CASE response = Envelope(<<>>, {symbol})
  BY <1>1, PairPrecision
<1>2. CASE response # Envelope(<<>>, {symbol})
  <2> DEFINE result == FindJsonMember(response.body, "result")
  <2>1. \/ response = Unreachable
        \/ response = Response(200, JsonNull)
        \/ \E errors : response = Envelope(errors, {})
    BY <1>2 DEF PrecisionAnswers, Failures, Kraken
  <2>2. response # Unreachable => FindJsonMember(result, symbol) = Missing
    <3>1. CASE response = Response(200, JsonNull)
      <4>1. response.body = JsonNull /\ JsonNull.kind = "null" /\ Missing.kind = "missing"
        BY <3>1 DEF Response, JsonNull, Missing
      <4>2. QED
        BY <4>1 DEF FindJsonMember
    <3>2. ASSUME NEW errors, response = Envelope(errors, {}) PROVE FindJsonMember(result, symbol) = Missing
      <4> DEFINE none == [s \in {} |-> Pair(listed[Kraken][s])]
      <4>1. result = JsonObject(none) /\ DOMAIN none = {}
        BY <3>2, EnvelopeHolds
      <4>2. JsonObject(none).members = none
        BY DEF JsonObject
      <4> HIDE DEF none, result
      <4>3. QED
        BY <4>1, <4>2 DEF FindJsonMember
    <3>3. QED
      BY <2>1, <3>1, <3>2
  <2>3. QED
    BY <2>2 DEF FetchPairPrecision, ThrowOnRestError
<1>3. QED
  BY <1>1, <1>2

(* What a Start may be told of a pair: its very precision, if Coinbase     *)
(* lists it as online, and that there is none, if Coinbase does not.       *)
LEMMA PrecisionsFetched ==
  ASSUME NEW v \in Venues, NEW symbol \in Symbols, listed[v][symbol] \in ListedAs(v),
         NEW response \in PrecisionAnswers(v, symbol) \cup Failures(v),
         NEW result \in FetchPrecision(v, response, symbol)
  PROVE  /\ result \in {Throws, Unknown, Aborts, Returns(Precision)}
         /\ v = Coinbase /\ result = Unknown => listed[v][symbol] # "online"
         /\ v = Coinbase /\ result = Returns(Precision) => listed[v][symbol] = "online"
<1>1. CASE v = Kraken
  <2>1. result \in FetchPairPrecision(response, symbol)
    BY <1>1 DEF FetchPrecision
  <2>2. Kraken # Coinbase
    BY DEF Kraken, Coinbase
  <2>3. QED
    BY <1>1, <2>1, <2>2, PairPrecisionOrNone
<1>2. CASE v = Coinbase
  <2> DEFINE state == listed[v][symbol]
  <2>1. v # Kraken /\ result = FetchProductPrecision(response)
    BY <1>2 DEF FetchPrecision, Kraken, Coinbase
  <2>2. Unknown # Throws /\ Returns(Precision) \notin {Unknown, Throws, Aborts}
    BY DocumentsDiffer
  <2>3. CASE response \in Failures(v)
    <3>1. JsonNull.kind # "object"
      BY DEF JsonNull
    <3>2. /\ \A body : Response(200, body).status = 200 /\ Response(200, body).body = body
          /\ \A body : Response(500, body).status = 500
      BY DEF Response
    <3>3. response = Unreachable \/ response = Response(200, JsonNull)
            \/ response = Response(500, JsonNull)
      BY <2>1, <2>3 DEF Failures
    <3>4. ParseProductPrecision(JsonNull) = Throws
      BY <3>1 DEF ParseProductPrecision, ParseObjectThrows
    <3>5. result = Throws
      BY <2>1, <3>2, <3>3, <3>4 DEF FetchProductPrecision
    <3>6. QED
      BY <2>2, <3>5
  <2>4. CASE response \in PrecisionAnswers(v, symbol) /\ state = "absent"
    <3>1. response = Response(404, JsonNull)
      BY <2>1, <2>4 DEF PrecisionAnswers
    <3>2. response.status = 404 /\ response # Unreachable
      BY <3>1, DocumentsDiffer DEF Response
    <3>3. result = Unknown
      BY <2>1, <3>2 DEF FetchProductPrecision
    <3>4. QED
      BY <2>2, <2>4, <3>3
  <2>5. CASE response \in PrecisionAnswers(v, symbol) /\ state # "absent"
    <3>1. PICK own \in BOOLEAN : response = Response(200, Product(symbol, state, own))
      BY <2>1, <2>5 DEF PrecisionAnswers
    <3>2. result = IF state = "online" THEN Returns(Precision) ELSE Unknown
      BY <1>2, <2>1, <2>5, <3>1, ProductPrecision
    <3>3. QED
      BY <2>2, <3>2
  <2>6. QED
    BY <2>3, <2>4, <2>5
<1>3. QED
  BY <1>1, <1>2, TwoOfEach DEF Kraken, Coinbase

(* A pair that is online has its precision in every answer. *)
LEMMA OnlineHasPrecision ==
  ASSUME NEW v \in Venues, NEW symbol \in Symbols, listed[v][symbol] = "online",
         NEW response \in PrecisionAnswers(v, symbol)
  PROVE  FetchPrecision(v, response, symbol) = {Returns(Precision)}
<1>1. CASE v = Kraken
  <2>1. response = Envelope(<<>>, {symbol})
    BY <1>1 DEF PrecisionAnswers
  <2>2. QED
    BY <1>1, <2>1, PairPrecision DEF FetchPrecision
<1>2. CASE v = Coinbase
  <2>1. v # Kraken /\ "online" \in ListedAs(Coinbase)
    BY <1>2 DEF Kraken, Coinbase, ListedAs
  <2>2. PICK own \in BOOLEAN : response = Response(200, Product(symbol, "online", own))
    BY <2>1 DEF PrecisionAnswers
  <2>3. FetchProductPrecision(response) = Returns(Precision)
    BY <2>1, <2>2, ProductPrecision
  <2>4. QED
    BY <2>1, <2>3 DEF FetchPrecision
<1>3. QED
  BY <1>1, <1>2, TwoOfEach DEF Kraken, Coinbase

-----------------------------------------------------------------------------
(* What the clients are told of pairs is what a venue listed at some time. *)
Catalogues ==
  {catalogue \in [Venues -> [Symbols -> UNION {ListedAs(venue) : venue \in Venues}]] :
     IsCatalogue(catalogue)}

VenueInv == listed \in Catalogues /\ past \subseteq [listed : Catalogues, ago : 0..Lifetime]

(* A venue's pairs, so many ticks ago or less; or none, which are not served. *)
WereOnline(symbols, v, ticks) ==
  symbols = {} \/ \E catalogue \in Listings(ticks) : symbols = OnlineIn(catalogue, v)

CacheInv ==
  /\ DOMAIN pairs = Venues /\ age \in [Venues -> 0..Lifetime]
  /\ \A v \in Venues : WereOnline(pairs[v], v, age[v])

(* A book that was handed out has the pair's precision, and at Coinbase    *)
(* its product streamed.                                                   *)
BooksInv ==
  \A id \in DOMAIN books :
    /\ id \in Answered
    /\ books[id] = [symbol |-> books[id].symbol, depth |-> books[id].depth,
                    precision |-> Precision]
    /\ VenueOf(id) = Coinbase => IsOnline(Coinbase, books[id].symbol)

(* Pairs that are under way are at most as old as their request. *)
AskRuns(c) ==
  cmd[c].stage \in {"asking", "answered"} =>
    LET v == FromWire(cmd[c].command.venue)
    IN /\ "since" \in DOMAIN cmd[c] /\ cmd[c].since \in 0..Lifetime /\ v \in Venues
       /\ cmd[c].stage = "answered" =>
            \A result \in FetchPairs(v, cmd[c].response) :
              result.is = "value" => WereOnline(result.value, v, cmd[c].since)

PairsAreAnswered(c) ==
  cmd[c].stage = "done" /\ cmd[c].result.is = "pairs" =>
    LET v == FromWire(cmd[c].command.venue)
    IN /\ v \in Venues /\ cmd[c].result.depths = Depths(v)
       /\ WereOnline(cmd[c].result.symbols, v, Lifetime)

PairsInv ==
  /\ VenueInv /\ CacheInv /\ BooksInv
  /\ \A c \in Clients : AskRuns(c) /\ PairsAreAnswered(c)

(* A step that lets no time pass keeps what was listed that many ticks ago. *)
ListingsStay == \A ticks \in 0..Lifetime : Listings(ticks) \subseteq Listings(ticks)'

LEMMA SameListings ==
  ASSUME VenueInv, UNCHANGED venueVars
  PROVE  VenueInv' /\ ListingsStay
BY DEF VenueInv, venueVars, ListingsStay, Listings

LEMMA WereOnlineStays ==
  ASSUME ListingsStay, NEW symbols, NEW v, NEW ticks \in 0..Lifetime, WereOnline(symbols, v, ticks)
  PROVE  WereOnline(symbols, v, ticks)'
BY DEF WereOnline, ListingsStay, OnlineIn

LEMMA LifetimeIs == Lifetime \in Nat /\ Lifetime \in 0..Lifetime /\ 0 \in 0..Lifetime /\ 0 < Lifetime
BY CommandsAssumption DEF CommandsAssumption

(* Online once, a pair was online. *)
LEMMA IsOnlineStays ==
  ASSUME ListingsStay, NEW v, NEW symbol, IsOnline(v, symbol)
  PROVE  IsOnline(v, symbol)'
BY LifetimeIs DEF IsOnline, ListingsStay

(* A change of what a venue lists leaves a catalogue, and the one before.  *)
LEMMA ChangeListings ==
  ASSUME VenueInv, NEW v \in Venues, NEW symbol \in Symbols, Change(v, symbol)
  PROVE  VenueInv' /\ ListingsStay
<1> DEFINE new == IF listed[v][symbol] = "online" THEN "offline" ELSE "online"
           States == UNION {ListedAs(venue) : venue \in Venues}
<1>1. /\ listed \in [Venues -> [Symbols -> States]] /\ IsCatalogue(listed)
      /\ listed' = [listed EXCEPT ![v] = [listed[v] EXCEPT ![symbol] = new]]
      /\ listed[v][symbol] \in {"online", "offline"}
      /\ past' = past \cup {[listed |-> listed, ago |-> 0]}
  BY DEF VenueInv, Catalogues, Change
<1>2. new \in ListedAs(v) /\ new \in States
  BY DEF ListedAs
<1>3. CheckSymbol(v, symbol)
  BY <1>1 DEF IsCatalogue
<1> HIDE DEF new, States
<1>4. listed' \in [Venues -> [Symbols -> States]]
  BY <1>1, <1>2
<1>5. ASSUME NEW u \in Venues, NEW s \in Symbols
      PROVE  /\ listed'[u][s] \in ListedAs(u)
             /\ listed'[u][s] # "absent" => CheckSymbol(u, s)
  <2>1. listed'[u][s] = IF u = v /\ s = symbol THEN new ELSE listed[u][s]
    BY <1>1
  <2>2. listed[u][s] \in ListedAs(u) /\ (listed[u][s] # "absent" => CheckSymbol(u, s))
    BY <1>1 DEF IsCatalogue
  <2>3. QED
    BY <1>2, <1>3, <2>1, <2>2
<1>6. IsCatalogue(listed')
  BY <1>5 DEF IsCatalogue
<1>7. listed' \in Catalogues
  BY <1>4, <1>6 DEF Catalogues, States
<1>8. past' \subseteq [listed : Catalogues, ago : 0..Lifetime]
  BY <1>1, LifetimeIs DEF VenueInv
<1>9. ListingsStay
  <2> SUFFICES ASSUME NEW ticks \in 0..Lifetime, NEW catalogue \in Listings(ticks)
               PROVE  catalogue \in Listings(ticks)'
    BY DEF ListingsStay
  <2>1. CASE catalogue = listed
    <3> DEFINE p == [listed |-> listed, ago |-> 0]
    <3>1. p \in past' /\ p.ago <= ticks /\ p.listed = catalogue
      BY <1>1, <2>1
    <3> HIDE DEF p
    <3>2. QED
      BY <3>1 DEF Listings
  <2>2. CASE catalogue \in {p.listed : p \in {q \in past : q.ago <= ticks}}
    BY <1>1, <2>2 DEF Listings
  <2>3. QED
    BY <2>1, <2>2 DEF Listings
<1>10. QED
  BY <1>7, <1>8, <1>9 DEF VenueInv

(* A tick makes what was listed a tick older, and what is cached too. *)
LEMMA TickListings ==
  ASSUME VenueInv, Tick
  PROVE  VenueInv' /\ \A ticks \in 0..Lifetime : Listings(ticks) \subseteq Listings(Older(ticks))'
<1>1. listed' = listed /\ past' = {[p EXCEPT !.ago = Older(@)] : p \in past}
  BY DEF Tick
<1>2. \A ticks \in 0..Lifetime : Older(ticks) \in 0..Lifetime
  BY LifetimeIs DEF Older
<1>3. ASSUME NEW p \in past
      PROVE  /\ p \in [listed : Catalogues, ago : 0..Lifetime]
             /\ [p EXCEPT !.ago = Older(@)] = [listed |-> p.listed, ago |-> Older(p.ago)]
             /\ [listed |-> p.listed, ago |-> Older(p.ago)] \in past'
  <2>1. p \in [listed : Catalogues, ago : 0..Lifetime]
    BY DEF VenueInv
  <2>2. [p EXCEPT !.ago = Older(@)] = [listed |-> p.listed, ago |-> Older(p.ago)]
    BY <2>1
  <2>3. QED
    BY <1>1, <2>1, <2>2
<1>4. past' \subseteq [listed : Catalogues, ago : 0..Lifetime]
  <2> SUFFICES ASSUME NEW p \in past
               PROVE  [p EXCEPT !.ago = Older(@)] \in [listed : Catalogues, ago : 0..Lifetime]
    BY <1>1
  <2>1. QED
    BY <1>2, <1>3
<1>5. ASSUME NEW ticks \in 0..Lifetime, NEW catalogue \in Listings(ticks)
      PROVE  catalogue \in Listings(Older(ticks))'
  <2>1. CASE catalogue = listed
    BY <1>1, <2>1 DEF Listings
  <2>2. ASSUME NEW p \in past, p.ago <= ticks, catalogue = p.listed
        PROVE  catalogue \in Listings(Older(ticks))'
    <3> DEFINE q == [listed |-> p.listed, ago |-> Older(p.ago)]
    <3>1. q \in past' /\ q.listed = catalogue /\ q.ago = Older(p.ago)
      BY <1>3, <2>2
    <3>2. p.ago \in 0..Lifetime
      BY <1>3
    <3>3. Older(p.ago) <= Older(ticks)
      <4> DEFINE ago == p.ago
      <4>1. ago \in 0..Lifetime /\ ago <= ticks
        BY <2>2, <3>2
      <4> HIDE DEF ago
      <4>2. Older(ago) <= Older(ticks)
        BY <4>1, LifetimeIs DEF Older
      <4>3. QED
        BY <4>2 DEF ago
    <3> HIDE DEF q
    <3>4. QED
      BY <3>1, <3>3 DEF Listings
  <2>3. QED
    BY <2>1, <2>2 DEF Listings
<1>6. QED
  BY <1>1, <1>4, <1>5 DEF VenueInv

(* Kraken's pairs with status online are those it lists as online. *)
LEMMA KrakenLists ==
  ASSUME VenueInv, NEW response \in {ListAnswer(Kraken)} \cup Failures(Kraken),
         NEW result \in FetchTradablePairs(response), result.is = "value"
  PROVE  result.value = {} \/ result.value = OnlineIn(listed, Kraken)
<1> DEFINE found == FindJsonMember(response.body, "result")
           online == IF found = Missing THEN {}
                     ELSE {s \in DOMAIN found.members :
                             FindJsonMember(found.members[s], "status") = Word("online")}
<1>1. result = Returns(online)
  <2>1. result \in {Throws, Aborts, Returns(online)}
    BY DEF FetchTradablePairs, ThrowOnRestError
  <2>2. Throws.is # "value" /\ Aborts.is # "value"
    BY DEF Throws, Aborts
  <2>3. QED
    BY <2>1, <2>2
<1>2. result.value = online
  BY <1>1 DEF Returns
<1>3. ASSUME NEW errors, NEW symbols, symbols \subseteq Symbols, response = Envelope(errors, symbols)
      PROVE  online = {s \in symbols : listed[Kraken][s] # "offline"}
  <2> DEFINE members == [s \in symbols |-> Pair(listed[Kraken][s])]
  <2>1. found = JsonObject(members) /\ DOMAIN members = symbols
    BY <1>3, EnvelopeHolds
  <2>2. \A s \in symbols : members[s] = Pair(listed[Kraken][s])
    OBVIOUS
  <2>3. JsonObject(members).kind = "object" /\ JsonObject(members).members = members
    BY DEF JsonObject
  <2> HIDE DEF members, found
  <2>4. found # Missing
    BY <2>1, <2>3, DocumentsDiffer
  <2>5. \A s \in symbols :
          FindJsonMember(members[s], "status") =
            Word(IF listed[Kraken][s] = "offline" THEN "cancel_only" ELSE "online")
    BY <2>2, PairHolds
  <2>6. Word("cancel_only") # Word("online")
    <3>1. Word("cancel_only").text[1] = "cancel_only" /\ Word("online").text[1] = "online"
      BY DEF Word, JsonString
    <3>2. QED
      BY <3>1
  <2>7. QED
    BY <2>1, <2>3, <2>4, <2>5, <2>6
<1>4. CASE response = Unreachable
  <2>1. result = Throws
    BY <1>4 DEF FetchTradablePairs
  <2>2. QED
    BY <2>1 DEF Throws
<1>5. CASE response = Response(200, JsonNull)
  <2>1. response.body = JsonNull /\ JsonNull.kind # "object"
    BY <1>5 DEF Response, JsonNull
  <2>2. found = Missing
    BY <2>1 DEF FindJsonMember
  <2>3. QED
    BY <1>2, <2>2
<1>6. CASE \E errors : response = Envelope(errors, {})
  <2>1. online = {}
    BY <1>3, <1>6
  <2>2. QED
    BY <1>2, <2>1
<1>7. CASE response = ListAnswer(Kraken)
  <2> DEFINE symbols == {s \in Symbols : listed[Kraken][s] # "absent"}
  <2>1. response = Envelope(<<>>, symbols)
    BY <1>7 DEF ListAnswer
  <2>2. online = {s \in symbols : listed[Kraken][s] # "offline"}
    BY <1>3, <2>1
  <2>3. \A s \in Symbols : listed[Kraken][s] \in {"absent", "online", "offline"}
    BY TwoOfEach DEF VenueInv, Catalogues, IsCatalogue, ListedAs, Kraken
  <2>4. online = OnlineIn(listed, Kraken)
    BY <2>2, <2>3 DEF OnlineIn
  <2>5. QED
    BY <1>2, <2>4
<1>8. QED
  BY <1>4, <1>5, <1>6, <1>7 DEF Failures

(* Coinbase's products that stream are those it lists as online. *)
LEMMA CoinbaseLists ==
  ASSUME VenueInv, NEW response \in {ListAnswer(Coinbase)} \cup Failures(Coinbase),
         NEW result, result = FetchTradableProducts(response), result.is = "value"
  PROVE  result.value = OnlineIn(listed, Coinbase)
<1>1. Throws.is # "value" /\ Coinbase # Kraken
  BY DEF Throws, Coinbase, Kraken
<1>2. CASE response \in Failures(Coinbase)
  <2>1. /\ Response(200, JsonNull).body = JsonNull /\ JsonNull.kind # "object"
        /\ Response(500, JsonNull).status = 500
    BY DEF Response, JsonNull
  <2>2. ParseTradableProducts(JsonNull) = Throws
    BY <2>1 DEF ParseTradableProducts, ParseObjectThrows
  <2>3. result = Throws
    BY <1>1, <1>2, <2>1, <2>2 DEF Failures, FetchTradableProducts
  <2>4. QED
    BY <1>1, <2>3
<1>3. CASE response = ListAnswer(Coinbase)
  <2> DEFINE symbols == {s \in Symbols : listed[Coinbase][s] # "absent"}
             products == [s \in symbols |-> Product(s, listed[Coinbase][s], TRUE)]
             members == [products |-> JsonArray(products)]
             body == JsonObject(members)
             streamed == {s \in DOMAIN products : WhyUnstreamable(products[s]) = "none"}
  <2>1. response = Response(200, body)
    BY <1>1, <1>3 DEF ListAnswer
  <2>2. DOMAIN products = symbols
    OBVIOUS
  <2>3. ASSUME NEW s \in symbols
        PROVE  /\ WhyUnstreamable(products[s]) =
                    IF listed[Coinbase][s] = "online" THEN "none" ELSE "why"
               /\ RequireJsonString(products[s], "product_id") = s
    <3> DEFINE state == listed[Coinbase][s]
    <3>1. products[s] = Product(s, state, TRUE)
      OBVIOUS
    <3>2. state \in ListedAs(Coinbase) /\ state # "absent"
      BY TwoOfEach DEF VenueInv, Catalogues, IsCatalogue, Coinbase
    <3> HIDE DEF products, state
    <3>3. WhyUnstreamable(products[s]) = IF state = "online" THEN "none" ELSE "why"
      <4>1. \A own \in BOOLEAN : WhyUnstreamable(Product(s, state, own)) =
                                  IF state = "online" THEN "none" ELSE "why"
        BY <3>2, OnlineStreams
      <4>2. QED
        BY <3>1, <4>1
    <3>4. RequireJsonString(products[s], "product_id") = s
      BY <3>1 DEF RequireJsonString, FindJsonMember, Product, JsonObject, JsonString
    <3>5. QED
      BY <3>3, <3>4 DEF state
  <2> HIDE DEF products
  <2>4. FindJsonMember(body, "products") = JsonArray(products) /\ body.kind = "object"
    BY DEF JsonObject, FindJsonMember
  <2>5. JsonArray(products).kind = "array" /\ JsonArray(products).values = products
    BY DEF JsonArray
  <2> HIDE DEF members, body
  <2>6. ~ParseObjectThrows(body) /\ ~RequireThrows(body, "products", "array")
    BY <2>4, <2>5 DEF ParseObjectThrows, RequireThrows
  <2>7. ~\E s \in DOMAIN products : WhyUnstreamable(products[s]) = "throws"
    BY <2>2, <2>3
  <2>8. ParseTradableProducts(body) =
          Returns({RequireJsonString(products[s], "product_id") : s \in streamed})
    BY <2>4, <2>5, <2>6, <2>7 DEF ParseTradableProducts
  <2>9. streamed = OnlineIn(listed, Coinbase)
    <3>1. \A s \in symbols : s \in streamed <=> listed[Coinbase][s] = "online"
      BY <2>2, <2>3
    <3>2. streamed \subseteq symbols
      BY <2>2
    <3> HIDE DEF streamed
    <3>3. QED
      BY <3>1, <3>2 DEF OnlineIn
  <2>10. {RequireJsonString(products[s], "product_id") : s \in streamed} = streamed
    BY <2>2, <2>3
  <2>11. /\ response # Unreachable /\ response.status = 200 /\ response.body = body
    BY <2>1, DocumentsDiffer DEF Response
  <2>12. result = Returns(streamed)
    BY <2>8, <2>10, <2>11 DEF FetchTradableProducts
  <2>13. QED
    BY <2>9, <2>12 DEF Returns
<1>4. QED
  BY <1>2, <1>3

LEMMA PairsListed ==
  ASSUME VenueInv, NEW v \in Venues, NEW response \in {ListAnswer(v)} \cup Failures(v),
         NEW result \in FetchPairs(v, response), result.is = "value"
  PROVE  WereOnline(result.value, v, 0)
<1>1. result.value = {} \/ result.value = OnlineIn(listed, v)
  <2>1. CASE v = Kraken
    BY <2>1, KrakenLists DEF FetchPairs
  <2>2. CASE v = Coinbase
    BY <2>2, CoinbaseLists DEF FetchPairs, Kraken, Coinbase
  <2>3. QED
    BY <2>1, <2>2, TwoOfEach DEF Kraken, Coinbase
<1>2. listed \in Listings(0)
  BY DEF Listings
<1>3. QED
  BY <1>1, <1>2 DEF WereOnline

-----------------------------------------------------------------------------
(* What a Start is answered, precisely: what the checks and the venue made *)
(* of it, what is said of a pair that is taken, or its own id.             *)
CallOf(c) == calls[cmd[c].call]

NotFound(v, symbol) ==
  ~CheckSymbol(v, symbol) \/ (v = Coinbase => listed[v][symbol] # "online")

StartAnswer(c, result) ==
  LET start == cmd[c].command
      v == CallOf(c).venue
  IN \/ result \in {Failure("INVALID_DEPTH"), Failure("VENUE_FAILED")}
     \/ result = Failure("UNKNOWN_SYMBOL") /\ NotFound(v, start.symbol)
     \/ \E id \in TakenBy(v, start.symbol) : result = ResolveTaken(CallOf(c).id, start, id)

Answers(c) ==
  \E result : StartAnswer(c, result) /\ Subscribed(c, {}, result) /\ books' = books

AddsOnline(c) ==
  LET start == cmd[c].command
      v == CallOf(c).venue
      id == CallOf(c).id
  IN /\ Subscribed(c, {id}, Started(id))
     /\ books' = Knowing(id, Book(start, Precision))
     /\ v = Coinbase => listed[v][start.symbol] = "online"

(* The codes as they are sent. *)
LEMMA SentCodes ==
  /\ Error("kInvalidDepth") = Failure("INVALID_DEPTH")
  /\ Error("kUnknownSymbol") = Failure("UNKNOWN_SYMBOL")
  /\ Error("kVenueFailed") = Failure("VENUE_FAILED")
  /\ Error("kIdsExhausted") = Failure("IDS_EXHAUSTED")
  /\ Error("kSymbolInUse") = Failure("SYMBOL_IN_USE")
  /\ Error("kUnknownId") = Failure("UNKNOWN_ID")
  /\ Error("kUnknownVenue") = Failure("INVALID_COMMAND")
BY DEF Error, ToWireCode, Codes

LEMMA FailuresDiffer ==
  /\ \A code : Failure(code).is = "error" /\ Failure(code).code = code
  /\ \A id : Started(id).is = "started" /\ Started(id).id = id
  /\ Ok.is = "ok"
BY DEF Failure, Started, Ok

LEMMA StartChecksAnswers ==
  ASSUME NEW c, StartChecks(c)
  PROVE  \/ Answers(c)
         \/ /\ UNCHANGED <<idVars, books>>
            /\ cmd' = [cmd EXCEPT ![c] = [cmd[c] EXCEPT !.stage = "fetching"]]
<1> DEFINE start == cmd[c].command
           v == CallOf(c).venue
           code == CheckBook(v, start)
<1>1. books' = books /\ cmd[c].stage = "checking"
  BY DEF StartChecks, commandVars
<1>2. \/ code # "ok" /\ Subscribed(c, {}, Error(code))
      \/ \E id \in TakenBy(v, start.symbol) :
           Subscribed(c, {}, ResolveTaken(CallOf(c).id, start, id))
      \/ /\ UNCHANGED idVars
         /\ cmd' = [cmd EXCEPT ![c] = [cmd[c] EXCEPT !.stage = "fetching"]]
  BY DEF StartChecks, Become, CallOf
<1>3. CASE code # "ok" /\ Subscribed(c, {}, Error(code))
  <2>1. \/ code = "kInvalidDepth"
        \/ code = "kUnknownSymbol" /\ ~CheckSymbol(v, start.symbol)
    BY <1>3 DEF CheckBook
  <2>2. StartAnswer(c, Error(code))
    BY <2>1, SentCodes DEF StartAnswer, NotFound
  <2>3. QED
    BY <1>1, <1>3, <2>2 DEF Answers
<1>4. CASE \E id \in TakenBy(v, start.symbol) :
             Subscribed(c, {}, ResolveTaken(CallOf(c).id, start, id))
  BY <1>1, <1>4 DEF Answers, StartAnswer
<1>5. QED
  BY <1>1, <1>2, <1>3, <1>4

LEMMA StartFetchedAnswers ==
  ASSUME CommandInv, IdInv, VenueInv, NEW c \in Clients, StartFetched(c)
  PROVE  Answers(c) \/ AddsOnline(c) \/ UNCHANGED <<idVars, cmd, books>>
<1> DEFINE start == cmd[c].command
           v == CallOf(c).venue
           responses == PrecisionAnswers(v, start.symbol) \cup Failures(v)
<1>1. /\ cmd[c].stage = "fetching" /\ start \in Starts
      /\ cmd[c].call \in DOMAIN calls /\ HasId(cmd[c].call)
  BY DEF StartFetched, CommandInv, CommandRuns, StartRuns
<1>2. v \in Venues /\ start.symbol \in Symbols
  <2>1. CallOf(c) \in IdCall
    BY <1>1, HasIdIsIdCall DEF IdInv, CallsNumbered, CallOf
  <2>2. QED
    BY <1>1, <2>1 DEF IdCall, Starts
<1>3. listed[v][start.symbol] \in ListedAs(v)
  BY <1>2 DEF VenueInv, Catalogues, IsCatalogue
<1>4. PICK response \in responses : \E result \in FetchPrecision(v, response, start.symbol) :
        \/ UNCHANGED <<idVars, cmd, books>>
        \/ /\ result.is \notin {"abort", "value"}
           /\ Subscribed(c, {}, Error(CallVenue(result))) /\ books' = books
        \/ \E id \in TakenBy(v, start.symbol) :
             Subscribed(c, {}, ResolveTaken(CallOf(c).id, start, id)) /\ books' = books
        \/ Subscribed(c, {}, Failure("VENUE_FAILED")) /\ books' = books
        \/ /\ result.is = "value"
           /\ Subscribed(c, {CallOf(c).id}, Started(CallOf(c).id))
           /\ books' = Knowing(CallOf(c).id, Book(start, result.value))
  BY DEF StartFetched, Book, CallOf
<1>5. PICK result \in FetchPrecision(v, response, start.symbol) :
        \/ UNCHANGED <<idVars, cmd, books>>
        \/ /\ result.is \notin {"abort", "value"}
           /\ Subscribed(c, {}, Error(CallVenue(result))) /\ books' = books
        \/ \E id \in TakenBy(v, start.symbol) :
             Subscribed(c, {}, ResolveTaken(CallOf(c).id, start, id)) /\ books' = books
        \/ Subscribed(c, {}, Failure("VENUE_FAILED")) /\ books' = books
        \/ /\ result.is = "value"
           /\ Subscribed(c, {CallOf(c).id}, Started(CallOf(c).id))
           /\ books' = Knowing(CallOf(c).id, Book(start, result.value))
  BY <1>4
<1>6. /\ result \in {Throws, Unknown, Aborts, Returns(Precision)}
      /\ v = Coinbase /\ result = Unknown => listed[v][start.symbol] # "online"
      /\ v = Coinbase /\ result = Returns(Precision) => listed[v][start.symbol] = "online"
  <2> HIDE DEF v
  <2>1. QED
    BY <1>2, <1>3, PrecisionsFetched
<1> HIDE DEF v, start, responses
<1>7. CASE result.is \notin {"abort", "value"} /\ Subscribed(c, {}, Error(CallVenue(result)))
             /\ books' = books
  <2>1. result = Throws \/ result = Unknown
    BY <1>6, <1>7 DEF Aborts, Returns
  <2>2. CallVenue(Throws) = "kVenueFailed" /\ CallVenue(Unknown) = "kUnknownSymbol"
    BY DEF CallVenue, Throws, Unknown
  <2>3. StartAnswer(c, Error(CallVenue(result)))
    BY <1>6, <2>1, <2>2, SentCodes DEF StartAnswer, NotFound, v, start
  <2>4. QED
    BY <1>7, <2>3 DEF Answers
<1>8. CASE \E id \in TakenBy(v, start.symbol) :
             Subscribed(c, {}, ResolveTaken(CallOf(c).id, start, id)) /\ books' = books
  BY <1>8 DEF Answers, StartAnswer, v, start
<1>9. CASE Subscribed(c, {}, Failure("VENUE_FAILED")) /\ books' = books
  BY <1>9 DEF Answers, StartAnswer
<1>10. CASE /\ result.is = "value"
            /\ Subscribed(c, {CallOf(c).id}, Started(CallOf(c).id))
            /\ books' = Knowing(CallOf(c).id, Book(start, result.value))
  <2>1. result = Returns(Precision)
    BY <1>6, <1>10 DEF Throws, Unknown, Aborts
  <2>2. result.value = Precision
    BY <2>1 DEF Returns
  <2>3. QED
    BY <1>6, <1>10, <2>1, <2>2 DEF AddsOnline, v, start
<1>11. QED
  BY <1>5, <1>7, <1>8, <1>9, <1>10

(* A call that runs is of the venue and the sink that its Start names, and *)
(* its id says so.                                                         *)
LEMMA CallNames ==
  ASSUME CommandInv, IdInv, NEW c \in Clients, cmd[c].stage \in {"checking", "fetching"}
  PROVE  /\ cmd[c].command \in Starts /\ cmd[c].call \in DOMAIN calls
         /\ CallOf(c).venue = FromWire(cmd[c].command.venue) /\ CallOf(c).venue \in Venues
         /\ VenueOf(CallOf(c).id) = CallOf(c).venue
         /\ SinkOf(CallOf(c).id) = FromWire(cmd[c].command.sink)
<1> DEFINE i == cmd[c].call
<1>1. /\ cmd[c].command \in Starts /\ i \in DOMAIN calls /\ HasId(i)
      /\ calls[i].venue = FromWire(cmd[c].command.venue)
      /\ calls[i].sink = FromWire(cmd[c].command.sink)
  BY DEF CommandInv, CommandRuns, StartRuns
<1> HIDE DEF i
<1>2. calls[i] \in IdCall
  BY <1>1, HasIdIsIdCall DEF IdInv, CallsNumbered
<1>3. /\ i \in Counters /\ calls[i].venue \in Venues /\ calls[i].sink \in Sinks
      /\ calls[i].id = MakeSubscriptionId(i, calls[i].venue, calls[i].sink)
  BY <1>1, <1>2 DEF IdInv, CallsNumbered, IdCall
<1>4. VenueOf(calls[i].id) = calls[i].venue /\ SinkOf(calls[i].id) = calls[i].sink
  BY <1>3, IdNames, Bytes
<1>5. QED
  BY <1>1, <1>3, <1>4 DEF CallOf, i

(* What StartHolds says of each result, of the state that comes after. *)
StartedIs(start, id) ==
  LET v == FromWire(start.venue)
  IN /\ id \in tables[v] /\ VenueOf(id) = v /\ SinkOf(id) = FromWire(start.sink)
     /\ books[id] = Book(start, Precision)
     /\ v = Coinbase => IsOnline(v, start.symbol)

TakenIs(start) ==
  \E id \in tables[FromWire(start.venue)] :
    /\ books[id].symbol = start.symbol
    /\ ~(SinkOf(id) = 1 /\ start.sink = 2 /\ books[id].depth = start.depth)

UnlistedIs(start) ==
  LET v == FromWire(start.venue)
  IN v = Coinbase => \/ ~CheckSymbol(v, start.symbol)
                     \/ \E catalogue \in Listings(Lifetime) : catalogue[v][start.symbol] # "online"

LEMMA StartHoldsBy ==
  ASSUME NEW c, NEW start, NEW result, cmd'[c].command = start, cmd'[c].result = result,
         result.is = "started" => StartedIs(start, result.id)',
         result = Failure("SYMBOL_IN_USE") => TakenIs(start)',
         result = Failure("UNKNOWN_SYMBOL") => UnlistedIs(start)'
  PROVE  StartHolds(c)'
<1> DEFINE v == FromWire(start.venue)
<1>1. result.is = "started" =>
        /\ result.id \in tables'[v] /\ VenueOf(result.id) = v
        /\ SinkOf(result.id) = FromWire(start.sink)
        /\ books'[result.id] = [symbol |-> start.symbol, depth |-> start.depth,
                               precision |-> Precision]
        /\ v = Coinbase => IsOnline(v, start.symbol)'
  BY Zenon DEF StartedIs, Book
<1>2. result = Failure("SYMBOL_IN_USE") =>
        \E id \in tables'[v] :
          /\ books'[id].symbol = start.symbol
          /\ ~(SinkOf(id) = 1 /\ start.sink = 2 /\ books'[id].depth = start.depth)
  BY Zenon DEF TakenIs
<1>3. result = Failure("UNKNOWN_SYMBOL") /\ v = Coinbase =>
        \/ ~CheckSymbol(v, start.symbol)
        \/ \E catalogue \in Listings(Lifetime)' : catalogue[v][start.symbol] # "online"
  BY Zenon DEF UnlistedIs
<1>4. QED
  BY <1>1, <1>2, <1>3, Zenon DEF StartHolds

(* An answer to a Start that adds nothing is true of what there is.        *)
LEMMA AnswersHold ==
  ASSUME CommandInv, IdInv, VenueInv, BooksInv, UNCHANGED venueVars,
         NEW c \in Clients, cmd[c].stage \in {"checking", "fetching"}, Answers(c)
  PROVE  StartHolds(c)'
<1>0. PICK start, v : start = cmd[c].command /\ v = CallOf(c).venue
  OBVIOUS
<1>1. PICK result : StartAnswer(c, result) /\ Subscribed(c, {}, result) /\ books' = books
  BY DEF Answers
<1>2. /\ start \in Starts /\ v = FromWire(start.venue) /\ v \in Venues
      /\ SinkOf(CallOf(c).id) = FromWire(start.sink)
  BY <1>0, CallNames
<1>3. cmd'[c].command = start /\ cmd'[c].result = result
  BY <1>0, <1>1, SubscribedEffect DEF CommandInv, Done
<1>4. tables'[v] = tables[v]
  <2>1. tables' = [tables EXCEPT ![v] = @ \cup {}] /\ DOMAIN tables = Venues
    BY <1>0, <1>1, SubscribedEffect DEF IdInv, TablesEncoded, CallOf
  <2>2. QED
    BY <1>2, <2>1
<1>5. listed' = listed /\ past' = past
  BY DEF venueVars
<1>6. CASE result \in {Failure("INVALID_DEPTH"), Failure("VENUE_FAILED")}
  <2>1. result.is # "started" /\ result # Failure("SYMBOL_IN_USE") /\ result # Failure("UNKNOWN_SYMBOL")
    BY <1>6, FailuresDiffer
  <2>2. QED
    BY <1>3, <2>1, StartHoldsBy
<1>7. CASE result = Failure("UNKNOWN_SYMBOL") /\ NotFound(v, start.symbol)
  <2>1. result.is # "started" /\ result # Failure("SYMBOL_IN_USE")
    BY <1>7, FailuresDiffer
  <2>2. v = Coinbase /\ CheckSymbol(v, start.symbol) =>
          \E catalogue \in Listings(Lifetime)' : catalogue[v][start.symbol] # "online"
    BY <1>5, <1>7 DEF NotFound, Listings
  <2>3. UnlistedIs(start)'
    BY <1>2, <2>2 DEF UnlistedIs
  <2>4. QED
    BY <1>3, <2>1, <2>3, StartHoldsBy
<1>8. ASSUME NEW id \in TakenBy(v, start.symbol), result = ResolveTaken(CallOf(c).id, start, id)
      PROVE  StartHolds(c)'
  <2>1. id \in tables[v] /\ books[id].symbol = start.symbol /\ id \in DOMAIN books
    BY <1>2, <1>8 DEF TakenBy, CommandInv, TablesAnswered
  <2>2. VenueOf(id) = v
    BY <1>2, <2>1, IdInvReaches DEF IdsReachTheirManager
  <2>3. CASE SinkOf(CallOf(c).id) = 1 /\ SinkOf(id) = 1 /\ books[id].depth = start.depth
    <3>1. result = Started(id)
      BY <1>8, <2>3 DEF ResolveTaken
    <3>2. result.is = "started" /\ result.id = id
      BY <3>1, FailuresDiffer
    <3>3. result # Failure("SYMBOL_IN_USE") /\ result # Failure("UNKNOWN_SYMBOL")
      BY <3>2, FailuresDiffer
    <3>4. books[id] = Book(start, Precision)
      BY <2>1, <2>3 DEF BooksInv, Book
    <3>5. v = Coinbase => IsOnline(v, start.symbol)'
      BY <2>1, <2>2, <1>5 DEF BooksInv, IsOnline, Listings
    <3>6. id \in tables'[v] /\ books'[id] = Book(start, Precision) /\ SinkOf(id) = FromWire(start.sink)
      BY <1>1, <1>2, <1>4, <2>1, <2>3, <3>4
    <3>7. StartedIs(start, id)'
      BY <1>2, <2>2, <3>5, <3>6 DEF StartedIs
    <3>8. QED
      BY <1>3, <3>2, <3>3, <3>7, StartHoldsBy
  <2>4. CASE ~(SinkOf(CallOf(c).id) = 1 /\ SinkOf(id) = 1 /\ books[id].depth = start.depth)
    <3>1. result = Failure("SYMBOL_IN_USE")
      BY <1>8, <2>4, SentCodes DEF ResolveTaken
    <3>2. result.is # "started" /\ result # Failure("UNKNOWN_SYMBOL")
      BY <3>1, FailuresDiffer
    <3>3. start.sink = 2 => SinkOf(CallOf(c).id) = 1
      BY <1>2 DEF FromWire
    <3>4. ~(SinkOf(id) = 1 /\ start.sink = 2 /\ books[id].depth = start.depth)
      BY <2>4, <3>3
    <3>5. TakenIs(start)'
      BY <1>1, <1>2, <1>4, <2>1, <3>4 DEF TakenIs
    <3>6. QED
      BY <1>3, <3>2, <3>5, StartHoldsBy
  <2>5. QED
    BY <2>3, <2>4
<1>9. QED
  BY <1>0, <1>1, <1>6, <1>7, <1>8 DEF StartAnswer

(* The id that was added is the call's own, and new.                       *)
LEMMA AddsEffect ==
  ASSUME CommandInv, IdInv, BooksInv, NEW c \in Clients,
         cmd[c].stage \in {"checking", "fetching"}, AddsOnline(c)
  PROVE  /\ CallOf(c).id \in Answered' \ Answered /\ CallOf(c).id \notin DOMAIN books
         /\ Answered \subseteq Answered'
         /\ CallOf(c).id \in tables'[CallOf(c).venue]
         /\ books' = Knowing(CallOf(c).id, Book(cmd[c].command, Precision))
         /\ cmd'[c] = Done(cmd[c].command, Started(CallOf(c).id))
<1> DEFINE v == CallOf(c).venue
           id == CallOf(c).id
<1>1. cmd[c].call \in DOMAIN calls /\ v \in Venues
  BY CallNames
<1>2. /\ ManagerSubscribes(cmd[c].call)
      /\ tables' = [tables EXCEPT ![v] = @ \cup {id}]
      /\ cmd' = [cmd EXCEPT ![c] = Done(cmd[c].command, Started(id))]
  BY SubscribedEffect DEF AddsOnline, CallOf
<1>3. id \in Answered' \ Answered /\ Answered \subseteq Answered'
  BY <1>1, <1>2, ManagerSubscribesStays DEF CallOf, CallsStay
<1>4. id \notin DOMAIN books
  BY <1>3 DEF BooksInv
<1>5. id \in tables'[v]
  BY <1>1, <1>2 DEF IdInv, TablesEncoded
<1>6. QED
  BY <1>2, <1>3, <1>4, <1>5 DEF AddsOnline, CommandInv

LEMMA AddsHold ==
  ASSUME CommandInv, IdInv, VenueInv, BooksInv, UNCHANGED venueVars,
         NEW c \in Clients, cmd[c].stage \in {"checking", "fetching"}, AddsOnline(c)
  PROVE  StartHolds(c)'
<1>0. PICK start, v, id : start = cmd[c].command /\ v = CallOf(c).venue /\ id = CallOf(c).id
  OBVIOUS
<1>1. /\ v = FromWire(start.venue) /\ VenueOf(id) = v /\ SinkOf(id) = FromWire(start.sink)
  BY <1>0, CallNames
<1>2. /\ id \notin DOMAIN books /\ id \in tables'[v]
      /\ books' = Knowing(id, Book(start, Precision))
      /\ cmd'[c] = Done(start, Started(id))
  BY <1>0, AddsEffect
<1>3. v = Coinbase => listed[v][start.symbol] = "online"
  BY <1>0 DEF AddsOnline
<1>4. cmd'[c].command = start /\ cmd'[c].result = Started(id)
  BY <1>2 DEF Done
<1>5. /\ Started(id).is = "started" /\ Started(id).id = id
      /\ \A code : Started(id) # Failure(code)
  BY FailuresDiffer
<1>6. books'[id] = Book(start, Precision)
  BY <1>2 DEF Knowing
<1>7. v = Coinbase => IsOnline(v, start.symbol)'
  BY <1>3 DEF venueVars, IsOnline, Listings
<1>8. StartedIs(start, id)'
  BY <1>1, <1>2, <1>6, <1>7 DEF StartedIs
<1>9. QED
  BY <1>4, <1>5, <1>8, StartHoldsBy

-----------------------------------------------------------------------------
(* What the clients are told of pairs and books stays true.                *)
OnlineStays == \A v, symbol : IsOnline(v, symbol) => IsOnline(v, symbol)'

LEMMA StayOnline ==
  ASSUME ListingsStay
  PROVE  OnlineStays
BY IsOnlineStays DEF OnlineStays

LEMMA TickOnline ==
  ASSUME VenueInv, Tick
  PROVE  OnlineStays
<1>1. Older(Lifetime) = Lifetime
  BY LifetimeIs DEF Older
<1>2. Listings(Lifetime) \subseteq Listings(Lifetime)'
  BY <1>1, TickListings, LifetimeIs
<1>3. QED
  BY <1>2 DEF OnlineStays, IsOnline

LEMMA SameBooksHold ==
  ASSUME BooksInv, CallsStay, OnlineStays, books' = books
  PROVE  BooksInv'
BY DEF BooksInv, CallsStay, OnlineStays

LEMMA AddsBooksHold ==
  ASSUME CommandInv, IdInv, BooksInv, CallsStay, OnlineStays, UNCHANGED venueVars,
         NEW c \in Clients, cmd[c].stage \in {"checking", "fetching"}, AddsOnline(c)
  PROVE  BooksInv'
<1>0. PICK start, v, id : start = cmd[c].command /\ v = CallOf(c).venue /\ id = CallOf(c).id
  OBVIOUS
<1>1. /\ id \in Answered' /\ id \notin DOMAIN books
      /\ books' = Knowing(id, Book(start, Precision)) /\ VenueOf(id) = v
      /\ v = Coinbase => listed[v][start.symbol] = "online"
  BY <1>0, AddsEffect, CallNames DEF AddsOnline
<1>2. /\ DOMAIN books' = DOMAIN books \cup {id} /\ books'[id] = Book(start, Precision)
      /\ \A known \in DOMAIN books : books'[known] = books[known]
  BY <1>1 DEF Knowing
<1>3. VenueOf(id) = Coinbase => IsOnline(Coinbase, start.symbol)'
  BY <1>1 DEF venueVars, IsOnline, Listings
<1>4. /\ Book(start, Precision).symbol = start.symbol
      /\ Book(start, Precision) = [symbol |-> start.symbol, depth |-> start.depth,
                                   precision |-> Precision]
      /\ Book(start, Precision).depth = start.depth
  BY DEF Book
<1>5. ASSUME NEW known \in DOMAIN books', NEW book, book = books'[known]
      PROVE  /\ known \in Answered'
             /\ book = [symbol |-> book.symbol, depth |-> book.depth, precision |-> Precision]
             /\ VenueOf(known) = Coinbase => IsOnline(Coinbase, book.symbol)'
  <2>1. CASE known = id
    BY <1>1, <1>2, <1>3, <1>4, <1>5, <2>1
  <2>2. CASE known \in DOMAIN books
    <3>1. /\ known \in Answered /\ book = [symbol |-> book.symbol, depth |-> book.depth,
                                          precision |-> Precision]
          /\ VenueOf(known) = Coinbase => IsOnline(Coinbase, book.symbol)
      BY <1>2, <1>5, <2>2 DEF BooksInv
    <3>2. VenueOf(known) = Coinbase => IsOnline(Coinbase, book.symbol)'
      BY <3>1 DEF OnlineStays
    <3>3. QED
      BY <3>1, <3>2 DEF CallsStay
  <2>3. QED
    BY <1>2, <2>1, <2>2
<1>6. QED
  BY <1>5 DEF BooksInv

(* A client's step leaves what the venues list alone, and what is cached   *)
(* of it unless it fetched the pairs.                                      *)
LEMMA ClientStepsVenues ==
  ASSUME NEW c \in Clients, ClientSteps(c)
  PROVE  UNCHANGED venueVars /\ (UNCHANGED <<pairs, age>> \/ PairsFetched(c))
<1>1. CASE Reply(c) \/ UnknownCommand(c) \/ List(c) \/ Listed(c) \/ ListVenues(c)
  BY <1>1 DEF Reply, UnknownCommand, List, Listed, ListVenues, commandVars
<1>2. CASE VenueAnswers(c) \/ \E v \in Venues : VenueLists(c, v)
  BY <1>2 DEF VenueAnswers, VenueLists, commandVars
<1>3. CASE PairsFetched(c)
  BY <1>3 DEF PairsFetched
<1>4. CASE \E watch \in Watches : Watch(c, watch)
  BY <1>4 DEF Watch, commandVars
<1>5. CASE \E list \in PairLists : ListPairs(c, list)
  BY <1>5 DEF ListPairs, commandVars
<1>6. CASE \E start \in Starts : Start(c, start)
  BY <1>6 DEF Start, commandVars
<1>7. CASE \E stop \in Stops : Stop(c, stop)
  BY <1>7 DEF Stop, commandVars
<1>8. CASE StartChecks(c)
  BY <1>8 DEF StartChecks, commandVars
<1>9. CASE StartFetched(c)
  BY <1>9 DEF StartFetched
<1>10. QED
  BY <1>1, <1>2, <1>3, <1>4, <1>5, <1>6, <1>7, <1>8, <1>9 DEF ClientSteps

(* Only a Start's step knows a new book. *)
LEMMA ClientStepsKnow ==
  ASSUME NEW c \in Clients, ClientSteps(c)
  PROVE  books' = books \/ StartFetched(c)
<1>1. CASE Reply(c) \/ UnknownCommand(c) \/ List(c) \/ Listed(c) \/ ListVenues(c)
  BY <1>1 DEF Reply, UnknownCommand, List, Listed, ListVenues, commandVars
<1>2. CASE VenueAnswers(c) \/ PairsFetched(c) \/ \E v \in Venues : VenueLists(c, v)
  BY <1>2 DEF VenueAnswers, PairsFetched, VenueLists, commandVars
<1>3. CASE \E watch \in Watches : Watch(c, watch)
  BY <1>3 DEF Watch, commandVars
<1>4. CASE \E list \in PairLists : ListPairs(c, list)
  BY <1>4 DEF ListPairs, commandVars
<1>5. CASE \E start \in Starts : Start(c, start)
  BY <1>5 DEF Start, commandVars
<1>6. CASE \E stop \in Stops : Stop(c, stop)
  BY <1>6 DEF Stop, commandVars
<1>7. CASE StartChecks(c)
  BY <1>7 DEF StartChecks, commandVars
<1>8. QED
  BY <1>1, <1>2, <1>3, <1>4, <1>5, <1>6, <1>7 DEF ClientSteps

-----------------------------------------------------------------------------
(* Pairs under way and pairs that were answered.                           *)
PairsRight(c) == AskRuns(c) /\ PairsAreAnswered(c)

LEMMA OthersPairs ==
  ASSUME ListingsStay, NEW c, cmd'[c] = cmd[c], PairsRight(c)
  PROVE  PairsRight(c)'
<1>1. AskRuns(c)'
  <2> SUFFICES ASSUME cmd[c].stage \in {"asking", "answered"} PROVE AskRuns(c)'
    BY DEF AskRuns
  <2> DEFINE v == FromWire(cmd[c].command.venue)
             since == cmd[c].since
             results == FetchPairs(v, cmd[c].response)
  <2>1. /\ "since" \in DOMAIN cmd[c] /\ since \in 0..Lifetime /\ v \in Venues
        /\ cmd[c].stage = "answered" =>
             \A result \in results : result.is = "value" => WereOnline(result.value, v, since)
    BY DEF PairsRight, AskRuns
  <2>2. v = FromWire(cmd'[c].command.venue) /\ since = cmd'[c].since
        /\ results = FetchPairs(FromWire(cmd'[c].command.venue), cmd'[c].response)
    OBVIOUS
  <2>3. PICK venue, ticks : venue = v /\ ticks = since
    OBVIOUS
  <2> HIDE DEF v, since, results
  <2>4. cmd[c].stage = "answered" =>
          \A result \in results : result.is = "value" => WereOnline(result.value, venue, ticks)'
    BY <2>1, <2>3, WereOnlineStays
  <2>5. QED
    BY <2>1, <2>2, <2>3, <2>4 DEF AskRuns
<1>2. PairsAreAnswered(c)'
  <2> SUFFICES ASSUME cmd[c].stage = "done", cmd[c].result.is = "pairs"
               PROVE  PairsAreAnswered(c)'
    BY DEF PairsAreAnswered
  <2>1. PICK venue, symbols, depths :
          /\ venue = FromWire(cmd[c].command.venue) /\ symbols = cmd[c].result.symbols
          /\ depths = cmd[c].result.depths
    OBVIOUS
  <2>2. venue \in Venues /\ depths = Depths(venue) /\ WereOnline(symbols, venue, Lifetime)
    BY <2>1 DEF PairsRight, PairsAreAnswered
  <2>3. WereOnline(symbols, venue, Lifetime)'
    BY <2>2, WereOnlineStays, LifetimeIs
  <2>4. QED
    BY <2>1, <2>2, <2>3 DEF PairsAreAnswered
<1>3. QED
  BY <1>1, <1>2 DEF PairsRight

(* A command of another kind, or one that failed, says nothing of pairs.   *)
LEMMA NoPairs ==
  ASSUME NEW c, cmd'[c].stage \notin {"asking", "answered"},
         cmd'[c].stage = "done" => cmd'[c].result.is # "pairs"
  PROVE  PairsRight(c)'
BY DEF PairsRight, AskRuns, PairsAreAnswered

LEMMA DoneNoPairs ==
  ASSUME NEW c \in Clients, DOMAIN cmd = Clients, NEW command, NEW result,
         cmd' = [cmd EXCEPT ![c] = Done(command, result)], result.is # "pairs"
  PROVE  PairsRight(c)'
<1>1. cmd'[c].stage = "done" /\ cmd'[c].result = result
  BY DEF Done
<1>2. QED
  BY <1>1, NoPairs

LEMMA InvalidNoPairs ==
  ASSUME NEW c \in Clients, DOMAIN cmd = Clients, cmd' = [cmd EXCEPT ![c] = Invalid]
  PROVE  PairsRight(c)'
<1>1. Failure("INVALID_COMMAND").is # "pairs"
  BY FailuresDiffer
<1>2. cmd' = [cmd EXCEPT ![c] = Done([kind |-> "invalid"], Failure("INVALID_COMMAND"))]
  BY DEF Invalid
<1>3. QED
  BY <1>1, <1>2, DoneNoPairs

(* What a Start or a Stop is answered is none, and a Start under way too.  *)
LEMMA StartAnswerIs ==
  ASSUME NEW c, NEW result, StartAnswer(c, result)
  PROVE  result.is \in {"error", "started"}
<1>1. \/ \E code : result = Failure(code)
      \/ \E id : result = Started(id)
  BY SentCodes DEF StartAnswer, ResolveTaken
<1>2. QED
  BY <1>1, FailuresDiffer

LEMMA StartEndsNoPairs ==
  ASSUME CommandInv, NEW c \in Clients, Answers(c) \/ AddsOnline(c)
  PROVE  PairsRight(c)'
<1>1. PICK result : /\ cmd' = [cmd EXCEPT ![c] = Done(cmd[c].command, result)]
                    /\ result.is \in {"error", "started"}
  <2>1. CASE Answers(c)
    BY <2>1, SubscribedEffect, StartAnswerIs DEF Answers
  <2>2. CASE AddsOnline(c)
    BY <2>2, SubscribedEffect, FailuresDiffer DEF AddsOnline
  <2>3. QED
    BY <2>1, <2>2
<1>2. DOMAIN cmd = Clients /\ result.is # "pairs"
  BY <1>1 DEF CommandInv
<1>3. PICK command : cmd' = [cmd EXCEPT ![c] = Done(command, result)]
  BY <1>1
<1>4. QED
  BY <1>2, <1>3, DoneNoPairs

LEMMA StartNoPairs ==
  ASSUME CommandInv, NEW c \in Clients, NEW start \in Starts, Start(c, start)
  PROVE  PairsRight(c)'
<1>1. DOMAIN cmd = Clients /\ Error("kIdsExhausted").is # "pairs"
  BY SentCodes, FailuresDiffer DEF CommandInv
<1>2. \/ cmd' = [cmd EXCEPT ![c] = Invalid]
      \/ cmd' = [cmd EXCEPT ![c] = [stage |-> "checking", command |-> start, call |-> Len(calls')]]
      \/ cmd' = [cmd EXCEPT ![c] = Done(start, Error("kIdsExhausted"))]
  BY DEF Start, Become
<1>3. CASE cmd' = [cmd EXCEPT ![c] = [stage |-> "checking", command |-> start, call |-> Len(calls')]]
  <2>1. cmd'[c].stage = "checking"
    BY <1>1, <1>3
  <2>2. QED
    BY <2>1, NoPairs
<1>4. QED
  BY <1>1, <1>2, <1>3, InvalidNoPairs, DoneNoPairs

LEMMA StopNoPairs ==
  ASSUME CommandInv, NEW c \in Clients, NEW stop, Stop(c, stop)
  PROVE  PairsRight(c)'
<1>1. /\ DOMAIN cmd = Clients /\ Failure("SINK_MISMATCH").is # "pairs"
      /\ Error("kUnknownId").is # "pairs" /\ Ok.is # "pairs"
  BY SentCodes, FailuresDiffer DEF CommandInv
<1>2. \/ cmd' = [cmd EXCEPT ![c] = Invalid]
      \/ cmd' = [cmd EXCEPT ![c] = Done(stop, Failure("SINK_MISMATCH"))]
      \/ cmd' = [cmd EXCEPT ![c] = Done(stop, Error("kUnknownId"))]
      \/ cmd' = [cmd EXCEPT ![c] = Done(stop, Ok)]
  BY DEF Stop, Become
<1>3. QED
  BY <1>1, <1>2, InvalidNoPairs, DoneNoPairs

LEMMA StartStepsNoPairs ==
  ASSUME CommandInv, IdInv, VenueInv, NEW c \in Clients, PairsRight(c),
         StartChecks(c) \/ StartFetched(c), ListingsStay
  PROVE  PairsRight(c)'
<1>1. CASE Answers(c) \/ AddsOnline(c)
  BY <1>1, StartEndsNoPairs
<1>2. CASE cmd' = cmd
  BY <1>2, OthersPairs
<1>3. CASE /\ StartChecks(c)
           /\ cmd' = [cmd EXCEPT ![c] = [cmd[c] EXCEPT !.stage = "fetching"]]
  <2>1. cmd[c].stage = "checking" /\ DOMAIN cmd = Clients /\ StartRuns(c)
    BY <1>3 DEF StartChecks, CommandInv, CommandRuns
  <2>2. cmd'[c].stage = "fetching"
    BY <1>3, <2>1 DEF StartRuns
  <2>3. QED
    BY <2>2, NoPairs
<1>4. QED
  BY <1>1, <1>2, <1>3, StartChecksAnswers, StartFetchedAnswers

LEMMA ListingNoPairs ==
  ASSUME CommandInv, NEW c \in Clients,
         \/ Reply(c) \/ UnknownCommand(c) \/ List(c) \/ Listed(c) \/ ListVenues(c)
         \/ (\E v \in Venues : VenueLists(c, v)) \/ \E watch \in Watches : Watch(c, watch)
  PROVE  PairsRight(c)'
<1>1. DOMAIN cmd = Clients /\ Ok.is # "pairs" /\ \A code : Failure(code).is # "pairs"
  BY FailuresDiffer DEF CommandInv
<1>2. CASE Reply(c) \/ UnknownCommand(c)
  <2>1. cmd' = [cmd EXCEPT ![c] = Idle] \/ cmd' = [cmd EXCEPT ![c] = Invalid]
    BY <1>2 DEF Reply, UnknownCommand, Become
  <2>2. CASE cmd' = [cmd EXCEPT ![c] = Idle]
    <3>1. cmd'[c].stage = "idle"
      BY <1>1, <2>2 DEF Idle
    <3>2. QED
      BY <3>1, NoPairs
  <2>3. QED
    BY <1>1, <2>1, <2>2, InvalidNoPairs
<1>3. ASSUME NEW command, cmd' = [cmd EXCEPT ![c] = Listing(command)] PROVE PairsRight(c)'
  <2>1. cmd'[c].stage = "listing"
    BY <1>1, <1>3 DEF Listing
  <2>2. QED
    BY <2>1, NoPairs
<1>4. CASE List(c) \/ \E watch \in Watches : Watch(c, watch)
  <2>1. \/ \E command : cmd' = [cmd EXCEPT ![c] = Listing(command)]
        \/ \E command : cmd' = [cmd EXCEPT ![c] = Done(command, Ok)]
    BY <1>4 DEF List, Watch, Become
  <2>2. QED
    BY <1>1, <1>3, <2>1, DoneNoPairs
<1>5. ASSUME NEW v \in Venues, VenueLists(c, v) PROVE PairsRight(c)'
  <2>1. /\ cmd[c].stage = "listing" /\ ListRuns(c)
        /\ cmd'[c] = [cmd[c] EXCEPT !.asked = @ \cup {v}, !.found = Found(c, v)]
    BY <1>1, <1>5 DEF VenueLists, Become, CommandInv, CommandRuns
  <2>2. DOMAIN cmd[c] = {"stage", "command", "asked", "found", "before"}
    BY <2>1 DEF ListRuns
  <2>3. cmd'[c].stage = "listing"
    BY <2>1, <2>2
  <2>4. QED
    BY <2>3, NoPairs
<1>6. CASE Listed(c)
  <2>1. PICK result :
          /\ cmd' = [cmd EXCEPT ![c] = [stage |-> "done", command |-> cmd[c].command,
                                        result |-> result, before |-> cmd[c].before]]
          /\ result.is = "subscriptions" \/ \E code : result = Failure(code)
    BY <1>6 DEF Listed, AnswerListed, Become
  <2>2. cmd'[c].result = result
    BY <1>1, <2>1
  <2>3. cmd'[c].stage = "done" /\ result.is # "pairs"
    BY <1>1, <2>1
  <2>4. QED
    BY <2>2, <2>3, NoPairs
<1>7. CASE ListVenues(c)
  <2>1. PICK venues : cmd' = [cmd EXCEPT ![c] = Done([kind |-> "list_venues"],
                                                     [is |-> "venues", venues |-> venues])]
    BY <1>7 DEF ListVenues, Become
  <2>2. [is |-> "venues", venues |-> venues].is # "pairs"
    OBVIOUS
  <2>3. QED
    BY <1>1, <2>1, <2>2, DoneNoPairs
<1>8. QED
  BY <1>2, <1>4, <1>5, <1>6, <1>7

(* What was listed less long ago was listed. *)
LEMMA ListingsGrow ==
  ASSUME VenueInv, NEW ago \in 0..Lifetime, NEW ticks \in 0..Lifetime, ago <= ticks
  PROVE  Listings(ago) \subseteq Listings(ticks)
<1>1. \A p \in past : p.ago \in 0..Lifetime
  BY DEF VenueInv
<1>2. \A p \in past : p.ago <= ago => p.ago <= ticks
  BY <1>1, LifetimeIs
<1>3. QED
  BY <1>2 DEF Listings

(* What is cached was listed while the venue was asked or after.           *)
LEMMA ListPairsServes ==
  ASSUME CommandInv, VenueInv, CacheInv, ListingsStay, NEW c \in Clients, NEW list \in PairLists,
         ListPairs(c, list)
  PROVE  PairsRight(c)'
<1>0. PICK v, symbols : v = FromWire(list.venue) /\ symbols = pairs[v]
  OBVIOUS
<1>1. DOMAIN cmd = Clients /\ Error("kUnknownVenue").is # "pairs"
  BY SentCodes, FailuresDiffer DEF CommandInv
<1>2. \/ cmd' = [cmd EXCEPT ![c] = Invalid]
      \/ cmd' = [cmd EXCEPT ![c] = Done(list, Error("kUnknownVenue"))]
      \/ v \in Venues /\ cmd' = [cmd EXCEPT ![c] = [stage |-> "asking", command |-> list, since |-> 0]]
      \/ v \in Venues /\ cmd' = [cmd EXCEPT ![c] = Done(list, PairList(v, symbols))]
  BY <1>0 DEF ListPairs, ManagerListsPairs, Become
<1>3. CASE v \in Venues /\ cmd' = [cmd EXCEPT ![c] = [stage |-> "asking", command |-> list, since |-> 0]]
  <2>1. cmd'[c] = [stage |-> "asking", command |-> list, since |-> 0]
    BY <1>1, <1>3
  <2>2. /\ cmd'[c].stage = "asking" /\ cmd'[c].command = list /\ cmd'[c].since = 0
        /\ "since" \in DOMAIN cmd'[c]
    BY <2>1
  <2>3. QED
    BY <1>0, <1>3, <2>2, LifetimeIs DEF PairsRight, AskRuns, PairsAreAnswered
<1>4. CASE v \in Venues /\ cmd' = [cmd EXCEPT ![c] = Done(list, PairList(v, symbols))]
  <2>1. cmd'[c] = Done(list, PairList(v, symbols))
    BY <1>1, <1>4
  <2>2. /\ cmd'[c].stage = "done" /\ cmd'[c].command = list
        /\ cmd'[c].result.symbols = symbols /\ cmd'[c].result.depths = Depths(v)
    BY <2>1 DEF Done, PairList
  <2>3. WereOnline(symbols, v, Lifetime)
    <3>1. WereOnline(symbols, v, age[v]) /\ age[v] \in 0..Lifetime
      BY <1>0, <1>4 DEF CacheInv
    <3>2. Listings(age[v]) \subseteq Listings(Lifetime)
      <4>1. PICK ago \in 0..Lifetime : ago = age[v]
        BY <3>1
      <4>2. Listings(ago) \subseteq Listings(Lifetime)
        BY ListingsGrow, LifetimeIs
      <4>3. QED
        BY <4>1, <4>2
    <3>3. QED
      BY <3>1, <3>2 DEF WereOnline
  <2>4. WereOnline(symbols, v, Lifetime)'
    BY <2>3, WereOnlineStays, LifetimeIs
  <2>5. QED
    BY <1>0, <1>4, <2>2, <2>4 DEF PairsRight, AskRuns, PairsAreAnswered
<1>5. QED
  BY <1>1, <1>2, <1>3, <1>4, InvalidNoPairs, DoneNoPairs

(* What a venue answers was so while it was asked. *)
LEMMA VenueAnswersPairs ==
  ASSUME CommandInv, VenueInv, ListingsStay, NEW c \in Clients, PairsRight(c), VenueAnswers(c)
  PROVE  PairsRight(c)'
<1>1. /\ DOMAIN cmd = Clients /\ cmd[c].stage = "asking"
  BY DEF CommandInv, VenueAnswers
<1>2. PICK command, since, v :
        command = cmd[c].command /\ since = cmd[c].since /\ v = FromWire(cmd[c].command.venue)
  OBVIOUS
<1>3. since \in 0..Lifetime /\ v \in Venues
  BY <1>1, <1>2 DEF PairsRight, AskRuns
<1>4. PICK response \in {ListAnswer(v)} \cup Failures(v) :
        cmd' = [cmd EXCEPT ![c] = [stage |-> "answered", command |-> command, since |-> since,
                                   response |-> response]]
  BY <1>2 DEF VenueAnswers, Become
<1>5. cmd'[c] = [stage |-> "answered", command |-> command, since |-> since,
                 response |-> response]
  BY <1>1, <1>4
<1>6. /\ cmd'[c].stage = "answered" /\ cmd'[c].command = command /\ cmd'[c].since = since
      /\ cmd'[c].response = response /\ "since" \in DOMAIN cmd'[c]
  BY <1>5
<1>7. ASSUME NEW result \in FetchPairs(v, response), result.is = "value"
      PROVE  WereOnline(result.value, v, since)'
  <2>1. WereOnline(result.value, v, 0)
    BY <1>3, <1>4, <1>7, PairsListed
  <2>2. WereOnline(result.value, v, since)
    <3>1. Listings(0) \subseteq Listings(since)
      BY <1>3, ListingsGrow, LifetimeIs
    <3>2. QED
      BY <2>1, <3>1 DEF WereOnline
  <2>3. QED
    BY <1>3, <2>2, WereOnlineStays
<1>8. QED
  BY <1>2, <1>3, <1>6, <1>7 DEF PairsRight, AskRuns, PairsAreAnswered

(* Who has its pairs has what was listed, cached with the age of its       *)
(* request.                                                                *)
LEMMA PairsFetchedPairs ==
  ASSUME CommandInv, VenueInv, CacheInv, ListingsStay, NEW c \in Clients, PairsRight(c),
         PairsFetched(c)
  PROVE  PairsRight(c)' /\ CacheInv'
<1>1. DOMAIN cmd = Clients /\ cmd[c].stage = "answered"
  BY DEF CommandInv, PairsFetched
<1>2. PICK command, since, v, response :
        /\ command = cmd[c].command /\ since = cmd[c].since /\ v = FromWire(cmd[c].command.venue)
        /\ response = cmd[c].response
  OBVIOUS
<1>3. /\ since \in 0..Lifetime /\ v \in Venues
      /\ \A result \in FetchPairs(v, response) :
           result.is = "value" => WereOnline(result.value, v, since)
  BY <1>1, <1>2 DEF PairsRight, AskRuns
<1>4. PICK result \in FetchPairs(v, response) :
        \/ UNCHANGED <<cmd, pairs, age>>
        \/ /\ cmd' = [cmd EXCEPT ![c] = Done(command, Error(CallVenue(result)))]
           /\ result.is \notin {"abort", "value"} /\ UNCHANGED <<pairs, age>>
        \/ /\ result.is = "value"
           /\ pairs' = [pairs EXCEPT ![v] = result.value]
           /\ age' = [age EXCEPT ![v] = since]
           /\ cmd' = [cmd EXCEPT ![c] = Done(command, PairList(v, result.value))]
  BY <1>2 DEF PairsFetched, Answer, Become, FetchedAgo
<1>5. UNCHANGED <<pairs, age>> => CacheInv'
  <2> SUFFICES ASSUME UNCHANGED <<pairs, age>> PROVE CacheInv'
    OBVIOUS
  <2>1. ASSUME NEW u \in Venues, NEW symbols, NEW ago, symbols = pairs'[u], ago = age'[u]
        PROVE  WereOnline(symbols, u, ago)'
    <3>1. WereOnline(symbols, u, ago) /\ ago \in 0..Lifetime
      BY <2>1 DEF CacheInv
    <3>2. QED
      BY <3>1, WereOnlineStays
  <2>2. QED
    BY <2>1 DEF CacheInv
<1>6. CASE UNCHANGED <<cmd, pairs, age>>
  BY <1>5, <1>6, OthersPairs
<1>7. CASE /\ cmd' = [cmd EXCEPT ![c] = Done(command, Error(CallVenue(result)))]
           /\ result.is \notin {"abort", "value"} /\ UNCHANGED <<pairs, age>>
  <2>1. Error(CallVenue(result)).is # "pairs"
    BY DEF Error, Failure
  <2>2. QED
    BY <1>1, <1>5, <1>7, <2>1, DoneNoPairs
<1>8. CASE /\ result.is = "value"
           /\ pairs' = [pairs EXCEPT ![v] = result.value]
           /\ age' = [age EXCEPT ![v] = since]
           /\ cmd' = [cmd EXCEPT ![c] = Done(command, PairList(v, result.value))]
  <2>1. PICK symbols : symbols = result.value
    OBVIOUS
  <2>2. WereOnline(symbols, v, since)
    BY <1>3, <1>8, <2>1
  <2>3. WereOnline(symbols, v, since)'
    BY <1>3, <2>2, WereOnlineStays
  <2>4. WereOnline(symbols, v, Lifetime)'
    <3>1. Listings(since) \subseteq Listings(Lifetime)
      BY <1>3, ListingsGrow, LifetimeIs
    <3>2. WereOnline(symbols, v, Lifetime)
      BY <2>2, <3>1 DEF WereOnline
    <3>3. QED
      BY <3>2, WereOnlineStays, LifetimeIs
  <2>5. cmd'[c] = Done(command, PairList(v, symbols))
    BY <1>1, <1>8, <2>1
  <2>6. /\ cmd'[c].stage = "done" /\ cmd'[c].command = command
        /\ cmd'[c].result.symbols = symbols /\ cmd'[c].result.depths = Depths(v)
    BY <2>5 DEF Done, PairList
  <2>7. PairsRight(c)'
    BY <1>2, <1>3, <2>4, <2>6 DEF PairsRight, AskRuns, PairsAreAnswered
  <2>8. /\ DOMAIN pairs' = Venues /\ age' \in [Venues -> 0..Lifetime]
        /\ pairs'[v] = symbols /\ age'[v] = since
        /\ \A u \in Venues \ {v} : pairs'[u] = pairs[u] /\ age'[u] = age[u]
    BY <1>3, <1>8, <2>1 DEF CacheInv
  <2>9. ASSUME NEW u \in Venues, NEW cached, NEW ago, cached = pairs'[u], ago = age'[u]
        PROVE  WereOnline(cached, u, ago)'
    <3>1. CASE u = v
      BY <2>3, <2>8, <2>9, <3>1
    <3>2. CASE u # v
      <4>1. WereOnline(cached, u, ago) /\ ago \in 0..Lifetime
        BY <2>8, <2>9, <3>2 DEF CacheInv
      <4>2. QED
        BY <4>1, WereOnlineStays
    <3>3. QED
      BY <3>1, <3>2
  <2>10. QED
    BY <2>7, <2>8, <2>9 DEF CacheInv
<1>9. QED
  BY <1>4, <1>6, <1>7, <1>8

LEMMA SameCache ==
  ASSUME CacheInv, ListingsStay, UNCHANGED <<pairs, age>>
  PROVE  CacheInv'
<1>1. ASSUME NEW u \in Venues, NEW symbols, NEW ago, symbols = pairs'[u], ago = age'[u]
      PROVE  WereOnline(symbols, u, ago)'
  <2>1. WereOnline(symbols, u, ago) /\ ago \in 0..Lifetime
    BY <1>1 DEF CacheInv
  <2>2. QED
    BY <2>1, WereOnlineStays
<1>2. QED
  BY <1>1 DEF CacheInv

-----------------------------------------------------------------------------
(* A tick ages what is cached and what is under way as the catalogues.     *)
LEMMA TickWereOnline ==
  ASSUME VenueInv, Tick, NEW symbols, NEW v, NEW ticks \in 0..Lifetime,
         WereOnline(symbols, v, ticks)
  PROVE  Older(ticks) \in 0..Lifetime /\ WereOnline(symbols, v, Older(ticks))'
<1>1. PICK older : older = Older(ticks)
  OBVIOUS
<1>2. older \in 0..Lifetime
  BY <1>1, LifetimeIs DEF Older
<1>3. Listings(ticks) \subseteq Listings(older)'
  BY <1>1, TickListings
<1>4. WereOnline(symbols, v, older)'
  BY <1>3 DEF WereOnline, OnlineIn
<1>5. QED
  BY <1>1, <1>2, <1>4

LEMMA TickCache ==
  ASSUME VenueInv, CacheInv, Tick
  PROVE  CacheInv'
<1>1. pairs' = pairs /\ age' = [v \in Venues |-> Older(age[v])]
  BY DEF Tick
<1>2. ASSUME NEW v \in Venues, NEW symbols, NEW ago, symbols = pairs'[v], ago = age'[v]
      PROVE  ago \in 0..Lifetime /\ WereOnline(symbols, v, ago)'
  <2>1. PICK ticks : ticks = age[v]
    OBVIOUS
  <2>2. WereOnline(symbols, v, ticks) /\ ticks \in 0..Lifetime /\ ago = Older(ticks)
    BY <1>1, <1>2, <2>1 DEF CacheInv
  <2>3. QED
    BY <2>2, TickWereOnline
<1>3. DOMAIN pairs' = Venues /\ age' \in [Venues -> 0..Lifetime]
  BY <1>1, <1>2 DEF CacheInv
<1>4. QED
  BY <1>2, <1>3 DEF CacheInv

LEMMA TickPairs ==
  ASSUME CommandInv, VenueInv, Tick, NEW c \in Clients, PairsRight(c)
  PROVE  PairsRight(c)'
<1>1. cmd'[c] = IF cmd[c].stage \in {"asking", "answered"}
                  THEN [cmd[c] EXCEPT !.since = Older(@)] ELSE cmd[c]
  BY DEF Tick
<1>2. CASE cmd[c].stage \in {"asking", "answered"}
  <2>1. PICK command, since, v :
          command = cmd[c].command /\ since = cmd[c].since /\ v = FromWire(cmd[c].command.venue)
    OBVIOUS
  <2>2. /\ "since" \in DOMAIN cmd[c] /\ since \in 0..Lifetime /\ v \in Venues
        /\ {"stage", "command"} \subseteq DOMAIN cmd[c]
    BY <1>2, <2>1 DEF PairsRight, AskRuns, CommandInv, CommandRuns, PairsRun
  <2>3. /\ cmd'[c].stage = cmd[c].stage /\ cmd'[c].command = command
        /\ cmd'[c].since = Older(since) /\ "since" \in DOMAIN cmd'[c]
        /\ cmd'[c].response = cmd[c].response
    BY <1>1, <1>2, <2>1, <2>2
  <2>4. ASSUME cmd[c].stage = "answered", NEW result \in FetchPairs(v, cmd'[c].response),
               result.is = "value"
        PROVE  WereOnline(result.value, v, Older(since))'
    <3>1. WereOnline(result.value, v, since)
      BY <2>1, <2>3, <2>4 DEF PairsRight, AskRuns
    <3>2. QED
      BY <2>2, <3>1, TickWereOnline
  <2>5. Older(since) \in 0..Lifetime
    BY <2>2, LifetimeIs DEF Older
  <2>6. QED
    BY <1>2, <2>1, <2>2, <2>3, <2>4, <2>5 DEF PairsRight, AskRuns, PairsAreAnswered
<1>3. CASE cmd[c].stage \notin {"asking", "answered"}
  <2>1. cmd'[c] = cmd[c]
    BY <1>1, <1>3
  <2>2. CASE cmd[c].stage = "done" /\ cmd[c].result.is = "pairs"
    <3>1. PICK venue, symbols, depths :
            /\ venue = FromWire(cmd[c].command.venue) /\ symbols = cmd[c].result.symbols
            /\ depths = cmd[c].result.depths
      OBVIOUS
    <3>2. venue \in Venues /\ depths = Depths(venue) /\ WereOnline(symbols, venue, Lifetime)
      BY <2>2, <3>1 DEF PairsRight, PairsAreAnswered
    <3>3. WereOnline(symbols, venue, Lifetime)'
      <4>1. Older(Lifetime) = Lifetime
        BY LifetimeIs DEF Older
      <4>2. QED
        BY <3>2, <4>1, TickWereOnline, LifetimeIs
    <3>4. QED
      BY <2>1, <2>2, <3>1, <3>2, <3>3 DEF PairsRight, AskRuns, PairsAreAnswered
  <2>3. CASE ~(cmd[c].stage = "done" /\ cmd[c].result.is = "pairs")
    BY <1>3, <2>1, <2>3, NoPairs
  <2>4. QED
    BY <2>2, <2>3
<1>4. QED
  BY <1>2, <1>3

-----------------------------------------------------------------------------
(* At the start nothing is cached, and nothing was listed before. *)
LEMMA InitPairsInv == CommandsInit => PairsInv
<1> SUFFICES ASSUME CommandsInit PROVE PairsInv
  OBVIOUS
<1>1. VenueInv
  BY CatalogueAssumption DEF CommandsInit, VenueInv, Catalogues, CatalogueAssumption
<1>2. CacheInv
  BY LifetimeIs DEF CommandsInit, CacheInv, WereOnline
<1>3. BooksInv
  BY DEF CommandsInit, BooksInv
<1>4. \A c \in Clients : cmd[c].stage = "idle"
  BY DEF CommandsInit, Idle
<1>5. QED
  BY <1>1, <1>2, <1>3, <1>4 DEF PairsInv, AskRuns, PairsAreAnswered

LEMMA ClientStepsBooksHold ==
  ASSUME IdInv, CommandInv, VenueInv, BooksInv, CallsStay, OnlineStays,
         NEW c \in Clients, ClientSteps(c)
  PROVE  BooksInv'
<1>1. CASE books' = books
  BY <1>1, SameBooksHold
<1>2. CASE StartFetched(c)
  <2>1. cmd[c].stage \in {"checking", "fetching"}
    BY <1>2 DEF StartFetched
  <2>2. CASE AddsOnline(c)
    BY <2>1, <2>2, ClientStepsVenues, AddsBooksHold
  <2>3. CASE books' = books
    BY <2>3, SameBooksHold
  <2>4. QED
    BY <1>2, <2>2, <2>3, StartFetchedAnswers DEF Answers
<1>3. QED
  BY <1>1, <1>2, ClientStepsKnow

LEMMA ClientStepsPairs ==
  ASSUME IdInv, CommandInv, VenueInv, CacheInv, ListingsStay, NEW c \in Clients,
         PairsRight(c), ClientSteps(c)
  PROVE  PairsRight(c)'
<1>1. CASE \/ Reply(c) \/ UnknownCommand(c) \/ List(c) \/ Listed(c) \/ ListVenues(c)
           \/ (\E v \in Venues : VenueLists(c, v)) \/ \E watch \in Watches : Watch(c, watch)
  BY <1>1, ListingNoPairs
<1>2. CASE \E start \in Starts : Start(c, start)
  BY <1>2, StartNoPairs
<1>3. CASE \E stop \in Stops : Stop(c, stop)
  BY <1>3, StopNoPairs
<1>4. CASE StartChecks(c) \/ StartFetched(c)
  BY <1>4, StartStepsNoPairs
<1>5. CASE \E list \in PairLists : ListPairs(c, list)
  BY <1>5, ListPairsServes
<1>6. CASE VenueAnswers(c)
  BY <1>6, VenueAnswersPairs
<1>7. CASE PairsFetched(c)
  BY <1>7, PairsFetchedPairs
<1>8. QED
  BY <1>1, <1>2, <1>3, <1>4, <1>5, <1>6, <1>7 DEF ClientSteps

(* A step keeps what is known of the venues' pairs true. *)
LEMMA PairsInvStep ==
  IdInv /\ CommandInv /\ PairsInv /\ [CommandsNext]_commandsVars => PairsInv'
<1> SUFFICES ASSUME IdInv, CommandInv, PairsInv, [CommandsNext]_commandsVars
             PROVE  PairsInv'
  OBVIOUS
<1>1. CallsStay
  BY CommandsCall, NextStays
<1>2. /\ VenueInv /\ CacheInv /\ BooksInv /\ DOMAIN cmd = Clients
      /\ \A c \in Clients : PairsRight(c)
  BY DEF PairsInv, PairsRight, CommandInv
<1>3. ASSUME VenueInv', CacheInv', BooksInv', \A c \in Clients : PairsRight(c)' PROVE PairsInv'
  BY <1>3 DEF PairsInv, PairsRight
<1>4. ASSUME NEW c \in Clients, ClientSteps(c) PROVE PairsInv'
  <2>1. VenueInv' /\ ListingsStay
    BY <1>2, <1>4, ClientStepsVenues, SameListings
  <2>2. CacheInv'
    BY <1>2, <1>4, <2>1, ClientStepsVenues, SameCache, PairsFetchedPairs
  <2>3. BooksInv'
    BY <1>1, <1>2, <1>4, <2>1, StayOnline, ClientStepsBooksHold
  <2>4. PairsRight(c)'
    BY <1>2, <1>4, <2>1, ClientStepsPairs
  <2>5. \A d \in Clients \ {c} : PairsRight(d)'
    BY <1>2, <1>4, <2>1, ClientStepsAlone, OthersPairs
  <2>6. QED
    BY <1>3, <2>1, <2>2, <2>3, <2>4, <2>5
<1>5. ASSUME VenueInv', ListingsStay, UNCHANGED <<cmd, commandVars>> PROVE PairsInv'
  <2>1. CacheInv' /\ BooksInv'
    BY <1>1, <1>2, <1>5, StayOnline, SameCache, SameBooksHold DEF commandVars
  <2>2. \A c \in Clients : PairsRight(c)'
    BY <1>2, <1>5, OthersPairs
  <2>3. QED
    BY <1>3, <1>5, <2>1, <2>2
<1>6. CASE \E v \in Venues, symbol \in Symbols : Change(v, symbol)
  <2>1. UNCHANGED <<cmd, commandVars>>
    BY <1>6 DEF Change
  <2>2. VenueInv' /\ ListingsStay
    BY <1>2, <1>6, ChangeListings
  <2>3. QED
    BY <1>5, <2>1, <2>2
<1>7. CASE UNCHANGED commandsVars
  BY <1>2, <1>5, <1>7, SameListings DEF commandsVars
<1>8. CASE Tick
  <2>1. VenueInv' /\ CacheInv' /\ OnlineStays
    BY <1>2, <1>8, TickListings, TickCache, TickOnline
  <2>2. BooksInv'
    BY <1>1, <1>2, <1>8, <2>1, SameBooksHold DEF Tick
  <2>3. \A c \in Clients : PairsRight(c)'
    BY <1>2, <1>8, TickPairs
  <2>4. QED
    BY <1>3, <2>1, <2>2, <2>3
<1>9. QED
  BY <1>4, <1>6, <1>7, <1>8 DEF CommandsNext

(* What was online while its venue listed it passes the checks, and while  *)
(* it still is its precision can be had.                                   *)
LEMMA PairsInvStart == PairsInv => PairsCanStart
<1> SUFFICES ASSUME PairsInv, NEW c \in Clients, cmd[c].stage = "done", cmd[c].result.is = "pairs",
                    NEW v, v = FromWire(cmd[c].command.venue),
                    NEW symbol \in cmd[c].result.symbols
             PROVE  /\ \A depth \in cmd[c].result.depths :
                         CheckBook(v, [symbol |-> symbol, depth |-> depth]) = "ok"
                    /\ IsOnline(v, symbol)
                    /\ listed[v][symbol] = "online" =>
                         \A response \in PrecisionAnswers(v, symbol) :
                           FetchPrecision(v, response, symbol) = {Returns(Precision)}
  BY DEF PairsCanStart
<1>1. /\ VenueInv /\ v \in Venues /\ cmd[c].result.depths = Depths(v)
      /\ WereOnline(cmd[c].result.symbols, v, Lifetime)
  BY DEF PairsInv, PairsAreAnswered
<1>2. PICK catalogue \in Listings(Lifetime) : cmd[c].result.symbols = OnlineIn(catalogue, v)
  BY <1>1 DEF WereOnline
<1>3. symbol \in Symbols /\ catalogue[v][symbol] = "online"
  BY <1>2 DEF OnlineIn
<1>4. IsCatalogue(catalogue)
  BY <1>1, <1>2 DEF Listings, VenueInv, Catalogues
<1>5. CheckSymbol(v, symbol)
  BY <1>1, <1>3, <1>4 DEF IsCatalogue
<1>6. ASSUME NEW depth \in cmd[c].result.depths
      PROVE  CheckBook(v, [symbol |-> symbol, depth |-> depth]) = "ok"
  <2>1. depth \in Depths(v)
    BY <1>1
  <2>2. QED
    BY <1>5, <2>1 DEF CheckBook
<1>7. IsOnline(v, symbol)
  BY <1>2, <1>3 DEF IsOnline
<1>8. QED
  BY <1>1, <1>3, <1>6, <1>7, OnlineHasPrecision

(* "Lists the pairs a venue can stream, so a client can pick one to Start" *)
(* (market_data.proto:294): each passes the checks at every depth listed,  *)
(* was online within the lifetime of what L2Manager::ListPairs() keeps, or *)
(* is, and while it is, every answer of its venue has its precision.       *)
THEOREM ListedPairsStart == CommandsSpec => []PairsCanStart
<1>1. CommandsInit => IdInv
  BY InitIdInv DEF CommandsInit
<1>2. QED
  BY <1>1, InitCommandInv, InitPairsInv, CommandInvStep, PairsInvStep, PairsInvStart, PTL
     DEF CommandsSpec

-----------------------------------------------------------------------------
(* Pairs that are answered at once were in the cache, and were not stale.  *)
LEMMA IdlePairsServed ==
  ASSUME CommandInv, NEW c \in Clients, cmd[c] = Idle, ClientSteps(c),
         cmd'[c].stage = "done", cmd'[c].result.is = "pairs"
  PROVE  \E list \in PairLists : ListPairs(c, list)
<1>1. cmd[c].stage = "idle" /\ DOMAIN cmd = Clients
  BY DEF Idle, CommandInv
<1>2. Ok.is # "pairs" /\ \A code : Failure(code).is # "pairs"
  BY FailuresDiffer
<1>3. ASSUME NEW command, NEW result, cmd' = [cmd EXCEPT ![c] = Done(command, result)]
      PROVE  result.is = "pairs"
  <2>1. cmd'[c].result = result
    BY <1>1, <1>3 DEF Done
  <2>2. QED
    BY <2>1
<1>4. cmd' # [cmd EXCEPT ![c] = Invalid]
  BY <1>2, <1>3 DEF Invalid
<1>5. ~Reply(c) /\ ~StartChecks(c) /\ ~StartFetched(c) /\ ~Listed(c) /\ ~VenueAnswers(c)
        /\ ~PairsFetched(c) /\ ~\E v \in Venues : VenueLists(c, v)
  BY <1>1 DEF Reply, StartChecks, StartFetched, Listed, VenueAnswers, PairsFetched, VenueLists
<1>6. ~UnknownCommand(c)
  BY <1>4 DEF UnknownCommand, Become
<1>7. ASSUME NEW start \in Starts, Start(c, start) PROVE FALSE
  <2>1. \/ cmd' = [cmd EXCEPT ![c] = [stage |-> "checking", command |-> start, call |-> Len(calls')]]
        \/ cmd' = [cmd EXCEPT ![c] = Done(start, Error("kIdsExhausted"))]
    BY <1>4, <1>7 DEF Start, Become
  <2>2. CASE cmd' = [cmd EXCEPT ![c] = [stage |-> "checking", command |-> start, call |-> Len(calls')]]
    BY <1>1, <2>2
  <2>3. QED
    BY <1>2, <1>3, <2>1, <2>2, SentCodes
<1>8. ASSUME NEW stop \in Stops, Stop(c, stop) PROVE FALSE
  <2>1. \/ cmd' = [cmd EXCEPT ![c] = Done(stop, Failure("SINK_MISMATCH"))]
        \/ cmd' = [cmd EXCEPT ![c] = Done(stop, Error("kUnknownId"))]
        \/ cmd' = [cmd EXCEPT ![c] = Done(stop, Ok)]
    BY <1>4, <1>8 DEF Stop, Become
  <2>2. QED
    BY <1>2, <1>3, <2>1, SentCodes
<1>9. ASSUME NEW command PROVE cmd' # [cmd EXCEPT ![c] = Listing(command)]
  BY <1>1 DEF Listing
<1>10. ~List(c)
  BY <1>9 DEF List, Become
<1>11. ASSUME NEW watch \in Watches, Watch(c, watch) PROVE FALSE
  BY <1>2, <1>3, <1>9, <1>11 DEF Watch, Become
<1>12. ASSUME ListVenues(c) PROVE FALSE
  <2>1. PICK venues : cmd' = [cmd EXCEPT ![c] = Done([kind |-> "list_venues"],
                                                     [is |-> "venues", venues |-> venues])]
    BY <1>12 DEF ListVenues, Become
  <2>2. [is |-> "venues", venues |-> venues].is = "pairs"
    BY <1>3, <2>1
  <2>3. QED
    BY <2>2
<1>13. QED
  BY <1>5, <1>6, <1>7, <1>8, <1>10, <1>11, <1>12 DEF ClientSteps

LEMMA ServedFresh ==
  ASSUME CommandInv, VenueInv, CacheInv, NEW c \in Clients, NEW list \in PairLists,
         ListPairs(c, list), cmd'[c].stage = "done", cmd'[c].result.is = "pairs"
  PROVE  \E catalogue \in Listings(Lifetime - 1) :
           cmd'[c].result.symbols = OnlineIn(catalogue, FromWire(cmd'[c].command.venue))
<1>0. PICK v, symbols : v = FromWire(list.venue) /\ symbols = pairs[v]
  OBVIOUS
<1>1. DOMAIN cmd = Clients /\ \A code : Failure(code).is # "pairs"
  BY FailuresDiffer DEF CommandInv
<1>2. \/ cmd' = [cmd EXCEPT ![c] = Invalid]
      \/ cmd' = [cmd EXCEPT ![c] = Done(list, Error("kUnknownVenue"))]
      \/ cmd' = [cmd EXCEPT ![c] = [stage |-> "asking", command |-> list, since |-> 0]]
      \/ /\ v \in Venues /\ ~Stale(v)
         /\ cmd' = [cmd EXCEPT ![c] = Done(list, PairList(v, symbols))]
  BY <1>0 DEF ListPairs, ManagerListsPairs, Become
<1>3. cmd' # [cmd EXCEPT ![c] = Invalid]
  BY <1>1 DEF Invalid, Done
<1>4. cmd' # [cmd EXCEPT ![c] = Done(list, Error("kUnknownVenue"))]
  BY <1>1, SentCodes DEF Done
<1>5. cmd' # [cmd EXCEPT ![c] = [stage |-> "asking", command |-> list, since |-> 0]]
  BY <1>1
<1>6. v \in Venues /\ ~Stale(v) /\ cmd'[c] = Done(list, PairList(v, symbols))
  BY <1>1, <1>2, <1>3, <1>4, <1>5
<1>7. cmd'[c].command = list /\ cmd'[c].result.symbols = symbols
  BY <1>6 DEF Done, PairList
<1>8. PICK ago : ago = age[v]
  OBVIOUS
<1>9. ago \in 0..Lifetime /\ WereOnline(symbols, v, ago) /\ symbols # {} /\ ~(ago >= Lifetime)
  BY <1>0, <1>6, <1>8 DEF CacheInv, Stale
<1>10. Listings(ago) \subseteq Listings(Lifetime - 1)
  <2>1. ago <= Lifetime - 1 /\ Lifetime - 1 \in 0..Lifetime
    BY <1>9, LifetimeIs
  <2>2. QED
    BY <1>9, <2>1, ListingsGrow
<1>11. \E catalogue \in Listings(Lifetime - 1) : symbols = OnlineIn(catalogue, v)
  BY <1>9, <1>10 DEF WereOnline
<1>12. QED
  BY <1>0, <1>7, <1>11

(* Every command but those of the clients leaves what is idle so. *)
LEMMA StepFresh ==
  ASSUME CommandInv, PairsInv, [CommandsNext]_commandsVars, NEW c \in Clients,
         cmd[c] = Idle, cmd'[c].stage = "done", cmd'[c].result.is = "pairs"
  PROVE  \E catalogue \in Listings(Lifetime - 1) :
           cmd'[c].result.symbols = OnlineIn(catalogue, FromWire(cmd'[c].command.venue))
<1>1. VenueInv /\ CacheInv /\ DOMAIN cmd = Clients /\ cmd[c].stage = "idle"
  BY DEF PairsInv, CommandInv, Idle
<1>2. CASE ClientSteps(c)
  BY <1>1, <1>2, IdlePairsServed, ServedFresh
<1>3. ASSUME NEW d \in Clients, ClientSteps(d), d # c PROVE FALSE
  BY <1>1, <1>3, ClientStepsAlone
<1>4. ASSUME cmd' = cmd PROVE FALSE
  BY <1>1, <1>4
<1>5. CASE Tick
  <2>1. cmd'[c] = cmd[c]
    BY <1>1, <1>5 DEF Tick
  <2>2. QED
    BY <1>1, <2>1
<1>6. QED
  BY <1>2, <1>3, <1>4, <1>5 DEF CommandsNext, Change, commandsVars

(* Pairs served from before were the venue's less than a lifetime ago,     *)
(* however long they took to arrive (l2_manager.cc:44), and however many   *)
(* clients ask meanwhile.                                                  *)
THEOREM ServedPairsAreFresh == CommandsSpec => PairsFresh
<1>1. CommandsInit => IdInv
  BY InitIdInv DEF CommandsInit
<1>2. ASSUME CommandInv, PairsInv, [CommandsNext]_commandsVars
      PROVE  [\A c \in Clients : cmd[c] = Idle /\ cmd'[c].stage = "done"
                                   /\ cmd'[c].result.is = "pairs" =>
                \E catalogue \in Listings(Lifetime - 1) :
                  cmd'[c].result.symbols =
                    OnlineIn(catalogue, FromWire(cmd'[c].command.venue))]_commandsVars
  BY <1>2, StepFresh
<1>3. QED
  BY <1>1, <1>2, InitCommandInv, InitPairsInv, CommandInvStep, PairsInvStep, PTL
     DEF CommandsSpec, PairsFresh

-----------------------------------------------------------------------------
(* What a command is answered is true when it is.                          *)
ReplyHolds(c) ==
  LET kind == cmd[c].command.kind
  IN /\ kind = "start" => StartHolds(c)
     /\ kind = "stop" => StopHolds(c)
     /\ kind = "watch" => WatchHolds(c)

LEMMA OtherKinds ==
  ASSUME NEW c, cmd'[c].command.kind \notin {"start", "stop", "watch"}
  PROVE  ReplyHolds(c)'
BY DEF ReplyHolds

LEMMA InvalidHolds ==
  ASSUME NEW c \in Clients, DOMAIN cmd = Clients, cmd' = [cmd EXCEPT ![c] = Invalid]
  PROVE  ReplyHolds(c)'
<1>1. cmd'[c].command.kind = "invalid"
  BY DEF Invalid, Done
<1>2. QED
  BY <1>1, OtherKinds

LEMMA StartReplies ==
  ASSUME CommandInv, NEW c \in Clients, NEW start \in Starts, Start(c, start),
         cmd'[c].stage = "done"
  PROVE  ReplyHolds(c)'
<1>1. DOMAIN cmd = Clients /\ start.kind = "start"
  BY DEF CommandInv, Starts
<1>2. \/ cmd' = [cmd EXCEPT ![c] = Invalid]
      \/ cmd' = [cmd EXCEPT ![c] = [stage |-> "checking", command |-> start, call |-> Len(calls')]]
      \/ cmd' = [cmd EXCEPT ![c] = Done(start, Error("kIdsExhausted"))]
  BY DEF Start, Become
<1>3. CASE cmd' = [cmd EXCEPT ![c] = [stage |-> "checking", command |-> start, call |-> Len(calls')]]
  BY <1>1, <1>3
<1>4. CASE cmd' = [cmd EXCEPT ![c] = Done(start, Error("kIdsExhausted"))]
  <2>1. cmd'[c].command = start /\ cmd'[c].result = Failure("IDS_EXHAUSTED")
    BY <1>1, <1>4, SentCodes DEF Done
  <2>2. /\ Failure("IDS_EXHAUSTED").is # "started"
        /\ Failure("IDS_EXHAUSTED") # Failure("SYMBOL_IN_USE")
        /\ Failure("IDS_EXHAUSTED") # Failure("UNKNOWN_SYMBOL")
    BY FailuresDiffer
  <2>3. StartHolds(c)'
    BY <2>1, <2>2, StartHoldsBy
  <2>4. QED
    BY <1>1, <2>1, <2>3 DEF ReplyHolds
<1>5. QED
  BY <1>1, <1>2, <1>3, <1>4, InvalidHolds

LEMMA StartStepsReply ==
  ASSUME CommandInv, IdInv, PairsInv, NEW c \in Clients, StartChecks(c) \/ StartFetched(c),
         UNCHANGED venueVars, cmd[c].stage # "done", cmd'[c].stage = "done"
  PROVE  ReplyHolds(c)'
<1>1. /\ VenueInv /\ BooksInv /\ cmd[c].stage \in {"checking", "fetching"}
      /\ DOMAIN cmd = Clients /\ StartRuns(c)
  BY DEF PairsInv, StartChecks, StartFetched, CommandInv, CommandRuns
<1>2. cmd[c].command.kind = "start" /\ DOMAIN cmd[c] = {"stage", "command", "call"}
  BY <1>1 DEF StartRuns, Starts
<1>3. Answers(c) \/ AddsOnline(c)
  <2>1. cmd' # cmd
    OBVIOUS
  <2>2. cmd' # [cmd EXCEPT ![c] = [cmd[c] EXCEPT !.stage = "fetching"]]
    BY <1>1, <1>2
  <2>3. QED
    BY <1>1, <2>1, <2>2, StartChecksAnswers, StartFetchedAnswers
<1>4. StartHolds(c)'
  BY <1>1, <1>3, AnswersHold, AddsHold
<1>5. cmd'[c].command = cmd[c].command
  BY <1>1, <1>3, SubscribedEffect DEF Answers, AddsOnline, Done
<1>6. QED
  BY <1>2, <1>4, <1>5 DEF ReplyHolds

(* What is stopped is gone, whichever manager had it; what is unknown was. *)
LEMMA StopReplies ==
  ASSUME CommandInv, IdInv, NEW c \in Clients, NEW stop \in Stops, Stop(c, stop)
  PROVE  ReplyHolds(c)'
<1>1. DOMAIN cmd = Clients /\ stop.kind = "stop"
  BY DEF CommandInv, Stops
<1>2. \A v \in Venues : \A id \in tables[v] : VenueOf(id) = v
  BY IdInvReaches DEF IdsReachTheirManager
<1>3. PICK id, sink : id = stop.id /\ sink = stop.sink
  OBVIOUS
<1>4. Ok # Failure("UNKNOWN_ID") /\ Failure("SINK_MISMATCH") # Ok
        /\ Failure("SINK_MISMATCH") # Failure("UNKNOWN_ID")
  BY FailuresDiffer
<1>5. \/ cmd' = [cmd EXCEPT ![c] = Invalid]
      \/ /\ FromWire(sink) # None /\ SinkOf(id) # FromWire(sink)
         /\ cmd' = [cmd EXCEPT ![c] = Done(stop, Failure("SINK_MISMATCH"))]
      \/ /\ ~(VenueOf(id) \in Venues /\ id \in tables[VenueOf(id)]) /\ UNCHANGED idVars
         /\ cmd' = [cmd EXCEPT ![c] = Done(stop, Error("kUnknownId"))]
      \/ /\ FromWire(sink) # None /\ SinkOf(id) = FromWire(sink) /\ Unsubscribe(id)
         /\ cmd' = [cmd EXCEPT ![c] = Done(stop, Ok)]
  BY <1>3 DEF Stop, Become, NamesOtherSink
<1>6. ASSUME NEW result, cmd' = [cmd EXCEPT ![c] = Done(stop, result)],
             result = Ok => id \notin AllIds' /\ SinkOf(id) = sink - 1,
             result = Failure("UNKNOWN_ID") => id \notin AllIds',
             result = Failure("SINK_MISMATCH") => SinkOf(id) # sink - 1
      PROVE  ReplyHolds(c)'
  <2>1. cmd'[c].command = stop /\ cmd'[c].result = result
    BY <1>1, <1>6 DEF Done
  <2>2. StopHolds(c)'
    BY <1>3, <1>6, <2>1 DEF StopHolds
  <2>3. QED
    BY <1>1, <2>1, <2>2 DEF ReplyHolds
<1>7. CASE /\ ~(VenueOf(id) \in Venues /\ id \in tables[VenueOf(id)]) /\ UNCHANGED idVars
           /\ cmd' = [cmd EXCEPT ![c] = Done(stop, Error("kUnknownId"))]
  <2>1. id \notin AllIds'
    BY <1>2, <1>7 DEF AllIds, idVars
  <2>2. QED
    BY <1>4, <1>6, <1>7, <2>1, SentCodes
<1>8. CASE /\ FromWire(sink) # None /\ SinkOf(id) = FromWire(sink) /\ Unsubscribe(id)
           /\ cmd' = [cmd EXCEPT ![c] = Done(stop, Ok)]
  <2>1. SinkOf(id) = sink - 1
    BY <1>8 DEF FromWire
  <2>2. id \notin AllIds'
    <3>1. tables' = [tables EXCEPT ![VenueOf(id)] = @ \ {id}] /\ DOMAIN tables = Venues
      BY <1>8 DEF Unsubscribe, IdInv, TablesEncoded
    <3>2. ASSUME NEW v \in Venues, id \in tables'[v] PROVE FALSE
      <4>1. CASE v = VenueOf(id)
        BY <3>1, <3>2, <4>1
      <4>2. CASE v # VenueOf(id)
        BY <1>2, <3>1, <3>2, <4>2
      <4>3. QED
        BY <4>1, <4>2
    <3>3. QED
      BY <3>2 DEF AllIds
  <2>3. QED
    BY <1>4, <1>6, <1>8, <2>1, <2>2
<1>9. CASE /\ FromWire(sink) # None /\ SinkOf(id) # FromWire(sink)
           /\ cmd' = [cmd EXCEPT ![c] = Done(stop, Failure("SINK_MISMATCH"))]
  <2>1. SinkOf(id) # sink - 1
    BY <1>9 DEF FromWire
  <2>2. QED
    BY <1>4, <1>6, <1>9, <2>1
<1>10. QED
  BY <1>1, <1>5, <1>7, <1>8, <1>9, InvalidHolds

LEMMA WatchReplies ==
  ASSUME CommandInv, NEW c \in Clients, NEW watch \in Watches, Watch(c, watch),
         cmd'[c].stage = "done"
  PROVE  ReplyHolds(c)'
<1>1. DOMAIN cmd = Clients /\ watch.kind = "watch"
  BY DEF CommandInv, Watches
<1>2. cmd' # [cmd EXCEPT ![c] = Listing(watch)]
  BY <1>1 DEF Listing
<1>3. cmd'[c].command = watch /\ cmd'[c].result = Ok
  BY <1>1, <1>2 DEF Watch, Become, Done
<1>4. WatchHolds(c)'
  BY <1>3, FailuresDiffer DEF WatchHolds
<1>5. QED
  BY <1>1, <1>3, <1>4 DEF ReplyHolds

(* A recording that was there all the while was found, and what was a live *)
(* stream all the while would not have been listed for.                    *)
LEMMA ListedReplies ==
  ASSUME CommandInv, NEW c \in Clients, Listed(c)
  PROVE  ReplyHolds(c)'
<1>1. /\ cmd[c].stage = "listing" /\ DOMAIN cmd = Clients /\ ListRuns(c)
      /\ tables' = tables /\ cmd[c].asked = Venues
  BY DEF CommandInv, CommandRuns, Listed, idVars
<1>2. PICK command, found, before :
        command = cmd[c].command /\ found = cmd[c].found /\ before = cmd[c].before
  OBVIOUS
<1>3. /\ command.kind \in {"list", "watch"} /\ WatchMissed(c)
      /\ \A l \in found : IsListing(l)
      /\ \A v \in Venues : \A id \in before \cap tables[v] : <<v, id>> \in found
  BY <1>1, <1>2 DEF ListRuns
<1>4. CASE command.kind = "list"
  <2>1. PICK result : cmd'[c] = [stage |-> "done", command |-> command, result |-> result,
                                 before |-> before]
    BY <1>1, <1>2 DEF Listed, AnswerListed, Become
  <2>2. cmd'[c].command = command
    BY <2>1
  <2>3. QED
    BY <1>4, <2>2, OtherKinds
<1>5. CASE command.kind = "watch"
  <2>1. PICK id : id = command.id
    OBVIOUS
  <2>2. PICK code : /\ code = IF IsRecording(id) /\ \E l \in found : l[2] = id
                                THEN "SINK_MISMATCH" ELSE "UNKNOWN_ID"
                    /\ cmd'[c] = [stage |-> "done", command |-> command,
                                  result |-> Failure(code), before |-> before]
    BY <1>1, <1>2, <1>5, <2>1 DEF Listed, AnswerListed, Become
  <2>3. cmd'[c].command = command /\ cmd'[c].result = Failure(code) /\ cmd'[c].before = before
    BY <2>2
  <2>4. Failure(code) = Failure("SINK_MISMATCH") => SinkOf(id) = 1
    BY <2>2, FailuresDiffer DEF IsRecording
  <2>5. ASSUME Failure(code) = Failure("UNKNOWN_ID"), id \in before, NEW v \in Venues,
               id \in tables[v]
        PROVE  FALSE
    <3>1. <<v, id>> \in found /\ <<v, id>>[2] = id
      BY <1>3, <2>5
    <3>2. ~IsRecording(id)
      BY <2>2, <2>5, <3>1, FailuresDiffer
    <3>3. SinkOf(id) \in {0, 1}
      BY <1>3, <3>1, TwoOfEach DEF IsListing
    <3>4. SinkOf(id) = 0
      BY <3>2, <3>3 DEF IsRecording
    <3>5. QED
      BY <1>2, <1>3, <1>5, <2>1, <2>5, <3>4 DEF WatchMissed
  <2>6. WatchHolds(c)'
    BY <1>1, <2>1, <2>3, <2>4, <2>5 DEF WatchHolds, AllIds
  <2>7. QED
    BY <1>5, <2>3, <2>6 DEF ReplyHolds
<1>6. QED
  BY <1>3, <1>4, <1>5

LEMMA ClientStepsReply ==
  ASSUME CommandInv, IdInv, PairsInv, NEW c \in Clients, ClientSteps(c),
         cmd[c].stage # "done", cmd'[c].stage = "done"
  PROVE  ReplyHolds(c)'
<1>1. DOMAIN cmd = Clients /\ UNCHANGED venueVars /\ CommandRuns(c)
  BY ClientStepsVenues DEF CommandInv
<1>2. CASE Reply(c) \/ UnknownCommand(c) \/ VenueAnswers(c) \/ List(c)
             \/ \E v \in Venues : VenueLists(c, v)
  <2>1. ~Reply(c)
    BY DEF Reply
  <2>2. CASE UnknownCommand(c)
    BY <1>1, <2>2, InvalidHolds DEF UnknownCommand, Become
  <2>3. ASSUME VenueAnswers(c) PROVE FALSE
    <3>1. PICK since, command, response :
            cmd'[c] = [stage |-> "answered", command |-> command, since |-> since,
                       response |-> response]
      BY <1>1, <2>3 DEF VenueAnswers, Become
    <3>2. cmd'[c].stage = "answered"
      BY <3>1
    <3>3. QED
      BY <3>2
  <2>4. ASSUME List(c) PROVE FALSE
    BY <1>1, <2>4 DEF List, Become, Listing
  <2>5. ASSUME NEW v \in Venues, VenueLists(c, v) PROVE FALSE
    <3>1. /\ cmd[c].stage = "listing"
          /\ cmd'[c] = [cmd[c] EXCEPT !.asked = @ \cup {v}, !.found = Found(c, v)]
      BY <1>1, <2>5 DEF VenueLists, Become
    <3>2. DOMAIN cmd[c] = {"stage", "command", "asked", "found", "before"}
      BY <1>1, <3>1 DEF CommandRuns, ListRuns
    <3>3. QED
      BY <3>1, <3>2
  <2>6. QED
    BY <1>2, <2>1, <2>2, <2>3, <2>4, <2>5
<1>3. CASE \E start \in Starts : Start(c, start)
  BY <1>3, StartReplies
<1>4. CASE StartChecks(c) \/ StartFetched(c)
  BY <1>1, <1>4, StartStepsReply
<1>5. CASE \E stop \in Stops : Stop(c, stop)
  BY <1>5, StopReplies
<1>6. CASE (\E watch \in Watches : Watch(c, watch)) \/ Listed(c)
  BY <1>6, WatchReplies, ListedReplies
<1>7. CASE ListVenues(c)
  <2>1. PICK result : cmd'[c] = Done([kind |-> "list_venues"], result)
    BY <1>1, <1>7 DEF ListVenues, Become
  <2>2. cmd'[c].command.kind = "list_venues"
    BY <2>1 DEF Done
  <2>3. QED
    BY <2>2, OtherKinds
<1>8. ASSUME NEW list \in PairLists, ListPairs(c, list) PROVE ReplyHolds(c)'
  <2>1. list.kind = "list_pairs"
    BY DEF PairLists
  <2>2. \/ cmd' = [cmd EXCEPT ![c] = Invalid]
        \/ \E result : cmd'[c] = Done(list, result)
        \/ cmd'[c] = [stage |-> "asking", command |-> list, since |-> 0]
    BY <1>1, <1>8 DEF ListPairs, ManagerListsPairs, Become
  <2>3. CASE \E result : cmd'[c] = Done(list, result)
    <3>1. cmd'[c].command = list
      BY <2>3 DEF Done
    <3>2. QED
      BY <2>1, <3>1, OtherKinds
  <2>4. cmd'[c] # [stage |-> "asking", command |-> list, since |-> 0]
    OBVIOUS
  <2>5. QED
    BY <1>1, <2>2, <2>3, <2>4, InvalidHolds
<1>9. CASE PairsFetched(c)
  <2>1. cmd[c].command.kind = "list_pairs"
    BY <1>1, <1>9, PairsFetchedEffect DEF CommandRuns, PairsRun
  <2>2. cmd'[c].command = cmd[c].command
    BY <1>1, <1>9, PairsFetchedEffect DEF Done
  <2>3. QED
    BY <2>1, <2>2, OtherKinds
<1>10. QED
  BY <1>2, <1>3, <1>4, <1>5, <1>6, <1>7, <1>8, <1>9 DEF ClientSteps

LEMMA StepReplies ==
  ASSUME CommandInv, IdInv, PairsInv, [CommandsNext]_commandsVars, NEW c \in Clients,
         cmd[c].stage # "done", cmd'[c].stage = "done"
  PROVE  ReplyHolds(c)'
<1>1. DOMAIN cmd = Clients /\ PairsRun(c)
  BY DEF CommandInv, CommandRuns
<1>2. CASE ClientSteps(c)
  BY <1>2, ClientStepsReply
<1>3. ASSUME NEW d \in Clients, ClientSteps(d), d # c PROVE FALSE
  BY <1>1, <1>3, ClientStepsAlone
<1>4. ASSUME Tick PROVE FALSE
  <2>1. cmd'[c] = IF cmd[c].stage \in {"asking", "answered"}
                    THEN [cmd[c] EXCEPT !.since = Older(@)] ELSE cmd[c]
    BY <1>4 DEF Tick
  <2>2. cmd'[c].stage = cmd[c].stage
    BY <1>1, <2>1 DEF PairsRun
  <2>3. QED
    BY <2>2
<1>5. cmd' # cmd
  OBVIOUS
<1>6. QED
  BY <1>2, <1>3, <1>4, <1>5 DEF CommandsNext, Change, commandsVars

(* However the clients' commands overlap, each is answered with what is    *)
(* true when it is: Start() with an id of the very subscription asked for, *)
(* or the reason that holds, Stop() with a subscription that is gone, and  *)
(* Watch() with no live stream called a recording (server.cc:525).         *)
THEOREM RepliesAreTrue == CommandsSpec => RepliesHold
<1>1. CommandsInit => IdInv
  BY InitIdInv DEF CommandsInit
<1>2. ASSUME IdInv, CommandInv, PairsInv, [CommandsNext]_commandsVars
      PROVE  [\A c \in Clients : cmd'[c].stage = "done" /\ cmd[c].stage # "done" =>
                LET kind == cmd'[c].command.kind
                IN /\ kind = "start" => StartHolds(c)'
                   /\ kind = "stop" => StopHolds(c)'
                   /\ kind = "watch" => WatchHolds(c)']_commandsVars
  BY <1>2, StepReplies DEF ReplyHolds
<1>3. QED
  BY <1>1, <1>2, InitCommandInv, InitPairsInv, CommandInvStep, PairsInvStep, PTL
     DEF CommandsSpec, RepliesHold

-----------------------------------------------------------------------------
(* Arithmetic and induction.  Every set of numbers has a least one.        *)
LEMMA Least ==
  ASSUME NEW S \in SUBSET Nat, S # {}
  PROVE  \E n \in S : \A m \in S : n <= m
<1>1. \E less : /\ IsWellFoundedOn(less, Nat)
                /\ \A x, y \in Nat : y < x => <<y, x>> \in less
  <2>1. \A x, y \in Nat : y < x => <<y, x>> \in OpToRel(<, Nat)
    BY DEF OpToRel
  <2>2. QED
    BY <2>1, NatLessThanWellFounded
<1>2. PICK less : /\ IsWellFoundedOn(less, Nat)
                  /\ \A x, y \in Nat : y < x => <<y, x>> \in less
  BY <1>1
<1>3. PICK n \in S : \A m \in S : ~(<<m, n>> \in less)
  BY <1>2, WFMin
<1>4. \A m \in S : ~(m < n)
  BY <1>2, <1>3
<1>5. QED
  BY <1>3, <1>4

(* A set that has 0 and, with each number, the next, has them all. *)
LEMMA Inductive ==
  ASSUME NEW T, NEW b \in Nat, 0 \in T, \A n \in 0..(b - 1) : n \in T => n + 1 \in T
  PROVE  \A n \in 0..b : n \in T
<1> DEFINE S == {n \in 0..b : n \notin T}
<1>1. SUFFICES ASSUME S # {} PROVE FALSE
  OBVIOUS
<1>2. S \in SUBSET Nat
  OBVIOUS
<1>3. PICK n \in S : \A m \in S : n <= m
  <2> HIDE DEF S
  <2>1. QED
    BY <1>1, <1>2, Least
<1>4. n # 0 /\ n \in 0..b /\ n \notin T
  BY <1>3
<1>5. n - 1 \in 0..(b - 1) /\ n - 1 \in 0..b /\ ~(n <= n - 1)
  BY <1>4
<1>6. n - 1 \in T
  BY <1>3, <1>5
<1>7. (n - 1) + 1 \in T
  BY <1>5, <1>6
<1>8. QED
  BY <1>4, <1>5, <1>7

(* A sequence of states, each from the one before, is there.              *)
Closed(g, X, N) == \A x \in X, n \in 1..N : g[<<x, n>>] \in X

Runs(f, a, g, X, k) ==
  /\ f \in [0..k -> X]
  /\ \A n \in 0..k : f[n] = IF n = 0 THEN a ELSE g[<<f[n - 1], n>>]

LEMMA Recursion ==
  ASSUME NEW X, NEW N \in Nat, NEW a \in X, NEW g, Closed(g, X, N)
  PROVE  \E f : Runs(f, a, g, X, N)
<1> DEFINE T == {k \in Nat : \E f : Runs(f, a, g, X, k)}
<1>1. 0 \in T
  <2>1. Runs([n \in 0..0 |-> a], a, g, X, 0)
    BY DEF Runs
  <2>2. QED
    BY <2>1
<1>2. ASSUME NEW k \in 0..(N - 1), k \in T
      PROVE  k + 1 \in T
  <2>1. PICK f : Runs(f, a, g, X, k)
    BY <1>2
  <2> DEFINE h == [n \in 0..(k + 1) |-> IF n = k + 1 THEN g[<<f[k], k + 1>>] ELSE f[n]]
  <2>2. \A n \in 0..k : f[n] \in X /\ h[n] = f[n]
    BY <2>1 DEF Runs
  <2>3. k \in 0..k /\ k + 1 \in 1..N /\ k + 1 \in 0..(k + 1)
    OBVIOUS
  <2>4. h[k + 1] = g[<<f[k], k + 1>>] /\ h[k + 1] \in X
    BY <2>2, <2>3 DEF Closed
  <2>5. \A n \in 0..(k + 1) : n = k + 1 \/ n \in 0..k
    OBVIOUS
  <2>6. h \in [0..(k + 1) -> X]
    BY <2>2, <2>4, <2>5
  <2> HIDE DEF h
  <2>7. ASSUME NEW n \in 0..(k + 1)
        PROVE  h[n] = IF n = 0 THEN a ELSE g[<<h[n - 1], n>>]
    <3>1. CASE n = k + 1
      <4>1. n # 0 /\ n - 1 = k
        BY <3>1
      <4>2. QED
        BY <2>2, <2>3, <2>4, <3>1, <4>1
    <3>2. CASE n \in 0..k
      <4>1. n = 0 \/ n - 1 \in 0..k
        BY <3>2
      <4>2. f[n] = IF n = 0 THEN a ELSE g[<<f[n - 1], n>>]
        BY <2>1, <3>2 DEF Runs
      <4>3. QED
        BY <2>2, <3>2, <4>1, <4>2
    <3>3. QED
      BY <2>5, <3>1, <3>2
  <2>8. Runs(h, a, g, X, k + 1)
    BY <2>6, <2>7 DEF Runs
  <2>9. QED
    BY <2>8
<1> HIDE DEF T
<1>3. \A k \in 0..N : k \in T
  BY <1>1, <1>2, Inductive
<1>4. N \in T
  BY <1>3
<1>5. QED
  BY <1>4 DEF T

-----------------------------------------------------------------------------
(* The retries of the Router's thread.  Its delays are the first one       *)
(* doubled as often as an attempt failed, up to the limit.                 *)
Waits(n) == IF Doubled[n] < MaxDelay THEN Doubled[n] ELSE MaxDelay

LEMMA DoubledIs ==
  /\ Doubled[0] = Initial
  /\ \A n \in 1..MaxDelay : Doubled[n] = 2 * Doubled[n - 1]
  /\ \A n \in 0..MaxDelay : Doubled[n] \in Nat /\ Doubled[n] > n
<1> DEFINE P(f) == f = [n \in 0..MaxDelay |-> IF n = 0 THEN Initial ELSE 2 * f[n - 1]]
           d == Doubled
           g == [p \in Nat \X (1..MaxDelay) |-> 2 * p[1]]
<1>1. d = CHOOSE f : P(f)
  BY DEF Doubled
<1>2. MaxDelay \in Nat /\ Initial \in Nat \ {0}
  BY SupervisorAssumption
<1>3. \A x \in Nat, n \in 1..MaxDelay : g[<<x, n>>] = 2 * x
  OBVIOUS
<1> HIDE DEF g
<1>4. PICK f : Runs(f, Initial, g, Nat, MaxDelay)
  <2>1. ASSUME NEW x \in Nat, NEW n \in 1..MaxDelay
        PROVE  g[<<x, n>>] \in Nat
    BY <1>3
  <2>2. Closed(g, Nat, MaxDelay)
    BY <2>1 DEF Closed
  <2>3. QED
    BY <1>2, <2>2, Recursion
<1>5. P(f)
  <2>1. f \in [0..MaxDelay -> Nat] /\ \A n \in 0..MaxDelay : f[n] = IF n = 0 THEN Initial ELSE g[<<f[n - 1], n>>]
    BY <1>4 DEF Runs
  <2>2. \A n \in 0..MaxDelay : n = 0 \/ (n \in 1..MaxDelay /\ n - 1 \in 0..MaxDelay)
    BY <1>2
  <2>3. \A n \in 0..MaxDelay : f[n] = IF n = 0 THEN Initial ELSE 2 * f[n - 1]
    BY <1>3, <2>1, <2>2
  <2>4. f = [n \in 0..MaxDelay |-> f[n]]
    BY <2>1
  <2>5. QED
    BY <2>3, <2>4
<1>6. P(d)
  BY <1>1, <1>5
<1> HIDE DEF d
<1>7. d[0] = Initial /\ \A n \in 1..MaxDelay : d[n] = 2 * d[n - 1]
  <2>1. \A n \in 0..MaxDelay : d[n] = IF n = 0 THEN Initial ELSE 2 * d[n - 1]
    BY <1>6
  <2>2. 0 \in 0..MaxDelay /\ \A n \in 1..MaxDelay : n \in 0..MaxDelay /\ n # 0
    BY <1>2
  <2>3. QED
    BY <2>1, <2>2
<1> DEFINE T == {n \in Nat : d[n] \in Nat /\ d[n] > n}
<1>8. 0 \in T
  BY <1>2, <1>7
<1>9. ASSUME NEW n \in 0..(MaxDelay - 1), n \in T
      PROVE  n + 1 \in T
  <2>1. n + 1 \in 1..MaxDelay /\ (n + 1) - 1 = n /\ n \in Nat
    BY <1>2
  <2>2. d[n + 1] = 2 * d[n] /\ d[n] \in Nat /\ d[n] > n
    BY <1>7, <1>9, <2>1
  <2>3. QED
    BY <2>1, <2>2
<1> HIDE DEF T
<1>10. \A n \in 0..MaxDelay : n \in T
  BY <1>2, <1>8, <1>9, Inductive
<1>11. QED
  BY <1>7, <1>10 DEF T, d

LEMMA WaitsGrow ==
  /\ Waits(0) = Initial /\ Waits(MaxDelay) = MaxDelay
  /\ \A n \in 0..MaxDelay : Waits(n) \in 0..MaxDelay
  /\ \A n \in 0..(MaxDelay - 1) :
       Waits(n + 1) = NextDelay(Waits(n)) /\ Waits(n) <= Waits(n + 1)
<1> DEFINE d == Doubled
<1>1. MaxDelay \in Nat /\ Initial \in Nat \ {0} /\ Initial <= MaxDelay
  BY SupervisorAssumption
<1>2. /\ d[0] = Initial /\ \A n \in 1..MaxDelay : d[n] = 2 * d[n - 1]
      /\ \A n \in 0..MaxDelay : d[n] \in Nat /\ d[n] > n
  BY DoubledIs
<1>3. \A n : Waits(n) = IF d[n] < MaxDelay THEN d[n] ELSE MaxDelay
  BY DEF Waits
<1> HIDE DEF d
<1>4. Waits(0) = Initial
  BY <1>1, <1>2, <1>3
<1>5. Waits(MaxDelay) = MaxDelay
  <2>1. MaxDelay \in 0..MaxDelay
    BY <1>1
  <2>2. d[MaxDelay] \in Nat /\ d[MaxDelay] > MaxDelay
    BY <1>2, <2>1
  <2>3. QED
    BY <1>1, <1>3, <2>2
<1>6. \A n \in 0..MaxDelay : Waits(n) \in 0..MaxDelay
  BY <1>1, <1>2, <1>3
<1>7. ASSUME NEW n \in 0..(MaxDelay - 1)
      PROVE  Waits(n + 1) = NextDelay(Waits(n)) /\ Waits(n) <= Waits(n + 1)
  <2>1. n + 1 \in 1..MaxDelay /\ (n + 1) - 1 = n /\ n \in 0..MaxDelay
    BY <1>1
  <2>2. d[n + 1] = 2 * d[n] /\ d[n] \in Nat
    BY <1>2, <2>1
  <2>3. NextDelay(Waits(n)) = IF Waits(n) * 2 < MaxDelay THEN Waits(n) * 2 ELSE MaxDelay
    BY DEF NextDelay
  <2>4. CASE d[n] < MaxDelay
    BY <1>1, <1>3, <2>2, <2>3, <2>4
  <2>5. CASE ~(d[n] < MaxDelay)
    BY <1>1, <1>3, <2>2, <2>3, <2>5
  <2>6. QED
    BY <2>4, <2>5
<1>8. QED
  BY <1>4, <1>5, <1>6, <1>7

(* What the retries keep: a venue's delay is the one its failures in a row *)
(* ask for, and what is left of a wait and what has passed of it make it   *)
(* up; a venue that a round took as due stays due until the round is done  *)
(* with it.                                                                *)
RetriesTyped ==
  /\ attempt \in [Managed -> 0..MaxDelay] /\ sinceFailure \in [Managed -> 0..MaxDelay]
  /\ failures \in [Managed -> 0..MaxDelay] /\ delay \in [Managed -> 0..MaxDelay]

DelaysDoubled == \A v \in Managed : delay[v] = Waits(failures[v])

WaitsKept ==
  \A v \in Managed :
    failures[v] > 0 => \/ Waits(failures[v] - 1) <= attempt[v] + sinceFailure[v]
                       \/ Waits(failures[v] - 1) <= sinceFailure[v]

DueStaysDue == \A v \in Managed : v \in due /\ v \notin checked => attempt[v] = 0

RetriesInv == RetriesTyped /\ DelaysDoubled /\ WaitsKept /\ DueStaysDue

LEMMA RetriesStart ==
  ASSUME SupervisorInit
  PROVE  RetriesInv
<1>1. MaxDelay \in Nat /\ Initial \in 0..MaxDelay /\ 0 \in 0..MaxDelay /\ MaxDelay \in 0..MaxDelay
  BY SupervisorAssumption
<1>2. Waits(0) = Initial
  BY WaitsGrow
<1>3. /\ attempt = [v \in Managed |-> 0] /\ delay = [v \in Managed |-> Initial]
      /\ failures = [v \in Managed |-> 0]
      /\ sinceFailure = [v \in Managed |-> MaxDelay] /\ due = {}
  BY DEF SupervisorInit
<1>4. RetriesTyped
  BY <1>1, <1>3 DEF RetriesTyped
<1>5. DelaysDoubled
  BY <1>2, <1>3 DEF DelaysDoubled
<1>6. WaitsKept /\ DueStaysDue
  BY <1>3 DEF WaitsKept, DueStaysDue
<1>7. QED
  BY <1>4, <1>5, <1>6 DEF RetriesInv

LEMMA RetriesConnected ==
  ASSUME RetriesInv, NEW u \in Managed, Connected(u)
  PROVE  RetriesInv'
<1>1. MaxDelay \in Nat /\ Initial \in 0..MaxDelay /\ 0 \in 0..MaxDelay
  BY SupervisorAssumption
<1>2. Waits(0) = Initial
  BY WaitsGrow
<1>3. /\ delay' = [delay EXCEPT ![u] = Initial] /\ failures' = [failures EXCEPT ![u] = 0]
      /\ checked' = checked \cup {u}
      /\ attempt' = attempt /\ sinceFailure' = sinceFailure /\ due' = due
  BY DEF Connected, roundUnchanged, supervisorUnchanged
<1>4. RetriesTyped /\ DelaysDoubled /\ WaitsKept /\ DueStaysDue
  BY DEF RetriesInv
<1>5. /\ delay \in [Managed -> 0..MaxDelay] /\ failures \in [Managed -> 0..MaxDelay]
  BY <1>4 DEF RetriesTyped
<1>6. \A v \in Managed : /\ delay'[v] = IF v = u THEN Initial ELSE delay[v]
                         /\ failures'[v] = IF v = u THEN 0 ELSE failures[v]
  BY <1>3, <1>5
<1>7. RetriesTyped'
  BY <1>1, <1>3, <1>4 DEF RetriesTyped
<1>8. DelaysDoubled'
  <2>1. SUFFICES ASSUME NEW v \in Managed PROVE delay'[v] = Waits(failures'[v])
    BY DEF DelaysDoubled, Waits, Doubled
  <2>2. QED
    BY <1>2, <1>4, <1>6 DEF DelaysDoubled
<1>9. WaitsKept'
  <2>1. SUFFICES ASSUME NEW v \in Managed, failures'[v] > 0
                 PROVE  \/ Waits(failures'[v] - 1) <= attempt'[v] + sinceFailure'[v]
                        \/ Waits(failures'[v] - 1) <= sinceFailure'[v]
    BY DEF WaitsKept, Waits, Doubled
  <2>2. v # u /\ failures'[v] = failures[v]
    BY <1>6, <2>1
  <2>3. QED
    BY <1>3, <1>4, <2>1, <2>2 DEF WaitsKept
<1>10. DueStaysDue'
  BY <1>3, <1>4 DEF DueStaysDue
<1>11. QED
  BY <1>7, <1>8, <1>9, <1>10 DEF RetriesInv

LEMMA RetriesThrows ==
  ASSUME RetriesInv, NEW u \in Managed, ConnectThrows(u)
  PROVE  RetriesInv'
<1>1. MaxDelay \in Nat /\ 0 \in 0..MaxDelay /\ MaxDelay \in 0..MaxDelay /\ MaxDelay # 0
  BY SupervisorAssumption
<1>2. /\ \A n \in 0..MaxDelay : Waits(n) \in 0..MaxDelay
      /\ \A n \in 0..(MaxDelay - 1) : Waits(n + 1) = NextDelay(Waits(n))
      /\ \A n \in 0..(MaxDelay - 1) : Waits(n) <= Waits(n + 1)
      /\ Waits(MaxDelay) = MaxDelay
  BY WaitsGrow
<1>3. /\ attempt' = [attempt EXCEPT ![u] = delay[u]]
      /\ delay' = [delay EXCEPT ![u] = NextDelay(delay[u])]
      /\ failures' = [failures EXCEPT ![u] =
                        IF failures[u] < MaxDelay THEN failures[u] + 1 ELSE MaxDelay]
      /\ sinceFailure' = [sinceFailure EXCEPT ![u] = 0]
      /\ checked' = checked \cup {u} /\ due' = due
  BY DEF ConnectThrows, DueIn, roundUnchanged, supervisorUnchanged
<1>4. RetriesTyped /\ DelaysDoubled /\ WaitsKept /\ DueStaysDue
  BY DEF RetriesInv
<1>5. /\ attempt \in [Managed -> 0..MaxDelay] /\ sinceFailure \in [Managed -> 0..MaxDelay]
      /\ failures \in [Managed -> 0..MaxDelay] /\ delay \in [Managed -> 0..MaxDelay]
  BY <1>4 DEF RetriesTyped
<1> DEFINE more == IF failures[u] < MaxDelay THEN failures[u] + 1 ELSE MaxDelay
           next == NextDelay(delay[u])
<1>6. delay[u] = Waits(failures[u]) /\ delay[u] \in 0..MaxDelay /\ failures[u] \in 0..MaxDelay
  BY <1>4, <1>5 DEF DelaysDoubled
<1>7. /\ more \in 1..MaxDelay /\ more \in 0..MaxDelay
      /\ next = Waits(more) /\ next \in 0..MaxDelay /\ Waits(more - 1) <= delay[u]
  <2>1. CASE failures[u] < MaxDelay
    <3>1. more = failures[u] + 1 /\ failures[u] \in 0..(MaxDelay - 1)
      BY <1>1, <1>6, <2>1
    <3>2. more \in 1..MaxDelay /\ more \in 0..MaxDelay /\ more - 1 = failures[u]
      BY <1>1, <3>1
    <3>3. next = Waits(more)
      BY <1>2, <1>6, <3>1
    <3>4. QED
      BY <1>2, <1>6, <3>2, <3>3
  <2>2. CASE ~(failures[u] < MaxDelay)
    <3>1. more = MaxDelay /\ failures[u] = MaxDelay /\ delay[u] = MaxDelay
      BY <1>1, <1>2, <1>6, <2>2
    <3>2. next = MaxDelay
      BY <1>1, <3>1 DEF NextDelay
    <3>3. MaxDelay - 1 \in 0..(MaxDelay - 1) /\ (MaxDelay - 1) + 1 = MaxDelay
            /\ MaxDelay \in 1..MaxDelay
      BY <1>1
    <3>4. Waits(MaxDelay - 1) <= MaxDelay
      BY <1>2, <3>3
    <3>5. QED
      BY <1>1, <1>2, <3>1, <3>2, <3>3, <3>4
  <2>3. QED
    BY <2>1, <2>2
<1> HIDE DEF more, next
<1>8. \A v \in Managed : /\ attempt'[v] = IF v = u THEN delay[u] ELSE attempt[v]
                         /\ delay'[v] = IF v = u THEN next ELSE delay[v]
                         /\ failures'[v] = IF v = u THEN more ELSE failures[v]
                         /\ sinceFailure'[v] = IF v = u THEN 0 ELSE sinceFailure[v]
  BY <1>3, <1>5 DEF more, next
<1>9. RetriesTyped'
  <2>1. /\ attempt' = [attempt EXCEPT ![u] = delay[u]] /\ delay' = [delay EXCEPT ![u] = next]
        /\ failures' = [failures EXCEPT ![u] = more]
        /\ sinceFailure' = [sinceFailure EXCEPT ![u] = 0]
    BY <1>3 DEF more, next
  <2>2. QED
    BY <1>1, <1>5, <1>6, <1>7, <2>1 DEF RetriesTyped
<1>10. DelaysDoubled'
  <2>1. SUFFICES ASSUME NEW v \in Managed PROVE delay'[v] = Waits(failures'[v])
    BY DEF DelaysDoubled, Waits, Doubled
  <2>2. QED
    BY <1>4, <1>7, <1>8 DEF DelaysDoubled
<1>11. WaitsKept'
  <2>1. SUFFICES ASSUME NEW v \in Managed, failures'[v] > 0
                 PROVE  \/ Waits(failures'[v] - 1) <= attempt'[v] + sinceFailure'[v]
                        \/ Waits(failures'[v] - 1) <= sinceFailure'[v]
    BY DEF WaitsKept, Waits, Doubled
  <2>2. CASE v = u
    <3>1. attempt'[v] + sinceFailure'[v] = delay[u] /\ failures'[v] = more
      BY <1>6, <1>8, <2>2
    <3>2. QED
      BY <1>7, <3>1
  <2>3. CASE v # u
    BY <1>4, <1>8, <2>1, <2>3 DEF WaitsKept
  <2>4. QED
    BY <2>2, <2>3
<1>12. DueStaysDue'
  BY <1>3, <1>4, <1>8 DEF DueStaysDue
<1>13. QED
  BY <1>9, <1>10, <1>11, <1>12 DEF RetriesInv

LEMMA RetriesTick ==
  ASSUME RetriesInv, TimePasses
  PROVE  RetriesInv'
<1>1. MaxDelay \in Nat
  BY SupervisorAssumption
<1>2. /\ attempt' = [v \in Managed |-> IF attempt[v] > 0 THEN attempt[v] - 1 ELSE 0]
      /\ sinceFailure' = [v \in Managed |->
                            IF sinceFailure[v] < MaxDelay THEN sinceFailure[v] + 1 ELSE MaxDelay]
      /\ delay' = delay /\ failures' = failures /\ due' = due /\ checked' = checked
  BY DEF TimePasses
<1>3. RetriesTyped /\ DelaysDoubled /\ WaitsKept /\ DueStaysDue
  BY DEF RetriesInv
<1>4. /\ attempt \in [Managed -> 0..MaxDelay] /\ sinceFailure \in [Managed -> 0..MaxDelay]
      /\ failures \in [Managed -> 0..MaxDelay] /\ delay \in [Managed -> 0..MaxDelay]
  BY <1>3 DEF RetriesTyped
<1>5. \A v \in Managed :
        /\ attempt[v] \in 0..MaxDelay /\ sinceFailure[v] \in 0..MaxDelay /\ failures[v] \in 0..MaxDelay
        /\ attempt'[v] = IF attempt[v] > 0 THEN attempt[v] - 1 ELSE 0
        /\ sinceFailure'[v] = IF sinceFailure[v] < MaxDelay THEN sinceFailure[v] + 1 ELSE MaxDelay
  BY <1>2, <1>4
<1>6. RetriesTyped'
  <2>1. ASSUME NEW v \in Managed
        PROVE  /\ (IF attempt[v] > 0 THEN attempt[v] - 1 ELSE 0) \in 0..MaxDelay
               /\ (IF sinceFailure[v] < MaxDelay THEN sinceFailure[v] + 1 ELSE MaxDelay) \in 0..MaxDelay
    BY <1>1, <1>5
  <2>2. QED
    BY <1>2, <1>4, <2>1 DEF RetriesTyped
<1>7. DelaysDoubled'
  BY <1>2, <1>3 DEF DelaysDoubled, Waits, Doubled
<1>8. WaitsKept'
  <2>1. SUFFICES ASSUME NEW v \in Managed, failures'[v] > 0
                 PROVE  \/ Waits(failures'[v] - 1) <= attempt'[v] + sinceFailure'[v]
                        \/ Waits(failures'[v] - 1) <= sinceFailure'[v]
    BY DEF WaitsKept, Waits, Doubled
  <2>2. failures'[v] = failures[v] /\ failures[v] > 0 /\ failures[v] - 1 \in 0..MaxDelay
    BY <1>1, <1>2, <1>5, <2>1
  <2>3. PICK wait \in 0..MaxDelay : wait = Waits(failures[v] - 1)
    BY <2>2, WaitsGrow
  <2>4. wait <= attempt[v] + sinceFailure[v] \/ wait <= sinceFailure[v]
    BY <1>3, <2>2, <2>3 DEF WaitsKept
  <2>5. wait <= attempt'[v] + sinceFailure'[v] \/ wait <= sinceFailure'[v]
    BY <1>1, <1>5, <2>4
  <2>6. QED
    BY <2>2, <2>3, <2>5
<1>9. DueStaysDue'
  BY <1>2, <1>3, <1>5 DEF DueStaysDue
<1>10. QED
  BY <1>6, <1>7, <1>8, <1>9 DEF RetriesInv

LEMMA RetriesStep ==
  ASSUME RetriesInv, [SupervisorNext]_supervisorVars
  PROVE  RetriesInv'
<1>1. RetriesTyped /\ DelaysDoubled /\ WaitsKept /\ DueStaysDue
  BY DEF RetriesInv
<1>2. ASSUME UNCHANGED retryVars, DueStaysDue'
      PROVE  RetriesInv'
  <2>1. attempt' = attempt /\ delay' = delay /\ failures' = failures
          /\ sinceFailure' = sinceFailure
    BY <1>2 DEF retryVars
  <2>2. RetriesTyped' /\ DelaysDoubled' /\ WaitsKept'
    BY <1>1, <2>1 DEF RetriesTyped, DelaysDoubled, WaitsKept, Waits, Doubled
  <2>3. QED
    BY <1>2, <2>2 DEF RetriesInv
<1>3. ASSUME NEW v \in Managed, Skip(v)
      PROVE  RetriesInv'
  <2>1. UNCHANGED retryVars /\ due' = due /\ checked' = checked \cup {v}
          /\ attempt' = attempt
    BY <1>3 DEF Skip, retryVars, roundUnchanged
  <2>2. DueStaysDue'
    BY <1>1, <2>1 DEF DueStaysDue
  <2>3. QED
    BY <1>2, <2>1, <2>2
<1>4. ASSUME NEW v \in Managed, BeginConnect(v) \/ Drop(v) \/ Hangs(v)
      PROVE  RetriesInv'
  <2>1. UNCHANGED retryVars /\ due' = due /\ checked' = checked
          /\ attempt' = attempt
    BY <1>4 DEF BeginConnect, Drop, Hangs, retryVars, roundUnchanged
  <2>2. DueStaysDue'
    BY <1>1, <2>1 DEF DueStaysDue
  <2>3. QED
    BY <1>2, <2>1, <2>2
<1>5. CASE Sleep \/ Wake
  <2>1. UNCHANGED retryVars /\ attempt' = attempt
    BY <1>5 DEF Sleep, Wake, retryVars
  <2>2. \A v \in Managed : v \in due' => attempt[v] = 0
    BY <1>5 DEF Sleep, Wake
  <2>3. DueStaysDue'
    BY <2>1, <2>2 DEF DueStaysDue
  <2>4. QED
    BY <1>2, <2>1, <2>3
<1>6. CASE RequestStop \/ UNCHANGED supervisorVars
  <2>1. UNCHANGED retryVars /\ due' = due /\ checked' = checked
          /\ attempt' = attempt
    BY <1>6 DEF RequestStop, supervisorVars, retryVars
  <2>2. DueStaysDue'
    BY <1>1, <2>1 DEF DueStaysDue
  <2>3. QED
    BY <1>2, <2>1, <2>2
<1>7. CASE SupervisorNext
  <2>1. CASE Supervise
    BY <1>3, <1>4, <1>5, <2>1, RetriesConnected, RetriesThrows DEF Supervise
  <2>2. QED
    BY <1>4, <1>6, <1>7, <2>1, RetriesTick DEF SupervisorNext
<1>8. QED
  BY <1>6, <1>7

(* A venue that keeps failing is left alone longer and longer, up to a     *)
(* limit, counted from when the last attempt failed (router.cc:170).       *)
THEOREM RetriesAreSpaced == SupervisorSpec => RetriesSpaced
<1>1. SupervisorInit => RetriesInv
  BY RetriesStart
<1>2. RetriesInv /\ [SupervisorNext]_supervisorVars => RetriesInv'
  BY RetriesStep
<1>3. ASSUME RetriesInv, [SupervisorNext]_supervisorVars
      PROVE  [\A v \in Managed :
                supervisor' = <<"connecting", v>> /\ supervisor # supervisor'
                  => Spaced(v)]_supervisorVars
  <2>1. SUFFICES ASSUME NEW v \in Managed,
                        supervisor' = <<"connecting", v>>, supervisor # supervisor'
                 PROVE  Spaced(v)
    OBVIOUS
  <2>2. PICK u \in Managed : BeginConnect(u)
    BY <1>3, <2>1 DEF SupervisorNext, Supervise, Skip, Connected, ConnectThrows, Sleep, Wake,
       RequestStop, TimePasses, Drop, Hangs, supervisorVars, roundUnchanged, supervisorUnchanged,
       retryVars
  <2>3. u = v /\ v \in due /\ v \notin checked
    BY <2>1, <2>2 DEF BeginConnect, IsNext, Due
  <2>4. attempt[v] = 0 /\ WaitsKept /\ RetriesTyped
    BY <1>3, <2>3 DEF RetriesInv, DueStaysDue
  <2>5. SUFFICES ASSUME failures[v] > 0
                 PROVE  sinceFailure[v] >= Waits(failures[v] - 1)
    BY DEF Spaced, Waits
  <2>6. /\ MaxDelay \in Nat /\ sinceFailure[v] \in 0..MaxDelay /\ failures[v] - 1 \in 0..MaxDelay
    BY <2>4, <2>5, SupervisorAssumption DEF RetriesTyped
  <2>7. PICK wait \in 0..MaxDelay : wait = Waits(failures[v] - 1)
    BY <2>6, WaitsGrow
  <2>8. wait <= attempt[v] + sinceFailure[v] \/ wait <= sinceFailure[v]
    BY <2>4, <2>5, <2>7 DEF WaitsKept
  <2>9. sinceFailure[v] >= wait
    BY <2>4, <2>6, <2>8
  <2>10. QED
    BY <2>7, <2>9
<1>4. QED
  BY <1>1, <1>2, <1>3, PTL DEF SupervisorSpec, RetriesSpaced
=============================================================================
