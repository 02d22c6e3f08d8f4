------------------------------ MODULE Commands ------------------------------
(***************************************************************************)
(* The commands of several clients, from the wire through the Router to a  *)
(* venue's manager and its REST interface, and back: Server::Run() and its *)
(* handlers (frontend/server.cc), the enums of frontend/wire.cc,           *)
(* Router::List(), ListVenues() and ListPairs(), and what of L2Manager     *)
(* answers them.  Each client has a strand, so its commands run one after  *)
(* the other; those of different clients overlap wherever no lock is held. *)
(* Server has the sessions the commands come from, L2Manager the streams   *)
(* behind the subscriptions, Outbox and Stream the watchers.               *)
(*                                                                         *)
(* The venues are external: each lists every symbol in some state, which   *)
(* may change, and answers a request truly, or fails in some way.          *)
(***************************************************************************)
EXTENDS Router, Rest

CONSTANTS Clients,      \* The clients that send commands.
          Symbols,      \* The symbols they name.
          AskedDepths,  \* The depths they ask for.
          StrayIds,     \* Ids they name that were never handed out.
          Catalogue,    \* Per venue and symbol, how it is listed at first.
          Precision,    \* The decimals of every pair.
          Lifetime,     \* kPairsLifetime, in ticks.
          MaxCommands,  \* Bound: how many commands there are.
          MaxChanges    \* Bound: how often a venue's listing changes.

ASSUME CommandsAssumption ==
  /\ Venues = {Kraken, Coinbase} /\ Sinks = {0, 1}
  /\ Lifetime \in Nat \ {0} /\ MaxCommands \in Nat /\ MaxChanges \in Nat
  /\ Precision \in [price : Nat, qty : Nat]

(* External: how a venue may list a symbol; one it lists is written as its *)
(* adapter says (adapter.h:23, coinbase/adapter.cc:48).                    *)
ListedAs(venue) ==
  {"absent", "online", "offline"} \cup (IF venue = Kraken THEN {} ELSE {"disabled", "alias"})

IsCatalogue(catalogue) ==
  \A venue \in Venues : \A symbol \in Symbols :
    /\ catalogue[venue][symbol] \in ListedAs(venue)
    /\ catalogue[venue][symbol] # "absent" => CheckSymbol(venue, symbol)

ASSUME CatalogueAssumption ==
  /\ Catalogue \in [Venues -> [Symbols -> UNION {ListedAs(venue) : venue \in Venues}]]
  /\ IsCatalogue(Catalogue)

VARIABLES
  cmd,       \* Per client, the command it runs.
  books,     \* Of every id that had a subscription, its book and precision.
  pairs,     \* Per venue, pairs_.
  age,       \* Per venue, ticks since pairs_fetched_at_, up to Lifetime.
  listed,    \* External: per venue and symbol, how it is listed.
  past,      \* External: listed, before each change, and ticks since, up to Lifetime.
  aborted,   \* Whether a failed assertion ended the program.
  bounds     \* How many commands and changes there were; bounds the run.

venueVars == <<listed, past>>
commandVars == <<books, pairs, age, aborted>>
commandsVars == <<idVars, cmd, commandVars, venueVars, bounds>>

Idle == [stage |-> "idle"]

CommandsInit ==
  /\ Init
  /\ cmd = [c \in Clients |-> Idle]
  /\ books = << >> /\ aborted = FALSE
  /\ pairs = [v \in Venues |-> {}] /\ age = [v \in Venues |-> Lifetime]
  /\ listed = Catalogue /\ past = {}
  /\ bounds = [commands |-> 0, changes |-> 0]

-----------------------------------------------------------------------------
(* The wire: 0 is unspecified in every enum. *)

VenuesOnWire == 0..2
SinksOnWire == 0..2

None == -1                                \* std::nullopt
FromWire(enum) == IF enum \in 1..2 THEN enum - 1 ELSE None   \* Of a venue or a sink.
ToWire(value) == value + 1

Codes == {"kUnknownVenue", "kInvalidDepth", "kUnknownSymbol", "kUnknownId", "kSymbolInUse",
          "kVenueFailed", "kIdsExhausted"}

ToWireCode == [code \in Codes |->
  CASE code = "kUnknownVenue" -> "INVALID_COMMAND"
    [] code = "kInvalidDepth" -> "INVALID_DEPTH"
    [] code = "kUnknownSymbol" -> "UNKNOWN_SYMBOL"
    [] code = "kUnknownId" -> "UNKNOWN_ID"
    [] code = "kSymbolInUse" -> "SYMBOL_IN_USE"
    [] code = "kVenueFailed" -> "VENUE_FAILED"
    [] code = "kIdsExhausted" -> "IDS_EXHAUSTED"]

Failure(wireCode) == [is |-> "error", code |-> wireCode]
Error(code) == Failure(ToWireCode[code])
Ok == [is |-> "ok"]
Started(id) == [is |-> "started", id |-> id]

(* Execute(): what the command did is its result, which goes to the        *)
(* session.                                                                *)
Done(command, result) == [stage |-> "done", command |-> command, result |-> result]

Issue(c) ==
  /\ cmd[c] = Idle /\ bounds.commands < MaxCommands
  /\ bounds' = [bounds EXCEPT !.commands = @ + 1]

Become(c, next) == cmd' = [cmd EXCEPT ![c] = next]

Answer(c, result) == Become(c, Done(cmd[c].command, result))

Reply(c) ==
  /\ cmd[c].stage = "done"
  /\ Become(c, Idle)
  /\ UNCHANGED <<idVars, commandVars, venueVars, bounds>>

(* Every invalid command is one to the model. *)
Invalid == Done([kind |-> "invalid"], Failure("INVALID_COMMAND"))

(* No command, or one this backend does not know. *)
UnknownCommand(c) ==
  /\ Issue(c)
  /\ Become(c, Invalid)
  /\ UNCHANGED <<idVars, commandVars, venueVars>>

-----------------------------------------------------------------------------
(* Start(). *)

Starts == [kind : {"start"}, venue : VenuesOnWire, sink : SinksOnWire,
           symbol : Symbols, depth : AskedDepths]

Start(c, start) ==
  LET venue == FromWire(start.venue)
      sink == FromWire(start.sink)
      known == venue # None /\ sink # None
  IN /\ Issue(c)
     /\ \/ /\ ~known
           /\ Become(c, Invalid)
           /\ UNCHANGED idVars
        \/ /\ known
           /\ Subscribe(venue, sink)
           /\ Become(c, IF IdsLeft(counter)
                          THEN [stage |-> "checking", command |-> start, call |-> Len(calls')]
                          ELSE Done(start, Error("kIdsExhausted")))
     /\ UNCHANGED <<commandVars, venueVars>>

CheckBook(venue, book) ==
  IF book.depth \notin Depths(venue) THEN "kInvalidDepth"
  ELSE IF ~CheckSymbol(venue, book.symbol) THEN "kUnknownSymbol" ELSE "ok"

(* FindSymbolLocked() and ResolveTakenLocked(): what taken ids there are.  *)
TakenBy(venue, symbol) == {id \in tables[venue] : books[id].symbol = symbol}

ResolveTaken(id, start, taken) ==
  IF SinkOf(id) = 1 /\ SinkOf(taken) = 1 /\ books[taken].depth = start.depth
    THEN Started(taken) ELSE Error("kSymbolInUse")

(* L2Manager::Subscribe() ends; the table changes only where it says so.   *)
Subscribed(c, added, result) ==
  /\ ManagerSubscribes(cmd[c].call)
  /\ tables' = [tables EXCEPT ![calls[cmd[c].call].venue] = @ \cup added]
  /\ Answer(c, result)

(* Up to the round trip to the venue. *)
StartChecks(c) ==
  LET call == calls[cmd[c].call]
      start == cmd[c].command
      code == CheckBook(call.venue, start)
      taken == TakenBy(call.venue, start.symbol)
  IN /\ cmd[c].stage = "checking"
     /\ \/ code # "ok" /\ Subscribed(c, {}, Error(code))
        \/ /\ code = "ok"
           /\ \E id \in taken : Subscribed(c, {}, ResolveTaken(call.id, start, id))
        \/ /\ code = "ok" /\ taken = {}
           /\ Become(c, [cmd[c] EXCEPT !.stage = "fetching"])
           /\ UNCHANGED idVars
     /\ UNCHANGED <<commandVars, venueVars, bounds>>

(* External: a product or a pair as its venue lists it; a Coinbase product *)
(* may have no price_increment of its own, and be disabled in either way.  *)
StepText(decimals) ==
  IF decimals = 0 THEN <<"1">>
  ELSE <<"0", ".">> \o [i \in 1..decimals |-> IF i = decimals THEN "1" ELSE "0"] \o <<"0">>

Product(symbol, state, own) ==
  JsonObject(
    [product_id |-> JsonString(symbol),
     status |-> Word(IF state = "offline" THEN "delisted" ELSE "online"),
     is_disabled |-> JsonBool(state = "disabled" /\ own),
     trading_disabled |-> JsonBool(state = "disabled" /\ ~own),
     alias |-> JsonString(IF state = "alias" THEN <<"BTC-USD">> ELSE <<>>),
     price_increment |-> JsonString(IF own THEN StepText(Precision.price) ELSE <<>>),
     quote_increment |-> JsonString(StepText(IF own THEN 0 ELSE Precision.price)),
     base_increment |-> JsonString(StepText(Precision.qty))])

Pair(state) ==
  JsonObject([status |-> Word(IF state = "offline" THEN "cancel_only" ELSE "online"),
              pair_decimals |-> JsonUint(Precision.price),
              lot_decimals |-> JsonUint(Precision.qty)])

Envelope(errors, symbols) ==
  Response(200, JsonObject([error |-> JsonArray(errors),
                            result |-> JsonObject([s \in symbols |-> Pair(listed[Kraken][s])])]))

(* The venue is away, answers with an error, or not with its own JSON. *)
Failures(venue) ==
  {Unreachable, Response(200, JsonNull),
   IF venue = Kraken THEN Envelope(<<Word("EService:Unavailable")>>, {})
                     ELSE Response(500, JsonNull)}

PrecisionAnswers(venue, symbol) ==
  LET state == listed[venue][symbol]
  IN IF venue = Kraken
       THEN IF state = "absent" THEN {Envelope(<<UnknownPairError>>, {}), Envelope(<<>>, {})}
                                ELSE {Envelope(<<>>, {symbol})}
       ELSE IF state = "absent" THEN {Response(404, JsonNull)}
                                ELSE {Response(200, Product(symbol, state, own)) : own \in BOOLEAN}

(* The order of an array of products does not matter. *)
ListAnswer(venue) ==
  LET symbols == {s \in Symbols : listed[venue][s] # "absent"}
      products == [s \in symbols |-> Product(s, listed[venue][s], TRUE)]
  IN IF venue = Kraken THEN Envelope(<<>>, symbols)
     ELSE Response(200, JsonObject([products |-> JsonArray(products)]))

Knowing(id, book) ==
  [known \in DOMAIN books \cup {id} |-> IF known \in DOMAIN books THEN books[known] ELSE book]

(* The answer comes, unless it ends the program, and the rest happens      *)
(* under the lock: again the symbol may be taken, and a recording's file   *)
(* may not open, which Run() catches.                                      *)
StartFetched(c) ==
  LET call == calls[cmd[c].call]
      start == cmd[c].command
      taken == TakenBy(call.venue, start.symbol)
  IN /\ cmd[c].stage = "fetching"
     /\ \E response \in PrecisionAnswers(call.venue, start.symbol) \cup Failures(call.venue) :
        \E result \in FetchPrecision(call.venue, response, start.symbol) :
          \/ /\ result = Aborts
             /\ aborted' = TRUE
             /\ UNCHANGED <<idVars, cmd, books>>
          \/ /\ result.is \notin {"abort", "value"}
             /\ Subscribed(c, {}, Error(CallVenue(result)))
             /\ UNCHANGED <<books, aborted>>
          \/ /\ result.is = "value"
             /\ \E id \in taken : Subscribed(c, {}, ResolveTaken(call.id, start, id))
             /\ UNCHANGED <<books, aborted>>
          \/ /\ result.is = "value" /\ taken = {} /\ call.sink = 1
             /\ Subscribed(c, {}, Failure("VENUE_FAILED"))
             /\ UNCHANGED <<books, aborted>>
          \/ /\ result.is = "value" /\ taken = {}
             /\ Subscribed(c, {call.id}, Started(call.id))
             /\ books' = Knowing(call.id, [symbol |-> start.symbol, depth |-> start.depth,
                                           precision |-> result.value])
             /\ UNCHANGED aborted
     /\ UNCHANGED <<pairs, age, venueVars, bounds>>

-----------------------------------------------------------------------------
(* Stop(): the id carries its sink, and its venue. *)

Ids == StrayIds \cup {calls[i].id : i \in {j \in DOMAIN calls : HasId(j)}}

Stops == [kind : {"stop"}, id : Ids, sink : SinksOnWire]

StopsAny(stop) == FALSE                   \* mutant: the sink is not compared

NamesOtherSink(stop) == SinkOf(stop.id) # FromWire(stop.sink)

Stop(c, stop) ==
  LET held == VenueOf(stop.id) \in Venues /\ stop.id \in tables[VenueOf(stop.id)]
      refusal == IF FromWire(stop.sink) = None THEN {Invalid}
                 ELSE IF NamesOtherSink(stop) THEN {Done(stop, Failure("SINK_MISMATCH"))}
                 ELSE IF ~held THEN {Done(stop, Error("kUnknownId"))} ELSE {}
  IN /\ Issue(c)
     /\ \/ /\ \E refused \in refusal : Become(c, refused)
           /\ UNCHANGED idVars
        \/ /\ refusal = {}
           /\ Unsubscribe(stop.id)
           /\ Become(c, Done(stop, Ok))
     /\ UNCHANGED <<commandVars, venueVars>>

-----------------------------------------------------------------------------
(* List(): the managers are asked in turn, each under its own lock.        *)
(* Watch() asks the Outbox for a live stream, which a Transmitter has      *)
(* there as long as it has a subscription, and lists to tell a recording   *)
(* from a typo if there is none.                                           *)

Watches == [kind : {"watch"}, id : Ids]

AllIds == UNION {tables[v] : v \in Venues}

Listing(command) ==
  [stage |-> "listing", command |-> command, asked |-> {}, found |-> {}, before |-> AllIds]

List(c) ==
  /\ Issue(c)
  /\ Become(c, Listing([kind |-> "list"]))
  /\ UNCHANGED <<idVars, commandVars, venueVars>>

Watch(c, watch) ==
  /\ Issue(c)
  /\ Become(c, IF watch.id \in AllIds /\ SinkOf(watch.id) = 0
                 THEN Done(watch, Ok) ELSE Listing(watch))
  /\ UNCHANGED <<idVars, commandVars, venueVars>>

FoundLast(c, v) == {<<v, id>> : id \in tables[v]}   \* mutant: the last venue's only

Found(c, v) == cmd[c].found \cup {<<v, id>> : id \in tables[v]}

VenueLists(c, v) ==
  /\ cmd[c].stage = "listing" /\ v \in Venues \ cmd[c].asked
  /\ \A u \in Venues : u < v => u \in cmd[c].asked
  /\ Become(c, [cmd[c] EXCEPT !.asked = @ \cup {v}, !.found = Found(c, v)])
  /\ UNCHANGED <<idVars, commandVars, venueVars, bounds>>

IsRecording(id) == SinkOf(id) = 1

Subscription(v, id) ==
  [id |-> id, venue |-> ToWire(v), symbol |-> books[id].symbol, depth |-> books[id].depth,
   sink |-> ToWire(SinkOf(id))]

AnswerListed(c, result) ==
  Become(c, [stage |-> "done", command |-> cmd[c].command, result |-> result,
             before |-> cmd[c].before])

Listed(c) ==
  LET found == cmd[c].found
      id == cmd[c].command.id
  IN /\ cmd[c].stage = "listing" /\ cmd[c].asked = Venues
     /\ \/ /\ cmd[c].command.kind = "list"
           /\ AnswerListed(c, [is |-> "subscriptions",
                               listings |-> {Subscription(l[1], l[2]) : l \in found}])
        \/ /\ cmd[c].command.kind = "watch"
           /\ AnswerListed(c, Failure(IF IsRecording(id) /\ \E l \in found : l[2] = id
                                        THEN "SINK_MISMATCH" ELSE "UNKNOWN_ID"))
     /\ UNCHANGED <<idVars, commandVars, venueVars, bounds>>

(* ListVenues(): healthy() is L2Manager's. *)
VenueStatuses(healthy) == [v \in Venues |-> [venue |-> ToWire(v), connected |-> v \in healthy]]

ListVenues(c) ==
  /\ Issue(c)
  /\ \E healthy \in SUBSET Venues :
       Become(c, Done([kind |-> "list_venues"],
                      [is |-> "venues", venues |-> VenueStatuses(healthy)]))
  /\ UNCHANGED <<idVars, commandVars, venueVars>>

-----------------------------------------------------------------------------
(* ListPairs(): the pairs are fetched with pairs_mutex_ held. *)

PairLists == [kind : {"list_pairs"}, venue : VenuesOnWire]

PairsFree(v) ==
  \A c \in Clients : cmd[c].stage \in {"asking", "answered"} => FromWire(cmd[c].command.venue) # v

Stale(v) == pairs[v] = {} \/ age[v] >= Lifetime

PairList(v, symbols) == [is |-> "pairs", symbols |-> symbols, depths |-> Depths(v)]

(* Both venues have a manager, so kUnknownVenue is answered by none. *)
ManagerListsPairs(list, v) ==
  IF v \notin Venues THEN Done(list, Error("kUnknownVenue"))
  ELSE IF Stale(v) THEN [stage |-> "asking", command |-> list, since |-> 0]
  ELSE Done(list, PairList(v, pairs[v]))

ListPairs(c, list) ==
  LET v == FromWire(list.venue)
  IN /\ Issue(c)
     /\ \/ /\ v = None
           /\ Become(c, Invalid)
        \/ /\ v # None /\ PairsFree(v)
           /\ Become(c, ManagerListsPairs(list, v))
     /\ UNCHANGED <<idVars, commandVars, venueVars>>

(* The venue answers, and its answer takes time. *)
VenueAnswers(c) ==
  /\ cmd[c].stage = "asking"
  /\ \E response \in LET v == FromWire(cmd[c].command.venue) IN {ListAnswer(v)} \cup Failures(v) :
       Become(c, [stage |-> "answered", command |-> cmd[c].command, since |-> cmd[c].since,
                  response |-> response])
  /\ UNCHANGED <<idVars, commandVars, venueVars, bounds>>

FetchedNow(c) == 0                        \* mutant: as old as the answer's arrival

FetchedAgo(c) == cmd[c].since             \* Since before the round trip.

PairsFetched(c) ==
  LET v == FromWire(cmd[c].command.venue)
  IN /\ cmd[c].stage = "answered"
     /\ \E result \in FetchPairs(v, cmd[c].response) :
          \/ /\ result = Aborts
             /\ aborted' = TRUE
             /\ UNCHANGED <<cmd, pairs, age>>
          \/ /\ result.is \notin {"abort", "value"}
             /\ Answer(c, Error(CallVenue(result)))
             /\ UNCHANGED <<pairs, age, aborted>>
          \/ /\ result.is = "value"
             /\ pairs' = [pairs EXCEPT ![v] = result.value]
             /\ age' = [age EXCEPT ![v] = FetchedAgo(c)]
             /\ Answer(c, PairList(v, result.value))
             /\ UNCHANGED aborted
     /\ UNCHANGED <<idVars, books, venueVars, bounds>>

-----------------------------------------------------------------------------
(* External: a pair that is online goes offline, or the other way round.   *)
Change(v, symbol) ==
  /\ bounds.changes < MaxChanges
  /\ bounds' = [bounds EXCEPT !.changes = @ + 1]
  /\ listed[v][symbol] \in {"online", "offline"}
  /\ listed' = [listed EXCEPT ![v][symbol] = IF @ = "online" THEN "offline" ELSE "online"]
  /\ past' = past \cup {[listed |-> listed, ago |-> 0]}
  /\ UNCHANGED <<idVars, cmd, commandVars>>

Older(ticks) == IF ticks < Lifetime THEN ticks + 1 ELSE Lifetime

Tick ==
  /\ age' = [v \in Venues |-> Older(age[v])]
  /\ past' = {[p EXCEPT !.ago = Older(@)] : p \in past}
  /\ cmd' = [c \in Clients |-> IF cmd[c].stage \in {"asking", "answered"}
                                 THEN [cmd[c] EXCEPT !.since = Older(@)] ELSE cmd[c]]
  /\ UNCHANGED <<idVars, books, pairs, listed, aborted, bounds>>

-----------------------------------------------------------------------------
ClientSteps(c) ==
  \/ Reply(c) \/ UnknownCommand(c)
  \/ \E start \in Starts : Start(c, start)
  \/ StartChecks(c) \/ StartFetched(c)
  \/ \E stop \in Stops : Stop(c, stop)
  \/ List(c)
  \/ \E watch \in Watches : Watch(c, watch)
  \/ \E v \in Venues : VenueLists(c, v)
  \/ Listed(c) \/ ListVenues(c)
  \/ \E list \in PairLists : ListPairs(c, list)
  \/ VenueAnswers(c) \/ PairsFetched(c)

CommandsNext ==
  /\ ~aborted
  /\ \/ \E c \in Clients : ClientSteps(c)
     \/ \E v \in Venues, symbol \in Symbols : Change(v, symbol)
     \/ Tick

CommandsSpec == CommandsInit /\ [][CommandsNext]_commandsVars

-----------------------------------------------------------------------------
(* How the venues list, or did so many ticks ago or less. *)
Listings(ticks) == {listed} \cup {p.listed : p \in {q \in past : q.ago <= ticks}}

IsOnline(v, symbol) == \E catalogue \in Listings(Lifetime) : catalogue[v][symbol] = "online"

OnlineIn(catalogue, v) == {symbol \in Symbols : catalogue[v][symbol] = "online"}

(* What may be answered to a Start: an id of the venue and the sink asked  *)
(* for, with the very book and the pair's precision, if another call's     *)
(* then of a recording of the same (manager.h:147); on Coinbase of a       *)
(* product that has frames of its own (products.cc:61).  It is in use only *)
(* if another has the pair, and unknown at Coinbase only if it is not      *)
(* listed as online there.                                                 *)
StartHolds(c) ==
  LET start == cmd[c].command
      result == cmd[c].result
      v == FromWire(start.venue)
  IN /\ result.is = "started" =>
          /\ result.id \in tables[v] /\ VenueOf(result.id) = v
          /\ SinkOf(result.id) = FromWire(start.sink)
          /\ books[result.id] = [symbol |-> start.symbol, depth |-> start.depth,
                                 precision |-> Precision]
          /\ v = Coinbase => IsOnline(v, start.symbol)
     /\ result = Failure("SYMBOL_IN_USE") =>
          \E id \in tables[v] :
            /\ books[id].symbol = start.symbol
            /\ ~(SinkOf(id) = 1 /\ start.sink = 2 /\ books[id].depth = start.depth)
     /\ result = Failure("UNKNOWN_SYMBOL") /\ v = Coinbase =>
          \/ ~CheckSymbol(v, start.symbol)
          \/ \E catalogue \in Listings(Lifetime) : catalogue[v][start.symbol] # "online"

(* To a Stop: done only to a subscription of the sink named, "so a command *)
(* meant for a recording cannot stop a live feed" (server.cc:495), and     *)
(* refused only if there is none, or if the sink named is not the id's.    *)
StopHolds(c) ==
  LET stop == cmd[c].command
  IN /\ cmd[c].result = Ok => stop.id \notin AllIds /\ SinkOf(stop.id) = stop.sink - 1
     /\ cmd[c].result = Failure("UNKNOWN_ID") => stop.id \notin AllIds
     /\ cmd[c].result = Failure("SINK_MISMATCH") => SinkOf(stop.id) # stop.sink - 1

(* To a Watch that found no live stream: a live subscription, even one     *)
(* that started since, is not called a recording (server.cc:525), nor a    *)
(* recording that was there all the while unknown.                         *)
WatchHolds(c) ==
  LET watch == cmd[c].command
  IN /\ cmd[c].result = Failure("SINK_MISMATCH") => SinkOf(watch.id) = 1
     /\ cmd[c].result = Failure("UNKNOWN_ID") => watch.id \notin cmd[c].before \cap AllIds

(* Every command is answered with what is true when it is answered. *)
RepliesHold ==
  [][\A c \in Clients : cmd'[c].stage = "done" /\ cmd[c].stage # "done" =>
       LET kind == cmd'[c].command.kind
       IN /\ kind = "start" => StartHolds(c)'
          /\ kind = "stop" => StopHolds(c)'
          /\ kind = "watch" => WatchHolds(c)']_commandsVars

(* A List misses no subscription that was there from beginning to end,     *)
(* though the managers are asked one after the other, and has each one's   *)
(* own venue, sink and book.                                               *)
ListingsHold ==
  \A c \in Clients : cmd[c].stage = "done" /\ cmd[c].command.kind = "list" =>
    LET result == cmd[c].result
    IN /\ cmd[c].before \cap AllIds \subseteq {l.id : l \in result.listings}
       /\ \A l \in result.listings :
            /\ l.id \in DOMAIN books
            /\ l.symbol = books[l.id].symbol /\ l.depth = books[l.id].depth
            /\ FromWire(l.venue) = VenueOf(l.id) /\ FromWire(l.sink) = SinkOf(l.id)

(* The pairs served from before were the venue's less than a lifetime ago, *)
(* however long they took to arrive (l2_manager.cc:44).                    *)
PairsFresh ==
  [][\A c \in Clients : cmd[c] = Idle /\ cmd'[c].stage = "done" /\ cmd'[c].result.is = "pairs" =>
       \E catalogue \in Listings(Lifetime - 1) :
         cmd'[c].result.symbols =
           OnlineIn(catalogue, FromWire(cmd'[c].command.venue))]_commandsVars

(* A pair that is listed can be started, at every depth listed: it passes  *)
(* the checks, is online, and its precision can be had of the answer.      *)
PairsCanStart ==
  \A c \in Clients : cmd[c].stage = "done" /\ cmd[c].result.is = "pairs" =>
    LET v == FromWire(cmd[c].command.venue)
    IN \A symbol \in cmd[c].result.symbols :
         /\ \A depth \in cmd[c].result.depths :
              CheckBook(v, [symbol |-> symbol, depth |-> depth]) = "ok"
         /\ IsOnline(v, symbol)
         /\ listed[v][symbol] = "online" =>
              \A response \in PrecisionAnswers(v, symbol) :
                FetchPrecision(v, response, symbol) = {Returns(Precision)}
=============================================================================
