------------------------------- MODULE Server -------------------------------
(***************************************************************************)
(* frontend/server.{h,cc}: the websocket endpoint.  One network thread     *)
(* runs every socket's handlers, a pool runs the commands, one at a time   *)
(* and in order per connection (its strand), and the subscriptions'        *)
(* streams send to the connections watching them from threads of their     *)
(* own (see Stream).                                                       *)
(*                                                                         *)
(* A handler on the network thread is one step; so is each call a command  *)
(* makes on the Outbox.  An operation on a socket and the handler it ends  *)
(* in are two, as Close() may come between: `ready` holds an operation     *)
(* that completed while its handler did not run.  Operations that Close()  *)
(* fails only call Close() again, which does nothing.  `client` is what    *)
(* the client makes of the frames written to it.                           *)
(***************************************************************************)
EXTENDS Integers, Sequences, FiniteSets

CONSTANTS Sessions,        \* Connections.
          Ids,             \* Ids of live subscriptions, positive numbers.
          MaxQueued,       \* kMaxQueuedFrames.
          MaxPending,      \* kMaxPendingCommands.
          CommandThreads,  \* kCommandThreads.
          MaxCommands,     \* Bound: commands a client sends.
          MaxBooks,        \* Bound: Books the streams publish in all.
          MaxHeartbeats    \* Bound: heartbeats in all.

ASSUME ServerAssumption ==
  /\ {0, -1} \cap Ids = {}
  /\ {MaxQueued, MaxPending, CommandThreads} \subseteq Nat \ {0}
  /\ {MaxCommands, MaxBooks, MaxHeartbeats} \subseteq Nat

VARIABLES
  server,     \* "running", or how far the destructor is.
  acceptor,   \* "accepting", "retrying" or "closed".
  accepted,   \* Accepted, and Accept()'s handler did not run yet.
  sessions,   \* sessions_.
  conn,       \* "none", "handshake", "open" or "refused".
  closed,     \* closed_.
  ready,      \* The operation whose handler is to run, if any.
  pending,    \* pending_commands_.
  posted,     \* Send()s the network thread did not run yet.
  outgoing,   \* outgoing_.
  sequence,   \* next_sequence_.
  strand,     \* The commands queued on the strand.
  running,    \* The command the strand runs, and where it is.
  watched,    \* watched_id.
  watchers,   \* Per id, the connections its stream sends to.
  live,       \* The ids subscribed.
  client,     \* What each client made of what it read.
  commands,   \* Commands each client sent.
  books,      \* Books sent to each connection.
  published,  \* Bounds the run.
  heartbeats  \* Bounds the run.

acceptVars == <<server, acceptor, accepted, sessions, conn>>
socketVars == <<closed, ready>>
queueVars == <<outgoing, sequence>>
commandVars == <<strand, running, watched>>
streamVars == <<watchers, live, published, books>>
boundVars == <<commands, heartbeats>>

vars == <<acceptVars, socketVars, pending, posted, queueVars, commandVars, streamVars, client,
          boundVars>>

NewClient == [next |-> 0, reply |-> 0, book |-> 0, streams |-> {},
              skipped |-> FALSE, lost |-> FALSE, stray |-> FALSE]

Init ==
  /\ server = "running" /\ acceptor = "accepting" /\ accepted = {} /\ sessions = {}
  /\ conn = [c \in Sessions |-> "none"]
  /\ closed = [c \in Sessions |-> FALSE]
  /\ ready = [c \in Sessions |-> <<>>]
  /\ pending = [c \in Sessions |-> 0]
  /\ posted = [c \in Sessions |-> <<>>]
  /\ outgoing = [c \in Sessions |-> <<>>]
  /\ sequence = [c \in Sessions |-> 0]
  /\ strand = [c \in Sessions |-> <<>>]
  /\ running = [c \in Sessions |-> <<>>]
  /\ watched = [c \in Sessions |-> 0]
  /\ watchers = [id \in Ids |-> {}]
  /\ live = Ids
  /\ client = [c \in Sessions |-> NewClient]
  /\ commands = [c \in Sessions |-> 0]
  /\ books = [c \in Sessions |-> 0]
  /\ published = 0 /\ heartbeats = 0

-----------------------------------------------------------------------------
(* The payloads.  A reply says which stream the client watches from then   *)
(* on, 0 for none; a Book is numbered among those sent to the connection.  *)
Same == -1      \* What it watched before.

Heartbeat    == [kind |-> "heartbeat"]
StreamInfo(id) == [kind |-> "info", id |-> id]
Book(id, n)  == [kind |-> "book", id |-> id, n |-> n]
Reply(n, watching) == [kind |-> "reply", n |-> n, watching |-> watching]

(* What Enqueue() puts on the wire: the envelope's number and the payload. *)
Frame(number, payload) == [sequence |-> number, payload |-> payload]

Commands == [kind : {"watch"}, id : Ids] \cup [kind : {"unwatch", "other"}, id : {0}]
Forget == [kind |-> "forget", id |-> 0, n |-> 0]

(* What the client makes of a frame: whether numbers were skipped so far,  *)
(* Books lost so far, and a Book came of a stream it does not watch.       *)
Told(v, frame) ==
  LET p == frame.payload
      u == [v EXCEPT !.next = frame.sequence + 1, !.skipped = @ \/ frame.sequence # v.next]
  IN CASE p.kind = "heartbeat" -> u
       [] p.kind = "info" -> [u EXCEPT !.streams = @ \cup {p.id}]
       [] p.kind = "book" -> [u EXCEPT !.book = p.n, !.lost = @ \/ p.n # v.book + 1,
                                       !.stray = @ \/ p.id \notin v.streams]
       [] p.kind = "reply" -> [u EXCEPT !.reply = p.n,
            !.streams = IF p.watching = Same THEN @ ELSE {p.watching} \ {0}]

-----------------------------------------------------------------------------
(* Forget() is posted to the strand. *)
NotForgotten(queue) == queue                \* mutant: no Forget() is queued

WithForget(queue) == Append(queue, Forget)

(* Close(): queues a Forget() behind the commands read before.  What is    *)
(* queued stays until the write in flight fails, but goes nowhere, so it   *)
(* is dropped here, and so is what the client read.                        *)
Close(cs) ==
  LET closes == {c \in cs : ~closed[c]}
  IN /\ closed' = [c \in Sessions |-> closed[c] \/ c \in cs]
     /\ strand' = [c \in Sessions |-> IF c \in closes THEN WithForget(strand[c])
                                                     ELSE strand[c]]
     /\ outgoing' = [c \in Sessions |-> IF c \in closes THEN <<>> ELSE outgoing[c]]
     /\ client' = [c \in Sessions |-> IF c \in closes THEN NewClient ELSE client[c]]

(* Enqueue().  A Book that finds the queue full is dropped, and takes a     *)
(* number all the same; anything else is queued, up to the backlog.        *)
NumbersNothing == 0                         \* mutant: a dropped Book takes no number

DroppedNumbers == 1

(* kMaxBacklogFrames. *)
MaxBacklog == 2 * MaxQueued

Drops(queue, payload) == Len(queue) >= MaxQueued /\ payload.kind = "book"

Overflows(queue, payload) == Len(queue) >= MaxBacklog /\ payload.kind # "book"

Enqueue(c, payload) ==
  CASE closed[c] -> UNCHANGED <<outgoing, sequence, closed, strand, client>>
    [] ~closed[c] /\ Drops(outgoing[c], payload) ->
         /\ sequence' = [sequence EXCEPT ![c] = @ + DroppedNumbers]
         /\ UNCHANGED <<outgoing, closed, strand, client>>
    [] ~closed[c] /\ Overflows(outgoing[c], payload) -> Close({c}) /\ UNCHANGED sequence
    [] OTHER ->
         /\ outgoing' = [outgoing EXCEPT ![c] = Append(@, Frame(sequence[c], payload))]
         /\ sequence' = [sequence EXCEPT ![c] = @ + 1]
         /\ UNCHANGED <<closed, strand, client>>

(* Send(): posted to the network thread, in the order of the calls. *)
Send(c, payloads) == posted' = [posted EXCEPT ![c] = @ \o payloads]

-----------------------------------------------------------------------------
(* The network thread: accepting. *)

NetworkRuns == server \in {"running", "closing", "closed"}

acceptUnchanged ==
  <<server, ready, pending, posted, queueVars, running, watched, streamVars, client, boundVars>>

(* A client connects: the accept completes. *)
Connects(c) ==
  /\ acceptor = "accepting" /\ accepted = {} /\ conn[c] = "none"
  /\ accepted' = {c}
  /\ UNCHANGED <<acceptor, sessions, conn, closed, strand, acceptUnchanged>>

(* Its accept fails, and the handler starts the timer; the timer's accepts *)
(* again.                                                                  *)
AcceptFails(c) ==
  /\ acceptor = "accepting" /\ accepted = {} /\ conn[c] = "none"
  /\ acceptor' = "retrying"
  /\ UNCHANGED <<accepted, sessions, conn, closed, strand, acceptUnchanged>>

RetryAccept ==
  /\ acceptor = "retrying"
  /\ acceptor' = "accepting"
  /\ UNCHANGED <<accepted, sessions, conn, closed, strand, acceptUnchanged>>

(* The handler of an accept that completed: a new session's handshake      *)
(* begins, unless the acceptor was closed since.                           *)
AlwaysBegins == TRUE                        \* mutant: is_open() is not asked

StillAccepting == acceptor # "closed"

AcceptHandler(c) ==
  /\ NetworkRuns
  /\ c \in accepted
  /\ accepted' = {}
  /\ IF StillAccepting
       THEN sessions' = sessions \cup {c} /\ conn' = [conn EXCEPT ![c] = "handshake"]
       ELSE UNCHANGED sessions /\ conn' = [conn EXCEPT ![c] = "refused"]
  /\ UNCHANGED <<acceptor, closed, strand, acceptUnchanged>>

-----------------------------------------------------------------------------
(* The network thread: one connection. *)

sessionUnchanged ==
  <<server, acceptor, accepted, sessions, running, watched, streamVars>>

Open(c) == NetworkRuns /\ ~closed[c] /\ conn[c] = "open"

(* The handshake completes, and its handler runs: reading starts. *)
HandshakeDone(c) ==
  /\ NetworkRuns /\ ~closed[c] /\ conn[c] = "handshake" /\ ready[c] = <<>>
  /\ ready' = [ready EXCEPT ![c] = <<"handshake">>]
  /\ UNCHANGED <<conn, closed, strand, pending, posted, queueVars, client, boundVars,
                 sessionUnchanged>>

HandshakeHandler(c) ==
  /\ NetworkRuns
  /\ conn[c] = "handshake" /\ ready[c] # <<>>
  /\ ready' = [ready EXCEPT ![c] = <<>>]
  /\ conn' = IF closed[c] THEN conn ELSE [conn EXCEPT ![c] = "open"]
  /\ UNCHANGED <<closed, strand, pending, posted, queueVars, client, boundVars,
                 sessionUnchanged>>

(* A command arrives: the read completes. *)
CommandArrives(c, command) ==
  /\ Open(c) /\ ready[c] = <<>> /\ commands[c] < MaxCommands
  /\ commands' = [commands EXCEPT ![c] = @ + 1]
  /\ ready' = [ready EXCEPT ![c] =
       <<[kind |-> command.kind, id |-> command.id, n |-> commands[c] + 1]>>]
  /\ UNCHANGED <<conn, closed, strand, pending, posted, queueVars, client, heartbeats,
                 sessionUnchanged>>

(* Read()'s handler: posts the command to the strand, even one that is no   *)
(* ClientCommand, and reads on.  The connection may be closed since.       *)
ReadsAnyway(c) == TRUE                      \* mutant: closed_ is not asked

StillReading(c) == ~closed[c]

ReadHandler(c) ==
  /\ NetworkRuns
  /\ conn[c] = "open" /\ ready[c] # <<>>
  /\ ready' = [ready EXCEPT ![c] = <<>>]
  /\ IF ~StillReading(c) THEN UNCHANGED <<closed, strand, outgoing, client, pending>>
     ELSE IF pending[c] >= MaxPending THEN Close({c}) /\ UNCHANGED pending
     ELSE /\ pending' = [pending EXCEPT ![c] = @ + 1]
          /\ strand' = [strand EXCEPT ![c] = Append(@, ready[c][1])]
          /\ UNCHANGED <<closed, outgoing, client>>
  /\ UNCHANGED <<conn, posted, sequence, boundVars, sessionUnchanged>>

(* The handshake, a read or a write fails, or the client was idle.  A      *)
(* write may fail while the handler of a read that completed still waits.  *)
ConnectionFails(c) ==
  /\ NetworkRuns /\ ~closed[c]
  /\ \/ conn[c] = "open"
     \/ conn[c] = "handshake" /\ ready[c] = <<>>
  /\ Close({c})
  /\ UNCHANGED <<conn, ready, pending, posted, sequence, boundVars, sessionUnchanged>>

(* A posted Send(). *)
EnqueueHandler(c) ==
  /\ NetworkRuns
  /\ posted[c] # <<>>
  /\ Enqueue(c, Head(posted[c]))
  /\ posted' = [posted EXCEPT ![c] = Tail(@)]
  /\ UNCHANGED <<conn, ready, pending, boundVars, sessionUnchanged>>

(* The heartbeat timer, after a while without a frame queued. *)
HeartbeatHandler(c) ==
  /\ Open(c) /\ heartbeats < MaxHeartbeats
  /\ heartbeats' = heartbeats + 1
  /\ Enqueue(c, Heartbeat)
  /\ UNCHANGED <<conn, ready, pending, posted, commands, sessionUnchanged>>

(* The frame in flight is written, and the next one goes out. *)
WriteHandler(c) ==
  /\ Open(c) /\ outgoing[c] # <<>>
  /\ client' = [client EXCEPT ![c] = Told(@, Head(outgoing[c]))]
  /\ outgoing' = [outgoing EXCEPT ![c] = Tail(@)]
  /\ UNCHANGED <<conn, closed, strand, ready, pending, posted, sequence, boundVars,
                 sessionUnchanged>>

-----------------------------------------------------------------------------
(* A command thread: the strand of `c`. *)

strandUnchanged ==
  <<server, acceptor, accepted, conn, socketVars, queueVars, live, published, client, boundVars>>

Runs(c, at) == running[c] # <<>> /\ running[c][1].at = at

At(c, at) == running' = [running EXCEPT ![c] = <<[@[1] EXCEPT !.at = at]>>]

(* Its result is next, after which the client watches `watching`. *)
Replies(c, watching) ==
  running' = [running EXCEPT ![c] = <<[@[1] EXCEPT !.at = "reply", !.watching = watching]>>]

(* Books sent to `c` are numbered. *)
SendBook(c, before, id) ==
  /\ Send(c, before \o <<Book(id, books[c] + 1)>>)
  /\ books' = [books EXCEPT ![c] = @ + 1]

(* The strand takes its next command, once a thread of the pool is free. *)
LastCommand(queue) == <<queue[Len(queue)], SubSeq(queue, 1, Len(queue) - 1)>>  \* mutant: LIFO

NextCommand(queue) == <<Head(queue), Tail(queue)>>

Begin(c) ==
  /\ running[c] = <<>> /\ strand[c] # <<>>
  /\ Cardinality({d \in Sessions : running[d] # <<>>}) < CommandThreads
  /\ LET next == NextCommand(strand[c])
         first == next[1]
     IN /\ strand' = [strand EXCEPT ![c] = next[2]]
        /\ running' = [running EXCEPT ![c] =
             <<[kind |-> first.kind, id |-> first.id, n |-> first.n, at |-> first.kind,
                watching |-> Same]>>]
  /\ UNCHANGED <<sessions, pending, posted, watched, watchers, books,
                 server, acceptor, accepted, conn, closed, ready, queueVars, live, published,
                 client, boundVars>>

(* Watch(): Outbox::Watch() fails, or sends the StreamInfo and a snapshot. *)
RunWatch(c) ==
  LET id == running[c][1].id
  IN /\ Runs(c, "watch")
     /\ IF id \in live
          THEN /\ SendBook(c, <<StreamInfo(id)>>, id)
               /\ watchers' = [watchers EXCEPT ![id] = @ \cup {c}]
               /\ At(c, "replace")
          ELSE UNCHANGED <<posted, books, watchers>> /\ At(c, "reply")
     /\ UNCHANGED <<sessions, pending, strand, watched, strandUnchanged>>

(* Outbox::Unwatch(). *)
Unwatched(id, c) ==
  IF id \in Ids THEN [watchers EXCEPT ![id] = @ \ {c}] ELSE watchers

(* The stream watched before is replaced. *)
NoneReplaced(c) == 0                        \* mutant: it stays watched

Replaced(c) == IF watched[c] = running[c][1].id THEN 0 ELSE watched[c]

RunReplace(c) ==
  LET id == running[c][1].id
  IN /\ Runs(c, "replace")
     /\ watchers' = Unwatched(Replaced(c), c)
     /\ watched' = [watched EXCEPT ![c] = id]
     /\ Replies(c, id)
     /\ UNCHANGED <<sessions, pending, posted, strand, books, strandUnchanged>>

RunUnwatch(c) ==
  /\ Runs(c, "unwatch")
  /\ watchers' = Unwatched(watched[c], c)
  /\ watched' = [watched EXCEPT ![c] = 0]
  /\ Replies(c, 0)
  /\ UNCHANGED <<sessions, pending, posted, strand, books, strandUnchanged>>

(* Execute() sends the result; then CommandDone(). *)
RunReply(c) ==
  /\ Runs(c, "reply") \/ Runs(c, "other")
  /\ Send(c, <<Reply(running[c][1].n, running[c][1].watching)>>)
  /\ At(c, "done")
  /\ UNCHANGED <<sessions, pending, strand, watched, watchers, books, strandUnchanged>>

RunDone(c) ==
  /\ Runs(c, "done")
  /\ pending' = [pending EXCEPT ![c] = @ - 1]
  /\ running' = [running EXCEPT ![c] = <<>>]
  /\ UNCHANGED <<sessions, posted, strand, watched, watchers, books, strandUnchanged>>

(* Forget(). *)
RunForget(c) ==
  /\ Runs(c, "forget")
  /\ watchers' = Unwatched(watched[c], c)
  /\ watched' = [watched EXCEPT ![c] = 0]
  /\ sessions' = sessions \ {c}
  /\ running' = [running EXCEPT ![c] = <<>>]
  /\ UNCHANGED <<pending, posted, strand, books, strandUnchanged>>

-----------------------------------------------------------------------------
(* The streams (external, see Stream): one publishes a Book, or ends. *)

streamUnchanged ==
  <<acceptVars, socketVars, pending, queueVars, commandVars, client, boundVars>>

Publish(id) ==
  /\ id \in live /\ watchers[id] # {} /\ published < MaxBooks
  /\ published' = published + 1
  /\ books' = [c \in Sessions |-> IF c \in watchers[id] THEN books[c] + 1 ELSE books[c]]
  /\ posted' = [c \in Sessions |-> IF c \in watchers[id]
                                     THEN Append(posted[c], Book(id, books'[c]))
                                     ELSE posted[c]]
  /\ UNCHANGED <<watchers, live, streamUnchanged>>

EndStream(id) ==
  /\ id \in live
  /\ live' = live \ {id}
  /\ watchers' = [watchers EXCEPT ![id] = {}]
  /\ UNCHANGED <<posted, published, books, streamUnchanged>>

-----------------------------------------------------------------------------
(* The destructor. *)

destructorUnchanged ==
  <<sessions, conn, ready, pending, sequence, running, watched, streamVars, boundVars>>

closesNone == <<closed, strand, outgoing, client>>

(* It posts StopHandler and joins the network thread. *)
Destroy ==
  /\ server = "running"
  /\ server' = "closing"
  /\ UNCHANGED <<acceptor, accepted, closesNone, posted, destructorUnchanged>>

(* Closes the acceptor, cancels the retry and closes every session. *)
StopHandler ==
  /\ server = "closing"
  /\ server' = "closed"
  /\ acceptor' = "closed"
  /\ Close(sessions)
  /\ UNCHANGED <<accepted, posted, destructorUnchanged>>

(* The network thread runs out of work: nothing is connected, no handler   *)
(* is left to run.                                                         *)
NetworkEnds ==
  /\ server = "closed"
  /\ accepted = {}
  /\ \A c \in Sessions :
       /\ conn[c] \in {"handshake", "open"} => closed[c]
       /\ ready[c] = <<>> /\ posted[c] = <<>>
  /\ server' = "networkEnded"
  /\ UNCHANGED <<acceptor, accepted, closesNone, posted, destructorUnchanged>>

(* commands_.join(). *)
CommandsEnd ==
  /\ server = "networkEnded"
  /\ \A c \in Sessions : strand[c] = <<>> /\ running[c] = <<>>
  /\ server' = "commandsEnded"
  /\ UNCHANGED <<acceptor, accepted, closesNone, posted, destructorUnchanged>>

(* The replies sent since are dropped, as their connections are closed. *)
DropReplies ==
  /\ server = "commandsEnded"
  /\ server' = "ended"
  /\ posted' = [c \in Sessions |-> <<>>]
  /\ UNCHANGED <<acceptor, accepted, closesNone, destructorUnchanged>>

-----------------------------------------------------------------------------
Handler(c) ==
  \/ AcceptHandler(c) \/ HandshakeHandler(c) \/ ReadHandler(c) \/ EnqueueHandler(c)

Strand(c) ==
  \/ Begin(c) \/ RunWatch(c) \/ RunReplace(c) \/ RunUnwatch(c)
  \/ RunReply(c) \/ RunDone(c) \/ RunForget(c)

Destructor == StopHandler \/ NetworkEnds \/ CommandsEnd \/ DropReplies

Next ==
  \/ \E c \in Sessions :
       \/ Connects(c) \/ AcceptFails(c) \/ HandshakeDone(c) \/ ConnectionFails(c)
       \/ \E command \in Commands : CommandArrives(c, command)
       \/ HeartbeatHandler(c) \/ WriteHandler(c)
       \/ Handler(c) \/ Strand(c)
  \/ RetryAccept
  \/ \E id \in Ids : Publish(id) \/ EndStream(id)
  \/ Destroy \/ Destructor

(* The network thread runs its handlers, the pool its commands, each of    *)
(* which ends; the destructor goes on once it runs.  No client has to      *)
(* send, read or leave.                                                    *)
Fairness ==
  /\ \A c \in Sessions : WF_vars(Handler(c)) /\ SF_vars(Strand(c))
  /\ WF_vars(Destructor)

Spec == Init /\ [][Next]_vars /\ Fairness

-----------------------------------------------------------------------------
(* The payloads on their way to a client, and the numbers of the Books     *)
(* among them and of the next one after those.                             *)
OnTheWay(c) == [i \in 1..Len(outgoing[c]) |-> outgoing[c][i].payload] \o posted[c]

BooksComing(c) ==
  {OnTheWay(c)[i].n : i \in {j \in 1..Len(OnTheWay(c)) : OnTheWay(c)[j].kind = "book"}}
    \cup {books[c] + 1}

(* "Its sequence numbers then skip, telling it to Watch again"             *)
(* (server.h:44): a client that saw no number skipped missed no Book of    *)
(* those sent to it, whatever was dropped, and one that saw a skip missed  *)
(* some: a Book before the last it read, or before the next it will.       *)
GapsShow ==
  \A c \in Sessions :
    ~closed[c] =>
      /\ client[c].lost => client[c].skipped
      /\ client[c].skipped => client[c].lost \/ client[c].book + 1 \notin BooksComing(c)

(* The commands that run or wait, and how many were read.                  *)
Unanswered(c) ==
  LET waiting == strand[c]
      last == Len(waiting)
  IN (IF running[c] # <<>> /\ running[c][1].at \notin {"done", "forget"}
        THEN running[c] ELSE <<>>)
       \o (IF waiting # <<>> /\ waiting[last] = Forget THEN SubSeq(waiting, 1, last - 1)
                                                      ELSE waiting)

CommandsRead(c) ==
  IF conn[c] = "open" /\ ready[c] # <<>> THEN commands[c] - 1 ELSE commands[c]

(* "Each connection's commands run one at a time and in order", and each   *)
(* is answered once (server.h:39): the replies on their way are in order,  *)
(* and are those after the last one read, up to the commands that wait or  *)
(* run, which are the last ones read.  A client that does not read or      *)
(* sends without end has no more of either queued than kMaxBacklogFrames   *)
(* and kMaxPendingCommands (server.cc:61 and 66).                          *)
AnsweredInOrder ==
  \A c \in Sessions :
    LET way == OnTheWay(c)
        replies == {i \in 1..Len(way) : way[i].kind = "reply"}
        waiting == Unanswered(c)
        answered == CommandsRead(c) - Len(waiting)
    IN /\ ~closed[c] =>
            /\ \A i \in 1..Len(waiting) : waiting[i].n = answered + i
            /\ \A i, j \in replies : i < j => way[i].n < way[j].n
            /\ {way[i].n : i \in replies} = (client[c].reply + 1)..answered
       /\ Len(waiting) <= MaxPending /\ Len(outgoing[c]) <= MaxBacklog

(* A client only gets Books of a stream it watches: after the StreamInfo,  *)
(* and never after the reply to the Unwatch, or to the Watch of another    *)
(* (market_data.proto: "Replaces any subscription watched before").        *)
NoStrayBooks == \A c \in Sessions : ~client[c].stray

(* A connection that was dropped leaves nothing behind: once it is gone    *)
(* from sessions_, no stream sends to it, nor will a command make one, and *)
(* once the pool is joined that is so of all of them (server.cc:369).      *)
ForgottenForGood ==
  /\ \A c \in Sessions :
       conn[c] # "none" /\ c \notin sessions =>
         /\ strand[c] = <<>>
         /\ running[c] = <<>>
         /\ \A id \in Ids : c \notin watchers[id]
  /\ server \in {"commandsEnded", "ended"} => sessions = {}

(* The destructor ends, though connections come, commands run and streams  *)
(* publish meanwhile (server.cc:368): in the end the server is as before   *)
(* the destructor, or gone.                                                *)
ShutdownEnds == <>[](server \in {"running", "ended"})

(* A dropped connection is forgotten, whatever it had in flight and though *)
(* others' commands use the pool (server.cc:200): a run has finitely many  *)
(* connections, so in the end none that was dropped is left.               *)
DroppedIsForgotten == <>[](\A c \in sessions : ~closed[c])
=============================================================================
