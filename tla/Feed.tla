-------------------------------- MODULE Feed --------------------------------
(***************************************************************************)
(* net/websocket_feed.{h,cc}: one connection to a venue, from Connect() to *)
(* Disconnect(), as the producer of the frame queue (Spsc): its network    *)
(* thread pushes what it reads, the parser thread drains the queue, and    *)
(* their owner (L2Manager) stops the parser once the feed is disconnected. *)
(*                                                                         *)
(* Everything that touches the socket runs on the network thread, one      *)
(* handler of the connection's io_context at a time.  boost::asio and      *)
(* boost::beast are external: a posted handler is ready at once, an        *)
(* operation completes or fails when its handler is run, and an io_context *)
(* that runs out of work stops until it is restarted.  Texts are numbered  *)
(* in the order Send() is called, frames in the order they are read.       *)
(***************************************************************************)
EXTENDS Spsc

CONSTANTS Texts,      \* Bound: calls of Send().
          Attempts    \* Bound: calls of Connect().

ASSUME FeedAssumption == Texts \in Nat /\ Attempts \in Nat

VARIABLES
  feed,       \* Where the owner's call is; "idle" and "closed" are disconnected.
  attempts,   \* Calls of Connect() made.
  log,        \* Whether raw_log_ is open.
  stopFeed,   \* stop_.
  network,    \* Where the network thread is.
  stopped,    \* Whether ioc_ ran out of work.
  posted,     \* Send()'s handlers in ioc_, by text.
  outbox,     \* outbox_; its first text is being written.
  reading,    \* Whether the async_read of Next() is pending.
  sent,       \* Texts Send() was called with while connected.
  wire,       \* Texts written to the socket, in order.
  frames      \* Frames Next() returned.

socket == <<stopped, posted, outbox, reading>>
ownerVars == <<feed, attempts, log, stopFeed, sent>>
feedVars == <<ownerVars, network, socket, wire, frames>>

FeedInit ==
  /\ Init
  /\ feed = "idle" /\ attempts = 0 /\ log = FALSE /\ stopFeed = FALSE
  /\ network = "none" /\ stopped = FALSE /\ posted = <<>> /\ outbox = <<>>
  /\ reading = FALSE /\ sent = 0 /\ wire = <<>> /\ frames = 0

-----------------------------------------------------------------------------
(* The owner's calls. *)

(* Connect() opens the log ... *)
OpenRawLog ==
  /\ feed = "idle" /\ attempts < Attempts
  /\ feed' = "connecting" /\ attempts' = attempts + 1 /\ log' = TRUE
  /\ UNCHANGED <<stopFeed, sent, network, socket, wire, frames, vars>>

(* ... and makes the connection and its thread ... *)
Connected ==
  /\ feed = "connecting"
  /\ feed' = "connected" /\ stopFeed' = FALSE /\ network' = "next"
  /\ UNCHANGED <<attempts, log, sent, socket, wire, frames, vars>>

(* ... or a handshake fails, and it disconnects before it rethrows. *)
ConnectThrows ==
  /\ feed = "connecting"
  /\ feed' = "idle" /\ log' = FALSE /\ stopFeed' = TRUE
  /\ UNCHANGED <<attempts, sent, network, socket, wire, frames, vars>>

(* Send(), which only posts. *)
Send ==
  /\ feed = "connected" /\ sent < Texts
  /\ sent' = sent + 1
  /\ posted' = Append(posted, sent')
  /\ UNCHANGED <<feed, attempts, log, stopFeed, network, stopped, outbox, reading, wire, frames,
                 vars>>

(* Disconnect() stops the network thread ... *)
Disconnect ==
  /\ feed = "connected"
  /\ feed' = "joining" /\ stopFeed' = TRUE
  /\ UNCHANGED <<attempts, log, sent, network, socket, wire, frames, vars>>

(* ... and once it joined, destroys the connection with what is pending.   *)
Disconnected ==
  /\ feed = "joining" /\ network = "ended"
  /\ feed' = "closed" /\ log' = FALSE
  /\ posted' = <<>> /\ outbox' = <<>> /\ reading' = FALSE
  /\ UNCHANGED <<attempts, stopFeed, sent, network, stopped, wire, frames, vars>>

(* The owner stops the parser, whose Drain() is Spsc's Consumer. *)
StopParser ==
  /\ feed = "closed"
  /\ RequestStop
  /\ UNCHANGED feedVars

-----------------------------------------------------------------------------
(* The network thread: Run() and Next(). *)

(* Next() starts its read and restarts ioc_. *)
NotRestarted == stopped               \* mutant

Restarted == FALSE

BeginNext ==
  /\ network = "next" /\ producer = "idle"
  /\ network' = "poll" /\ reading' = TRUE /\ stopped' = Restarted
  /\ UNCHANGED <<ownerVars, posted, outbox, wire, frames, vars>>

PollStop ==
  /\ network = "poll"
  /\ network' = IF stopFeed THEN "closing" ELSE "run"
  /\ UNCHANGED <<ownerVars, socket, wire, frames, vars>>

(* ioc_ runs one handler: in the loop of Next(), or in Close(), which goes *)
(* on until all have run.                                                  *)
MayRun == network \in {"run", "closing", "aborting"} /\ ~stopped

HandlerRan ==
  /\ stopped' = (posted' = <<>> /\ outbox' = <<>> /\ ~reading')
  /\ UNCHANGED <<ownerVars>>

BackToPoll == network' = IF network = "run" THEN "poll" ELSE network

(* A handler Send() posted; a write is in flight while texts are queued. *)
RunPosted ==
  /\ MayRun /\ posted # <<>>
  /\ posted' = Tail(posted) /\ outbox' = Append(outbox, Head(posted))
  /\ UNCHANGED <<reading, wire, frames, vars>>
  /\ BackToPoll /\ HandlerRan

(* The write of the outbox's first text completes, and the next begins.    *)
(* beast fails the writes it is left with once the close has begun.        *)
RunWritten ==
  /\ MayRun /\ network = "run" /\ outbox # <<>>
  /\ wire' = Append(wire, Head(outbox)) /\ outbox' = Tail(outbox)
  /\ UNCHANGED <<posted, reading, frames, vars>>
  /\ BackToPoll /\ HandlerRan

(* An operation failed.  In Next() it throws, Run() fails the pipeline and *)
(* the thread ends, with what else is pending left in ioc_.                *)
Fails ==
  /\ HandlerRan
  /\ IF network = "run"
       THEN network' = "ended" /\ EndProducer /\ giveUp' = TRUE
       ELSE UNCHANGED <<network, vars>>

RunWriteFails ==
  /\ MayRun /\ outbox # <<>>
  /\ outbox' = <<>>
  /\ UNCHANGED <<posted, reading, wire, frames>>
  /\ Fails

(* The venue dropped the connection, was silent for kIdleTimeout, or ended *)
(* the close handshake.                                                    *)
RunReadFails ==
  /\ MayRun /\ reading
  /\ reading' = FALSE
  /\ UNCHANGED <<posted, outbox, wire, frames>>
  /\ Fails

(* Next() returns a frame.  One that comes during the close is discarded. *)
RunRead ==
  /\ MayRun /\ network = "run" /\ reading /\ frames < Values
  /\ reading' = FALSE /\ network' = "frame" /\ frames' = frames + 1
  /\ UNCHANGED <<posted, outbox, wire, vars>>
  /\ HandlerRan

(* Nothing was ready for kStopPollInterval, or ioc_ is stopped. *)
RunNothing ==
  /\ network = "run" /\ (posted = <<>> \/ stopped)
  /\ network' = "poll"
  /\ UNCHANGED <<ownerVars, socket, wire, frames, vars>>

(* Run() logs the frame and calls PushBlocking(); the next Next() follows. *)
DropsLate == IF stopFeed THEN UNCHANGED vars ELSE CallPush   \* mutant: checks stop_

PushFrame == CallPush

LogFrame ==
  /\ network = "frame"
  /\ PushFrame
  /\ network' = "next"
  /\ UNCHANGED <<ownerVars, socket, wire, frames>>

(* Close(): within kCloseTimeout every operation completed, or the socket  *)
(* is closed, which aborts them.                                           *)
NeverTimesOut == FALSE                \* mutant: waits for the venue's answer

TimesOut == ~stopped

CloseTimesOut ==
  /\ network = "closing" /\ TimesOut
  /\ network' = "aborting"
  /\ UNCHANGED <<ownerVars, socket, wire, frames, vars>>

(* Next() returns nullopt, and Run() returns. *)
EndRun ==
  /\ network \in {"closing", "aborting"} /\ stopped
  /\ network' = "ended"
  /\ EndProducer /\ UNCHANGED giveUp
  /\ UNCHANGED <<ownerVars, socket, wire, frames>>

-----------------------------------------------------------------------------
Aborted == network = "aborting" /\ (RunPosted \/ RunWriteFails \/ RunReadFails)

Network ==
  \/ BeginNext \/ PollStop \/ RunPosted \/ RunNothing
  \/ LogFrame \/ CloseTimesOut \/ EndRun

FeedNext ==
  \/ OpenRawLog \/ Connected \/ ConnectThrows
  \/ Send \/ Disconnect \/ Disconnected \/ StopParser
  \/ Network \/ RunWritten \/ RunWriteFails \/ RunRead \/ RunReadFails
  \/ (TryPush \/ CheckGiveUp \/ Consumer) /\ UNCHANGED feedVars

allVars == <<vars, feedVars>>

(* The threads are scheduled, and a closed socket aborts what is pending.  *)
(* The venue reads what is written, or the write fails; it may never send. *)
FeedSpec ==
  /\ FeedInit /\ [][FeedNext]_allVars
  /\ WF_allVars(Network) /\ WF_allVars(Aborted)
  /\ SF_allVars(RunWritten \/ RunWriteFails)
  /\ WF_allVars(Disconnected)
  /\ WF_allVars((TryPush \/ CheckGiveUp) /\ UNCHANGED feedVars)
  /\ WF_allVars(Consumer /\ UNCHANGED feedVars)

-----------------------------------------------------------------------------
(* "Every frame read before the stop is in the queue by the time it        *)
(* returns" (websocket_feed.h:52), as far as the parser has not taken it   *)
(* or failed, wherever in Next() or the push the stop met the thread.      *)
ReadIsQueued ==
  feed = "closed" /\ ~Broken => Len(consumed) + Len(queue) = frames

(* Disconnect() returns, whether or not the venue answers the close, and   *)
(* though the thread it joins may be pushing into a full queue.            *)
DisconnectEnds == feed = "joining" ~> feed = "closed"

(* A text is written unless the connection ends first, though it may be    *)
(* posted while ioc_ is stopped between two reads (websocket_feed.cc:105), *)
(* and in its turn, as texts go out one by one (websocket_feed.cc:140).    *)
SendsGoOut ==
  \A n \in 1..Texts :
    sent = n ~> (Len(wire) >= n /\ wire[n] = n) \/ network = "ended"
=============================================================================
