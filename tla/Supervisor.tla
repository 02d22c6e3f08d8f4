----------------------------- MODULE Supervisor -----------------------------
(***************************************************************************)
(* venue/router.cc, Supervise(): the Router's thread that keeps the venues *)
(* connected.  A manager (see L2Manager) is reduced to whether it is       *)
(* healthy, and a Connect() that takes its time, may throw, and may never  *)
(* return: the constructor of WebsocketFeed's connection resolves the host *)
(* and waits for the TCP, TLS and websocket handshakes in synchronous      *)
(* calls, to which no timeout applies.                                     *)
(*                                                                         *)
(* Time passes in ticks.  The supervisor's time points only ever count     *)
(* down to an attempt, so the model keeps how far away they are.           *)
(***************************************************************************)
EXTENDS Integers

CONSTANTS Managed,    \* The venues there is a manager for, in their order.
          Initial,    \* backoff_.initial, in ticks.
          MaxDelay,   \* backoff_.max.
          MaxDrops    \* Bound: how often connections drop.

ASSUME SupervisorAssumption ==
  /\ Managed \subseteq Nat
  /\ Initial \in Nat \ {0} /\ MaxDelay \in Nat /\ Initial <= MaxDelay
  /\ MaxDrops \in Nat

VARIABLES
  healthy,       \* Per venue, its manager's healthy().
  attempt,       \* Per venue, ticks until next_attempt.
  delay,         \* Per venue, delay.
  failures,      \* Per venue, attempts that failed in a row, up to MaxDelay.
  sinceFailure,  \* Per venue, ticks since the last one failed, up to MaxDelay.
  due,           \* The venues with next_attempt <= now, the time this round began.
  checked,       \* The venues this round of the supervisor is done with.
  supervisor,    \* <<"connecting", v>>, <<"hung", v>>, <<"checking">>, <<"asleep">>
                 \* or <<"ended">>.
  stopRequested, \* Whether the destructor requested its stop.
  drops          \* Bounds the run.

retryVars == <<attempt, delay, failures, sinceFailure>>
supervisorVars == <<healthy, retryVars, due, checked, supervisor, stopRequested, drops>>

SupervisorInit ==
  /\ healthy = [v \in Managed |-> FALSE]
  /\ attempt = [v \in Managed |-> 0] /\ delay = [v \in Managed |-> Initial]
  /\ failures = [v \in Managed |-> 0] /\ sinceFailure = [v \in Managed |-> MaxDelay]
  /\ due = {} /\ checked = {} /\ supervisor = <<"asleep">> /\ stopRequested = FALSE
  /\ drops = 0

-----------------------------------------------------------------------------
(* The supervisor thread. *)

supervisorUnchanged == <<stopRequested, drops>>
roundUnchanged == <<due, supervisorUnchanged>>

(* A round takes the venues in the order of their ids, and passes over one *)
(* that is healthy by now, or was not due when the round began.            *)
IsNext(v) == v \in Managed \ checked /\ \A u \in Managed \ checked : v <= u

DueOnce(v) == ~healthy[v] /\ failures[v] = 0   \* mutant: a failed attempt is the last

Due(v) == ~healthy[v] /\ v \in due

Skip(v) ==
  /\ supervisor = <<"checking">> /\ IsNext(v)
  /\ ~Due(v)
  /\ checked' = checked \cup {v}
  /\ UNCHANGED <<healthy, retryVars, supervisor, roundUnchanged>>

BeginConnect(v) ==
  /\ supervisor = <<"checking">> /\ IsNext(v)
  /\ Due(v)
  /\ supervisor' = <<"connecting", v>>
  /\ UNCHANGED <<healthy, retryVars, checked, roundUnchanged>>

Connected(v) ==
  /\ supervisor = <<"connecting", v>>
  /\ healthy' = [healthy EXCEPT ![v] = TRUE]
  /\ delay' = [delay EXCEPT ![v] = Initial]
  /\ failures' = [failures EXCEPT ![v] = 0]
  /\ checked' = checked \cup {v} /\ supervisor' = <<"checking">>
  /\ UNCHANGED <<attempt, sinceFailure, roundUnchanged>>

(* The attempt throws: the next is due `delay` after it failed. *)
NextDelay(d) == IF d * 2 < MaxDelay THEN d * 2 ELSE MaxDelay

InitialDelay(v) == Initial                  \* mutant: the first delay, every time

DueIn(v) == delay[v]

ConnectThrows(v) ==
  /\ supervisor = <<"connecting", v>>
  /\ attempt' = [attempt EXCEPT ![v] = DueIn(v)]
  /\ delay' = [delay EXCEPT ![v] = NextDelay(@)]
  /\ failures' = [failures EXCEPT ![v] = IF @ < MaxDelay THEN @ + 1 ELSE MaxDelay]
  /\ sinceFailure' = [sinceFailure EXCEPT ![v] = 0]
  /\ checked' = checked \cup {v} /\ supervisor' = <<"checking">>
  /\ UNCHANGED <<healthy, roundUnchanged>>

(* Every venue was looked at: sleeps for a period, or until stopped, and   *)
(* asks for the stop as it does at first.                                  *)
Sleep ==
  /\ supervisor = <<"checking">> /\ checked = Managed
  /\ supervisor' = <<"asleep">>
  /\ due' = {} /\ checked' = {}              \* The round's own state ends with it.
  /\ UNCHANGED <<healthy, retryVars, supervisorUnchanged>>

StopsLooping == stopRequested

Wake ==
  /\ supervisor = <<"asleep">>
  /\ supervisor' = IF StopsLooping THEN <<"ended">> ELSE <<"checking">>
  /\ due' = {v \in Managed : attempt[v] = 0 /\ ~StopsLooping}
  /\ UNCHANGED <<healthy, retryVars, checked, supervisorUnchanged>>

-----------------------------------------------------------------------------
(* The destructor, time, and the venues (external). *)

RequestStop ==
  /\ ~stopRequested
  /\ stopRequested' = TRUE
  /\ UNCHANGED <<healthy, retryVars, due, checked, supervisor, drops>>

TimePasses ==
  /\ \E v \in Managed : attempt[v] > 0 \/ sinceFailure[v] < MaxDelay
  /\ attempt' = [v \in Managed |-> IF attempt[v] > 0 THEN attempt[v] - 1 ELSE 0]
  /\ sinceFailure' = [v \in Managed |->
                        IF sinceFailure[v] < MaxDelay THEN sinceFailure[v] + 1 ELSE MaxDelay]
  /\ UNCHANGED <<healthy, delay, failures, due, checked, supervisor, stopRequested, drops>>

Drop(v) ==
  /\ healthy[v] /\ drops < MaxDrops
  /\ healthy' = [healthy EXCEPT ![v] = FALSE]
  /\ drops' = drops + 1
  /\ UNCHANGED <<retryVars, due, checked, supervisor, stopRequested>>

(* The venue accepts the connection and then says nothing: the thread      *)
(* stays in a handshake, and nobody else can end it.                       *)
Hangs(v) ==
  /\ supervisor = <<"connecting", v>>
  /\ supervisor' = <<"hung", v>>
  /\ UNCHANGED <<healthy, retryVars, checked, roundUnchanged>>

-----------------------------------------------------------------------------
Supervise ==
  \/ \E v \in Managed : Skip(v) \/ BeginConnect(v) \/ Connected(v) \/ ConnectThrows(v)
  \/ Sleep \/ Wake

SupervisorNext ==
  \/ Supervise
  \/ RequestStop \/ TimePasses
  \/ \E v \in Managed : Drop(v) \/ Hangs(v)

(* The supervisor is scheduled and time passes.  A Connect() ends or       *)
(* hangs: nothing in the code makes a venue finish its handshakes.         *)
SupervisorSpec ==
  /\ SupervisorInit /\ [][SupervisorNext]_supervisorVars
  /\ WF_supervisorVars(Supervise) /\ WF_supervisorVars(TimePasses)

-----------------------------------------------------------------------------
(* A venue that keeps failing is left alone longer and longer, up to a     *)
(* limit, counted from when the last attempt failed (router.cc:170).       *)
Doubled[n \in 0..MaxDelay] == IF n = 0 THEN Initial ELSE 2 * Doubled[n - 1]

Spaced(v) ==
  failures[v] > 0 =>
    LET wait == Doubled[failures[v] - 1]
    IN sinceFailure[v] >= IF wait < MaxDelay THEN wait ELSE MaxDelay

RetriesSpaced ==
  [][\A v \in Managed : supervisor' = <<"connecting", v>> /\ supervisor # supervisor'
                           => Spaced(v)]_supervisorVars

Hung == \E v \in Managed : supervisor = <<"hung", v>>

(* A venue that is down is connected to again and again, however often it  *)
(* or others fail, until the Router stops, and unless a venue hangs        *)
(* (router.cc:155): all venues share one thread.                           *)
Reconnects ==
  \A v \in Managed :
    ~healthy[v] ~> supervisor = <<"connecting", v>> \/ stopRequested \/ Hung

(* router.h:32: "Keeps every venue connected: a venue that is not healthy  *)
(* is reconnected on a background thread".  So one that is down is being   *)
(* connected to again and again, whatever the others do.                   *)
EveryVenueReconnects ==
  \A v \in Managed :
    ~healthy[v] ~> supervisor \in {<<"connecting", v>>, <<"hung", v>>} \/ stopRequested
=============================================================================
