------------------------------- MODULE Router -------------------------------
(***************************************************************************)
(* venue/router.{h,cc}: the ids of the subscriptions of every venue.       *)
(* Subscribe() takes the next counter for an id and hands it to the        *)
(* venue's manager; Unsubscribe() finds the manager by the id alone.  The  *)
(* managers are reduced to a table each of the ids they have subscriptions *)
(* of.  Supervisor has the Router's thread, and Commands what clients ask  *)
(* of it.                                                                  *)
(***************************************************************************)
EXTENDS SubscriptionId, Sequences

CONSTANTS MaxCalls,   \* Bound: how many Subscribe() calls there are.
          Venues,     \* The venues there is a manager for, a subset of Byte.
          Sinks       \* kLive and kRecord, 0 and 1.

ASSUME RouterAssumption ==
  Venues \subseteq Byte /\ Sinks \subseteq Byte /\ MaxCalls \in Nat

VARIABLES
  counter,     \* next_counter_.
  calls,       \* The Subscribe() calls, in the order they took their counters.
  tables       \* Per venue, the ids its manager has subscriptions of.

idVars == <<counter, calls, tables>>

Init == counter = 1 /\ calls = <<>> /\ tables = [v \in Venues |-> {}]

(* Subscribe() takes a counter, which concurrent calls do atomically, and  *)
(* gives the id made of it to the venue's manager; or none is left.        *)
AlwaysLeft(taken) == TRUE                   \* mutant: counters are not limited

IdsLeft(taken) == taken <= MaxCounter

Exhausted == [state |-> "exhausted"]

Subscribe(venue, sink) ==
  /\ Len(calls) < MaxCalls
  /\ counter' = counter + 1
  /\ calls' = Append(calls,
       IF IdsLeft(counter)
         THEN [state |-> "subscribing", venue |-> venue, sink |-> sink,
               id |-> MakeSubscriptionId(counter, venue, sink)]
         ELSE Exhausted)
  /\ UNCHANGED tables

(* The manager adds the subscription, or answers otherwise. *)
ManagerSubscribes(i) ==
  /\ calls[i].state = "subscribing"
  /\ calls' = [calls EXCEPT ![i].state = "answered"]
  /\ \/ tables' = [tables EXCEPT ![calls[i].venue] = @ \cup {calls[i].id}]
     \/ UNCHANGED tables
  /\ UNCHANGED counter

(* Unsubscribe(): asks the manager of the venue the id names. *)
Unsubscribe(id) ==
  /\ VenueOf(id) \in Venues
  /\ tables' = [tables EXCEPT ![VenueOf(id)] = @ \ {id}]
  /\ UNCHANGED <<counter, calls>>

Next ==
  \/ \E v \in Venues, sink \in Sinks : Subscribe(v, sink)
  \/ \E i \in DOMAIN calls : ManagerSubscribes(i)
  \/ \E v \in Venues : \E id \in tables[v] : Unsubscribe(id)

Spec == Init /\ [][Next]_idVars

-----------------------------------------------------------------------------
(* "Ids sort in the order they were handed out and name their venue and    *)
(* sink" (manager.h:42): of any two calls, whichever their venues and      *)
(* however they overlap, the earlier to take a counter has the smaller id. *)
HasId(i) == calls[i].state \in {"subscribing", "answered"}

IdsInOrder ==
  \A i \in DOMAIN calls :
    HasId(i) =>
      /\ SinkOf(calls[i].id) = calls[i].sink
      /\ \A j \in DOMAIN calls : HasId(j) /\ i < j => calls[i].id < calls[j].id

(* An Unsubscribe() reaches the manager that has the subscription, which   *)
(* the Router knows of by the id alone.                                    *)
IdsReachTheirManager ==
  \A v \in Venues : \A id \in tables[v] : VenueOf(id) = v
=============================================================================
