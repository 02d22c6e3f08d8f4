-------------------------------- MODULE Spsc --------------------------------
(***************************************************************************)
(* core/spsc.h: the two ends of a bounded single-producer single-consumer  *)
(* queue.  One thread calls PushBlocking() for each value, another runs    *)
(* Drain() until its owner stops it.  The owner (websocket_feed.cc with    *)
(* l2_parser.cc; file_writer.cc) stops the consumer once the producer has  *)
(* made its last call, so `stop` follows the end of the producer.          *)
(*                                                                         *)
(* The loops are modelled one atomic access at a time: a push attempt, a   *)
(* read of give_up, a read of the stop token, a read of read_available().  *)
(* boost::lockfree::spsc_queue itself is external: a push or a             *)
(* consume_one is one step on a sequence of at most Capacity values.       *)
(***************************************************************************)
EXTENDS Integers, Sequences

CONSTANTS Capacity,  \* Slots of the queue (256 in net/raw_frame.h and l2/file_writer.h).
          Values     \* How many values the producer pushes; they are 1..Values in order.

ASSUME CapacityAssumption == Capacity \in Nat \ {0}
ASSUME ValuesAssumption == Values \in Nat

VARIABLES
  queue,     \* The values pushed and not yet consumed.
  giveUp,    \* The flag PushBlocking() gives up on, set by on_fail().
  stop,      \* The stop token of Drain().
  producer,  \* Where the producer thread is.
  value,     \* The last value given to PushBlocking().
  consumer,  \* Where the consumer thread is.
  consumed   \* The values consumed, in order.

vars == <<queue, giveUp, stop, producer, value, consumer, consumed>>

ProducerPc == {"idle", "pushing", "queueFull", "finished"}
ConsumerPc == {"checkStop", "checkEmpty", "consume", "throwing", "returned", "failed"}

Init ==
  /\ queue = <<>>
  /\ giveUp = FALSE
  /\ stop = FALSE
  /\ producer = "idle"
  /\ value = 0
  /\ consumer = "checkStop"
  /\ consumed = <<>>

-----------------------------------------------------------------------------
(* The producer. *)

(* PushBlocking(queue, value + 1, give_up) is called. *)
CallPush ==
  /\ producer = "idle"
  /\ value < Values
  /\ value' = value + 1
  /\ producer' = "pushing"
  /\ UNCHANGED <<queue, giveUp, stop, consumer, consumed>>

(* `queue.push(...)` in the loop's condition. *)
HasRoom == Len(queue) < Capacity

TryPush ==
  /\ producer = "pushing"
  /\ IF HasRoom
       THEN queue' = Append(queue, value) /\ producer' = "idle"
       ELSE producer' = "queueFull" /\ UNCHANGED queue
  /\ UNCHANGED <<giveUp, stop, value, consumer, consumed>>

(* `!give_up`: yields and tries again, or drops the value. *)
DropWhenFull == "idle"                          \* mutant: tries once

AfterFullQueue == IF giveUp THEN "idle" ELSE "pushing"

CheckGiveUp ==
  /\ producer = "queueFull"
  /\ producer' = AfterFullQueue
  /\ UNCHANGED <<queue, giveUp, stop, value, consumer, consumed>>

(* The producer makes no further call: the feed's network thread ends, and *)
(* sets give_up if it failed, or the writer's owner detaches it.           *)
EndProducer ==
  /\ producer = "idle"
  /\ producer' = "finished"
  /\ giveUp' \in {giveUp, TRUE}
  /\ UNCHANGED <<queue, stop, value, consumer, consumed>>

(* The owner requests the stop and joins the consumer. *)
RequestStop ==
  /\ producer = "finished"
  /\ ~stop
  /\ stop' = TRUE
  /\ UNCHANGED <<queue, giveUp, producer, value, consumer, consumed>>

-----------------------------------------------------------------------------
(* The consumer. *)

(* `!stop.stop_requested() || ...`: the left operand, read first. *)
CheckStop ==
  /\ consumer = "checkStop"
  /\ consumer' = IF stop THEN "checkEmpty" ELSE "consume"
  /\ UNCHANGED <<queue, giveUp, stop, producer, value, consumed>>

(* `queue.read_available() > 0`. *)
ReturnOnStop == "returned"                      \* mutant: stops without draining

AfterEmptyCheck == IF queue # <<>> THEN "consume" ELSE "returned"

CheckEmpty ==
  /\ consumer = "checkEmpty"
  /\ consumer' = AfterEmptyCheck
  /\ UNCHANGED <<queue, giveUp, stop, producer, value, consumed>>

(* consume_one() on an empty queue: yields. *)
ConsumeNothing ==
  /\ consumer = "consume"
  /\ queue = <<>>
  /\ consumer' = "checkStop"
  /\ UNCHANGED <<queue, giveUp, stop, producer, value, consumed>>

(* consume_one(): consumes the first value, then frees its slot. *)
ConsumeOne ==
  /\ consumer = "consume"
  /\ queue # <<>>
  /\ consumed' = Append(consumed, Head(queue))
  /\ queue' = Tail(queue)
  /\ consumer' = "checkStop"
  /\ UNCHANGED <<giveUp, stop, producer, value>>

(* consume() throws, so the slot is not freed. *)
ConsumeThrows ==
  /\ consumer = "consume"
  /\ queue # <<>>
  /\ consumer' = "throwing"
  /\ UNCHANGED <<queue, giveUp, stop, producer, value, consumed>>

(* The catch block: on_fail(), and the thread ends. *)
Fail ==
  /\ consumer = "throwing"
  /\ giveUp' = TRUE
  /\ consumer' = "failed"
  /\ UNCHANGED <<queue, stop, producer, value, consumed>>

-----------------------------------------------------------------------------
Producer == CallPush \/ TryPush \/ CheckGiveUp

Consumer ==
  \/ CheckStop \/ CheckEmpty
  \/ ConsumeNothing \/ ConsumeOne \/ ConsumeThrows \/ Fail

Next == Producer \/ EndProducer \/ RequestStop \/ Consumer

Spec == Init /\ [][Next]_vars

-----------------------------------------------------------------------------
(* Every variable has its type, and the queue never holds more than        *)
(* Capacity values (the spsc_queue of spsc.h's callers is bounded).        *)
TypeOK ==
  /\ queue \in Seq(1..Values) /\ Len(queue) <= Capacity
  /\ giveUp \in BOOLEAN
  /\ stop \in BOOLEAN
  /\ producer \in ProducerPc
  /\ value \in 0..Values
  /\ consumer \in ConsumerPc
  /\ consumed \in Seq(1..Values)

Broken == consumer \in {"throwing", "failed"}

(* "Never drops" and "nothing pushed before the stop is lost" (spsc.h:14   *)
(* and 24): until the consumer throws, what was consumed followed by what  *)
(* is queued is every value whose PushBlocking() returned, in order; and   *)
(* once Drain() returned, the queue is empty.                              *)
NothingLost ==
  /\ consumed = [i \in 1..Len(consumed) |-> i]
  /\ ~Broken =>
       /\ queue = [i \in 1..Len(queue) |-> Len(consumed) + i]
       /\ Len(consumed) + Len(queue) = IF producer \in {"pushing", "queueFull"}
                                         THEN value - 1 ELSE value
  /\ consumer = "returned" => queue = <<>>

(* The pair of loops is a bounded ordered channel that loses values only   *)
(* once it is broken.                                                      *)
AsChannel == INSTANCE Channel WITH
  sent <- consumed \o queue,
  received <- consumed,
  end <- CASE Broken -> "broken"
           [] consumer = "returned" -> "drained"
           [] OTHER -> "open"

IsChannel == AsChannel!Spec
=============================================================================
