----------------------------- MODULE Feed_proofs -----------------------------
(***************************************************************************)
(* Proofs about the two ends of a queue (Spsc), for any capacity and any   *)
(* number of values, and about a feed and the queue it fills (Feed): what  *)
(* holds of the two ends holds of the network thread and the parser that   *)
(* use them, and Disconnect() leaves every frame that was read in the      *)
(* queue, for any capacity, any number of frames and any owner.            *)
(***************************************************************************)
EXTENDS Feed, TLAPS

(* The constants as the steps below use them. *)
LEMMA Sizes == Capacity \in Nat /\ Capacity > 0 /\ Values \in Nat
BY CapacityAssumption, ValuesAssumption DEF CapacityAssumption, ValuesAssumption

-----------------------------------------------------------------------------
(* TypeOK is inductive by itself but for a producer that pushes: what it   *)
(* pushes is a value.                                                      *)
PushesAValue == producer \in {"pushing", "queueFull"} => value \in 1..Values

TypeInv == TypeOK /\ PushesAValue

(* The types hold at the start. *)
LEMMA InitTypeInv == Init => TypeInv
<1> SUFFICES ASSUME Init PROVE TypeInv
  OBVIOUS
<1>1. /\ queue \in Seq(1..Values) /\ Len(queue) = 0
      /\ consumed \in Seq(1..Values)
  BY DEF Init
<1>2. Len(queue) <= Capacity /\ value \in 0..Values
  BY <1>1, Sizes DEF Init
<1>3. giveUp \in BOOLEAN /\ stop \in BOOLEAN
  BY DEF Init
<1>4. producer = "idle" /\ producer \in ProducerPc /\ consumer \in ConsumerPc
  BY DEF Init, ProducerPc, ConsumerPc
<1>5. QED
  BY <1>1, <1>2, <1>3, <1>4 DEF TypeInv, TypeOK, PushesAValue

(* Pushing, consuming and failing keep every variable in its type.         *)
LEMMA TypeInvStep == TypeInv /\ [Next]_vars => TypeInv'
<1> SUFFICES ASSUME TypeInv, [Next]_vars PROVE TypeInv'
  OBVIOUS
<1> USE Sizes DEF TypeInv, TypeOK, PushesAValue, ProducerPc, ConsumerPc
<1>1. CASE CallPush
  BY <1>1 DEF CallPush
<1>2. CASE TryPush
  <2>1. CASE HasRoom
    <3>1. queue' = Append(queue, value) /\ value \in 1..Values
      BY <1>2, <2>1 DEF TryPush
    <3>2. queue' \in Seq(1..Values) /\ Len(queue') = Len(queue) + 1
      BY <3>1
    <3>3. Len(queue') <= Capacity
      BY <3>2, <2>1 DEF HasRoom
    <3>4. QED
      BY <3>2, <3>3, <1>2, <2>1 DEF TryPush
  <2>2. CASE ~HasRoom
    BY <1>2, <2>2 DEF TryPush
  <2>3. QED
    BY <2>1, <2>2
<1>3. CASE CheckGiveUp
  BY <1>3 DEF CheckGiveUp, AfterFullQueue
<1>4. CASE EndProducer
  BY <1>4 DEF EndProducer
<1>5. CASE RequestStop
  BY <1>5 DEF RequestStop
<1>6. CASE CheckStop
  BY <1>6 DEF CheckStop
<1>7. CASE CheckEmpty
  BY <1>7 DEF CheckEmpty, AfterEmptyCheck
<1>8. CASE ConsumeNothing
  BY <1>8 DEF ConsumeNothing
<1>9. CASE ConsumeOne
  <2>1. /\ Head(queue) \in 1..Values
        /\ Tail(queue) \in Seq(1..Values)
        /\ Len(Tail(queue)) = Len(queue) - 1
    BY <1>9 DEF ConsumeOne
  <2>2. QED
    BY <1>9, <2>1 DEF ConsumeOne
<1>10. CASE ConsumeThrows
  BY <1>10 DEF ConsumeThrows
<1>11. CASE Fail
  BY <1>11 DEF Fail
<1>12. CASE UNCHANGED vars
  BY <1>12 DEF vars
<1>13. QED
  BY <1>1, <1>2, <1>3, <1>4, <1>5, <1>6, <1>7, <1>8, <1>9, <1>10, <1>11, <1>12
     DEF Next, Producer, Consumer

(* The variables have their types and the queue never exceeds its capacity,*)
(* whatever the capacity (the bounded spsc_queue of core/spsc.h).          *)
THEOREM TypeCorrect == Spec => []TypeOK
<1>1. TypeInv => TypeOK
  BY DEF TypeInv
<1>2. QED
  BY <1>1, InitTypeInv, TypeInvStep, PTL DEF Spec

-----------------------------------------------------------------------------
(* Nothing lost needs the protocol between the two threads: the owner stops *)
(* the consumer after the last push, so no push follows the look at the    *)
(* queue that ends Drain(); and a push gives up only once the consumer has *)
(* failed.                                                                 *)
StopsAfterProducer ==
  /\ stop => producer = "finished"
  /\ consumer \in {"checkEmpty", "returned"} => stop
  /\ giveUp => consumer = "failed" \/ producer = "finished"

(* NothingLost element by element: values come out in the order they went  *)
(* in, and the queue holds the ones between the last consumed and the last *)
(* pushed.                                                                 *)
Pushed == IF producer \in {"pushing", "queueFull"} THEN value - 1 ELSE value

InOrder ==
  /\ \A i \in 1..Len(consumed) : consumed[i] = i
  /\ ~Broken =>
       /\ \A i \in 1..Len(queue) : queue[i] = Len(consumed) + i
       /\ Len(consumed) + Len(queue) = Pushed
  /\ consumer = "returned" => queue = <<>>

IInv == TypeInv /\ StopsAfterProducer /\ InOrder

(* The invariant holds at the start. *)
LEMMA InitIInv == Init => IInv
<1> SUFFICES ASSUME Init PROVE IInv
  OBVIOUS
<1>1. StopsAfterProducer
  BY DEF Init, StopsAfterProducer
<1>2. InOrder
  BY DEF Init, InOrder, Pushed, Broken
<1>3. QED
  BY <1>1, <1>2, InitTypeInv DEF IInv

(* No step stops the consumer before the producer has finished. *)
LEMMA StopsAfterProducerStep == IInv /\ [Next]_vars => StopsAfterProducer'
<1> SUFFICES ASSUME IInv, [Next]_vars PROVE StopsAfterProducer'
  OBVIOUS
<1> USE DEF IInv, TypeInv, TypeOK, StopsAfterProducer, ProducerPc, ConsumerPc
<1>1. CASE Producer
  BY <1>1 DEF Producer, CallPush, TryPush, CheckGiveUp
<1>2. CASE EndProducer \/ RequestStop
  BY <1>2 DEF EndProducer, RequestStop
<1>3. CASE Consumer
  BY <1>3 DEF Consumer, CheckStop, CheckEmpty, ConsumeNothing, ConsumeOne, ConsumeThrows, Fail,
              AfterEmptyCheck
<1>4. CASE UNCHANGED vars
  BY <1>4 DEF vars
<1>5. QED
  BY <1>1, <1>2, <1>3, <1>4 DEF Next

(* No step loses or reorders a value. *)
LEMMA InOrderStep == IInv /\ [Next]_vars => InOrder'
<1> SUFFICES ASSUME IInv, [Next]_vars PROVE InOrder'
  OBVIOUS
<1> USE Sizes DEF IInv, TypeInv, TypeOK, PushesAValue, ProducerPc, ConsumerPc,
                  StopsAfterProducer, InOrder, Pushed, Broken
<1>1. CASE CallPush
  BY <1>1 DEF CallPush
<1>2. CASE TryPush
  <2>1. CASE HasRoom
    <3>1. queue' = Append(queue, value) /\ value \in 1..Values
      BY <1>2, <2>1 DEF TryPush
    <3>2. /\ Len(queue') = Len(queue) + 1
          /\ \A i \in 1..Len(queue) : queue'[i] = queue[i]
          /\ queue'[Len(queue) + 1] = value
      BY <3>1
    <3>3. consumer # "returned"
      BY <1>2 DEF TryPush
    <3>4. ~Broken => Len(consumed) + Len(queue) = value - 1
      BY <1>2 DEF TryPush
    <3>5. ~Broken' => \A i \in 1..Len(queue') : queue'[i] = Len(consumed') + i
      <4>1. SUFFICES ASSUME ~Broken, NEW i \in 1..Len(queue')
                     PROVE  queue'[i] = Len(consumed) + i
        BY <1>2 DEF TryPush
      <4>2. CASE i \in 1..Len(queue)
        BY <3>2, <4>1, <4>2
      <4>3. CASE i = Len(queue) + 1
        BY <3>2, <3>4, <4>1, <4>3
      <4>4. Len(queue) \in Nat
        OBVIOUS
      <4>5. QED
        BY <3>2, <4>1, <4>2, <4>3, <4>4
    <3>6. ~Broken' => Len(consumed') + Len(queue') = Pushed'
      BY <1>2, <2>1, <3>2, <3>4 DEF TryPush
    <3>7. QED
      BY <1>2, <3>3, <3>5, <3>6 DEF TryPush
  <2>2. CASE ~HasRoom
    BY <1>2, <2>2 DEF TryPush
  <2>3. QED
    BY <2>1, <2>2
<1>3. CASE CheckGiveUp
  BY <1>3 DEF CheckGiveUp, AfterFullQueue
<1>4. CASE EndProducer
  BY <1>4 DEF EndProducer
<1>5. CASE RequestStop
  BY <1>5 DEF RequestStop
<1>6. CASE CheckStop
  BY <1>6 DEF CheckStop
<1>7. CASE CheckEmpty
  BY <1>7 DEF CheckEmpty, AfterEmptyCheck
<1>8. CASE ConsumeNothing
  BY <1>8 DEF ConsumeNothing
<1>9. CASE ConsumeOne
  <2>1. /\ Len(queue) > 0
        /\ Head(queue) = queue[1]
        /\ Len(Tail(queue)) = Len(queue) - 1
        /\ \A i \in 1..Len(Tail(queue)) : Tail(queue)[i] = queue[i + 1]
    BY <1>9 DEF ConsumeOne
  <2>2. Head(queue) = Len(consumed) + 1 /\ Head(queue) \in 1..Values
    BY <1>9, <2>1 DEF ConsumeOne
  <2>3. /\ Len(consumed') = Len(consumed) + 1
        /\ \A i \in 1..Len(consumed) : consumed'[i] = consumed[i]
        /\ consumed'[Len(consumed) + 1] = Len(consumed) + 1
    BY <1>9, <2>2 DEF ConsumeOne
  <2>4. Len(queue) \in Nat /\ Len(consumed) \in Nat
    OBVIOUS
  <2>5. \A i \in 1..Len(consumed') : consumed'[i] = i
    <3>1. SUFFICES ASSUME NEW i \in 1..Len(consumed') PROVE consumed'[i] = i
      OBVIOUS
    <3>2. CASE i \in 1..Len(consumed)
      BY <2>3, <3>2
    <3>3. CASE i = Len(consumed) + 1
      BY <2>3, <3>3
    <3>4. QED
      BY <2>3, <2>4, <3>1, <3>2, <3>3
  <2>6. \A i \in 1..Len(queue') : queue'[i] = Len(consumed') + i
    <3>1. SUFFICES ASSUME NEW i \in 1..Len(Tail(queue))
                   PROVE  Tail(queue)[i] = Len(consumed) + 1 + i
      BY <1>9, <2>3 DEF ConsumeOne
    <3>2. i \in Int /\ i + 1 \in 1..Len(queue)
      BY <2>1, <2>4
    <3>3. queue[i + 1] = Len(consumed) + (i + 1)
      BY <1>9, <3>2 DEF ConsumeOne
    <3>4. QED
      BY <2>1, <2>4, <3>2, <3>3
  <2>7. Len(consumed') + Len(queue') = Pushed'
    <3>1. Len(consumed) + Len(queue) = Pushed
      BY <1>9 DEF ConsumeOne
    <3>2. Pushed' = Pushed
      BY <1>9 DEF ConsumeOne
    <3>3. Len(queue') = Len(queue) - 1
      BY <1>9, <2>1 DEF ConsumeOne
    <3>4. QED
      BY ONLY <2>3, <2>4, <3>1, <3>2, <3>3
  <2>8. consumer' = "checkStop"
    BY <1>9 DEF ConsumeOne
  <2>9. QED
    BY <2>5, <2>6, <2>7, <2>8
<1>10. CASE ConsumeThrows
  BY <1>10 DEF ConsumeThrows
<1>11. CASE Fail
  BY <1>11 DEF Fail
<1>12. CASE UNCHANGED vars
  BY <1>12 DEF vars
<1>13. QED
  BY <1>1, <1>2, <1>3, <1>4, <1>5, <1>6, <1>7, <1>8, <1>9, <1>10, <1>11, <1>12
     DEF Next, Producer, Consumer

(* A sequence is determined by its length and its elements. *)
LEMMA SequenceOf ==
  ASSUME NEW s \in Seq(1..Values), NEW base \in Nat,
         \A i \in 1..Len(s) : s[i] = base + i
  PROVE  s = [i \in 1..Len(s) |-> base + i]
OBVIOUS

(* Nothing is lost when the consumer has stopped. *)
LEMMA IInvNothingLost == IInv => NothingLost
<1> SUFFICES ASSUME IInv PROVE NothingLost
  OBVIOUS
<1>1. consumed = [i \in 1..Len(consumed) |-> i]
  <2>1. consumed = [i \in 1..Len(consumed) |-> 0 + i]
    BY SequenceOf DEF IInv, TypeInv, TypeOK, InOrder
  <2>2. QED
    BY <2>1
<1>2. ~Broken => queue = [i \in 1..Len(queue) |-> Len(consumed) + i]
  BY SequenceOf DEF IInv, TypeInv, TypeOK, InOrder
<1>3. QED
  BY <1>1, <1>2 DEF IInv, InOrder, Pushed, NothingLost

(* Until the consumer throws, every value whose PushBlocking() returned is *)
(* consumed or queued, in the order of the calls, and none is left in the  *)
(* queue once Drain() returned (core/spsc.h:14 and 24).                    *)
THEOREM NothingIsLost == Spec => []NothingLost
<1>1. IInv /\ [Next]_vars => IInv'
  BY TypeInvStep, StopsAfterProducerStep, InOrderStep DEF IInv
<1>2. QED
  BY <1>1, InitIInv, IInvNothingLost, PTL DEF Spec

-----------------------------------------------------------------------------
(* The refinement also needs the values pushed to a consumer that failed:  *)
(* some were dropped, and still no value is queued behind a later one.     *)
OnlyEarlier ==
  /\ \A i \in 1..Len(queue) : queue[i] <= Pushed
  /\ Len(consumed) <= Pushed

ChannelInv == IInv /\ OnlyEarlier

(* What the refinement needs holds at the start. *)
LEMMA InitChannelInv == Init => ChannelInv
BY InitIInv DEF Init, ChannelInv, OnlyEarlier, Pushed

(* No step queues or consumes a value that was not pushed. *)
LEMMA OnlyEarlierStep == ChannelInv /\ [Next]_vars => OnlyEarlier'
<1> SUFFICES ASSUME ChannelInv, [Next]_vars PROVE OnlyEarlier'
  OBVIOUS
<1> USE Sizes DEF ChannelInv, IInv, TypeInv, TypeOK, PushesAValue, OnlyEarlier, Pushed
<1>1. CASE CallPush
  BY <1>1 DEF CallPush
<1>2. CASE TryPush
  <2>1. CASE HasRoom
    <3> value \in 1..Values /\ queue' = Append(queue, value)
      BY <1>2, <2>1 DEF TryPush
    <3>1. /\ Len(queue') = Len(queue) + 1
          /\ \A i \in 1..Len(queue) : queue'[i] = queue[i]
          /\ queue'[Len(queue) + 1] = value
          /\ Len(queue) \in Nat
      OBVIOUS
    <3>2. Pushed' = value /\ Pushed = value - 1 /\ consumed' = consumed
      BY <1>2, <2>1 DEF TryPush
    <3>3. \A i \in 1..Len(queue') : queue'[i] <= value
      <4>1. SUFFICES ASSUME NEW i \in 1..Len(queue') PROVE queue'[i] <= value
        OBVIOUS
      <4>2. CASE i = Len(queue) + 1
        BY <3>1, <4>2
      <4>3. CASE i \in 1..Len(queue)
        <5>1. queue[i] <= Pushed /\ queue[i] \in Int
          BY <4>3
        <5>2. QED
          BY <3>1, <3>2, <4>3, <5>1
      <4>4. QED
        BY <3>1, <4>1, <4>2, <4>3
    <3>4. QED
      BY <3>2, <3>3
  <2>2. CASE ~HasRoom
    BY <1>2, <2>2 DEF TryPush
  <2>3. QED
    BY <2>1, <2>2
<1>3. CASE CheckGiveUp
  <2>1. Pushed' >= Pushed
    BY <1>3 DEF CheckGiveUp, AfterFullQueue
  <2>2. queue' = queue /\ consumed' = consumed
    BY <1>3 DEF CheckGiveUp
  <2>3. Pushed \in Int /\ Pushed' \in Int
    BY <1>3 DEF CheckGiveUp, AfterFullQueue
  <2>4. QED
    BY <2>1, <2>2, <2>3
<1>4. CASE EndProducer
  BY <1>4 DEF EndProducer
<1>5. CASE RequestStop
  BY <1>5 DEF RequestStop
<1>6. CASE ConsumeOne
  <2>1. /\ Len(queue) \in Nat /\ Len(queue) > 0
        /\ Len(queue') = Len(queue) - 1
        /\ \A i \in 1..Len(queue') : queue'[i] = queue[i + 1]
        /\ Pushed' = Pushed
    BY <1>6 DEF ConsumeOne
  <2>2. \A i \in 1..Len(queue') : queue'[i] <= Pushed'
    <3>1. SUFFICES ASSUME NEW i \in 1..Len(queue') PROVE queue'[i] <= Pushed
      BY <2>1
    <3>2. i + 1 \in 1..Len(queue)
      BY <2>1
    <3>3. QED
      BY <2>1, <3>2
  <2>3. Len(consumed') = Len(consumed) + 1
    BY <1>6 DEF ConsumeOne
  <2>4. Len(consumed) + Len(queue) = Pushed
    BY <1>6 DEF ConsumeOne, InOrder, Broken
  <2>5. QED
    BY <2>1, <2>2, <2>3, <2>4
<1>7. CASE CheckStop \/ CheckEmpty \/ ConsumeNothing \/ ConsumeThrows \/ Fail
  BY <1>7 DEF CheckStop, CheckEmpty, ConsumeNothing, ConsumeThrows, Fail
<1>8. CASE UNCHANGED vars
  BY <1>8 DEF vars
<1>9. QED
  BY <1>1, <1>2, <1>3, <1>4, <1>5, <1>6, <1>7, <1>8 DEF Next, Producer, Consumer

(* Every step keeps what the refinement needs. *)
LEMMA ChannelInvStep == ChannelInv /\ [Next]_vars => ChannelInv'
BY TypeInvStep, StopsAfterProducerStep, InOrderStep, OnlyEarlierStep DEF ChannelInv, IInv

(* Where a value of consumed \o queue is, and that pushing and consuming   *)
(* extend it and leave it alone.                                           *)
LEMMA JoinedElements ==
  ASSUME NEW s \in Seq(1..Values), NEW t \in Seq(1..Values)
  PROVE  /\ s \o t \in Seq(1..Values)
         /\ Len(s \o t) = Len(s) + Len(t)
         /\ \A i \in 1..Len(s) : (s \o t)[i] = s[i]
         /\ \A i \in 1..Len(t) : (s \o t)[Len(s) + i] = t[i]
OBVIOUS

(* A value appended to the second of two sequences joined is appended to   *)
(* both.                                                                   *)
LEMMA JoinedAppend ==
  ASSUME NEW s \in Seq(1..Values), NEW t \in Seq(1..Values), NEW v \in 1..Values
  PROVE  s \o Append(t, v) = Append(s \o t, v)
OBVIOUS

(* A value moved from the head of the second to the end of the first       *)
(* leaves them as they were joined.                                        *)
LEMMA JoinedTail ==
  ASSUME NEW s \in Seq(1..Values), NEW t \in Seq(1..Values), t # <<>>
  PROVE  Append(s, Head(t)) \o Tail(t) = s \o t
OBVIOUS

(* A push that found room is the channel's Send, of a value later than all *)
(* before it.                                                              *)
LEMMA PushIsSend == ChannelInv /\ TryPush /\ HasRoom => AsChannel!Send
<1> SUFFICES ASSUME ChannelInv, TryPush, HasRoom PROVE AsChannel!Send
  OBVIOUS
<1> USE Sizes DEF ChannelInv, IInv, TypeInv, TypeOK
<1>1. /\ value \in 1..Values /\ Pushed = value - 1
      /\ queue' = Append(queue, value) /\ consumed' = consumed
      /\ consumer' = consumer /\ consumer # "returned"
  BY DEF TryPush, PushesAValue, Pushed, StopsAfterProducer
<1>2. /\ Len(consumed \o queue) = Len(consumed) + Len(queue)
      /\ Len(consumed) \in Nat /\ Len(queue) \in Nat
      /\ \A i \in 1..Len(consumed) : (consumed \o queue)[i] = consumed[i]
      /\ \A i \in 1..Len(queue) : (consumed \o queue)[Len(consumed) + i] = queue[i]
  BY JoinedElements
<1>3. (consumed \o queue)' = Append(consumed \o queue, value)
  BY <1>1, JoinedAppend
<1>4. \A i \in 1..Len(consumed \o queue) : (consumed \o queue)[i] < value
  <2>1. SUFFICES ASSUME NEW i \in 1..Len(consumed \o queue)
                 PROVE  (consumed \o queue)[i] < value
    OBVIOUS
  <2>2. CASE i \in 1..Len(consumed)
    <3>1. consumed[i] = i /\ Len(consumed) <= Pushed
      BY <2>2 DEF InOrder, OnlyEarlier
    <3>2. QED
      BY <1>1, <1>2, <2>2, <3>1
  <2>3. CASE i \in (Len(consumed) + 1)..(Len(consumed) + Len(queue))
    <3>1. i - Len(consumed) \in 1..Len(queue)
      BY <1>2, <2>3
    <3>2. (consumed \o queue)[i] = queue[i - Len(consumed)]
      BY <1>2, <3>1
    <3>3. queue[i - Len(consumed)] <= Pushed /\ queue[i - Len(consumed)] \in Int
      BY <3>1 DEF OnlyEarlier
    <3>4. QED
      BY <1>1, <3>2, <3>3
  <2>4. QED
    BY <1>2, <2>1, <2>2, <2>3
<1>5. ~Broken => value = Len(consumed \o queue) + 1
  BY <1>1, <1>2 DEF InOrder
<1>6. Len(consumed \o queue) - Len(consumed) < Capacity
  BY <1>2 DEF HasRoom
<1>7. QED
  BY <1>1, <1>3, <1>4, <1>5, <1>6 DEF AsChannel!Send, Broken

(* consume_one() is the channel's Receive. *)
LEMMA ConsumeIsReceive == ChannelInv /\ ConsumeOne => AsChannel!Receive
<1> SUFFICES ASSUME ChannelInv, ConsumeOne PROVE AsChannel!Receive
  OBVIOUS
<1> USE DEF ChannelInv, IInv, TypeInv, TypeOK, ConsumeOne
<1>1. (consumed \o queue)' = consumed \o queue
  BY JoinedTail
<1>2. /\ Len(queue) \in Nat /\ Len(queue) > 0 /\ Len(consumed) \in Nat
      /\ Head(queue) = queue[1]
  OBVIOUS
<1>3. /\ (consumed \o queue)[Len(consumed) + 1] = Head(queue)
      /\ Len(consumed) < Len(consumed \o queue)
  BY <1>2, JoinedElements
<1>4. QED
  BY <1>1, <1>3 DEF AsChannel!Receive, Broken

(* Every step of the two loops is a step of the channel or leaves it alone. *)
LEMMA ChannelStep == ChannelInv /\ [Next]_vars => [AsChannel!Next]_AsChannel!vars
<1> SUFFICES ASSUME ChannelInv, [Next]_vars PROVE [AsChannel!Next]_AsChannel!vars
  OBVIOUS
<1> DEFINE Same == UNCHANGED <<queue, consumed>>
           End == CASE Broken -> "broken"
                    [] consumer = "returned" -> "drained"
                    [] OTHER -> "open"
<1>1. Same /\ End' = End => UNCHANGED AsChannel!vars
  BY DEF AsChannel!vars
<1> USE DEF ChannelInv, IInv, TypeInv, TypeOK, ConsumerPc
<1>2. CASE CallPush \/ CheckGiveUp \/ EndProducer \/ RequestStop
  BY <1>1, <1>2 DEF CallPush, CheckGiveUp, EndProducer, RequestStop, Broken
<1>3. CASE TryPush
  <2>1. CASE HasRoom
    BY <1>3, <2>1, PushIsSend DEF AsChannel!Next
  <2>2. CASE ~HasRoom
    BY <1>1, <1>3, <2>2 DEF TryPush, Broken
  <2>3. QED
    BY <2>1, <2>2
<1>4. CASE CheckStop \/ ConsumeNothing \/ Fail
  BY <1>1, <1>4 DEF CheckStop, ConsumeNothing, Fail, Broken
<1>5. CASE CheckEmpty
  <2>1. CASE queue # <<>>
    BY <1>1, <1>5, <2>1 DEF CheckEmpty, AfterEmptyCheck, Broken
  <2>2. CASE queue = <<>>
    <3>1. consumed \o queue = consumed
      BY <2>2
    <3>2. AsChannel!Finish
      BY <1>5, <2>2, <3>1 DEF AsChannel!Finish, CheckEmpty, AfterEmptyCheck, Broken
    <3>3. QED
      BY <3>2 DEF AsChannel!Next
  <2>3. QED
    BY <2>1, <2>2
<1>6. CASE ConsumeOne
  BY <1>6, ConsumeIsReceive DEF AsChannel!Next
<1>7. CASE ConsumeThrows
  BY <1>7 DEF AsChannel!Next, AsChannel!Finish, ConsumeThrows, Broken
<1>8. CASE UNCHANGED vars
  BY <1>1, <1>8 DEF vars, Broken
<1>9. QED
  BY <1>2, <1>3, <1>4, <1>5, <1>6, <1>7, <1>8 DEF Next, Producer, Consumer

(* The queue's initial states are the channel's. *)
LEMMA ChannelInit == Init => AsChannel!Init
BY DEF Init, AsChannel!Init, Broken

(* The pair of loops implements the ordered bounded channel its users rely *)
(* on, whatever the capacity: values are received in the order they were   *)
(* pushed, and none is lost before the consumer failed (core/spsc.h).      *)
THEOREM ImplementsChannel == Spec => IsChannel
<1>1. QED
  BY InitChannelInv, ChannelInvStep, ChannelInit, ChannelStep, PTL
     DEF Spec, IsChannel, AsChannel!Spec

-----------------------------------------------------------------------------
(* The network thread pushes the frames it reads one at a time, so the     *)
(* last frame read is the last value pushed, or is about to be.  It makes  *)
(* no further push once it has ended, and a feed is closed only then.      *)
FramesPushed == frames = IF network = "frame" THEN value + 1 ELSE value

ThreadEnds ==
  /\ feed \in {"idle", "connecting"} => network = "none"
  /\ feed = "closed" => network = "ended"
  /\ network = "ended" => producer = "finished"

FeedInv == ChannelInv /\ FramesPushed /\ ThreadEnds

(* The invariant holds at the start. *)
LEMMA FeedInitInv == FeedInit => FeedInv
BY InitChannelInv DEF FeedInit, FeedInv, FramesPushed, ThreadEnds, Init

(* What the owner and the network thread do to the queue is what Spsc      *)
(* allows its producer and owner.                                          *)
LEMMA FeedStepIsSpscStep == [FeedNext]_allVars => [Next]_vars
<1> SUFFICES ASSUME FeedNext PROVE [Next]_vars
  BY DEF allVars
<1>1. CASE OpenRawLog \/ Connected \/ ConnectThrows \/ Send \/ Disconnect \/ Disconnected
  BY <1>1 DEF OpenRawLog, Connected, ConnectThrows, Send, Disconnect, Disconnected
<1>2. CASE StopParser
  BY <1>2 DEF StopParser, Next
<1>3. CASE BeginNext \/ PollStop \/ RunPosted \/ RunNothing \/ CloseTimesOut
  BY <1>3 DEF BeginNext, PollStop, RunPosted, RunNothing, CloseTimesOut
<1>4. CASE LogFrame
  BY <1>4 DEF LogFrame, PushFrame, Next, Producer
<1>5. CASE EndRun
  BY <1>5 DEF EndRun, Next
<1>6. CASE RunWritten \/ RunRead
  BY <1>6 DEF RunWritten, RunRead
<1>7. CASE RunWriteFails \/ RunReadFails
  BY <1>7 DEF RunWriteFails, RunReadFails, Fails, Next
<1>8. CASE TryPush \/ CheckGiveUp \/ Consumer
  BY <1>8 DEF Next, Producer
<1>9. QED
  BY <1>1, <1>2, <1>3, <1>4, <1>5, <1>6, <1>7, <1>8 DEF FeedNext, Network

(* Every handler and every step of the parser keeps it. *)
LEMMA FeedInvStep == FeedInv /\ [FeedNext]_allVars => FeedInv'
<1> SUFFICES ASSUME FeedInv, [FeedNext]_allVars PROVE FramesPushed' /\ ThreadEnds'
  BY FeedStepIsSpscStep, ChannelInvStep DEF FeedInv
<1>0. value \in Nat
  BY Sizes DEF FeedInv, ChannelInv, IInv, TypeInv, TypeOK
<1> USE <1>0 DEF FeedInv, FramesPushed, ThreadEnds
<1>1. CASE OpenRawLog \/ Connected \/ ConnectThrows \/ Send \/ Disconnect \/ Disconnected
  BY <1>1 DEF OpenRawLog, Connected, ConnectThrows, Send, Disconnect, Disconnected, vars
<1>2. CASE StopParser
  BY <1>2 DEF StopParser, RequestStop, feedVars, ownerVars
<1>3. CASE BeginNext \/ PollStop \/ RunNothing \/ CloseTimesOut
  BY <1>3 DEF BeginNext, PollStop, RunNothing, CloseTimesOut, ownerVars, vars
<1>4. CASE RunPosted \/ RunWritten \/ RunRead
  BY <1>4 DEF RunPosted, RunWritten, RunRead, MayRun, BackToPoll, HandlerRan, ownerVars, vars
<1>5. CASE LogFrame
  BY <1>5 DEF LogFrame, PushFrame, CallPush, ownerVars
<1>6. CASE EndRun
  BY <1>6 DEF EndRun, EndProducer, ownerVars
<1>7. CASE RunWriteFails \/ RunReadFails
  BY <1>7 DEF RunWriteFails, RunReadFails, MayRun, Fails, HandlerRan, EndProducer, ownerVars, vars
<1>8. CASE (TryPush \/ CheckGiveUp) /\ UNCHANGED feedVars
  BY <1>8 DEF TryPush, CheckGiveUp, feedVars, ownerVars
<1>9. CASE Consumer /\ UNCHANGED feedVars
  BY <1>9 DEF Consumer, CheckStop, CheckEmpty, ConsumeNothing, ConsumeOne, ConsumeThrows, Fail,
              feedVars, ownerVars
<1>10. CASE UNCHANGED allVars
  BY <1>10 DEF allVars, vars, feedVars, ownerVars
<1>11. QED
  BY <1>1, <1>2, <1>3, <1>4, <1>5, <1>6, <1>7, <1>8, <1>9, <1>10 DEF FeedNext, Network

(* FeedInv holds in every state of a feed. *)
THEOREM FeedInvariant == FeedSpec => []FeedInv
BY FeedInitInv, FeedInvStep, PTL DEF FeedSpec

-----------------------------------------------------------------------------
(* Every frame the network thread read is consumed or in the queue by the  *)
(* time Disconnect() returned, unless the parser failed: whichever handler *)
(* the stop met, and though the last push may have waited for room         *)
(* (websocket_feed.cc:235 and websocket_feed.h:52).                        *)
THEOREM ReadsAreQueued == FeedSpec => []ReadIsQueued
<1>1. FeedInv => ReadIsQueued
  BY DEF FeedInv, ChannelInv, IInv, InOrder, Pushed, FramesPushed, ThreadEnds, ReadIsQueued
<1>2. QED
  BY <1>1, FeedInvariant, PTL

(* The parser thread sees the frames of the network thread in order, each  *)
(* once, and returns with the queue empty (core/spsc.h:14 and 24), with    *)
(* the calls websocket_feed.cc makes.                                      *)
THEOREM FeedLosesNothing == FeedSpec => []NothingLost
BY FeedInvariant, IInvNothingLost, PTL DEF FeedInv, ChannelInv

(* A feed and its parser are an ordered bounded channel of frames.         *)
THEOREM FeedIsChannel == FeedSpec => IsChannel
<1>1. FeedInit => AsChannel!Init
  BY ChannelInit DEF FeedInit
<1>2. FeedInv /\ [FeedNext]_allVars => [AsChannel!Next]_AsChannel!vars
  BY FeedStepIsSpscStep, ChannelStep DEF FeedInv
<1>3. QED
  BY <1>1, <1>2, FeedInvariant, PTL DEF FeedSpec, IsChannel, AsChannel!Spec
=============================================================================
