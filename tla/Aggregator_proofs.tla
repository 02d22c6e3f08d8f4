-------------------------- MODULE Aggregator_proofs --------------------------
(***************************************************************************)
(* The samples' safety for any number of recording threads, any capacity   *)
(* of their queues, and any number of samples and files.                   *)
(***************************************************************************)
EXTENDS Aggregator, FiniteSetTheorems, SequenceTheorems, TLAPS

Sample == [thread : Threads, n : Nat]

File == [samples : Seq(Sample), count : Nat \cup {Open}]

Dropping == {t \in Threads : thread[t] = "dropping"}

TypeInv ==
  /\ owner \in {"idle", "starting", "stopping", "opening", "opened", "returning", "returned"}
  /\ running \in BOOLEAN /\ stop \in BOOLEAN /\ stopping \in BOOLEAN
  /\ seenRetired \in BOOLEAN
  /\ dropped \in Nat /\ available \in Nat
  /\ writer \in {"none", "stop?", "pass", "retired?", "available?", "drain", "ended"}
  /\ producers \subseteq Threads /\ pass \subseteq Threads
  /\ thread \in [Threads -> {"idle", "registering", "pushing", "dropping", "exited"}]
  /\ retired \in [Threads -> BOOLEAN]
  /\ recorded \in [Threads -> Nat]
  /\ queue \in [Threads -> Seq(Nat)]
  /\ files \in Seq(File)
  /\ lost \subseteq Recorded
  /\ IsFiniteSet(lost) /\ IsFiniteSet(Dropping)
  /\ returned \in [samples : [Threads -> Nat], drops : Int, earlier : Int]

(* A retired producer's thread has pushed its last sample, so what is       *)
(* available behind the read of retired is all there will be.              *)
PlaceInv ==
  /\ \A t \in Threads :
       /\ retired[t] => thread[t] = "exited"
       /\ queue[t] # <<>> => t \in producers
       /\ thread[t] = "pushing" => t \in producers
  /\ writer \in {"available?", "drain"} =>
       current \in pass /\ (seenRetired => retired[current])
  /\ writer = "drain" =>
       /\ available <= Len(queue[current])
       /\ seenRetired => available = Len(queue[current])
  /\ writer # "none" => files # <<>>

(* EachWrittenOnce, in its three parts.                                     *)
Rise(fs) ==
  \A f, g \in 1..Len(fs) :
    \A i \in 1..Len(fs[f].samples), j \in 1..Len(fs[g].samples) :
      fs[f].samples[i].thread = fs[g].samples[j].thread /\ (f < g \/ (f = g /\ i < j)) =>
        fs[f].samples[i].n < fs[g].samples[j].n

FilesRise == Rise(files)

QueuesRise ==
  \A t \in Threads : \A i \in 1..Len(queue[t]) :
    /\ \A j \in 1..(i - 1) : queue[t][j] < queue[t][i]
    /\ \A s \in Written : s.thread = t => s.n < queue[t][i]

NoneMissing == Written \cup Queued = Recorded \ lost

OrderInv == FilesRise /\ QueuesRise /\ NoneMissing

(* The writer stops because it was told to, and what ends recording tells   *)
(* it; a file is open from its Start() to its Stop().                      *)
StopInv ==
  /\ writer = "ended" => stop
  /\ writer \in {"pass", "retired?", "available?", "drain"} /\ stopping => stop
  /\ running => owner \in {"idle", "returning", "returned"}
  /\ running /\ owner = "idle" => ~stop /\ writer \notin Joined
  /\ owner = "opening" => writer = "none"
  /\ owner = "opened" => ~stop /\ writer \notin Joined
  /\ owner = "returned" => writer \in Joined

(* dropped_ counts from the last Start() on.                               *)
DropInv ==
  /\ dropped = CountedLost - returned.earlier
  /\ returned.drops <= CountedLost
  /\ \A t \in Threads : returned.samples[t] <= recorded[t]

(* Nothing `t` recorded before recording was stopped is queued.            *)
Beyond(t) == \A i \in 1..Len(queue[t]) : queue[t][i] > returned.samples[t]

(* The pass that begins after the stop token was read writes out what was   *)
(* queued by then, producer by producer.                                   *)
FinalInv ==
  /\ stopping /\ writer \in {"retired?", "available?", "drain"} =>
       \A t \in Threads : t \in pass \/ Beyond(t)
  /\ stopping /\ writer = "drain" =>
       \A i \in 1..Len(queue[current]) :
         i > available => queue[current][i] > returned.samples[current]
  /\ writer \in Joined =>
       /\ \A t \in Threads : Beyond(t)
       /\ files # <<>> => files[Len(files)].count >= returned.drops - returned.earlier

IInv == TypeInv /\ PlaceInv /\ OrderInv /\ StopInv /\ DropInv /\ FinalInv

-----------------------------------------------------------------------------
(* What the parts of the invariant are about. *)

(* The samples and their places: a step that leaves them is in order.       *)
LEMMA OrderStays ==
  ASSUME OrderInv, UNCHANGED <<files, queue, recorded, lost>>
  PROVE  OrderInv'
BY DEF OrderInv, FilesRise, QueuesRise, NoneMissing, Written, Queued, Recorded

(* A drop is counted at most as late as its thread does anything else.      *)
LEMMA CountIs == CountedLost = Cardinality(lost) - Cardinality(Dropping)
BY DEF CountedLost, Dropping

(* Recording and exiting: the thread moves, its samples do not.             *)
LEMMA ThreadMoves ==
  ASSUME IInv, NEW t \in Threads, thread[t] \in {"idle", "registering"},
         NEW x \in {"registering", "pushing", "exited"}, thread' = [thread EXCEPT ![t] = x],
         NEW r \in BOOLEAN, retired' = [retired EXCEPT ![t] = r], r => x = "exited",
         producers' = producers \/ producers' = producers \cup {t},
         x = "pushing" => t \in producers',
         UNCHANGED <<owner, running, stop, returned, dropped, writer, stopping, pass, current,
                     seenRetired, available, files, queue, recorded, lost>>
  PROVE  IInv'
<1>1. TypeInv /\ PlaceInv /\ OrderInv /\ StopInv /\ DropInv /\ FinalInv
  BY DEF IInv
<1>2. /\ thread' \in [Threads -> {"idle", "registering", "pushing", "dropping", "exited"}]
      /\ retired' \in [Threads -> BOOLEAN]
      /\ thread'[t] = x /\ retired'[t] = r
      /\ \A u \in Threads : u # t => thread'[u] = thread[u] /\ retired'[u] = retired[u]
  BY <1>1 DEF TypeInv
<1>3. Dropping' = Dropping
  BY <1>2 DEF Dropping
<1>4. TypeInv'
  <2>1. producers' \subseteq Threads
    BY <1>1 DEF TypeInv
  <2>2. lost' \subseteq Recorded'
    BY <1>1 DEF TypeInv, Recorded
  <2> QED
    BY <1>1, <1>2, <1>3, <2>1, <2>2 DEF TypeInv
<1>5. PlaceInv'
  <2>1. ~retired[t]
    BY <1>1 DEF PlaceInv
  <2>2. ASSUME NEW u \in Threads
        PROVE  /\ retired'[u] => thread'[u] = "exited"
               /\ queue[u] # <<>> => u \in producers'
               /\ thread'[u] = "pushing" => u \in producers'
    BY <1>1, <1>2 DEF PlaceInv
  <2>3. writer \in {"available?", "drain"} =>
          current \in pass /\ (seenRetired => retired'[current])
    BY <1>1, <1>2, <2>1 DEF PlaceInv, TypeInv
  <2> QED
    BY <1>1, <2>2, <2>3 DEF PlaceInv
<1>6. OrderInv'
  BY <1>1, OrderStays
<1>7. StopInv'
  BY <1>1 DEF StopInv, Joined
<1>8. DropInv'
  <2>1. CountedLost' = CountedLost
    BY <1>3 DEF CountedLost, Dropping
  <2> QED
    BY <1>1, <2>1 DEF DropInv
<1>9. FinalInv'
  BY <1>1 DEF FinalInv, Beyond, Joined
<1> QED
  BY <1>4, <1>5, <1>6, <1>7, <1>8, <1>9 DEF IInv

(* Record() reads running_, and whether the thread has its queue.           *)
LEMMA RecordStep ==
  ASSUME IInv, NEW t \in Threads, Record(t)
  PROVE  IInv'
<1>1. PICK x \in {"registering", "pushing"} :
        thread' = [thread EXCEPT ![t] = x] /\ (x = "pushing" => t \in producers)
  BY DEF Record
<1>2. UNCHANGED <<owner, running, stop, returned, dropped, writer, stopping, pass, current,
                  seenRetired, available, files, queue, recorded, lost, producers, retired>>
  BY DEF Record, recordUnchanged, ownerVars, writerVars, passVars
<1>3. retired[t] \in BOOLEAN /\ retired' = [retired EXCEPT ![t] = retired[t]]
  BY <1>2 DEF IInv, TypeInv
<1>4. thread[t] = "idle" /\ ~retired[t]
  BY DEF Record, IInv, PlaceInv
<1> QED
  BY <1>1, <1>2, <1>3, <1>4, ThreadMoves

(* LocalProducer() the first time.                                          *)
LEMMA RegisterStep ==
  ASSUME IInv, NEW t \in Threads, Register(t)
  PROVE  IInv'
<1>1. thread[t] = "registering" /\ thread' = [thread EXCEPT ![t] = "pushing"]
      /\ producers' = producers \cup {t}
  BY DEF Register
<1>2. UNCHANGED <<owner, running, stop, returned, dropped, writer, stopping, pass, current,
                  seenRetired, available, files, queue, recorded, lost, retired>>
  BY DEF Register, recordUnchanged, ownerVars, writerVars, passVars
<1>3. retired[t] \in BOOLEAN /\ retired' = [retired EXCEPT ![t] = retired[t]]
  BY <1>2 DEF IInv, TypeInv
<1>4. ~retired[t]
  BY <1>1 DEF IInv, PlaceInv
<1>5. t \in producers'
  BY <1>1
<1> QED
  BY <1>1, <1>2, <1>3, <1>4, <1>5, ThreadMoves

(* The thread exits between two calls of Record().                          *)
LEMMA ExitStep ==
  ASSUME IInv, NEW t \in Threads, Exit(t)
  PROVE  IInv'
<1>1. PICK r \in BOOLEAN : r <=> t \in producers
  <2>1. CASE t \in producers
    BY <2>1
  <2>2. CASE t \notin producers
    BY <2>2
  <2> QED
    BY <2>1, <2>2
<1>2. thread[t] = "idle" /\ thread' = [thread EXCEPT ![t] = "exited"]
      /\ retired' = [retired EXCEPT ![t] = r]
  BY <1>1 DEF Exit
<1>3. UNCHANGED <<owner, running, stop, returned, dropped, writer, stopping, pass, current,
                  seenRetired, available, files, queue, recorded, lost, producers>>
  BY DEF Exit, ownerVars, writerVars, passVars
<1> QED
  BY <1>2, <1>3, ThreadMoves

-----------------------------------------------------------------------------
(* Record() pushes a sample or drops it. *)

(* A sample is recorded when its number is at most its thread's count.      *)
LEMMA RecordedIs ==
  ASSUME NEW t \in Threads, NEW n
  PROVE  [thread |-> t, n |-> n] \in Recorded <=> n \in 1..recorded[t]
<1>1. ASSUME [thread |-> t, n |-> n] \in Recorded
      PROVE  n \in 1..recorded[t]
  <2>1. PICK u \in Threads : \E m \in 1..recorded[u] :
          [thread |-> t, n |-> n] = [thread |-> u, n |-> m]
    BY <1>1 DEF Recorded
  <2> QED
    BY <2>1
<1>2. ASSUME n \in 1..recorded[t]
      PROVE  [thread |-> t, n |-> n] \in Recorded
  BY <1>2 DEF Recorded
<1> QED
  BY <1>1, <1>2

(* And has a thread and a number.                                           *)
LEMMA RecordedHave ==
  ASSUME NEW s \in Recorded
  PROVE  s.thread \in Threads /\ s.n \in 1..recorded[s.thread]
         /\ s = [thread |-> s.thread, n |-> s.n]
BY DEF Recorded

(* A sample is queued when its number is in its thread's queue.             *)
LEMMA QueuedIs ==
  ASSUME NEW t \in Threads, NEW n
  PROVE  [thread |-> t, n |-> n] \in Queued <=> \E i \in 1..Len(queue[t]) : queue[t][i] = n
<1>1. ASSUME [thread |-> t, n |-> n] \in Queued
      PROVE  \E i \in 1..Len(queue[t]) : queue[t][i] = n
  <2>1. PICK u \in Threads : \E i \in 1..Len(queue[u]) :
          [thread |-> t, n |-> n] = [thread |-> u, n |-> queue[u][i]]
    BY <1>1 DEF Queued
  <2> QED
    BY <2>1
<1>2. ASSUME NEW i \in 1..Len(queue[t]), queue[t][i] = n
      PROVE  [thread |-> t, n |-> n] \in Queued
  BY <1>2 DEF Queued
<1> QED
  BY <1>1, <1>2

(* What a thread has recorded is what its count has.                        *)
LEMMA RecordedGrows ==
  ASSUME recorded \in [Threads -> Nat], NEW t \in Threads,
         recorded' = [recorded EXCEPT ![t] = @ + 1]
  PROVE  /\ Recorded' = Recorded \cup {[thread |-> t, n |-> recorded[t] + 1]}
         /\ [thread |-> t, n |-> recorded[t] + 1] \notin Recorded
         /\ \A u \in Threads : recorded'[u] >= recorded[u] /\ recorded'[u] \in Nat
         /\ recorded'[t] = recorded[t] + 1
<1>0. /\ recorded[t] \in Nat /\ recorded'[t] = recorded[t] + 1
      /\ \A u \in Threads : u # t => recorded'[u] = recorded[u]
      /\ \A u \in Threads : recorded[u] \in Nat /\ recorded'[u] \in Nat
  OBVIOUS
<1>1. [thread |-> t, n |-> recorded[t] + 1] \notin Recorded
  <2>1. recorded[t] + 1 \notin 1..recorded[t]
    BY <1>0
  <2> QED
    BY <2>1, RecordedIs
<1>2. ASSUME NEW s \in Recorded'
      PROVE  s \in Recorded \cup {[thread |-> t, n |-> recorded[t] + 1]}
  <2>0. PICK u \in Threads : \E m \in 1..recorded'[u] : s = [thread |-> u, n |-> m]
    BY <1>2 DEF Recorded
  <2>1. PICK m \in 1..recorded'[u] : s = [thread |-> u, n |-> m]
    BY <2>0
  <2>2. CASE m \in 1..recorded[u]
    BY <2>1, <2>2 DEF Recorded
  <2>3. CASE m \notin 1..recorded[u]
    <3>1. u = t
      BY <1>0, <2>3
    <3>2. m = recorded[t] + 1
      BY <1>0, <2>3, <3>1
    <3> QED
      BY <2>1, <3>1, <3>2
  <2> QED
    BY <2>2, <2>3
<1>3. ASSUME NEW s \in Recorded
      PROVE  s \in Recorded'
  <2>0. PICK u \in Threads : \E m \in 1..recorded[u] : s = [thread |-> u, n |-> m]
    BY DEF Recorded
  <2>1. PICK m \in 1..recorded[u] : s = [thread |-> u, n |-> m]
    BY <2>0
  <2>2. m \in 1..recorded'[u]
    BY <1>0
  <2> QED
    BY <2>1, <2>2 DEF Recorded
<1>4. [thread |-> t, n |-> recorded[t] + 1] \in Recorded'
  <2>1. recorded[t] + 1 \in 1..recorded'[t]
    BY <1>0
  <2> QED
    BY <2>1 DEF Recorded
<1> QED
  BY <1>0, <1>1, <1>2, <1>3, <1>4

(* The queue has room.                                                      *)
LEMMA PushQueues ==
  ASSUME IInv, NEW t \in Threads, Push(t), Len(queue[t]) < QueueCapacity
  PROVE  IInv'
<1>1. TypeInv /\ PlaceInv /\ OrderInv /\ StopInv /\ DropInv /\ FinalInv
  BY DEF IInv
<1>2. /\ thread[t] = "pushing" /\ thread' = [thread EXCEPT ![t] = "idle"]
      /\ recorded' = [recorded EXCEPT ![t] = @ + 1]
      /\ queue' = [queue EXCEPT ![t] = Append(@, recorded'[t])]
      /\ UNCHANGED <<owner, running, stop, returned, dropped, writer, stopping, pass, current,
                     seenRetired, available, files, producers, retired, lost>>
  BY DEF Push, recordUnchanged, ownerVars, writerVars, passVars
<1>3. /\ recorded[t] \in Nat /\ recorded'[t] = recorded[t] + 1
      /\ \A u \in Threads : recorded'[u] >= recorded[u] /\ recorded'[u] \in Nat
      /\ Recorded' = Recorded \cup {[thread |-> t, n |-> recorded[t] + 1]}
      /\ [thread |-> t, n |-> recorded[t] + 1] \notin Recorded
  BY <1>1, <1>2, RecordedGrows DEF TypeInv
<1>4. /\ queue[t] \in Seq(Nat)
      /\ Len(queue[t]) \in Nat
      /\ queue'[t] = Append(queue[t], recorded[t] + 1)
      /\ \A u \in Threads : u # t => queue'[u] = queue[u]
  BY <1>1, <1>2, <1>3 DEF TypeInv
<1>5. /\ queue'[t] \in Seq(Nat)
      /\ Len(queue'[t]) = Len(queue[t]) + 1
      /\ \A i \in 1..Len(queue[t]) : queue'[t][i] = queue[t][i]
      /\ queue'[t][Len(queue[t]) + 1] = recorded[t] + 1
  BY <1>3, <1>4, AppendProperties
<1>6. /\ thread' \in [Threads -> {"idle", "registering", "pushing", "dropping", "exited"}]
      /\ thread'[t] = "idle"
      /\ \A u \in Threads : u # t => thread'[u] = thread[u]
  BY <1>1, <1>2 DEF TypeInv
<1>7. Dropping' = Dropping
  BY <1>2, <1>6 DEF Dropping
<1>8. ~retired[t] /\ t \in producers
  BY <1>1, <1>2 DEF PlaceInv, TypeInv
<1>9. TypeInv'
  <2>1. queue' \in [Threads -> Seq(Nat)]
    BY <1>1, <1>2, <1>4, <1>5 DEF TypeInv
  <2>2. recorded' \in [Threads -> Nat]
    BY <1>1, <1>2, <1>3 DEF TypeInv
  <2>3. lost' \subseteq Recorded'
    BY <1>1, <1>2, <1>3 DEF TypeInv
  <2> QED
    BY <1>1, <1>2, <1>6, <1>7, <2>1, <2>2, <2>3 DEF TypeInv
<1>10. PlaceInv'
  <2>1. ASSUME NEW u \in Threads
        PROVE  /\ retired'[u] => thread'[u] = "exited"
               /\ queue'[u] # <<>> => u \in producers'
               /\ thread'[u] = "pushing" => u \in producers'
    BY <1>1, <1>2, <1>4, <1>6, <1>8 DEF PlaceInv
  <2>2. writer' = "drain" =>
          /\ available' <= Len(queue'[current'])
          /\ seenRetired' => available' = Len(queue'[current'])
    <3>1. CASE current = t
      BY <1>1, <1>2, <1>4, <1>5, <1>8, <3>1 DEF PlaceInv, TypeInv
    <3>2. CASE current # t
      BY <1>1, <1>2, <1>4, <3>2 DEF PlaceInv, TypeInv
    <3> QED
      BY <3>1, <3>2
  <2> QED
    BY <1>1, <1>2, <2>1, <2>2 DEF PlaceInv
<1>11. OrderInv'
  <2>1. Written' = Written
    BY <1>2 DEF Written
  <2>2. FilesRise'
    BY <1>1, <1>2 DEF OrderInv, FilesRise
  <2>3. Queued' = Queued \cup {[thread |-> t, n |-> recorded[t] + 1]}
    <3>1. ASSUME NEW s \in Queued'
          PROVE  s \in Queued \cup {[thread |-> t, n |-> recorded[t] + 1]}
      <4>1. PICK u \in Threads : \E i \in 1..Len(queue'[u]) : s = [thread |-> u, n |-> queue'[u][i]]
        BY <3>1 DEF Queued
      <4>2. PICK i \in 1..Len(queue'[u]) : s = [thread |-> u, n |-> queue'[u][i]]
        BY <4>1
      <4>3. CASE u # t
        BY <1>4, <4>2, <4>3 DEF Queued
      <4>4. CASE u = t /\ i \in 1..Len(queue[t])
        <5>1. s = [thread |-> t, n |-> queue[t][i]]
          BY <1>5, <4>2, <4>4
        <5> QED
          BY <4>4, <5>1 DEF Queued
      <4>5. CASE u = t /\ i \notin 1..Len(queue[t])
        <5>1. i = Len(queue[t]) + 1
          BY <1>4, <1>5, <4>5
        <5> QED
          BY <1>5, <4>2, <4>5, <5>1
      <4> QED
        BY <4>3, <4>4, <4>5
    <3>2. ASSUME NEW s \in Queued
          PROVE  s \in Queued'
      <4>1. PICK u \in Threads : \E i \in 1..Len(queue[u]) : s = [thread |-> u, n |-> queue[u][i]]
        BY <3>2 DEF Queued
      <4>2. PICK i \in 1..Len(queue[u]) : s = [thread |-> u, n |-> queue[u][i]]
        BY <4>1
      <4>3. i \in 1..Len(queue'[u]) /\ queue'[u][i] = queue[u][i]
        <5>1. CASE u = t
          <6>1. i \in 1..Len(queue[t])
            BY <4>2, <5>1
          <6> QED
            BY <1>4, <1>5, <5>1, <6>1, SMTT(40)
        <5>2. CASE u # t
          BY <1>4, <4>2, <5>2
        <5> QED
          BY <5>1, <5>2
      <4> QED
        BY <4>2, <4>3 DEF Queued
    <3>3. [thread |-> t, n |-> recorded[t] + 1] \in Queued'
      <4>1. Len(queue[t]) + 1 \in 1..Len(queue'[t])
        BY <1>4, <1>5
      <4> QED
        BY <1>5, <4>1 DEF Queued
    <3> QED
      BY <3>1, <3>2, <3>3
  <2>4. NoneMissing'
    <3>1. [thread |-> t, n |-> recorded[t] + 1] \notin lost
      BY <1>1, <1>3 DEF TypeInv
    <3> QED
      BY <1>1, <1>2, <1>3, <2>1, <2>3, <3>1 DEF OrderInv, NoneMissing
  <2>5. ASSUME NEW s \in Written, s.thread = t
        PROVE  s.n < recorded[t] + 1
    <3>1. s \in Recorded
      BY <1>1 DEF OrderInv, NoneMissing
    <3> QED
      BY <1>3, <2>5, <3>1, RecordedHave
  <2>6. ASSUME NEW i \in 1..Len(queue[t])
        PROVE  queue[t][i] \in Nat /\ queue[t][i] < recorded[t] + 1
    <3>1. [thread |-> t, n |-> queue[t][i]] \in Recorded
      BY <1>1, <2>6 DEF OrderInv, NoneMissing, Queued
    <3> QED
      BY <1>3, <3>1, RecordedIs
  <2>7. QueuesRise'
    <3>1. ASSUME NEW u \in Threads, NEW i \in 1..Len(queue'[u])
          PROVE  /\ \A j \in 1..(i - 1) : queue'[u][j] < queue'[u][i]
                 /\ \A s \in Written' : s.thread = u => s.n < queue'[u][i]
      <4>1. CASE u # t
        BY <1>1, <1>4, <2>1, <3>1, <4>1 DEF OrderInv, QueuesRise
      <4>2. CASE u = t /\ i \in 1..Len(queue[t])
        <5>1. ASSUME NEW j \in 1..(i - 1)
              PROVE  queue'[u][j] < queue'[u][i]
          <6>1. j \in 1..Len(queue[t])
            BY <1>4, <4>2
          <6> QED
            BY <1>1, <1>5, <4>2, <6>1 DEF OrderInv, QueuesRise
        <5> QED
          BY <1>1, <1>5, <2>1, <4>2, <5>1 DEF OrderInv, QueuesRise
      <4>3. CASE u = t /\ i \notin 1..Len(queue[t])
        <5>1. i = Len(queue[t]) + 1
          BY <1>4, <1>5, <4>3
        <5>2. queue'[u][i] = recorded[t] + 1
          BY <1>5, <4>3, <5>1
        <5>3. ASSUME NEW j \in 1..(i - 1)
              PROVE  queue'[u][j] < queue'[u][i]
          <6>1. j \in 1..Len(queue[t])
            BY <1>4, <5>1
          <6> QED
            BY <1>5, <2>6, <4>3, <5>2, <6>1
        <5> QED
          BY <2>1, <2>5, <4>3, <5>2, <5>3
      <4> QED
        BY <4>1, <4>2, <4>3
    <3> QED
      BY <3>1 DEF QueuesRise
  <2> QED
    BY <2>2, <2>4, <2>7 DEF OrderInv
<1>12. StopInv'
  BY <1>1, <1>2 DEF StopInv, Joined
<1>13. DropInv'
  <2>1. CountedLost' = CountedLost
    BY <1>2, <1>7 DEF CountedLost, Dropping
  <2>2. ASSUME NEW u \in Threads
        PROVE  returned'.samples[u] <= recorded'[u]
    <3>1. returned.samples[u] \in Nat /\ recorded[u] \in Nat /\ recorded'[u] \in Nat
      BY <1>1, <1>3 DEF TypeInv
    <3> QED
      BY <1>1, <1>2, <1>3, <3>1 DEF DropInv
  <2> QED
    BY <1>1, <1>2, <2>1, <2>2 DEF DropInv
<1>14. FinalInv'
  <2>1. returned.samples[t] \in Nat /\ recorded[t] + 1 > returned.samples[t]
    <3>1. returned.samples[t] \in Nat
      BY <1>1 DEF TypeInv
    <3> QED
      BY <1>1, <1>3, <3>1 DEF DropInv
  <2>2. ASSUME NEW u \in Threads, Beyond(u)
        PROVE  Beyond(u)'
    <3>1. CASE u # t
      BY <1>2, <1>4, <2>2, <3>1 DEF Beyond
    <3>2. CASE u = t
      <4>1. ASSUME NEW i \in 1..Len(queue'[t])
            PROVE  queue'[t][i] > returned'.samples[t]
        <5>1. CASE i \in 1..Len(queue[t])
          BY <1>2, <1>5, <2>2, <3>2, <5>1 DEF Beyond
        <5>2. CASE i \notin 1..Len(queue[t])
          <6>1. i = Len(queue[t]) + 1
            BY <1>4, <1>5, <5>2
          <6> QED
            BY <1>2, <1>5, <2>1, <6>1
        <5> QED
          BY <5>1, <5>2
      <4> QED
        BY <3>2, <4>1 DEF Beyond
    <3> QED
      BY <3>1, <3>2
  <2>3. stopping /\ writer = "drain" =>
          \A i \in 1..Len(queue'[current]) :
            i > available => queue'[current][i] > returned.samples[current]
    <3>1. CASE current # t
      <4>1. writer = "drain" => current \in Threads
        BY <1>1 DEF PlaceInv, TypeInv
      <4> QED
        BY <1>1, <1>4, <3>1, <4>1 DEF FinalInv
    <3>2. CASE current = t
      <4>1. ASSUME NEW i \in 1..Len(queue'[t]), stopping, writer = "drain", i > available
            PROVE  queue'[t][i] > returned.samples[t]
        <5>1. CASE i \in 1..Len(queue[t])
          BY <1>1, <1>5, <3>2, <4>1, <5>1 DEF FinalInv
        <5>2. CASE i \notin 1..Len(queue[t])
          <6>1. i = Len(queue[t]) + 1
            BY <1>4, <1>5, <5>2
          <6> QED
            BY <1>5, <2>1, <6>1
        <5> QED
          BY <5>1, <5>2
      <4> QED
        BY <3>2, <4>1
    <3> QED
      BY <3>1, <3>2
  <2>4. writer \in Joined => \A u \in Threads : Beyond(u)'
    BY <1>1, <2>2 DEF FinalInv
  <2>5. stopping /\ writer \in {"retired?", "available?", "drain"} =>
          \A u \in Threads : u \in pass \/ Beyond(u)'
    BY <1>1, <2>2 DEF FinalInv
  <2> QED
    BY <1>1, <1>2, <2>3, <2>4, <2>5 DEF FinalInv, Joined
<1> QED
  BY <1>9, <1>10, <1>11, <1>12, <1>13, <1>14 DEF IInv

(* It is full, and the sample is lost, but not yet counted.                 *)
LEMMA PushDrops ==
  ASSUME IInv, NEW t \in Threads, Push(t), ~(Len(queue[t]) < QueueCapacity)
  PROVE  IInv'
<1>1. TypeInv /\ PlaceInv /\ OrderInv /\ StopInv /\ DropInv /\ FinalInv
  BY DEF IInv
<1>2. /\ thread[t] = "pushing" /\ thread' = [thread EXCEPT ![t] = "dropping"]
      /\ recorded' = [recorded EXCEPT ![t] = @ + 1]
      /\ lost' = lost \cup {[thread |-> t, n |-> recorded'[t]]}
      /\ UNCHANGED <<owner, running, stop, returned, dropped, writer, stopping, pass, current,
                     seenRetired, available, files, producers, retired, queue>>
  BY DEF Push, recordUnchanged, ownerVars, writerVars, passVars
<1>3. /\ recorded[t] \in Nat /\ recorded'[t] = recorded[t] + 1
      /\ \A u \in Threads : recorded'[u] >= recorded[u] /\ recorded'[u] \in Nat
      /\ Recorded' = Recorded \cup {[thread |-> t, n |-> recorded[t] + 1]}
      /\ [thread |-> t, n |-> recorded[t] + 1] \notin Recorded
  BY <1>1, <1>2, RecordedGrows DEF TypeInv
<1>4. PICK s : s = [thread |-> t, n |-> recorded[t] + 1]
  OBVIOUS
<1>5. lost' = lost \cup {s} /\ s \notin lost /\ s \notin Recorded /\ Recorded' = Recorded \cup {s}
  BY <1>1, <1>2, <1>3, <1>4 DEF TypeInv
<1>6. /\ thread' \in [Threads -> {"idle", "registering", "pushing", "dropping", "exited"}]
      /\ thread'[t] = "dropping"
      /\ \A u \in Threads : u # t => thread'[u] = thread[u]
  BY <1>1, <1>2 DEF TypeInv
<1>7. Dropping' = Dropping \cup {t} /\ t \notin Dropping
  BY <1>2, <1>6 DEF Dropping
<1>8. /\ IsFiniteSet(lost') /\ Cardinality(lost') = Cardinality(lost) + 1
      /\ Cardinality(lost) \in Nat
  BY <1>1, <1>5, FS_AddElement, FS_CardinalityType DEF TypeInv
<1>9. /\ IsFiniteSet(Dropping') /\ Cardinality(Dropping') = Cardinality(Dropping) + 1
      /\ Cardinality(Dropping) \in Nat
  BY <1>1, <1>7, FS_AddElement, FS_CardinalityType DEF TypeInv
<1>10. ~retired[t] /\ t \in producers
  BY <1>1, <1>2 DEF PlaceInv, TypeInv
<1>11. TypeInv'
  <2>1. recorded' \in [Threads -> Nat]
    BY <1>1, <1>2, <1>3 DEF TypeInv
  <2>2. lost' \subseteq Recorded'
    BY <1>1, <1>5 DEF TypeInv
  <2> QED
    BY <1>1, <1>2, <1>6, <1>8, <1>9, <2>1, <2>2 DEF TypeInv
<1>12. PlaceInv'
  <2>1. ASSUME NEW u \in Threads
        PROVE  /\ retired[u] => thread'[u] = "exited"
               /\ thread'[u] = "pushing" => u \in producers
    BY <1>1, <1>6, <1>10 DEF PlaceInv
  <2> QED
    BY <1>1, <1>2, <2>1 DEF PlaceInv
<1>13. OrderInv'
  <2>1. Written' = Written /\ Queued' = Queued
    BY <1>2 DEF Written, Queued
  <2>2. FilesRise'
    BY <1>1, <1>2 DEF OrderInv, FilesRise
  <2>3. QueuesRise'
    BY <1>1, <1>2, <2>1 DEF OrderInv, QueuesRise
  <2>4. NoneMissing'
    BY <1>1, <1>5, <2>1 DEF OrderInv, NoneMissing
  <2> QED
    BY <2>2, <2>3, <2>4 DEF OrderInv
<1>14. StopInv'
  BY <1>1, <1>2 DEF StopInv, Joined
<1>15. DropInv'
  <2>1. CountedLost' = CountedLost
    <3>1. CountedLost' = Cardinality(lost') - Cardinality(Dropping')
      BY DEF CountedLost, Dropping
    <3> QED
      BY <1>8, <1>9, <3>1, CountIs
  <2>2. ASSUME NEW u \in Threads
        PROVE  returned.samples[u] <= recorded'[u]
    <3>1. returned.samples[u] \in Nat /\ recorded[u] \in Nat /\ recorded'[u] \in Nat
      BY <1>1, <1>3 DEF TypeInv
    <3> QED
      BY <1>1, <1>3, <3>1 DEF DropInv
  <2> QED
    BY <1>1, <1>2, <2>1, <2>2 DEF DropInv
<1>16. FinalInv'
  BY <1>1, <1>2 DEF FinalInv, Beyond, Joined
<1> QED
  BY <1>11, <1>12, <1>13, <1>14, <1>15, <1>16 DEF IInv

(* And then it is.                                                          *)
LEMMA CountDropStep ==
  ASSUME IInv, NEW t \in Threads, CountDrop(t)
  PROVE  IInv'
<1>1. TypeInv /\ PlaceInv /\ OrderInv /\ StopInv /\ DropInv /\ FinalInv
  BY DEF IInv
<1>2. /\ thread[t] = "dropping" /\ thread' = [thread EXCEPT ![t] = "idle"]
      /\ dropped' = dropped + 1
      /\ UNCHANGED <<owner, running, stop, returned, writer, stopping, pass, current,
                     seenRetired, available, files, producers, retired, queue, recorded, lost>>
  BY DEF CountDrop, recordUnchanged, ownerVars, writerVars, passVars
<1>3. /\ thread' \in [Threads -> {"idle", "registering", "pushing", "dropping", "exited"}]
      /\ thread'[t] = "idle"
      /\ \A u \in Threads : u # t => thread'[u] = thread[u]
  BY <1>1, <1>2 DEF TypeInv
<1>4. Dropping' = Dropping \ {t} /\ t \in Dropping
  BY <1>2, <1>3 DEF Dropping
<1>5. /\ IsFiniteSet(Dropping') /\ Cardinality(Dropping') = Cardinality(Dropping) - 1
      /\ Cardinality(Dropping) \in Nat /\ Cardinality(lost) \in Nat
  BY <1>1, <1>4, FS_RemoveElement, FS_CardinalityType DEF TypeInv
<1>6. ~retired[t]
  BY <1>1, <1>2 DEF PlaceInv, TypeInv
<1>7. TypeInv'
  <2>1. dropped' \in Nat
    BY <1>1, <1>2 DEF TypeInv
  <2>2. lost' \subseteq Recorded'
    BY <1>1, <1>2 DEF TypeInv, Recorded
  <2> QED
    BY <1>1, <1>2, <1>3, <1>5, <2>1, <2>2 DEF TypeInv
<1>8. PlaceInv'
  <2>1. ASSUME NEW u \in Threads
        PROVE  /\ retired[u] => thread'[u] = "exited"
               /\ thread'[u] = "pushing" => u \in producers
    BY <1>1, <1>3, <1>6 DEF PlaceInv
  <2> QED
    BY <1>1, <1>2, <2>1 DEF PlaceInv
<1>9. OrderInv'
  BY <1>1, <1>2, OrderStays
<1>10. StopInv'
  BY <1>1, <1>2 DEF StopInv, Joined
<1>11. DropInv'
  <2>1. CountedLost' = CountedLost + 1 /\ CountedLost \in Int
    <3>1. CountedLost' = Cardinality(lost') - Cardinality(Dropping')
      BY DEF CountedLost, Dropping
    <3> QED
      BY <1>2, <1>5, <3>1, CountIs
  <2>2. returned.drops \in Int /\ returned.earlier \in Int
    BY <1>1 DEF TypeInv
  <2>3. dropped' = CountedLost' - returned.earlier /\ returned.drops <= CountedLost'
    BY <1>1, <1>2, <2>1, <2>2 DEF DropInv
  <2> QED
    BY <1>1, <1>2, <2>3 DEF DropInv
<1>12. FinalInv'
  BY <1>1, <1>2 DEF FinalInv, Beyond, Joined
<1> QED
  BY <1>7, <1>8, <1>9, <1>10, <1>11, <1>12 DEF IInv

-----------------------------------------------------------------------------
(* A pass of the writer over the producers. *)

(* The token is read, and a final pass begins only if it was set.           *)
LEMMA ReadStopStep ==
  ASSUME IInv, ReadStop
  PROVE  IInv'
<1>1. TypeInv /\ PlaceInv /\ OrderInv /\ StopInv /\ DropInv /\ FinalInv
  BY DEF IInv
<1>2. /\ writer = "stop?" /\ writer' = "pass" /\ stopping' = stop
      /\ UNCHANGED <<owner, running, stop, returned, dropped, pass, current, seenRetired,
                     available, files, producers, thread, retired, queue, recorded, lost>>
  BY DEF ReadStop, writerUnchanged, ownerVars, threadVars, passVars
<1>3. TypeInv'
  BY <1>1, <1>2 DEF TypeInv, Recorded, Dropping
<1>4. PlaceInv'
  BY <1>1, <1>2 DEF PlaceInv
<1>5. OrderInv'
  BY <1>1, <1>2, OrderStays
<1>6. StopInv'
  BY <1>1, <1>2 DEF StopInv, Joined
<1>7. DropInv'
  BY <1>1, <1>2 DEF DropInv, CountedLost
<1>8. FinalInv'
  BY <1>1, <1>2 DEF FinalInv, Beyond, Joined
<1> QED
  BY <1>3, <1>4, <1>5, <1>6, <1>7, <1>8 DEF IInv

(* A thread that is not in the pass has nothing queued.                     *)
LEMMA BeginPassStep ==
  ASSUME IInv, BeginPass
  PROVE  IInv'
<1>1. TypeInv /\ PlaceInv /\ OrderInv /\ StopInv /\ DropInv /\ FinalInv
  BY DEF IInv
<1>2. /\ writer = "pass" /\ writer' = "retired?" /\ pass' = producers
      /\ UNCHANGED <<owner, running, stop, returned, dropped, stopping, current, seenRetired,
                     available, files, producers, thread, retired, queue, recorded, lost>>
  BY DEF BeginPass, writerUnchanged, ownerVars, threadVars
<1>3. TypeInv'
  BY <1>1, <1>2 DEF TypeInv, Recorded, Dropping
<1>4. PlaceInv'
  BY <1>1, <1>2 DEF PlaceInv
<1>5. OrderInv'
  BY <1>1, <1>2, OrderStays
<1>6. StopInv'
  BY <1>1, <1>2 DEF StopInv, Joined
<1>7. DropInv'
  BY <1>1, <1>2 DEF DropInv, CountedLost
<1>8. FinalInv'
  <2>1. ASSUME NEW t \in Threads, t \notin pass'
        PROVE  Beyond(t)'
    <3>1. queue'[t] = <<>>
      BY <1>1, <1>2, <2>1 DEF PlaceInv
    <3>2. Len(queue'[t]) = 0
      BY <3>1
    <3> QED
      BY <3>2 DEF Beyond
  <2> QED
    BY <1>2, <2>1 DEF FinalInv, Joined
<1> QED
  BY <1>3, <1>4, <1>5, <1>6, <1>7, <1>8 DEF IInv

(* The pass comes to a producer.                                            *)
LEMMA ReadRetiredStep ==
  ASSUME IInv, ReadRetired
  PROVE  IInv'
<1>1. TypeInv /\ PlaceInv /\ OrderInv /\ StopInv /\ DropInv /\ FinalInv
  BY DEF IInv
<1>2. PICK t \in pass : current' = t /\ seenRetired' = retired[t]
  BY DEF ReadRetired
<1>3. /\ writer = "retired?" /\ writer' = "available?"
      /\ UNCHANGED <<owner, running, stop, returned, dropped, stopping, pass,
                     available, files, producers, thread, retired, queue, recorded, lost>>
  BY DEF ReadRetired, writerUnchanged, ownerVars, threadVars
<1>4. TypeInv'
  <2>1. seenRetired' \in BOOLEAN
    BY <1>1, <1>2 DEF TypeInv
  <2> QED
    BY <1>1, <1>3, <2>1 DEF TypeInv, Recorded, Dropping
<1>5. PlaceInv'
  BY <1>1, <1>2, <1>3 DEF PlaceInv
<1>6. OrderInv'
  BY <1>1, <1>3, OrderStays
<1>7. StopInv'
  BY <1>1, <1>3 DEF StopInv, Joined
<1>8. DropInv'
  BY <1>1, <1>3 DEF DropInv, CountedLost
<1>9. FinalInv'
  BY <1>1, <1>3 DEF FinalInv, Beyond, Joined
<1> QED
  BY <1>4, <1>5, <1>6, <1>7, <1>8, <1>9 DEF IInv

(* And sees how much it has queued, behind the read of retired.             *)
LEMMA ReadAvailableStep ==
  ASSUME IInv, ReadAvailable
  PROVE  IInv'
<1>1. TypeInv /\ PlaceInv /\ OrderInv /\ StopInv /\ DropInv /\ FinalInv
  BY DEF IInv
<1>2. /\ writer = "available?" /\ writer' = "drain" /\ available' = Len(queue[current])
      /\ UNCHANGED <<owner, running, stop, returned, dropped, stopping, pass, current,
                     seenRetired, files, producers, thread, retired, queue, recorded, lost>>
  BY DEF ReadAvailable, writerUnchanged, ownerVars, threadVars
<1>3. current \in Threads /\ Len(queue[current]) \in Nat
  BY <1>1, <1>2 DEF TypeInv, PlaceInv
<1>4. TypeInv'
  BY <1>1, <1>2, <1>3 DEF TypeInv, Recorded, Dropping
<1>5. PlaceInv'
  BY <1>1, <1>2, <1>3 DEF PlaceInv
<1>6. OrderInv'
  BY <1>1, <1>2, OrderStays
<1>7. StopInv'
  BY <1>1, <1>2 DEF StopInv, Joined
<1>8. DropInv'
  BY <1>1, <1>2 DEF DropInv, CountedLost
<1>9. FinalInv'
  BY <1>1, <1>2, <1>3 DEF FinalInv, Beyond, Joined
<1> QED
  BY <1>4, <1>5, <1>6, <1>7, <1>8, <1>9 DEF IInv

(* `gs` is the files `fs`, the last, the `n`th, with its `m` lines followed   *)
(* by the first `k` of the queue `q` of the thread `t`, which rise and are   *)
(* above what the files have of that thread.                               *)
Follow(fs, gs, n, m, t, q, k) ==
  /\ n \in Nat \ {0} /\ m \in Nat /\ k \in Nat
  /\ Len(fs) = n /\ Len(gs) = n
  /\ \A f \in 1..n : Len(fs[f].samples) \in Nat
  /\ \A f \in 1..n : f # n => gs[f].samples = fs[f].samples
  /\ Len(fs[n].samples) = m /\ Len(gs[n].samples) = m + k
  /\ \A i \in 1..m : gs[n].samples[i] = fs[n].samples[i]
  /\ \A p \in 1..k : gs[n].samples[m + p] = [thread |-> t, n |-> q[p]]
  /\ \A p, r \in 1..k : p < r => q[p] < q[r]
  /\ \A f \in 1..n : \A i \in 1..Len(fs[f].samples) :
       fs[f].samples[i].thread = t => \A p \in 1..k : fs[f].samples[i].n < q[p]

(* They rise, if the files did.                                             *)
LEMMA LinesRise ==
  ASSUME NEW fs, NEW gs, NEW n, NEW m, NEW t, NEW q, NEW k,
         Rise(fs), Follow(fs, gs, n, m, t, q, k)
  PROVE  Rise(gs)
<1> USE DEF Follow
<1>1. ASSUME NEW f \in 1..n, NEW i \in 1..Len(gs[f].samples)
      PROVE  \/ i \in 1..Len(fs[f].samples) /\ gs[f].samples[i] = fs[f].samples[i]
             \/ f = n /\ \E p \in 1..k : i = m + p /\ gs[f].samples[i] = [thread |-> t, n |-> q[p]]
  <2>1. CASE f # n
    BY <2>1, <1>1
  <2>2. CASE f = n /\ i \in 1..m
    BY <2>2
  <2>3. CASE f = n /\ i \notin 1..m
    <3>1. PICK p \in 1..k : i = m + p
      <4>1. i - m \in 1..k /\ i = m + (i - m)
        BY <1>1, <2>3
      <4> QED
        BY <4>1
    <3> QED
      BY <2>3, <3>1
  <2> QED
    BY <2>1, <2>2, <2>3
<1>2. ASSUME NEW f \in 1..n, NEW g \in 1..n,
             NEW i \in 1..Len(gs[f].samples), NEW j \in 1..Len(gs[g].samples),
             gs[f].samples[i].thread = gs[g].samples[j].thread, f < g \/ (f = g /\ i < j)
      PROVE  gs[f].samples[i].n < gs[g].samples[j].n
  <2>1. CASE i \in 1..Len(fs[f].samples) /\ gs[f].samples[i] = fs[f].samples[i]
    <3>1. CASE j \in 1..Len(fs[g].samples) /\ gs[g].samples[j] = fs[g].samples[j]
      BY <1>2, <2>1, <3>1 DEF Rise
    <3>2. CASE g = n /\ \E p \in 1..k : j = m + p /\ gs[g].samples[j] = [thread |-> t, n |-> q[p]]
      <4>1. PICK p \in 1..k : gs[g].samples[j] = [thread |-> t, n |-> q[p]]
        BY <3>2
      <4>2. fs[f].samples[i].thread = t /\ gs[g].samples[j].n = q[p]
        BY <1>2, <2>1, <4>1
      <4> QED
        BY <2>1, <4>2
    <3> QED
      BY <1>1, <3>1, <3>2
  <2>2. CASE f = n /\ \E p \in 1..k : i = m + p /\ gs[f].samples[i] = [thread |-> t, n |-> q[p]]
    <3>1. g = n /\ i < j
      BY <1>2, <2>2
    <3>2. PICK p \in 1..k : i = m + p /\ gs[f].samples[i] = [thread |-> t, n |-> q[p]]
      BY <2>2
    <3>3. j \notin 1..m
      BY <3>1, <3>2
    <3>4. PICK r \in 1..k : j = m + r /\ gs[g].samples[j] = [thread |-> t, n |-> q[r]]
      BY <1>1, <3>1, <3>3
    <3>5. p < r
      BY <3>1, <3>2, <3>4
    <3> QED
      BY <3>2, <3>4, <3>5
  <2> QED
    BY <1>1, <2>1, <2>2
<1> QED
  BY <1>2 DEF Rise

(* The drain writes the first `k` of the queue `q` of `t` behind the `m`     *)
(* lines of the last file, the `n`th, and leaves the rest.                  *)
Drained(t, q, n, m, k) ==
  /\ t \in Threads /\ q \in Seq(Nat) /\ n \in Nat \ {0} /\ m \in Nat /\ k \in 0..Len(q)
  /\ files' \in Seq(File) /\ Len(files') = n
  /\ \A f \in 1..n : f # n => files'[f] = files[f]
  /\ Len(files'[n].samples) = m + k
  /\ \A i \in 1..m : files'[n].samples[i] = files[n].samples[i]
  /\ \A p \in 1..k : files'[n].samples[m + p] = [thread |-> t, n |-> q[p]]
  /\ queue' \in [Threads -> Seq(Nat)]
  /\ \A u \in Threads : u # t => queue'[u] = queue[u]
  /\ Len(queue'[t]) = Len(q) - k
  /\ \A i \in 1..(Len(q) - k) : queue'[t][i] = q[k + i]
  /\ seenRetired => queue'[t] = <<>>

LEMMA DrainDoes ==
  ASSUME IInv, Drain, NEW t, t = current, NEW q, q = queue[t], NEW n, n = Len(files),
         NEW m, m = Len(files[n].samples), NEW k, k = available
  PROVE  Drained(t, q, n, m, k)
<1>1. TypeInv /\ PlaceInv /\ writer = "drain"
  BY DEF IInv, Drain
<1>2. PICK lines : lines = [i \in 1..k |-> [thread |-> t, n |-> q[i]]]
  OBVIOUS
<1>3. PICK rest : rest = SubSeq(q, k + 1, Len(q))
  OBVIOUS
<1>4. /\ files' = [files EXCEPT ![n].samples = @ \o lines]
      /\ queue' = [queue EXCEPT ![t] = IF seenRetired THEN <<>> ELSE rest]
  BY <1>2, <1>3 DEF Drain, Erases
<1>5. t \in Threads /\ q \in Seq(Nat) /\ k \in 0..Len(q) /\ (seenRetired => k = Len(q))
  BY <1>1 DEF TypeInv, PlaceInv
<1>6. files \in Seq(File) /\ n \in Nat \ {0} /\ Len(q) \in Nat
  <2>1. files \in Seq(File) /\ files # <<>>
    BY <1>1 DEF TypeInv, PlaceInv
  <2> QED
    BY <1>5, <2>1, EmptySeq
<1>7. files[n] \in File
  BY <1>6
<1>8. PICK w, c : files[n] = [samples |-> w, count |-> c] /\ w \in Seq(Sample) /\ c \in Nat \cup {Open}
  BY <1>7 DEF File
<1>9. \A i \in 1..Len(q) : q[i] \in Nat
  BY <1>5
<1>10. lines \in Seq(Sample) /\ Len(lines) = k /\ \A i \in 1..k : lines[i] = [thread |-> t, n |-> q[i]]
  <2>1. \A i \in 1..k : [thread |-> t, n |-> q[i]] \in Sample
    BY <1>5, <1>6, <1>9 DEF Sample
  <2> QED
    BY <1>2, <1>5, <2>1
<1>11. PICK z : z = w \o lines
  OBVIOUS
<1>12. /\ z \in Seq(Sample) /\ Len(w) \in Nat /\ Len(z) = Len(w) + k
       /\ \A i \in 1..Len(w) + k : z[i] = IF i <= Len(w) THEN w[i] ELSE lines[i - Len(w)]
  <2>1. /\ w \o lines \in Seq(Sample)
        /\ Len(w \o lines) = Len(w) + Len(lines)
        /\ \A i \in 1..Len(w) + Len(lines) :
             (w \o lines)[i] = IF i <= Len(w) THEN w[i] ELSE lines[i - Len(w)]
    BY <1>8, <1>10, ConcatProperties
  <2>2. Len(w) \in Nat
    BY <1>8
  <2> QED
    BY <1>10, <1>11, <2>1, <2>2
<1>13. /\ files' = [files EXCEPT ![n] = [samples |-> z, count |-> c]]
  <2>1. files[n].samples \o lines = z
    BY <1>8, <1>11
  <2>2. PICK y : y = [files[n] EXCEPT !.samples = z]
    OBVIOUS
  <2>3. y = [samples |-> z, count |-> c]
    BY <1>8, <2>2
  <2>4. files' = [files EXCEPT ![n].samples = files[n].samples \o lines]
    BY <1>4
  <2>5. files' = [files EXCEPT ![n].samples = z]
    BY <2>1, <2>4
  <2>6. files' = [files EXCEPT ![n] = [files[n] EXCEPT !.samples = z]]
    BY <2>5
  <2>7. files' = [files EXCEPT ![n] = y]
    BY <2>2, <2>6
  <2> QED
    BY <2>3, <2>7
<1>14. [samples |-> z, count |-> c] \in File
  BY <1>8, <1>12 DEF File
<1>15. /\ files' \in Seq(File) /\ Len(files') = n
       /\ files'[n] = [samples |-> z, count |-> c]
       /\ \A f \in 1..n : f # n => files'[f] = files[f]
  BY <1>6, <1>13, <1>14
<1>16. \A p \in 1..k : z[m + p] = [thread |-> t, n |-> q[p]]
  <2>1. ASSUME NEW p \in 1..k
        PROVE  z[m + p] = [thread |-> t, n |-> q[p]]
    <3>1. m = Len(w)
      BY <1>8
    <3>2. m + p \in 1..Len(w) + k /\ ~(m + p <= Len(w)) /\ (m + p) - Len(w) = p
      BY <1>5, <1>6, <1>12, <2>1, <3>1
    <3> QED
      BY <1>10, <1>12, <2>1, <3>2
  <2> QED
    BY <2>1
<1>17. \A i \in 1..m : z[i] = w[i]
  BY <1>5, <1>6, <1>8, <1>12
<1>18. /\ rest \in Seq(Nat) /\ Len(rest) = Len(q) - k
       /\ \A i \in 1..(Len(q) - k) : rest[i] = q[k + i]
  <2>1. \A i \in (k + 1)..Len(q) : q[i] \in Nat
    BY <1>5, <1>6, <1>9
  <2>2. k + 1 \in Int /\ Len(q) \in Int
    BY <1>5, <1>6
  <2>3. /\ SubSeq(q, k + 1, Len(q)) \in Seq(Nat)
        /\ Len(SubSeq(q, k + 1, Len(q))) =
             IF k + 1 <= Len(q) THEN Len(q) - (k + 1) + 1 ELSE 0
        /\ \A i \in 1..Len(q) - (k + 1) + 1 : SubSeq(q, k + 1, Len(q))[i] = q[(k + 1) + i - 1]
    BY <2>1, <2>2, SubSeqProperties
  <2>4. Len(rest) = Len(q) - k
    BY <1>3, <1>5, <1>6, <2>3
  <2>5. ASSUME NEW i \in 1..(Len(q) - k)
        PROVE  rest[i] = q[k + i]
    <3>1. i \in 1..Len(q) - (k + 1) + 1 /\ (k + 1) + i - 1 = k + i
      BY <1>5, <1>6, <2>5
    <3> QED
      BY <1>3, <2>3, <3>1
  <2> QED
    BY <1>3, <2>3, <2>4, <2>5
<1>19. seenRetired => rest = <<>>
  <2>1. seenRetired => Len(rest) = 0
    BY <1>5, <1>6, <1>18
  <2> QED
    BY <1>18, <2>1, EmptySeq
<1>20. queue' = [queue EXCEPT ![t] = rest]
  BY <1>4, <1>19
<1>21. queue' \in [Threads -> Seq(Nat)] /\ queue'[t] = rest
       /\ \A u \in Threads : u # t => queue'[u] = queue[u]
  BY <1>1, <1>5, <1>18, <1>20 DEF TypeInv
<1>22. m \in Nat /\ m = Len(w) /\ Len(files'[n].samples) = m + k
  BY <1>8, <1>12, <1>15
<1>23. \A i \in 1..m : files'[n].samples[i] = files[n].samples[i]
  BY <1>8, <1>15, <1>17
<1>24. \A p \in 1..k : files'[n].samples[m + p] = [thread |-> t, n |-> q[p]]
  BY <1>15, <1>16
<1> QED
  BY <1>5, <1>6, <1>15, <1>18, <1>19, <1>21, <1>22, <1>23, <1>24 DEF Drained

(* The drain: its lines follow what the files have, its queue keeps the rest. *)
LEMMA DrainKeepsOrder ==
  ASSUME IInv, Drain
  PROVE  OrderInv'
<1>1. PICK t, q, n, m, k :
        t = current /\ q = queue[t] /\ n = Len(files) /\ m = Len(files[n].samples) /\ k = available
  OBVIOUS
<1>2. Drained(t, q, n, m, k)
  BY <1>1, DrainDoes
<1>3. t \in Threads /\ q \in Seq(Nat) /\ n \in Nat \ {0} /\ m \in Nat /\ k \in 0..Len(q)
  BY <1>2 DEF Drained
<1>4. /\ files' \in Seq(File) /\ Len(files') = n
      /\ \A f \in 1..n : f # n => files'[f] = files[f]
      /\ Len(files'[n].samples) = m + k
      /\ \A i \in 1..m : files'[n].samples[i] = files[n].samples[i]
      /\ \A p \in 1..k : files'[n].samples[m + p] = [thread |-> t, n |-> q[p]]
  BY <1>2 DEF Drained
<1>5. /\ \A u \in Threads : u # t => queue'[u] = queue[u]
      /\ Len(queue'[t]) = Len(q) - k
      /\ \A i \in 1..(Len(q) - k) : queue'[t][i] = q[k + i]
  BY <1>2 DEF Drained
<1>6. OrderInv /\ files \in Seq(File) /\ UNCHANGED <<recorded, lost>>
  BY DEF IInv, TypeInv, Drain, writerUnchanged, threadVars
<1>7. /\ Len(q) \in Nat /\ \A i \in 1..Len(q) : q[i] \in Nat
      /\ \A f \in 1..n : Len(files[f].samples) \in Nat
  <2>1. \A f \in 1..n : files[f] \in File
    BY <1>1, <1>6
  <2> QED
    BY <1>3, <2>1 DEF File
<1>8. \A i, j \in 1..Len(q) : j < i => q[j] < q[i]
  <2>1. ASSUME NEW i \in 1..Len(q), NEW j \in 1..Len(q), j < i
        PROVE  q[j] < q[i]
    <3>1. j \in 1..(i - 1)
      BY <1>7, <2>1
    <3> QED
      BY <1>1, <1>3, <1>6, <2>1, <3>1 DEF OrderInv, QueuesRise
  <2> QED
    BY <2>1
<1>9. \A s \in Written : s.thread = t => \A i \in 1..Len(q) : s.n < q[i]
  BY <1>1, <1>3, <1>6 DEF OrderInv, QueuesRise
<1>10. ASSUME NEW f \in 1..n, NEW i \in 1..Len(files[f].samples)
      PROVE  files[f].samples[i] \in Written
  BY <1>1, <1>10 DEF Written
<1>11. FilesRise'
  <2>1. Rise(files) /\ Len(files) = n
    BY <1>1, <1>6 DEF OrderInv, FilesRise
  <2>2. k \in Nat /\ \A f \in 1..n : f # n => files'[f].samples = files[f].samples
    BY <1>3, <1>4, <1>7
  <2>3. \A p, r \in 1..k : p < r => q[p] < q[r]
    BY <1>3, <1>7, <1>8, SMTT(40)
  <2>4. \A f \in 1..n : \A i \in 1..Len(files[f].samples) :
          files[f].samples[i].thread = t => \A p \in 1..k : files[f].samples[i].n < q[p]
    BY <1>3, <1>7, <1>9, <1>10
  <2>5. PICK gs : gs = files'
    OBVIOUS
  <2>6. Rise(gs)
    <3>1. /\ Len(gs) = n
          /\ \A f \in 1..n : f # n => gs[f].samples = files[f].samples
          /\ Len(gs[n].samples) = m + k
          /\ \A i \in 1..m : gs[n].samples[i] = files[n].samples[i]
          /\ \A p \in 1..k : gs[n].samples[m + p] = [thread |-> t, n |-> q[p]]
      BY <1>4, <2>2, <2>5
    <3>2. Len(files[n].samples) = m
      BY <1>1
    <3>3. Follow(files, gs, n, m, t, q, k)
      BY <1>3, <1>7, <2>1, <2>2, <2>3, <2>4, <3>1, <3>2 DEF Follow
    <3> QED
      BY <2>1, <3>3, LinesRise
  <2> QED
    BY <2>5, <2>6 DEF FilesRise
<1>12. ASSUME NEW s
      PROVE  s \in Written' <=> s \in Written \/ \E p \in 1..k : s = [thread |-> t, n |-> q[p]]
  <2>1. ASSUME s \in Written'
        PROVE  s \in Written \/ \E p \in 1..k : s = [thread |-> t, n |-> q[p]]
    <3>1. PICK f \in 1..n : \E i \in 1..Len(files'[f].samples) : s = files'[f].samples[i]
      BY <1>4, <2>1 DEF Written
    <3>2. PICK i \in 1..Len(files'[f].samples) : s = files'[f].samples[i]
      BY <3>1
    <3>3. CASE f # n
      BY <1>4, <1>10, <3>2, <3>3
    <3>4. CASE f = n /\ i \in 1..m
      BY <1>1, <1>3, <1>4, <1>10, <3>2, <3>4
    <3>5. CASE f = n /\ i \notin 1..m
      <4>1. i - m \in 1..k /\ i = m + (i - m)
        BY <1>3, <1>4, <1>7, <3>2, <3>5
      <4> QED
        BY <1>4, <3>2, <3>5, <4>1
    <3> QED
      BY <3>3, <3>4, <3>5
  <2>2. ASSUME s \in Written
        PROVE  s \in Written'
    <3>1. PICK f \in 1..n : \E i \in 1..Len(files[f].samples) : s = files[f].samples[i]
      BY <1>1, <2>2 DEF Written
    <3>2. PICK i \in 1..Len(files[f].samples) : s = files[f].samples[i]
      BY <3>1
    <3>3. i \in 1..Len(files'[f].samples) /\ files'[f].samples[i] = files[f].samples[i]
      <4>1. CASE f # n
        BY <1>4, <3>2, <4>1
      <4>2. CASE f = n
        <5>1. i \in 1..m /\ i \in 1..(m + k)
          BY <1>1, <1>3, <1>7, <3>2, <4>2
        <5> QED
          BY <1>4, <4>2, <5>1
      <4> QED
        BY <4>1, <4>2
    <3> QED
      BY <1>4, <3>2, <3>3 DEF Written
  <2>3. ASSUME NEW p \in 1..k, s = [thread |-> t, n |-> q[p]]
        PROVE  s \in Written'
    <3>1. m + p \in 1..Len(files'[n].samples) /\ s = files'[n].samples[m + p]
      BY <1>3, <1>4, <2>3
    <3>2. n \in 1..Len(files')
      BY <1>3, <1>4
    <3> QED
      BY <3>1, <3>2 DEF Written
  <2> QED
    BY <2>1, <2>2, <2>3
<1>13. QueuesRise'
  <2>1. ASSUME NEW u \in Threads, NEW i \in 1..Len(queue'[u])
        PROVE  /\ \A j \in 1..(i - 1) : queue'[u][j] < queue'[u][i]
               /\ \A s \in Written' : s.thread = u => s.n < queue'[u][i]
    <3>1. CASE u # t
      <4>1. queue'[u] = queue[u]
        BY <1>5, <3>1
      <4>2. ASSUME NEW s \in Written', s.thread = u
            PROVE  s \in Written
        <5>1. ASSUME NEW p \in 1..k, s = [thread |-> t, n |-> q[p]]
              PROVE  FALSE
          BY <3>1, <4>2, <5>1
        <5> QED
          BY <1>12, <5>1
      <4> QED
        BY <1>6, <2>1, <4>1, <4>2 DEF OrderInv, QueuesRise
    <3>2. CASE u = t
      <4>1. i \in 1..(Len(q) - k) /\ k + i \in 1..Len(q) /\ queue'[u][i] = q[k + i]
        BY <1>3, <1>5, <1>7, <2>1, <3>2, SMTT(40)
      <4>2. ASSUME NEW j \in 1..(i - 1)
            PROVE  queue'[u][j] < queue'[u][i]
        <5>1. j \in 1..(Len(q) - k) /\ k + j \in 1..Len(q) /\ k + j < k + i
          BY <1>3, <1>7, <4>1
        <5> QED
          BY <1>5, <1>8, <3>2, <4>1, <5>1
      <4>3. ASSUME NEW s \in Written', s.thread = u
            PROVE  s.n < queue'[u][i]
        <5>1. CASE s \in Written
          BY <1>9, <3>2, <4>1, <4>3, <5>1
        <5>2. CASE \E p \in 1..k : s = [thread |-> t, n |-> q[p]]
          <6>1. PICK p \in 1..k : s = [thread |-> t, n |-> q[p]]
            BY <5>2
          <6>2. p \in 1..Len(q) /\ p < k + i
            BY <1>3, <1>7, <4>1
          <6> QED
            BY <1>8, <4>1, <6>1, <6>2
        <5> QED
          BY <1>12, <4>3, <5>1, <5>2
      <4> QED
        BY <4>2, <4>3
    <3> QED
      BY <3>1, <3>2
  <2> QED
    BY <2>1 DEF QueuesRise
<1>14. NoneMissing'
  <2>1. ASSUME NEW s \in Written' \cup Queued'
        PROVE  s \in Written \cup Queued
    <3>1. ASSUME NEW p \in 1..k, s = [thread |-> t, n |-> q[p]]
          PROVE  s \in Queued
      <4>1. p \in 1..Len(queue[t]) /\ q[p] = queue[t][p]
        BY <1>1, <1>3, <1>7
      <4> QED
        BY <1>3, <3>1, <4>1 DEF Queued
    <3>2. ASSUME s \in Queued'
          PROVE  s \in Queued
      <4>1. PICK u \in Threads : \E i \in 1..Len(queue'[u]) : s = [thread |-> u, n |-> queue'[u][i]]
        BY <3>2 DEF Queued
      <4>2. PICK i \in 1..Len(queue'[u]) : s = [thread |-> u, n |-> queue'[u][i]]
        BY <4>1
      <4>3. CASE u # t
        BY <1>5, <4>2, <4>3 DEF Queued
      <4>4. CASE u = t
        <5>1. k + i \in 1..Len(queue[t]) /\ queue'[t][i] = queue[t][k + i]
          BY <1>1, <1>3, <1>5, <1>7, <4>2, <4>4
        <5>2. s = [thread |-> t, n |-> queue[t][k + i]]
          BY <4>2, <4>4, <5>1
        <5> QED
          BY <1>3, <5>1, <5>2 DEF Queued
      <4> QED
        BY <4>3, <4>4
    <3> QED
      BY <1>12, <2>1, <3>1, <3>2
  <2>2. ASSUME NEW s \in Written \cup Queued
        PROVE  s \in Written' \cup Queued'
    <3>1. CASE s \in Written
      BY <1>12, <3>1
    <3>2. CASE s \in Queued
      <4>1. PICK u \in Threads : \E i \in 1..Len(queue[u]) : s = [thread |-> u, n |-> queue[u][i]]
        BY <3>2 DEF Queued
      <4>2. PICK i \in 1..Len(queue[u]) : s = [thread |-> u, n |-> queue[u][i]]
        BY <4>1
      <4>3. CASE u # t
        <5>1. queue'[u] = queue[u]
          BY <1>5, <4>3
        <5> QED
          BY <4>2, <5>1 DEF Queued
      <4>4. CASE u = t /\ i \in 1..k
        BY <1>1, <1>12, <4>2, <4>4
      <4>5. CASE u = t /\ i \notin 1..k
        <5>1. i - k \in 1..(Len(q) - k) /\ i = k + (i - k)
          BY <1>1, <1>3, <1>7, <4>2, <4>5
        <5>2. PICK j \in 1..(Len(q) - k) : i = k + j
          BY <5>1
        <5>3. j \in 1..Len(queue'[t]) /\ queue'[t][j] = queue[t][i]
          BY <1>1, <1>3, <1>5, <5>2
        <5>4. s = [thread |-> t, n |-> queue'[t][j]]
          BY <4>2, <4>5, <5>3
        <5> QED
          BY <1>3, <1>5, <5>3, <5>4 DEF Queued
      <4> QED
        BY <4>2, <4>3, <4>4, <4>5
    <3> QED
      BY <2>2, <3>1, <3>2
  <2>3. Recorded' = Recorded
    BY <1>6 DEF Recorded
  <2>4. Written' \cup Queued' = Written \cup Queued
    BY <2>1, <2>2
  <2> QED
    BY <1>6, <2>3, <2>4 DEF OrderInv, NoneMissing
<1> QED
  BY <1>11, <1>13, <1>14 DEF OrderInv

(* A producer that is erased has nothing queued.                            *)
LEMMA DrainStep ==
  ASSUME IInv, Drain
  PROVE  IInv'
<1>1. TypeInv /\ PlaceInv /\ OrderInv /\ StopInv /\ DropInv /\ FinalInv
  BY DEF IInv
<1>2. PICK t, q, n, m, k :
        t = current /\ q = queue[t] /\ n = Len(files) /\ m = Len(files[n].samples) /\ k = available
  OBVIOUS
<1>3. /\ t \in Threads /\ q \in Seq(Nat) /\ n \in Nat \ {0} /\ k \in 0..Len(q)
      /\ files' \in Seq(File) /\ Len(files') = n
      /\ queue' \in [Threads -> Seq(Nat)]
      /\ \A u \in Threads : u # t => queue'[u] = queue[u]
      /\ Len(queue'[t]) = Len(q) - k
      /\ \A i \in 1..(Len(q) - k) : queue'[t][i] = q[k + i]
      /\ seenRetired => queue'[t] = <<>>
  <2>1. Drained(t, q, n, m, k)
    BY <1>2, DrainDoes
  <2> QED
    BY <2>1 DEF Drained
<1>4. /\ writer = "drain" /\ writer' = "retired?" /\ pass' = pass \ {t}
      /\ producers' = IF seenRetired THEN producers \ {t} ELSE producers
      /\ UNCHANGED <<owner, running, stop, returned, dropped, stopping, seenRetired,
                     available, thread, retired, recorded, lost>>
  BY <1>2 DEF Drain, Erases, writerUnchanged, ownerVars, threadVars
<1>5. Len(q) \in Nat
  BY <1>3
<1>6. TypeInv'
  <2>1. producers' \subseteq Threads /\ pass' \subseteq Threads
    BY <1>1, <1>4 DEF TypeInv
  <2> QED
    BY <1>1, <1>3, <1>4, <2>1 DEF TypeInv, Recorded, Dropping
<1>7. PlaceInv'
  <2>1. ASSUME NEW u \in Threads
        PROVE  /\ retired[u] => thread[u] = "exited"
               /\ queue'[u] # <<>> => u \in producers'
               /\ thread[u] = "pushing" => u \in producers'
    <3>1. CASE u # t
      BY <1>1, <1>3, <1>4, <3>1 DEF PlaceInv
    <3>2. CASE u = t /\ seenRetired
      <4>1. thread[t] = "exited"
        BY <1>1, <1>2, <1>3, <1>4, <3>2 DEF PlaceInv
      <4> QED
        BY <1>3, <3>2, <4>1
    <3>3. CASE u = t /\ ~seenRetired
      <4>1. queue'[t] # <<>> => queue[t] # <<>>
        <5>1. queue[t] = <<>> => Len(q) = 0
          BY <1>2
        <5>2. queue'[t] # <<>> => Len(queue'[t]) > 0
          BY <1>3, EmptySeq
        <5> QED
          BY <1>3, <1>5, <5>1, <5>2
      <4> QED
        BY <1>1, <1>4, <3>3, <4>1 DEF PlaceInv
    <3> QED
      BY <3>1, <3>2, <3>3
  <2>2. files' # <<>>
    BY <1>3
  <2> QED
    BY <1>4, <2>1, <2>2 DEF PlaceInv
<1>8. OrderInv'
  BY DrainKeepsOrder
<1>9. StopInv'
  BY <1>1, <1>4 DEF StopInv, Joined
<1>10. DropInv'
  BY <1>1, <1>4 DEF DropInv, CountedLost
<1>11. FinalInv'
  <2>1. ASSUME stopping, NEW u \in Threads
        PROVE  u \in pass' \/ Beyond(u)'
    <3>1. CASE u # t
      <4>1. u \in pass \/ Beyond(u)
        BY <1>1, <1>4, <2>1 DEF FinalInv
      <4> QED
        BY <1>3, <1>4, <3>1, <4>1 DEF Beyond
    <3>2. CASE u = t
      <4>1. ASSUME NEW i \in 1..Len(queue'[t])
            PROVE  queue'[t][i] > returned.samples[t]
        <5>1. i \in 1..(Len(q) - k) /\ k + i \in 1..Len(q) /\ k + i > k
          BY <1>3, <1>5, <4>1
        <5>2. q[k + i] > returned.samples[t]
          BY <1>1, <1>2, <1>4, <2>1, <5>1 DEF FinalInv
        <5> QED
          BY <1>3, <5>1, <5>2
      <4> QED
        BY <1>4, <3>2, <4>1 DEF Beyond
    <3> QED
      BY <3>1, <3>2
  <2> QED
    BY <1>4, <2>1 DEF FinalInv, Joined
<1> QED
  BY <1>6, <1>7, <1>8, <1>9, <1>10, <1>11 DEF IInv

(* The samples of the files `fs`.                                           *)
LinesOf(fs) == UNION {{fs[f].samples[i] : i \in 1..Len(fs[f].samples)} : f \in 1..Len(fs)}

(* A file's count, or a new file with no line, moves no sample.             *)
LEMMA LinesStay ==
  ASSUME OrderInv, UNCHANGED <<queue, recorded, lost>>, Rise(files'), Written' = Written
  PROVE  OrderInv'
<1>1. Queued' = Queued /\ Recorded' = Recorded
  BY DEF Queued, Recorded
<1>2. QueuesRise'
  BY DEF OrderInv, QueuesRise
<1>3. NoneMissing'
  BY <1>1 DEF OrderInv, NoneMissing
<1> QED
  BY <1>2, <1>3 DEF OrderInv, FilesRise

(* The last pass is over when none of what was queued is left, and the file  *)
(* is closed with every drop there was.                                    *)
LEMMA EndPassStep ==
  ASSUME IInv, EndPass
  PROVE  IInv'
<1>1. TypeInv /\ PlaceInv /\ OrderInv /\ StopInv /\ DropInv /\ FinalInv
  BY DEF IInv
<1>2. /\ writer = "retired?" /\ pass = {}
      /\ writer' = IF stopping THEN "ended" ELSE "stop?"
      /\ UNCHANGED <<owner, running, stop, returned, dropped, stopping, pass, current, seenRetired,
                     available, producers, thread, retired, queue, recorded, lost>>
  BY DEF EndPass, Ends, writerUnchanged, ownerVars, threadVars, passVars
<1>3. PICK n : n = Len(files)
  OBVIOUS
<1>4. files \in Seq(File) /\ n \in Nat \ {0} /\ files[n] \in File
  <2>1. files \in Seq(File) /\ files # <<>>
    BY <1>1, <1>2 DEF TypeInv, PlaceInv
  <2>2. n \in Nat \ {0}
    BY <1>3, <2>1, EmptySeq
  <2> QED
    BY <1>3, <2>1, <2>2
<1>5. PICK w, c : files[n] = [samples |-> w, count |-> c] /\ w \in Seq(Sample) /\ c \in Nat \cup {Open}
  BY <1>4 DEF File
<1>6. /\ files' \in Seq(File) /\ Len(files') = n
      /\ \A f \in 1..n : files'[f].samples = files[f].samples
      /\ stopping => files'[n].count = dropped
  <2>1. CASE stopping
    <3>1. files' = [files EXCEPT ![n] = [files[n] EXCEPT !.count = dropped]]
      BY <1>3, <2>1 DEF EndPass, Ends
    <3>2. PICK y : y = [files[n] EXCEPT !.count = dropped]
      OBVIOUS
    <3>3. y = [samples |-> w, count |-> dropped]
      BY <1>5, <3>2
    <3>4. dropped \in Nat
      BY <1>1 DEF TypeInv
    <3>5. y \in File /\ y.samples = w /\ y.count = dropped
      BY <1>5, <3>3, <3>4 DEF File
    <3>6. files' = [files EXCEPT ![n] = y]
      BY <3>1, <3>2
    <3>7. files' \in Seq(File) /\ Len(files') = n /\ files'[n] = y
          /\ \A f \in 1..n : f # n => files'[f] = files[f]
      BY <1>3, <1>4, <3>5, <3>6
    <3> QED
      BY <1>5, <3>5, <3>7
  <2>2. CASE ~stopping
    BY <1>3, <1>4, <2>2 DEF EndPass, Ends
  <2> QED
    BY <2>1, <2>2
<1>7. TypeInv'
  BY <1>1, <1>2, <1>6 DEF TypeInv, Recorded, Dropping
<1>8. PlaceInv'
  <2>1. files' # <<>>
    BY <1>4, <1>6
  <2>2. writer' \notin {"available?", "drain"}
    BY <1>2
  <2> QED
    BY <1>1, <1>2, <2>1, <2>2 DEF PlaceInv
<1>9. OrderInv'
  <2>1. PICK gs : gs = files'
    OBVIOUS
  <2>2. /\ Len(gs) = n /\ Len(files) = n
        /\ \A f \in 1..n : gs[f].samples = files[f].samples
    BY <1>3, <1>6, <2>1
  <2>3. Rise(files)
    BY <1>1 DEF OrderInv, FilesRise
  <2>4. Rise(gs)
    BY <2>2, <2>3 DEF Rise
  <2>5. Written' = Written
    <3>1. LinesOf(gs) = LinesOf(files)
      BY <2>2 DEF LinesOf
    <3>2. Written = LinesOf(files) /\ Written' = LinesOf(files')
      BY DEF Written, LinesOf
    <3> QED
      BY <2>1, <3>1, <3>2
  <2> QED
    BY <1>1, <1>2, <2>1, <2>4, <2>5, LinesStay
<1>10. StopInv'
  BY <1>1, <1>2 DEF StopInv, Joined
<1>11. DropInv'
  BY <1>1, <1>2 DEF DropInv, CountedLost
<1>12. FinalInv'
  <2>1. CASE stopping
    <3>1. \A t \in Threads : Beyond(t)'
      BY <1>1, <1>2, <2>1 DEF FinalInv, Beyond
    <3>2. files'[Len(files')].count >= returned.drops - returned.earlier
      <4>1. returned.drops \in Int /\ returned.earlier \in Int /\ dropped \in Nat
        BY <1>1 DEF TypeInv
      <4>2. CountedLost \in Int
        BY <1>1, FS_CardinalityType, CountIs DEF TypeInv
      <4>3. dropped >= returned.drops - returned.earlier
        BY <1>1, <4>1, <4>2 DEF DropInv
      <4> QED
        BY <1>6, <2>1, <4>3
    <3> QED
      BY <1>2, <2>1, <3>1, <3>2 DEF FinalInv
  <2>2. CASE ~stopping
    BY <1>2, <2>2 DEF FinalInv, Joined
  <2> QED
    BY <2>1, <2>2
<1> QED
  BY <1>7, <1>8, <1>9, <1>10, <1>11, <1>12 DEF IInv

-----------------------------------------------------------------------------
(* Start(), Stop() and the return from main(). *)

(* Recording ends and the writer is told, which has not begun its last pass. *)
LEMMA StopTold ==
  ASSUME IInv, owner = "idle",
         NEW o \in {"starting", "stopping", "returning"}, owner' = o, stop' = TRUE,
         running' = FALSE \/ (o = "returning" /\ running' = running),
         returned' = IF running
                       THEN [returned EXCEPT !.samples = recorded, !.drops = CountedLost]
                       ELSE returned,
         UNCHANGED <<dropped, writer, stopping, pass, current, seenRetired, available, files,
                     producers, thread, retired, queue, recorded, lost>>
  PROVE  IInv'
<1>1. TypeInv /\ PlaceInv /\ OrderInv /\ StopInv /\ DropInv /\ FinalInv
  BY DEF IInv
<1>2. CountedLost \in Int
  BY <1>1, FS_CardinalityType, CountIs DEF TypeInv
<1>3. PICK s, d, e : returned = [samples |-> s, drops |-> d, earlier |-> e]
                     /\ s \in [Threads -> Nat] /\ d \in Int /\ e \in Int
  BY <1>1 DEF TypeInv
<1>4. recorded \in [Threads -> Nat]
  BY <1>1 DEF TypeInv
<1>5. running => returned' = [samples |-> recorded, drops |-> CountedLost, earlier |-> e]
  <2>1. PICK a, b : a = recorded /\ b = CountedLost
    OBVIOUS
  <2>2. running => returned' = [returned EXCEPT !.samples = a, !.drops = b]
    BY <2>1
  <2>3. running => returned' = [samples |-> a, drops |-> b, earlier |-> e]
    BY <1>3, <2>2
  <2> QED
    BY <2>1, <2>3
<1>6. returned' \in [samples : [Threads -> Nat], drops : Int, earlier : Int]
  BY <1>2, <1>3, <1>4, <1>5
<1>7. TypeInv'
  <2>1. lost' \subseteq Recorded' /\ IsFiniteSet(Dropping')
    BY <1>1 DEF TypeInv, Recorded, Dropping
  <2>2. owner' \in {"idle", "starting", "stopping", "opening", "opened", "returning", "returned"}
        /\ running' \in BOOLEAN /\ stop' \in BOOLEAN
    BY <1>1 DEF TypeInv
  <2> QED
    BY <1>1, <1>6, <2>1, <2>2 DEF TypeInv
<1>8. PlaceInv'
  BY <1>1 DEF PlaceInv
<1>9. OrderInv'
  BY <1>1, OrderStays
<1>10. StopInv'
  BY <1>1 DEF StopInv, Joined
<1>11. CountedLost' = CountedLost
  BY DEF CountedLost
<1>12. DropInv'
  <2>1. CASE running
    <3>1. /\ returned'.samples = recorded /\ returned'.drops = CountedLost
          /\ returned'.earlier = returned.earlier
      BY <1>3, <1>5, <2>1
    <3>2. \A t \in Threads : recorded[t] <= recorded[t]
      BY <1>4
    <3> QED
      BY <1>1, <1>2, <1>11, <3>1, <3>2 DEF DropInv
  <2>2. CASE ~running
    BY <1>1, <1>11, <2>2 DEF DropInv
  <2> QED
    BY <2>1, <2>2
<1>13. FinalInv'
  <2>1. CASE running
    BY <1>1, <2>1 DEF FinalInv, StopInv, Joined
  <2>2. CASE ~running
    BY <1>1, <2>2 DEF FinalInv, Beyond, Joined
  <2> QED
    BY <2>1, <2>2
<1> QED
  BY <1>7, <1>8, <1>9, <1>10, <1>12, <1>13 DEF IInv

(* The writer is joined, or there is none, or it is started again.          *)
LEMMA OwnerMoves ==
  ASSUME IInv, writer' = writer \/ (writer \in Joined /\ writer' = "none"), StopInv',
         owner' \in {"idle", "opening", "returned"}, running' \in BOOLEAN,
         UNCHANGED <<stop, returned, dropped, stopping, pass, current, seenRetired, available,
                     files, producers, thread, retired, queue, recorded, lost>>
  PROVE  IInv'
<1>1. TypeInv /\ PlaceInv /\ OrderInv /\ StopInv /\ DropInv /\ FinalInv
  BY DEF IInv
<1>2. TypeInv'
  BY <1>1 DEF TypeInv, Recorded, Dropping
<1>3. PlaceInv'
  BY <1>1 DEF PlaceInv
<1>4. OrderInv'
  BY <1>1, OrderStays
<1>5. DropInv'
  BY <1>1 DEF DropInv, CountedLost
<1>6. FinalInv'
  BY <1>1 DEF FinalInv, Beyond, Joined
<1> QED
  BY <1>2, <1>3, <1>4, <1>5, <1>6 DEF IInv

(* A file is opened, and the drops are counted from there.                  *)
LEMMA OpenFileStep ==
  ASSUME IInv, OpenFile
  PROVE  IInv'
<1>1. TypeInv /\ PlaceInv /\ OrderInv /\ StopInv /\ DropInv /\ FinalInv
  BY DEF IInv
<1>2. /\ owner = "opening" /\ owner' = "opened"
      /\ files' = Append(files, [samples |-> <<>>, count |-> Open])
      /\ dropped' = 0 /\ writer' = "stop?" /\ stop' = FALSE
      /\ returned' = [returned EXCEPT !.earlier = CountedLost]
      /\ UNCHANGED <<running, stopping, pass, current, seenRetired, available,
                     producers, thread, retired, queue, recorded, lost>>
  BY DEF OpenFile, ownerUnchanged, passVars, threadVars
<1>3. CountedLost \in Int /\ CountedLost' = CountedLost
  <2>1. CountedLost \in Int
    BY <1>1, FS_CardinalityType, CountIs DEF TypeInv
  <2> QED
    BY <1>2, <2>1 DEF CountedLost
<1>4. PICK s, d, e : returned = [samples |-> s, drops |-> d, earlier |-> e]
                     /\ s \in [Threads -> Nat] /\ d \in Int /\ e \in Int
  BY <1>1 DEF TypeInv
<1>5. returned' = [samples |-> s, drops |-> d, earlier |-> CountedLost]
  <2>1. PICK b : b = CountedLost
    OBVIOUS
  <2>2. returned' = [samples |-> s, drops |-> d, earlier |-> b]
    BY <1>2, <1>4, <2>1
  <2> QED
    BY <2>1, <2>2
<1>6. PICK x : x = [samples |-> <<>>, count |-> Open]
  OBVIOUS
<1>7. x \in File /\ x.samples = <<>> /\ Len(x.samples) = 0
  <2>1. <<>> \in Seq(Sample) /\ Len(<<>>) = 0
    BY EmptySeq
  <2> QED
    BY <1>6, <2>1 DEF File
<1>8. PICK n : n = Len(files)
  OBVIOUS
<1>9. PICK gs : gs = files'
  OBVIOUS
<1>10. files \in Seq(File)
  BY <1>1 DEF TypeInv
<1>11. /\ gs \in Seq(File) /\ n \in Nat /\ Len(gs) = n + 1
       /\ \A f \in 1..n : gs[f] = files[f]
       /\ gs[n + 1] = x
  BY <1>2, <1>6, <1>7, <1>8, <1>9, <1>10, AppendProperties
<1>12. TypeInv'
  <2>1. returned' \in [samples : [Threads -> Nat], drops : Int, earlier : Int]
    BY <1>3, <1>4, <1>5
  <2>2. lost' \subseteq Recorded' /\ IsFiniteSet(Dropping')
    BY <1>1, <1>2 DEF TypeInv, Recorded, Dropping
  <2>3. files' \in Seq(File)
    BY <1>9, <1>11
  <2>4. dropped' \in Nat
    BY <1>2
  <2> QED
    BY <1>1, <1>2, <2>1, <2>2, <2>3, <2>4 DEF TypeInv
<1>13. PlaceInv'
  <2>1. files' # <<>>
    BY <1>9, <1>11
  <2> QED
    BY <1>1, <1>2, <2>1 DEF PlaceInv
<1>14. OrderInv'
  <2>1. Rise(files) /\ Len(files) = n
    BY <1>1, <1>8 DEF OrderInv, FilesRise
  <2>2. ASSUME NEW f \in 1..(n + 1), NEW i \in 1..Len(gs[f].samples)
        PROVE  f \in 1..n /\ gs[f] = files[f]
    <3>1. f # n + 1
      BY <1>7, <1>11, <2>2
    <3> QED
      BY <1>11, <2>2, <3>1
  <2>3. Rise(gs)
    <3>1. ASSUME NEW f \in 1..(n + 1), NEW g \in 1..(n + 1),
                 NEW i \in 1..Len(gs[f].samples), NEW j \in 1..Len(gs[g].samples),
                 gs[f].samples[i].thread = gs[g].samples[j].thread, f < g \/ (f = g /\ i < j)
          PROVE  gs[f].samples[i].n < gs[g].samples[j].n
      <4>1. f \in 1..n /\ gs[f] = files[f] /\ g \in 1..n /\ gs[g] = files[g]
        BY <2>2
      <4> QED
        BY <2>1, <3>1, <4>1 DEF Rise
    <3> QED
      BY <1>11, <3>1 DEF Rise
  <2>4. Written' = Written
    <3>1. ASSUME NEW y \in Written'
          PROVE  y \in Written
      <4>1. PICK f \in 1..(n + 1) : \E i \in 1..Len(gs[f].samples) : y = gs[f].samples[i]
        BY <1>9, <1>11, <3>1 DEF Written
      <4>2. f \in 1..n /\ gs[f] = files[f]
        BY <2>2, <4>1
      <4> QED
        BY <2>1, <4>1, <4>2, SMTT(40) DEF Written
    <3>2. ASSUME NEW y \in Written
          PROVE  y \in Written'
      <4>1. PICK f \in 1..n : \E i \in 1..Len(files[f].samples) : y = files[f].samples[i]
        BY <2>1, <3>2 DEF Written
      <4>2. f \in 1..Len(files') /\ files'[f] = files[f]
        BY <1>9, <1>11
      <4> QED
        BY <4>1, <4>2, SMTT(40) DEF Written
    <3> QED
      BY <3>1, <3>2
  <2> QED
    BY <1>1, <1>2, <1>9, <2>3, <2>4, LinesStay
<1>15. StopInv'
  BY <1>1, <1>2 DEF StopInv, Joined
<1>16. DropInv'
  <2>1. /\ returned'.samples = returned.samples /\ returned'.drops = returned.drops
        /\ returned'.earlier = CountedLost
    BY <1>4, <1>5
  <2> QED
    BY <1>1, <1>2, <1>3, <2>1 DEF DropInv
<1>17. FinalInv'
  BY <1>2 DEF FinalInv, Joined
<1> QED
  BY <1>12, <1>13, <1>14, <1>15, <1>16, <1>17 DEF IInv

(* Recording begins.                                                        *)
LEMMA SetRunningStep ==
  ASSUME IInv, SetRunning
  PROVE  IInv'
<1>1. UNCHANGED <<stop, returned, dropped, writer, stopping, pass, current, seenRetired, available,
                  files, producers, thread, retired, queue, recorded, lost>>
  BY DEF SetRunning, ownerUnchanged, passVars, threadVars
<1>2. StopInv'
  BY <1>1 DEF IInv, StopInv, SetRunning, Joined
<1>3. owner' = "idle" /\ running' = TRUE
  BY DEF SetRunning
<1> QED
  BY <1>1, <1>2, <1>3, OwnerMoves

(* Whatever Start() and Stop() do, and the return from main().              *)
LEMMA OwnerStep ==
  ASSUME IInv,
         \/ \E then \in {"starting", "stopping"} : CallStop(then)
         \/ JoinWriter \/ OpenFails \/ OpenFile \/ SetRunning \/ Return \/ DestroyWriter
  PROVE  IInv'
<1>1. ASSUME NEW then \in {"starting", "stopping"}, CallStop(then)
      PROVE  IInv'
  <2>1. /\ owner = "idle" /\ owner' = then /\ running' = FALSE /\ stop' = TRUE
        /\ returned' = IF running
                         THEN [returned EXCEPT !.samples = recorded, !.drops = CountedLost]
                         ELSE returned
        /\ UNCHANGED <<dropped, writer, stopping, pass, current, seenRetired, available, files,
                       producers, thread, retired, queue, recorded, lost>>
    BY <1>1 DEF CallStop, ownerUnchanged, passVars, threadVars
  <2> QED
    BY <2>1, StopTold
<1>2. ASSUME Return
      PROVE  IInv'
  <2>1. /\ owner = "idle" /\ owner' = "returning" /\ running' = running /\ stop' = TRUE
        /\ returned' = IF running
                         THEN [returned EXCEPT !.samples = recorded, !.drops = CountedLost]
                         ELSE returned
        /\ UNCHANGED <<dropped, writer, stopping, pass, current, seenRetired, available, files,
                       producers, thread, retired, queue, recorded, lost>>
    BY <1>2 DEF Return, ownerUnchanged, passVars, threadVars
  <2> QED
    BY <2>1, StopTold
<1>3. ASSUME JoinWriter \/ OpenFails \/ DestroyWriter
      PROVE  IInv'
  <2>1. UNCHANGED <<running, stop, returned, dropped, stopping, pass, current, seenRetired,
                    available, files, producers, thread, retired, queue, recorded, lost>>
    BY <1>3 DEF JoinWriter, OpenFails, DestroyWriter, ownerUnchanged, passVars, threadVars
  <2>2. writer' = writer \/ (writer \in Joined /\ writer' = "none")
    BY <1>3 DEF JoinWriter, OpenFails, DestroyWriter
  <2>3. owner' \in {"idle", "opening", "returned"}
    BY <1>3 DEF JoinWriter, OpenFails, DestroyWriter
  <2>4. StopInv'
    BY <1>3, <2>1 DEF IInv, StopInv, Joined, JoinWriter, OpenFails, DestroyWriter
  <2>5. running' \in BOOLEAN
    BY <2>1 DEF IInv, TypeInv
  <2> QED
    BY <2>1, <2>2, <2>3, <2>4, <2>5, OwnerMoves
<1> QED
  BY <1>1, <1>2, <1>3, OpenFileStep, SetRunningStep

-----------------------------------------------------------------------------
(* At first nothing is recorded, and there is no file.                      *)
LEMMA InitInv == Init => IInv
<1> SUFFICES ASSUME Init PROVE IInv
  OBVIOUS
<1>1. \A t \in Threads : /\ queue[t] = <<>> /\ Len(queue[t]) = 0 /\ recorded[t] = 0
                         /\ thread[t] = "idle" /\ retired[t] = FALSE /\ returned.samples[t] = 0
  BY DEF Init
<1>2. Dropping = {} /\ Queued = {} /\ Recorded = {} /\ Written = {}
  <2>1. Dropping = {}
    BY <1>1 DEF Dropping
  <2>2. Queued = {}
    BY <1>1 DEF Queued
  <2>3. Recorded = {}
    BY <1>1 DEF Recorded
  <2>4. Written = {}
    BY DEF Init, Written
  <2> QED
    BY <2>1, <2>2, <2>3, <2>4
<1>3. IsFiniteSet({}) /\ Cardinality({}) = 0
  BY FS_EmptySet
<1>4. CountedLost = 0
  BY <1>2, <1>3, CountIs DEF Init
<1>5. TypeInv
  <2>1. queue \in [Threads -> Seq(Nat)] /\ files \in Seq(File)
    BY EmptySeq DEF Init
  <2>2. returned \in [samples : [Threads -> Nat], drops : Int, earlier : Int]
    BY DEF Init
  <2>3. lost \subseteq Recorded /\ IsFiniteSet(lost) /\ IsFiniteSet(Dropping)
    BY <1>2, <1>3 DEF Init
  <2> QED
    BY <2>1, <2>2, <2>3 DEF Init, TypeInv
<1>6. PlaceInv
  BY <1>1 DEF Init, PlaceInv
<1>7. OrderInv
  <2>1. FilesRise
    BY DEF Init, FilesRise, Rise
  <2>2. QueuesRise
    BY <1>1 DEF QueuesRise
  <2>3. NoneMissing
    BY <1>2 DEF NoneMissing
  <2> QED
    BY <2>1, <2>2, <2>3 DEF OrderInv
<1>8. StopInv
  BY DEF Init, StopInv, Joined
<1>9. DropInv
  BY <1>1, <1>4 DEF Init, DropInv
<1>10. FinalInv
  BY <1>1 DEF Init, FinalInv, Beyond, Joined
<1> QED
  BY <1>5, <1>6, <1>7, <1>8, <1>9, <1>10 DEF IInv

(* Every step, of a recording thread, of the writer or of the owner.        *)
LEMMA StepInv == IInv /\ [Next]_vars => IInv'
<1> SUFFICES ASSUME IInv, [Next]_vars
             PROVE  IInv'
  OBVIOUS
<1>1. ASSUME NEW t \in Threads, Record(t) \/ Register(t) \/ Push(t) \/ CountDrop(t) \/ Exit(t)
      PROVE  IInv'
  BY <1>1, RecordStep, RegisterStep, PushQueues, PushDrops, CountDropStep, ExitStep
<1>2. CASE Writer
  BY <1>2, ReadStopStep, BeginPassStep, ReadRetiredStep, ReadAvailableStep, DrainStep, EndPassStep
     DEF Writer
<1>3. CASE \/ \E then \in {"starting", "stopping"} : CallStop(then)
           \/ JoinWriter \/ OpenFails \/ OpenFile \/ SetRunning \/ Return \/ DestroyWriter
  BY <1>3, OwnerStep
<1>4. CASE UNCHANGED vars
  <2>1. UNCHANGED <<owner, running, stop, returned, dropped, writer, stopping, pass, current,
                    seenRetired, available, files, producers, thread, retired, queue, recorded, lost>>
    BY <1>4 DEF vars, ownerVars, writerVars, passVars, threadVars
  <2>2. StopInv'
    BY <2>1 DEF IInv, StopInv, Joined
  <2>3. TypeInv'
    BY <2>1 DEF IInv, TypeInv, Recorded, Dropping
  <2>4. PlaceInv' /\ DropInv' /\ FinalInv'
    BY <2>1 DEF IInv, PlaceInv, DropInv, CountedLost, FinalInv, Beyond, Joined
  <2>5. OrderInv'
    BY <2>1, OrderStays DEF IInv
  <2> QED
    BY <2>2, <2>3, <2>4, <2>5 DEF IInv
<1> QED
  BY <1>1, <1>2, <1>3, <1>4 DEF Next

(* The invariant: where the writer is in its pass, what its thread saw of a *)
(* producer and what the queue still has of it (aggregator.cc).             *)
THEOREM AggregatorInvariant == Spec => []IInv
<1> QED
  BY InitInv, StepInv, PTL DEF Spec

(* However its threads register, record, drop and exit, and whenever it is  *)
(* stopped and started again, each sample is dropped or goes to one file,   *)
(* once, in its thread's order (aggregator.cc:86-110).                      *)
THEOREM SamplesWrittenOnce == Spec => []EachWrittenOnce
<1>1. IInv => EachWrittenOnce
  BY DEF IInv, OrderInv, FilesRise, Rise, QueuesRise, NoneMissing, EachWrittenOnce
<1> QED
  BY <1>1, AggregatorInvariant, PTL

(* Once Stop() returned, or main() did, what was recorded before is in the  *)
(* file, and so is the count of its drops (aggregator.h:65).                *)
THEOREM StopIsComplete == Spec => []StopWritesOut
<1>1. IInv => StopWritesOut
  BY DEF IInv, StopInv, FinalInv, Beyond, Joined, StopWritesOut
<1> QED
  BY <1>1, AggregatorInvariant, PTL
=============================================================================
