----------------------------- MODULE Aggregator -----------------------------
(***************************************************************************)
(* timing/aggregator.{h,cc}: samples from any thread, one queue each, to   *)
(* one stats file at a time.  Start() and Stop() are called by one thread  *)
(* (main.cc); Record() runs on the recording threads, which may exit at    *)
(* any time; the writer thread drains every queue again and again.         *)
(*                                                                         *)
(* Record() is a step per access to what is shared: it reads running_,     *)
(* registers the thread's queue under the lock, and pushes.  DrainInto()   *)
(* holds the lock, which only a thread's registration takes besides it, so *)
(* the producers of a pass are fixed when it begins; it takes them in any  *)
(* order (the code's is theirs of registering), each in three steps,       *)
(* the reads of retired and of how much is queued, and the drain, as a     *)
(* thread may push and exit at any time.  Samples are numbered in the      *)
(* order of their Record() calls.                                          *)
(***************************************************************************)
EXTENDS Integers, Sequences, FiniteSets

CONSTANTS Threads,        \* The recording threads.
          QueueCapacity,  \* kQueueCapacity.
          MaxSamples,     \* Bound: samples each thread records.
          MaxFiles        \* Bound: calls of Start().

ASSUME AggregatorAssumption ==
  QueueCapacity \in Nat \ {0} /\ MaxSamples \in Nat /\ MaxFiles \in Nat

VARIABLES
  owner,      \* Where the caller of Start() and Stop() is.
  running,    \* running_.
  dropped,    \* dropped_.
  stop,       \* The writer's stop token.
  writer,     \* Where the writer thread is.
  stopping,   \* Its `stopping`.
  pass,       \* The producers left to this pass over them.
  current,    \* The one it looks at, or "none".
  seenRetired,\* Whether that one was retired when that was read.
  available,  \* How many samples it had queued when that was read.
  producers,  \* The threads in producers_.
  thread,     \* Per thread, where it is in Record(); "exited" once it exited.
  queue,      \* Per thread, its queue.
  retired,    \* Per thread, its producer's retired.
  recorded,   \* Per thread, how many samples it pushed or dropped.
  lost,       \* The samples that were dropped.
  files,      \* Per file, its samples and, once it is closed, its count.
  returned    \* Per thread, `recorded` when recording was stopped, how many
              \* drops were counted by then, and before the last Start().

ownerVars == <<owner, running, stop, returned>>
passVars == <<pass, current, seenRetired, available>>
writerVars == <<writer, stopping, passVars, files>>
threadVars == <<thread, retired, recorded, lost>>
vars == <<ownerVars, dropped, writerVars, producers, threadVars, queue>>

Open == -1    \* The count of a file that is not closed.

Init ==
  /\ owner = "idle" /\ running = FALSE /\ dropped = 0 /\ stop = FALSE
  /\ writer = "none" /\ stopping = FALSE /\ pass = {} /\ current = "none"
  /\ seenRetired = FALSE /\ available = 0
  /\ producers = {}
  /\ thread = [t \in Threads |-> "idle"] /\ queue = [t \in Threads |-> <<>>]
  /\ retired = [t \in Threads |-> FALSE] /\ recorded = [t \in Threads |-> 0]
  /\ lost = {}
  /\ files = <<>>
  /\ returned = [samples |-> [t \in Threads |-> 0], drops |-> 0, earlier |-> 0]

-----------------------------------------------------------------------------
(* Record(), on thread `t`; nothing happens while not running. *)

recordUnchanged == <<ownerVars, writerVars, retired>>

Record(t) ==
  /\ thread[t] = "idle" /\ recorded[t] < MaxSamples
  /\ running
  /\ thread' = [thread EXCEPT ![t] = IF t \in producers THEN "pushing" ELSE "registering"]
  /\ UNCHANGED <<dropped, producers, queue, recorded, lost, recordUnchanged>>

(* producers_mutex_ is free: the writer is not in a pass. *)
LockFree == writer \notin {"retired?", "available?", "drain"}

(* LocalProducer(), the first time. *)
Register(t) ==
  /\ thread[t] = "registering"
  /\ LockFree
  /\ producers' = producers \cup {t}
  /\ thread' = [thread EXCEPT ![t] = "pushing"]
  /\ UNCHANGED <<dropped, queue, recorded, lost, recordUnchanged>>

Push(t) ==
  /\ thread[t] = "pushing"
  /\ recorded' = [recorded EXCEPT ![t] = @ + 1]
  /\ IF Len(queue[t]) < QueueCapacity
       THEN /\ queue' = [queue EXCEPT ![t] = Append(@, recorded'[t])]
            /\ thread' = [thread EXCEPT ![t] = "idle"]
            /\ UNCHANGED lost
       ELSE /\ thread' = [thread EXCEPT ![t] = "dropping"]
            /\ lost' = lost \cup {[thread |-> t, n |-> recorded'[t]]}
            /\ UNCHANGED queue
  /\ UNCHANGED <<dropped, producers, recordUnchanged>>

CountDrop(t) ==
  /\ thread[t] = "dropping"
  /\ dropped' = dropped + 1
  /\ thread' = [thread EXCEPT ![t] = "idle"]
  /\ UNCHANGED <<producers, queue, recorded, lost, recordUnchanged>>

(* The thread exits, which retires its producer if it has one. *)
Exit(t) ==
  /\ thread[t] = "idle"
  /\ thread' = [thread EXCEPT ![t] = "exited"]
  /\ retired' = [retired EXCEPT ![t] = t \in producers]
  /\ UNCHANGED <<ownerVars, writerVars, dropped, producers, queue, recorded, lost>>

-----------------------------------------------------------------------------
(* Run() and DrainInto(), on the writer thread. *)

writerUnchanged == <<ownerVars, threadVars>>

(* `stopping` is read before the pass. *)
ReadStop ==
  /\ writer = "stop?"
  /\ stopping' = stop
  /\ writer' = "pass"
  /\ UNCHANGED <<passVars, files, dropped, producers, queue, writerUnchanged>>

BeginPass ==
  /\ writer = "pass"
  /\ pass' = producers
  /\ writer' = "retired?"
  /\ UNCHANGED <<stopping, current, seenRetired, available, files, dropped, producers, queue, writerUnchanged>>

(* What the pass takes the next producer to be: retired is read first. *)
ReadRetired ==
  /\ writer = "retired?"
  /\ \E t \in pass : current' = t /\ seenRetired' = retired[t]
  /\ writer' = "available?"
  /\ UNCHANGED <<stopping, pass, available, files, dropped, producers, queue, writerUnchanged>>

(* consume_all() reads once how much there is. *)
ReadAvailable ==
  /\ writer = "available?"
  /\ available' = Len(queue[current])
  /\ writer' = "drain"
  /\ UNCHANGED <<stopping, pass, current, seenRetired, files, dropped, producers, queue, writerUnchanged>>

ReadAfterwards == retired[current]          \* mutant: read once it is drained

Erases == seenRetired

(* A producer that is erased takes with it what its queue still has. *)
Drain ==
  LET t == current
      lines == [i \in 1..available |-> [thread |-> t, n |-> queue[t][i]]]
      rest == SubSeq(queue[t], available + 1, Len(queue[t]))
  IN /\ writer = "drain"
     /\ files' = [files EXCEPT ![Len(files)].samples = @ \o lines]
     /\ queue' = [queue EXCEPT ![t] = IF Erases THEN <<>> ELSE rest]
     /\ producers' = IF Erases THEN producers \ {t} ELSE producers
     /\ pass' = pass \ {t} /\ current' = "none"
     /\ writer' = "retired?"
     /\ UNCHANGED <<stopping, seenRetired, available, dropped, writerUnchanged>>

(* The pass is over, and perhaps it was the last. *)
EndsAtOnce == stop                          \* mutant: the token, not what was read

Ends == stopping

EndPass ==
  /\ writer = "retired?" /\ pass = {}
  /\ writer' = IF Ends THEN "ended" ELSE "stop?"
  /\ files' = IF Ends THEN [files EXCEPT ![Len(files)].count = dropped] ELSE files
  /\ UNCHANGED <<stopping, passVars, dropped, producers, queue, writerUnchanged>>

-----------------------------------------------------------------------------
(* Start() and Stop(). *)

ownerUnchanged == <<passVars, producers, threadVars, queue>>

CountedLost == Cardinality(lost) - Cardinality({t \in Threads : thread[t] = "dropping"})

(* Stop(), or Start() calling it: recording ends, the writer is told. *)
CallStop(then) ==
  /\ owner = "idle"
  /\ then = "starting" => Len(files) < MaxFiles
  /\ owner' = then
  /\ running' = FALSE /\ stop' = TRUE
  /\ returned' = IF running
                  THEN [returned EXCEPT !.samples = recorded, !.drops = CountedLost]
                  ELSE returned
  /\ UNCHANGED <<dropped, writer, stopping, files, ownerUnchanged>>

(* The writer is joined, if there is one. *)
Joined == {"none", "ended"}

JoinWriter ==
  /\ owner \in {"starting", "stopping"}
  /\ writer \in Joined
  /\ writer' = "none"
  /\ owner' = IF owner = "starting" THEN "opening" ELSE "idle"
  /\ UNCHANGED <<running, dropped, stop, returned, stopping, files, ownerUnchanged>>

(* The file cannot be opened: Start() throws. *)
OpenFails ==
  /\ owner = "opening"
  /\ owner' = "idle"
  /\ UNCHANGED <<running, dropped, stop, returned, writer, stopping, files, ownerUnchanged>>

OpenFile ==
  /\ owner = "opening"
  /\ files' = Append(files, [samples |-> <<>>, count |-> Open])
  /\ dropped' = 0
  /\ writer' = "stop?" /\ stop' = FALSE
  /\ owner' = "opened"
  /\ returned' = [returned EXCEPT !.earlier = CountedLost]
  /\ UNCHANGED <<running, stopping, ownerUnchanged>>

SetRunning ==
  /\ owner = "opened"
  /\ running' = TRUE
  /\ owner' = "idle"
  /\ UNCHANGED <<dropped, stop, returned, writer, stopping, files, ownerUnchanged>>

(* main() returns, with Stop() called, or without it if anything threw, as *)
(* with no credentials in the environment: the server, the router and its  *)
(* managers are gone, and their threads; then writer_ is destroyed, which  *)
(* stops and joins it.                                                     *)
Return ==
  /\ owner = "idle"
  /\ \A t \in Threads : thread[t] = "exited"
  /\ owner' = "returning"
  /\ stop' = TRUE
  /\ returned' = IF running
                  THEN [returned EXCEPT !.samples = recorded, !.drops = CountedLost]
                  ELSE returned
  /\ UNCHANGED <<running, dropped, writer, stopping, files, ownerUnchanged>>

DestroyWriter ==
  /\ owner = "returning"
  /\ writer \in Joined
  /\ owner' = "returned"
  /\ UNCHANGED <<running, dropped, stop, returned, writer, stopping, files, ownerUnchanged>>

-----------------------------------------------------------------------------
Writer == ReadStop \/ BeginPass \/ ReadRetired \/ ReadAvailable \/ Drain \/ EndPass

Next ==
  \/ \E t \in Threads : Record(t) \/ Register(t) \/ Push(t) \/ CountDrop(t) \/ Exit(t)
  \/ Writer
  \/ \E then \in {"starting", "stopping"} : CallStop(then)
  \/ JoinWriter \/ OpenFails \/ OpenFile \/ SetRunning
  \/ Return \/ DestroyWriter

Spec == Init /\ [][Next]_vars

-----------------------------------------------------------------------------
(* The samples of the Record() calls, those in the files and those queued. *)
Recorded == UNION {{[thread |-> t, n |-> n] : n \in 1..recorded[t]} : t \in Threads}

Written ==
  UNION {{files[f].samples[i] : i \in 1..Len(files[f].samples)} : f \in 1..Len(files)}

Queued == UNION {{[thread |-> t, n |-> queue[t][i]] : i \in 1..Len(queue[t])} : t \in Threads}

(* Each sample is dropped or written once, in the order of its thread's,   *)
(* though the thread may exit, and the writer drop its queue, right behind *)
(* the last push (aggregator.cc:95): a thread's samples rise from line to  *)
(* line and file to file and on through its queue, and they are those that *)
(* were not dropped.                                                       *)
EachWrittenOnce ==
  /\ \A f, g \in 1..Len(files) :
       \A i \in 1..Len(files[f].samples), j \in 1..Len(files[g].samples) :
         LET a == files[f].samples[i]
             b == files[g].samples[j]
         IN a.thread = b.thread /\ (f < g \/ (f = g /\ i < j)) => a.n < b.n
  /\ \A t \in Threads : \A i \in 1..Len(queue[t]) :
       /\ \A j \in 1..(i - 1) : queue[t][j] < queue[t][i]
       /\ \A s \in Written : s.thread = t => s.n < queue[t][i]
  /\ Written \cup Queued = Recorded \ lost

(* "Stops recording, writes out what is queued and closes the file"        *)
(* (aggregator.h:65): once Stop() returned, nothing recorded before it     *)
(* ended recording is queued, and the count it closed the file with has    *)
(* every drop since the file was started.  (A Record() it overtook may     *)
(* push later, and its sample then goes to the next file.)  The same of    *)
(* main(), whose threads are gone when it calls Stop(), "so the file holds *)
(* their last samples" (main.cc:61), or returns without calling it.        *)
StopWritesOut ==
  owner \in {"opening", "returned"} \/ (owner = "idle" /\ ~running /\ writer = "none") =>
    /\ \A t \in Threads : \A i \in 1..Len(queue[t]) : queue[t][i] > returned.samples[t]
    /\ files # <<>> => files[Len(files)].count >= returned.drops - returned.earlier
=============================================================================
