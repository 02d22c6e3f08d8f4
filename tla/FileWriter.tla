----------------------------- MODULE FileWriter -----------------------------
(***************************************************************************)
(* l2/file_writer.{h,cc}: the recordings of one pair.  The parser thread   *)
(* queues the messages and gaps of a subscription, a thread of the         *)
(* writer's own writes them to one file per stretch of the stream.         *)
(* Recording the pair again constructs the next writer, once the last one  *)
(* is destroyed (the manager allows one subscription per pair).            *)
(*                                                                         *)
(* A file name is <<start>> while it is recorded to and <<start, end, n>>  *)
(* once closed, in seconds; <<>> stands for no open file.  What the stream *)
(* of messages looks like is the contract of BookStream.  A consumed entry *)
(* is one step: only the writer's thread touches the files while it runs.  *)
(***************************************************************************)
EXTENDS Integers, Sequences, FiniteSets

CONSTANTS QueueCapacity,  \* kMaxQueuedMessages.
          MaxWriters,     \* Bound: how often the pair is recorded.
          MaxEntries,     \* Bound: messages and gaps received in all.
          MaxTime,        \* Bound: the clock, in seconds.
          MaxFaults       \* Bound: failed opens, writes and renames.

ASSUME FileBoundsAssumption ==
  QueueCapacity \in Nat \ {0} /\ {MaxWriters, MaxEntries, MaxTime, MaxFaults} \subseteq Nat

VARIABLES
  now,       \* The wall clock.
  disk,      \* Per file name, the writer it belongs to and its messages.
  writer,    \* Which writer this is; 0 before the first.
  thread,    \* Its thread: "none", "running", "failed" or "returned".
  stopping,  \* Whether its destructor runs.
  queue,     \* queue_: messages, and gaps (Entry nullopt).
  failed,    \* failed_.
  output,    \* path_ while output_ is open, else <<>>.
  inFile,    \* messages_in_file_.
  received,  \* How many messages were received.
  stream,    \* The stream's state: "fresh", "live" or "gap".
  epoch,     \* How many writers and gaps there were.
  faults     \* Bounds the run.

streamVars == <<received, stream, epoch>>
fileVars == <<disk, output, inFile>>
vars == <<now, writer, thread, stopping, queue, failed, fileVars, streamVars, faults>>

None == <<>>
IsGap(entry) == entry.kind = "gap"

Init ==
  /\ now = 0 /\ disk = << >> /\ writer = 0 /\ thread = "none" /\ stopping = FALSE
  /\ queue = <<>> /\ failed = FALSE /\ output = None /\ inFile = 0
  /\ received = 0 /\ stream = "fresh" /\ epoch = 0 /\ faults = 0

Put(f, x, v) == [y \in DOMAIN f \cup {x} |-> IF y = x THEN v ELSE f[y]]

Tick ==
  /\ now < MaxTime
  /\ now' = now + 1
  /\ UNCHANGED <<writer, thread, stopping, queue, failed, fileVars, streamVars, faults>>

-----------------------------------------------------------------------------
(* Files. *)

(* Open(): replaces whatever has the recording's name. *)
OpenedFile == [writer |-> writer', messages |-> <<>>]

(* Files are named by whole seconds, a tick of the model. *)
UnixTimeNow == now

(* FinalPath(): the first free of [stem]-[end].bin, [stem]-[end]-[n].bin. *)
NoneTaken(start, n) == FALSE           \* mutant: does not look for the file

Taken(start, n) == <<start, UnixTimeNow, n>> \in DOMAIN disk

FinalPath(start) ==
  <<start, UnixTimeNow, CHOOSE n \in 0..Cardinality(DOMAIN disk) :
                          /\ ~Taken(start, n)
                          /\ \A k \in 0..(n - 1) : Taken(start, k)>>

(* Close() on an open file: the rename. *)
Renamed(path) ==
  LET final == FinalPath(path[1])
  IN [name \in (DOMAIN disk \ {path}) \cup {final} |->
        IF name = final THEN disk[path] ELSE disk[name]]

-----------------------------------------------------------------------------
(* The subscription's life. *)

(* The constructor opens the first file at once. *)
Construct ==
  /\ thread = "none" /\ writer < MaxWriters
  /\ writer' = writer + 1
  /\ disk' = Put(disk, <<now>>, OpenedFile)
  /\ output' = <<now>> /\ inFile' = 0
  /\ thread' = "running" /\ failed' = FALSE
  /\ stream' = "fresh" /\ epoch' = epoch + 1
  /\ UNCHANGED <<now, stopping, queue, received, faults>>

(* The destructor, once detached, so nothing is received any more. *)
Destroy ==
  /\ thread \notin {"none", "returned"} /\ ~stopping
  /\ stopping' = TRUE
  /\ UNCHANGED <<now, writer, thread, queue, failed, fileVars, streamVars, faults>>

(* Drain() returned or failed: the thread is joined and the last file       *)
(* closed.  A failed rename leaves it under the recording name.            *)
ClosedByDestructor == IF output = None THEN disk ELSE Renamed(output)

Joined ==
  /\ stopping
  /\ thread \in {"returned", "failed"}
  /\ \/ disk' = ClosedByDestructor /\ UNCHANGED faults
     \/ output # None /\ faults < MaxFaults /\ faults' = faults + 1 /\ UNCHANGED disk
  /\ output' = None
  /\ thread' = "none" /\ stopping' = FALSE /\ queue' = <<>>
  /\ UNCHANGED <<now, writer, failed, inFile, streamVars>>

-----------------------------------------------------------------------------
(* The parser thread: PushBlocking(), see Spsc. *)

Push(entry) ==
  \/ Len(queue) < QueueCapacity /\ queue' = Append(queue, entry)
  \/ Len(queue) = QueueCapacity /\ failed /\ UNCHANGED queue

CanReceive ==
  /\ thread \in {"running", "failed"} /\ ~stopping
  /\ received + (epoch - writer) < MaxEntries

(* Receive(): a snapshot at any time, an update only of a live stream. *)
Receive(kind) ==
  /\ CanReceive
  /\ kind = "update" => stream = "live"
  /\ Push([kind |-> kind, n |-> received + 1, epoch |-> epoch])
  /\ received' = received + 1 /\ stream' = "live"
  /\ UNCHANGED <<now, writer, thread, stopping, failed, fileVars, epoch, faults>>

(* OnGap(). *)
OnGap ==
  /\ CanReceive
  /\ Push([kind |-> "gap", n |-> received, epoch |-> epoch])
  /\ stream' = "gap" /\ epoch' = epoch + 1
  /\ UNCHANGED <<now, writer, thread, stopping, failed, fileVars, received, faults>>

-----------------------------------------------------------------------------
(* The writer thread: Consume() on the first entry. *)

writerUnchanged == <<now, writer, thread, stopping, failed, streamVars, faults>>

(* A gap closes a file with messages; an empty file is kept. *)
KeepsFile == FALSE                      \* mutant: a gap closes nothing

ClosesFile == inFile > 0 /\ output # None

ConsumeGap ==
  /\ thread = "running"
  /\ queue # <<>> /\ IsGap(Head(queue))
  /\ IF ClosesFile
       THEN disk' = Renamed(output) /\ output' = None
       ELSE UNCHANGED <<disk, output>>
  /\ queue' = Tail(queue)
  /\ UNCHANGED <<writerUnchanged, inFile>>

(* A message opens a file if there is none, and is written and flushed. *)
ConsumeMessage ==
  /\ thread = "running"
  /\ queue # <<>> /\ ~IsGap(Head(queue))
  /\ LET path == IF output = None THEN <<now>> ELSE output
         file == IF output = None THEN [writer |-> writer, messages |-> <<>>] ELSE disk[output]
     IN /\ disk' = Put(disk, path, [file EXCEPT !.messages = Append(@, Head(queue))])
        /\ output' = path
        /\ inFile' = IF output = None THEN 1 ELSE inFile + 1
  /\ queue' = Tail(queue)
  /\ UNCHANGED writerUnchanged

(* Consume() throws, so the entry stays queued, failed_ is set and the     *)
(* thread ends: a gap's rename failed, which leaves the file closed under  *)
(* its recording name; or no file, or only its header, could be written;   *)
(* or a message could not.                                                 *)
HeaderFails ==
  /\ ~IsGap(Head(queue)) /\ output = None
  /\ disk' = Put(disk, <<now>>, [writer |-> writer, messages |-> <<>>])
  /\ output' = <<now>>

OtherFails ==
  /\ IsGap(Head(queue)) => ClosesFile
  /\ output' = IF IsGap(Head(queue)) THEN None ELSE output
  /\ UNCHANGED disk

ConsumeFails ==
  /\ thread = "running" /\ faults < MaxFaults
  /\ queue # <<>>
  /\ HeaderFails \/ OtherFails
  /\ thread' = "failed" /\ failed' = TRUE
  /\ faults' = faults + 1
  /\ UNCHANGED <<now, writer, stopping, queue, inFile, streamVars>>

(* Drain() returns: stopped, and the queue is empty. *)
NotDrained == TRUE                      \* mutant: stops with entries queued

Drained == queue = <<>>

Return ==
  /\ thread = "running" /\ stopping
  /\ Drained
  /\ thread' = "returned"
  /\ UNCHANGED <<now, writer, stopping, queue, failed, fileVars, streamVars, faults>>

Consume == ConsumeGap \/ ConsumeMessage \/ ConsumeFails

Next ==
  \/ Tick \/ Construct \/ Destroy \/ Joined
  \/ \E kind \in {"snapshot", "update"} : Receive(kind)
  \/ OnGap
  \/ Consume \/ Return

Spec == Init /\ [][Next]_vars

-----------------------------------------------------------------------------
IsFinal(name) == Len(name) = 3

(* "Each unbroken stretch of the stream gets a file of its own"            *)
(* (file_writer.h:35): whatever the gaps, restarts and failures, a file    *)
(* starts with a snapshot and holds consecutive messages with no gap       *)
(* between them, so replaying it yields books the venue had; and a writer  *)
(* has one file without messages at most, as "failed reconnect attempts    *)
(* leave no empty files behind" (file_writer.h:39).                        *)
FilesAreStretches ==
  /\ \A name \in DOMAIN disk :
       LET m == disk[name].messages
       IN m # <<>> =>
            /\ m[1].kind = "snapshot"
            /\ \A i \in 1..Len(m) : m[i].n = m[1].n + i - 1 /\ m[i].epoch = m[1].epoch
  /\ \A a, b \in DOMAIN disk :
       /\ disk[a].writer = disk[b].writer
       /\ disk[a].messages = <<>> /\ disk[b].messages = <<>>
       => a = b

(* "So no recording replaces another" (file_writer.h:30): a closed file     *)
(* keeps its name and its messages.                                        *)
RecordingsKept ==
  [][\A name \in DOMAIN disk :
       IsFinal(name) => name \in DOMAIN disk' /\ disk'[name] = disk[name]]_vars

(* Without a failure, every message received is on the disk or on its way  *)
(* there, in one file or another, across gaps, restarts within a second    *)
(* and destructors (spsc.h:24, file_writer.h:65).                          *)
OnDisk == UNION {{disk[name].messages[i].n : i \in 1..Len(disk[name].messages)} :
                   name \in DOMAIN disk}

Queued == {queue[i].n : i \in {j \in 1..Len(queue) : ~IsGap(queue[j])}}

NothingLost == faults = 0 => 1..received \subseteq OnDisk \cup Queued
=============================================================================
