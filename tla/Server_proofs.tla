---------------------------- MODULE Server_proofs ----------------------------
(***************************************************************************)
(* The server's safety for any number of connections, streams and command  *)
(* threads, every length of the queues and any number of commands, Books   *)
(* and heartbeats.                                                         *)
(***************************************************************************)
EXTENDS Server, SequenceTheorems, TLAPS

(* A frame's payload, a command as it is read, as it is queued and as it   *)
(* runs.                                                                   *)
Payload ==
  [kind : {"heartbeat"}]
    \cup [kind : {"info"}, id : Ids]
    \cup [kind : {"book"}, id : Ids, n : Nat]
    \cup [kind : {"reply"}, n : Nat, watching : Ids \cup {0, Same}]

Numbered == [sequence : Nat, payload : Payload]

(* What a client made of the frames it read. *)
Client == [next : Nat, reply : Nat, book : Nat, streams : SUBSET Ids,
           skipped : BOOLEAN, lost : BOOLEAN, stray : BOOLEAN]

Named == {q \in [kind : {"watch", "unwatch", "other", "forget"}, id : Ids \cup {0}, n : Nat] :
            q.kind = "watch" => q.id \in Ids}

Command == {q \in Named : q.kind # "forget"}

Running ==
  {r \in [kind : {"watch", "unwatch", "other", "forget"}, id : Ids \cup {0}, n : Nat,
          at : {"watch", "replace", "unwatch", "other", "reply", "done", "forget"},
          watching : Ids \cup {0, Same}] :
     r.at \in {"watch", "replace"} => r.id \in Ids}

ConnectionsTypeOK ==
  /\ server \in {"running", "closing", "closed", "networkEnded", "commandsEnded", "ended"}
  /\ acceptor \in {"accepting", "retrying", "closed"}
  /\ accepted \subseteq Sessions /\ sessions \subseteq Sessions
  /\ conn \in [Sessions -> {"none", "handshake", "open", "refused"}]
  /\ closed \in [Sessions -> BOOLEAN]

ReadyTypeOK ==
  /\ ready = [c \in Sessions |-> ready[c]]
  /\ \A c \in Sessions :
       conn[c] = "open" /\ ready[c] # <<>> =>
         ready[c] = <<ready[c][1]>> /\ ready[c][1] \in Command /\ ready[c][1].n = commands[c]
  /\ commands \in [Sessions -> Nat]

StrandTypeOK ==
  /\ pending \in [Sessions -> Int]
  /\ strand \in [Sessions -> Seq(Named)]
  /\ running \in [Sessions -> Seq(Running)]
  /\ \A c \in Sessions : running[c] # <<>> => running[c] = <<running[c][1]>>
  /\ watched \in [Sessions -> Ids \cup {0}]
  /\ watchers \in [Ids -> SUBSET Sessions]
  /\ live \subseteq Ids

FramesTypeOK ==
  /\ posted \in [Sessions -> Seq(Payload)]
  /\ outgoing \in [Sessions -> Seq(Numbered)]
  /\ sequence \in [Sessions -> Nat]
  /\ books \in [Sessions -> Nat]
  /\ client \in [Sessions -> Client]
  /\ published \in Nat /\ heartbeats \in Nat

TypeInv == ConnectionsTypeOK /\ ReadyTypeOK /\ StrandTypeOK /\ FramesTypeOK

(* Where a connection's Forget() is: it runs, or is queued last. *)
ForgetRuns(c) == running[c] # <<>> /\ running[c][1].at = "forget"

Ending(queue) == queue # <<>> /\ queue[Len(queue)] = Forget

ForgetsLast(queue) ==
  \A i \in 1..Len(queue) : queue[i].kind = "forget" => i = Len(queue) /\ queue[i] = Forget

(* A connection is in sessions_ from its accept until its Forget(). *)
Joined(c) ==
  /\ c \in accepted => conn[c] = "none"
  /\ c \in sessions => conn[c] \in {"handshake", "open"}
  /\ c \notin sessions /\ conn[c] \in {"handshake", "open"} => closed[c]
  /\ conn[c] \in {"none", "refused"} => ~closed[c] /\ ready[c] = <<>> /\ posted[c] = <<>>

(* Its Forget() is queued when it is closed, and nothing behind it. *)
Leaving(c) ==
  /\ c \notin sessions => strand[c] = <<>> /\ running[c] = <<>>
  /\ closed[c] /\ c \in sessions => ForgetRuns(c) \/ Ending(strand[c])
  /\ ~closed[c] => ~ForgetRuns(c) /\ ~Ending(strand[c])
  /\ ForgetsLast(strand[c])
  /\ ForgetRuns(c) => strand[c] = <<>>

(* The streams know of it only while its commands do. *)
Watching(c) ==
  /\ c \notin sessions => watched[c] = 0
  /\ \A id \in Ids :
       c \in watchers[id] =>
         \/ watched[c] = id
         \/ running[c] # <<>> /\ running[c][1].at = "replace" /\ running[c][1].id = id
  /\ running[c] # <<>> /\ running[c][1].at = "reply" =>
       running[c][1].watching \in {Same, watched[c]}
  /\ running[c] # <<>> /\ running[c][1].at \in {"watch", "replace", "unwatch", "other"} =>
       running[c][1].watching = Same

SessionInv(c) == Joined(c) /\ Leaving(c) /\ Watching(c)

(* The destructor closes every connection before it joins the pool. *)
ServerInv ==
  /\ server \in {"closed", "networkEnded", "commandsEnded", "ended"} =>
       acceptor = "closed" /\ \A c \in Sessions : c \in sessions => closed[c]
  /\ server \in {"commandsEnded", "ended"} => sessions = {}

(* The commands that wait are those that count against kMaxPendingCommands.*)
CommandsWaiting(c) == IF Ending(strand[c]) THEN Len(strand[c]) - 1 ELSE Len(strand[c])

CommandsRunning(c) == IF running[c] # <<>> /\ ~ForgetRuns(c) THEN 1 ELSE 0

PendingInv(c) ==
  /\ pending[c] = CommandsWaiting(c) + CommandsRunning(c) /\ pending[c] <= MaxPending
  /\ Len(outgoing[c]) <= MaxBacklog
  /\ conn[c] # "open" => commands[c] = 0

(* The payloads of some frames. *)
Payloads(frames) == [i \in 1..Len(frames) |-> frames[i].payload]

(* Some payloads hold the replies numbered from the one after `from` up to *)
(* `upto`, in order.                                                       *)
InTurn(payloads, from, upto) ==
  /\ from <= upto
  /\ \A i, j \in 1..Len(payloads) :
       payloads[i].kind = "reply" /\ payloads[j].kind = "reply" /\ i < j =>
         payloads[i].n < payloads[j].n
  /\ \A i \in 1..Len(payloads) :
       payloads[i].kind = "reply" => payloads[i].n \in (from + 1)..upto
  /\ \A n \in (from + 1)..upto :
       \E i \in 1..Len(payloads) : payloads[i].kind = "reply" /\ payloads[i].n = n

(* The commands read are those answered, the one that runs and those that  *)
(* wait, numbered in that order.                                           *)
Answering(c) ==
  IF running[c] # <<>> /\ running[c][1].at \notin {"done", "forget"} THEN 1 ELSE 0

Answered(c) == CommandsRead(c) - Len(strand[c]) - Answering(c)

Asked(c) ==
  /\ Answering(c) = 1 => running[c][1].n = Answered(c) + 1
  /\ \A i \in 1..Len(strand[c]) : strand[c][i].n = Answered(c) + Answering(c) + i

RepliesComing(c) ==
  \E n \in client[c].reply..Answered(c) :
    /\ InTurn(Payloads(outgoing[c]), client[c].reply, n)
    /\ InTurn(posted[c], n, Answered(c))

AnswerInv(c) == ~closed[c] => Asked(c) /\ RepliesComing(c)

(* The streams a client watches once it read a payload, or the first n of  *)
(* some, and whether each Book among those is of one it watches by then.   *)
Gives(p, id) == (p.kind = "info" /\ p.id = id) \/ (p.kind = "reply" /\ p.watching = id)

Takes(p, id) == p.kind = "reply" /\ p.watching # Same /\ p.watching # id

After(streams, p) ==
  {id \in Ids : Gives(p, id) \/ (id \in streams /\ ~Takes(p, id))}

Watched(streams, payloads, n) ==
  {id \in Ids :
     \/ id \in streams /\ \A j \in 1..n : ~Takes(payloads[j], id)
     \/ \E i \in 1..n :
          Gives(payloads[i], id) /\ \A j \in (i + 1)..n : ~Takes(payloads[j], id)}

NoneStrays(streams, payloads) ==
  \A i \in 1..Len(payloads) :
    payloads[i].kind = "book" => payloads[i].id \in Watched(streams, payloads, i - 1)

(* The client watches by then the stream of every Book on its way, and     *)
(* every stream that may send it the next one.                             *)
WatchedThen(c) == Watched(client[c].streams, Payloads(outgoing[c]), Len(outgoing[c]))

StrayInv(c) ==
  /\ ~client[c].stray
  /\ ~closed[c] =>
       /\ NoneStrays(client[c].streams, Payloads(outgoing[c]))
       /\ NoneStrays(WatchedThen(c), posted[c])
       /\ \A id \in Ids :
            c \in watchers[id] => id \in Watched(WatchedThen(c), posted[c], Len(posted[c]))

IInv ==
  /\ TypeInv /\ ServerInv
  /\ \A c \in Sessions : SessionInv(c) /\ PendingInv(c) /\ AnswerInv(c) /\ StrayInv(c)

-----------------------------------------------------------------------------
(* Close() touches the connections it closes only. *)
LEMMA CloseEffect ==
  ASSUME TypeInv, NEW cs, Close(cs)
  PROVE  /\ closed' \in [Sessions -> BOOLEAN] /\ strand' \in [Sessions -> Seq(Named)]
         /\ outgoing' \in [Sessions -> Seq(Numbered)]
         /\ client' \in [Sessions -> Client]
         /\ \A c \in Sessions :
              /\ closed'[c] = (closed[c] \/ c \in cs)
              /\ ~closed[c] /\ c \in cs =>
                   /\ strand'[c] = Append(strand[c], Forget)
                   /\ outgoing'[c] = <<>> /\ client'[c] = NewClient
              /\ closed[c] \/ c \notin cs =>
                   strand'[c] = strand[c] /\ outgoing'[c] = outgoing[c] /\ client'[c] = client[c]
<1>1. Forget \in Named
  BY DEF Forget, Named
<1>2. NewClient \in Client
  BY DEF NewClient, Client
<1>3. /\ closed \in [Sessions -> BOOLEAN] /\ strand \in [Sessions -> Seq(Named)]
      /\ outgoing \in [Sessions -> Seq(Numbered)]
      /\ client \in [Sessions -> Client]
  BY DEF TypeInv, ConnectionsTypeOK, StrandTypeOK, FramesTypeOK
<1>4. /\ closed' = [c \in Sessions |-> closed[c] \/ c \in cs]
      /\ strand' = [c \in Sessions |-> IF c \in cs /\ ~closed[c] THEN Append(strand[c], Forget)
                                                               ELSE strand[c]]
      /\ outgoing' = [c \in Sessions |-> IF c \in cs /\ ~closed[c] THEN <<>> ELSE outgoing[c]]
      /\ client' = [c \in Sessions |-> IF c \in cs /\ ~closed[c] THEN NewClient ELSE client[c]]
  BY DEF Close, WithForget
<1> HIDE DEF NewClient, Forget, Named, Payload
<1>5. \A c \in Sessions : Append(strand[c], Forget) \in Seq(Named)
  BY ONLY <1>1, <1>3
<1>6. closed' \in [Sessions -> BOOLEAN]
  BY ONLY <1>3, <1>4
<1>7. strand' \in [Sessions -> Seq(Named)]
  BY ONLY <1>3, <1>4, <1>5
<1>8. outgoing' \in [Sessions -> Seq(Numbered)]
  <2>1. << >> \in Seq(Numbered)
    OBVIOUS
  <2>2. QED
    BY ONLY <1>3, <1>4, <2>1
<1>9. client' \in [Sessions -> Client]
  BY ONLY <1>2, <1>3, <1>4
<1>10. QED
  BY ONLY <1>4, <1>6, <1>7, <1>8, <1>9

(* Enqueue() does nothing on a closed connection; else it drops a Book,    *)
(* closes the connection, or queues the frame.                             *)
LEMMA EnqueueEffect ==
  ASSUME TypeInv, NEW c \in Sessions, NEW payload \in Payload, Enqueue(c, payload)
  PROVE  \/ closed[c] /\ UNCHANGED <<outgoing, sequence, closed, strand, client>>
         \/ /\ ~closed[c] /\ payload.kind = "book"
            /\ sequence' = [sequence EXCEPT ![c] = @ + 1]
            /\ UNCHANGED <<outgoing, closed, strand, client>>
         \/ ~closed[c] /\ Close({c}) /\ UNCHANGED sequence
         \/ /\ ~closed[c] /\ Len(outgoing[c]) < MaxBacklog
            /\ outgoing' = [outgoing EXCEPT ![c] = Append(@, Frame(sequence[c], payload))]
            /\ sequence' = [sequence EXCEPT ![c] = @ + 1]
            /\ UNCHANGED <<closed, strand, client>>
<1>1. Len(outgoing[c]) \in Nat /\ MaxQueued \in Nat
  BY ServerAssumption DEF TypeInv, FramesTypeOK
<1>2. CASE closed[c]
  BY <1>2 DEF Enqueue
<1>3. CASE ~closed[c] /\ Drops(outgoing[c], payload)
  BY <1>3 DEF Enqueue, Drops, DroppedNumbers
<1>4. CASE ~closed[c] /\ ~Drops(outgoing[c], payload) /\ Overflows(outgoing[c], payload)
  BY <1>4 DEF Enqueue
<1>5. CASE ~closed[c] /\ ~Drops(outgoing[c], payload) /\ ~Overflows(outgoing[c], payload)
  <2>1. Len(outgoing[c]) < MaxBacklog
    BY <1>1, <1>5 DEF Drops, Overflows, MaxBacklog
  <2>2. QED
    BY <1>5, <2>1 DEF Enqueue
<1>6. QED
  BY <1>2, <1>3, <1>4, <1>5

(* Enqueue() keeps the types, and touches its own connection only. *)
LEMMA EnqueueType ==
  ASSUME TypeInv, NEW c \in Sessions, NEW payload \in Payload, Enqueue(c, payload)
  PROVE  /\ closed' \in [Sessions -> BOOLEAN] /\ strand' \in [Sessions -> Seq(Named)]
         /\ outgoing' \in [Sessions -> Seq(Numbered)]
         /\ sequence' \in [Sessions -> Nat]
         /\ client' \in [Sessions -> Client]
         /\ \A d \in Sessions : d # c =>
              /\ closed'[d] = closed[d] /\ strand'[d] = strand[d]
              /\ outgoing'[d] = outgoing[d] /\ sequence'[d] = sequence[d]
              /\ client'[d] = client[d]
<1>1. /\ closed \in [Sessions -> BOOLEAN] /\ strand \in [Sessions -> Seq(Named)]
      /\ outgoing \in [Sessions -> Seq(Numbered)]
      /\ client \in [Sessions -> Client]
      /\ sequence \in [Sessions -> Nat]
  BY DEF TypeInv, ConnectionsTypeOK, StrandTypeOK, FramesTypeOK
<1>2. CASE Close({c}) /\ UNCHANGED sequence
  <2>1. sequence' \in [Sessions -> Nat] /\ sequence' = sequence
    BY <1>1, <1>2
  <2>2. \A d \in Sessions : d # c => d \notin {c}
    OBVIOUS
  <2>3. \A d \in Sessions : closed'[d] = (closed[d] \/ d \in {c})
    BY <1>2, CloseEffect
  <2>4. \A d \in Sessions : d # c => closed'[d] = closed[d]
    BY ONLY <1>1, <2>2, <2>3
  <2>5. \A d \in Sessions : d # c =>
          strand'[d] = strand[d] /\ outgoing'[d] = outgoing[d] /\ client'[d] = client[d]
    BY <1>2, <2>2, CloseEffect
  <2>6. /\ closed' \in [Sessions -> BOOLEAN] /\ strand' \in [Sessions -> Seq(Named)]
        /\ outgoing' \in [Sessions -> Seq(Numbered)] /\ client' \in [Sessions -> Client]
    BY <1>2, CloseEffect
  <2>7. QED
    BY <2>1, <2>4, <2>5, <2>6
<1>3. CASE UNCHANGED <<outgoing, closed, strand, client>>
           /\ sequence' \in {sequence, [sequence EXCEPT ![c] = @ + 1]}
  <2>1. sequence[c] + 1 \in Nat
    BY ONLY <1>1
  <2>2. sequence' \in [Sessions -> Nat] /\ \A d \in Sessions : d # c => sequence'[d] = sequence[d]
    BY ONLY <1>1, <1>3, <2>1
  <2>3. QED
    BY ONLY <1>1, <1>3, <2>2
<1>4. CASE /\ outgoing' = [outgoing EXCEPT ![c] = Append(@, Frame(sequence[c], payload))]
           /\ sequence' = [sequence EXCEPT ![c] = @ + 1]
           /\ UNCHANGED <<closed, strand, client>>
  <2>1. Frame(sequence[c], payload) \in Numbered
    BY <1>1 DEF Frame, Numbered
  <2>2. Append(outgoing[c], Frame(sequence[c], payload)) \in Seq(Numbered)
    BY ONLY <1>1, <2>1
  <2>3. sequence[c] + 1 \in Nat
    BY ONLY <1>1
  <2>4. /\ outgoing' \in [Sessions -> Seq(Numbered)]
        /\ \A d \in Sessions : d # c => outgoing'[d] = outgoing[d]
    BY ONLY <1>1, <1>4, <2>2
  <2>5. sequence' \in [Sessions -> Nat] /\ \A d \in Sessions : d # c => sequence'[d] = sequence[d]
    BY ONLY <1>1, <1>4, <2>3
  <2>6. QED
    BY ONLY <1>1, <1>4, <2>4, <2>5
<1>5. QED
  BY <1>2, <1>3, <1>4, EnqueueEffect

(* Every step keeps the types of what accepts and closes. *)
LEMMA ConnectionsTypeStep == TypeInv /\ [Next]_vars => ConnectionsTypeOK'
<1> SUFFICES ASSUME TypeInv, [Next]_vars PROVE ConnectionsTypeOK'
  OBVIOUS
<1>a. ConnectionsTypeOK
  BY DEF TypeInv
<1>b. ASSUME UNCHANGED <<server, acceptor, accepted, sessions, conn>>, closed' \in [Sessions -> BOOLEAN]
      PROVE  ConnectionsTypeOK'
  BY <1>a, <1>b DEF ConnectionsTypeOK
<1>1. ASSUME NEW c \in Sessions,
             Connects(c) \/ AcceptFails(c) \/ AcceptHandler(c)
      PROVE  ConnectionsTypeOK'
  BY <1>a, <1>1 DEF ConnectionsTypeOK, Connects, AcceptFails, AcceptHandler, acceptUnchanged
<1>2. ASSUME NEW c \in Sessions, HandshakeDone(c) \/ HandshakeHandler(c)
      PROVE  ConnectionsTypeOK'
  BY <1>a, <1>2 DEF ConnectionsTypeOK, HandshakeDone, HandshakeHandler, sessionUnchanged
<1>3. ASSUME NEW c \in Sessions, ConnectionFails(c)
      PROVE  ConnectionsTypeOK'
  BY <1>b, <1>3, CloseEffect DEF ConnectionFails, sessionUnchanged
<1>4. ASSUME NEW c \in Sessions, (\E command \in Commands : CommandArrives(c, command)) \/ WriteHandler(c)
      PROVE  ConnectionsTypeOK'
  BY <1>a, <1>b, <1>4 DEF CommandArrives, WriteHandler, sessionUnchanged, ConnectionsTypeOK
<1>5. ASSUME NEW c \in Sessions, ReadHandler(c)
      PROVE  ConnectionsTypeOK'
  <2>1. closed' = closed \/ Close({c})
    BY <1>5 DEF ReadHandler
  <2>2. closed' \in [Sessions -> BOOLEAN]
    BY <1>a, <2>1, CloseEffect DEF ConnectionsTypeOK
  <2>3. QED
    BY <1>b, <1>5, <2>2 DEF ReadHandler, sessionUnchanged
<1>6. ASSUME NEW c \in Sessions, HeartbeatHandler(c)
      PROVE  ConnectionsTypeOK'
  <2>1. Heartbeat \in Payload
    BY DEF Heartbeat, Payload
  <2>2. QED
    BY <1>b, <1>6, <2>1, EnqueueType DEF HeartbeatHandler, sessionUnchanged
<1>7. ASSUME NEW c \in Sessions, EnqueueHandler(c)
      PROVE  ConnectionsTypeOK'
  <2>1. Head(posted[c]) \in Payload
    BY <1>7 DEF EnqueueHandler, TypeInv, FramesTypeOK
  <2>2. QED
    BY <1>b, <1>7, <2>1, EnqueueType DEF EnqueueHandler, sessionUnchanged
<1>8. ASSUME NEW c \in Sessions, Strand(c)
      PROVE  ConnectionsTypeOK'
  <2>1. UNCHANGED <<server, acceptor, accepted, conn, closed>> /\ sessions' \in {sessions, sessions \ {c}}
    BY <1>8 DEF Strand, Begin, RunWatch, RunReplace, RunUnwatch, RunReply, RunDone, RunForget,
                strandUnchanged, socketVars
  <2>2. QED
    BY <1>a, <2>1 DEF ConnectionsTypeOK
<1>9. CASE RetryAccept \/ Destroy \/ NetworkEnds \/ CommandsEnd \/ DropReplies
  BY <1>a, <1>9 DEF ConnectionsTypeOK, RetryAccept, Destroy, NetworkEnds, CommandsEnd, DropReplies,
                    acceptUnchanged, destructorUnchanged, closesNone
<1>10. CASE \E id \in Ids : Publish(id) \/ EndStream(id)
  BY <1>a, <1>10 DEF ConnectionsTypeOK, Publish, EndStream, streamUnchanged, acceptVars, socketVars
<1>11. CASE StopHandler
  <2>1. closed' \in [Sessions -> BOOLEAN]
    BY <1>11, CloseEffect DEF StopHandler
  <2>2. QED
    BY <1>a, <1>11, <2>1 DEF ConnectionsTypeOK, StopHandler, destructorUnchanged
<1>12. CASE UNCHANGED vars
  BY <1>a, <1>12 DEF ConnectionsTypeOK, vars, acceptVars, socketVars
<1>13. QED
  BY <1>1, <1>2, <1>3, <1>4, <1>5, <1>6, <1>7, <1>8, <1>9, <1>10, <1>11, <1>12
     DEF Next, Handler, Destructor

-----------------------------------------------------------------------------
(* What a command that runs may become. *)
LEMMA RunsType ==
  ASSUME StrandTypeOK, NEW c \in Sessions, running[c] # <<>>
  PROVE  /\ running[c] = <<running[c][1]>> /\ running[c][1] \in Running
         /\ Len(running[c]) = 1
<1>1. running[c] = <<running[c][1]>>
  BY DEF StrandTypeOK
<1>2. running \in [Sessions -> Seq(Running)]
  BY DEF StrandTypeOK
<1>3. running[c] \in Seq(Running)
  BY ONLY <1>2, c \in Sessions
<1>4. PICK r : r = running[c][1]
  OBVIOUS
<1>5. Len(<<r>>) = 1
  OBVIOUS
<1>6. Len(running[c]) = 1
  BY ONLY <1>1, <1>4, <1>5
<1>7. running[c][1] \in Running
  BY ONLY <1>3, <1>6
<1>8. QED
  BY ONLY <1>1, <1>6, <1>7

(* A strand that runs a command, or one further on, keeps the types. *)
LEMMA RunningPut ==
  ASSUME StrandTypeOK, NEW c \in Sessions, NEW r \in Running,
         running' = [running EXCEPT ![c] = <<r>>]
  PROVE  /\ running' \in [Sessions -> Seq(Running)]
         /\ running'[c] = <<r>> /\ running'[c] # <<>> /\ running'[c][1] = r
         /\ \A d \in Sessions : d # c => running'[d] = running[d]
         /\ \A d \in Sessions : running'[d] # <<>> => running'[d] = <<running'[d][1]>>
<1>1. running \in [Sessions -> Seq(Running)]
  BY DEF StrandTypeOK
<1>2. \A d \in Sessions : running[d] # <<>> => running[d] = <<running[d][1]>>
  BY DEF StrandTypeOK
<1>3. <<r>> \in Seq(Running) /\ <<r>> # <<>> /\ <<r>>[1] = r
  OBVIOUS
<1>4. running' \in [Sessions -> Seq(Running)] /\ running'[c] = <<r>>
  BY ONLY <1>1, <1>3, running' = [running EXCEPT ![c] = <<r>>], c \in Sessions
<1>5. \A d \in Sessions : d # c => running'[d] = running[d]
  BY ONLY <1>1, running' = [running EXCEPT ![c] = <<r>>], c \in Sessions
<1>6. ASSUME NEW d \in Sessions, running'[d] # <<>>
      PROVE  running'[d] = <<running'[d][1]>>
  <2>1. CASE d = c
    BY <1>3, <1>4, <2>1
  <2>2. CASE d # c
    <3>1. running'[d] = running[d] /\ running[d] # <<>>
      BY ONLY <1>5, <1>6, <2>2
    <3>2. running[d] = <<running[d][1]>>
      BY ONLY <1>2, <3>1, d \in Sessions
    <3>3. QED
      BY ONLY <3>1, <3>2
  <2>3. QED
    BY <2>1, <2>2
<1>7. QED
  BY <1>3, <1>4, <1>5, <1>6

(* A strand whose command ended keeps the types. *)
LEMMA RunningEmptied ==
  ASSUME StrandTypeOK, NEW c \in Sessions, running' = [running EXCEPT ![c] = <<>>]
  PROVE  /\ running' \in [Sessions -> Seq(Running)]
         /\ running'[c] = <<>>
         /\ \A d \in Sessions : d # c => running'[d] = running[d]
         /\ \A d \in Sessions : running'[d] # <<>> => running'[d] = <<running'[d][1]>>
<1>1. running \in [Sessions -> Seq(Running)]
  BY DEF StrandTypeOK
<1>2. \A d \in Sessions : running[d] # <<>> => running[d] = <<running[d][1]>>
  BY DEF StrandTypeOK
<1>3. << >> \in Seq(Running)
  OBVIOUS
<1>4. running' \in [Sessions -> Seq(Running)] /\ running'[c] = <<>>
  BY ONLY <1>1, <1>3, running' = [running EXCEPT ![c] = <<>>], c \in Sessions
<1>5. \A d \in Sessions : d # c => running'[d] = running[d]
  BY ONLY <1>1, running' = [running EXCEPT ![c] = <<>>], c \in Sessions
<1>6. ASSUME NEW d \in Sessions, running'[d] # <<>>
      PROVE  running'[d] = <<running'[d][1]>>
  <2>1. running'[d] = running[d] /\ running[d] # <<>>
    BY ONLY <1>4, <1>5, <1>6
  <2>2. running[d] = <<running[d][1]>>
    BY ONLY <1>2, <2>1, d \in Sessions
  <2>3. QED
    BY ONLY <2>1, <2>2
<1>7. QED
  BY <1>4, <1>5, <1>6

(* The commands' own part of each step of the strand. *)
LEMMA BeginEffect ==
  ASSUME TypeInv, NEW c \in Sessions, Begin(c)
  PROVE  LET first == Head(strand[c])
             r == [kind |-> first.kind, id |-> first.id, n |-> first.n, at |-> first.kind,
                   watching |-> Same]
         IN /\ running[c] = <<>> /\ strand[c] # <<>> /\ first \in Named /\ r \in Running
            /\ running' = [running EXCEPT ![c] = <<r>>]
            /\ strand' \in [Sessions -> Seq(Named)] /\ strand'[c] = Tail(strand[c])
            /\ \A d \in Sessions : d # c => strand'[d] = strand[d]
<1>1. strand \in [Sessions -> Seq(Named)]
  BY DEF TypeInv, StrandTypeOK
<1>2. running[c] = <<>> /\ strand[c] # <<>>
  BY DEF Begin
<1>3. Head(strand[c]) \in Named /\ Tail(strand[c]) \in Seq(Named)
  BY ONLY <1>1, <1>2, c \in Sessions
<1>4. PICK first, rest : first = Head(strand[c]) /\ rest = Tail(strand[c])
  OBVIOUS
<1>5. NextCommand(strand[c])[1] = first /\ NextCommand(strand[c])[2] = rest
  BY <1>4 DEF NextCommand
<1>6. /\ strand' = [strand EXCEPT ![c] = rest]
      /\ running' = [running EXCEPT ![c] =
           <<[kind |-> first.kind, id |-> first.id, n |-> first.n, at |-> first.kind,
              watching |-> Same]>>]
  BY <1>5 DEF Begin
<1>7. [kind |-> first.kind, id |-> first.id, n |-> first.n, at |-> first.kind,
       watching |-> Same] \in Running
  BY <1>3, <1>4 DEF Named, Running
<1>8. /\ strand' \in [Sessions -> Seq(Named)] /\ strand'[c] = rest
      /\ \A d \in Sessions : d # c => strand'[d] = strand[d]
  BY ONLY <1>1, <1>3, <1>4, <1>6, c \in Sessions
<1>9. QED
  BY ONLY <1>2, <1>3, <1>4, <1>6, <1>7, <1>8

(* The places a command goes to once it began. *)
LEMMA GoesOn ==
  ASSUME TypeInv, NEW c \in Sessions, running[c] # <<>>,
         NEW at \in {"replace", "reply", "done"}, At(c, at),
         at = "replace" => running[c][1].id \in Ids
  PROVE  \E r \in Running :
           /\ running' = [running EXCEPT ![c] = <<r>>]
           /\ r.at = at /\ r.watching = running[c][1].watching
           /\ r.kind = running[c][1].kind /\ r.id = running[c][1].id /\ r.n = running[c][1].n
<1>1. PICK q : q = running[c][1]
  OBVIOUS
<1>2. q \in Running
  BY <1>1, RunsType DEF TypeInv
<1>3. PICK r : r = [kind |-> q.kind, id |-> q.id, n |-> q.n, at |-> at, watching |-> q.watching]
  OBVIOUS
<1>4. r \in Running
  BY <1>1, <1>2, <1>3 DEF Running
<1>5. [q EXCEPT !.at = at] = r
  BY <1>2, <1>3 DEF Running
<1>6. running \in [Sessions -> Seq(Running)]
  BY DEF TypeInv, StrandTypeOK
<1>7. running' = [running EXCEPT ![c] = <<[q EXCEPT !.at = at]>>]
  BY <1>1, <1>6 DEF At
<1>8. running' = [running EXCEPT ![c] = <<r>>]
  BY ONLY <1>5, <1>7
<1>9. QED
  BY ONLY <1>1, <1>3, <1>4, <1>8

(* A command's reply is next, and says what is watched from then on. *)
LEMMA RepliesNext ==
  ASSUME TypeInv, NEW c \in Sessions, running[c] # <<>>, NEW w \in Ids \cup {0}, Replies(c, w)
  PROVE  \E r \in Running :
           /\ running' = [running EXCEPT ![c] = <<r>>]
           /\ r.at = "reply" /\ r.watching = w
           /\ r.kind = running[c][1].kind /\ r.id = running[c][1].id /\ r.n = running[c][1].n
<1>1. PICK q : q = running[c][1]
  OBVIOUS
<1>2. q \in Running
  BY <1>1, RunsType DEF TypeInv
<1>3. PICK r : r = [kind |-> q.kind, id |-> q.id, n |-> q.n, at |-> "reply", watching |-> w]
  OBVIOUS
<1>4. r \in Running
  BY <1>1, <1>2, <1>3 DEF Running
<1>5. [q EXCEPT !.at = "reply", !.watching = w] = r
  <2>1. PICK k, i, n, a, v : q = [kind |-> k, id |-> i, n |-> n, at |-> a, watching |-> v]
    BY <1>2 DEF Running
  <2>2. PICK u : u = [q EXCEPT !.at = "reply"]
    OBVIOUS
  <2>3. u = [kind |-> k, id |-> i, n |-> n, at |-> "reply", watching |-> v]
    BY ONLY <2>1, <2>2
  <2>4. [u EXCEPT !.watching = w] = [kind |-> k, id |-> i, n |-> n, at |-> "reply", watching |-> w]
    BY ONLY <2>3
  <2>5. [q EXCEPT !.at = "reply", !.watching = w] = [u EXCEPT !.watching = w]
    BY ONLY <2>1, <2>2
  <2>6. QED
    BY ONLY <1>3, <2>1, <2>4, <2>5
<1>6. running \in [Sessions -> Seq(Running)]
  BY DEF TypeInv, StrandTypeOK
<1>7. running' = [running EXCEPT ![c] = <<[q EXCEPT !.at = "reply", !.watching = w]>>]
  BY <1>1, <1>6 DEF Replies
<1>8. running' = [running EXCEPT ![c] = <<r>>]
  BY ONLY <1>5, <1>7
<1>9. QED
  BY ONLY <1>1, <1>3, <1>4, <1>8

(* Unwatch() takes the connection from one stream only. *)
LEMMA UnwatchedEffect ==
  ASSUME TypeInv, NEW c \in Sessions, NEW id \in Ids \cup {0}, watchers' = Unwatched(id, c)
  PROVE  /\ watchers' \in [Ids -> SUBSET Sessions]
         /\ \A i \in Ids : watchers'[i] = IF i = id THEN watchers[i] \ {c} ELSE watchers[i]
<1>1. watchers \in [Ids -> SUBSET Sessions]
  BY DEF TypeInv, StrandTypeOK
<1>2. 0 \notin Ids
  BY ServerAssumption
<1>3. QED
  BY <1>1, <1>2 DEF Unwatched

(* Every step keeps the types of what completed and was not handled. *)
LEMMA ReadyTypeStep == TypeInv /\ [Next]_vars => ReadyTypeOK'
<1> SUFFICES ASSUME TypeInv, [Next]_vars PROVE ReadyTypeOK'
  OBVIOUS
<1>a. ReadyTypeOK /\ conn \in [Sessions -> {"none", "handshake", "open", "refused"}]
  BY DEF TypeInv, ConnectionsTypeOK
<1>b. ASSUME UNCHANGED <<ready, commands, conn>> PROVE ReadyTypeOK'
  BY <1>a, <1>b DEF ReadyTypeOK
<1>c. ASSUME NEW c \in Sessions, NEW r, ready' = [ready EXCEPT ![c] = r],
             r = <<>> \/ conn'[c] # "open", UNCHANGED commands,
             \A d \in Sessions : d # c => conn'[d] = conn[d]
      PROVE  ReadyTypeOK'
  <2>1. ready' = [d \in Sessions |-> ready'[d]] /\ ready'[c] = r
    BY <1>a, <1>c DEF ReadyTypeOK
  <2>2. \A d \in Sessions : d # c => ready'[d] = ready[d]
    BY <1>a, <1>c DEF ReadyTypeOK
  <2>3. QED
    BY <1>a, <1>c, <2>1, <2>2 DEF ReadyTypeOK
<1>1. ASSUME NEW c \in Sessions, Connects(c) \/ AcceptFails(c) PROVE ReadyTypeOK'
  BY <1>b, <1>1 DEF Connects, AcceptFails, acceptUnchanged, boundVars
<1>2. ASSUME NEW c \in Sessions, AcceptHandler(c) PROVE ReadyTypeOK'
  <2>1. UNCHANGED <<ready, commands>>
    BY <1>2 DEF AcceptHandler, acceptUnchanged, boundVars
  <2>2. \A d \in Sessions : conn'[d] = "open" => conn[d] = "open"
    BY <1>a, <1>2 DEF AcceptHandler
  <2>3. QED
    BY <1>a, <2>1, <2>2 DEF ReadyTypeOK
<1>3. ASSUME NEW c \in Sessions, HandshakeDone(c) PROVE ReadyTypeOK'
  BY <1>c, <1>3 DEF HandshakeDone, boundVars
<1>4. ASSUME NEW c \in Sessions, HandshakeHandler(c) PROVE ReadyTypeOK'
  <2>1. \A d \in Sessions : d # c => conn'[d] = conn[d]
    BY <1>a, <1>4 DEF HandshakeHandler
  <2>2. QED
    BY <1>c, <1>4, <2>1 DEF HandshakeHandler, boundVars
<1>5. ASSUME NEW c \in Sessions, NEW command \in Commands, CommandArrives(c, command)
      PROVE  ReadyTypeOK'
  <2>1. PICK q : q = [kind |-> command.kind, id |-> command.id, n |-> commands[c] + 1]
    OBVIOUS
  <2>2. commands \in [Sessions -> Nat]
    BY <1>a DEF ReadyTypeOK
  <2>3. q \in Command /\ q.n = commands[c] + 1
    BY <2>1, <2>2 DEF Commands, Command, Named
  <2>4. ready' = [ready EXCEPT ![c] = <<q>>] /\ commands' = [commands EXCEPT ![c] = @ + 1]
        /\ conn' = conn
    BY <1>5, <2>1 DEF CommandArrives
  <2>5. ready = [d \in Sessions |-> ready[d]]
    BY <1>a DEF ReadyTypeOK
  <2>6. ready' = [d \in Sessions |-> ready'[d]] /\ ready'[c] = <<q>>
        /\ \A d \in Sessions : d # c => ready'[d] = ready[d]
    BY ONLY <2>4, <2>5, c \in Sessions
  <2>7. commands' \in [Sessions -> Nat] /\ commands'[c] = commands[c] + 1
        /\ \A d \in Sessions : d # c => commands'[d] = commands[d]
    BY ONLY <2>2, <2>4, c \in Sessions
  <2>8. ready'[c] = <<ready'[c][1]>> /\ ready'[c][1] = q
    BY ONLY <2>6
  <2>9. ASSUME NEW d \in Sessions, conn'[d] = "open", ready'[d] # <<>>
        PROVE  ready'[d] = <<ready'[d][1]>> /\ ready'[d][1] \in Command
               /\ ready'[d][1].n = commands'[d]
    <3>1. CASE d = c
      BY ONLY <2>3, <2>7, <2>8, <3>1
    <3>2. CASE d # c
      BY <1>a, <2>4, <2>6, <2>7, <2>9, <3>2 DEF ReadyTypeOK
    <3>3. QED
      BY <3>1, <3>2
  <2>10. QED
    BY <2>6, <2>7, <2>9 DEF ReadyTypeOK
<1>6. ASSUME NEW c \in Sessions, ReadHandler(c) PROVE ReadyTypeOK'
  BY <1>c, <1>6 DEF ReadHandler, boundVars
<1>7. ASSUME NEW c \in Sessions, ConnectionFails(c) \/ EnqueueHandler(c)
      PROVE  ReadyTypeOK'
  BY <1>b, <1>7 DEF ConnectionFails, EnqueueHandler, boundVars
<1>8. ASSUME NEW c \in Sessions, HeartbeatHandler(c) \/ WriteHandler(c) PROVE ReadyTypeOK'
  BY <1>b, <1>8 DEF HeartbeatHandler, WriteHandler, boundVars
<1>9. ASSUME NEW c \in Sessions, Strand(c) PROVE ReadyTypeOK'
  BY <1>b, <1>9 DEF Strand, Begin, RunWatch, RunReplace, RunUnwatch, RunReply, RunDone, RunForget,
                    strandUnchanged, socketVars, boundVars
<1>10. CASE RetryAccept \/ Destroy \/ NetworkEnds \/ CommandsEnd \/ DropReplies \/ StopHandler
  BY <1>b, <1>10 DEF RetryAccept, Destroy, NetworkEnds, CommandsEnd, DropReplies, StopHandler,
                     acceptUnchanged, destructorUnchanged, boundVars
<1>11. CASE \E id \in Ids : Publish(id) \/ EndStream(id)
  BY <1>b, <1>11 DEF Publish, EndStream, streamUnchanged, acceptVars, socketVars, boundVars
<1>12. CASE UNCHANGED vars
  BY <1>b, <1>12 DEF vars, acceptVars, socketVars, boundVars
<1>13. QED
  BY <1>1, <1>2, <1>3, <1>4, <1>5, <1>6, <1>7, <1>8, <1>9, <1>10, <1>11, <1>12
     DEF Next, Handler, Destructor

(* Every step keeps the types of the commands and the watches. *)
LEMMA StrandTypeStep == TypeInv /\ [Next]_vars => StrandTypeOK'
<1> SUFFICES ASSUME TypeInv, [Next]_vars PROVE StrandTypeOK'
  OBVIOUS
<1>a. StrandTypeOK
  BY DEF TypeInv
<1>b. ASSUME UNCHANGED <<pending, running, watched, watchers, live>>,
             strand' \in [Sessions -> Seq(Named)]
      PROVE  StrandTypeOK'
  BY <1>a, <1>b DEF StrandTypeOK
<1>c. ASSUME NEW c \in Sessions, NEW r \in Running, running' = [running EXCEPT ![c] = <<r>>],
             UNCHANGED <<pending, live>>, strand' \in [Sessions -> Seq(Named)],
             watched' \in [Sessions -> Ids \cup {0}], watchers' \in [Ids -> SUBSET Sessions]
      PROVE  StrandTypeOK'
  BY <1>a, <1>c, RunningPut DEF StrandTypeOK
<1>d. ASSUME NEW c \in Sessions, running' = [running EXCEPT ![c] = <<>>],
             UNCHANGED <<strand, live>>, pending' \in [Sessions -> Int],
             watched' \in [Sessions -> Ids \cup {0}], watchers' \in [Ids -> SUBSET Sessions]
      PROVE  StrandTypeOK'
  BY <1>a, <1>d, RunningEmptied DEF StrandTypeOK
<1>e. strand \in [Sessions -> Seq(Named)] /\ watched \in [Sessions -> Ids \cup {0}]
      /\ watchers \in [Ids -> SUBSET Sessions] /\ pending \in [Sessions -> Int]
  BY <1>a DEF StrandTypeOK
<1>1. ASSUME NEW c \in Sessions,
             Connects(c) \/ AcceptFails(c) \/ AcceptHandler(c)
      PROVE  StrandTypeOK'
  BY <1>b, <1>e, <1>1 DEF Connects, AcceptFails, AcceptHandler, acceptUnchanged, streamVars
<1>2. ASSUME NEW c \in Sessions, HandshakeDone(c) \/ HandshakeHandler(c) \/ WriteHandler(c)
             \/ \E command \in Commands : CommandArrives(c, command)
      PROVE  StrandTypeOK'
  BY <1>b, <1>e, <1>2 DEF HandshakeDone, HandshakeHandler, WriteHandler, CommandArrives,
                          sessionUnchanged, streamVars
<1>3. ASSUME NEW c \in Sessions, ConnectionFails(c) PROVE StrandTypeOK'
  BY <1>b, <1>3, CloseEffect DEF ConnectionFails, sessionUnchanged, streamVars
<1>4. ASSUME NEW c \in Sessions, ReadHandler(c) PROVE StrandTypeOK'
  <2>1. CASE UNCHANGED <<strand, pending>>
    BY <1>b, <1>e, <1>4, <2>1 DEF ReadHandler, sessionUnchanged, streamVars
  <2>2. CASE Close({c}) /\ UNCHANGED pending
    BY <1>b, <1>4, <2>2, CloseEffect DEF ReadHandler, sessionUnchanged, streamVars
  <2>3. CASE pending' = [pending EXCEPT ![c] = @ + 1]
             /\ strand' = [strand EXCEPT ![c] = Append(@, ready[c][1])]
    <3>1. ready[c][1] \in Named
      BY <1>4 DEF ReadHandler, TypeInv, ReadyTypeOK, Command
    <3>2. Append(strand[c], ready[c][1]) \in Seq(Named) /\ pending[c] + 1 \in Int
      BY ONLY <1>e, <3>1, c \in Sessions
    <3>3. strand' \in [Sessions -> Seq(Named)] /\ pending' \in [Sessions -> Int]
      BY ONLY <1>e, <2>3, <3>2
    <3>4. UNCHANGED <<running, watched, watchers, live>>
      BY <1>4 DEF ReadHandler, sessionUnchanged, streamVars
    <3>5. QED
      BY <1>a, <3>3, <3>4 DEF StrandTypeOK
  <2>4. QED
    BY <1>4, <2>1, <2>2, <2>3 DEF ReadHandler
<1>5. ASSUME NEW c \in Sessions, EnqueueHandler(c) PROVE StrandTypeOK'
  <2>1. Head(posted[c]) \in Payload
    BY <1>5 DEF EnqueueHandler, TypeInv, FramesTypeOK
  <2>2. QED
    BY <1>b, <1>5, <2>1, EnqueueType DEF EnqueueHandler, sessionUnchanged, streamVars
<1>6. ASSUME NEW c \in Sessions, HeartbeatHandler(c) PROVE StrandTypeOK'
  <2>1. Heartbeat \in Payload
    BY DEF Heartbeat, Payload
  <2>2. QED
    BY <1>b, <1>6, <2>1, EnqueueType DEF HeartbeatHandler, sessionUnchanged, streamVars
<1>7. ASSUME NEW c \in Sessions, Begin(c) PROVE StrandTypeOK'
  BY <1>c, <1>e, <1>7, BeginEffect DEF Begin
<1>8. ASSUME NEW c \in Sessions, RunWatch(c) PROVE StrandTypeOK'
  <2>1. running[c] # <<>> /\ running[c][1] \in Running /\ running[c][1].at = "watch"
    BY <1>8, RunsType DEF RunWatch, Runs, TypeInv
  <2>2. running[c][1].id \in Ids /\ running[c][1].watching \in Ids \cup {0, Same}
    BY <2>1 DEF Running
  <2>3. At(c, "replace") \/ At(c, "reply")
    BY <1>8 DEF RunWatch
  <2>4. PICK r \in Running : running' = [running EXCEPT ![c] = <<r>>]
    <3>1. CASE At(c, "replace")
      BY <2>1, <2>2, <3>1, GoesOn
    <3>2. CASE At(c, "reply")
      BY <2>1, <2>2, <3>2, GoesOn
    <3>3. QED
      BY <2>3, <3>1, <3>2
  <2>5. watchers' \in [Ids -> SUBSET Sessions]
    BY <1>8, <1>e, <2>2 DEF RunWatch
  <2>6. QED
    BY <1>8, <1>c, <1>e, <2>4, <2>5 DEF RunWatch, strandUnchanged
<1>9. ASSUME NEW c \in Sessions, RunReplace(c) PROVE StrandTypeOK'
  <2>1. running[c] # <<>> /\ running[c][1] \in Running /\ running[c][1].at = "replace"
    BY <1>9, RunsType DEF RunReplace, Runs, TypeInv
  <2>2. PICK id \in Ids : id = running[c][1].id
    BY <2>1 DEF Running
  <2>3. Replies(c, id) /\ watched' = [watched EXCEPT ![c] = id]
        /\ watchers' = Unwatched(Replaced(c), c) /\ UNCHANGED <<pending, live, strand>>
    BY <1>9, <2>2 DEF RunReplace, strandUnchanged
  <2>4. PICK r \in Running : running' = [running EXCEPT ![c] = <<r>>]
    BY <2>1, <2>3, RepliesNext
  <2>5. Replaced(c) \in Ids \cup {0}
    BY <1>e DEF Replaced
  <2>6. watched' \in [Sessions -> Ids \cup {0}]
    BY ONLY <1>e, <2>3, id \in Ids
  <2>7. QED
    BY <1>c, <1>e, <2>3, <2>4, <2>5, <2>6, UnwatchedEffect
<1>10. ASSUME NEW c \in Sessions, RunUnwatch(c) PROVE StrandTypeOK'
  <2>1. running[c] # <<>> /\ running[c][1] \in Running
    BY <1>10, RunsType DEF RunUnwatch, Runs, TypeInv
  <2>3. Replies(c, 0)
        /\ watched' = [watched EXCEPT ![c] = 0] /\ watchers' = Unwatched(watched[c], c)
        /\ UNCHANGED <<pending, live, strand>>
    BY <1>10 DEF RunUnwatch, strandUnchanged
  <2>4. PICK r \in Running : running' = [running EXCEPT ![c] = <<r>>]
    BY <2>1, <2>3, RepliesNext
  <2>6. watched' \in [Sessions -> Ids \cup {0}] /\ watched[c] \in Ids \cup {0}
    BY ONLY <1>e, <2>3, c \in Sessions
  <2>7. QED
    BY <1>c, <1>e, <2>3, <2>4, <2>6, UnwatchedEffect
<1>11. ASSUME NEW c \in Sessions, RunReply(c) PROVE StrandTypeOK'
  <2>1. running[c] # <<>> /\ running[c][1] \in Running
    BY <1>11, RunsType DEF RunReply, Runs, TypeInv
  <2>2. running[c][1].watching \in Ids \cup {0, Same}
    BY <2>1 DEF Running
  <2>3. At(c, "done")
    BY <1>11 DEF RunReply
  <2>4. PICK r \in Running : running' = [running EXCEPT ![c] = <<r>>]
    BY <2>1, <2>2, <2>3, GoesOn
  <2>5. QED
    BY <1>11, <1>c, <1>e, <2>4 DEF RunReply, strandUnchanged
<1>12. ASSUME NEW c \in Sessions, RunDone(c) PROVE StrandTypeOK'
  <2>1. running' = [running EXCEPT ![c] = <<>>] /\ pending' = [pending EXCEPT ![c] = @ - 1]
        /\ UNCHANGED <<strand, live, watched, watchers>>
    BY <1>12 DEF RunDone, strandUnchanged
  <2>2. pending' \in [Sessions -> Int]
    BY ONLY <1>e, <2>1
  <2>3. QED
    BY <1>d, <1>e, <2>1, <2>2
<1>13. ASSUME NEW c \in Sessions, RunForget(c) PROVE StrandTypeOK'
  <2>1. running' = [running EXCEPT ![c] = <<>>] /\ watched' = [watched EXCEPT ![c] = 0]
        /\ watchers' = Unwatched(watched[c], c) /\ UNCHANGED <<strand, live, pending>>
    BY <1>13 DEF RunForget, strandUnchanged
  <2>2. watched' \in [Sessions -> Ids \cup {0}] /\ watched[c] \in Ids \cup {0}
    BY ONLY <1>e, <2>1, c \in Sessions
  <2>3. QED
    BY <1>d, <1>e, <2>1, <2>2, UnwatchedEffect
<1>14. CASE RetryAccept \/ Destroy \/ NetworkEnds \/ CommandsEnd \/ DropReplies
  BY <1>b, <1>e, <1>14 DEF RetryAccept, Destroy, NetworkEnds, CommandsEnd, DropReplies,
                           acceptUnchanged, destructorUnchanged, closesNone, streamVars
<1>15. ASSUME NEW id \in Ids, Publish(id) PROVE StrandTypeOK'
  BY <1>b, <1>e, <1>15 DEF Publish, streamUnchanged, commandVars
<1>16. ASSUME NEW id \in Ids, EndStream(id) PROVE StrandTypeOK'
  <2>1. watchers' \in [Ids -> SUBSET Sessions] /\ live' \subseteq Ids
    BY <1>a, <1>e, <1>16 DEF EndStream, StrandTypeOK
  <2>2. UNCHANGED <<pending, strand, running, watched>>
    BY <1>16 DEF EndStream, streamUnchanged, commandVars
  <2>3. QED
    BY <1>a, <2>1, <2>2 DEF StrandTypeOK
<1>17. CASE StopHandler
  BY <1>b, <1>17, CloseEffect DEF StopHandler, destructorUnchanged, streamVars
<1>18. CASE UNCHANGED vars
  BY <1>b, <1>e, <1>18 DEF vars, commandVars, streamVars
<1>19. QED
  BY <1>1, <1>2, <1>3, <1>4, <1>5, <1>6, <1>7, <1>8, <1>9, <1>10, <1>11, <1>12, <1>13, <1>14,
     <1>15, <1>16, <1>17, <1>18 DEF Next, Handler, Strand, Destructor

(* Send() appends to what was posted to one connection. *)
LEMMA SendEffect ==
  ASSUME TypeInv, NEW c \in Sessions, NEW payloads \in Seq(Payload), Send(c, payloads)
  PROVE  /\ posted' \in [Sessions -> Seq(Payload)] /\ posted'[c] = posted[c] \o payloads
         /\ \A d \in Sessions : d # c => posted'[d] = posted[d]
<1>1. posted \in [Sessions -> Seq(Payload)]
  BY DEF TypeInv, FramesTypeOK
<1>2. posted' = [posted EXCEPT ![c] = posted[c] \o payloads]
  BY DEF Send
<1>3. posted[c] \o payloads \in Seq(Payload)
  BY ONLY <1>1, c \in Sessions, payloads \in Seq(Payload)
<1>4. QED
  BY ONLY <1>1, <1>2, <1>3, c \in Sessions

(* Watch() sends a StreamInfo and a Book; a command's result is one reply. *)
LEMMA RunWatchEffect ==
  ASSUME TypeInv, NEW c \in Sessions, RunWatch(c)
  PROVE  /\ running[c] # <<>> /\ running[c][1] \in Running /\ running[c][1].at = "watch"
         /\ running[c][1].id \in Ids
         /\ \/ \E id \in Ids :
                 /\ id = running[c][1].id
                 /\ Send(c, <<StreamInfo(id), Book(id, books[c] + 1)>>)
                 /\ <<StreamInfo(id), Book(id, books[c] + 1)>> \in Seq(Payload)
                 /\ books' = [books EXCEPT ![c] = @ + 1]
                 /\ watchers' = [watchers EXCEPT ![id] = @ \cup {c}]
                 /\ At(c, "replace")
            \/ UNCHANGED <<posted, books, watchers>> /\ At(c, "reply")
<1>1. running[c] # <<>> /\ running[c][1] \in Running /\ running[c][1].at = "watch"
  BY RunsType DEF RunWatch, Runs, TypeInv
<1>2. PICK id \in Ids : id = running[c][1].id
  BY <1>1 DEF Running
<1>3. CASE id \in live
  <2>1. SendBook(c, <<StreamInfo(id)>>, id) /\ watchers' = [watchers EXCEPT ![id] = @ \cup {c}]
        /\ At(c, "replace")
    BY <1>2, <1>3 DEF RunWatch
  <2>2. /\ Send(c, <<StreamInfo(id)>> \o <<Book(id, books[c] + 1)>>)
        /\ books' = [books EXCEPT ![c] = @ + 1]
    BY <2>1 DEF SendBook
  <2>3. PICK p, q : p = StreamInfo(id) /\ q = Book(id, books[c] + 1)
    OBVIOUS
  <2>5. books[c] + 1 \in Nat
    BY DEF TypeInv, FramesTypeOK
  <2>6. p \in Payload /\ q \in Payload
    BY <2>3, <2>5 DEF StreamInfo, Book, Payload
  <2>7. <<p, q>> \in Seq(Payload) /\ <<p>> \in Seq(Payload) /\ <<q>> \in Seq(Payload)
    BY ONLY <2>6
  <2>4. <<p>> \o <<q>> = <<p, q>>
    <3>1. PICK s \in Seq(Payload), t \in Seq(Payload), w \in Seq(Payload) :
            s = <<p>> /\ t = <<q>> /\ w = <<p, q>>
      BY ONLY <2>7
    <3>2. Len(s) = 1 /\ Len(t) = 1 /\ s[1] = p /\ t[1] = q
          /\ Len(w) = 2 /\ w[1] = p /\ w[2] = q
      BY ONLY <3>1
    <3>3. /\ s \o t \in Seq(Payload) /\ Len(s \o t) = 2
          /\ \A i \in 1..2 : (s \o t)[i] = w[i]
      BY ONLY <3>2, ConcatProperties, s \in Seq(Payload), t \in Seq(Payload)
    <3>4. s \o t = w
      BY ONLY <3>2, <3>3, SeqEqual, w \in Seq(Payload)
    <3>5. QED
      BY ONLY <3>1, <3>4
  <2>8. Send(c, <<p, q>>)
    BY ONLY <2>2, <2>3, <2>4
  <2>9. QED
    BY ONLY <1>1, <1>2, <2>1, <2>2, <2>3, <2>7, <2>8
<1>4. CASE id \notin live
  BY <1>1, <1>2, <1>4 DEF RunWatch
<1>5. QED
  BY <1>3, <1>4

(* A command's result is one reply. *)
LEMMA RunReplyEffect ==
  ASSUME TypeInv, NEW c \in Sessions, RunReply(c)
  PROVE  /\ running[c] # <<>> /\ running[c][1] \in Running
         /\ running[c][1].at \in {"reply", "other"}
         /\ Reply(running[c][1].n, running[c][1].watching) \in Payload
         /\ Send(c, <<Reply(running[c][1].n, running[c][1].watching)>>)
         /\ At(c, "done")
<1>1. /\ running[c] # <<>> /\ running[c][1] \in Running
      /\ running[c][1].at \in {"reply", "other"}
  BY RunsType DEF RunReply, Runs, TypeInv
<1>2. Reply(running[c][1].n, running[c][1].watching) \in Payload
  BY <1>1 DEF Running, Reply, Payload
<1>3. QED
  BY <1>1, <1>2 DEF RunReply

(* What a client makes of a frame. *)
LEMMA ToldEffect ==
  ASSUME NEW v \in Client, NEW frame \in Numbered, NEW p, p = frame.payload
  PROVE  /\ Told(v, frame) \in Client
         /\ p.kind = "reply" => Told(v, frame).reply = p.n
         /\ p.kind # "reply" => Told(v, frame).reply = v.reply
         /\ p.kind = "info" => Told(v, frame).streams = v.streams \cup {p.id}
         /\ p.kind = "reply" /\ p.watching # Same => Told(v, frame).streams = {p.watching} \ {0}
         /\ p.kind \in {"heartbeat", "book"} \/ (p.kind = "reply" /\ p.watching = Same) =>
              Told(v, frame).streams = v.streams
         /\ p.kind # "book" => Told(v, frame).stray = v.stray
         /\ p.kind = "book" => (Told(v, frame).stray <=> v.stray \/ p.id \notin v.streams)
         /\ Told(v, frame).next = frame.sequence + 1
         /\ Told(v, frame).skipped <=> v.skipped \/ frame.sequence # v.next
         /\ p.kind # "book" => Told(v, frame).book = v.book /\ Told(v, frame).lost = v.lost
         /\ p.kind = "book" => /\ Told(v, frame).book = p.n
                               /\ Told(v, frame).lost <=> v.lost \/ p.n # v.book + 1
<1>1. p \in Payload /\ frame.sequence \in Nat
  BY DEF Numbered
<1>2. PICK x, r, k, s, sk, l, t :
        v = [next |-> x, reply |-> r, book |-> k, streams |-> s, skipped |-> sk, lost |-> l,
             stray |-> t]
  BY DEF Client
<1>3. /\ x \in Nat /\ r \in Nat /\ k \in Nat /\ s \in SUBSET Ids
      /\ sk \in BOOLEAN /\ l \in BOOLEAN /\ t \in BOOLEAN
  BY <1>2 DEF Client
<1>4. PICK y \in Nat : y = frame.sequence + 1
  BY <1>1
<1>5. PICK sk2 : sk2 \in BOOLEAN /\ sk2 = (sk \/ frame.sequence # x)
  OBVIOUS
<1>6. PICK u : u = [v EXCEPT !.next = frame.sequence + 1, !.skipped = @ \/ frame.sequence # v.next]
  OBVIOUS
<1>7. u = [next |-> y, reply |-> r, book |-> k, streams |-> s, skipped |-> sk2, lost |-> l,
           stray |-> t]
  <2>1. (v.skipped \/ frame.sequence # v.next) = sk2
    BY ONLY <1>2, <1>3, <1>5
  <2>2. u = [v EXCEPT !.next = y, !.skipped = sk2]
    BY ONLY <1>4, <1>6, <2>1, Zenon
  <2>3. PICK w : w = [v EXCEPT !.next = y]
    OBVIOUS
  <2>4. w = [next |-> y, reply |-> r, book |-> k, streams |-> s, skipped |-> sk, lost |-> l,
             stray |-> t]
    BY ONLY <1>2, <2>3
  <2>5. [w EXCEPT !.skipped = sk2] = [next |-> y, reply |-> r, book |-> k, streams |-> s,
                                      skipped |-> sk2, lost |-> l, stray |-> t]
    BY ONLY <2>4
  <2>6. [v EXCEPT !.next = y, !.skipped = sk2] = [w EXCEPT !.skipped = sk2]
    <3>1. PICK a, b : a = y /\ b = sk2
      OBVIOUS
    <3>2. [v EXCEPT !.next = a, !.skipped = b] = [w EXCEPT !.skipped = b]
      BY ONLY <1>2, <2>3, <3>1, SMTT(30)
    <3>3. QED
      BY ONLY <3>1, <3>2
  <2>7. QED
    BY ONLY <2>2, <2>5, <2>6
<1>14. y = frame.sequence + 1 /\ (sk2 <=> v.skipped \/ frame.sequence # v.next)
  BY ONLY <1>2, <1>3, <1>4, <1>5
<1>8. CASE p.kind = "heartbeat"
  <2>1. Told(v, frame) = u
    BY <1>6, <1>8 DEF Told
  <2>2. Told(v, frame) \in Client
    BY ONLY <1>3, <1>5, <1>7, <2>1, y \in Nat DEF Client
  <2>3. /\ Told(v, frame).reply = v.reply /\ Told(v, frame).streams = v.streams
        /\ Told(v, frame).stray = v.stray /\ Told(v, frame).next = y
        /\ Told(v, frame).skipped = sk2 /\ Told(v, frame).book = v.book
        /\ Told(v, frame).lost = v.lost
    BY ONLY <1>2, <1>7, <2>1
  <2>4. QED
    BY ONLY <1>8, <1>14, <2>2, <2>3
<1>9. CASE p.kind = "info"
  <2>1. Told(v, frame) = [u EXCEPT !.streams = @ \cup {p.id}]
    BY <1>6, <1>9 DEF Told
  <2>2. p.id \in Ids
    BY <1>1, <1>9 DEF Payload
  <2>3. Told(v, frame) = [next |-> y, reply |-> r, book |-> k, streams |-> s \cup {p.id},
                          skipped |-> sk2, lost |-> l, stray |-> t]
    BY ONLY <1>7, <2>1
  <2>4. Told(v, frame) \in Client
    BY ONLY <1>3, <1>5, <2>2, <2>3, y \in Nat DEF Client
  <2>5. /\ Told(v, frame).reply = v.reply /\ Told(v, frame).streams = v.streams \cup {p.id}
        /\ Told(v, frame).stray = v.stray /\ Told(v, frame).next = y
        /\ Told(v, frame).skipped = sk2 /\ Told(v, frame).book = v.book
        /\ Told(v, frame).lost = v.lost
    BY ONLY <1>2, <2>3
  <2>6. QED
    BY ONLY <1>9, <1>14, <2>4, <2>5
<1>10. CASE p.kind = "book"
  <2>1. Told(v, frame) = [u EXCEPT !.book = p.n, !.lost = @ \/ p.n # v.book + 1,
                                   !.stray = @ \/ p.id \notin v.streams]
    BY <1>6, <1>10 DEF Told
  <2>2. p.id \in Ids /\ p.n \in Nat
    BY <1>1, <1>10 DEF Payload
  <2>3. PICK l2, t2 : /\ l2 \in BOOLEAN /\ l2 = (l \/ p.n # k + 1)
                      /\ t2 \in BOOLEAN /\ t2 = (t \/ p.id \notin s)
    OBVIOUS
  <2>4. Told(v, frame) = [next |-> y, reply |-> r, book |-> p.n, streams |-> s,
                          skipped |-> sk2, lost |-> l2, stray |-> t2]
    BY ONLY <1>2, <1>7, <2>1, <2>3
  <2>5. Told(v, frame) \in Client
    BY ONLY <1>3, <1>5, <2>2, <2>3, <2>4, y \in Nat DEF Client
  <2>6. Told(v, frame).reply = v.reply /\ Told(v, frame).streams = v.streams
    BY ONLY <1>2, <2>4
  <2>7. Told(v, frame).stray = t2 /\ v.stray = t /\ v.streams = s
    BY ONLY <1>2, <2>4
  <2>8. Told(v, frame).stray <=> v.stray \/ p.id \notin v.streams
    BY ONLY <1>3, <2>3, <2>7
  <2>9. /\ Told(v, frame).next = y /\ Told(v, frame).skipped = sk2
        /\ Told(v, frame).book = p.n /\ Told(v, frame).lost = l2 /\ v.lost = l /\ v.book = k
    BY ONLY <1>2, <2>4
  <2>10. Told(v, frame).lost <=> v.lost \/ p.n # v.book + 1
    BY ONLY <1>3, <2>3, <2>9
  <2>11. QED
    BY ONLY <1>10, <1>14, <2>5, <2>6, <2>8, <2>9, <2>10
<1>11. CASE p.kind = "reply"
  <2>1. Told(v, frame) = [u EXCEPT !.reply = p.n,
            !.streams = IF p.watching = Same THEN @ ELSE {p.watching} \ {0}]
    BY <1>6, <1>11 DEF Told
  <2>2. p.n \in Nat /\ p.watching \in Ids \cup {0, Same}
    BY <1>1, <1>11 DEF Payload
  <2>3. PICK s2 : s2 = IF p.watching = Same THEN s ELSE {p.watching} \ {0}
    OBVIOUS
  <2>4. s2 \in SUBSET Ids
    BY ONLY <1>3, <2>2, <2>3
  <2>5. Told(v, frame) = [next |-> y, reply |-> p.n, book |-> k, streams |-> s2,
                          skipped |-> sk2, lost |-> l, stray |-> t]
    BY ONLY <1>7, <2>1, <2>3
  <2>6. Told(v, frame) \in Client
    BY ONLY <1>3, <1>5, <2>2, <2>4, <2>5, y \in Nat DEF Client
  <2>7. /\ Told(v, frame).reply = p.n /\ Told(v, frame).streams = s2 /\ v.streams = s
        /\ Told(v, frame).stray = v.stray /\ Told(v, frame).next = y
        /\ Told(v, frame).skipped = sk2 /\ Told(v, frame).book = v.book
        /\ Told(v, frame).lost = v.lost
    BY ONLY <1>2, <2>5
  <2>8. QED
    BY ONLY <1>11, <1>14, <2>3, <2>6, <2>7
<1>12. p.kind \in {"heartbeat", "info", "book", "reply"}
  BY <1>1 DEF Payload
<1>13. QED
  BY <1>8, <1>9, <1>10, <1>11, <1>12

(* What WriteHandler does to the client and the queue. *)
LEMMA WriteEffect ==
  ASSUME TypeInv, NEW c \in Sessions, WriteHandler(c)
  PROVE  /\ outgoing[c] # <<>> /\ Head(outgoing[c]) \in Numbered
         /\ outgoing' \in [Sessions -> Seq(Numbered)] /\ outgoing'[c] = Tail(outgoing[c])
         /\ client' \in [Sessions -> Client]
         /\ client'[c] = Told(client[c], Head(outgoing[c]))
         /\ \A d \in Sessions : d # c => client'[d] = client[d] /\ outgoing'[d] = outgoing[d]
<1>1. outgoing \in [Sessions -> Seq(Numbered)] /\ client \in [Sessions -> Client]
  BY DEF TypeInv, FramesTypeOK
<1>2. outgoing[c] # <<>>
  BY DEF WriteHandler
<1>3. Head(outgoing[c]) \in Numbered /\ Tail(outgoing[c]) \in Seq(Numbered)
  BY ONLY <1>1, <1>2, c \in Sessions
<1>4. PICK v, frame : v = client[c] /\ frame = Head(outgoing[c])
  OBVIOUS
<1>5. v \in Client /\ frame \in Numbered
  BY <1>1, <1>3, <1>4
<1>6. Told(v, frame) \in Client
  BY <1>5, ToldEffect
<1>7. /\ outgoing' = [outgoing EXCEPT ![c] = Tail(outgoing[c])]
      /\ client' = [client EXCEPT ![c] = Told(v, frame)]
  BY <1>1, <1>4 DEF WriteHandler
<1>8. QED
  BY ONLY <1>1, <1>2, <1>3, <1>4, <1>6, <1>7, c \in Sessions

(* Every step keeps the types of what is sent and read. *)
LEMMA FramesTypeStep == TypeInv /\ [Next]_vars => FramesTypeOK'
<1> SUFFICES ASSUME TypeInv, [Next]_vars PROVE FramesTypeOK'
  OBVIOUS
<1>a. FramesTypeOK
  BY DEF TypeInv
<1>b. ASSUME UNCHANGED <<posted, books, published>>, heartbeats' \in Nat,
             outgoing' \in [Sessions -> Seq(Numbered)], sequence' \in [Sessions -> Nat],
             client' \in [Sessions -> Client]
      PROVE  FramesTypeOK'
  BY <1>a, <1>b DEF FramesTypeOK
<1>c. ASSUME UNCHANGED <<outgoing, sequence, client, heartbeats>>, published' \in Nat,
             posted' \in [Sessions -> Seq(Payload)], books' \in [Sessions -> Nat]
      PROVE  FramesTypeOK'
  BY <1>a, <1>c DEF FramesTypeOK
<1>e. /\ posted \in [Sessions -> Seq(Payload)] /\ outgoing \in [Sessions -> Seq(Numbered)]
      /\ sequence \in [Sessions -> Nat] /\ books \in [Sessions -> Nat]
      /\ client \in [Sessions -> Client] /\ published \in Nat /\ heartbeats \in Nat
  BY <1>a DEF FramesTypeOK
<1>1. ASSUME NEW c \in Sessions,
             Connects(c) \/ AcceptFails(c) \/ AcceptHandler(c)
      PROVE  FramesTypeOK'
  BY <1>b, <1>e, <1>1 DEF Connects, AcceptFails, AcceptHandler, acceptUnchanged, streamVars,
                          queueVars, boundVars
<1>2. ASSUME NEW c \in Sessions, HandshakeDone(c) \/ HandshakeHandler(c)
             \/ \E command \in Commands : CommandArrives(c, command)
      PROVE  FramesTypeOK'
  BY <1>b, <1>e, <1>2 DEF HandshakeDone, HandshakeHandler, CommandArrives, sessionUnchanged,
                          streamVars, queueVars, boundVars
<1>3. ASSUME NEW c \in Sessions, ConnectionFails(c) PROVE FramesTypeOK'
  BY <1>b, <1>e, <1>3, CloseEffect DEF ConnectionFails, sessionUnchanged, streamVars, boundVars
<1>4. ASSUME NEW c \in Sessions, ReadHandler(c) PROVE FramesTypeOK'
  <2>1. UNCHANGED <<outgoing, client>> \/ Close({c})
    BY <1>4 DEF ReadHandler
  <2>2. UNCHANGED <<posted, books, published, sequence, heartbeats>>
    BY <1>4 DEF ReadHandler, sessionUnchanged, streamVars, boundVars
  <2>3. QED
    BY <1>b, <1>e, <2>1, <2>2, CloseEffect
<1>5. ASSUME NEW c \in Sessions, EnqueueHandler(c) PROVE FramesTypeOK'
  <2>1. posted[c] # <<>> /\ Enqueue(c, Head(posted[c]))
        /\ posted' = [posted EXCEPT ![c] = Tail(posted[c])]
        /\ UNCHANGED <<books, published, heartbeats>>
    BY <1>5 DEF EnqueueHandler, sessionUnchanged, streamVars, boundVars
  <2>2. Head(posted[c]) \in Payload /\ Tail(posted[c]) \in Seq(Payload)
    BY ONLY <1>e, <2>1, c \in Sessions
  <2>3. posted' \in [Sessions -> Seq(Payload)]
    BY ONLY <1>e, <2>1, <2>2
  <2>4. /\ outgoing' \in [Sessions -> Seq(Numbered)] /\ sequence' \in [Sessions -> Nat]
        /\ client' \in [Sessions -> Client]
    BY <2>1, <2>2, EnqueueType
  <2>5. QED
    BY <1>e, <2>1, <2>3, <2>4 DEF FramesTypeOK
<1>6. ASSUME NEW c \in Sessions, HeartbeatHandler(c) PROVE FramesTypeOK'
  <2>1. Heartbeat \in Payload
    BY DEF Heartbeat, Payload
  <2>2. QED
    BY <1>b, <1>e, <1>6, <2>1, EnqueueType DEF HeartbeatHandler, sessionUnchanged, streamVars
<1>7. ASSUME NEW c \in Sessions, WriteHandler(c) PROVE FramesTypeOK'
  BY <1>b, <1>e, <1>7, WriteEffect DEF WriteHandler, sessionUnchanged, streamVars, boundVars
<1>8. ASSUME NEW c \in Sessions, Begin(c) \/ RunReplace(c) \/ RunUnwatch(c) \/ RunDone(c)
                                 \/ RunForget(c)
      PROVE  FramesTypeOK'
  BY <1>b, <1>e, <1>8 DEF Begin, RunReplace, RunUnwatch, RunDone, RunForget, strandUnchanged,
                          queueVars, boundVars
<1>9. ASSUME NEW c \in Sessions, RunWatch(c) PROVE FramesTypeOK'
  <2>1. UNCHANGED <<outgoing, sequence, client, heartbeats, published>>
    BY <1>9 DEF RunWatch, strandUnchanged, queueVars, boundVars
  <2>2. CASE UNCHANGED <<posted, books>>
    BY <1>b, <1>e, <2>1, <2>2
  <2>3. ASSUME NEW payloads \in Seq(Payload), Send(c, payloads),
               books' = [books EXCEPT ![c] = @ + 1]
        PROVE  FramesTypeOK'
    <3>1. books' \in [Sessions -> Nat]
      BY ONLY <1>e, <2>3
    <3>2. QED
      BY <1>c, <1>e, <2>1, <2>3, <3>1, SendEffect
  <2>4. QED
    BY <1>9, <2>2, <2>3, RunWatchEffect
<1>10. ASSUME NEW c \in Sessions, RunReply(c) PROVE FramesTypeOK'
  <2>1. PICK payload \in Payload : Send(c, <<payload>>)
    BY <1>10, RunReplyEffect
  <2>2. <<payload>> \in Seq(Payload)
    OBVIOUS
  <2>3. UNCHANGED <<outgoing, sequence, client, heartbeats, published, books>>
    BY <1>10 DEF RunReply, strandUnchanged, queueVars, boundVars
  <2>4. QED
    BY <1>c, <1>e, <2>1, <2>2, <2>3, SendEffect
<1>11. CASE RetryAccept \/ Destroy \/ NetworkEnds \/ CommandsEnd
  BY <1>b, <1>e, <1>11 DEF RetryAccept, Destroy, NetworkEnds, CommandsEnd,
       acceptUnchanged, destructorUnchanged, closesNone, streamVars, queueVars, boundVars
<1>12. CASE DropReplies
  <2>1. posted' = [c \in Sessions |-> <<>>] /\ <<>> \in Seq(Payload)
        /\ UNCHANGED <<outgoing, client, sequence, published, books, heartbeats>>
    BY <1>12 DEF DropReplies, destructorUnchanged, closesNone, streamVars, boundVars
  <2>2. posted' \in [Sessions -> Seq(Payload)]
    BY ONLY <2>1
  <2>3. QED
    BY <1>c, <1>e, <2>1, <2>2
<1>13. ASSUME NEW id \in Ids, Publish(id) PROVE FramesTypeOK'
  <2>1. /\ published' = published + 1
        /\ books' = [c \in Sessions |-> IF c \in watchers[id] THEN books[c] + 1 ELSE books[c]]
        /\ posted' = [c \in Sessions |-> IF c \in watchers[id]
                                           THEN Append(posted[c], Book(id, books'[c]))
                                           ELSE posted[c]]
        /\ UNCHANGED <<outgoing, client, sequence, heartbeats>>
    BY <1>13 DEF Publish, streamUnchanged, queueVars, boundVars
  <2>2. books' \in [Sessions -> Nat] /\ published' \in Nat
    BY ONLY <1>e, <2>1
  <2>3. PICK b \in [Sessions -> Nat] : b = books'
    BY <2>2
  <2>4. \A c \in Sessions : Book(id, b[c]) \in Payload
    BY DEF Book, Payload
  <2>5. \A c \in Sessions : Append(posted[c], Book(id, b[c])) \in Seq(Payload)
    BY ONLY <1>e, <2>4
  <2>6. posted' \in [Sessions -> Seq(Payload)]
    BY ONLY <1>e, <2>1, <2>3, <2>5
  <2>7. QED
    BY <1>c, <2>1, <2>2, <2>6
<1>14. ASSUME NEW id \in Ids, EndStream(id) PROVE FramesTypeOK'
  BY <1>b, <1>e, <1>14 DEF EndStream, streamUnchanged, queueVars, boundVars
<1>15. CASE StopHandler
  BY <1>b, <1>e, <1>15, CloseEffect DEF StopHandler, destructorUnchanged, streamVars, boundVars
<1>16. CASE UNCHANGED vars
  BY <1>b, <1>e, <1>16 DEF vars, queueVars, streamVars, boundVars
<1>17. QED
  BY <1>1, <1>2, <1>3, <1>4, <1>5, <1>6, <1>7, <1>8, <1>9, <1>10, <1>11, <1>12, <1>13, <1>14,
     <1>15, <1>16 DEF Next, Handler, Strand, Destructor

-----------------------------------------------------------------------------
(* What a step leaves alone of one connection. *)
KeepsAccept(d) ==
  /\ conn'[d] = conn[d]
  /\ d \in accepted' => d \in accepted
  /\ d \in sessions' <=> d \in sessions

KeepsSocket(d) == closed'[d] = closed[d] /\ ready'[d] = ready[d] /\ commands'[d] = commands[d]

KeepsStrand(d) == pending'[d] = pending[d] /\ strand'[d] = strand[d] /\ running'[d] = running[d]

KeepsWatched(d) ==
  watched'[d] = watched[d] /\ \A id \in Ids : d \in watchers'[id] => d \in watchers[id]

KeepsPosted(d) == posted'[d] = posted[d] /\ books'[d] = books[d]

KeepsOutgoing(d) ==
  outgoing'[d] = outgoing[d] /\ sequence'[d] = sequence[d] /\ client'[d] = client[d]

Untouched(d) ==
  /\ KeepsAccept(d) /\ KeepsSocket(d) /\ KeepsStrand(d)
  /\ KeepsWatched(d) /\ KeepsPosted(d) /\ KeepsOutgoing(d)

(* The steps that concern one connection. *)
Own(d) ==
  \/ Connects(d) \/ AcceptHandler(d) \/ HandshakeDone(d) \/ HandshakeHandler(d)
  \/ \E command \in Commands : CommandArrives(d, command)
  \/ ReadHandler(d) \/ ConnectionFails(d) \/ EnqueueHandler(d) \/ HeartbeatHandler(d)
  \/ WriteHandler(d)
  \/ Begin(d) \/ RunWatch(d) \/ RunReplace(d) \/ RunUnwatch(d)
  \/ RunReply(d) \/ RunDone(d) \/ RunForget(d)
  \/ \E id \in Ids : d \in watchers[id] /\ Publish(id)
  \/ d \in sessions /\ ~closed[d] /\ StopHandler
  \/ DropReplies

(* No step touches more than the connections it concerns. *)
LEMMA StepAt ==
  ASSUME TypeInv, [Next]_vars, NEW d \in Sessions
  PROVE  Untouched(d) \/ Own(d)
<1>a. /\ conn = [c \in Sessions |-> conn[c]] /\ closed = [c \in Sessions |-> closed[c]]
      /\ ready = [c \in Sessions |-> ready[c]] /\ commands = [c \in Sessions |-> commands[c]]
      /\ pending = [c \in Sessions |-> pending[c]] /\ strand = [c \in Sessions |-> strand[c]]
      /\ running = [c \in Sessions |-> running[c]] /\ watched = [c \in Sessions |-> watched[c]]
      /\ posted = [c \in Sessions |-> posted[c]] /\ books = [c \in Sessions |-> books[c]]
      /\ outgoing = [c \in Sessions |-> outgoing[c]]
      /\ sequence = [c \in Sessions |-> sequence[c]]
      /\ client = [c \in Sessions |-> client[c]]
  BY DEF TypeInv, ConnectionsTypeOK, ReadyTypeOK, StrandTypeOK, FramesTypeOK
<1>b. watchers \in [Ids -> SUBSET Sessions] /\ watched[d] \in Ids \cup {0}
      /\ closed[d] \in BOOLEAN
  BY DEF TypeInv, StrandTypeOK, ConnectionsTypeOK
<1>1. ASSUME NEW c \in Sessions, c # d, Connects(c) \/ AcceptHandler(c) PROVE Untouched(d)
  <2>1. KeepsAccept(d)
    BY <1>a, <1>1 DEF Connects, AcceptHandler, KeepsAccept
  <2>2. UNCHANGED <<closed, ready, commands, pending, strand, running, watched, watchers, posted,
                    books, outgoing, sequence, client>>
    BY <1>1 DEF Connects, AcceptHandler, acceptUnchanged, queueVars, streamVars, boundVars
  <2>3. QED
    BY <2>1, <2>2 DEF Untouched, KeepsSocket, KeepsStrand, KeepsWatched, KeepsPosted, KeepsOutgoing
<1>2. ASSUME UNCHANGED <<accepted, sessions, conn, closed, ready, commands, pending, strand,
                         running, watched, posted, books, outgoing, sequence, client>>,
             \A id \in Ids : watchers'[id] \subseteq watchers[id]
      PROVE  Untouched(d)
  BY <1>2 DEF Untouched, KeepsAccept, KeepsSocket, KeepsStrand, KeepsWatched, KeepsPosted,
              KeepsOutgoing
<1>3. ASSUME NEW c \in Sessions, AcceptFails(c) PROVE Untouched(d)
  BY <1>2, <1>3 DEF AcceptFails, acceptUnchanged, queueVars, streamVars, boundVars
<1>4. ASSUME NEW c \in Sessions, c # d,
             HandshakeDone(c) \/ HandshakeHandler(c)
             \/ \E command \in Commands : CommandArrives(c, command)
      PROVE  Untouched(d)
  <2>1. UNCHANGED <<accepted, sessions, closed, pending, strand, running, watched,
                    watchers, posted, books, outgoing, sequence, client>>
    BY <1>4 DEF HandshakeDone, HandshakeHandler, CommandArrives, sessionUnchanged,
                queueVars, streamVars, boundVars
  <2>2. ready'[d] = ready[d] /\ conn'[d] = conn[d] /\ commands'[d] = commands[d]
    <3>1. (\E r : ready' = [ready EXCEPT ![c] = r]) /\ (\E r : conn' = [conn EXCEPT ![c] = r])
          /\ (\E r : commands' = [commands EXCEPT ![c] = r])
      BY <1>a, <1>4 DEF HandshakeDone, HandshakeHandler, CommandArrives, boundVars
    <3>2. QED
      BY ONLY <1>a, <1>4, <3>1
  <2>3. QED
    BY <2>1, <2>2 DEF Untouched, KeepsAccept, KeepsSocket, KeepsStrand, KeepsWatched, KeepsPosted,
                      KeepsOutgoing
<1>5. ASSUME NEW c \in Sessions, c # d, ReadHandler(c) PROVE Untouched(d)
  <2>1. UNCHANGED <<accepted, sessions, conn, commands, running, watched, watchers, posted, books,
                    sequence>>
    BY <1>5 DEF ReadHandler, sessionUnchanged, queueVars, streamVars, boundVars
  <2>2. ready'[d] = ready[d] /\ pending'[d] = pending[d]
    BY <1>a, <1>5 DEF ReadHandler
  <2>3. CASE Close({c})
    <3>1. closed'[d] = closed[d]
      BY <1>b, <1>5, <2>3, CloseEffect
    <3>2. strand'[d] = strand[d] /\ outgoing'[d] = outgoing[d] /\ client'[d] = client[d]
      BY <1>5, <2>3, CloseEffect
    <3>3. QED
      BY <2>1, <2>2, <3>1, <3>2 DEF Untouched, KeepsAccept, KeepsSocket, KeepsStrand,
                                    KeepsWatched, KeepsPosted, KeepsOutgoing
  <2>4. CASE UNCHANGED <<closed, outgoing, client>> /\ strand'[d] = strand[d]
    BY <2>1, <2>2, <2>4 DEF Untouched, KeepsAccept, KeepsSocket, KeepsStrand,
                            KeepsWatched, KeepsPosted, KeepsOutgoing
  <2>5. QED
    BY <1>a, <1>5, <2>3, <2>4 DEF ReadHandler
<1>6. ASSUME NEW c \in Sessions, c # d, ConnectionFails(c) PROVE Untouched(d)
  <2>1. UNCHANGED <<accepted, sessions, conn, ready, pending, commands, running, watched, watchers,
                    posted, books, sequence>> /\ Close({c})
    BY <1>6 DEF ConnectionFails, sessionUnchanged, queueVars, streamVars, boundVars
  <2>2. closed'[d] = closed[d]
    BY <1>b, <1>6, <2>1, CloseEffect
  <2>3. strand'[d] = strand[d] /\ outgoing'[d] = outgoing[d] /\ client'[d] = client[d]
    BY <1>6, <2>1, CloseEffect
  <2>4. QED
    BY <2>1, <2>2, <2>3 DEF Untouched, KeepsAccept, KeepsSocket, KeepsStrand,
                            KeepsWatched, KeepsPosted, KeepsOutgoing
<1>7. ASSUME NEW c \in Sessions, c # d, EnqueueHandler(c) \/ HeartbeatHandler(c)
      PROVE  Untouched(d)
  <2>1. PICK payload \in Payload : Enqueue(c, payload)
    <3>1. posted \in [Sessions -> Seq(Payload)]
      BY DEF TypeInv, FramesTypeOK
    <3>2. posted[c] # <<>> => Head(posted[c]) \in Payload
      BY ONLY <3>1, c \in Sessions
    <3>3. Heartbeat \in Payload
      BY DEF Heartbeat, Payload
    <3>4. QED
      BY <1>7, <3>2, <3>3 DEF EnqueueHandler, HeartbeatHandler
  <2>2. UNCHANGED <<accepted, sessions, conn, ready, pending, commands, running, watched, watchers,
                    books>>
    BY <1>7 DEF EnqueueHandler, HeartbeatHandler, sessionUnchanged, streamVars, boundVars
  <2>3. posted'[d] = posted[d]
    BY <1>a, <1>7 DEF EnqueueHandler, HeartbeatHandler
  <2>4. /\ closed'[d] = closed[d] /\ strand'[d] = strand[d]
        /\ outgoing'[d] = outgoing[d] /\ sequence'[d] = sequence[d] /\ client'[d] = client[d]
    BY <1>7, <2>1, EnqueueType
  <2>5. QED
    BY <2>2, <2>3, <2>4 DEF Untouched, KeepsAccept, KeepsSocket, KeepsStrand,
                            KeepsWatched, KeepsPosted, KeepsOutgoing
<1>8. ASSUME NEW c \in Sessions, c # d, WriteHandler(c) PROVE Untouched(d)
  <2>1. UNCHANGED <<accepted, sessions, conn, closed, ready, commands, pending, strand, running,
                    watched, watchers, posted, books, sequence>>
    BY <1>8 DEF WriteHandler, sessionUnchanged, streamVars, boundVars
  <2>2. client'[d] = client[d] /\ outgoing'[d] = outgoing[d]
    BY <1>8, WriteEffect
  <2>3. QED
    BY <2>1, <2>2 DEF Untouched, KeepsAccept, KeepsSocket, KeepsStrand,
                      KeepsWatched, KeepsPosted, KeepsOutgoing
<1>9. ASSUME NEW c \in Sessions, c # d, Strand(c) PROVE Untouched(d)
  <2>1. UNCHANGED <<accepted, conn, closed, ready, commands, outgoing, sequence, client>>
    BY <1>9 DEF Strand, Begin, RunWatch, RunReplace, RunUnwatch, RunReply, RunDone, RunForget,
                strandUnchanged, socketVars, queueVars, boundVars
  <2>2. /\ d \in sessions' <=> d \in sessions
        /\ strand'[d] = strand[d] /\ pending'[d] = pending[d]
        /\ watched'[d] = watched[d]
    <3>1. sessions' \in {sessions, sessions \ {c}}
      BY <1>9 DEF Strand, Begin, RunWatch, RunReplace, RunUnwatch, RunReply, RunDone, RunForget
    <3>2. (\E r : strand' = [strand EXCEPT ![c] = r]) /\ (\E r : watched' = [watched EXCEPT ![c] = r])
          /\ (\E r : pending' = [pending EXCEPT ![c] = r])
      BY <1>a, <1>9 DEF Strand, Begin, RunWatch, RunReplace, RunUnwatch, RunReply, RunDone, RunForget
    <3>3. QED
      BY ONLY <1>a, <1>9, <3>1, <3>2
  <2>3. running'[d] = running[d]
    BY <1>a, <1>9 DEF Strand, Begin, RunWatch, RunReplace, RunUnwatch, RunReply, RunDone, RunForget,
                At, Replies
  <2>4. posted'[d] = posted[d] /\ books'[d] = books[d]
    BY <1>a, <1>9 DEF Strand, Begin, RunWatch, RunReplace, RunUnwatch, RunReply, RunDone, RunForget,
                SendBook, Send
  <2>5. \A id \in Ids : d \in watchers'[id] => d \in watchers[id]
    BY <1>b, <1>9 DEF Strand, Begin, RunWatch, RunReplace, RunUnwatch, RunReply, RunDone, RunForget,
                Unwatched
  <2>6. QED
    BY <2>1, <2>2, <2>3, <2>4, <2>5 DEF Untouched, KeepsAccept, KeepsSocket, KeepsStrand,
                                        KeepsWatched, KeepsPosted, KeepsOutgoing
<1>10. CASE RetryAccept \/ Destroy \/ NetworkEnds \/ CommandsEnd
  BY <1>2, <1>10 DEF RetryAccept, Destroy, NetworkEnds, CommandsEnd, acceptUnchanged,
                     destructorUnchanged, closesNone, streamVars, queueVars, boundVars
<1>11. ASSUME NEW id \in Ids, Publish(id), d \notin watchers[id] PROVE Untouched(d)
  <2>1. posted'[d] = posted[d] /\ books'[d] = books[d]
    BY <1>11 DEF Publish
  <2>2. UNCHANGED <<accepted, sessions, conn, closed, ready, commands, pending, strand,
                    running, watched, watchers, outgoing, sequence, client>>
    BY <1>11 DEF Publish, streamUnchanged, acceptVars, socketVars, queueVars, commandVars, boundVars
  <2>3. QED
    BY <2>1, <2>2 DEF Untouched, KeepsAccept, KeepsSocket, KeepsStrand,
                      KeepsWatched, KeepsPosted, KeepsOutgoing
<1>12. ASSUME NEW id \in Ids, EndStream(id) PROVE Untouched(d)
  <2>1. \A i \in Ids : watchers'[i] \subseteq watchers[i]
    BY <1>b, <1>12 DEF EndStream
  <2>2. QED
    BY <1>2, <1>12, <2>1 DEF EndStream, streamUnchanged, acceptVars, socketVars, queueVars,
                             commandVars, boundVars
<1>13. CASE StopHandler /\ (d \notin sessions \/ closed[d])
  <2>1. UNCHANGED <<accepted, sessions, conn, ready, commands, pending, running, watched, watchers,
                    posted, books, sequence>> /\ Close(sessions)
    BY <1>13 DEF StopHandler, destructorUnchanged, streamVars, boundVars
  <2>2. closed'[d] = (closed[d] \/ d \in sessions)
    BY <2>1, CloseEffect
  <2>3. closed'[d] = closed[d]
    BY ONLY <1>b, <1>13, <2>2
  <2>4. strand'[d] = strand[d] /\ outgoing'[d] = outgoing[d] /\ client'[d] = client[d]
    BY <1>13, <2>1, CloseEffect
  <2>5. QED
    BY <2>1, <2>3, <2>4 DEF Untouched, KeepsAccept, KeepsSocket, KeepsStrand,
                            KeepsWatched, KeepsPosted, KeepsOutgoing
<1>14. CASE UNCHANGED vars
  BY <1>2, <1>14 DEF vars, acceptVars, socketVars, queueVars, commandVars, streamVars, boundVars
<1>15. CASE \E c \in Sessions :
              \/ Connects(c) \/ AcceptFails(c) \/ HandshakeDone(c) \/ ConnectionFails(c)
              \/ \E command \in Commands : CommandArrives(c, command)
              \/ HeartbeatHandler(c) \/ WriteHandler(c)
              \/ Handler(c) \/ Strand(c)
  BY <1>1, <1>3, <1>4, <1>5, <1>6, <1>7, <1>8, <1>9, <1>15 DEF Handler, Strand, Own
<1>16. QED
  BY <1>10, <1>11, <1>12, <1>13, <1>14, <1>15 DEF Next, Destructor, Own

-----------------------------------------------------------------------------
(* The order of a strand. *)
LEMMA Queues ==
  ASSUME NEW queue \in Seq(Named), ForgetsLast(queue), ~Ending(queue), NEW q \in Named
  PROVE  /\ q.kind # "forget" => ForgetsLast(Append(queue, q)) /\ ~Ending(Append(queue, q))
         /\ ForgetsLast(Append(queue, Forget)) /\ Ending(Append(queue, Forget))
<1>1. Forget \in Named /\ Forget.kind = "forget"
  BY DEF Forget, Named
<1>2. ASSUME NEW r \in Named
      PROVE  /\ Append(queue, r) \in Seq(Named) /\ Len(Append(queue, r)) = Len(queue) + 1
             /\ Append(queue, r) # <<>> /\ Append(queue, r)[Len(queue) + 1] = r
             /\ \A i \in 1..Len(queue) : Append(queue, r)[i] = queue[i]
  BY ONLY <1>2, queue \in Seq(Named)
<1>3. \A i \in 1..Len(queue) : queue[i].kind # "forget"
  BY DEF Ending, ForgetsLast
<1>4. Len(queue) \in Nat
  BY ONLY queue \in Seq(Named)
<1>5. ASSUME NEW r \in Named, r.kind = "forget" => r = Forget PROVE ForgetsLast(Append(queue, r))
  BY ONLY <1>2, <1>3, <1>4, <1>5 DEF ForgetsLast
<1>6. ASSUME NEW r \in Named PROVE Ending(Append(queue, r)) <=> r = Forget
  BY ONLY <1>2, <1>4, <1>6 DEF Ending
<1>7. QED
  BY ONLY <1>1, <1>5, <1>6, q \in Named

(* What is taken from a strand leaves the Forget() last. *)
LEMMA Unqueues ==
  ASSUME NEW queue \in Seq(Named), ForgetsLast(queue), queue # <<>>
  PROVE  /\ ForgetsLast(Tail(queue))
         /\ Ending(Tail(queue)) => Ending(queue)
         /\ Head(queue).kind = "forget" => Tail(queue) = <<>> /\ Ending(queue)
         /\ Head(queue).kind # "forget" /\ Ending(queue) => Ending(Tail(queue))
<1>1. PICK n \in Nat : n = Len(queue) /\ n >= 1
  BY ONLY queue \in Seq(Named), queue # <<>>
<1>2. PICK rest \in Seq(Named) : rest = Tail(queue)
  BY ONLY HeadTailProperties, queue \in Seq(Named), queue # <<>>
<1>3. Len(rest) = n - 1 /\ \A i \in 1..(n - 1) : rest[i] = queue[i + 1]
  <2>1. Len(Tail(queue)) = Len(queue) - 1
        /\ \A i \in 1..Len(Tail(queue)) : Tail(queue)[i] = queue[i + 1]
    BY ONLY HeadTailProperties, queue \in Seq(Named), queue # <<>>
  <2>2. QED
    BY ONLY <1>1, <1>2, <2>1
<1>4. Head(queue) = queue[1]
  BY ONLY queue \in Seq(Named), queue # <<>>
<1>5. ForgetsLast(rest)
  BY ONLY <1>1, <1>3, ForgetsLast(queue) DEF ForgetsLast
<1>6. n > 1 => rest[n - 1] = queue[n] /\ rest # <<>>
  BY ONLY <1>1, <1>3
<1>7. n = 1 => rest = <<>>
  BY ONLY <1>3, rest \in Seq(Named)
<1>8. Forget.kind = "forget"
  BY DEF Forget
<1>9. QED
  BY ONLY <1>1, <1>2, <1>3, <1>4, <1>5, <1>6, <1>7, <1>8, ForgetsLast(queue), queue # <<>>
     DEF ForgetsLast, Ending

-----------------------------------------------------------------------------
(* What each step does to the connection it concerns. *)
Closes(d) ==
  /\ ~closed[d] /\ closed'[d] = TRUE
  /\ strand'[d] = Append(strand[d], Forget)
  /\ outgoing'[d] = <<>> /\ client'[d] = NewClient

Enqueued(d, payload) ==
  \/ closed[d] /\ closed'[d] = closed[d] /\ strand'[d] = strand[d] /\ KeepsOutgoing(d)
  \/ /\ ~closed[d] /\ closed'[d] = closed[d] /\ strand'[d] = strand[d]
     /\ payload.kind = "book" /\ sequence'[d] = sequence[d] + 1
     /\ outgoing'[d] = outgoing[d] /\ client'[d] = client[d]
  \/ Closes(d)
  \/ /\ ~closed[d] /\ closed'[d] = closed[d] /\ strand'[d] = strand[d]
     /\ Len(outgoing[d]) < MaxBacklog
     /\ outgoing'[d] = Append(outgoing[d], Frame(sequence[d], payload))
     /\ client'[d] = client[d] /\ sequence'[d] = sequence[d] + 1

(* Close(), of a connection it closes. *)
LEMMA ClosesAt ==
  ASSUME TypeInv, NEW cs, NEW d \in Sessions, d \in cs, ~closed[d], Close(cs)
  PROVE  Closes(d)
BY CloseEffect DEF Closes

(* Enqueue(), of its connection. *)
LEMMA EnqueuedAt ==
  ASSUME TypeInv, NEW d \in Sessions, NEW payload \in Payload, Enqueue(d, payload)
  PROVE  Enqueued(d, payload)
<1>0. outgoing \in [Sessions -> Seq(Numbered)] /\ sequence \in [Sessions -> Nat]
  BY DEF TypeInv, FramesTypeOK
<1>1. CASE Close({d}) /\ ~closed[d]
  BY <1>1, ClosesAt DEF Enqueued
<1>2. CASE UNCHANGED <<outgoing, sequence, closed, strand, client>> /\ closed[d]
  BY <1>2 DEF Enqueued, KeepsOutgoing
<1>3. CASE /\ ~closed[d] /\ payload.kind = "book"
           /\ sequence' = [sequence EXCEPT ![d] = @ + 1]
           /\ UNCHANGED <<outgoing, closed, strand, client>>
  <2>1. sequence'[d] = sequence[d] + 1
    BY ONLY <1>0, <1>3, d \in Sessions
  <2>2. QED
    BY <1>3, <2>1 DEF Enqueued
<1>4. CASE /\ ~closed[d] /\ Len(outgoing[d]) < MaxBacklog
           /\ outgoing' = [outgoing EXCEPT ![d] = Append(@, Frame(sequence[d], payload))]
           /\ sequence' = [sequence EXCEPT ![d] = @ + 1]
           /\ UNCHANGED <<closed, strand, client>>
  <2>1. /\ outgoing'[d] = Append(outgoing[d], Frame(sequence[d], payload))
        /\ sequence'[d] = sequence[d] + 1
    BY ONLY <1>0, <1>4, d \in Sessions
  <2>2. QED
    BY <1>4, <2>1 DEF Enqueued
<1>5. QED
  BY <1>1, <1>2, <1>3, <1>4, EnqueueEffect

(* An accept and its handler: a session is started or refused. *)
LEMMA AcceptAt ==
  ASSUME TypeInv, NEW d \in Sessions, Connects(d) \/ AcceptHandler(d)
  PROVE  /\ KeepsSocket(d) /\ KeepsStrand(d) /\ KeepsWatched(d) /\ KeepsPosted(d)
         /\ KeepsOutgoing(d)
         /\ \/ conn[d] = "none" /\ conn'[d] = conn[d] /\ sessions' = sessions
            \/ /\ d \in accepted /\ d \notin accepted' /\ acceptor # "closed"
               /\ d \in sessions' /\ conn'[d] = "handshake"
            \/ /\ d \in accepted /\ d \notin accepted' /\ sessions' = sessions
               /\ conn'[d] = "refused"
<1>1. UNCHANGED <<closed, ready, commands, pending, strand, running, watched, watchers, posted,
                  books, outgoing, sequence, client>>
  BY DEF Connects, AcceptHandler, acceptUnchanged, queueVars, streamVars, boundVars
<1>2. conn \in [Sessions -> {"none", "handshake", "open", "refused"}]
  BY DEF TypeInv, ConnectionsTypeOK
<1>3. QED
  BY <1>1, <1>2 DEF Connects, AcceptHandler, StillAccepting, KeepsSocket, KeepsStrand, KeepsWatched,
                    KeepsPosted, KeepsOutgoing

(* The handshake and its handler. *)
LEMMA HandshakeAt ==
  ASSUME TypeInv, NEW d \in Sessions, HandshakeDone(d) \/ HandshakeHandler(d)
  PROVE  /\ sessions' = sessions /\ accepted' = accepted
         /\ conn[d] = "handshake" /\ conn'[d] \in {"handshake", "open"}
         /\ closed'[d] = closed[d] /\ commands'[d] = commands[d]
         /\ conn'[d] = "open" => ready'[d] = <<>>
         /\ KeepsStrand(d) /\ KeepsWatched(d) /\ KeepsPosted(d) /\ KeepsOutgoing(d)
<1>1. UNCHANGED <<accepted, sessions, closed, commands, pending, strand, running, watched, watchers,
                  posted, books, outgoing, sequence, client>>
  BY DEF HandshakeDone, HandshakeHandler, sessionUnchanged, queueVars, streamVars, boundVars
<1>2. conn \in [Sessions -> {"none", "handshake", "open", "refused"}]
      /\ ready = [c \in Sessions |-> ready[c]]
  BY DEF TypeInv, ConnectionsTypeOK, ReadyTypeOK
<1>3. /\ conn[d] = "handshake" /\ conn'[d] \in {"handshake", "open"}
      /\ conn'[d] = "open" => ready'[d] = <<>>
  BY <1>2 DEF HandshakeDone, HandshakeHandler
<1>4. QED
  BY <1>1, <1>3 DEF KeepsStrand, KeepsWatched, KeepsPosted, KeepsOutgoing

(* A command arrives. *)
LEMMA ArrivesAt ==
  ASSUME TypeInv, NEW d \in Sessions, NEW command \in Commands, CommandArrives(d, command)
  PROVE  /\ conn[d] = "open" /\ ~closed[d] /\ ready[d] = <<>> /\ ready'[d] # <<>>
         /\ closed'[d] = closed[d] /\ commands'[d] = commands[d] + 1 /\ commands[d] \in Nat
         /\ KeepsAccept(d) /\ KeepsStrand(d) /\ KeepsWatched(d) /\ KeepsPosted(d)
         /\ KeepsOutgoing(d)
<1>1. UNCHANGED <<accepted, sessions, conn, closed, pending, strand, running, watched, watchers,
                  posted, books, outgoing, sequence, client>>
  BY DEF CommandArrives, sessionUnchanged, queueVars, streamVars
<1>2. commands \in [Sessions -> Nat] /\ ready = [c \in Sessions |-> ready[c]]
  BY DEF TypeInv, ReadyTypeOK
<1>3. /\ conn[d] = "open" /\ ~closed[d] /\ ready[d] = <<>>
      /\ commands' = [commands EXCEPT ![d] = @ + 1]
      /\ \E q : ready' = [ready EXCEPT ![d] = <<q>>]
  BY DEF CommandArrives, Open
<1>4. commands'[d] = commands[d] + 1 /\ commands[d] \in Nat /\ ready'[d] # <<>>
  BY ONLY <1>2, <1>3, d \in Sessions
<1>5. QED
  BY <1>1, <1>3, <1>4 DEF KeepsAccept, KeepsStrand, KeepsWatched, KeepsPosted, KeepsOutgoing

(* The command is queued, or one too many, or read too late. *)
LEMMA ReadAt ==
  ASSUME TypeInv, NEW d \in Sessions, ReadHandler(d)
  PROVE  /\ conn[d] = "open" /\ ready[d] # <<>> /\ ready'[d] = <<>>
         /\ commands'[d] = commands[d] /\ running'[d] = running[d]
         /\ KeepsAccept(d) /\ KeepsWatched(d) /\ KeepsPosted(d)
         /\ \/ closed[d] /\ closed'[d] = closed[d] /\ KeepsStrand(d) /\ KeepsOutgoing(d)
            \/ Closes(d) /\ pending'[d] = pending[d]
            \/ /\ ~closed[d] /\ closed'[d] = closed[d] /\ KeepsOutgoing(d)
               /\ pending[d] < MaxPending /\ pending'[d] = pending[d] + 1
               /\ ready[d][1] \in Command /\ ready[d][1].n = commands[d]
               /\ strand'[d] = Append(strand[d], ready[d][1])
<1>1. UNCHANGED <<accepted, sessions, conn, commands, running, watched, watchers, posted, books,
                  sequence>>
  BY DEF ReadHandler, sessionUnchanged, streamVars, boundVars
<1>2. /\ pending \in [Sessions -> Int] /\ ready = [c \in Sessions |-> ready[c]]
      /\ strand \in [Sessions -> Seq(Named)] /\ MaxPending \in Nat
  BY ServerAssumption DEF TypeInv, ReadyTypeOK, StrandTypeOK
<1>3. conn[d] = "open" /\ ready[d] # <<>> /\ ready' = [ready EXCEPT ![d] = <<>>]
  BY DEF ReadHandler
<1>4. ready'[d] = <<>>
  BY ONLY <1>2, <1>3, d \in Sessions
<1>5. ready[d][1] \in Command /\ ready[d][1].n = commands[d]
  BY <1>3 DEF TypeInv, ReadyTypeOK
<1>6. CASE closed[d]
  BY <1>1, <1>3, <1>4, <1>6 DEF ReadHandler, StillReading, KeepsAccept, KeepsStrand, KeepsWatched,
                                KeepsPosted, KeepsOutgoing
<1>7. CASE ~closed[d] /\ pending[d] >= MaxPending
  <2>1. Closes(d) /\ pending'[d] = pending[d]
    BY <1>7, ClosesAt DEF ReadHandler, StillReading
  <2>2. QED
    BY <1>1, <1>3, <1>4, <2>1 DEF KeepsAccept, KeepsWatched, KeepsPosted
<1>8. CASE ~closed[d] /\ ~(pending[d] >= MaxPending)
  <2>1. /\ pending' = [pending EXCEPT ![d] = @ + 1]
        /\ strand' = [strand EXCEPT ![d] = Append(@, ready[d][1])]
        /\ UNCHANGED <<closed, outgoing, client>>
    BY <1>8 DEF ReadHandler, StillReading
  <2>2. pending'[d] = pending[d] + 1 /\ strand'[d] = Append(strand[d], ready[d][1])
    BY ONLY <1>2, <2>1, d \in Sessions
  <2>3. pending[d] < MaxPending
    BY ONLY <1>2, <1>8, d \in Sessions
  <2>4. QED
    BY <1>1, <1>3, <1>4, <1>5, <1>8, <2>1, <2>2, <2>3
       DEF KeepsAccept, KeepsWatched, KeepsPosted, KeepsOutgoing
<1>9. QED
  BY <1>6, <1>7, <1>8

(* The connection is closed, as it failed or the server stops. *)
LEMMA FailsAt ==
  ASSUME TypeInv, NEW d \in Sessions,
         ConnectionFails(d) \/ (d \in sessions /\ ~closed[d] /\ StopHandler)
  PROVE  /\ conn[d] \in {"handshake", "open"} \/ d \in sessions
         /\ Closes(d)
         /\ KeepsAccept(d) /\ ready'[d] = ready[d] /\ commands'[d] = commands[d]
         /\ pending'[d] = pending[d] /\ running'[d] = running[d]
         /\ KeepsWatched(d) /\ KeepsPosted(d)
<1>1. UNCHANGED <<accepted, sessions, conn, ready, commands, pending, running, watched, watchers,
                  posted, books, sequence>>
  BY DEF ConnectionFails, StopHandler, sessionUnchanged, destructorUnchanged, streamVars, boundVars
<1>2. Closes(d)
  BY ClosesAt DEF ConnectionFails, StopHandler
<1>3. QED
  BY <1>1, <1>2 DEF KeepsAccept, KeepsWatched, KeepsPosted, ConnectionFails

(* What was sent is queued on the network thread. *)
LEMMA EnqueueAt ==
  ASSUME TypeInv, NEW d \in Sessions, EnqueueHandler(d)
  PROVE  /\ posted[d] # <<>> /\ Head(posted[d]) \in Payload /\ Enqueued(d, Head(posted[d]))
         /\ posted'[d] = Tail(posted[d]) /\ books'[d] = books[d]
         /\ KeepsAccept(d) /\ ready'[d] = ready[d] /\ commands'[d] = commands[d]
         /\ pending'[d] = pending[d] /\ running'[d] = running[d] /\ KeepsWatched(d)
<1>1. UNCHANGED <<accepted, sessions, conn, ready, commands, pending, running, watched, watchers,
                  books>>
  BY DEF EnqueueHandler, sessionUnchanged, streamVars, boundVars
<1>2. posted[d] # <<>> /\ Enqueue(d, Head(posted[d]))
      /\ posted' = [posted EXCEPT ![d] = Tail(posted[d])]
  BY DEF EnqueueHandler
<1>3. posted \in [Sessions -> Seq(Payload)]
  BY DEF TypeInv, FramesTypeOK
<1>4. posted'[d] = Tail(posted[d]) /\ Head(posted[d]) \in Payload
  BY ONLY <1>2, <1>3, d \in Sessions
<1>5. Enqueued(d, Head(posted[d]))
  BY <1>2, <1>4, EnqueuedAt
<1>6. QED
  BY <1>1, <1>2, <1>4, <1>5 DEF KeepsAccept, KeepsWatched

(* A heartbeat is queued. *)
LEMMA HeartbeatAt ==
  ASSUME TypeInv, NEW d \in Sessions, HeartbeatHandler(d)
  PROVE  /\ conn[d] = "open" /\ ~closed[d] /\ Heartbeat \in Payload /\ Enqueued(d, Heartbeat)
         /\ KeepsAccept(d) /\ ready'[d] = ready[d] /\ commands'[d] = commands[d]
         /\ pending'[d] = pending[d] /\ running'[d] = running[d] /\ KeepsWatched(d)
         /\ KeepsPosted(d)
<1>1. UNCHANGED <<accepted, sessions, conn, ready, commands, pending, running, watched, watchers,
                  posted, books>>
  BY DEF HeartbeatHandler, sessionUnchanged, streamVars, boundVars
<1>2. Heartbeat \in Payload
  BY DEF Heartbeat, Payload
<1>3. QED
  BY <1>1, <1>2, EnqueuedAt DEF HeartbeatHandler, Open, KeepsAccept, KeepsWatched, KeepsPosted

(* A frame is written. *)
LEMMA WriteAt ==
  ASSUME TypeInv, NEW d \in Sessions, WriteHandler(d)
  PROVE  /\ conn[d] = "open" /\ ~closed[d]
         /\ KeepsAccept(d) /\ KeepsSocket(d) /\ KeepsStrand(d) /\ KeepsWatched(d)
         /\ KeepsPosted(d)
BY DEF WriteHandler, Open, sessionUnchanged, streamVars, boundVars,
       KeepsAccept, KeepsSocket, KeepsStrand, KeepsWatched, KeepsPosted

(* The strand takes its next command. *)
LEMMA BeginAt ==
  ASSUME TypeInv, NEW d \in Sessions, Begin(d)
  PROVE  /\ KeepsAccept(d) /\ KeepsSocket(d) /\ pending'[d] = pending[d] /\ KeepsWatched(d)
         /\ KeepsPosted(d) /\ KeepsOutgoing(d)
         /\ running[d] = <<>> /\ strand[d] # <<>> /\ Head(strand[d]) \in Named
         /\ strand'[d] = Tail(strand[d])
         /\ \E r \in Running :
              /\ running'[d] = <<r>>
              /\ r.at = Head(strand[d]).kind /\ r.id = Head(strand[d]).id
              /\ r.n = Head(strand[d]).n /\ r.watching = Same
<1>1. UNCHANGED <<accepted, sessions, conn, closed, ready, commands, pending, watched, watchers,
                  posted, books, outgoing, sequence, client>>
  BY DEF Begin, queueVars, boundVars
<1>2. PICK first : first = Head(strand[d])
  OBVIOUS
<1>3. PICK r : r = [kind |-> first.kind, id |-> first.id, n |-> first.n, at |-> first.kind,
                    watching |-> Same]
  OBVIOUS
<1>4. /\ running[d] = <<>> /\ strand[d] # <<>> /\ first \in Named /\ r \in Running
      /\ running' = [running EXCEPT ![d] = <<r>>] /\ strand'[d] = Tail(strand[d])
  BY <1>2, <1>3, BeginEffect
<1>5. running'[d] = <<r>>
  BY <1>4, RunningPut DEF TypeInv
<1>6. r.at = first.kind /\ r.id = first.id /\ r.n = first.n /\ r.watching = Same
  BY ONLY <1>3
<1>7. QED
  BY <1>1, <1>2, <1>4, <1>5, <1>6
     DEF KeepsAccept, KeepsSocket, KeepsWatched, KeepsPosted, KeepsOutgoing

(* A watch fails, or its StreamInfo and its first Book are sent. *)
LEMMA WatchAt ==
  ASSUME TypeInv, NEW d \in Sessions, RunWatch(d)
  PROVE  /\ KeepsAccept(d) /\ KeepsSocket(d) /\ pending'[d] = pending[d]
         /\ strand'[d] = strand[d] /\ watched'[d] = watched[d] /\ KeepsOutgoing(d)
         /\ running[d] # <<>> /\ running[d][1].at = "watch"
         /\ \E r \in Running :
              /\ running'[d] = <<r>> /\ r.id = running[d][1].id /\ r.n = running[d][1].n
              /\ r.watching = running[d][1].watching
              /\ \/ r.at = "reply" /\ KeepsWatched(d) /\ KeepsPosted(d)
                 \/ /\ r.at = "replace" /\ r.id \in Ids
                    /\ <<StreamInfo(r.id), Book(r.id, books[d] + 1)>> \in Seq(Payload)
                    /\ posted'[d] = posted[d] \o <<StreamInfo(r.id), Book(r.id, books[d] + 1)>>
                    /\ books'[d] = books[d] + 1
                    /\ \A id \in Ids : d \in watchers'[id] => d \in watchers[id] \/ id = r.id
<1>1. UNCHANGED <<accepted, sessions, conn, closed, ready, commands, pending, strand, watched,
                  outgoing, sequence, client>>
  BY DEF RunWatch, strandUnchanged, socketVars, queueVars, boundVars
<1>2. KeepsAccept(d) /\ KeepsSocket(d) /\ KeepsOutgoing(d)
  BY <1>1 DEF KeepsAccept, KeepsSocket, KeepsOutgoing
<1>3. running[d] # <<>> /\ running[d][1].at = "watch" /\ running[d][1].id \in Ids
  BY RunWatchEffect
<1>4. CASE UNCHANGED <<posted, books, watchers>> /\ At(d, "reply")
  <2>1. PICK r \in Running :
          /\ running' = [running EXCEPT ![d] = <<r>>]
          /\ r.at = "reply" /\ r.watching = running[d][1].watching
          /\ r.id = running[d][1].id /\ r.n = running[d][1].n
    BY <1>3, <1>4, GoesOn
  <2>2. running'[d] = <<r>>
    BY <2>1, RunningPut DEF TypeInv
  <2>3. KeepsWatched(d) /\ KeepsPosted(d)
    BY <1>1, <1>4 DEF KeepsWatched, KeepsPosted
  <2>4. QED
    BY <1>1, <1>2, <1>3, <2>1, <2>2, <2>3
<1>5. CASE \E id \in Ids :
             /\ id = running[d][1].id
             /\ Send(d, <<StreamInfo(id), Book(id, books[d] + 1)>>)
             /\ <<StreamInfo(id), Book(id, books[d] + 1)>> \in Seq(Payload)
             /\ books' = [books EXCEPT ![d] = @ + 1]
             /\ watchers' = [watchers EXCEPT ![id] = @ \cup {d}]
             /\ At(d, "replace")
  <2>1. PICK id \in Ids :
             /\ id = running[d][1].id
             /\ Send(d, <<StreamInfo(id), Book(id, books[d] + 1)>>)
             /\ <<StreamInfo(id), Book(id, books[d] + 1)>> \in Seq(Payload)
             /\ books' = [books EXCEPT ![d] = @ + 1]
             /\ watchers' = [watchers EXCEPT ![id] = @ \cup {d}]
             /\ At(d, "replace")
    BY <1>5
  <2>2. PICK r \in Running :
          /\ running' = [running EXCEPT ![d] = <<r>>]
          /\ r.at = "replace" /\ r.watching = running[d][1].watching
          /\ r.id = running[d][1].id /\ r.n = running[d][1].n
    BY <1>3, <2>1, GoesOn
  <2>3. running'[d] = <<r>> /\ r.id = id
    BY <2>1, <2>2, RunningPut DEF TypeInv
  <2>4. posted'[d] = posted[d] \o <<StreamInfo(id), Book(id, books[d] + 1)>>
    BY <2>1, SendEffect
  <2>5. books \in [Sessions -> Nat] /\ watchers \in [Ids -> SUBSET Sessions]
    BY DEF TypeInv, FramesTypeOK, StrandTypeOK
  <2>6. books'[d] = books[d] + 1
        /\ \A i \in Ids : d \in watchers'[i] => d \in watchers[i] \/ i = id
    BY ONLY <2>1, <2>5, d \in Sessions
  <2>7. QED
    BY ONLY <1>1, <1>2, <1>3, <2>1, <2>2, <2>3, <2>4, <2>6
<1>6. QED
  BY <1>4, <1>5, RunWatchEffect

(* The stream watched before is left, for another or for none. *)
LEMMA ReplaceAt ==
  ASSUME TypeInv, NEW d \in Sessions, RunReplace(d) \/ RunUnwatch(d)
  PROVE  /\ KeepsAccept(d) /\ KeepsSocket(d) /\ pending'[d] = pending[d]
         /\ strand'[d] = strand[d] /\ KeepsPosted(d) /\ KeepsOutgoing(d)
         /\ running[d] # <<>> /\ running[d][1].at \in {"replace", "unwatch"}
         /\ running[d][1].id \in Ids \/ running[d][1].at = "unwatch"
         /\ \E r \in Running :
              /\ running'[d] = <<r>> /\ r.at = "reply" /\ r.n = running[d][1].n
              /\ r.watching = watched'[d] /\ watched'[d] \in Ids \cup {0}
              /\ running[d][1].at = "replace" => watched'[d] = running[d][1].id
              /\ running[d][1].at = "unwatch" => watched'[d] = 0
         /\ \A id \in Ids :
              d \in watchers'[id] =>
                d \in watchers[id]
                /\ (id # watched[d] \/ (running[d][1].at = "replace" /\ id = running[d][1].id))
<1>1. UNCHANGED <<accepted, sessions, conn, closed, ready, commands, pending, strand, posted, books,
                  outgoing, sequence, client>>
  BY DEF RunReplace, RunUnwatch, strandUnchanged, socketVars, queueVars, boundVars
<1>2. KeepsAccept(d) /\ KeepsSocket(d) /\ KeepsOutgoing(d) /\ KeepsPosted(d)
  BY <1>1 DEF KeepsAccept, KeepsSocket, KeepsOutgoing, KeepsPosted
<1>3. running[d] # <<>> /\ running[d][1].at \in {"replace", "unwatch"}
      /\ running[d][1] \in Running
  BY RunsType DEF RunReplace, RunUnwatch, Runs, TypeInv
<1>4. running[d][1].at = "replace" => running[d][1].id \in Ids
  BY <1>3 DEF Running
<1>5. watched \in [Sessions -> Ids \cup {0}] /\ watchers \in [Ids -> SUBSET Sessions]
  BY DEF TypeInv, StrandTypeOK
<1>6. PICK w, gone : /\ w \in Ids \cup {0} /\ gone \in Ids \cup {0}
                     /\ Replies(d, w) /\ watched' = [watched EXCEPT ![d] = w]
                     /\ watchers' = Unwatched(gone, d)
                     /\ \/ running[d][1].at = "replace" /\ w = running[d][1].id
                           /\ gone = IF watched[d] = w THEN 0 ELSE watched[d]
                        \/ running[d][1].at = "unwatch" /\ w = 0 /\ gone = watched[d]
  <2>1. CASE RunReplace(d)
    <3>1. PICK id : id = running[d][1].id
      OBVIOUS
    <3>2. running[d][1].at = "replace" /\ Replies(d, id) /\ watched' = [watched EXCEPT ![d] = id]
          /\ watchers' = Unwatched(Replaced(d), d)
      BY <2>1, <3>1 DEF RunReplace, Runs
    <3>3. Replaced(d) = (IF watched[d] = id THEN 0 ELSE watched[d]) /\ id \in Ids
          /\ watched[d] \in Ids \cup {0}
      BY <1>4, <1>5, <3>1, <3>2 DEF Replaced
    <3>4. Replaced(d) \in Ids \cup {0}
      BY ONLY <3>3
    <3>5. QED
      BY ONLY <3>1, <3>2, <3>3, <3>4
  <2>2. CASE RunUnwatch(d)
    <3>1. running[d][1].at = "unwatch" /\ Replies(d, 0) /\ watched' = [watched EXCEPT ![d] = 0]
          /\ watchers' = Unwatched(watched[d], d)
      BY <2>2 DEF RunUnwatch, Runs
    <3>2. watched[d] \in Ids \cup {0}
      BY ONLY <1>5, d \in Sessions
    <3>3. QED
      BY ONLY <3>1, <3>2
  <2>3. QED
    BY <2>1, <2>2
<1>7. PICK r \in Running :
        /\ running' = [running EXCEPT ![d] = <<r>>]
        /\ r.at = "reply" /\ r.watching = w /\ r.n = running[d][1].n
  BY <1>3, <1>6, RepliesNext
<1>8. running'[d] = <<r>>
  BY <1>7, RunningPut DEF TypeInv
<1>9. watched'[d] = w
  BY ONLY <1>5, <1>6, d \in Sessions
<1>10. \A i \in Ids : watchers'[i] = IF i = gone THEN watchers[i] \ {d} ELSE watchers[i]
  BY <1>6, UnwatchedEffect
<1>11. ASSUME NEW id \in Ids, d \in watchers'[id]
       PROVE  d \in watchers[id]
              /\ (id # watched[d] \/ (running[d][1].at = "replace" /\ id = running[d][1].id))
  <2>1. watchers'[id] = IF id = gone THEN watchers[id] \ {d} ELSE watchers[id]
    BY ONLY <1>10, id \in Ids
  <2>2. id # gone /\ d \in watchers[id]
    BY ONLY <1>11, <2>1
  <2>3. CASE running[d][1].at = "replace" /\ w = running[d][1].id
             /\ gone = IF watched[d] = w THEN 0 ELSE watched[d]
    <3>1. CASE watched[d] = w
      BY ONLY <2>2, <2>3, <3>1
    <3>2. CASE watched[d] # w
      BY ONLY <2>2, <2>3, <3>2
    <3>3. QED
      BY <3>1, <3>2
  <2>4. CASE gone = watched[d]
    BY ONLY <2>2, <2>4
  <2>5. QED
    BY ONLY <1>6, <2>3, <2>4
<1>12. QED
  BY ONLY <1>1, <1>2, <1>3, <1>4, <1>6, <1>7, <1>8, <1>9, <1>11

(* A reply is sent. *)
LEMMA ReplyAt ==
  ASSUME TypeInv, NEW d \in Sessions, RunReply(d)
  PROVE  /\ KeepsAccept(d) /\ KeepsSocket(d) /\ pending'[d] = pending[d]
         /\ strand'[d] = strand[d] /\ KeepsWatched(d) /\ KeepsOutgoing(d)
         /\ books'[d] = books[d]
         /\ running[d] # <<>> /\ running[d][1].at \in {"reply", "other"}
         /\ running[d][1] \in Running
         /\ Reply(running[d][1].n, running[d][1].watching) \in Payload
         /\ posted'[d] = Append(posted[d], Reply(running[d][1].n, running[d][1].watching))
         /\ \E r \in Running : running'[d] = <<r>> /\ r.at = "done"
<1>1. UNCHANGED <<accepted, sessions, conn, closed, ready, commands, pending, strand, watched,
                  watchers, books, outgoing, sequence, client>>
  BY DEF RunReply, strandUnchanged, socketVars, queueVars, boundVars
<1>2. KeepsAccept(d) /\ KeepsSocket(d) /\ KeepsOutgoing(d) /\ KeepsWatched(d)
  BY <1>1 DEF KeepsAccept, KeepsSocket, KeepsOutgoing, KeepsWatched
<1>3. PICK p : p = Reply(running[d][1].n, running[d][1].watching)
  OBVIOUS
<1>4. /\ running[d] # <<>> /\ running[d][1].at \in {"reply", "other"}
      /\ p \in Payload /\ Send(d, <<p>>) /\ At(d, "done") /\ running[d][1] \in Running
  BY <1>3, RunReplyEffect
<1>5. <<p>> \in Seq(Payload)
  BY ONLY <1>4
<1>6. posted'[d] = posted[d] \o <<p>>
  BY <1>4, <1>5, SendEffect
<1>7. posted[d] \in Seq(Payload)
  BY DEF TypeInv, FramesTypeOK
<1>8. posted'[d] = Append(posted[d], p)
  BY ONLY <1>4, <1>6, <1>7, AppendIsConcat
<1>9. PICK r \in Running : running' = [running EXCEPT ![d] = <<r>>] /\ r.at = "done"
  BY <1>4, GoesOn
<1>10. running'[d] = <<r>>
  BY <1>9, RunningPut DEF TypeInv
<1>11. QED
  BY ONLY <1>1, <1>2, <1>3, <1>4, <1>8, <1>9, <1>10

(* A command is done. *)
LEMMA DoneAt ==
  ASSUME TypeInv, NEW d \in Sessions, RunDone(d)
  PROVE  /\ KeepsAccept(d) /\ KeepsSocket(d) /\ pending'[d] = pending[d] - 1
         /\ strand'[d] = strand[d] /\ KeepsWatched(d) /\ KeepsPosted(d) /\ KeepsOutgoing(d)
         /\ running[d] # <<>> /\ running[d][1].at = "done" /\ running'[d] = <<>>
<1>1. UNCHANGED <<accepted, sessions, conn, closed, ready, commands, strand, watched,
                  watchers, posted, books, outgoing, sequence, client>>
  BY DEF RunDone, strandUnchanged, socketVars, queueVars, boundVars
<1>2. /\ pending' = [pending EXCEPT ![d] = @ - 1] /\ running' = [running EXCEPT ![d] = <<>>]
      /\ running[d] # <<>> /\ running[d][1].at = "done"
  BY DEF RunDone, Runs
<1>3. pending \in [Sessions -> Int]
  BY DEF TypeInv, StrandTypeOK
<1>4. pending'[d] = pending[d] - 1
  BY ONLY <1>2, <1>3, d \in Sessions
<1>5. running'[d] = <<>>
  BY <1>2, RunningEmptied DEF TypeInv
<1>6. QED
  BY <1>1, <1>2, <1>4, <1>5
     DEF KeepsAccept, KeepsSocket, KeepsWatched, KeepsPosted, KeepsOutgoing

(* The connection is forgotten. *)
LEMMA ForgetAt ==
  ASSUME TypeInv, NEW d \in Sessions, RunForget(d)
  PROVE  /\ conn'[d] = conn[d] /\ accepted' = accepted /\ d \notin sessions'
         /\ KeepsSocket(d) /\ pending'[d] = pending[d]
         /\ strand'[d] = strand[d] /\ KeepsPosted(d) /\ KeepsOutgoing(d)
         /\ ForgetRuns(d) /\ running'[d] = <<>> /\ watched'[d] = 0
         /\ \A id \in Ids : d \in watchers'[id] => d \in watchers[id] /\ id # watched[d]
<1>1. UNCHANGED <<accepted, conn, closed, ready, commands, pending, strand, posted, books, outgoing,
                  sequence, client>>
  BY DEF RunForget, strandUnchanged, socketVars, queueVars, boundVars
<1>2. /\ running' = [running EXCEPT ![d] = <<>>] /\ watched' = [watched EXCEPT ![d] = 0]
      /\ watchers' = Unwatched(watched[d], d) /\ sessions' = sessions \ {d} /\ ForgetRuns(d)
  BY DEF RunForget, Runs, ForgetRuns
<1>3. watched \in [Sessions -> Ids \cup {0}]
  BY DEF TypeInv, StrandTypeOK
<1>4. watched'[d] = 0 /\ watched[d] \in Ids \cup {0}
  BY ONLY <1>2, <1>3, d \in Sessions
<1>5. \A i \in Ids : watchers'[i] = IF i = watched[d] THEN watchers[i] \ {d} ELSE watchers[i]
  BY <1>2, <1>4, UnwatchedEffect
<1>6. \A i \in Ids : d \in watchers'[i] => d \in watchers[i] /\ i # watched[d]
  BY ONLY <1>5
<1>7. running'[d] = <<>>
  BY <1>2, RunningEmptied DEF TypeInv
<1>8. QED
  BY <1>1, <1>2, <1>4, <1>6, <1>7 DEF KeepsSocket, KeepsPosted, KeepsOutgoing

(* A Book is sent to a connection that watches its stream. *)
LEMMA PublishAt ==
  ASSUME TypeInv, NEW d \in Sessions, NEW id \in Ids, d \in watchers[id], Publish(id)
  PROVE  /\ KeepsAccept(d) /\ KeepsSocket(d) /\ KeepsStrand(d) /\ KeepsWatched(d)
         /\ KeepsOutgoing(d)
         /\ books'[d] = books[d] + 1 /\ Book(id, books[d] + 1) \in Payload
         /\ posted'[d] = Append(posted[d], Book(id, books[d] + 1))
<1>1. UNCHANGED <<accepted, sessions, conn, closed, ready, commands, pending, strand, running,
                  watched, watchers, outgoing, sequence, client>>
  BY DEF Publish, streamUnchanged, acceptVars, socketVars, queueVars, commandVars, boundVars
<1>2. books'[d] = books[d] + 1 /\ posted'[d] = Append(posted[d], Book(id, books'[d]))
  BY DEF Publish
<1>3. books[d] + 1 \in Nat
  BY DEF TypeInv, FramesTypeOK
<1>4. Book(id, books[d] + 1) \in Payload
  BY <1>3 DEF Book, Payload
<1>5. QED
  BY <1>1, <1>2, <1>4 DEF KeepsAccept, KeepsSocket, KeepsStrand, KeepsWatched, KeepsOutgoing

(* What was sent since the network thread ended is dropped. *)
LEMMA DropAt ==
  ASSUME TypeInv, NEW d \in Sessions, DropReplies
  PROVE  /\ KeepsAccept(d) /\ KeepsSocket(d) /\ KeepsStrand(d) /\ KeepsWatched(d)
         /\ KeepsOutgoing(d) /\ books'[d] = books[d] /\ posted'[d] = <<>>
         /\ server = "commandsEnded"
BY DEF DropReplies, destructorUnchanged, closesNone, streamVars, boundVars,
       KeepsAccept, KeepsSocket, KeepsStrand, KeepsWatched, KeepsOutgoing

-----------------------------------------------------------------------------
(* A connection is in sessions_ while it is connected and not forgotten.   *)
LEMMA JoinedStep ==
  ASSUME TypeInv, [Next]_vars, NEW d \in Sessions, SessionInv(d)
  PROVE  Joined(d)'
<1>a. Joined(d) /\ Leaving(d) /\ Watching(d)
  BY DEF SessionInv
<1>b. /\ conn[d] \in {"none", "handshake", "open", "refused"} /\ closed[d] \in BOOLEAN
      /\ 0 \notin Ids
  BY ServerAssumption DEF TypeInv, ConnectionsTypeOK
<1>c. ASSUME conn'[d] = conn[d], closed'[d] = closed[d] \/ conn[d] \in {"handshake", "open"},
             closed[d] => closed'[d],
             d \in accepted' => d \in accepted, d \in sessions' <=> d \in sessions,
             conn[d] \in {"none", "refused"} =>
               ready'[d] = ready[d] /\ (posted'[d] = posted[d] \/ posted'[d] = <<>>)
      PROVE  Joined(d)'
  BY <1>a, <1>b, <1>c DEF Joined
<1>1. CASE Untouched(d)
  BY <1>c, <1>1 DEF Untouched, KeepsAccept, KeepsSocket, KeepsPosted
<1>2. CASE Connects(d) \/ AcceptHandler(d)
  BY <1>a, <1>2, AcceptAt DEF Joined, KeepsSocket, KeepsPosted
<1>3. CASE HandshakeDone(d) \/ HandshakeHandler(d)
  BY <1>a, <1>3, HandshakeAt DEF Joined, KeepsPosted
<1>4. CASE \E command \in Commands : CommandArrives(d, command)
  BY <1>c, <1>4, ArrivesAt DEF KeepsAccept
<1>5. CASE ReadHandler(d)
  BY <1>b, <1>c, <1>5, ReadAt DEF KeepsAccept, Closes
<1>6. CASE ConnectionFails(d) \/ (d \in sessions /\ ~closed[d] /\ StopHandler)
  BY <1>a, <1>c, <1>6, FailsAt DEF KeepsAccept, Closes, Joined
<1>7. CASE EnqueueHandler(d)
  <2>1. conn[d] \notin {"none", "refused"}
    BY <1>a, <1>7, EnqueueAt DEF Joined
  <2>2. closed[d] => closed'[d]
    BY <1>7, EnqueueAt DEF Enqueued, Closes
  <2>3. QED
    BY <1>b, <1>c, <1>7, <2>1, <2>2, EnqueueAt DEF KeepsAccept
<1>8. CASE HeartbeatHandler(d)
  <2>2. closed[d] => closed'[d]
    BY <1>8, HeartbeatAt DEF Enqueued, Closes
  <2>3. QED
    BY <1>b, <1>c, <1>8, <2>2, HeartbeatAt DEF KeepsAccept
<1>9. CASE WriteHandler(d)
  BY <1>c, <1>9, WriteAt DEF KeepsAccept, KeepsSocket, KeepsPosted
<1>10. CASE Begin(d)
  BY <1>c, <1>10, BeginAt DEF KeepsAccept, KeepsSocket, KeepsPosted
<1>11. CASE RunWatch(d)
  <2>1. conn[d] \in {"handshake", "open"}
    BY <1>a, <1>11, WatchAt DEF Joined, Leaving
  <2>2. QED
    BY <1>c, <1>11, <2>1, WatchAt DEF KeepsAccept, KeepsSocket
<1>12. CASE RunReplace(d) \/ RunUnwatch(d)
  BY <1>c, <1>12, ReplaceAt DEF KeepsAccept, KeepsSocket, KeepsPosted
<1>13. CASE RunReply(d)
  <2>1. conn[d] \in {"handshake", "open"}
    BY <1>a, <1>13, ReplyAt DEF Joined, Leaving
  <2>2. QED
    BY <1>c, <1>13, <2>1, ReplyAt DEF KeepsAccept, KeepsSocket
<1>14. CASE RunDone(d)
  BY <1>c, <1>14, DoneAt DEF KeepsAccept, KeepsSocket, KeepsPosted
<1>15. CASE RunForget(d)
  <2>1. d \in sessions /\ closed[d]
    BY <1>a, <1>15, ForgetAt DEF Leaving, ForgetRuns
  <2>2. QED
    BY <1>a, <1>15, <2>1, ForgetAt DEF Joined, KeepsSocket, KeepsPosted
<1>16. CASE \E id \in Ids : d \in watchers[id] /\ Publish(id)
  <2>1. conn[d] \in {"handshake", "open"}
    BY <1>a, <1>b, <1>16 DEF Joined, Leaving, Watching
  <2>2. QED
    BY <1>c, <1>16, <2>1, PublishAt DEF KeepsAccept, KeepsSocket
<1>17. CASE DropReplies
  BY <1>c, <1>17, DropAt DEF KeepsAccept, KeepsSocket
<1>18. QED
  BY <1>1, <1>2, <1>3, <1>4, <1>5, <1>6, <1>7, <1>8, <1>9, <1>10, <1>11, <1>12, <1>13, <1>14,
     <1>15, <1>16, <1>17, StepAt DEF Own

(* A closed connection's Forget() is queued, last, until it runs.          *)
LEMMA LeavingStep ==
  ASSUME TypeInv, [Next]_vars, NEW d \in Sessions, SessionInv(d)
  PROVE  Leaving(d)'
<1>a. Joined(d) /\ Leaving(d) /\ Watching(d)
  BY DEF SessionInv
<1>b. closed[d] \in BOOLEAN /\ strand[d] \in Seq(Named)
  BY DEF TypeInv, ConnectionsTypeOK, StrandTypeOK
<1>c. ASSUME closed'[d] = closed[d], strand'[d] = strand[d],
             running'[d] = running[d], d \in sessions' <=> d \in sessions
      PROVE  Leaving(d)'
  BY <1>a, <1>c DEF Leaving, ForgetRuns
<1>d. ASSUME Closes(d), running'[d] = running[d], d \in sessions' <=> d \in sessions, d \in sessions
      PROVE  Leaving(d)'
  <2>1. ForgetsLast(strand'[d]) /\ Ending(strand'[d])
    <3>1. Forget \in Named
      BY DEF Forget, Named
    <3>2. ForgetsLast(strand[d]) /\ ~Ending(strand[d]) /\ strand'[d] = Append(strand[d], Forget)
      BY <1>a, <1>d DEF Leaving, Closes
    <3>3. QED
      BY <1>b, <3>1, <3>2, Queues
  <2>2. ~ForgetRuns(d)
    BY <1>a, <1>d DEF Leaving, Closes
  <2>3. QED
    BY <1>d, <2>1, <2>2 DEF Leaving, ForgetRuns, Closes
<1>e. ASSUME NEW payload, Enqueued(d, payload), running'[d] = running[d], KeepsAccept(d),
             d \in sessions \/ closed[d]
      PROVE  Leaving(d)'
  <2>1. CASE Closes(d)
    BY <1>d, <1>e, <2>1 DEF KeepsAccept, Closes
  <2>2. CASE ~Closes(d)
    <3>1. closed'[d] = closed[d] /\ strand'[d] = strand[d]
      BY <1>e, <2>2 DEF Enqueued
    <3>2. d \in sessions' <=> d \in sessions
      BY <1>e DEF KeepsAccept
    <3>3. QED
      BY <1>c, <1>e, <3>1, <3>2
  <2>3. QED
    BY <2>1, <2>2
<1>f. ASSUME closed'[d] = closed[d], strand'[d] = strand[d], running[d] # <<>>, ~ForgetRuns(d),
             NEW r \in Running, running'[d] = <<r>>, r.at # "forget",
             d \in sessions' <=> d \in sessions
      PROVE  Leaving(d)'
  <2>1. running'[d] # <<>> /\ running'[d][1] = r
    BY ONLY <1>f
  <2>2. QED
    BY <1>a, <1>f, <2>1 DEF Leaving, ForgetRuns
<1>1. CASE Untouched(d)
  BY <1>c, <1>1 DEF Untouched, KeepsAccept, KeepsSocket, KeepsStrand
<1>2. CASE Connects(d) \/ AcceptHandler(d)
  <2>1. ~closed[d]
    BY <1>a, <1>2, AcceptAt DEF Joined
  <2>2. closed'[d] = closed[d] /\ strand'[d] = strand[d] /\ running'[d] = running[d]
        /\ (d \in sessions => d \in sessions')
    BY <1>2, AcceptAt DEF KeepsSocket, KeepsStrand
  <2>3. QED
    BY <1>a, <2>1, <2>2 DEF Leaving, ForgetRuns
<1>3. CASE HandshakeDone(d) \/ HandshakeHandler(d)
  BY <1>c, <1>3, HandshakeAt DEF KeepsStrand
<1>4. CASE \E command \in Commands : CommandArrives(d, command)
  BY <1>c, <1>4, ArrivesAt DEF KeepsAccept, KeepsStrand
<1>5. CASE ReadHandler(d)
  <2>1. CASE closed[d] /\ closed'[d] = closed[d] /\ KeepsStrand(d)
    BY <1>c, <1>5, <2>1, ReadAt DEF KeepsAccept, KeepsStrand
  <2>2. CASE Closes(d)
    BY <1>a, <1>d, <1>5, <2>2, ReadAt DEF Joined, KeepsAccept, Closes
  <2>3. CASE /\ ~closed[d] /\ closed'[d] = closed[d] /\ ready[d][1] \in Command
             /\ strand'[d] = Append(strand[d], ready[d][1])
    <3>1. ready[d][1] \in Named /\ ready[d][1].kind # "forget"
      BY <2>3 DEF Command
    <3>2. ~Ending(strand[d]) /\ ForgetsLast(strand[d]) /\ ~ForgetRuns(d)
      BY <1>a, <2>3 DEF Leaving
    <3>3. ForgetsLast(strand'[d]) /\ ~Ending(strand'[d])
      BY <1>b, <2>3, <3>1, <3>2, Queues
    <3>4. d \in sessions /\ d \in sessions' /\ running'[d] = running[d]
      BY <1>a, <1>5, <2>3, ReadAt DEF Joined, KeepsAccept
    <3>5. QED
      BY <2>3, <3>2, <3>3, <3>4 DEF Leaving, ForgetRuns
  <2>4. QED
    BY <1>5, <2>1, <2>2, <2>3, ReadAt
<1>6. CASE ConnectionFails(d) \/ (d \in sessions /\ ~closed[d] /\ StopHandler)
  BY <1>a, <1>d, <1>6, FailsAt DEF Joined, KeepsAccept, Closes
<1>7. CASE EnqueueHandler(d)
  <2>1. d \in sessions \/ closed[d]
    BY <1>a, <1>7, EnqueueAt DEF Joined, TypeInv, ConnectionsTypeOK
  <2>2. QED
    BY <1>e, <1>7, <2>1, EnqueueAt
<1>8. CASE HeartbeatHandler(d)
  <2>1. d \in sessions
    BY <1>a, <1>8, HeartbeatAt DEF Joined
  <2>2. QED
    BY <1>e, <1>8, <2>1, HeartbeatAt
<1>9. CASE WriteHandler(d)
  BY <1>c, <1>9, WriteAt DEF KeepsAccept, KeepsSocket, KeepsStrand
<1>10. CASE Begin(d)
  <2>1. /\ strand[d] # <<>> /\ strand'[d] = Tail(strand[d]) /\ closed'[d] = closed[d]
        /\ d \in sessions' <=> d \in sessions
    BY <1>10, BeginAt DEF KeepsAccept, KeepsSocket
  <2>2. PICK r : running'[d] = <<r>> /\ r.at = Head(strand[d]).kind
    BY <1>10, BeginAt
  <2>3. running'[d] # <<>> /\ running'[d][1] = r
    BY ONLY <2>2
  <2>4. ForgetsLast(strand[d]) /\ ~ForgetRuns(d)
    BY <1>a, <1>10, BeginAt DEF Leaving, ForgetRuns
  <2>5. /\ ForgetsLast(strand'[d])
        /\ Ending(strand'[d]) => Ending(strand[d])
        /\ r.at = "forget" => strand'[d] = <<>> /\ Ending(strand[d])
        /\ r.at # "forget" /\ Ending(strand[d]) => Ending(strand'[d])
    BY <1>b, <2>1, <2>2, <2>4, Unqueues
  <2>6. d \in sessions
    BY <1>a, <2>1 DEF Leaving
  <2>7. QED
    BY <1>a, <2>1, <2>3, <2>4, <2>5, <2>6 DEF Leaving, ForgetRuns
<1>11. CASE RunWatch(d)
  <2>1. PICK r \in Running : running'[d] = <<r>> /\ r.at # "forget"
    BY <1>11, WatchAt
  <2>2. QED
    BY <1>f, <1>11, <2>1, WatchAt DEF ForgetRuns, KeepsAccept, KeepsSocket
<1>12. CASE RunReplace(d) \/ RunUnwatch(d)
  <2>1. PICK r \in Running : running'[d] = <<r>> /\ r.at # "forget"
    BY <1>12, ReplaceAt
  <2>2. QED
    BY <1>f, <1>12, <2>1, ReplaceAt DEF ForgetRuns, KeepsAccept, KeepsSocket
<1>13. CASE RunReply(d)
  <2>1. PICK r \in Running : running'[d] = <<r>> /\ r.at # "forget"
    BY <1>13, ReplyAt
  <2>2. QED
    BY <1>f, <1>13, <2>1, ReplyAt DEF ForgetRuns, KeepsAccept, KeepsSocket
<1>14. CASE RunDone(d)
  <2>1. /\ closed'[d] = closed[d] /\ strand'[d] = strand[d] /\ (d \in sessions' <=> d \in sessions)
        /\ running[d] # <<>> /\ ~ForgetRuns(d) /\ running'[d] = <<>>
    BY <1>14, DoneAt DEF ForgetRuns, KeepsAccept, KeepsSocket
  <2>2. QED
    BY <1>a, <2>1 DEF Leaving, ForgetRuns
<1>15. CASE RunForget(d)
  <2>1. /\ closed'[d] = closed[d] /\ strand'[d] = strand[d] /\ d \notin sessions'
        /\ ForgetRuns(d) /\ running'[d] = <<>>
    BY <1>15, ForgetAt DEF KeepsSocket
  <2>2. QED
    BY <1>a, <2>1 DEF Leaving, ForgetRuns
<1>16. CASE \E id \in Ids : d \in watchers[id] /\ Publish(id)
  BY <1>c, <1>16, PublishAt DEF KeepsAccept, KeepsSocket, KeepsStrand
<1>17. CASE DropReplies
  BY <1>c, <1>17, DropAt DEF KeepsAccept, KeepsSocket, KeepsStrand
<1>18. QED
  BY <1>1, <1>2, <1>3, <1>4, <1>5, <1>6, <1>7, <1>8, <1>9, <1>10, <1>11, <1>12, <1>13, <1>14,
     <1>15, <1>16, <1>17, StepAt DEF Own

(* A stream sends to a connection only while its commands know of it.      *)
LEMMA WatchingStep ==
  ASSUME TypeInv, [Next]_vars, NEW d \in Sessions, SessionInv(d)
  PROVE  Watching(d)'
<1>a. Joined(d) /\ Leaving(d) /\ Watching(d)
  BY DEF SessionInv
<1>b. 0 \notin Ids /\ watched[d] \in Ids \cup {0}
  BY ServerAssumption DEF TypeInv, StrandTypeOK
<1>c. ASSUME KeepsWatched(d), running'[d] = running[d], d \notin sessions' => d \notin sessions
      PROVE  Watching(d)'
  BY <1>a, <1>c DEF Watching, KeepsWatched
<1>d. ASSUME NEW r, running'[d] = <<r>>, running[d] # <<>>, KeepsWatched(d),
             d \in sessions' <=> d \in sessions,
             r.watching = running[d][1].watching,
             \/ running[d][1].at \in {"watch", "other"} /\ r.at = "reply"
             \/ running[d][1].at \in {"reply", "other"} /\ r.at = "done"
      PROVE  Watching(d)'
  <2>1. running'[d] # <<>> /\ running'[d][1] = r
    BY ONLY <1>d
  <2>2. QED
    BY <1>a, <1>d, <2>1 DEF Watching, KeepsWatched
<1>1. CASE Untouched(d)
  BY <1>c, <1>1 DEF Untouched, KeepsAccept, KeepsStrand
<1>2. CASE Connects(d) \/ AcceptHandler(d)
  <2>1. d \in sessions => d \in sessions'
    BY <1>2, AcceptAt
  <2>2. KeepsWatched(d) /\ running'[d] = running[d]
    BY <1>2, AcceptAt DEF KeepsStrand
  <2>3. QED
    BY <1>c, <2>1, <2>2
<1>3. CASE HandshakeDone(d) \/ HandshakeHandler(d)
  BY <1>c, <1>3, HandshakeAt DEF KeepsStrand
<1>4. CASE \E command \in Commands : CommandArrives(d, command)
  BY <1>c, <1>4, ArrivesAt DEF KeepsAccept, KeepsStrand
<1>5. CASE ReadHandler(d)
  BY <1>c, <1>5, ReadAt DEF KeepsAccept
<1>6. CASE ConnectionFails(d) \/ (d \in sessions /\ ~closed[d] /\ StopHandler)
  BY <1>c, <1>6, FailsAt DEF KeepsAccept
<1>7. CASE EnqueueHandler(d)
  BY <1>c, <1>7, EnqueueAt DEF KeepsAccept
<1>8. CASE HeartbeatHandler(d)
  BY <1>c, <1>8, HeartbeatAt DEF KeepsAccept
<1>9. CASE WriteHandler(d)
  BY <1>c, <1>9, WriteAt DEF KeepsAccept, KeepsStrand
<1>10. CASE Begin(d)
  <2>1. PICK r : running'[d] = <<r>> /\ r.watching = Same /\ r.at = Head(strand[d]).kind
    BY <1>10, BeginAt
  <2>2. running'[d] # <<>> /\ running'[d][1] = r
    BY ONLY <2>1
  <2>3. r.at # "reply"
    <3>1. Head(strand[d]) \in Named
      BY <1>10, BeginAt
    <3>2. QED
      BY <2>1, <3>1 DEF Named
  <2>4. KeepsWatched(d) /\ running[d] = <<>> /\ (d \in sessions' <=> d \in sessions)
    BY <1>10, BeginAt DEF KeepsAccept
  <2>5. QED
    BY <1>a, <2>1, <2>2, <2>3, <2>4 DEF Watching, KeepsWatched
<1>11. CASE RunWatch(d)
  <2>1. PICK r \in Running :
          /\ running'[d] = <<r>> /\ r.watching = running[d][1].watching
          /\ \/ r.at = "reply" /\ KeepsWatched(d)
             \/ /\ r.at = "replace"
                /\ \A id \in Ids : d \in watchers'[id] => d \in watchers[id] \/ id = r.id
    BY <1>11, WatchAt, ZenonT(60)
  <2>2. running'[d] # <<>> /\ running'[d][1] = r
    BY ONLY <2>1
  <2>3. /\ watched'[d] = watched[d] /\ running[d] # <<>> /\ running[d][1].at = "watch"
        /\ d \in sessions' <=> d \in sessions
    BY <1>11, WatchAt DEF KeepsAccept
  <2>4. CASE r.at = "reply" /\ KeepsWatched(d)
    BY <1>d, <2>1, <2>3, <2>4
  <2>5. CASE r.at = "replace"
             /\ \A id \in Ids : d \in watchers'[id] => d \in watchers[id] \/ id = r.id
    BY <1>a, <2>1, <2>2, <2>3, <2>5 DEF Watching
  <2>6. QED
    BY <2>1, <2>4, <2>5
<1>12. CASE RunReplace(d) \/ RunUnwatch(d)
  <2>1. PICK r :
          /\ running'[d] = <<r>> /\ r.at = "reply" /\ r.watching = watched'[d]
          /\ running[d][1].at = "replace" => watched'[d] = running[d][1].id
          /\ running[d][1].at = "unwatch" => watched'[d] = 0
    BY <1>12, ReplaceAt
  <2>2. running'[d] # <<>> /\ running'[d][1] = r
    BY ONLY <2>1
  <2>3. /\ running[d] # <<>> /\ running[d][1].at \in {"replace", "unwatch"}
        /\ d \in sessions' <=> d \in sessions
        /\ \A id \in Ids :
             d \in watchers'[id] =>
               d \in watchers[id]
               /\ (id # watched[d] \/ (running[d][1].at = "replace" /\ id = running[d][1].id))
    BY <1>12, ReplaceAt DEF KeepsAccept
  <2>4. d \in sessions
    BY <1>a, <2>3 DEF Leaving
  <2>5. \A id \in Ids : d \in watchers'[id] => id = watched'[d]
    BY <1>a, <2>1, <2>3 DEF Watching
  <2>6. QED
    BY <2>1, <2>2, <2>3, <2>4, <2>5 DEF Watching
<1>13. CASE RunReply(d)
  <2>1. PICK r : running'[d] = <<r>> /\ r.at = "done"
    BY <1>13, ReplyAt
  <2>2. running'[d] # <<>> /\ running'[d][1] = r
    BY ONLY <2>1
  <2>3. /\ running[d] # <<>> /\ running[d][1].at \in {"reply", "other"} /\ KeepsWatched(d)
        /\ d \in sessions' <=> d \in sessions
    BY <1>13, ReplyAt DEF KeepsAccept
  <2>4. QED
    BY <1>a, <2>1, <2>2, <2>3 DEF Watching, KeepsWatched
<1>14. CASE RunDone(d)
  <2>1. /\ KeepsWatched(d) /\ (d \in sessions' <=> d \in sessions)
        /\ running[d] # <<>> /\ running[d][1].at = "done" /\ running'[d] = <<>>
    BY <1>14, DoneAt DEF KeepsAccept
  <2>2. QED
    BY <1>a, <2>1 DEF Watching, KeepsWatched
<1>15. CASE RunForget(d)
  <2>1. /\ ForgetRuns(d) /\ running'[d] = <<>> /\ watched'[d] = 0
        /\ \A id \in Ids : d \in watchers'[id] => d \in watchers[id] /\ id # watched[d]
    BY <1>15, ForgetAt
  <2>2. QED
    BY <1>a, <2>1 DEF Watching, ForgetRuns
<1>16. CASE \E id \in Ids : d \in watchers[id] /\ Publish(id)
  BY <1>c, <1>16, PublishAt DEF KeepsAccept, KeepsStrand
<1>17. CASE DropReplies
  BY <1>c, <1>17, DropAt DEF KeepsAccept, KeepsStrand
<1>18. QED
  BY <1>1, <1>2, <1>3, <1>4, <1>5, <1>6, <1>7, <1>8, <1>9, <1>10, <1>11, <1>12, <1>13, <1>14,
     <1>15, <1>16, <1>17, StepAt DEF Own

(* The destructor joins the pool with every connection closed, and goes on *)
(* once each is forgotten.                                                 *)
LEMMA ServerStep ==
  ASSUME TypeInv, [Next]_vars, ServerInv, \A d \in Sessions : SessionInv(d)
  PROVE  ServerInv'
<1>a. /\ sessions \subseteq Sessions /\ sessions' \subseteq Sessions
      /\ closed \in [Sessions -> BOOLEAN] /\ conn \in [Sessions -> {"none", "handshake", "open", "refused"}]
  <2>1. ConnectionsTypeOK /\ ConnectionsTypeOK'
    BY ConnectionsTypeStep DEF TypeInv
  <2>2. QED
    BY <2>1 DEF ConnectionsTypeOK
<1>b. ASSUME NEW d \in Sessions, d \in sessions', d \notin sessions
      PROVE  acceptor # "closed" /\ UNCHANGED server
  <2>1. CASE Untouched(d)
    BY <1>b, <2>1 DEF Untouched, KeepsAccept
  <2>2. CASE Own(d)
    <3>1. AcceptHandler(d)
      BY <1>b, <2>2, AcceptAt, HandshakeAt, ArrivesAt, ReadAt, FailsAt, EnqueueAt, HeartbeatAt,
         WriteAt, BeginAt, WatchAt, ReplaceAt, ReplyAt, DoneAt, ForgetAt, PublishAt, DropAt
         DEF Own, KeepsAccept, Connects
    <3>2. QED
      BY <1>b, <3>1 DEF AcceptHandler, StillAccepting, acceptUnchanged
  <2>3. QED
    BY <2>1, <2>2, StepAt
<1>c. ASSUME NEW d \in Sessions, closed[d] PROVE closed'[d]
  <2>1. CASE Untouched(d)
    BY <1>c, <2>1 DEF Untouched, KeepsSocket
  <2>2. CASE Own(d)
    <3>1. closed'[d] = closed[d] \/ closed'[d] = TRUE
      <4>1. CASE EnqueueHandler(d) \/ HeartbeatHandler(d)
        BY <4>1, EnqueueAt, HeartbeatAt DEF Closes, Enqueued
      <4>2. CASE ReadHandler(d) \/ ConnectionFails(d)
                 \/ (d \in sessions /\ ~closed[d] /\ StopHandler)
        BY <4>2, ReadAt, FailsAt DEF Closes
      <4>3. CASE Connects(d) \/ AcceptHandler(d) \/ HandshakeDone(d) \/ HandshakeHandler(d)
                 \/ (\E command \in Commands : CommandArrives(d, command)) \/ WriteHandler(d)
        BY <4>3, AcceptAt, HandshakeAt, ArrivesAt, WriteAt DEF KeepsSocket
      <4>4. CASE Begin(d) \/ RunWatch(d) \/ RunReplace(d) \/ RunUnwatch(d) \/ RunReply(d)
                 \/ RunDone(d) \/ RunForget(d)
        BY <4>4, BeginAt, WatchAt, ReplaceAt, ReplyAt, DoneAt, ForgetAt DEF KeepsSocket
      <4>5. CASE DropReplies \/ \E id \in Ids : d \in watchers[id] /\ Publish(id)
        BY <4>5, PublishAt, DropAt DEF KeepsSocket
      <4>6. QED
        BY <2>2, <4>1, <4>2, <4>3, <4>4, <4>5 DEF Own
    <3>2. QED
      BY <1>c, <3>1
  <2>3. QED
    BY <2>1, <2>2, StepAt
<1>1. CASE UNCHANGED server
  <2>1. acceptor = "closed" => acceptor' = "closed"
    BY <1>1 DEF Next, Connects, AcceptFails, AcceptHandler, HandshakeDone, HandshakeHandler,
       CommandArrives, ReadHandler, ConnectionFails, EnqueueHandler, HeartbeatHandler, WriteHandler,
       sessionUnchanged, Strand, Begin, RunWatch, RunReplace, RunUnwatch, RunReply, RunDone,
       RunForget, strandUnchanged, Publish, EndStream, streamUnchanged, acceptVars, RetryAccept,
       Destroy, Destructor, StopHandler, NetworkEnds, CommandsEnd, DropReplies, vars, Handler
  <2>2. QED
    BY <1>1, <1>a, <1>b, <1>c, <2>1 DEF ServerInv
<1>2. CASE Destroy
  BY <1>2 DEF Destroy, ServerInv
<1>3. CASE StopHandler
  <2>1. \A d \in Sessions : closed'[d] = (closed[d] \/ d \in sessions)
    BY <1>3, CloseEffect DEF StopHandler
  <2>2. sessions' = sessions /\ server' = "closed" /\ acceptor' = "closed"
    BY <1>3 DEF StopHandler, destructorUnchanged
  <2>3. QED
    BY <2>1, <2>2 DEF ServerInv
<1>4. CASE NetworkEnds
  BY <1>4 DEF NetworkEnds, ServerInv, closesNone, destructorUnchanged
<1>5. CASE CommandsEnd
  <2>1. /\ server = "networkEnded" /\ server' = "commandsEnded" /\ sessions' = sessions
        /\ acceptor' = acceptor /\ closed' = closed
        /\ \A d \in Sessions : strand[d] = <<>> /\ running[d] = <<>>
    BY <1>5 DEF CommandsEnd, closesNone, destructorUnchanged
  <2>2. \A d \in Sessions : d \notin sessions
    BY <2>1 DEF ServerInv, SessionInv, Leaving, ForgetRuns, Ending
  <2>3. QED
    BY <1>a, <2>1, <2>2 DEF ServerInv
<1>6. CASE DropReplies
  BY <1>6 DEF DropReplies, ServerInv, closesNone, destructorUnchanged
<1>7. QED
  BY <1>1, <1>2, <1>3, <1>4, <1>5, <1>6 DEF Next, Connects, AcceptFails, AcceptHandler,
       acceptUnchanged, HandshakeDone, HandshakeHandler,
       CommandArrives, ReadHandler, ConnectionFails, EnqueueHandler, HeartbeatHandler, WriteHandler,
       sessionUnchanged, Strand, Begin, RunWatch, RunReplace, RunUnwatch, RunReply, RunDone,
       RunForget, strandUnchanged, Publish, EndStream, streamUnchanged, acceptVars, RetryAccept,
       Destructor, vars, Handler

-----------------------------------------------------------------------------
(* The types and the connections' way out of sessions_ keep themselves.    *)
LeaveInv == TypeInv /\ ServerInv /\ \A c \in Sessions : SessionInv(c)

(* Nothing is connected at the start. *)
LEMMA InitLeaves == Init => LeaveInv
<1> SUFFICES ASSUME Init PROVE LeaveInv
  OBVIOUS
<1>1. NewClient \in Client /\ Ids \cap {0} = {}
  BY ServerAssumption DEF NewClient, Client
<1>2. ConnectionsTypeOK /\ ReadyTypeOK /\ StrandTypeOK
  BY DEF Init, ConnectionsTypeOK, ReadyTypeOK, StrandTypeOK
<1>3. FramesTypeOK
  <2>1. client = [c \in Sessions |-> NewClient]
    BY DEF Init
  <2>2. client \in [Sessions -> Client]
    BY ONLY <1>1, <2>1
  <2>3. posted \in [Sessions -> Seq(Payload)] /\ outgoing \in [Sessions -> Seq(Numbered)]
        /\ sequence \in [Sessions -> Nat] /\ books \in [Sessions -> Nat]
        /\ published \in Nat /\ heartbeats \in Nat
    BY DEF Init
  <2>4. QED
    BY <2>2, <2>3 DEF FramesTypeOK
<1>4. ServerInv
  BY DEF Init, ServerInv
<1>5. ASSUME NEW c \in Sessions PROVE SessionInv(c)
  <2>1. /\ accepted = {} /\ sessions = {} /\ conn[c] = "none" /\ closed[c] = FALSE
        /\ ready[c] = <<>> /\ posted[c] = <<>> /\ strand[c] = <<>> /\ running[c] = <<>>
        /\ watched[c] = 0 /\ \A id \in Ids : watchers[id] = {}
    BY DEF Init
  <2>2. ForgetsLast(strand[c]) /\ ~Ending(strand[c]) /\ ~ForgetRuns(c)
    BY <2>1 DEF ForgetsLast, Ending, ForgetRuns
  <2>3. QED
    BY <2>1, <2>2 DEF SessionInv, Joined, Leaving, Watching
<1>6. QED
  BY <1>2, <1>3, <1>4, <1>5 DEF LeaveInv, TypeInv

(* Every step keeps the types and the way out. *)
LEMMA LeaveStep == LeaveInv /\ [Next]_vars => LeaveInv'
<1> SUFFICES ASSUME LeaveInv, [Next]_vars PROVE LeaveInv'
  OBVIOUS
<1>1. TypeInv'
  BY ConnectionsTypeStep, ReadyTypeStep, StrandTypeStep, FramesTypeStep DEF LeaveInv, TypeInv
<1>2. ServerInv'
  BY ServerStep DEF LeaveInv
<1>3. ASSUME NEW c \in Sessions PROVE SessionInv(c)'
  BY JoinedStep, LeavingStep, WatchingStep DEF LeaveInv, SessionInv
<1>4. QED
  BY <1>1, <1>2, <1>3 DEF LeaveInv

(* A connection leaves sessions_ with its Forget(), which closing it       *)
(* queues last.                                                            *)
THEOREM ServerLeaves == Spec => []LeaveInv
<1>1. Init => LeaveInv
  BY InitLeaves
<1>2. LeaveInv /\ [Next]_vars => LeaveInv'
  BY LeaveStep
<1>3. QED
  BY <1>1, <1>2, PTL DEF Spec

(* A connection that is gone from sessions_ has no command left, and no    *)
(* stream sends to it.                                                     *)
THEOREM DroppedForGood == Spec => []ForgottenForGood
<1>1. LeaveInv => ForgottenForGood
  <2> SUFFICES ASSUME LeaveInv PROVE ForgottenForGood
    OBVIOUS
  <2>1. 0 \notin Ids
    BY ServerAssumption
  <2>2. ASSUME NEW c \in Sessions, c \notin sessions
        PROVE  strand[c] = <<>> /\ running[c] = <<>> /\ \A id \in Ids : c \notin watchers[id]
    BY <2>1, <2>2 DEF LeaveInv, SessionInv, Leaving, Watching
  <2>3. QED
    BY <2>2 DEF LeaveInv, ServerInv, ForgottenForGood
<1>2. QED
  BY <1>1, ServerLeaves, PTL

-----------------------------------------------------------------------------
(* Frames and payloads. *)
LEMMA PayloadsAre ==
  ASSUME NEW frames \in Seq(Numbered)
  PROVE  /\ Payloads(frames) \in Seq(Payload) /\ Len(Payloads(frames)) = Len(frames)
         /\ \A i \in 1..Len(frames) : Payloads(frames)[i] = frames[i].payload
<1>1. PICK n \in Nat : n = Len(frames)
  OBVIOUS
<1>2. \A i \in 1..n : frames[i] \in Numbered
  BY ONLY <1>1, frames \in Seq(Numbered)
<1>3. \A i \in 1..n : frames[i].payload \in Payload
  BY <1>2 DEF Numbered
<1>4. Payloads(frames) = [i \in 1..n |-> frames[i].payload]
  BY <1>1 DEF Payloads
<1>5. Payloads(frames) \in [1..n -> Payload]
  BY ONLY <1>3, <1>4
<1>6. Payloads(frames) \in Seq(Payload) /\ Len(Payloads(frames)) = n
  BY ONLY <1>5, n \in Nat
<1>7. QED
  BY ONLY <1>1, <1>4, <1>6

(* A frame queued appends its payload. *)
LEMMA PayloadsAppend ==
  ASSUME NEW frames \in Seq(Numbered), NEW number \in Nat, NEW p \in Payload
  PROVE  Payloads(Append(frames, Frame(number, p))) = Append(Payloads(frames), p)
<1>0. PICK frame : frame = Frame(number, p)
  OBVIOUS
<1>1. frame \in Numbered /\ frame.payload = p
  BY <1>0 DEF Frame, Numbered
<1>2. PICK longer : longer = Append(frames, frame)
  OBVIOUS
<1>11. longer \in Seq(Numbered)
  BY ONLY <1>1, <1>2, AppendProperties, frames \in Seq(Numbered)
<1>3. Len(longer) = Len(frames) + 1 /\ longer[Len(frames) + 1] = frame
      /\ \A i \in 1..Len(frames) : longer[i] = frames[i]
  BY ONLY <1>1, <1>2, AppendProperties, frames \in Seq(Numbered)
<1>12. PICK s \in Seq(Payload), t \in Seq(Payload) : s = Payloads(longer) /\ t = Payloads(frames)
  BY <1>11, PayloadsAre
<1>4. PICK u : u = Append(t, p)
  OBVIOUS
<1>13. u \in Seq(Payload)
  BY ONLY <1>4, AppendProperties, t \in Seq(Payload), p \in Payload
<1>5. /\ Len(s) = Len(frames) + 1 /\ \A i \in 1..(Len(frames) + 1) : s[i] = longer[i].payload
      /\ Len(t) = Len(frames) /\ \A i \in 1..Len(frames) : t[i] = frames[i].payload
  BY <1>3, <1>11, <1>12, PayloadsAre
<1>6. Len(u) = Len(t) + 1 /\ u[Len(t) + 1] = p /\ \A i \in 1..Len(t) : u[i] = t[i]
  BY ONLY <1>4, AppendProperties, t \in Seq(Payload), p \in Payload
<1>7. Len(frames) \in Nat
  OBVIOUS
<1>8. \A i \in 1..Len(s) : s[i] = u[i]
  BY ONLY <1>1, <1>3, <1>5, <1>6, <1>7
<1>9. s = u
  BY ONLY <1>5, <1>6, <1>8, <1>13, SeqEqual, s \in Seq(Payload)
<1>10. QED
  BY ONLY <1>0, <1>2, <1>4, <1>9, <1>12

(* A frame written takes the first payload. *)
LEMMA PayloadsTail ==
  ASSUME NEW frames \in Seq(Numbered), frames # <<>>
  PROVE  /\ Payloads(frames) # <<>>
         /\ Payloads(Tail(frames)) = Tail(Payloads(frames))
         /\ Head(Payloads(frames)) = Head(frames).payload
         /\ Head(Payloads(frames)) \in Payload
<1>1. /\ Head(frames) \in Numbered /\ Tail(frames) \in Seq(Numbered)
      /\ Len(Tail(frames)) = Len(frames) - 1
      /\ \A i \in 1..Len(Tail(frames)) : Tail(frames)[i] = frames[i + 1]
  BY ONLY HeadTailProperties, frames \in Seq(Numbered), frames # <<>>
<1>2. Len(frames) \in Nat /\ Len(frames) >= 1 /\ Head(frames) = frames[1]
  BY ONLY frames \in Seq(Numbered), frames # <<>>
<1>3. PICK s \in Seq(Payload), t \in Seq(Payload) :
        s = Payloads(Tail(frames)) /\ t = Payloads(frames)
  BY <1>1, PayloadsAre
<1>4. /\ Len(s) = Len(frames) - 1 /\ \A i \in 1..(Len(frames) - 1) : s[i] = Tail(frames)[i].payload
      /\ Len(t) = Len(frames) /\ \A i \in 1..Len(frames) : t[i] = frames[i].payload
  BY <1>1, <1>3, PayloadsAre
<1>5. t # <<>>
  BY ONLY <1>2, <1>4
<1>6. /\ Head(t) \in Payload /\ Tail(t) \in Seq(Payload) /\ Len(Tail(t)) = Len(t) - 1
      /\ \A i \in 1..Len(Tail(t)) : Tail(t)[i] = t[i + 1]
  BY ONLY <1>5, HeadTailProperties, t \in Seq(Payload)
<1>7. \A i \in 1..Len(s) : s[i] = Tail(t)[i]
  BY ONLY <1>1, <1>2, <1>4, <1>6
<1>8. s = Tail(t)
  BY ONLY <1>4, <1>6, <1>7, SeqEqual, s \in Seq(Payload)
<1>9. Head(t) = Head(frames).payload
  <2>1. Head(t) = t[1]
    BY ONLY <1>5, t \in Seq(Payload)
  <2>2. QED
    BY ONLY <1>2, <1>4, <2>1
<1>10. QED
  BY ONLY <1>3, <1>5, <1>6, <1>8, <1>9

(* Payloads in turn stay so when one is added at the end or read at the    *)
(* head, and one sequence after another is in turn.                        *)
LEMMA TurnAppend ==
  ASSUME NEW q \in Seq(Payload), NEW p \in Payload, NEW a \in Int, NEW b \in Int, InTurn(q, a, b)
  PROVE  /\ p.kind # "reply" => InTurn(Append(q, p), a, b)
         /\ p.kind = "reply" /\ p.n = b + 1 => InTurn(Append(q, p), a, b + 1)
<1>1. PICK n \in Nat : n = Len(q)
  OBVIOUS
<1>2. PICK r : r = Append(q, p)
  OBVIOUS
<1>3. Len(r) = n + 1 /\ r[n + 1] = p /\ \A i \in 1..n : r[i] = q[i]
  BY ONLY <1>1, <1>2, AppendProperties, q \in Seq(Payload), p \in Payload
<1>4. CASE p.kind # "reply"
  <2>1. \A i \in 1..(n + 1) : r[i].kind = "reply" => i \in 1..n /\ r[i] = q[i]
    BY ONLY <1>3, <1>4, n \in Nat
  <2>2. \A i \in 1..n : i \in 1..(n + 1) /\ r[i] = q[i]
    BY ONLY <1>3, n \in Nat
  <2>3. InTurn(r, a, b)
    BY ONLY <1>1, <1>3, <2>1, <2>2, InTurn(q, a, b) DEF InTurn
  <2>4. QED
    BY ONLY <1>2, <1>4, <2>3
<1>5. CASE p.kind = "reply" /\ p.n = b + 1
  <2>1. ASSUME NEW i \in 1..(n + 1), r[i].kind = "reply" PROVE r[i].n \in (a + 1)..(b + 1)
    <3>1. CASE i = n + 1
      <4>1. r[i].n = b + 1 /\ a <= b
        BY ONLY <1>3, <1>5, <3>1, InTurn(q, a, b) DEF InTurn
      <4>2. QED
        BY ONLY <4>1, a \in Int, b \in Int
    <3>2. CASE i \in 1..n
      <4>1. q[i].n \in (a + 1)..b /\ r[i] = q[i]
        BY ONLY <1>1, <1>3, <2>1, <3>2, InTurn(q, a, b) DEF InTurn
      <4>2. QED
        BY ONLY <4>1, a \in Int, b \in Int
    <3>3. QED
      BY <3>1, <3>2
  <2>2. ASSUME NEW i \in 1..(n + 1), NEW j \in 1..(n + 1), i < j,
               r[i].kind = "reply", r[j].kind = "reply"
        PROVE  r[i].n < r[j].n
    <3>1. i \in 1..n /\ r[i] = q[i]
      BY ONLY <1>3, <2>2, n \in Nat
    <3>2. q[i].n \in (a + 1)..b
      BY ONLY <1>1, <2>2, <3>1, InTurn(q, a, b) DEF InTurn
    <3>3. CASE j = n + 1
      BY ONLY <1>3, <1>5, <3>1, <3>2, <3>3, a \in Int, b \in Int
    <3>4. CASE j \in 1..n
      BY ONLY <1>1, <1>3, <2>2, <3>1, <3>4, InTurn(q, a, b) DEF InTurn
    <3>5. QED
      BY <3>3, <3>4
  <2>3. ASSUME NEW k \in (a + 1)..(b + 1)
        PROVE  \E i \in 1..(n + 1) : r[i].kind = "reply" /\ r[i].n = k
    <3>1. CASE k = b + 1
      BY ONLY <1>3, <1>5, <3>1, n \in Nat
    <3>2. CASE k \in (a + 1)..b
      <4>1. PICK i \in 1..n : q[i].kind = "reply" /\ q[i].n = k
        BY ONLY <1>1, <3>2, InTurn(q, a, b) DEF InTurn
      <4>2. QED
        BY ONLY <1>3, <4>1, n \in Nat
    <3>3. QED
      BY ONLY <3>1, <3>2, a \in Int, b \in Int, k \in (a + 1)..(b + 1)
  <2>4. a <= b + 1
    BY ONLY InTurn(q, a, b), a \in Int, b \in Int DEF InTurn
  <2>5. InTurn(r, a, b + 1)
    BY ONLY <1>3, <2>1, <2>2, <2>3, <2>4 DEF InTurn
  <2>6. QED
    BY ONLY <1>2, <1>5, <2>5
<1>6. QED
  BY <1>4, <1>5

(* And when the first is read: it is the reply awaited, or none. *)
LEMMA TurnTail ==
  ASSUME NEW q \in Seq(Payload), q # <<>>, NEW a \in Int, NEW b \in Int, InTurn(q, a, b)
  PROVE  /\ Head(q).kind # "reply" => InTurn(Tail(q), a, b)
         /\ Head(q).kind = "reply" => Head(q).n = a + 1 /\ InTurn(Tail(q), a + 1, b)
<1>1. PICK n \in Nat : n = Len(q) /\ n >= 1
  BY ONLY q \in Seq(Payload), q # <<>>
<1>2. PICK r \in Seq(Payload), p \in Payload : r = Tail(q) /\ p = Head(q)
  BY ONLY HeadTailProperties, q \in Seq(Payload), q # <<>>
<1>3. Len(r) = n - 1 /\ \A i \in 1..(n - 1) : r[i] = q[i + 1]
  BY ONLY <1>1, <1>2, HeadTailProperties, q \in Seq(Payload), q # <<>>
<1>4. p = q[1]
  BY ONLY <1>2, q \in Seq(Payload), q # <<>>
<1>5. \A i \in 1..(n - 1) : i + 1 \in 1..n
  BY ONLY <1>1
<1>6. a <= b
      /\ (\A i, j \in 1..n : q[i].kind = "reply" /\ q[j].kind = "reply" /\ i < j => q[i].n < q[j].n)
      /\ (\A i \in 1..n : q[i].kind = "reply" => q[i].n \in (a + 1)..b)
      /\ (\A k \in (a + 1)..b : \E i \in 1..n : q[i].kind = "reply" /\ q[i].n = k)
  BY ONLY <1>1, InTurn(q, a, b) DEF InTurn
<1>7. \A i, j \in 1..(n - 1) : r[i].kind = "reply" /\ r[j].kind = "reply" /\ i < j => r[i].n < r[j].n
  <2> SUFFICES ASSUME NEW i \in 1..(n - 1), NEW j \in 1..(n - 1),
                      r[i].kind = "reply", r[j].kind = "reply", i < j
               PROVE  r[i].n < r[j].n
    OBVIOUS
  <2>1. r[i] = q[i + 1] /\ r[j] = q[j + 1] /\ i + 1 < j + 1 /\ i + 1 \in 1..n /\ j + 1 \in 1..n
    BY ONLY <1>3, <1>5, i \in 1..(n - 1), j \in 1..(n - 1), i < j, n \in Nat
  <2>2. QED
    BY ONLY <1>6, <2>1, r[i].kind = "reply", r[j].kind = "reply"
<1>8. CASE p.kind # "reply"
  <2>1. \A i \in 1..(n - 1) : r[i].kind = "reply" => r[i].n \in (a + 1)..b
    BY ONLY <1>3, <1>5, <1>6
  <2>2. ASSUME NEW k \in (a + 1)..b
        PROVE  \E i \in 1..(n - 1) : r[i].kind = "reply" /\ r[i].n = k
    <3>1. PICK i \in 1..n : q[i].kind = "reply" /\ q[i].n = k
      BY ONLY <1>6, k \in (a + 1)..b
    <3>2. i # 1
      BY ONLY <1>4, <1>8, <3>1
    <3>3. i - 1 \in 1..(n - 1) /\ r[i - 1] = q[(i - 1) + 1] /\ (i - 1) + 1 = i
      BY ONLY <1>3, <3>2, i \in 1..n, n \in Nat
    <3>4. QED
      BY ONLY <3>1, <3>3
  <2>3. InTurn(r, a, b)
    BY ONLY <1>3, <1>6, <1>7, <2>1, <2>2 DEF InTurn
  <2>4. QED
    BY ONLY <1>2, <1>8, <2>3
<1>9. CASE p.kind = "reply"
  <2>1. p.n \in (a + 1)..b /\ 1 \in 1..n
    BY ONLY <1>1, <1>4, <1>6, <1>9
  <2>2. p.n = a + 1
    <3>1. PICK i \in 1..n : q[i].kind = "reply" /\ q[i].n = a + 1
      BY ONLY <1>6, <2>1, a \in Int, b \in Int
    <3>2. CASE i = 1
      BY ONLY <1>4, <3>1, <3>2
    <3>3. CASE i > 1
      <4>1. p.n < a + 1
        BY ONLY <1>4, <1>6, <1>9, <2>1, <3>1, <3>3
      <4>2. QED
        BY ONLY <2>1, <4>1, a \in Int, b \in Int
    <3>4. QED
      BY ONLY <3>2, <3>3, i \in 1..n, n \in Nat
  <2>3. ASSUME NEW i \in 1..(n - 1), r[i].kind = "reply" PROVE r[i].n \in (a + 2)..b
    <3>1. r[i] = q[i + 1] /\ i + 1 \in 1..n /\ 1 < i + 1
      BY ONLY <1>3, <1>5, i \in 1..(n - 1), n \in Nat
    <3>2. q[i + 1].n \in (a + 1)..b /\ q[1].n < q[i + 1].n
      BY ONLY <1>4, <1>6, <1>9, <2>1, <2>3, <3>1
    <3>3. QED
      BY ONLY <1>4, <2>2, <3>1, <3>2, a \in Int, b \in Int
  <2>4. ASSUME NEW k \in (a + 2)..b
        PROVE  \E i \in 1..(n - 1) : r[i].kind = "reply" /\ r[i].n = k
    <3>0. k \in (a + 1)..b /\ k # a + 1
      BY ONLY k \in (a + 2)..b, a \in Int, b \in Int
    <3>1. PICK i \in 1..n : q[i].kind = "reply" /\ q[i].n = k
      BY ONLY <1>6, <3>0
    <3>2. i # 1
      BY ONLY <1>4, <2>2, <3>0, <3>1
    <3>3. i - 1 \in 1..(n - 1) /\ r[i - 1] = q[(i - 1) + 1] /\ (i - 1) + 1 = i
      BY ONLY <1>3, <3>2, i \in 1..n, n \in Nat
    <3>4. QED
      BY ONLY <3>1, <3>3
  <2>5. a + 1 <= b /\ (a + 1) + 1 = a + 2
    BY ONLY <2>1, <2>2, a \in Int, b \in Int
  <2>6. InTurn(r, a + 1, b)
    BY ONLY <1>3, <1>7, <2>3, <2>4, <2>5 DEF InTurn
  <2>7. QED
    BY ONLY <1>2, <1>9, <2>2, <2>6
<1>10. QED
  BY <1>8, <1>9

-----------------------------------------------------------------------------
(* pending_commands_ counts the commands that run or wait.                 *)
LEMMA PendingStep ==
  ASSUME TypeInv, [Next]_vars, NEW d \in Sessions, SessionInv(d), PendingInv(d)
  PROVE  PendingInv(d)'
<1>a. Joined(d) /\ Leaving(d)
  BY DEF SessionInv
<1>b. /\ strand[d] \in Seq(Named) /\ outgoing[d] \in Seq(Numbered) /\ pending[d] \in Int
      /\ commands[d] \in Nat /\ MaxPending \in Nat /\ MaxBacklog \in Nat /\ closed[d] \in BOOLEAN
  BY ServerAssumption
     DEF TypeInv, StrandTypeOK, ReadyTypeOK, FramesTypeOK, ConnectionsTypeOK, MaxBacklog
<1>c. ASSUME pending'[d] = pending[d], CommandsWaiting(d)' = CommandsWaiting(d),
             CommandsRunning(d)' = CommandsRunning(d), Len(outgoing'[d]) <= MaxBacklog,
             commands'[d] = commands[d], conn[d] = "open" => conn'[d] = "open"
      PROVE  PendingInv(d)'
  BY <1>c DEF PendingInv
<1>d. ASSUME strand'[d] = strand[d] PROVE CommandsWaiting(d)' = CommandsWaiting(d)
  BY <1>d DEF CommandsWaiting
<1>e. ASSUME running'[d] = running[d] PROVE CommandsRunning(d)' = CommandsRunning(d)
  BY <1>e DEF CommandsRunning, ForgetRuns
<1>f. ASSUME outgoing'[d] = outgoing[d] PROVE Len(outgoing'[d]) <= MaxBacklog
  BY <1>f DEF PendingInv
<1>g. ASSUME Closes(d)
      PROVE  CommandsWaiting(d)' = CommandsWaiting(d) /\ Len(outgoing'[d]) <= MaxBacklog
  <2>1. Forget \in Named
    BY DEF Forget, Named
  <2>2. ~Ending(strand[d]) /\ ForgetsLast(strand[d]) /\ strand'[d] = Append(strand[d], Forget)
        /\ outgoing'[d] = <<>>
    BY <1>a, <1>g DEF Leaving, Closes
  <2>3. Ending(strand'[d])
    BY <1>b, <2>1, <2>2, Queues
  <2>4. Len(strand'[d]) = Len(strand[d]) + 1 /\ Len(strand[d]) \in Nat
    BY <1>b, <2>1, <2>2
  <2>5. Len(outgoing'[d]) = 0
    BY ONLY <2>2
  <2>6. QED
    BY <1>b, <2>2, <2>3, <2>4, <2>5 DEF CommandsWaiting
<1>h. ASSUME NEW payload \in Payload, Enqueued(d, payload)
      PROVE  CommandsWaiting(d)' = CommandsWaiting(d) /\ Len(outgoing'[d]) <= MaxBacklog
  <2>1. CASE Closes(d)
    BY <1>g, <2>1
  <2>2. CASE strand'[d] = strand[d] /\ outgoing'[d] = outgoing[d]
    BY <1>d, <1>f, <2>2
  <2>3. CASE /\ strand'[d] = strand[d] /\ Len(outgoing[d]) < MaxBacklog
             /\ outgoing'[d] = Append(outgoing[d], Frame(sequence[d], payload))
    <3>1. PICK frame : frame = Frame(sequence[d], payload)
      OBVIOUS
    <3>2. sequence[d] \in Nat
      BY DEF TypeInv, FramesTypeOK
    <3>3. frame \in Numbered
      BY <3>1, <3>2 DEF Frame, Numbered
    <3>4. Len(outgoing'[d]) = Len(outgoing[d]) + 1 /\ Len(outgoing[d]) \in Nat
      BY ONLY <1>b, <2>3, <3>1, <3>3, AppendProperties
    <3>5. Len(outgoing'[d]) <= MaxBacklog
      BY ONLY <1>b, <2>3, <3>4
    <3>6. QED
      BY <1>d, <2>3, <3>5
  <2>4. QED
    BY <1>h, <2>1, <2>2, <2>3 DEF Enqueued, KeepsOutgoing
<1>i. ASSUME running[d] # <<>>, ~ForgetRuns(d), NEW r \in Running, running'[d] = <<r>>, r.at # "forget"
      PROVE  CommandsRunning(d)' = CommandsRunning(d)
  <2>1. running'[d] # <<>> /\ running'[d][1] = r
    BY ONLY <1>i
  <2>2. QED
    BY <1>i, <2>1 DEF CommandsRunning, ForgetRuns
<1>1. CASE Untouched(d)
  BY <1>c, <1>d, <1>e, <1>f, <1>1
     DEF Untouched, KeepsAccept, KeepsSocket, KeepsStrand, KeepsOutgoing
<1>2. CASE Connects(d) \/ AcceptHandler(d)
  <2>1. /\ KeepsSocket(d) /\ KeepsStrand(d) /\ KeepsOutgoing(d)
        /\ conn'[d] = conn[d] \/ d \in accepted
    BY <1>2, AcceptAt
  <2>2. conn[d] = "open" => conn'[d] = "open"
    BY <1>a, <2>1 DEF Joined
  <2>3. QED
    BY <1>c, <1>d, <1>e, <1>f, <2>1, <2>2 DEF KeepsSocket, KeepsStrand, KeepsOutgoing
<1>3. CASE HandshakeDone(d) \/ HandshakeHandler(d)
  BY <1>c, <1>d, <1>e, <1>f, <1>3, HandshakeAt DEF KeepsStrand, KeepsOutgoing
<1>4. CASE \E command \in Commands : CommandArrives(d, command)
  <2>1. /\ conn'[d] = "open" /\ KeepsStrand(d) /\ KeepsOutgoing(d)
    BY <1>4, ArrivesAt DEF KeepsAccept
  <2>2. QED
    BY <1>d, <1>e, <1>f, <2>1 DEF KeepsStrand, KeepsOutgoing, PendingInv
<1>5. CASE ReadHandler(d)
  <2>1. /\ conn'[d] = "open" /\ commands'[d] = commands[d] /\ running'[d] = running[d]
        /\ conn[d] = "open"
    BY <1>5, ReadAt DEF KeepsAccept
  <2>2. CASE KeepsStrand(d) /\ KeepsOutgoing(d)
    BY <1>c, <1>d, <1>e, <1>f, <2>1, <2>2 DEF KeepsStrand, KeepsOutgoing
  <2>3. CASE Closes(d) /\ pending'[d] = pending[d]
    BY <1>c, <1>e, <1>g, <2>1, <2>3
  <2>4. CASE /\ ~closed[d] /\ KeepsOutgoing(d)
             /\ pending[d] < MaxPending /\ pending'[d] = pending[d] + 1
             /\ ready[d][1] \in Command /\ strand'[d] = Append(strand[d], ready[d][1])
    <3>1. ready[d][1] \in Named /\ ready[d][1].kind # "forget"
      BY <2>4 DEF Command
    <3>2. ~Ending(strand[d]) /\ ForgetsLast(strand[d])
      BY <1>a, <2>4 DEF Leaving
    <3>3. ~Ending(strand'[d])
      BY <1>b, <2>4, <3>1, <3>2, Queues
    <3>4. Len(strand'[d]) = Len(strand[d]) + 1 /\ Len(strand[d]) \in Nat
      BY ONLY <1>b, <2>4, <3>1, AppendProperties
    <3>5. CommandsWaiting(d)' = CommandsWaiting(d) + 1 /\ CommandsWaiting(d) \in Nat
      BY <3>2, <3>3, <3>4 DEF CommandsWaiting
    <3>6. CommandsRunning(d)' = CommandsRunning(d) /\ CommandsRunning(d) \in Nat
      BY <1>e, <2>1 DEF CommandsRunning
    <3>7. outgoing'[d] = outgoing[d]
      BY <2>4 DEF KeepsOutgoing
    <3>8. pending'[d] = CommandsWaiting(d)' + CommandsRunning(d)' /\ pending'[d] <= MaxPending
      BY <1>b, <2>4, <3>5, <3>6 DEF PendingInv
    <3>9. QED
      BY <1>f, <2>1, <3>7, <3>8 DEF PendingInv
  <2>5. QED
    BY <1>5, <2>2, <2>3, <2>4, ReadAt
<1>6. CASE ConnectionFails(d) \/ (d \in sessions /\ ~closed[d] /\ StopHandler)
  BY <1>c, <1>e, <1>g, <1>6, FailsAt DEF KeepsAccept
<1>7. CASE EnqueueHandler(d)
  BY <1>c, <1>e, <1>h, <1>7, EnqueueAt DEF KeepsAccept
<1>8. CASE HeartbeatHandler(d)
  BY <1>c, <1>e, <1>h, <1>8, HeartbeatAt DEF KeepsAccept
<1>9. CASE WriteHandler(d)
  <2>1. /\ outgoing[d] # <<>> /\ outgoing'[d] = Tail(outgoing[d])
    BY <1>9, WriteEffect
  <2>2. Len(outgoing'[d]) = Len(outgoing[d]) - 1 /\ Len(outgoing[d]) \in Nat
    BY ONLY <1>b, <2>1, HeadTailProperties
  <2>3. Len(outgoing'[d]) <= MaxBacklog
    BY <1>b, <2>2 DEF PendingInv
  <2>4. QED
    BY <1>c, <1>d, <1>e, <1>9, <2>3, WriteAt DEF KeepsAccept, KeepsSocket, KeepsStrand
<1>10. CASE Begin(d)
  <2>1. /\ KeepsAccept(d) /\ KeepsSocket(d) /\ pending'[d] = pending[d] /\ KeepsOutgoing(d)
        /\ running[d] = <<>> /\ strand[d] # <<>> /\ strand'[d] = Tail(strand[d])
    BY <1>10, BeginAt
  <2>2. PICK r : running'[d] = <<r>> /\ r.at = Head(strand[d]).kind
    BY <1>10, BeginAt
  <2>3. running'[d] # <<>> /\ running'[d][1] = r
    BY ONLY <2>2
  <2>4. /\ Ending(strand'[d]) => Ending(strand[d])
        /\ r.at = "forget" => strand'[d] = <<>> /\ Ending(strand[d])
        /\ r.at # "forget" /\ Ending(strand[d]) => Ending(strand'[d])
    BY <1>a, <1>b, <2>1, <2>2, Unqueues DEF Leaving
  <2>5. Len(strand'[d]) = Len(strand[d]) - 1 /\ Len(strand[d]) \in Nat
    BY ONLY <1>b, <2>1, HeadTailProperties
  <2>6. CommandsRunning(d) = 0 /\ CommandsRunning(d)' = IF r.at = "forget" THEN 0 ELSE 1
    BY <2>1, <2>3 DEF CommandsRunning, ForgetRuns
  <2>7. CASE r.at = "forget"
    <3>1. ~Ending(strand'[d]) /\ Len(strand'[d]) = 0
      BY <2>4, <2>7 DEF Ending
    <3>2. CommandsWaiting(d) = 0 /\ CommandsWaiting(d)' = 0
      BY <2>4, <2>5, <2>7, <3>1 DEF CommandsWaiting
    <3>3. QED
      BY <1>c, <1>f, <2>1, <2>6, <2>7, <3>2 DEF KeepsAccept, KeepsSocket, KeepsOutgoing
  <2>8. CASE r.at # "forget"
    <3>1. CommandsWaiting(d)' = CommandsWaiting(d) - 1
      BY <2>4, <2>5, <2>8 DEF CommandsWaiting
    <3>2. CommandsWaiting(d) \in Int
      BY <2>5 DEF CommandsWaiting
    <3>3. pending'[d] = CommandsWaiting(d)' + CommandsRunning(d)'
      BY <2>1, <2>6, <2>8, <3>1, <3>2 DEF PendingInv
    <3>4. QED
      BY <1>f, <2>1, <3>3 DEF PendingInv, KeepsAccept, KeepsSocket, KeepsOutgoing
  <2>9. QED
    BY <2>7, <2>8
<1>11. CASE RunWatch(d)
  <2>1. PICK r \in Running : running'[d] = <<r>> /\ r.at # "forget"
    BY <1>11, WatchAt
  <2>2. CommandsRunning(d)' = CommandsRunning(d)
    BY <1>i, <1>11, <2>1, WatchAt DEF ForgetRuns
  <2>3. QED
    BY <1>c, <1>d, <1>f, <1>11, <2>2, WatchAt DEF KeepsAccept, KeepsSocket, KeepsOutgoing
<1>12. CASE RunReplace(d) \/ RunUnwatch(d)
  <2>1. PICK r \in Running : running'[d] = <<r>> /\ r.at # "forget"
    BY <1>12, ReplaceAt
  <2>2. CommandsRunning(d)' = CommandsRunning(d)
    BY <1>i, <1>12, <2>1, ReplaceAt DEF ForgetRuns
  <2>3. QED
    BY <1>c, <1>d, <1>f, <1>12, <2>2, ReplaceAt DEF KeepsAccept, KeepsSocket, KeepsOutgoing
<1>13. CASE RunReply(d)
  <2>1. PICK r \in Running : running'[d] = <<r>> /\ r.at # "forget"
    BY <1>13, ReplyAt
  <2>2. CommandsRunning(d)' = CommandsRunning(d)
    BY <1>i, <1>13, <2>1, ReplyAt DEF ForgetRuns
  <2>3. QED
    BY <1>c, <1>d, <1>f, <1>13, <2>2, ReplyAt DEF KeepsAccept, KeepsSocket, KeepsOutgoing
<1>14. CASE RunDone(d)
  <2>1. /\ KeepsAccept(d) /\ KeepsSocket(d) /\ pending'[d] = pending[d] - 1 /\ KeepsOutgoing(d)
        /\ strand'[d] = strand[d]
        /\ running[d] # <<>> /\ running[d][1].at = "done" /\ running'[d] = <<>>
    BY <1>14, DoneAt
  <2>2. CommandsRunning(d) = 1 /\ CommandsRunning(d)' = 0 /\ CommandsWaiting(d)' = CommandsWaiting(d)
    BY <1>d, <2>1 DEF CommandsRunning, ForgetRuns
  <2>3. CommandsWaiting(d) \in Int
    BY <1>b DEF CommandsWaiting
  <2>4. pending'[d] = CommandsWaiting(d)' + CommandsRunning(d)' /\ pending'[d] <= MaxPending
    BY <1>b, <2>1, <2>2, <2>3 DEF PendingInv
  <2>5. QED
    BY <1>f, <2>1, <2>4 DEF PendingInv, KeepsAccept, KeepsSocket, KeepsOutgoing
<1>15. CASE RunForget(d)
  <2>1. CommandsRunning(d) = 0 /\ CommandsRunning(d)' = 0
    BY <1>15, ForgetAt DEF CommandsRunning, ForgetRuns
  <2>2. QED
    BY <1>c, <1>d, <1>f, <1>15, <2>1, ForgetAt DEF KeepsSocket, KeepsOutgoing
<1>16. CASE \E id \in Ids : d \in watchers[id] /\ Publish(id)
  BY <1>c, <1>d, <1>e, <1>f, <1>16, PublishAt
     DEF KeepsAccept, KeepsSocket, KeepsStrand, KeepsOutgoing
<1>17. CASE DropReplies
  BY <1>c, <1>d, <1>e, <1>f, <1>17, DropAt
     DEF KeepsAccept, KeepsSocket, KeepsStrand, KeepsOutgoing
<1>18. QED
  BY <1>1, <1>2, <1>3, <1>4, <1>5, <1>6, <1>7, <1>8, <1>9, <1>10, <1>11, <1>12, <1>13, <1>14,
     <1>15, <1>16, <1>17, StepAt DEF Own

(* A connection that was closed stays so. *)
LEMMA Remains ==
  ASSUME TypeInv, [Next]_vars, NEW d \in Sessions, closed[d]
  PROVE  closed'[d]
<1>1. CASE Untouched(d)
  BY <1>1 DEF Untouched, KeepsSocket
<1>2. CASE Connects(d) \/ AcceptHandler(d)
  BY <1>2, AcceptAt DEF KeepsSocket
<1>3. CASE HandshakeDone(d) \/ HandshakeHandler(d)
  BY <1>3, HandshakeAt
<1>4. CASE \E command \in Commands : CommandArrives(d, command)
  BY <1>4, ArrivesAt
<1>5. CASE ReadHandler(d)
  BY <1>5, ReadAt DEF Closes
<1>6. CASE ConnectionFails(d) \/ (d \in sessions /\ ~closed[d] /\ StopHandler)
  BY <1>6, FailsAt DEF Closes
<1>7. CASE EnqueueHandler(d)
  BY <1>7, EnqueueAt DEF Enqueued, Closes
<1>8. CASE HeartbeatHandler(d) \/ WriteHandler(d)
  BY <1>8, HeartbeatAt, WriteAt
<1>9. CASE Begin(d) \/ RunWatch(d)
  BY <1>9, BeginAt, WatchAt DEF KeepsSocket
<1>10. CASE RunReplace(d) \/ RunUnwatch(d) \/ RunReply(d)
  BY <1>10, ReplaceAt, ReplyAt DEF KeepsSocket
<1>11. CASE RunDone(d) \/ RunForget(d)
  BY <1>11, DoneAt, ForgetAt DEF KeepsSocket
<1>12. CASE \E id \in Ids : d \in watchers[id] /\ Publish(id)
  BY <1>12, PublishAt DEF KeepsSocket
<1>13. CASE DropReplies
  BY <1>13, DropAt DEF KeepsSocket
<1>14. QED
  BY <1>1, <1>2, <1>3, <1>4, <1>5, <1>6, <1>7, <1>8, <1>9, <1>10, <1>11, <1>12, <1>13, StepAt DEF Own

-----------------------------------------------------------------------------
(* The commands that run or wait are numbered after those answered, and    *)
(* only a reply answers one.                                               *)
LEMMA AskedStep ==
  ASSUME TypeInv, [Next]_vars, NEW d \in Sessions, SessionInv(d), PendingInv(d), AnswerInv(d),
         ~closed'[d]
  PROVE  /\ ~closed[d] /\ Asked(d)'
         /\ Answered(d) \in Int
         /\ \/ Answered(d)' = Answered(d) /\ ~RunReply(d)
            \/ /\ RunReply(d) /\ Answered(d)' = Answered(d) + 1
               /\ running[d][1].n = Answered(d) + 1
<1>a. Joined(d) /\ Leaving(d)
  BY DEF SessionInv
<1>b. /\ strand[d] \in Seq(Named) /\ Len(strand[d]) \in Nat /\ commands[d] \in Nat
      /\ CommandsRead(d) \in Int /\ Answering(d) \in {0, 1} /\ Answered(d) \in Int
  <2>1. strand[d] \in Seq(Named) /\ commands[d] \in Nat
    BY DEF TypeInv, StrandTypeOK, ReadyTypeOK
  <2>2. Len(strand[d]) \in Nat
    BY ONLY <2>1
  <2>3. CommandsRead(d) \in Int /\ Answering(d) \in {0, 1}
    BY <2>1 DEF CommandsRead, Answering
  <2>4. QED
    BY <2>1, <2>2, <2>3 DEF Answered
<1>c. closed[d] => closed'[d]
  BY Remains
<1>d. ~closed[d] /\ Asked(d)
  BY <1>c DEF AnswerInv
<1>e. ASSUME conn'[d] = conn[d], ready'[d] = ready[d], commands'[d] = commands[d]
      PROVE  CommandsRead(d)' = CommandsRead(d)
  BY <1>e DEF CommandsRead
<1>f. ASSUME CommandsRead(d)' = CommandsRead(d), strand'[d] = strand[d],
             Answering(d)' = Answering(d),
             Answering(d) = 1 => running'[d][1].n = running[d][1].n
      PROVE  Asked(d)' /\ Answered(d)' = Answered(d)
  BY <1>d, <1>f DEF Asked, Answered
<1>g. ASSUME running'[d] = running[d] PROVE Answering(d)' = Answering(d)
  BY <1>g DEF Answering
<1>h. ASSUME NEW r \in Running, running'[d] = <<r>>
      PROVE  running'[d][1] = r /\ Answering(d)' = IF r.at \in {"done", "forget"} THEN 0 ELSE 1
  <2>1. running'[d] # <<>> /\ running'[d][1] = r
    BY ONLY <1>h
  <2>2. QED
    BY <2>1 DEF Answering
<1>i. ASSUME RunReply(d) PROVE running[d][1].at \in {"reply", "other"}
  BY <1>i DEF RunReply, Runs
<1>j. CASE RunReply(d)
  <2>1. PICK r \in Running : running'[d] = <<r>> /\ r.at = "done"
    BY <1>j, ReplyAt
  <2>2. Answering(d) = 1 /\ Answering(d)' = 0
    BY <1>h, <1>j, <2>1, ReplyAt DEF Answering
  <2>3. CommandsRead(d)' = CommandsRead(d) /\ strand'[d] = strand[d]
    BY <1>e, <1>j, ReplyAt DEF KeepsAccept, KeepsSocket
  <2>4. Answered(d)' = Answered(d) + 1 /\ running[d][1].n = Answered(d) + 1
    BY <1>b, <1>d, <2>2, <2>3 DEF Answered, Asked
  <2>5. Asked(d)'
    BY <1>b, <1>d, <2>2, <2>3, <2>4 DEF Asked
  <2>6. QED
    BY <1>b, <1>d, <1>j, <2>4, <2>5
<1>k. SUFFICES ASSUME ~RunReply(d) PROVE Asked(d)' /\ Answered(d)' = Answered(d)
  BY <1>b, <1>c, <1>d, <1>j
<1>1. CASE Untouched(d)
  BY <1>e, <1>f, <1>g, <1>1 DEF Untouched, KeepsAccept, KeepsSocket, KeepsStrand
<1>2. CASE Connects(d) \/ AcceptHandler(d)
  <2>1. /\ KeepsSocket(d) /\ KeepsStrand(d) /\ conn'[d] # "open"
        /\ conn[d] = "none"
    BY <1>a, <1>2, AcceptAt DEF Joined
  <2>2. CommandsRead(d)' = CommandsRead(d)
    BY <2>1 DEF CommandsRead, KeepsSocket
  <2>3. QED
    BY <1>f, <1>g, <2>1, <2>2 DEF KeepsStrand
<1>3. CASE HandshakeDone(d) \/ HandshakeHandler(d)
  <2>1. CommandsRead(d)' = CommandsRead(d)
    BY <1>3, HandshakeAt DEF CommandsRead
  <2>2. QED
    BY <1>f, <1>g, <1>3, <2>1, HandshakeAt DEF KeepsStrand
<1>4. CASE \E command \in Commands : CommandArrives(d, command)
  <2>1. conn[d] = "open" /\ conn'[d] = conn[d] /\ ready[d] = <<>> /\ ready'[d] # <<>>
        /\ commands'[d] = commands[d] + 1 /\ KeepsStrand(d)
    BY <1>4, ArrivesAt DEF KeepsAccept
  <2>2. CommandsRead(d)' = CommandsRead(d)
    BY <1>b, <2>1 DEF CommandsRead
  <2>3. QED
    BY <1>f, <1>g, <2>1, <2>2 DEF KeepsStrand
<1>5. CASE ReadHandler(d)
  <2>1. /\ conn[d] = "open" /\ conn'[d] = conn[d] /\ ready[d] # <<>> /\ ready'[d] = <<>>
        /\ commands'[d] = commands[d] /\ running'[d] = running[d]
        /\ ready[d][1] \in Command /\ ready[d][1].n = commands[d]
        /\ strand'[d] = Append(strand[d], ready[d][1])
    BY <1>c, <1>d, <1>5, ReadAt DEF KeepsAccept, Closes
  <2>2. CommandsRead(d) = commands[d] - 1 /\ CommandsRead(d)' = commands[d]
    BY <2>1 DEF CommandsRead
  <2>3. ready[d][1] \in Named
    BY <2>1 DEF Command
  <2>4. /\ Len(strand'[d]) = Len(strand[d]) + 1
        /\ \A i \in 1..Len(strand[d]) : strand'[d][i] = strand[d][i]
        /\ strand'[d][Len(strand[d]) + 1] = ready[d][1]
    BY ONLY <1>b, <2>1, <2>3, AppendProperties
  <2>5. Answering(d)' = Answering(d)
    BY <1>g, <2>1
  <2>6. Answered(d)' = Answered(d) /\ commands[d] = Answered(d) + Answering(d) + Len(strand[d]) + 1
    <3>1. Answered(d) = commands[d] - 1 - Len(strand[d]) - Answering(d)
      BY <2>2 DEF Answered
    <3>2. Answered(d)' = commands[d] - (Len(strand[d]) + 1) - Answering(d)
      BY <1>b, <2>2, <2>4, <2>5 DEF Answered
    <3>3. PICK n \in Int, m \in Int, k \in Int :
            n = commands[d] /\ m = Len(strand[d]) /\ k = Answering(d)
      BY <1>b
    <3>4. PICK a, b : a = Answered(d) /\ b = Answered(d)'
      OBVIOUS
    <3>5. a = n - 1 - m - k /\ b = n - (m + 1) - k
      BY <3>1, <3>2, <3>3, <3>4
    <3>6. a = b /\ n = a + k + m + 1
      BY ONLY <3>5, n \in Int, m \in Int, k \in Int
    <3>7. QED
      BY <3>3, <3>4, <3>6
  <2>7. ASSUME NEW i \in 1..Len(strand'[d])
        PROVE  strand'[d][i].n = Answered(d) + Answering(d) + i
    <3>1. CASE i = Len(strand[d]) + 1
      <4>1. strand'[d][i].n = commands[d]
        BY ONLY <2>1, <2>4, <3>1
      <4>2. QED
        BY ONLY <1>b, <2>6, <3>1, <4>1
    <3>2. CASE i \in 1..Len(strand[d])
      BY <1>d, <2>4, <3>2 DEF Asked
    <3>3. QED
      BY ONLY <1>b, <2>4, <2>7, <3>1, <3>2
  <2>8. Answering(d) = 1 => running'[d][1].n = Answered(d) + 1
    BY <1>d, <2>1 DEF Asked
  <2>9. QED
    BY <2>5, <2>6, <2>7, <2>8 DEF Asked
<1>6. CASE ConnectionFails(d) \/ (d \in sessions /\ ~closed[d] /\ StopHandler)
  BY <1>6, FailsAt DEF Closes
<1>7. CASE EnqueueHandler(d)
  <2>1. strand'[d] = strand[d] /\ running'[d] = running[d]
    BY <1>7, EnqueueAt DEF Enqueued, Closes
  <2>2. CommandsRead(d)' = CommandsRead(d)
    BY <1>e, <1>7, EnqueueAt DEF KeepsAccept
  <2>3. QED
    BY <1>f, <1>g, <2>1, <2>2
<1>8. CASE HeartbeatHandler(d)
  <2>1. strand'[d] = strand[d] /\ running'[d] = running[d]
    BY <1>8, HeartbeatAt DEF Enqueued, Closes
  <2>2. CommandsRead(d)' = CommandsRead(d)
    BY <1>e, <1>8, HeartbeatAt DEF KeepsAccept
  <2>3. QED
    BY <1>f, <1>g, <2>1, <2>2
<1>9. CASE WriteHandler(d)
  BY <1>e, <1>f, <1>g, <1>9, WriteAt DEF KeepsAccept, KeepsSocket, KeepsStrand
<1>10. CASE Begin(d)
  <2>1. /\ KeepsAccept(d) /\ KeepsSocket(d) /\ running[d] = <<>> /\ strand[d] # <<>>
        /\ Head(strand[d]) \in Named /\ strand'[d] = Tail(strand[d])
    BY <1>10, BeginAt
  <2>2. PICK r \in Running : /\ running'[d] = <<r>> /\ r.at = Head(strand[d]).kind
                             /\ r.n = Head(strand[d]).n
    BY <1>10, BeginAt
  <2>3. Head(strand[d]).kind # "forget"
    BY <1>a, <1>b, <1>d, <2>1, Unqueues DEF Leaving
  <2>4. r.at \notin {"done", "forget"}
    BY <2>1, <2>2, <2>3 DEF Named
  <2>5. Answering(d) = 0 /\ Answering(d)' = 1 /\ running'[d][1].n = Head(strand[d]).n
    BY <1>h, <2>1, <2>2, <2>4 DEF Answering
  <2>6. /\ Len(strand'[d]) = Len(strand[d]) - 1 /\ Head(strand[d]) = strand[d][1]
        /\ Len(strand[d]) >= 1
        /\ \A i \in 1..Len(strand'[d]) : strand'[d][i] = strand[d][i + 1]
    BY ONLY <1>b, <2>1, HeadTailProperties
  <2>7. CommandsRead(d)' = CommandsRead(d)
    BY <1>e, <2>1 DEF KeepsAccept, KeepsSocket
  <2>8. Answered(d)' = Answered(d)
    BY <1>b, <2>5, <2>6, <2>7 DEF Answered
  <2>9. \A i \in 1..Len(strand[d]) : strand[d][i].n = Answered(d) + i
    <3>1. \A i \in 1..Len(strand[d]) : strand[d][i].n = Answered(d) + Answering(d) + i
      BY <1>d DEF Asked
    <3>2. Answered(d) \in Int
      BY ONLY <1>b
    <3>3. QED
      BY ONLY <2>5, <3>1, <3>2
  <2>10. running'[d][1].n = Answered(d) + 1
    BY ONLY <1>b, <2>5, <2>6, <2>9
  <2>11. \A i \in 1..Len(strand'[d]) : strand'[d][i].n = Answered(d) + 1 + i
    <3> TAKE i \in 1..Len(strand'[d])
    <3>1. i \in Nat /\ i + 1 \in 1..Len(strand[d])
      BY ONLY <1>b, <2>6, i \in 1..Len(strand'[d])
    <3>2. strand'[d][i] = strand[d][i + 1]
      BY ONLY <2>6, i \in 1..Len(strand'[d])
    <3>3. strand[d][i + 1].n = Answered(d) + (i + 1)
      BY ONLY <2>9, <3>1
    <3>4. Answered(d) + (i + 1) = Answered(d) + 1 + i
      BY ONLY <1>b, <3>1
    <3>5. QED
      BY ONLY <3>2, <3>3, <3>4
  <2>12. QED
    BY <2>5, <2>8, <2>10, <2>11 DEF Asked
<1>11. CASE RunWatch(d)
  <2>1. PICK r \in Running : /\ running'[d] = <<r>> /\ r.at \in {"reply", "replace"}
                             /\ r.n = running[d][1].n
    BY <1>11, WatchAt
  <2>2. running[d] # <<>> /\ running[d][1].at = "watch" /\ strand'[d] = strand[d]
        /\ CommandsRead(d)' = CommandsRead(d)
    BY <1>e, <1>11, WatchAt DEF KeepsAccept, KeepsSocket
  <2>3. Answering(d) = 1 /\ Answering(d)' = 1 /\ running'[d][1] = r
    BY <1>h, <2>1, <2>2 DEF Answering
  <2>4. QED
    BY <1>f, <2>1, <2>2, <2>3
<1>12. CASE RunReplace(d) \/ RunUnwatch(d)
  <2>1. PICK r \in Running : /\ running'[d] = <<r>> /\ r.at = "reply"
                             /\ r.n = running[d][1].n
    BY <1>12, ReplaceAt
  <2>2. running[d] # <<>> /\ running[d][1].at \in {"replace", "unwatch"} /\ strand'[d] = strand[d]
        /\ CommandsRead(d)' = CommandsRead(d)
    BY <1>e, <1>12, ReplaceAt DEF KeepsAccept, KeepsSocket
  <2>3. Answering(d) = 1 /\ Answering(d)' = 1 /\ running'[d][1] = r
    BY <1>h, <2>1, <2>2 DEF Answering
  <2>4. QED
    BY <1>f, <2>1, <2>2, <2>3
<1>13. CASE RunDone(d)
  <2>1. running[d] # <<>> /\ running[d][1].at = "done" /\ running'[d] = <<>>
        /\ strand'[d] = strand[d] /\ CommandsRead(d)' = CommandsRead(d)
    BY <1>e, <1>13, DoneAt DEF KeepsAccept, KeepsSocket
  <2>2. Answering(d) = 0 /\ Answering(d)' = 0
    BY <2>1 DEF Answering
  <2>3. QED
    BY <1>f, <2>1, <2>2
<1>14. CASE RunForget(d)
  BY <1>a, <1>d, <1>14, ForgetAt DEF Leaving
<1>15. CASE \E id \in Ids : d \in watchers[id] /\ Publish(id)
  BY <1>e, <1>f, <1>g, <1>15, PublishAt DEF KeepsAccept, KeepsSocket, KeepsStrand
<1>16. CASE DropReplies
  BY <1>e, <1>f, <1>g, <1>16, DropAt DEF KeepsAccept, KeepsSocket, KeepsStrand
<1>17. QED
  BY <1>k, <1>1, <1>2, <1>3, <1>4, <1>5, <1>6, <1>7, <1>8, <1>9, <1>10, <1>11, <1>12, <1>13, <1>14,
     <1>15, <1>16, StepAt DEF Own

(* A StreamInfo and a Book are posted one after the other. *)
LEMMA PostsBoth ==
  ASSUME NEW q \in Seq(Payload), NEW x, NEW y, <<x, y>> \in Seq(Payload)
  PROVE  /\ x \in Payload /\ y \in Payload /\ Append(q, x) \in Seq(Payload)
         /\ q \o <<x, y>> = Append(Append(q, x), y)
<1>1. x \in Payload /\ y \in Payload
  <2>1. <<x, y>>[1] \in Payload /\ <<x, y>>[2] \in Payload
    BY ONLY <<x, y>> \in Seq(Payload)
  <2>2. QED
    BY ONLY <2>1
<1>2. PICK s, t, u : s = Append(q, x) /\ t = Append(s, y) /\ u = q \o <<x, y>>
  OBVIOUS
<1>3. s \in Seq(Payload) /\ Len(s) = Len(q) + 1 /\ s[Len(q) + 1] = x
      /\ \A i \in 1..Len(q) : s[i] = q[i]
  BY ONLY <1>1, <1>2, AppendProperties, q \in Seq(Payload)
<1>4. t \in Seq(Payload) /\ Len(t) = Len(s) + 1 /\ t[Len(s) + 1] = y
      /\ \A i \in 1..Len(s) : t[i] = s[i]
  BY ONLY <1>1, <1>2, <1>3, AppendProperties
<1>5. /\ u \in Seq(Payload) /\ Len(u) = Len(q) + Len(<<x, y>>)
      /\ \A i \in 1..Len(u) : u[i] = IF i <= Len(q) THEN q[i] ELSE <<x, y>>[i - Len(q)]
  BY ONLY <1>2, ConcatProperties, q \in Seq(Payload), <<x, y>> \in Seq(Payload)
<1>6. PICK n \in Nat : n = Len(q)
  OBVIOUS
<1>7. Len(<<x, y>>) = 2 /\ <<x, y>>[1] = x /\ <<x, y>>[2] = y
  OBVIOUS
<1>8. \A i \in 1..(n + 2) : u[i] = t[i]
  <2> TAKE i \in 1..(n + 2)
  <2>1. CASE i \in 1..n
    BY ONLY <1>3, <1>4, <1>5, <1>6, <1>7, <2>1
  <2>2. CASE i = n + 1
    <3>1. u[i] = <<x, y>>[i - n] /\ i - n = 1
      BY ONLY <1>5, <1>6, <1>7, <2>2
    <3>2. t[i] = x
      BY ONLY <1>3, <1>4, <1>6, <2>2
    <3>3. QED
      BY ONLY <1>7, <3>1, <3>2
  <2>3. CASE i = n + 2
    <3>1. u[i] = <<x, y>>[i - n] /\ i - n = 2
      BY ONLY <1>5, <1>6, <1>7, <2>3
    <3>2. t[i] = y
      BY ONLY <1>3, <1>4, <1>6, <2>3
    <3>3. QED
      BY ONLY <1>7, <3>1, <3>2
  <2>4. QED
    BY ONLY <2>1, <2>2, <2>3, n \in Nat, i \in 1..(n + 2)
<1>9. u = t
  <2>1. Len(u) = n + 2 /\ Len(t) = n + 2
    BY ONLY <1>3, <1>4, <1>5, <1>6, <1>7
  <2>2. QED
    BY ONLY <1>4, <1>5, <1>8, <2>1, SeqEqual
<1>10. QED
  BY ONLY <1>1, <1>2, <1>3, <1>9

(* Nobody waits for the reply of a connection that is not closed once the  *)
(* pool is joined: none was answered.                                      *)
LEMMA NothingPosted ==
  ASSUME TypeInv, ServerInv, NEW d \in Sessions, SessionInv(d), server = "commandsEnded", ~closed[d]
  PROVE  posted[d] = <<>>
<1>1. d \notin sessions
  BY DEF ServerInv
<1>2. conn[d] \in {"none", "refused"}
  BY <1>1 DEF SessionInv, Joined, TypeInv, ConnectionsTypeOK
<1>3. QED
  BY <1>2 DEF SessionInv, Joined

(* The replies on their way stay those after the last one read, up to the  *)
(* last one given.                                                         *)
LEMMA AnswerStep ==
  ASSUME TypeInv, TypeInv', [Next]_vars, NEW d \in Sessions,
         ServerInv, SessionInv(d), PendingInv(d), AnswerInv(d)
  PROVE  AnswerInv(d)'
<1> SUFFICES ASSUME ~closed'[d] PROVE Asked(d)' /\ RepliesComing(d)'
  BY DEF AnswerInv
<1>1. /\ ~closed[d] /\ Asked(d)' /\ RepliesComing(d)
      /\ Answered(d) \in Int
      /\ \/ Answered(d)' = Answered(d) /\ ~RunReply(d)
         \/ /\ RunReply(d) /\ Answered(d)' = Answered(d) + 1
            /\ running[d][1].n = Answered(d) + 1
  BY AskedStep DEF AnswerInv
<1>2. PICK a, b, c, n : /\ a = client[d].reply /\ b = Answered(d) /\ c = Answered(d)' /\ n \in a..b
                        /\ InTurn(Payloads(outgoing[d]), a, n) /\ InTurn(posted[d], n, b)
  BY <1>1 DEF RepliesComing
<1>3. /\ client[d] \in Client /\ outgoing[d] \in Seq(Numbered) /\ posted[d] \in Seq(Payload)
      /\ client'[d] \in Client /\ outgoing'[d] \in Seq(Numbered) /\ posted'[d] \in Seq(Payload)
  BY DEF TypeInv, FramesTypeOK
<1>4. a \in Int /\ b \in Int /\ n \in Int /\ client'[d].reply \in Int
  BY <1>1, <1>2, <1>3 DEF Client
<1>5. PICK q : q = Payloads(outgoing[d])
  OBVIOUS
<1>6. q \in Seq(Payload)
  BY <1>3, <1>5, PayloadsAre
<1>7. ASSUME NEW m \in Int, InTurn(Payloads(outgoing'[d]), client'[d].reply, m),
             InTurn(posted'[d], m, c), c \in Int
      PROVE  RepliesComing(d)'
  <2>1. client'[d].reply <= m /\ m <= c
    BY <1>7 DEF InTurn
  <2>2. m \in client'[d].reply..c
    BY ONLY <1>4, <1>7, <2>1
  <2>3. QED
    BY <1>2, <1>7, <2>2 DEF RepliesComing
<1>8. ASSUME KeepsPosted(d), KeepsOutgoing(d), c = b PROVE RepliesComing(d)'
  BY <1>2, <1>4, <1>7, <1>8 DEF KeepsPosted, KeepsOutgoing
<1>9. ASSUME NEW p \in Payload, p.kind # "reply", posted'[d] = Append(posted[d], p), KeepsOutgoing(d),
             c = b
      PROVE  RepliesComing(d)'
  <2>1. InTurn(posted'[d], n, b)
    BY <1>2, <1>3, <1>4, <1>9, TurnAppend
  <2>2. QED
    BY <1>2, <1>4, <1>7, <1>9, <2>1 DEF KeepsOutgoing
<1>10. ASSUME NEW p \in Payload, outgoing'[d] = Append(outgoing[d], Frame(sequence[d], p))
       PROVE  Payloads(outgoing'[d]) = Append(q, p)
  <2>1. sequence[d] \in Nat
    BY DEF TypeInv, FramesTypeOK
  <2>2. QED
    BY <1>3, <1>5, <1>10, <2>1, PayloadsAppend
<1>11. CASE RunReply(d)
  <2>1. PICK p : p = Reply(running[d][1].n, running[d][1].watching)
    OBVIOUS
  <2>2. p \in Payload /\ posted'[d] = Append(posted[d], p) /\ KeepsOutgoing(d)
    BY <1>11, <2>1, ReplyAt
  <2>3. p.kind = "reply" /\ p.n = b + 1 /\ c = b + 1
    BY <1>1, <1>2, <1>11, <2>1 DEF Reply
  <2>4. InTurn(posted'[d], n, b + 1)
    BY <1>2, <1>3, <1>4, <2>2, <2>3, TurnAppend
  <2>5. QED
    BY <1>1, <1>2, <1>4, <1>7, <2>2, <2>3, <2>4 DEF KeepsOutgoing
<1>12. SUFFICES ASSUME ~RunReply(d), c = b PROVE RepliesComing(d)'
  BY <1>1, <1>2, <1>11
<1>13. CASE Untouched(d)
  BY <1>8, <1>12, <1>13 DEF Untouched
<1>14. CASE Connects(d) \/ AcceptHandler(d) \/ HandshakeDone(d) \/ HandshakeHandler(d)
  BY <1>8, <1>12, <1>14, AcceptAt, HandshakeAt
<1>15. CASE \E command \in Commands : CommandArrives(d, command)
  BY <1>8, <1>12, <1>15, ArrivesAt
<1>16. CASE ReadHandler(d)
  BY <1>8, <1>12, <1>16, ReadAt DEF Closes
<1>17. CASE ConnectionFails(d) \/ (d \in sessions /\ ~closed[d] /\ StopHandler)
  BY <1>17, FailsAt DEF Closes
<1>18. CASE EnqueueHandler(d)
  <2>1. PICK p \in Payload : /\ p = Head(posted[d]) /\ Enqueued(d, p)
                             /\ posted[d] # <<>> /\ posted'[d] = Tail(posted[d])
    BY <1>18, EnqueueAt
  <2>2. /\ p.kind # "reply" => InTurn(posted'[d], n, b)
        /\ p.kind = "reply" => p.n = n + 1 /\ InTurn(posted'[d], n + 1, b)
    <3>1. PICK s \in Seq(Payload) : s = posted[d] /\ s # <<>> /\ InTurn(s, n, b)
      BY <1>2, <1>3, <2>1
    <3>2. /\ Head(s).kind # "reply" => InTurn(Tail(s), n, b)
          /\ Head(s).kind = "reply" => Head(s).n = n + 1 /\ InTurn(Tail(s), n + 1, b)
      BY ONLY <1>4, <3>1, TurnTail
    <3>3. QED
      BY ONLY <2>1, <3>1, <3>2
  <2>3. CASE p.kind = "book" /\ outgoing'[d] = outgoing[d] /\ client'[d] = client[d]
    BY <1>2, <1>4, <1>7, <1>12, <2>2, <2>3
  <2>4. CASE outgoing'[d] = Append(outgoing[d], Frame(sequence[d], p)) /\ client'[d] = client[d]
    <3>1. Payloads(outgoing'[d]) = Append(q, p)
      BY <1>10, <2>4
    <3>2. CASE p.kind # "reply"
      <4>1. InTurn(Append(q, p), a, n)
        BY <1>2, <1>4, <1>5, <1>6, <3>2, TurnAppend
      <4>2. QED
        BY <1>2, <1>4, <1>7, <1>12, <2>2, <2>4, <3>1, <3>2, <4>1
    <3>3. CASE p.kind = "reply"
      <4>1. InTurn(Append(q, p), a, n + 1)
        BY <1>2, <1>4, <1>5, <1>6, <2>2, <3>3, TurnAppend
      <4>2. QED
        BY <1>2, <1>4, <1>7, <1>12, <2>2, <2>4, <3>1, <3>3, <4>1
    <3>4. QED
      BY <3>2, <3>3
  <2>5. QED
    BY <1>1, <2>1, <2>3, <2>4 DEF Enqueued, Closes
<1>19. CASE HeartbeatHandler(d)
  <2>1. PICK p \in Payload : p = Heartbeat /\ Enqueued(d, p) /\ KeepsPosted(d)
    BY <1>19, HeartbeatAt
  <2>2. p.kind = "heartbeat"
    BY <2>1 DEF Heartbeat
  <2>3. outgoing'[d] = Append(outgoing[d], Frame(sequence[d], p)) /\ client'[d] = client[d]
    BY <1>1, <2>1, <2>2 DEF Enqueued, Closes
  <2>4. InTurn(Payloads(outgoing'[d]), a, n)
    BY <1>2, <1>4, <1>5, <1>6, <1>10, <2>2, <2>3, TurnAppend
  <2>5. QED
    BY <1>2, <1>4, <1>7, <1>12, <2>1, <2>3, <2>4 DEF KeepsPosted
<1>20. CASE WriteHandler(d)
  <2>1. /\ outgoing[d] # <<>> /\ Head(outgoing[d]) \in Numbered
        /\ outgoing'[d] = Tail(outgoing[d])
        /\ client'[d] = Told(client[d], Head(outgoing[d])) /\ KeepsPosted(d)
    BY <1>20, WriteEffect, WriteAt
  <2>2. PICK p : p = Head(outgoing[d]).payload
    OBVIOUS
  <2>3. client'[d].reply = IF p.kind = "reply" THEN p.n ELSE a
    <3>1. PICK v \in Client, frame \in Numbered :
            v = client[d] /\ frame = Head(outgoing[d]) /\ p = frame.payload
      BY <1>3, <2>1, <2>2
    <3>2. /\ p.kind = "reply" => Told(v, frame).reply = p.n
          /\ p.kind # "reply" => Told(v, frame).reply = v.reply
      BY ONLY <3>1, ToldEffect
    <3>3. QED
      BY ONLY <1>2, <2>1, <3>1, <3>2
  <2>4. q # <<>> /\ Payloads(outgoing'[d]) = Tail(q) /\ Head(q) = p
    BY <1>3, <1>5, <2>1, <2>2, PayloadsTail
  <2>5. /\ p.kind # "reply" => InTurn(Tail(q), a, n)
        /\ p.kind = "reply" => p.n = a + 1 /\ InTurn(Tail(q), a + 1, n)
    BY <1>2, <1>4, <1>5, <1>6, <2>4, TurnTail
  <2>6. InTurn(Payloads(outgoing'[d]), client'[d].reply, n)
    BY <2>3, <2>4, <2>5
  <2>7. QED
    BY <1>2, <1>4, <1>7, <1>12, <2>1, <2>6 DEF KeepsPosted
<1>21. CASE Begin(d)
  BY <1>8, <1>12, <1>21, BeginAt
<1>22. CASE RunWatch(d)
  <2>1. KeepsOutgoing(d)
    BY <1>22, WatchAt
  <2>2. CASE KeepsPosted(d)
    BY <1>8, <1>12, <2>1, <2>2
  <2>3. CASE \E r \in Running :
               /\ <<StreamInfo(r.id), Book(r.id, books[d] + 1)>> \in Seq(Payload)
               /\ posted'[d] = posted[d] \o <<StreamInfo(r.id), Book(r.id, books[d] + 1)>>
    <3>1. PICK x, y : /\ x.kind = "info" /\ y.kind = "book" /\ <<x, y>> \in Seq(Payload)
                      /\ posted'[d] = posted[d] \o <<x, y>>
      <4>1. PICK r \in Running :
               /\ <<StreamInfo(r.id), Book(r.id, books[d] + 1)>> \in Seq(Payload)
               /\ posted'[d] = posted[d] \o <<StreamInfo(r.id), Book(r.id, books[d] + 1)>>
        BY <2>3
      <4>2. StreamInfo(r.id).kind = "info" /\ Book(r.id, books[d] + 1).kind = "book"
        BY DEF StreamInfo, Book
      <4>3. QED
        BY <4>1, <4>2
    <3>2. /\ x \in Payload /\ y \in Payload /\ Append(posted[d], x) \in Seq(Payload)
          /\ posted'[d] = Append(Append(posted[d], x), y)
      BY <1>3, <3>1, PostsBoth
    <3>3. InTurn(Append(posted[d], x), n, b)
      BY <1>2, <1>3, <1>4, <3>1, <3>2, TurnAppend
    <3>4. InTurn(posted'[d], n, b)
      BY <1>4, <3>1, <3>2, <3>3, TurnAppend
    <3>5. QED
      BY <1>2, <1>4, <1>7, <1>12, <2>1, <3>4 DEF KeepsOutgoing
  <2>4. QED
    BY <1>22, <2>2, <2>3, WatchAt
<1>23. CASE RunReplace(d) \/ RunUnwatch(d)
  BY <1>8, <1>12, <1>23, ReplaceAt
<1>24. CASE RunDone(d) \/ RunForget(d)
  BY <1>8, <1>12, <1>24, DoneAt, ForgetAt
<1>25. CASE \E id \in Ids : d \in watchers[id] /\ Publish(id)
  <2>1. PICK id \in Ids : d \in watchers[id] /\ Publish(id)
    BY <1>25
  <2>2. PICK p : p = Book(id, books[d] + 1)
    OBVIOUS
  <2>3. p \in Payload /\ posted'[d] = Append(posted[d], p) /\ KeepsOutgoing(d)
    BY <2>1, <2>2, PublishAt
  <2>4. p.kind # "reply"
    BY <2>2 DEF Book
  <2>5. QED
    BY <1>9, <1>12, <2>3, <2>4
<1>26. CASE DropReplies
  <2>1. posted[d] = <<>> /\ posted'[d] = posted[d] /\ KeepsOutgoing(d) /\ books'[d] = books[d]
    BY <1>1, <1>26, DropAt, NothingPosted
  <2>2. QED
    BY <1>8, <1>12, <2>1 DEF KeepsPosted
<1>27. RepliesComing(d)'
  BY <1>12, <1>13, <1>14, <1>15, <1>16, <1>17, <1>18, <1>19, <1>20, <1>21, <1>22, <1>23, <1>24,
     <1>25, <1>26, StepAt DEF Own
<1>28. QED
  BY <1>1, <1>27

(* One sequence of payloads after another is in turn. *)
LEMMA TurnConcat ==
  ASSUME NEW q \in Seq(Payload), NEW r \in Seq(Payload), NEW a \in Int, NEW m \in Int, NEW b \in Int,
         InTurn(q, a, m), InTurn(r, m, b)
  PROVE  InTurn(q \o r, a, b)
<1>1. PICK s : s = q \o r
  OBVIOUS
<1>2. PICK k \in Nat, l \in Nat : k = Len(q) /\ l = Len(r)
  OBVIOUS
<1>3. Len(s) = k + l /\ \A i \in 1..(k + l) : s[i] = IF i <= k THEN q[i] ELSE r[i - k]
  BY ONLY <1>1, <1>2, ConcatProperties, q \in Seq(Payload), r \in Seq(Payload)
<1>4. \A i \in 1..(k + l) : (i \in 1..k /\ s[i] = q[i]) \/ (i > k /\ i - k \in 1..l /\ s[i] = r[i - k])
  BY ONLY <1>3, k \in Nat, l \in Nat
<1>5. a <= m /\ m <= b
  BY ONLY InTurn(q, a, m), InTurn(r, m, b) DEF InTurn
<1>6. \A i \in 1..k : q[i].kind = "reply" => q[i].n \in (a + 1)..m
  BY ONLY <1>2, InTurn(q, a, m) DEF InTurn
<1>7. \A i \in 1..l : r[i].kind = "reply" => r[i].n \in (m + 1)..b
  BY ONLY <1>2, InTurn(r, m, b) DEF InTurn
<1>8. ASSUME NEW i \in 1..(k + l), s[i].kind = "reply" PROVE s[i].n \in (a + 1)..b
  <2>1. CASE i \in 1..k /\ s[i] = q[i]
    <3>1. s[i].n \in (a + 1)..m
      BY ONLY <1>6, <1>8, <2>1
    <3>2. QED
      BY ONLY <1>5, <3>1, a \in Int, m \in Int, b \in Int
  <2>2. CASE i - k \in 1..l /\ s[i] = r[i - k]
    <3>1. s[i].n \in (m + 1)..b
      BY ONLY <1>7, <1>8, <2>2
    <3>2. QED
      BY ONLY <1>5, <3>1, a \in Int, m \in Int, b \in Int
  <2>3. QED
    BY ONLY <1>4, <2>1, <2>2, i \in 1..(k + l)
<1>9. ASSUME NEW i \in 1..(k + l), NEW j \in 1..(k + l), i < j,
             s[i].kind = "reply", s[j].kind = "reply"
      PROVE  s[i].n < s[j].n
  <2>1. CASE i \in 1..k /\ s[i] = q[i] /\ j \in 1..k /\ s[j] = q[j]
    BY ONLY <1>2, <1>9, <2>1, InTurn(q, a, m) DEF InTurn
  <2>2. CASE i \in 1..k /\ s[i] = q[i] /\ j - k \in 1..l /\ s[j] = r[j - k]
    <3>1. s[i].n \in (a + 1)..m /\ s[j].n \in (m + 1)..b
      BY ONLY <1>6, <1>7, <1>9, <2>2
    <3>2. QED
      BY ONLY <3>1, a \in Int, m \in Int, b \in Int
  <2>3. CASE i - k \in 1..l /\ s[i] = r[i - k] /\ j - k \in 1..l /\ s[j] = r[j - k]
    <3>1. i - k < j - k
      BY ONLY <1>9, <2>3, k \in Nat
    <3>2. QED
      BY ONLY <1>2, <1>9, <2>3, <3>1, InTurn(r, m, b) DEF InTurn
  <2>4. ~(i > k /\ j \in 1..k)
    BY ONLY <1>9, k \in Nat
  <2>5. QED
    BY ONLY <1>4, <2>1, <2>2, <2>3, <2>4, i \in 1..(k + l), j \in 1..(k + l)
<1>10. ASSUME NEW n \in (a + 1)..b
       PROVE  \E i \in 1..(k + l) : s[i].kind = "reply" /\ s[i].n = n
  <2>1. CASE n \in (a + 1)..m
    <3>1. PICK i \in 1..k : q[i].kind = "reply" /\ q[i].n = n
      BY ONLY <1>2, <2>1, InTurn(q, a, m) DEF InTurn
    <3>2. i \in 1..(k + l) /\ s[i] = q[i]
      BY ONLY <1>3, i \in 1..k, k \in Nat, l \in Nat
    <3>3. QED
      BY ONLY <3>1, <3>2
  <2>2. CASE n \in (m + 1)..b
    <3>1. PICK i \in 1..l : r[i].kind = "reply" /\ r[i].n = n
      BY ONLY <1>2, <2>2, InTurn(r, m, b) DEF InTurn
    <3>2. k + i \in 1..(k + l) /\ ~(k + i <= k) /\ (k + i) - k = i
      BY ONLY i \in 1..l, k \in Nat, l \in Nat
    <3>3. s[k + i] = r[i]
      BY ONLY <1>3, <3>2
    <3>4. QED
      BY ONLY <3>1, <3>2, <3>3
  <2>3. QED
    BY ONLY <2>1, <2>2, a \in Int, m \in Int, b \in Int, n \in (a + 1)..b
<1>11. a <= b
  BY ONLY <1>5, a \in Int, m \in Int, b \in Int
<1>12. InTurn(s, a, b)
  BY ONLY <1>3, <1>8, <1>9, <1>10, <1>11 DEF InTurn
<1>13. QED
  BY ONLY <1>1, <1>12

(* The commands unanswered are the one that runs and those that wait. *)
LEMMA UnansweredAre ==
  ASSUME TypeInv, NEW c \in Sessions
  PROVE  /\ Len(Unanswered(c)) = Answering(c) + CommandsWaiting(c)
         /\ ~Ending(strand[c]) =>
              \A i \in 1..(Answering(c) + Len(strand[c])) :
                Unanswered(c)[i] = IF i <= Answering(c) THEN running[c][i]
                                                        ELSE strand[c][i - Answering(c)]
<1>1. strand[c] \in Seq(Named) /\ running[c] \in Seq(Running)
      /\ (running[c] # <<>> => running[c] = <<running[c][1]>>)
  BY DEF TypeInv, StrandTypeOK
<1>2. PICK S : S = Named \cup Running
  OBVIOUS
<1>3. PICK part : part = IF running[c] # <<>> /\ running[c][1].at \notin {"done", "forget"}
                           THEN running[c] ELSE <<>>
  OBVIOUS
<1>4. PICK waits : waits = IF Ending(strand[c]) THEN SubSeq(strand[c], 1, Len(strand[c]) - 1)
                                                ELSE strand[c]
  OBVIOUS
<1>5. Unanswered(c) = part \o waits
  BY <1>3, <1>4 DEF Unanswered, Ending
<1>6. part \in Seq(S) /\ Len(part) = Answering(c)
      /\ \A i \in 1..Answering(c) : part[i] = running[c][i]
  <2>1. CASE Answering(c) = 1
    <3>1. part = running[c] /\ running[c] = <<running[c][1]>> /\ running[c] # <<>>
      BY <1>1, <1>3, <2>1 DEF Answering
    <3>2. running[c][1] \in S
      BY ONLY <1>1, <1>2, <3>1
    <3>3. <<running[c][1]>> \in Seq(S) /\ Len(<<running[c][1]>>) = 1
      BY ONLY <3>2
    <3>4. QED
      BY ONLY <2>1, <3>1, <3>3
  <2>2. CASE Answering(c) = 0
    <3>1. part = <<>>
      BY <1>3, <2>2 DEF Answering
    <3>2. <<>> \in Seq(S) /\ Len(<<>>) = 0
      OBVIOUS
    <3>3. QED
      BY ONLY <2>2, <3>1, <3>2
  <2>3. QED
    BY <2>1, <2>2 DEF Answering
<1>7. waits \in Seq(S) /\ Len(waits) = CommandsWaiting(c)
  <2>1. Len(strand[c]) \in Nat /\ \A i \in 1..Len(strand[c]) : strand[c][i] \in S
    BY ONLY <1>1, <1>2
  <2>2. strand[c] \in Seq(S)
    <3>1. strand[c] = [i \in 1..Len(strand[c]) |-> strand[c][i]]
      BY ONLY <1>1
    <3>2. QED
      BY ONLY <2>1, <3>1
  <2>3. CASE Ending(strand[c])
    <3>1. Len(strand[c]) >= 1
      BY ONLY <1>1, <2>3 DEF Ending
    <3>2. PICK q, n : q = strand[c] /\ n = Len(strand[c])
      OBVIOUS
    <3>3. q \in Seq(S) /\ n \in Nat /\ n = Len(q) /\ n >= 1
      BY ONLY <2>1, <2>2, <3>1, <3>2
    <3>4. n - 1 \in Nat
      BY ONLY <3>3
    <3>5. SubSeq(q, 1, n - 1) \in Seq(S) /\ Len(SubSeq(q, 1, n - 1)) = n - 1
      BY ONLY <3>3, <3>4
    <3>6. QED
      BY <1>4, <2>3, <3>2, <3>5 DEF CommandsWaiting
  <2>4. CASE ~Ending(strand[c])
    BY <1>4, <2>2, <2>4 DEF CommandsWaiting
  <2>5. QED
    BY <2>3, <2>4
<1>8. /\ Len(part \o waits) = Len(part) + Len(waits)
      /\ \A i \in 1..Len(part \o waits) :
           (part \o waits)[i] = IF i <= Len(part) THEN part[i] ELSE waits[i - Len(part)]
  <2>1. part \in Seq(S) /\ waits \in Seq(S)
    BY ONLY <1>6, <1>7
  <2>2. QED
    BY ONLY <2>1, ConcatProperties
<1>9. ASSUME ~Ending(strand[c]), NEW i \in 1..(Answering(c) + Len(strand[c]))
      PROVE  Unanswered(c)[i] = IF i <= Answering(c) THEN running[c][i]
                                                     ELSE strand[c][i - Answering(c)]
  <2>1. waits = strand[c] /\ CommandsWaiting(c) = Len(strand[c])
    BY <1>4, <1>9 DEF CommandsWaiting
  <2>2. i \in 1..Len(part \o waits)
    BY ONLY <1>6, <1>7, <1>8, <1>9, <2>1
  <2>3. Answering(c) \in Nat /\ i \in Int
    BY DEF Answering
  <2>4. i <= Answering(c) => i \in 1..Answering(c)
    BY ONLY <1>9, <2>3
  <2>5. PICK all : all = part \o waits
    OBVIOUS
  <2>6. all[i] = IF i <= Answering(c) THEN part[i] ELSE strand[c][i - Answering(c)]
    BY ONLY <1>6, <1>8, <2>1, <2>2, <2>5
  <2>7. CASE i <= Answering(c)
    BY ONLY <1>5, <1>6, <2>4, <2>5, <2>6, <2>7
  <2>8. CASE ~(i <= Answering(c))
    BY ONLY <1>5, <2>5, <2>6, <2>8
  <2>9. QED
    BY ONLY <2>7, <2>8
<1>10. QED
  BY ONLY <1>5, <1>6, <1>7, <1>8, <1>9

(* So the replies are in order and none is missing, and the queues keep    *)
(* their bounds.                                                           *)
LEMMA AnswersAreInOrder ==
  ASSUME TypeInv, \A c \in Sessions : SessionInv(c) /\ PendingInv(c) /\ AnswerInv(c)
  PROVE  AnsweredInOrder
<1> SUFFICES ASSUME NEW c \in Sessions, NEW way, NEW waiting, NEW replies, NEW answered,
                    way = OnTheWay(c), waiting = Unanswered(c),
                    replies = {i \in 1..Len(way) : way[i].kind = "reply"},
                    answered = CommandsRead(c) - Len(waiting)
             PROVE  /\ ~closed[c] =>
                         /\ \A i \in 1..Len(waiting) : waiting[i].n = answered + i
                         /\ \A i, j \in replies : i < j => way[i].n < way[j].n
                         /\ {way[i].n : i \in replies} = (client[c].reply + 1)..answered
                    /\ Len(waiting) <= MaxPending /\ Len(outgoing[c]) <= MaxBacklog
  BY DEF AnsweredInOrder
<1>1. /\ strand[c] \in Seq(Named) /\ outgoing[c] \in Seq(Numbered) /\ posted[c] \in Seq(Payload)
      /\ client[c] \in Client /\ commands[c] \in Nat /\ MaxPending \in Nat
      /\ running[c] # <<>> => running[c] = <<running[c][1]>>
  BY ServerAssumption DEF TypeInv, StrandTypeOK, FramesTypeOK, ReadyTypeOK
<1>2. PICK a, l : a = Answering(c) /\ l = Len(strand[c])
  OBVIOUS
<1>3. a \in {0, 1} /\ l \in Nat /\ CommandsRead(c) \in Int /\ client[c].reply \in Nat
  <2>1. l \in Nat
    BY ONLY <1>1, <1>2
  <2>2. QED
    BY <1>1, <1>2, <2>1 DEF Answering, CommandsRead, Client
<1>4. Len(waiting) = a + CommandsWaiting(c)
  BY <1>2, UnansweredAre
<1>5. Len(waiting) <= MaxPending /\ Len(outgoing[c]) <= MaxBacklog
  <2>1. a <= CommandsRunning(c) /\ CommandsRunning(c) \in Nat
    BY <1>2 DEF Answering, CommandsRunning, ForgetRuns
  <2>2. CommandsWaiting(c) \in Int
    BY <1>2, <1>3 DEF CommandsWaiting
  <2>3. CommandsWaiting(c) + CommandsRunning(c) <= MaxPending
    BY DEF PendingInv
  <2>4. Len(waiting) <= MaxPending
    BY ONLY <1>1, <1>3, <1>4, <2>1, <2>2, <2>3
  <2>5. QED
    BY <2>4 DEF PendingInv
<1>6. ASSUME ~closed[c]
      PROVE  /\ \A i \in 1..Len(waiting) : waiting[i].n = answered + i
             /\ \A i, j \in replies : i < j => way[i].n < way[j].n
             /\ {way[i].n : i \in replies} = (client[c].reply + 1)..answered
  <2>1. ~Ending(strand[c]) /\ Asked(c) /\ RepliesComing(c)
    BY <1>6 DEF SessionInv, Leaving, AnswerInv
  <2>2. Len(waiting) = a + l
    BY <1>2, <1>4, <2>1 DEF CommandsWaiting
  <2>3. answered = CommandsRead(c) - l - a /\ answered = Answered(c)
    <3>1. Answered(c) = CommandsRead(c) - l - a
      BY <1>2 DEF Answered
    <3>2. QED
      BY ONLY <1>3, <2>2, <3>1, answered = CommandsRead(c) - Len(waiting)
  <2>4. answered \in Int
    BY ONLY <1>3, <2>3
  <2>5. ASSUME NEW i \in 1..Len(waiting) PROVE waiting[i].n = answered + i
    <3>1. waiting[i] = IF i <= a THEN running[c][i] ELSE strand[c][i - a]
      BY <1>2, <2>1, <2>2, UnansweredAre
    <3>2. a = 1 => running[c][1].n = answered + 1
      BY <1>2, <2>1, <2>3 DEF Asked
    <3>3. \A k \in 1..l : strand[c][k].n = answered + a + k
      BY <1>2, <2>1, <2>3 DEF Asked
    <3>4. CASE i <= a
      <4>1. i = 1 /\ a = 1
        BY ONLY <1>3, <2>2, <2>5, <3>4
      <4>2. QED
        BY ONLY <3>1, <3>2, <3>4, <4>1
    <3>5. CASE ~(i <= a)
      <4>1. i - a \in 1..l /\ answered + a + (i - a) = answered + i
        BY ONLY <1>3, <2>2, <2>4, <2>5, <3>5
      <4>2. QED
        BY ONLY <3>1, <3>3, <3>5, <4>1
    <3>6. QED
      BY <3>4, <3>5
  <2>6. InTurn(way, client[c].reply, answered)
    <3>1. PICK n \in Int : /\ InTurn(Payloads(outgoing[c]), client[c].reply, n)
                           /\ InTurn(posted[c], n, answered)
      BY <2>1, <2>3 DEF RepliesComing
    <3>2. PICK q \in Seq(Payload) : q = Payloads(outgoing[c])
      BY <1>1, PayloadsAre
    <3>3. way = q \o posted[c]
      BY <3>2 DEF OnTheWay, Payloads
    <3>4. client[c].reply \in Int
      BY ONLY <1>3
    <3>5. QED
      BY ONLY <1>1, <2>4, <3>1, <3>2, <3>3, <3>4, TurnConcat
  <2>7. ASSUME NEW i \in replies, NEW j \in replies, i < j PROVE way[i].n < way[j].n
    <3>1. /\ i \in 1..Len(way) /\ way[i].kind = "reply"
          /\ j \in 1..Len(way) /\ way[j].kind = "reply"
      OBVIOUS
    <3>2. QED
      BY ONLY <2>6, <2>7, <3>1 DEF InTurn
  <2>8. ASSUME NEW i \in replies PROVE way[i].n \in (client[c].reply + 1)..answered
    <3>1. i \in 1..Len(way) /\ way[i].kind = "reply"
      OBVIOUS
    <3>2. QED
      BY ONLY <2>6, <3>1 DEF InTurn
  <2>9. ASSUME NEW n \in (client[c].reply + 1)..answered PROVE \E i \in replies : way[i].n = n
    <3>1. PICK i \in 1..Len(way) : way[i].kind = "reply" /\ way[i].n = n
      BY ONLY <2>6, <2>9 DEF InTurn
    <3>2. i \in replies
      BY <3>1
    <3>3. QED
      BY ONLY <3>1, <3>2
  <2>10. {way[i].n : i \in replies} = (client[c].reply + 1)..answered
    BY ONLY <2>8, <2>9
  <2>11. QED
    BY <2>5, <2>7, <2>10
<1>7. QED
  BY <1>5, <1>6

-----------------------------------------------------------------------------
(* The streams a client watches after some payloads. *)
LEMMA WatchedNone ==
  ASSUME NEW S \in SUBSET Ids, NEW q
  PROVE  Watched(S, q, 0) = S
BY DEF Watched

(* One more payload. *)
LEMMA WatchedAppend ==
  ASSUME NEW S \in SUBSET Ids, NEW q \in Seq(Payload), NEW p \in Payload
  PROVE  /\ \A n \in 0..Len(q) : Watched(S, Append(q, p), n) = Watched(S, q, n)
         /\ Watched(S, Append(q, p), Len(q) + 1) = After(Watched(S, q, Len(q)), p)
<1>1. PICK r, k : r = Append(q, p) /\ k = Len(q)
  OBVIOUS
<1>2. k \in Nat /\ r[k + 1] = p /\ \A i \in 1..k : r[i] = q[i]
  BY ONLY <1>1, AppendProperties, q \in Seq(Payload), p \in Payload
<1>3. ASSUME NEW n \in 0..k PROVE Watched(S, r, n) = Watched(S, q, n)
  <2>1. \A i \in 1..n : r[i] = q[i]
    BY ONLY <1>2, n \in 0..k
  <2>2. \A i \in 1..n : \A j \in (i + 1)..n : j \in 1..n
    BY ONLY <1>2, n \in 0..k
  <2>3. ASSUME NEW id \in Ids
        PROVE  id \in Watched(S, r, n) <=> id \in Watched(S, q, n)
    <3>1. (\A j \in 1..n : ~Takes(r[j], id)) <=> (\A j \in 1..n : ~Takes(q[j], id))
      BY ONLY <2>1
    <3>2. ASSUME NEW i \in 1..n
          PROVE  (Gives(r[i], id) /\ \A j \in (i + 1)..n : ~Takes(r[j], id))
                   <=> (Gives(q[i], id) /\ \A j \in (i + 1)..n : ~Takes(q[j], id))
      BY ONLY <2>1, <2>2, i \in 1..n
    <3>3. QED
      BY ONLY <3>1, <3>2, id \in Ids DEF Watched
  <2>4. QED
    BY ONLY <2>3 DEF Watched
<1>4. Watched(S, r, k + 1) = After(Watched(S, q, k), p)
  <2>1. ASSUME NEW id \in Ids
        PROVE  id \in Watched(S, r, k + 1)
                 <=> Gives(p, id) \/ (id \in Watched(S, q, k) /\ ~Takes(p, id))
    <3>1. (\A j \in 1..(k + 1) : ~Takes(r[j], id))
             <=> (\A j \in 1..k : ~Takes(q[j], id)) /\ ~Takes(p, id)
      <4>1. \A j \in 1..(k + 1) : j \in 1..k \/ j = k + 1
        BY ONLY <1>2
      <4>2. \A j \in 1..k : j \in 1..(k + 1)
        BY ONLY <1>2
      <4>3. k + 1 \in 1..(k + 1)
        BY ONLY <1>2
      <4>4. QED
        BY ONLY <1>2, <4>1, <4>2, <4>3
    <3>2. ASSUME NEW i \in 1..k
          PROVE  /\ r[i] = q[i] /\ i \in 1..(k + 1)
                 /\ (\A j \in (i + 1)..(k + 1) : ~Takes(r[j], id))
                      <=> (\A j \in (i + 1)..k : ~Takes(q[j], id)) /\ ~Takes(p, id)
      <4>1. \A j \in (i + 1)..(k + 1) : (j \in (i + 1)..k /\ j \in 1..k) \/ j = k + 1
        BY ONLY <1>2, i \in 1..k
      <4>2. \A j \in (i + 1)..k : j \in 1..k /\ j \in (i + 1)..(k + 1)
        BY ONLY <1>2, i \in 1..k
      <4>3. k + 1 \in (i + 1)..(k + 1) /\ i \in 1..(k + 1) /\ r[i] = q[i]
        BY ONLY <1>2, i \in 1..k
      <4>4. QED
        BY ONLY <1>2, <4>1, <4>2, <4>3
    <3>3. k + 1 \in 1..(k + 1) /\ \A j \in ((k + 1) + 1)..(k + 1) : FALSE
      BY ONLY <1>2
    <3>4. \A i \in 1..(k + 1) : i \in 1..k \/ i = k + 1
      BY ONLY <1>2
    <3>5. (\E i \in 1..(k + 1) : Gives(r[i], id) /\ \A j \in (i + 1)..(k + 1) : ~Takes(r[j], id))
            <=> \/ Gives(p, id)
                \/ /\ \E i \in 1..k : Gives(q[i], id) /\ \A j \in (i + 1)..k : ~Takes(q[j], id)
                   /\ ~Takes(p, id)
      <4>1. ASSUME NEW i \in 1..(k + 1), Gives(r[i], id),
                   \A j \in (i + 1)..(k + 1) : ~Takes(r[j], id)
            PROVE  \/ Gives(p, id)
                   \/ /\ \E h \in 1..k : Gives(q[h], id) /\ \A j \in (h + 1)..k : ~Takes(q[j], id)
                      /\ ~Takes(p, id)
        <5>1. CASE i = k + 1
          BY ONLY <1>2, <4>1, <5>1
        <5>2. CASE i \in 1..k
          BY ONLY <3>2, <4>1, <5>2
        <5>3. QED
          BY <3>4, <5>1, <5>2
      <4>2. ASSUME Gives(p, id)
            PROVE  \E i \in 1..(k + 1) :
                     Gives(r[i], id) /\ \A j \in (i + 1)..(k + 1) : ~Takes(r[j], id)
        BY ONLY <1>2, <3>3, <4>2
      <4>3. ASSUME NEW h \in 1..k, Gives(q[h], id), \A j \in (h + 1)..k : ~Takes(q[j], id),
                   ~Takes(p, id)
            PROVE  \E i \in 1..(k + 1) :
                     Gives(r[i], id) /\ \A j \in (i + 1)..(k + 1) : ~Takes(r[j], id)
        BY ONLY <3>2, <4>3
      <4>4. QED
        BY <4>1, <4>2, <4>3
    <3>6. QED
      BY ONLY <3>1, <3>5, id \in Ids DEF Watched
  <2>2. QED
    BY ONLY <2>1 DEF Watched, After
<1>5. QED
  BY ONLY <1>1, <1>3, <1>4

(* One payload less. *)
LEMMA WatchedTail ==
  ASSUME NEW S \in SUBSET Ids, NEW q \in Seq(Payload), q # <<>>, NEW n \in 1..Len(q)
  PROVE  Watched(S, q, n) = Watched(After(S, Head(q)), Tail(q), n - 1)
<1>1. PICK r \in Seq(Payload), p \in Payload : r = Tail(q) /\ p = Head(q)
  BY ONLY HeadTailProperties, q \in Seq(Payload), q # <<>>
<1>2. PICK k : k = Len(q)
  OBVIOUS
<1>3. k \in Nat /\ \A i \in 1..(k - 1) : r[i] = q[i + 1]
  BY ONLY <1>1, <1>2, HeadTailProperties, q \in Seq(Payload), q # <<>>
<1>4. p = q[1]
  BY ONLY <1>1, q \in Seq(Payload), q # <<>>
<1>5. n \in Nat /\ n >= 1 /\ n <= k
  BY ONLY <1>2, <1>3, n \in 1..Len(q)
<1>6. ASSUME NEW i \in 1..(n - 1) PROVE r[i] = q[i + 1] /\ i + 1 \in 1..n
  BY ONLY <1>3, <1>5, i \in 1..(n - 1)
<1>7. ASSUME NEW i \in 1..n, i # 1 PROVE i - 1 \in 1..(n - 1) /\ r[i - 1] = q[i] /\ (i - 1) + 1 = i
  <2>1. i - 1 \in 1..(n - 1) /\ (i - 1) + 1 = i
    BY ONLY <1>5, <1>7
  <2>2. QED
    BY ONLY <1>6, <2>1
<1>8. ASSUME NEW id \in Ids
      PROVE  id \in Watched(S, q, n) <=> id \in Watched(After(S, p), r, n - 1)
  <2>1. ASSUME NEW m \in 1..n
        PROVE  (\A j \in (m + 1)..n : ~Takes(q[j], id))
                  <=> (\A j \in m..(n - 1) : ~Takes(r[j], id))
    <3>1. ASSUME NEW j \in (m + 1)..n PROVE j - 1 \in m..(n - 1) /\ r[j - 1] = q[j]
      <4>1. j - 1 \in m..(n - 1) /\ j \in 1..n /\ j # 1
        BY ONLY <1>5, m \in 1..n, j \in (m + 1)..n
      <4>2. QED
        BY ONLY <1>7, <4>1
    <3>2. ASSUME NEW j \in m..(n - 1) PROVE j + 1 \in (m + 1)..n /\ r[j] = q[j + 1]
      <4>1. j + 1 \in (m + 1)..n /\ j \in 1..(n - 1)
        BY ONLY <1>5, m \in 1..n, j \in m..(n - 1)
      <4>2. QED
        BY ONLY <1>6, <4>1
    <3>3. QED
      BY ONLY <3>1, <3>2
  <2>2. 1 \in 1..n /\ 1 + 1 = 2
    BY ONLY <1>5
  <2>3. (\A j \in 2..n : ~Takes(q[j], id)) <=> (\A j \in 1..(n - 1) : ~Takes(r[j], id))
    BY ONLY <2>1, <2>2
  <2>4. (\A j \in 1..n : ~Takes(q[j], id))
           <=> ~Takes(p, id) /\ (\A j \in 1..(n - 1) : ~Takes(r[j], id))
    <3>1. \A j \in 1..n : j = 1 \/ j \in 2..n
      BY ONLY <1>5
    <3>2. \A j \in 2..n : j \in 1..n
      BY ONLY <1>5
    <3>3. QED
      BY ONLY <1>4, <2>2, <2>3, <3>1, <3>2
  <2>5. ASSUME NEW i \in 1..(n - 1)
        PROVE  (Gives(r[i], id) /\ \A j \in (i + 1)..(n - 1) : ~Takes(r[j], id))
                  <=> (Gives(q[i + 1], id) /\ \A j \in ((i + 1) + 1)..n : ~Takes(q[j], id))
    <3>1. i + 1 \in 1..n /\ r[i] = q[i + 1]
      BY ONLY <1>6, i \in 1..(n - 1)
    <3>2. QED
      BY ONLY <2>1, <3>1
  <2>6. (\E i \in 1..n : Gives(q[i], id) /\ \A j \in (i + 1)..n : ~Takes(q[j], id))
          <=> \/ Gives(p, id) /\ \A j \in 1..(n - 1) : ~Takes(r[j], id)
              \/ \E i \in 1..(n - 1) :
                   Gives(r[i], id) /\ \A j \in (i + 1)..(n - 1) : ~Takes(r[j], id)
    <3>1. ASSUME NEW i \in 1..n, Gives(q[i], id), \A j \in (i + 1)..n : ~Takes(q[j], id)
          PROVE  \/ Gives(p, id) /\ \A j \in 1..(n - 1) : ~Takes(r[j], id)
                 \/ \E h \in 1..(n - 1) :
                      Gives(r[h], id) /\ \A j \in (h + 1)..(n - 1) : ~Takes(r[j], id)
      <4>1. CASE i = 1
        BY ONLY <1>4, <2>2, <2>3, <3>1, <4>1
      <4>2. CASE i # 1
        <5>1. i - 1 \in 1..(n - 1) /\ (i - 1) + 1 = i
          BY ONLY <1>7, <4>2, i \in 1..n
        <5>2. Gives(r[i - 1], id) /\ \A j \in ((i - 1) + 1)..(n - 1) : ~Takes(r[j], id)
          BY ONLY <2>5, <3>1, <5>1
        <5>3. QED
          BY ONLY <5>1, <5>2
      <4>3. QED
        BY <4>1, <4>2
    <3>2. ASSUME Gives(p, id), \A j \in 1..(n - 1) : ~Takes(r[j], id)
          PROVE  \E i \in 1..n : Gives(q[i], id) /\ \A j \in (i + 1)..n : ~Takes(q[j], id)
      BY ONLY <1>4, <2>2, <2>3, <3>2
    <3>3. ASSUME NEW h \in 1..(n - 1), Gives(r[h], id),
                 \A j \in (h + 1)..(n - 1) : ~Takes(r[j], id)
          PROVE  \E i \in 1..n : Gives(q[i], id) /\ \A j \in (i + 1)..n : ~Takes(q[j], id)
      <4>1. h + 1 \in 1..n
        BY ONLY <1>6, h \in 1..(n - 1)
      <4>2. QED
        BY ONLY <2>5, <3>3, <4>1
    <3>4. QED
      BY <3>1, <3>2, <3>3
  <2>7. id \in Watched(S, q, n)
          <=> \/ id \in S /\ ~Takes(p, id) /\ \A j \in 1..(n - 1) : ~Takes(r[j], id)
              \/ Gives(p, id) /\ \A j \in 1..(n - 1) : ~Takes(r[j], id)
              \/ \E i \in 1..(n - 1) :
                   Gives(r[i], id) /\ \A j \in (i + 1)..(n - 1) : ~Takes(r[j], id)
    BY ONLY <2>4, <2>6, id \in Ids DEF Watched
  <2>8. id \in Watched(After(S, p), r, n - 1)
          <=> \/ (Gives(p, id) \/ (id \in S /\ ~Takes(p, id)))
                 /\ \A j \in 1..(n - 1) : ~Takes(r[j], id)
              \/ \E i \in 1..(n - 1) :
                   Gives(r[i], id) /\ \A j \in (i + 1)..(n - 1) : ~Takes(r[j], id)
    BY ONLY id \in Ids DEF Watched, After
  <2>9. QED
    BY ONLY <2>7, <2>8
<1>9. Watched(S, q, n) = Watched(After(S, p), r, n - 1)
  BY ONLY <1>8 DEF Watched
<1>10. QED
  BY ONLY <1>1, <1>9

(* Only a StreamInfo or a reply changes what a client watches. *)
LEMMA AfterIs ==
  ASSUME NEW S \in SUBSET Ids, NEW p \in Payload
  PROVE  /\ After(S, p) \in SUBSET Ids
         /\ p.kind \in {"heartbeat", "book"} => After(S, p) = S
         /\ p.kind = "info" => After(S, p) = S \cup {p.id}
         /\ p.kind = "reply" /\ p.watching = Same => After(S, p) = S
         /\ p.kind = "reply" /\ p.watching # Same => After(S, p) = {p.watching} \ {0}
<1>1. After(S, p) \in SUBSET Ids
  BY DEF After
<1>2. p.kind \in {"heartbeat", "book"} => After(S, p) = S
  BY DEF After, Gives, Takes
<1>3. p.kind = "info" => After(S, p) = S \cup {p.id}
  <2>1. p.kind = "info" => p.id \in Ids
    BY DEF Payload
  <2>2. QED
    BY <2>1 DEF After, Gives, Takes
<1>4. p.kind = "reply" /\ p.watching = Same => After(S, p) = S
  <2>1. Same \notin Ids
    BY ServerAssumption DEF Same
  <2>2. QED
    BY <2>1 DEF After, Gives, Takes
<1>5. p.kind = "reply" /\ p.watching # Same => After(S, p) = {p.watching} \ {0}
  <2>1. p.kind = "reply" /\ p.watching # Same => p.watching \in Ids \cup {0}
    BY DEF Payload
  <2>2. 0 \notin Ids
    BY ServerAssumption
  <2>3. QED
    BY <2>1, <2>2 DEF After, Gives, Takes
<1>6. QED
  BY <1>1, <1>2, <1>3, <1>4, <1>5

(* What a client watches, and whether it met a stray Book, once it is told *)
(* of a frame.                                                             *)
LEMMA ToldStreams ==
  ASSUME NEW v \in Client, NEW frame \in Numbered
  PROVE  /\ Told(v, frame).streams = After(v.streams, frame.payload)
         /\ ~v.stray /\ (frame.payload.kind = "book" => frame.payload.id \in v.streams) =>
              ~Told(v, frame).stray
<1>1. PICK p : p = frame.payload
  OBVIOUS
<1>2. p \in Payload /\ v.streams \in SUBSET Ids
  BY <1>1 DEF Numbered, Client
<1>3. p.kind \in {"heartbeat", "info", "book", "reply"}
  BY <1>2 DEF Payload
<1>4. /\ p.kind = "info" => Told(v, frame).streams = v.streams \cup {p.id}
      /\ p.kind = "reply" /\ p.watching # Same => Told(v, frame).streams = {p.watching} \ {0}
      /\ p.kind \in {"heartbeat", "book"} \/ (p.kind = "reply" /\ p.watching = Same) =>
           Told(v, frame).streams = v.streams
      /\ p.kind # "book" => Told(v, frame).stray = v.stray
      /\ p.kind = "book" => (Told(v, frame).stray <=> v.stray \/ p.id \notin v.streams)
  BY ONLY <1>1, ToldEffect, v \in Client, frame \in Numbered
<1>5. /\ p.kind \in {"heartbeat", "book"} => After(v.streams, p) = v.streams
      /\ p.kind = "info" => After(v.streams, p) = v.streams \cup {p.id}
      /\ p.kind = "reply" /\ p.watching = Same => After(v.streams, p) = v.streams
      /\ p.kind = "reply" /\ p.watching # Same => After(v.streams, p) = {p.watching} \ {0}
  BY ONLY <1>2, AfterIs
<1>6. Told(v, frame).streams = After(v.streams, p)
  BY ONLY <1>3, <1>4, <1>5
<1>7. ~v.stray /\ (p.kind = "book" => p.id \in v.streams) => ~Told(v, frame).stray
  BY ONLY <1>4
<1>8. QED
  BY ONLY <1>1, <1>6, <1>7

(* No Book strays when one is queued that the client will watch by then,   *)
(* or the first payload is read.                                           *)
LEMMA StraysAppend ==
  ASSUME NEW S \in SUBSET Ids, NEW q \in Seq(Payload), NEW p \in Payload, NoneStrays(S, q),
         p.kind = "book" => p.id \in Watched(S, q, Len(q))
  PROVE  NoneStrays(S, Append(q, p))
<1>1. PICK r, k : r = Append(q, p) /\ k = Len(q)
  OBVIOUS
<1>2. k \in Nat /\ Len(r) = k + 1 /\ r[k + 1] = p /\ \A i \in 1..k : r[i] = q[i]
  BY ONLY <1>1, AppendProperties, q \in Seq(Payload), p \in Payload
<1>3. \A n \in 0..k : Watched(S, r, n) = Watched(S, q, n)
  BY ONLY <1>1, WatchedAppend, S \in SUBSET Ids, q \in Seq(Payload), p \in Payload
<1>4. ASSUME NEW i \in 1..(k + 1), r[i].kind = "book" PROVE r[i].id \in Watched(S, r, i - 1)
  <2>1. i - 1 \in 0..k
    BY ONLY <1>2, i \in 1..(k + 1)
  <2>2. CASE i = k + 1
    <3>1. i - 1 = k /\ r[i] = p
      BY ONLY <1>2, <2>2
    <3>2. p.id \in Watched(S, q, k)
      BY ONLY <1>1, <1>4, <3>1, p.kind = "book" => p.id \in Watched(S, q, Len(q))
    <3>3. QED
      BY ONLY <1>3, <2>1, <3>1, <3>2
  <2>3. CASE i \in 1..k
    <3>1. r[i] = q[i]
      BY ONLY <1>2, <2>3
    <3>2. q[i].id \in Watched(S, q, i - 1)
      BY ONLY <1>1, <1>4, <2>3, <3>1, NoneStrays(S, q) DEF NoneStrays
    <3>3. QED
      BY ONLY <1>3, <2>1, <3>1, <3>2
  <2>4. QED
    BY ONLY <1>2, <2>2, <2>3, i \in 1..(k + 1)
<1>5. NoneStrays(S, r)
  BY ONLY <1>2, <1>4 DEF NoneStrays
<1>6. QED
  BY ONLY <1>1, <1>5

(* The first payload is read: a Book is of a stream the client watches. *)
LEMMA StraysTail ==
  ASSUME NEW S \in SUBSET Ids, NEW q \in Seq(Payload), q # <<>>, NoneStrays(S, q)
  PROVE  /\ Head(q).kind = "book" => Head(q).id \in S
         /\ NoneStrays(After(S, Head(q)), Tail(q))
<1>1. PICK r \in Seq(Payload), p \in Payload : r = Tail(q) /\ p = Head(q)
  BY ONLY HeadTailProperties, q \in Seq(Payload), q # <<>>
<1>2. PICK k : k = Len(q)
  OBVIOUS
<1>3. k \in Nat /\ k >= 1 /\ Len(r) = k - 1 /\ \A i \in 1..(k - 1) : r[i] = q[i + 1]
  BY ONLY <1>1, <1>2, HeadTailProperties, q \in Seq(Payload), q # <<>>
<1>4. p = q[1]
  BY ONLY <1>1, q \in Seq(Payload), q # <<>>
<1>5. p.kind = "book" => p.id \in S
  <2>1. 1 \in 1..k /\ 1 - 1 = 0
    BY ONLY <1>3
  <2>2. p.kind = "book" => p.id \in Watched(S, q, 0)
    BY ONLY <1>2, <1>4, <2>1, NoneStrays(S, q) DEF NoneStrays
  <2>3. QED
    BY ONLY <2>2, WatchedNone, S \in SUBSET Ids
<1>6. ASSUME NEW i \in 1..(k - 1), r[i].kind = "book" PROVE r[i].id \in Watched(After(S, p), r, i - 1)
  <2>1. r[i] = q[i + 1] /\ i + 1 \in 1..k /\ i \in 1..k /\ (i + 1) - 1 = i
    BY ONLY <1>3, i \in 1..(k - 1)
  <2>2. q[i + 1].id \in Watched(S, q, i)
    BY ONLY <1>2, <1>6, <2>1, NoneStrays(S, q) DEF NoneStrays
  <2>3. Watched(S, q, i) = Watched(After(S, p), r, i - 1)
    BY ONLY <1>1, <1>2, <2>1, WatchedTail, S \in SUBSET Ids, q \in Seq(Payload), q # <<>>
  <2>4. QED
    BY ONLY <2>1, <2>2, <2>3
<1>7. NoneStrays(After(S, p), r)
  BY ONLY <1>3, <1>6 DEF NoneStrays
<1>8. QED
  BY ONLY <1>1, <1>5, <1>7

(* What a client made of its frames changes when it reads one or is        *)
(* dropped.                                                                *)
LEMMA ClientAt ==
  ASSUME TypeInv, [Next]_vars, NEW d \in Sessions
  PROVE  WriteHandler(d) \/ client'[d] \in {client[d], NewClient}
<1>1. CASE Untouched(d)
  BY <1>1 DEF Untouched, KeepsOutgoing
<1>2. CASE Connects(d) \/ AcceptHandler(d)
  BY <1>2, AcceptAt DEF KeepsOutgoing
<1>3. CASE HandshakeDone(d) \/ HandshakeHandler(d)
  BY <1>3, HandshakeAt DEF KeepsOutgoing
<1>4. CASE \E command \in Commands : CommandArrives(d, command)
  BY <1>4, ArrivesAt DEF KeepsOutgoing
<1>5. CASE ReadHandler(d)
  BY <1>5, ReadAt DEF Closes, KeepsOutgoing
<1>6. CASE ConnectionFails(d) \/ (d \in sessions /\ ~closed[d] /\ StopHandler)
  BY <1>6, FailsAt DEF Closes
<1>7. CASE EnqueueHandler(d)
  BY <1>7, EnqueueAt DEF Enqueued, Closes, KeepsOutgoing
<1>8. CASE HeartbeatHandler(d)
  BY <1>8, HeartbeatAt DEF Enqueued, Closes, KeepsOutgoing
<1>9. CASE Begin(d) \/ RunWatch(d)
  BY <1>9, BeginAt, WatchAt DEF KeepsOutgoing
<1>10. CASE RunReplace(d) \/ RunUnwatch(d) \/ RunReply(d)
  BY <1>10, ReplaceAt, ReplyAt DEF KeepsOutgoing
<1>11. CASE RunDone(d) \/ RunForget(d)
  BY <1>11, DoneAt, ForgetAt DEF KeepsOutgoing
<1>12. CASE \E id \in Ids : d \in watchers[id] /\ Publish(id)
  BY <1>12, PublishAt DEF KeepsOutgoing
<1>13. CASE DropReplies
  BY <1>13, DropAt DEF KeepsOutgoing
<1>14. QED
  BY <1>1, <1>2, <1>3, <1>4, <1>5, <1>6, <1>7, <1>8, <1>9, <1>10, <1>11, <1>12, <1>13, StepAt DEF Own

(* No Book strays: every Book on its way is of a stream its client watches *)
(* by then.                                                                *)
LEMMA StrayStep ==
  ASSUME TypeInv, TypeInv', [Next]_vars, NEW d \in Sessions,
         ServerInv, SessionInv(d), StrayInv(d)
  PROVE  StrayInv(d)'
<1>1. PICK S, q, s : S = client[d].streams /\ q = Payloads(outgoing[d]) /\ s = posted[d]
  OBVIOUS
<1>2. /\ client[d] \in Client /\ outgoing[d] \in Seq(Numbered) /\ s \in Seq(Payload)
      /\ S \in SUBSET Ids /\ q \in Seq(Payload) /\ Len(q) = Len(outgoing[d]) /\ Len(q) \in Nat
      /\ Len(s) \in Nat
  <2>1. client[d] \in Client /\ outgoing[d] \in Seq(Numbered) /\ s \in Seq(Payload)
    BY <1>1 DEF TypeInv, FramesTypeOK
  <2>2. S \in SUBSET Ids
    BY <1>1, <2>1 DEF Client
  <2>3. q \in Seq(Payload) /\ Len(q) = Len(outgoing[d])
    BY <1>1, <2>1, PayloadsAre
  <2>4. Len(q) \in Nat /\ Len(s) \in Nat
    BY ONLY <2>1, <2>3
  <2>5. QED
    BY ONLY <2>1, <2>2, <2>3, <2>4
<1>3. PICK W, V : W = Watched(S, q, Len(q)) /\ V = Watched(W, s, Len(s))
  OBVIOUS
<1>4. W \in SUBSET Ids /\ V \in SUBSET Ids /\ WatchedThen(d) = W
  <2>1. WatchedThen(d) = W
    BY ONLY <1>1, <1>2, <1>3 DEF WatchedThen
  <2>2. QED
    BY <1>3, <2>1 DEF Watched
<1>5. WriteHandler(d) => outgoing[d] # <<>> /\ Head(outgoing[d]) \in Numbered
                         /\ outgoing'[d] = Tail(outgoing[d])
                         /\ client'[d] = Told(client[d], Head(outgoing[d]))
                         /\ ~closed[d] /\ KeepsPosted(d) /\ KeepsWatched(d)
  BY WriteEffect, WriteAt
<1>6. ~closed[d] =>
        /\ NoneStrays(S, q) /\ NoneStrays(W, s)
        /\ \A id \in Ids : d \in watchers[id] => id \in V
  BY <1>1, <1>3, <1>4 DEF StrayInv
<1>7. ~client'[d].stray
  <2>1. CASE client'[d] \in {client[d], NewClient}
    <3>1. ~client[d].stray /\ ~NewClient.stray
      BY DEF StrayInv, NewClient
    <3>2. QED
      BY ONLY <2>1, <3>1
  <2>2. CASE WriteHandler(d)
    <3>1. PICK v \in Client, frame \in Numbered : v = client[d] /\ frame = Head(outgoing[d])
      BY <1>2, <1>5, <2>2
    <3>2. q # <<>> /\ Head(q) = frame.payload
      BY <1>1, <1>2, <1>5, <2>2, <3>1, PayloadsTail
    <3>3. Head(q).kind = "book" => Head(q).id \in S
      BY ONLY <1>2, <1>5, <1>6, <2>2, <3>2, StraysTail
    <3>4. ~v.stray /\ v.streams = S
      BY <1>1, <3>1 DEF StrayInv
    <3>5. ~Told(v, frame).stray
      BY ONLY <3>1, <3>2, <3>3, <3>4, ToldStreams
    <3>6. QED
      BY ONLY <1>5, <2>2, <3>1, <3>5
  <2>3. QED
    BY <2>1, <2>2, ClientAt
<1>8. SUFFICES ASSUME ~closed'[d]
               PROVE  /\ NoneStrays(client'[d].streams, Payloads(outgoing'[d]))
                      /\ NoneStrays(WatchedThen(d)', posted'[d])
                      /\ \A id \in Ids :
                           d \in watchers'[id] =>
                             id \in Watched(WatchedThen(d)', posted'[d], Len(posted'[d]))
  BY <1>7 DEF StrayInv
<1>9. ~closed[d]
  BY <1>8, Remains
<1>10. NoneStrays(S, q) /\ NoneStrays(W, s) /\ \A id \in Ids : d \in watchers[id] => id \in V
  BY ONLY <1>6, <1>9
<1> DEFINE Goal ==
      /\ NoneStrays(client'[d].streams, Payloads(outgoing'[d]))
      /\ NoneStrays(WatchedThen(d)', posted'[d])
      /\ \A id \in Ids :
           d \in watchers'[id] => id \in Watched(WatchedThen(d)', posted'[d], Len(posted'[d]))
<1>11. ASSUME KeepsOutgoing(d)
       PROVE  NoneStrays(client'[d].streams, Payloads(outgoing'[d])) /\ WatchedThen(d)' = W
  <2>1. outgoing'[d] = outgoing[d] /\ client'[d] = client[d]
    BY <1>11 DEF KeepsOutgoing
  <2>2. WatchedThen(d)' = WatchedThen(d)
    BY ONLY <2>1 DEF WatchedThen
  <2>3. QED
    BY ONLY <1>1, <1>4, <1>10, <2>1, <2>2
<1>12. ASSUME KeepsOutgoing(d), posted'[d] = s,
              \A id \in Ids : d \in watchers'[id] => d \in watchers[id]
       PROVE  Goal
  BY ONLY <1>3, <1>10, <1>11, <1>12
<1>13. ASSUME NEW p \in Payload, posted'[d] = Append(s, p), p.kind = "book" => p.id \in V,
              KeepsOutgoing(d),
              \A id \in Ids : d \in watchers'[id] => id \in After(V, p)
       PROVE  Goal
  <2>1. NoneStrays(W, Append(s, p))
    BY ONLY <1>2, <1>3, <1>4, <1>10, <1>13, StraysAppend
  <2>2. Watched(W, Append(s, p), Len(s) + 1) = After(V, p)
    BY ONLY <1>2, <1>3, <1>4, <1>13, WatchedAppend
  <2>3. Len(Append(s, p)) = Len(s) + 1
    BY ONLY <1>2, AppendProperties, p \in Payload
  <2>4. QED
    BY ONLY <1>11, <1>13, <2>1, <2>2, <2>3
<1>14. CASE Untouched(d)
  BY <1>1, <1>12, <1>14 DEF Untouched, KeepsPosted, KeepsWatched
<1>15. CASE Connects(d) \/ AcceptHandler(d) \/ HandshakeDone(d) \/ HandshakeHandler(d)
  BY <1>1, <1>12, <1>15, AcceptAt, HandshakeAt DEF KeepsPosted, KeepsWatched
<1>16. CASE \E command \in Commands : CommandArrives(d, command)
  BY <1>1, <1>12, <1>16, ArrivesAt DEF KeepsPosted, KeepsWatched
<1>17. CASE ReadHandler(d)
  BY <1>1, <1>8, <1>12, <1>17, ReadAt DEF Closes, KeepsPosted, KeepsWatched
<1>18. CASE ConnectionFails(d) \/ (d \in sessions /\ ~closed[d] /\ StopHandler)
  BY <1>8, <1>18, FailsAt DEF Closes
<1>19. ASSUME NEW p \in Payload, outgoing'[d] = Append(outgoing[d], Frame(sequence[d], p)),
              client'[d] = client[d], p.kind = "book" => p.id \in W
       PROVE  /\ NoneStrays(client'[d].streams, Payloads(outgoing'[d]))
              /\ WatchedThen(d)' = After(W, p)
  <2>1. sequence[d] \in Nat
    BY DEF TypeInv, FramesTypeOK
  <2>2. Payloads(outgoing'[d]) = Append(q, p)
    BY <1>1, <1>2, <1>19, <2>1, PayloadsAppend
  <2>3. NoneStrays(S, Append(q, p))
    BY ONLY <1>2, <1>3, <1>10, <1>19, StraysAppend
  <2>4. Len(outgoing'[d]) = Len(q) + 1
    <3>1. PICK frame : frame = Frame(sequence[d], p)
      OBVIOUS
    <3>2. frame \in Numbered
      BY <2>1, <3>1 DEF Frame, Numbered
    <3>3. QED
      BY ONLY <1>2, <1>19, <3>1, <3>2, AppendProperties
  <2>5. Watched(S, Append(q, p), Len(q) + 1) = After(W, p)
    BY ONLY <1>2, <1>3, <1>19, WatchedAppend
  <2>6. WatchedThen(d)' = After(W, p)
    BY ONLY <1>1, <1>19, <2>2, <2>4, <2>5 DEF WatchedThen
  <2>7. QED
    BY ONLY <1>1, <1>19, <2>2, <2>3, <2>6
<1>20. CASE EnqueueHandler(d)
  <2>1. PICK p \in Payload : /\ p = Head(s) /\ Enqueued(d, p)
                             /\ s # <<>> /\ posted'[d] = Tail(s) /\ KeepsWatched(d)
    BY <1>1, <1>20, EnqueueAt
  <2>2. (p.kind = "book" => p.id \in W) /\ NoneStrays(After(W, p), Tail(s))
    BY ONLY <1>2, <1>4, <1>10, <2>1, StraysTail
  <2>3. NoneStrays(client'[d].streams, Payloads(outgoing'[d])) /\ WatchedThen(d)' = After(W, p)
    <3>1. CASE outgoing'[d] = Append(outgoing[d], Frame(sequence[d], p)) /\ client'[d] = client[d]
      BY <1>19, <2>2, <3>1
    <3>2. CASE p.kind = "book" /\ outgoing'[d] = outgoing[d] /\ client'[d] = client[d]
      <4>1. After(W, p) = W
        BY ONLY <1>4, <3>2, AfterIs, p \in Payload
      <4>2. WatchedThen(d)' = WatchedThen(d)
        BY ONLY <3>2 DEF WatchedThen
      <4>3. QED
        BY ONLY <1>1, <1>4, <1>10, <3>2, <4>1, <4>2
    <3>3. QED
      BY <1>8, <1>9, <2>1, <3>1, <3>2 DEF Enqueued, Closes
  <2>4. V = Watched(After(W, p), Tail(s), Len(Tail(s)))
    <3>1. Len(s) \in 1..Len(s) /\ Len(Tail(s)) = Len(s) - 1
      BY ONLY <1>2, <2>1, HeadTailProperties
    <3>2. Watched(W, s, Len(s)) = Watched(After(W, p), Tail(s), Len(s) - 1)
      BY ONLY <1>2, <1>4, <2>1, <3>1, WatchedTail
    <3>3. QED
      BY ONLY <1>3, <3>1, <3>2
  <2>5. \A id \in Ids : d \in watchers'[id] => id \in V
    BY <1>10, <2>1 DEF KeepsWatched
  <2>6. QED
    BY ONLY <2>1, <2>2, <2>3, <2>4, <2>5
<1>21. CASE HeartbeatHandler(d)
  <2>1. PICK p \in Payload : p = Heartbeat /\ Enqueued(d, p) /\ KeepsPosted(d) /\ KeepsWatched(d)
    BY <1>21, HeartbeatAt
  <2>2. p.kind = "heartbeat"
    BY <2>1 DEF Heartbeat
  <2>3. outgoing'[d] = Append(outgoing[d], Frame(sequence[d], p)) /\ client'[d] = client[d]
    BY <1>8, <1>9, <2>1, <2>2 DEF Enqueued, Closes
  <2>4. After(W, p) = W
    BY ONLY <1>4, <2>2, AfterIs, p \in Payload
  <2>5. NoneStrays(client'[d].streams, Payloads(outgoing'[d])) /\ WatchedThen(d)' = W
    BY <1>19, <2>2, <2>3, <2>4
  <2>6. posted'[d] = s /\ \A id \in Ids : d \in watchers'[id] => id \in V
    BY <1>1, <1>10, <2>1 DEF KeepsPosted, KeepsWatched
  <2>7. QED
    BY ONLY <1>3, <1>10, <2>5, <2>6
<1>22. CASE WriteHandler(d)
  <2>1. PICK v \in Client, frame \in Numbered : v = client[d] /\ frame = Head(outgoing[d])
    BY <1>2, <1>5, <1>22
  <2>2. q # <<>> /\ Head(q) = frame.payload /\ Payloads(outgoing'[d]) = Tail(q)
    BY <1>1, <1>2, <1>5, <1>22, <2>1, PayloadsTail
  <2>3. client'[d].streams = After(S, Head(q))
    BY ONLY <1>1, <1>5, <1>22, <2>1, <2>2, ToldStreams
  <2>4. NoneStrays(After(S, Head(q)), Tail(q))
    BY ONLY <1>2, <1>10, <2>2, StraysTail
  <2>5. Len(outgoing'[d]) = Len(q) - 1 /\ Len(q) \in 1..Len(q)
    <3>1. Len(outgoing'[d]) = Len(outgoing[d]) - 1
      BY ONLY <1>2, <1>5, <1>22, HeadTailProperties
    <3>2. Len(q) \in 1..Len(q)
      BY ONLY <1>2, <2>2
    <3>3. QED
      BY ONLY <1>2, <3>1, <3>2
  <2>6. WatchedThen(d)' = W
    <3>1. Watched(S, q, Len(q)) = Watched(After(S, Head(q)), Tail(q), Len(q) - 1)
      BY ONLY <1>2, <2>2, <2>5, WatchedTail
    <3>2. QED
      BY ONLY <1>3, <2>2, <2>3, <2>5, <3>1 DEF WatchedThen
  <2>7. posted'[d] = s /\ \A id \in Ids : d \in watchers'[id] => id \in V
    BY <1>1, <1>5, <1>10, <1>22 DEF KeepsPosted, KeepsWatched
  <2>8. QED
    BY ONLY <1>3, <1>10, <2>2, <2>3, <2>4, <2>6, <2>7
<1>23. CASE Begin(d)
  BY <1>1, <1>12, <1>23, BeginAt DEF KeepsPosted, KeepsWatched
<1>24. CASE RunWatch(d)
  <2>1. KeepsOutgoing(d)
    BY <1>24, WatchAt
  <2>2. CASE KeepsPosted(d) /\ KeepsWatched(d)
    BY <1>1, <1>12, <2>1, <2>2 DEF KeepsPosted, KeepsWatched
  <2>3. CASE \E r \in Running :
               /\ r.id \in Ids
               /\ <<StreamInfo(r.id), Book(r.id, books[d] + 1)>> \in Seq(Payload)
               /\ posted'[d] = posted[d] \o <<StreamInfo(r.id), Book(r.id, books[d] + 1)>>
               /\ \A id \in Ids : d \in watchers'[id] => d \in watchers[id] \/ id = r.id
    <3>1. PICK x, y, i : /\ i \in Ids /\ x.kind = "info" /\ x.id = i /\ y.kind = "book" /\ y.id = i
                         /\ <<x, y>> \in Seq(Payload)
                         /\ posted'[d] = s \o <<x, y>>
                         /\ \A id \in Ids : d \in watchers'[id] => d \in watchers[id] \/ id = i
      <4>1. PICK r \in Running :
               /\ r.id \in Ids
               /\ <<StreamInfo(r.id), Book(r.id, books[d] + 1)>> \in Seq(Payload)
               /\ posted'[d] = posted[d] \o <<StreamInfo(r.id), Book(r.id, books[d] + 1)>>
               /\ \A id \in Ids : d \in watchers'[id] => d \in watchers[id] \/ id = r.id
        BY <2>3
      <4>2. /\ StreamInfo(r.id).kind = "info" /\ StreamInfo(r.id).id = r.id
            /\ Book(r.id, books[d] + 1).kind = "book" /\ Book(r.id, books[d] + 1).id = r.id
        BY DEF StreamInfo, Book
      <4>3. QED
        BY <1>1, <4>1, <4>2
    <3>2. /\ x \in Payload /\ y \in Payload /\ Append(s, x) \in Seq(Payload)
          /\ posted'[d] = Append(Append(s, x), y)
      BY <1>2, <3>1, PostsBoth
    <3>3. PICK t \in Seq(Payload) : t = Append(s, x)
      BY <3>2
    <3>4. PICK X : X = V \cup {i}
      OBVIOUS
    <3>5. After(V, x) = X /\ X \in SUBSET Ids
      BY ONLY <1>4, <3>1, <3>2, <3>4, AfterIs
    <3>6. After(X, y) = X
      BY ONLY <3>1, <3>2, <3>5, AfterIs
    <3>7. Len(t) = Len(s) + 1
      BY ONLY <1>2, <3>2, <3>3, AppendProperties
    <3>8. Watched(W, t, Len(t)) = X
      BY ONLY <1>2, <1>3, <1>4, <3>2, <3>3, <3>5, <3>7, WatchedAppend
    <3>9. NoneStrays(W, t)
      BY ONLY <1>2, <1>4, <1>10, <3>1, <3>2, <3>3, StraysAppend
    <3>10. NoneStrays(W, Append(t, y))
      BY ONLY <1>4, <3>1, <3>2, <3>4, <3>8, <3>9, StraysAppend, t \in Seq(Payload)
    <3>11. Watched(W, Append(t, y), Len(t) + 1) = X
      BY ONLY <1>4, <3>2, <3>6, <3>8, WatchedAppend, t \in Seq(Payload)
    <3>12. Len(Append(t, y)) = Len(t) + 1
      BY ONLY <3>2, AppendProperties, t \in Seq(Payload)
    <3>13. \A id \in Ids : d \in watchers'[id] => id \in X
      BY ONLY <1>10, <3>1, <3>4
    <3>14. QED
      BY ONLY <1>11, <2>1, <3>2, <3>3, <3>10, <3>11, <3>12, <3>13
  <2>4. QED
    BY <1>24, <2>2, <2>3, WatchAt, ZenonT(60)
<1>25. CASE RunReplace(d) \/ RunUnwatch(d)
  BY <1>1, <1>12, <1>25, ReplaceAt DEF KeepsPosted
<1>26. CASE RunReply(d)
  <2>1. PICK p : p = Reply(running[d][1].n, running[d][1].watching)
    OBVIOUS
  <2>2. /\ p \in Payload /\ posted'[d] = Append(s, p) /\ KeepsOutgoing(d) /\ KeepsWatched(d)
        /\ running[d] # <<>> /\ running[d][1].at \in {"reply", "other"}
    BY <1>1, <1>26, <2>1, ReplyAt
  <2>3. p.kind = "reply" /\ p.watching = running[d][1].watching
    BY <2>1 DEF Reply
  <2>4. p.watching \in {Same, watched[d]}
    BY <2>2, <2>3 DEF SessionInv, Watching
  <2>5. ASSUME NEW id \in Ids, d \in watchers'[id] PROVE id \in After(V, p)
    <3>1. id \in V /\ d \in watchers[id]
      BY <1>10, <2>2, <2>5 DEF KeepsWatched
    <3>2. watched[d] = id
      BY <2>2, <3>1 DEF SessionInv, Watching
    <3>3. QED
      BY <2>4, <3>1, <3>2 DEF After, Takes
  <2>6. QED
    BY <1>13, <2>2, <2>3, <2>5
<1>27. CASE RunDone(d) \/ RunForget(d)
  BY <1>1, <1>12, <1>27, DoneAt, ForgetAt DEF KeepsPosted, KeepsWatched
<1>28. CASE \E id \in Ids : d \in watchers[id] /\ Publish(id)
  <2>1. PICK id \in Ids : d \in watchers[id] /\ Publish(id)
    BY <1>28
  <2>2. PICK p : p = Book(id, books[d] + 1)
    OBVIOUS
  <2>3. p \in Payload /\ posted'[d] = Append(s, p) /\ KeepsOutgoing(d) /\ KeepsWatched(d)
    BY <1>1, <2>1, <2>2, PublishAt
  <2>4. p.kind = "book" /\ p.id = id
    BY <2>2 DEF Book
  <2>5. After(V, p) = V
    BY ONLY <1>4, <2>3, <2>4, AfterIs
  <2>6. p.id \in V /\ \A i \in Ids : d \in watchers'[i] => i \in After(V, p)
    BY <1>10, <2>1, <2>3, <2>4, <2>5 DEF KeepsWatched
  <2>7. QED
    BY <1>13, <2>3, <2>6
<1>29. CASE DropReplies
  <2>1. posted[d] = <<>> /\ posted'[d] = <<>> /\ KeepsOutgoing(d) /\ KeepsWatched(d)
    BY <1>9, <1>29, DropAt, NothingPosted
  <2>2. QED
    BY <1>1, <1>12, <2>1 DEF KeepsWatched
<1>30. QED
  BY <1>14, <1>15, <1>16, <1>17, <1>18, <1>20, <1>21, <1>22, <1>23, <1>24, <1>25, <1>26, <1>27,
     <1>28, <1>29, StepAt DEF Own

-----------------------------------------------------------------------------
(* The server's invariant: what it keeps of each connection's queues, and  *)
(* what each client makes of them.                                         *)
THEOREM ServerInvariant == Spec => []IInv
<1>1. Init => IInv
  <2> SUFFICES ASSUME Init PROVE IInv
    OBVIOUS
  <2>1. LeaveInv
    BY InitLeaves
  <2>2. ASSUME NEW c \in Sessions PROVE PendingInv(c) /\ AnswerInv(c) /\ StrayInv(c)
    <3>1. /\ conn[c] = "none" /\ closed[c] = FALSE /\ ready[c] = <<>> /\ posted[c] = <<>>
          /\ strand[c] = <<>> /\ running[c] = <<>> /\ pending[c] = 0 /\ outgoing[c] = <<>>
          /\ commands[c] = 0 /\ client[c].reply = 0 /\ client[c].stray = FALSE
          /\ \A id \in Ids : watchers[id] = {}
      BY DEF Init, NewClient
    <3>2. Len(strand[c]) = 0 /\ Len(outgoing[c]) = 0 /\ MaxPending \in Nat /\ MaxBacklog \in Nat
      <4>1. MaxPending \in Nat /\ MaxQueued \in Nat
        BY ServerAssumption
      <4>2. MaxBacklog \in Nat
        BY ONLY <4>1 DEF MaxBacklog
      <4>3. Len(strand[c]) = 0 /\ Len(outgoing[c]) = 0
        BY ONLY <3>1
      <4>4. QED
        BY ONLY <4>1, <4>2, <4>3
    <3>3. PendingInv(c)
      BY <3>1, <3>2 DEF PendingInv, CommandsWaiting, CommandsRunning, Ending
    <3>4. Answering(c) = 0 /\ Answered(c) = 0
      <4>1. Answering(c) = 0
        BY <3>1 DEF Answering
      <4>2. CommandsRead(c) = 0
        BY <3>1 DEF CommandsRead
      <4>3. Answered(c) = 0 - 0 - 0
        BY <3>2, <4>1, <4>2 DEF Answered
      <4>4. QED
        BY ONLY <4>1, <4>3
    <3>5. Payloads(outgoing[c]) = <<>>
      BY <3>1 DEF Payloads
    <3>6. InTurn(<<>>, 0, 0) /\ \A S : NoneStrays(S, <<>>)
      BY DEF InTurn, NoneStrays
    <3>7. Asked(c) /\ RepliesComing(c)
      BY <3>1, <3>2, <3>4, <3>5, <3>6 DEF Asked, RepliesComing
    <3>8. StrayInv(c)
      BY <3>1, <3>5, <3>6 DEF StrayInv
    <3>9. QED
      BY <3>3, <3>7, <3>8 DEF AnswerInv
  <2>3. QED
    BY <2>1, <2>2 DEF LeaveInv, IInv
<1>2. IInv /\ [Next]_vars => IInv'
  <2> SUFFICES ASSUME IInv, [Next]_vars PROVE IInv'
    OBVIOUS
  <2>1. LeaveInv
    BY DEF LeaveInv, IInv
  <2>2. TypeInv' /\ ServerInv' /\ \A c \in Sessions : SessionInv(c)'
    BY <2>1, LeaveStep DEF LeaveInv
  <2>3. ASSUME NEW c \in Sessions PROVE PendingInv(c)' /\ AnswerInv(c)' /\ StrayInv(c)'
    BY <2>2, PendingStep, AnswerStep, StrayStep DEF IInv
  <2>4. QED
    BY <2>2, <2>3 DEF IInv
<1>3. QED
  BY <1>1, <1>2, PTL DEF Spec

(* Each connection's commands are answered once and in order, and neither  *)
(* of its queues outgrows its bound.                                       *)
THEOREM CommandsAnswered == Spec => []AnsweredInOrder
<1>1. IInv => AnsweredInOrder
  BY AnswersAreInOrder DEF IInv
<1>2. QED
  BY <1>1, ServerInvariant, PTL

(* A client gets no Book of a stream it does not watch. *)
THEOREM BooksAreWatched == Spec => []NoStrayBooks
<1>1. IInv => NoStrayBooks
  BY DEF IInv, StrayInv, NoStrayBooks
<1>2. QED
  BY <1>1, ServerInvariant, PTL

-----------------------------------------------------------------------------
(* The numbers.  The payloads on their way to a client and the numbers     *)
(* the client waits for after each of them; those on the network thread's  *)
(* way to the queue have their numbers once they are there.                *)
Way(out, post) ==
  [i \in 1..(Len(out) + Len(post)) |->
     IF i <= Len(out) THEN out[i].payload ELSE post[i - Len(out)]]

NumbersAfter(out, post, next, read) ==
  [i \in 0..(Len(out) + Len(post)) |->
     IF i = 0 THEN read ELSE IF i <= Len(out) THEN out[i].sequence + 1 ELSE next + i - Len(out)]

(* How many Books were sent before the client waits for each of those      *)
(* numbers: a number skipped was a dropped Book's, so each number but      *)
(* those of the other payloads is one Book more.  `end` is the number that *)
(* comes after all of them, `all` the Books sent.                          *)
BooksIn(p) == IF p.kind = "book" THEN 1 ELSE 0

Counts(sent, way, numbers, end, all, n) ==
  /\ sent \in [0..n -> Int]
  /\ \A i \in 1..n : sent[i] = sent[i - 1] + (numbers[i] - numbers[i - 1] - 1) + BooksIn(way[i])
  /\ \A i, j \in 0..n : i <= j => sent[i] <= sent[j]
  /\ \A i, j \in 0..n : i < j /\ way[j].kind = "book" => sent[i] < sent[j]
  /\ \A i \in 1..n : way[i].kind = "book" => way[i].n = sent[i]
  /\ numbers[n] <= end /\ all = sent[n] + end - numbers[n]

(* The client has read the Books sent so far, or knows that it has not.    *)
Standing(v, sentSoFar) ==
  IF v.skipped THEN v.lost \/ v.book < sentSoFar ELSE ~v.lost /\ v.book = sentSoFar

Accounts(sent, out, post, next, all, v) ==
  /\ Counts(sent, Way(out, post), NumbersAfter(out, post, next, v.next), next + Len(post), all,
            Len(out) + Len(post))
  /\ Standing(v, sent[0])

GapInv(c) ==
  ~closed[c] => \E sent : Accounts(sent, outgoing[c], posted[c], sequence[c], books[c], client[c])

(* How payloads and numbers change: one comes at the end, the first is     *)
(* read, a Book is dropped behind the first k, and one is put there.       *)
OneMore(p, longer, more, way, numbers, end, all, n) ==
  /\ longer[n + 1] = p /\ (p.kind = "book" => p.n = all + 1)
  /\ \A i \in 1..n : longer[i] = way[i]
  /\ more \in [0..(n + 1) -> Int]
  /\ \A i \in 0..n : more[i] = numbers[i]
  /\ more[n + 1] = end + 1

FirstRead(shorter, less, way, numbers, n) ==
  /\ \A i \in 1..(n - 1) : shorter[i] = way[i + 1]
  /\ \A i \in 0..(n - 1) : less[i] = numbers[i + 1]

OneLess(shorter, less, way, numbers, k, n) ==
  /\ way[k + 1].kind = "book"
  /\ \A i \in 1..(n - 1) : shorter[i] = way[IF i <= k THEN i ELSE i + 1]
  /\ \A i \in 0..(n - 1) : less[i] = numbers[IF i <= k THEN i ELSE i + 1]

OneBetween(longer, more, way, numbers, k, n) ==
  /\ longer[k + 1].kind # "book"
  /\ \A i \in 1..(n + 1) : i # k + 1 => longer[i] = way[IF i <= k THEN i ELSE i - 1]
  /\ \A i \in 0..(n + 1) :
       more[i] = IF i <= k THEN numbers[i]
                 ELSE IF i = k + 1 THEN numbers[i] ELSE numbers[i - 1] + 1

(* One payload more at the end. *)
LEMMA CountsAtEnd ==
  ASSUME NEW n \in Nat, NEW way, NEW numbers \in [0..n -> Int], NEW end \in Int, NEW all \in Int,
         NEW sent, Counts(sent, way, numbers, end, all, n),
         NEW p, NEW longer, NEW more, OneMore(p, longer, more, way, numbers, end, all, n)
  PROVE  \E s : Counts(s, longer, more, end + 1, all + BooksIn(p), n + 1) /\ s[0] = sent[0]
<1>0. /\ longer[n + 1] = p /\ (p.kind = "book" => p.n = all + 1)
      /\ \A i \in 1..n : longer[i] = way[i]
      /\ more \in [0..(n + 1) -> Int]
      /\ \A i \in 0..n : more[i] = numbers[i]
      /\ more[n + 1] = end + 1
  BY DEF OneMore
<1>1. PICK one : one \in {0, 1} /\ one = BooksIn(longer[n + 1])
  BY DEF BooksIn
<1>2. PICK s : s = [i \in 0..(n + 1) |-> IF i <= n THEN sent[i] ELSE all + one]
  OBVIOUS
<1>3. /\ sent \in [0..n -> Int] /\ all = sent[n] + end - numbers[n] /\ numbers[n] <= end
      /\ n \in 0..n /\ 0 \in 0..n /\ n + 1 \in 0..(n + 1)
  BY DEF Counts
<1>4. /\ s \in [0..(n + 1) -> Int] /\ s[n + 1] = all + one
      /\ \A i \in 0..n : s[i] = sent[i]
  BY ONLY <1>1, <1>2, <1>3, n \in Nat, all \in Int
<1>5. ASSUME NEW i \in 1..(n + 1)
      PROVE  s[i] = s[i - 1] + (more[i] - more[i - 1] - 1) + BooksIn(longer[i])
  <2>1. CASE i <= n
    <3>1. i \in 1..n /\ i \in 0..n /\ i - 1 \in 0..n
      BY <2>1
    <3>2. sent[i] = sent[i - 1] + (numbers[i] - numbers[i - 1] - 1) + BooksIn(way[i])
      BY <3>1 DEF Counts
    <3>3. QED
      BY <1>0, <1>4, <3>1, <3>2
  <2>2. CASE i = n + 1
    <3>1. i - 1 = n /\ s[i - 1] = sent[n] /\ more[i - 1] = numbers[n] /\ more[i] = end + 1
      BY ONLY <1>0, <1>3, <1>4, <2>2, n \in Nat
    <3>2. sent[n] \in Int /\ numbers[n] \in Int
      BY ONLY <1>3, numbers \in [0..n -> Int]
    <3>3. QED
      BY ONLY <1>1, <1>3, <1>4, <2>2, <3>1, <3>2, end \in Int
  <2>3. QED
    BY <2>1, <2>2
<1>6. ASSUME NEW i \in 0..(n + 1), NEW j \in 0..(n + 1), i <= j PROVE s[i] <= s[j]
  <2>1. CASE j <= n
    <3>1. i \in 0..n /\ j \in 0..n
      BY <1>6, <2>1
    <3>2. QED
      BY ONLY <1>4, <1>6, <3>1, Counts(sent, way, numbers, end, all, n) DEF Counts
  <2>2. CASE j = n + 1 /\ i <= n
    <3>1. sent[i] <= sent[n] /\ s[i] = sent[i] /\ sent[i] \in Int
      BY ONLY <1>3, <1>4, <2>2, n \in Nat, i \in 0..(n + 1),
              Counts(sent, way, numbers, end, all, n) DEF Counts
    <3>2. sent[n] <= all
      BY ONLY <1>3, numbers \in [0..n -> Int], end \in Int
    <3>3. s[j] = all + one /\ sent[n] \in Int
      BY ONLY <1>3, <1>4, <2>2
    <3>4. QED
      BY ONLY <1>1, <3>1, <3>2, <3>3, all \in Int
  <2>3. CASE i = n + 1 /\ j = n + 1
    BY ONLY <1>1, <1>4, <2>3, all \in Int
  <2>4. QED
    BY <1>6, <2>1, <2>2, <2>3
<1>7. ASSUME NEW i \in 0..(n + 1), NEW j \in 0..(n + 1), i < j, longer[j].kind = "book"
      PROVE  s[i] < s[j]
  <2>1. CASE j <= n
    <3>1. longer[j] = way[j] /\ i \in 0..n /\ j \in 0..n
      BY <1>0, <1>7, <2>1
    <3>2. sent[i] < sent[j]
      BY ONLY <1>7, <3>1, Counts(sent, way, numbers, end, all, n) DEF Counts
    <3>3. QED
      BY ONLY <1>4, <3>1, <3>2
  <2>2. CASE j = n + 1
    <3>1. i \in 0..n /\ sent[i] <= sent[n] /\ s[i] = sent[i] /\ sent[i] \in Int
      BY ONLY <1>3, <1>4, <1>7, <2>2, n \in Nat,
              Counts(sent, way, numbers, end, all, n) DEF Counts
    <3>2. sent[n] <= all
      BY ONLY <1>3, numbers \in [0..n -> Int], end \in Int
    <3>3. one = 1
      BY ONLY <1>1, <1>7, <2>2 DEF BooksIn
    <3>4. QED
      BY ONLY <1>3, <1>4, <2>2, <3>1, <3>2, <3>3, all \in Int
  <2>3. QED
    BY ONLY <1>7, <2>1, <2>2, n \in Nat
<1>8. ASSUME NEW i \in 1..(n + 1), longer[i].kind = "book" PROVE longer[i].n = s[i]
  <2>1. CASE i <= n
    <3>1. longer[i] = way[i] /\ i \in 1..n /\ i \in 0..n
      BY <1>0, <2>1
    <3>2. QED
      BY ONLY <1>4, <1>8, <3>1, Counts(sent, way, numbers, end, all, n) DEF Counts
  <2>2. CASE i = n + 1
    <3>1. longer[i] = p /\ s[i] = all + one /\ p.n = all + 1
      BY ONLY <1>0, <1>4, <1>8, <2>2
    <3>2. one = 1
      BY ONLY <1>1, <1>8, <2>2 DEF BooksIn
    <3>3. QED
      BY ONLY <3>1, <3>2
  <2>3. QED
    BY <2>1, <2>2
<1>9. more[n + 1] <= end + 1 /\ all + one = s[n + 1] + (end + 1) - more[n + 1]
  BY ONLY <1>0, <1>1, <1>4, end \in Int, all \in Int
<1>10. Counts(s, longer, more, end + 1, all + one, n + 1)
  BY ONLY <1>4, <1>5, <1>6, <1>7, <1>8, <1>9 DEF Counts
<1>11. QED
  BY ONLY <1>0, <1>1, <1>3, <1>4, <1>10

(* The first payload is read. *)
LEMMA CountsAtHead ==
  ASSUME NEW n \in Nat, n > 0, NEW way, NEW numbers \in [0..n -> Int], NEW end \in Int,
         NEW all \in Int, NEW sent, Counts(sent, way, numbers, end, all, n),
         NEW shorter, NEW less, FirstRead(shorter, less, way, numbers, n)
  PROVE  \E s : Counts(s, shorter, less, end, all, n - 1) /\ s[0] = sent[1]
<1>0. /\ \A i \in 1..(n - 1) : shorter[i] = way[i + 1]
      /\ \A i \in 0..(n - 1) : less[i] = numbers[i + 1]
  BY DEF FirstRead
<1>1. PICK s : s = [i \in 0..(n - 1) |-> sent[i + 1]]
  OBVIOUS
<1>2. /\ sent \in [0..n -> Int] /\ numbers[n] <= end /\ all = sent[n] + end - numbers[n]
      /\ n - 1 \in Nat /\ 0 \in 0..(n - 1) /\ n - 1 \in 0..(n - 1)
      /\ \A i \in 0..(n - 1) : i + 1 \in 0..n
  BY DEF Counts
<1>3. s \in [0..(n - 1) -> Int] /\ \A i \in 0..(n - 1) : s[i] = sent[i + 1]
  BY ONLY <1>1, <1>2
<1>4. ASSUME NEW i \in 1..(n - 1)
      PROVE  s[i] = s[i - 1] + (less[i] - less[i - 1] - 1) + BooksIn(shorter[i])
  <2>1. i \in 0..(n - 1) /\ i - 1 \in 0..(n - 1) /\ i + 1 \in 1..n /\ (i - 1) + 1 = i
        /\ (i + 1) - 1 = i
    BY <1>2
  <2>2. sent[i + 1] = sent[i] + (numbers[i + 1] - numbers[i] - 1) + BooksIn(way[i + 1])
    BY <2>1 DEF Counts
  <2>3. /\ s[i] = sent[i + 1] /\ s[i - 1] = sent[i] /\ shorter[i] = way[i + 1]
        /\ less[i] = numbers[i + 1] /\ less[i - 1] = numbers[i]
    BY <1>0, <1>3, <2>1
  <2>4. QED
    BY ONLY <2>2, <2>3
<1>5. ASSUME NEW i \in 0..(n - 1), NEW j \in 0..(n - 1)
      PROVE  /\ i <= j => s[i] <= s[j]
             /\ i < j /\ shorter[j].kind = "book" => s[i] < s[j]
  <2>1. i + 1 \in 0..n /\ j + 1 \in 0..n /\ s[i] = sent[i + 1] /\ s[j] = sent[j + 1]
    BY ONLY <1>2, <1>3, i \in 0..(n - 1), j \in 0..(n - 1)
  <2>2. i < j => shorter[j] = way[j + 1] /\ i + 1 < j + 1
    BY <1>0, <1>2
  <2>3. i <= j => i + 1 <= j + 1
    OBVIOUS
  <2>4. QED
    BY ONLY <2>1, <2>2, <2>3, Counts(sent, way, numbers, end, all, n) DEF Counts
<1>6. ASSUME NEW i \in 1..(n - 1), shorter[i].kind = "book" PROVE shorter[i].n = s[i]
  <2>1. i + 1 \in 1..n /\ s[i] = sent[i + 1] /\ shorter[i] = way[i + 1]
    BY <1>0, <1>2, <1>3
  <2>2. QED
    BY ONLY <1>6, <2>1, Counts(sent, way, numbers, end, all, n) DEF Counts
<1>7. less[n - 1] <= end /\ all = s[n - 1] + end - less[n - 1]
  <2>1. (n - 1) + 1 = n
    OBVIOUS
  <2>2. less[n - 1] = numbers[n] /\ s[n - 1] = sent[n]
    BY <1>0, <1>2, <1>3, <2>1
  <2>3. QED
    BY ONLY <1>2, <2>2
<1>8. Counts(s, shorter, less, end, all, n - 1)
  BY ONLY <1>3, <1>4, <1>5, <1>6, <1>7 DEF Counts
<1>9. s[0] = sent[1]
  BY ONLY <1>2, <1>3
<1>10. QED
  BY ONLY <1>8, <1>9

(* A Book that comes after k payloads is dropped, and takes its number. *)
LEMMA CountsWithout ==
  ASSUME NEW n \in Nat, NEW k \in 0..(n - 1), NEW way, NEW numbers \in [0..n -> Int],
         NEW end \in Int, NEW all \in Int, NEW sent, Counts(sent, way, numbers, end, all, n),
         NEW shorter, NEW less, OneLess(shorter, less, way, numbers, k, n)
  PROVE  \E s : Counts(s, shorter, less, end, all, n - 1) /\ s[0] = sent[0]
<1>0. /\ way[k + 1].kind = "book"
      /\ \A i \in 1..(n - 1) : shorter[i] = way[IF i <= k THEN i ELSE i + 1]
      /\ \A i \in 0..(n - 1) : less[i] = numbers[IF i <= k THEN i ELSE i + 1]
  BY DEF OneLess
<1>1. PICK s : s = [i \in 0..(n - 1) |-> sent[IF i <= k THEN i ELSE i + 1]]
  OBVIOUS
<1>2. /\ sent \in [0..n -> Int] /\ numbers[n] <= end /\ all = sent[n] + end - numbers[n]
      /\ n - 1 \in Nat /\ 0 \in 0..(n - 1) /\ n - 1 \in 0..(n - 1) /\ k \in Nat /\ k + 1 \in 1..n
      /\ k \in 0..n
  BY DEF Counts
<1>3. s \in [0..(n - 1) -> Int] /\ \A i \in 0..(n - 1) : s[i] = sent[IF i <= k THEN i ELSE i + 1]
  <2>1. \A i \in 0..(n - 1) : (IF i <= k THEN i ELSE i + 1) \in 0..n
    BY <1>0, <1>2
  <2>2. QED
    BY ONLY <1>1, <1>2, <2>1
<1>4. sent[k + 1] = sent[k] + numbers[k + 1] - numbers[k] /\ sent[k] < sent[k + 1]
  <2>1. sent[k + 1] = sent[(k + 1) - 1] + (numbers[k + 1] - numbers[(k + 1) - 1] - 1) + 1
    BY <1>0, <1>2 DEF Counts, BooksIn
  <2>2. (k + 1) - 1 = k /\ k + 1 \in 0..n /\ k < k + 1
    BY ONLY <1>2, n \in Nat
  <2>3. sent[k] < sent[k + 1]
    BY ONLY <1>2, <2>2, <1>0, Counts(sent, way, numbers, end, all, n) DEF Counts
  <2>4. sent[k] \in Int /\ sent[k + 1] \in Int /\ numbers[k] \in Int /\ numbers[k + 1] \in Int
    BY ONLY <1>2, <2>2, numbers \in [0..n -> Int]
  <2>5. QED
    BY ONLY <2>1, <2>2, <2>3, <2>4
<1>5. ASSUME NEW i \in 1..(n - 1)
      PROVE  s[i] = s[i - 1] + (less[i] - less[i - 1] - 1) + BooksIn(shorter[i])
  <2>1. i \in 0..(n - 1) /\ i - 1 \in 0..(n - 1) /\ i \in 1..n /\ i + 1 \in 1..n /\ i \in Nat
        /\ (i + 1) - 1 = i
    BY <1>0, <1>2
  <2>2. CASE i <= k
    <3>1. sent[i] = sent[i - 1] + (numbers[i] - numbers[i - 1] - 1) + BooksIn(way[i])
      BY <2>1 DEF Counts
    <3>2. /\ s[i] = sent[i] /\ s[i - 1] = sent[i - 1] /\ shorter[i] = way[i]
          /\ less[i] = numbers[i] /\ less[i - 1] = numbers[i - 1]
      <4>1. i - 1 <= k
        BY ONLY <1>2, <2>1, <2>2
      <4>2. QED
        BY <1>0, <1>3, <2>1, <2>2, <4>1
    <3>3. QED
      BY ONLY <3>1, <3>2
  <2>3. CASE i = k + 1
    <3>1. sent[i + 1] = sent[i] + (numbers[i + 1] - numbers[i] - 1) + BooksIn(way[i + 1])
      BY <2>1 DEF Counts
    <3>2. /\ s[i] = sent[i + 1] /\ s[i - 1] = sent[k] /\ shorter[i] = way[i + 1]
          /\ less[i] = numbers[i + 1] /\ less[i - 1] = numbers[k]
      BY <1>0, <1>2, <1>3, <2>1, <2>3, SMTT(60)
    <3>3. /\ sent[i] \in Int /\ sent[k] \in Int /\ numbers[i + 1] \in Int /\ numbers[i] \in Int
          /\ numbers[k] \in Int
      BY ONLY <1>2, <2>1, <2>3, numbers \in [0..n -> Int], n \in Nat
    <3>4. PICK b : b \in Int /\ b = BooksIn(shorter[i])
      BY DEF BooksIn
    <3>5. sent[i] = sent[k] + numbers[i] - numbers[k]
      BY ONLY <1>4, <2>3
    <3>6. s[i] = sent[i] + (numbers[i + 1] - numbers[i] - 1) + b
      BY ONLY <3>1, <3>2, <3>4
    <3>7. sent[i] + (numbers[i + 1] - numbers[i] - 1) + b
            = sent[k] + (numbers[i + 1] - numbers[k] - 1) + b
      BY ONLY <3>3, <3>4, <3>5, SMTT(60)
    <3>8. QED
      BY ONLY <3>2, <3>4, <3>6, <3>7
  <2>4. CASE i > k + 1
    <3>1. sent[i + 1] = sent[i] + (numbers[i + 1] - numbers[i] - 1) + BooksIn(way[i + 1])
      BY <2>1 DEF Counts
    <3>2. /\ s[i] = sent[i + 1] /\ s[i - 1] = sent[i] /\ shorter[i] = way[i + 1]
          /\ less[i] = numbers[i + 1] /\ less[i - 1] = numbers[i]
      <4>1. (i - 1) + 1 = i /\ ~(i <= k) /\ ~(i - 1 <= k)
        BY ONLY <1>2, <2>1, <2>4
      <4>2. QED
        BY <1>0, <1>3, <2>1, <4>1
    <3>3. QED
      BY ONLY <3>1, <3>2
  <2>5. QED
    BY ONLY <1>2, <2>1, <2>2, <2>3, <2>4
<1>6. ASSUME NEW i \in 0..(n - 1), NEW j \in 0..(n - 1)
      PROVE  /\ i <= j => s[i] <= s[j]
             /\ i < j /\ shorter[j].kind = "book" => s[i] < s[j]
  <2>1. PICK x, y : x = (IF i <= k THEN i ELSE i + 1) /\ y = (IF j <= k THEN j ELSE j + 1)
    OBVIOUS
  <2>2. /\ x \in 0..n /\ y \in 0..n /\ s[i] = sent[x] /\ s[j] = sent[y]
        /\ i <= j => x <= y
        /\ i < j => x < y
    <3>1. s[i] = sent[x] /\ s[j] = sent[y]
      BY <1>0, <1>3, <2>1
    <3>2. QED
      BY ONLY <1>2, <2>1, <3>1, n \in Nat, i \in 0..(n - 1), j \in 0..(n - 1)
  <2>3. i < j => shorter[j] = way[y]
    <3>1. i < j => j \in 1..(n - 1)
      OBVIOUS
    <3>2. QED
      BY <1>0, <2>1, <3>1
  <2>4. QED
    BY ONLY <2>2, <2>3, Counts(sent, way, numbers, end, all, n) DEF Counts
<1>7. ASSUME NEW i \in 1..(n - 1), shorter[i].kind = "book" PROVE shorter[i].n = s[i]
  <2>1. PICK x : x = (IF i <= k THEN i ELSE i + 1)
    OBVIOUS
  <2>2. x \in 1..n /\ s[i] = sent[x] /\ shorter[i] = way[x]
    BY <1>0, <1>2, <1>3, <2>1, SMTT(60)
  <2>3. QED
    BY ONLY <1>7, <2>2, Counts(sent, way, numbers, end, all, n) DEF Counts
<1>8. less[n - 1] <= end /\ all = s[n - 1] + end - less[n - 1]
  <2>1. CASE n - 1 <= k
    <3>1. n - 1 = k /\ k + 1 = n
      BY ONLY <1>2, <2>1, n \in Nat
    <3>2. less[n - 1] = numbers[k] /\ s[n - 1] = sent[k]
      BY <1>0, <1>2, <1>3, <3>1
    <3>3. sent[k] \in Int /\ sent[n] \in Int /\ numbers[k] \in Int /\ numbers[n] \in Int
      BY ONLY <1>2, numbers \in [0..n -> Int], n \in Nat
    <3>4. QED
      BY ONLY <1>2, <1>4, <3>1, <3>2, <3>3, end \in Int
  <2>2. CASE ~(n - 1 <= k)
    <3>1. (n - 1) + 1 = n
      OBVIOUS
    <3>2. less[n - 1] = numbers[n] /\ s[n - 1] = sent[n]
      BY <1>0, <1>2, <1>3, <2>2, <3>1
    <3>3. QED
      BY ONLY <1>2, <3>2
  <2>3. QED
    BY ONLY <2>1, <2>2
<1>9. Counts(s, shorter, less, end, all, n - 1)
  BY ONLY <1>3, <1>5, <1>6, <1>7, <1>8 DEF Counts
<1>10. s[0] = sent[0]
  BY ONLY <1>2, <1>3
<1>11. QED
  BY ONLY <1>9, <1>10

(* A payload that is no Book comes between the first k and the others, and *)
(* takes the number the first of those would have got.                     *)
LEMMA CountsBetween ==
  ASSUME NEW n \in Nat, NEW k \in 0..(n - 1), NEW way, NEW numbers \in [0..n -> Int],
         NEW end \in Int, NEW all \in Int, NEW sent, Counts(sent, way, numbers, end, all, n),
         NEW longer, NEW more, OneBetween(longer, more, way, numbers, k, n)
  PROVE  \E s : Counts(s, longer, more, end + 1, all, n + 1) /\ s[0] = sent[0]
<1>0. /\ longer[k + 1].kind # "book"
      /\ \A i \in 1..(n + 1) : i # k + 1 => longer[i] = way[IF i <= k THEN i ELSE i - 1]
      /\ \A i \in 0..(n + 1) :
           more[i] = IF i <= k THEN numbers[i]
                     ELSE IF i = k + 1 THEN numbers[i] ELSE numbers[i - 1] + 1
  BY DEF OneBetween
<1>1. PICK between : between = sent[k + 1] - BooksIn(way[k + 1])
  OBVIOUS
<1>2. PICK s : s = [i \in 0..(n + 1) |-> IF i <= k THEN sent[i]
                                        ELSE IF i = k + 1 THEN between ELSE sent[i - 1]]
  OBVIOUS
<1>3. /\ sent \in [0..n -> Int] /\ numbers[n] <= end /\ all = sent[n] + end - numbers[n]
      /\ 0 \in 0..(n + 1) /\ n + 1 \in 0..(n + 1) /\ k \in Nat /\ k + 1 \in 1..n
      /\ k \in 0..n /\ k + 1 \in 0..n /\ 0 <= k /\ k < n
  BY DEF Counts
<1>4. PICK one : one \in {0, 1} /\ one = BooksIn(way[k + 1])
  BY DEF BooksIn
<1>5. /\ between \in Int /\ between = sent[k + 1] - one
      /\ sent[k + 1] \in Int /\ sent[k] \in Int /\ numbers[k + 1] \in Int /\ numbers[k] \in Int
  BY ONLY <1>1, <1>3, <1>4, numbers \in [0..n -> Int]
<1>6. between = sent[k] + (numbers[k + 1] - numbers[k] - 1) /\ sent[k] <= between
      /\ between <= sent[k + 1] /\ (way[k + 1].kind = "book" => between < sent[k + 1])
  <2>1. sent[k + 1] = sent[(k + 1) - 1] + (numbers[k + 1] - numbers[(k + 1) - 1] - 1) + one
    BY <1>0, <1>3, <1>4 DEF Counts
  <2>2. (k + 1) - 1 = k /\ k < k + 1
    BY <1>0, <1>3
  <2>3. sent[k] <= sent[k + 1] /\ (way[k + 1].kind = "book" => sent[k] < sent[k + 1])
    BY ONLY <1>3, <2>2, Counts(sent, way, numbers, end, all, n) DEF Counts
  <2>4. (way[k + 1].kind = "book") <=> one = 1
    BY <1>0, <1>4 DEF BooksIn
  <2>5. sent[k + 1] = sent[k] + (numbers[k + 1] - numbers[k] - 1) + one
    BY ONLY <2>1, <2>2
  <2>6. QED
    BY ONLY <1>4, <1>5, <2>3, <2>4, <2>5, SMTT(60)
<1>7. /\ s \in [0..(n + 1) -> Int]
      /\ s[k + 1] = between
      /\ \A i \in 0..(n + 1) : i <= k => s[i] = sent[i]
      /\ \A i \in 0..(n + 1) : i > k + 1 => s[i] = sent[i - 1]
  <2>1. \A i \in 0..(n + 1) : /\ i <= k => i \in 0..n
                              /\ i > k + 1 => i - 1 \in 0..n
    BY ONLY <1>3, n \in Nat
  <2>2. /\ k + 1 \in 0..(n + 1) /\ ~(k + 1 <= k)
        /\ \A i \in 0..(n + 1) : i > k + 1 => ~(i <= k) /\ i # k + 1
        /\ \A i \in 0..(n + 1) : ~(i <= k) /\ i # k + 1 => i > k + 1
    BY ONLY <1>3, n \in Nat
  <2>3. \A i \in 0..n : sent[i] \in Int
    BY ONLY <1>3
  <2>4. \A i \in 0..(n + 1) :
          (IF i <= k THEN sent[i] ELSE IF i = k + 1 THEN between ELSE sent[i - 1]) \in Int
    BY ONLY <1>5, <2>1, <2>2, <2>3
  <2>5. s \in [0..(n + 1) -> Int]
    BY ONLY <1>2, <2>4
  <2>6. QED
    BY ONLY <1>2, <2>2, <2>5
<1>8. /\ more[k + 1] = numbers[k + 1]
      /\ \A i \in 0..(n + 1) : i <= k => more[i] = numbers[i]
      /\ \A i \in 0..(n + 1) : i > k + 1 => more[i] = numbers[i - 1] + 1
  BY <1>0, <1>3
<1>9. ASSUME NEW i \in 1..(n + 1)
      PROVE  s[i] = s[i - 1] + (more[i] - more[i - 1] - 1) + BooksIn(longer[i])
  <2>1. i \in Nat /\ i \in 0..(n + 1) /\ i - 1 \in 0..(n + 1)
    OBVIOUS
  <2>2. CASE i <= k
    <3>1. i \in 1..n /\ i - 1 <= k /\ i # k + 1
      BY <1>0, <1>3, <2>2
    <3>2. sent[i] = sent[i - 1] + (numbers[i] - numbers[i - 1] - 1) + BooksIn(way[i])
      BY <1>0, <3>1 DEF Counts
    <3>3. s[i] = sent[i] /\ s[i - 1] = sent[i - 1] /\ more[i] = numbers[i]
          /\ more[i - 1] = numbers[i - 1]
      BY ONLY <1>7, <1>8, <2>1, <2>2, <3>1
    <3>4. longer[i] = way[i]
      BY <1>0, <2>2, <3>1
    <3>5. QED
      BY ONLY <3>2, <3>3, <3>4
  <2>3. CASE i = k + 1
    <3>1. i - 1 = k /\ BooksIn(longer[i]) = 0
      BY <1>0, <1>3, <2>3 DEF BooksIn
    <3>2. s[i - 1] = sent[k] /\ more[i - 1] = numbers[k] /\ s[i] = between
          /\ more[i] = numbers[k + 1]
      BY <1>0, <1>7, <1>8, <2>1, <2>3, <3>1
    <3>3. QED
      BY ONLY <1>5, <1>6, <3>1, <3>2
  <2>4. CASE i = k + 2
    <3>1. i - 1 = k + 1 /\ i > k + 1 /\ i # k + 1 /\ ~(i <= k)
      BY <1>0, <1>3, <2>4, SMTT(60)
    <3>2. s[i] = sent[k + 1] /\ s[i - 1] = between /\ more[i] = numbers[k + 1] + 1
          /\ more[i - 1] = numbers[k + 1]
      BY ONLY <1>7, <1>8, <2>1, <3>1
    <3>3. longer[i] = way[k + 1]
      BY <1>0, <3>1
    <3>4. sent[k + 1] = between + ((numbers[k + 1] + 1) - numbers[k + 1] - 1) + one
      BY ONLY <1>4, <1>5
    <3>5. QED
      BY ONLY <1>4, <3>2, <3>3, <3>4
  <2>5. CASE i > k + 2
    <3>1. i - 1 \in 1..n /\ i > k + 1 /\ i - 1 > k + 1 /\ i # k + 1 /\ ~(i <= k)
      BY <1>0, <1>3, <2>5
    <3>2. PICK j : j = i - 1
      OBVIOUS
    <3>3. sent[j] = sent[j - 1] + (numbers[j] - numbers[j - 1] - 1) + BooksIn(way[j])
      BY <1>0, <3>1, <3>2 DEF Counts
    <3>4. s[i] = sent[j] /\ s[j] = sent[j - 1] /\ more[i] = numbers[j] + 1
          /\ more[j] = numbers[j - 1] + 1 /\ longer[i] = way[j]
      BY <1>0, <1>7, <1>8, <2>1, <3>1, <3>2
    <3>5. numbers[j] \in Int /\ numbers[j - 1] \in Int
      BY ONLY <3>1, <3>2, numbers \in [0..n -> Int]
    <3>6. more[i] - more[i - 1] - 1 = numbers[j] - numbers[j - 1] - 1
      <4>1. more[i] - more[i - 1] - 1 = (numbers[j] + 1) - (numbers[j - 1] + 1) - 1
        BY ONLY <3>2, <3>4
      <4>2. (numbers[j] + 1) - (numbers[j - 1] + 1) - 1 = numbers[j] - numbers[j - 1] - 1
        BY ONLY <3>5
      <4>3. QED
        BY ONLY <4>1, <4>2
    <3>7. QED
      BY ONLY <3>2, <3>3, <3>4, <3>6
  <2>6. QED
    BY ONLY <1>3, <2>1, <2>2, <2>3, <2>4, <2>5
<1>10. ASSUME NEW i \in 0..(n + 1), NEW j \in 0..(n + 1)
       PROVE  /\ i <= j => s[i] <= s[j]
              /\ i < j /\ longer[j].kind = "book" => s[i] < s[j]
  <2>1. ASSUME NEW x \in 0..n, NEW y \in 0..n
        PROVE  /\ sent[x] \in Int /\ sent[y] \in Int
               /\ x <= y => sent[x] <= sent[y]
               /\ x < y /\ way[y].kind = "book" => sent[x] < sent[y]
    BY ONLY <1>3, <2>1, Counts(sent, way, numbers, end, all, n) DEF Counts
  <2>2. j # k + 1 /\ i < j => longer[j] = way[IF j <= k THEN j ELSE j - 1]
    BY <1>0
  <2>3. CASE i <= k /\ j <= k
    <3>1. i \in 0..n /\ j \in 0..n /\ j # k + 1
      BY <1>0, <1>3, <2>3
    <3>2. s[i] = sent[i] /\ s[j] = sent[j]
      BY ONLY <1>7, <2>3, i \in 0..(n + 1), j \in 0..(n + 1)
    <3>3. QED
      BY ONLY <2>1, <2>2, <2>3, <3>1, <3>2
  <2>4. CASE i <= k /\ j = k + 1
    <3>1. i \in 0..n
      BY <1>0, <1>3, <2>4
    <3>2. s[i] = sent[i] /\ sent[i] <= sent[k] /\ sent[i] \in Int
      BY <1>0, <1>3, <1>7, <2>1, <2>4, <3>1
    <3>3. s[j] = between
      BY ONLY <1>7, <2>4
    <3>4. s[i] <= s[j]
      BY ONLY <1>5, <1>6, <3>2, <3>3, SMTT(60)
    <3>5. longer[j].kind # "book"
      BY ONLY <2>4, <1>0
    <3>6. QED
      BY ONLY <3>4, <3>5
  <2>5. CASE i <= k /\ j > k + 1
    <3>1. i \in 0..n /\ j - 1 \in 0..n /\ i < j - 1 /\ j # k + 1 /\ ~(j <= k)
      BY ONLY <1>3, <2>5, n \in Nat, i \in 0..(n + 1), j \in 0..(n + 1)
    <3>2. s[i] = sent[i] /\ s[j] = sent[j - 1]
      BY ONLY <1>7, <2>5, i \in 0..(n + 1), j \in 0..(n + 1)
    <3>3. /\ sent[i] <= sent[j - 1]
          /\ way[j - 1].kind = "book" => sent[i] < sent[j - 1]
      BY <1>0, <2>1, <3>1
    <3>4. QED
      BY ONLY <2>2, <3>1, <3>2, <3>3
  <2>6. CASE i = k + 1 /\ j = k + 1
    BY <1>0, <1>5, <1>7, <2>6
  <2>7. CASE i = k + 1 /\ j > k + 1
    <3>1. j - 1 \in 0..n /\ k + 1 <= j - 1 /\ j # k + 1 /\ ~(j <= k)
      BY ONLY <1>3, <2>7, n \in Nat, j \in 0..(n + 1)
    <3>2. s[i] = between /\ s[j] = sent[j - 1]
      BY ONLY <1>7, <2>7, i \in 0..(n + 1), j \in 0..(n + 1)
    <3>3. /\ sent[k + 1] <= sent[j - 1] /\ sent[j - 1] \in Int
          /\ k + 1 < j - 1 /\ way[j - 1].kind = "book" => sent[k + 1] < sent[j - 1]
      BY <1>0, <1>3, <2>1, <3>1
    <3>4. k + 1 = j - 1 \/ k + 1 < j - 1
      BY <1>0, <1>3, <3>1
    <3>5. way[j - 1].kind = "book" => between < sent[j - 1]
      <4>1. CASE k + 1 = j - 1
        BY ONLY <1>6, <4>1
      <4>2. CASE k + 1 < j - 1
        BY ONLY <1>5, <1>6, <3>3, <4>2
      <4>3. QED
        BY ONLY <3>4, <4>1, <4>2
    <3>6. between <= sent[j - 1]
      BY ONLY <1>5, <1>6, <3>3
    <3>7. QED
      BY ONLY <2>2, <3>1, <3>2, <3>5, <3>6
  <2>8. CASE i > k + 1 /\ j > k + 1
    <3>1. i - 1 \in 0..n /\ j - 1 \in 0..n /\ j # k + 1 /\ ~(j <= k)
          /\ (i <= j => i - 1 <= j - 1) /\ (i < j => i - 1 < j - 1)
      BY <1>0, <1>3, <2>8
    <3>2. s[i] = sent[i - 1] /\ s[j] = sent[j - 1]
      BY ONLY <1>7, <2>8, i \in 0..(n + 1), j \in 0..(n + 1)
    <3>3. /\ i - 1 <= j - 1 => sent[i - 1] <= sent[j - 1]
          /\ i - 1 < j - 1 /\ way[j - 1].kind = "book" => sent[i - 1] < sent[j - 1]
      BY <1>0, <2>1, <3>1
    <3>4. QED
      BY ONLY <2>2, <3>1, <3>2, <3>3
  <2>9. i <= j \/ j < i
    OBVIOUS
  <2>10. QED
    BY <1>0, <1>3, <2>3, <2>4, <2>5, <2>6, <2>7, <2>8
<1>11. ASSUME NEW i \in 1..(n + 1), longer[i].kind = "book" PROVE longer[i].n = s[i]
  <2>1. i \in 0..(n + 1) /\ i # k + 1
    BY <1>0, <1>11
  <2>2. PICK x : x = IF i <= k THEN i ELSE i - 1
    OBVIOUS
  <2>3. x \in 1..n /\ s[i] = sent[x]
    BY <1>0, <1>3, <1>7, <2>1, <2>2, SMTT(60)
  <2>4. longer[i] = way[x]
    BY <1>0, <2>1, <2>2
  <2>5. QED
    BY ONLY <1>11, <2>3, <2>4, Counts(sent, way, numbers, end, all, n) DEF Counts
<1>12. more[n + 1] <= end + 1 /\ all = s[n + 1] + (end + 1) - more[n + 1]
  <2>1. n + 1 > k + 1 /\ (n + 1) - 1 = n
    BY <1>0, <1>3
  <2>2. more[n + 1] = numbers[n] + 1 /\ s[n + 1] = sent[n]
    BY <1>0, <1>3, <1>7, <1>8, <2>1
  <2>3. numbers[n] \in Int /\ sent[n] \in Int
    BY ONLY <1>3, numbers \in [0..n -> Int], n \in Nat
  <2>4. QED
    BY ONLY <1>3, <2>2, <2>3, end \in Int, all \in Int
<1>13. Counts(s, longer, more, end + 1, all, n + 1)
  BY ONLY <1>7, <1>9, <1>10, <1>11, <1>12 DEF Counts
<1>14. s[0] = sent[0]
  BY ONLY <1>3, <1>7
<1>15. QED
  BY ONLY <1>13, <1>14

(* The payloads on their way and their numbers are as many, and numbers.   *)
LEMMA WayTypes ==
  ASSUME NEW out \in Seq(Numbered), NEW post \in Seq(Payload), NEW next \in Nat, NEW read \in Nat
  PROVE  /\ Len(out) \in Nat /\ Len(post) \in Nat /\ Len(out) + Len(post) \in Nat
         /\ NumbersAfter(out, post, next, read) \in [0..(Len(out) + Len(post)) -> Int]
         /\ \A i \in 1..Len(out) : out[i] \in Numbered /\ out[i].sequence \in Nat
<1>1. Len(out) \in Nat /\ Len(post) \in Nat /\ Len(out) + Len(post) \in Nat
  BY ONLY out \in Seq(Numbered), post \in Seq(Payload)
<1>2. \A i \in 1..Len(out) : out[i] \in Numbered
  BY ONLY out \in Seq(Numbered)
<1>3. \A i \in 1..Len(out) : out[i].sequence \in Nat
  BY ONLY <1>2 DEF Numbered
<1>4. PICK m : m = Len(out) /\ m \in Nat
  BY <1>1
<1>5. ASSUME NEW i \in 0..(m + Len(post))
      PROVE  (IF i = 0 THEN read ELSE IF i <= m THEN out[i].sequence + 1 ELSE next + i - m) \in Int
  <2>1. CASE i = 0
    BY ONLY <2>1, read \in Nat
  <2>2. CASE i # 0 /\ i <= m
    <3>1. i \in 1..m
      BY ONLY <1>1, <1>4, <2>2, i \in 0..(m + Len(post))
    <3>2. out[i].sequence + 1 \in Int
      BY ONLY <1>3, <1>4, <3>1
    <3>3. QED
      BY ONLY <2>2, <3>2
  <2>3. CASE i # 0 /\ ~(i <= m)
    <3>1. next + i - m \in Int
      BY ONLY <1>1, <1>4, next \in Nat, i \in 0..(m + Len(post))
    <3>2. QED
      BY ONLY <2>3, <3>1
  <2>4. QED
    BY ONLY <2>1, <2>2, <2>3
<1>6. NumbersAfter(out, post, next, read) \in [0..(m + Len(post)) -> Int]
  BY ONLY <1>4, <1>5 DEF NumbersAfter
<1>7. QED
  BY ONLY <1>1, <1>2, <1>3, <1>4, <1>6

(* A payload is posted. *)
LEMMA AccountsPosted ==
  ASSUME NEW out \in Seq(Numbered), NEW post \in Seq(Payload), NEW next \in Nat, NEW all \in Nat,
         NEW v \in Client, NEW sent, Accounts(sent, out, post, next, all, v),
         NEW p \in Payload, p.kind = "book" => p.n = all + 1
  PROVE  \E s : Accounts(s, out, Append(post, p), next, all + BooksIn(p), v)
<1>1. PICK m, k, n, read : m = Len(out) /\ k = Len(post) /\ n = m + k /\ read = v.next
  OBVIOUS
<1>2. PICK longer : longer = Append(post, p)
  OBVIOUS
<1>3. longer \in Seq(Payload) /\ Len(longer) = k + 1 /\ longer[k + 1] = p
      /\ \A i \in 1..k : longer[i] = post[i]
  BY ONLY <1>1, <1>2, AppendProperties, post \in Seq(Payload), p \in Payload
<1>4. read \in Nat
  BY <1>1 DEF Client
<1>5. PICK way, numbers, way2, numbers2 :
        /\ way = Way(out, post) /\ numbers = NumbersAfter(out, post, next, read)
        /\ way2 = Way(out, longer) /\ numbers2 = NumbersAfter(out, longer, next, read)
  OBVIOUS
<1>6. /\ m \in Nat /\ k \in Nat /\ n \in Nat /\ numbers \in [0..n -> Int]
      /\ numbers2 \in [0..(n + 1) -> Int]
  <2>1. m \in Nat /\ k \in Nat /\ n \in Nat /\ numbers \in [0..n -> Int]
    BY ONLY <1>1, <1>4, <1>5, WayTypes, out \in Seq(Numbered), post \in Seq(Payload), next \in Nat
  <2>2. numbers2 \in [0..(m + (k + 1)) -> Int]
    BY ONLY <1>1, <1>3, <1>4, <1>5, WayTypes, out \in Seq(Numbered), next \in Nat
  <2>3. m + (k + 1) = n + 1
    BY ONLY <1>1, <2>1
  <2>4. QED
    BY ONLY <2>1, <2>2, <2>3
<1>7. /\ way = [i \in 1..n |-> IF i <= m THEN out[i].payload ELSE post[i - m]]
      /\ way2 = [i \in 1..(n + 1) |-> IF i <= m THEN out[i].payload ELSE longer[i - m]]
  <2>1. m + (k + 1) = n + 1
    BY ONLY <1>1, <1>6
  <2>2. QED
    BY ONLY <1>1, <1>3, <1>5, <2>1 DEF Way
<1>8. \A i \in 1..n : way2[i] = way[i]
  <2>1. \A i \in 1..n : i \in 1..(n + 1) /\ (~(i <= m) => i - m \in 1..k)
    BY ONLY <1>1, <1>6
  <2>2. QED
    BY ONLY <1>3, <1>7, <2>1
<1>9. way2[n + 1] = p
  <2>1. n + 1 \in 1..(n + 1) /\ ~(n + 1 <= m) /\ (n + 1) - m = k + 1
    BY ONLY <1>1, <1>6
  <2>2. QED
    BY ONLY <1>3, <1>7, <2>1
<1>10. /\ numbers = [i \in 0..n |-> IF i = 0 THEN read ELSE IF i <= m THEN out[i].sequence + 1
                                                     ELSE next + i - m]
       /\ numbers2 = [i \in 0..(n + 1) |-> IF i = 0 THEN read
                                           ELSE IF i <= m THEN out[i].sequence + 1
                                                ELSE next + i - m]
  <2>1. m + (k + 1) = n + 1
    BY ONLY <1>1, <1>6
  <2>2. QED
    BY ONLY <1>1, <1>3, <1>5, <2>1 DEF NumbersAfter
<1>11. \A i \in 0..n : numbers2[i] = numbers[i]
  <2>1. \A i \in 0..n : i \in 0..(n + 1)
    BY ONLY <1>6
  <2>2. QED
    BY ONLY <1>10, <2>1
<1>0. PICK end : end = next + k
  OBVIOUS
<1>12. numbers2[n + 1] = end + 1
  <2>1. /\ n + 1 \in 0..(n + 1) /\ ~(n + 1 <= m) /\ n + 1 # 0
        /\ next + (n + 1) - m = end + 1
    BY ONLY <1>0, <1>1, <1>6, next \in Nat
  <2>2. QED
    BY ONLY <1>10, <2>1
<1>13. Counts(sent, way, numbers, end, all, n) /\ Standing(v, sent[0])
  BY ONLY <1>0, <1>1, <1>5, Accounts(sent, out, post, next, all, v) DEF Accounts
<1>14. end \in Int /\ all \in Int
  BY ONLY <1>0, <1>6, next \in Nat, all \in Nat
<1>15. PICK s : Counts(s, way2, numbers2, end + 1, all + BooksIn(p), n + 1) /\ s[0] = sent[0]
  <2>1. OneMore(p, way2, numbers2, way, numbers, end, all, n)
    BY ONLY <1>6, <1>8, <1>9, <1>11, <1>12, p.kind = "book" => p.n = all + 1 DEF OneMore
  <2>2. Counts(sent, way, numbers, end, all, n)
    BY ONLY <1>13
  <2>3. n \in Nat /\ numbers \in [0..n -> Int]
    BY ONLY <1>6
  <2>4. QED
    BY ONLY <1>14, <2>1, <2>2, <2>3, CountsAtEnd
<1>16. /\ end + 1 = next + Len(longer) /\ n + 1 = Len(out) + Len(longer)
  BY ONLY <1>0, <1>1, <1>3, <1>6, next \in Nat
<1>17. Accounts(s, out, longer, next, all + BooksIn(p), v)
  BY ONLY <1>1, <1>5, <1>9, <1>13, <1>15, <1>16 DEF Accounts
<1>18. QED
  BY ONLY <1>2, <1>17

(* The first of those posted is queued. *)
LEMMA AccountsQueued ==
  ASSUME NEW out \in Seq(Numbered), NEW post \in Seq(Payload), NEW next \in Nat, NEW all \in Nat,
         NEW v \in Client, NEW sent, Accounts(sent, out, post, next, all, v), post # <<>>
  PROVE  Accounts(sent, Append(out, Frame(next, Head(post))), Tail(post), next + 1, all, v)
<1>1. PICK m, k, n, read : m = Len(out) /\ k = Len(post) /\ n = m + k /\ read = v.next
  OBVIOUS
<1>2. PICK frame, p : p = Head(post) /\ frame = Frame(next, p)
  OBVIOUS
<1>3. PICK longer, rest : longer = Append(out, frame) /\ rest = Tail(post)
  OBVIOUS
<1>4. /\ p \in Payload /\ p = post[1] /\ rest \in Seq(Payload) /\ Len(rest) = k - 1
      /\ \A i \in 1..(k - 1) : rest[i] = post[i + 1]
  <2>1. p = post[1]
    BY ONLY <1>2, post \in Seq(Payload), post # <<>>
  <2>2. /\ p \in Payload /\ rest \in Seq(Payload) /\ Len(rest) = k - 1
        /\ \A i \in 1..Len(rest) : rest[i] = post[i + 1]
    BY ONLY <1>1, <1>2, <1>3, HeadTailProperties, post \in Seq(Payload), post # <<>>
  <2>3. QED
    BY ONLY <2>1, <2>2
<1>5. frame \in Numbered /\ frame.payload = p /\ frame.sequence = next
  BY <1>2, <1>4 DEF Frame, Numbered
<1>6. /\ longer \in Seq(Numbered) /\ Len(longer) = m + 1 /\ longer[m + 1] = frame
      /\ \A i \in 1..m : longer[i] = out[i]
  BY ONLY <1>1, <1>3, <1>5, AppendProperties, out \in Seq(Numbered)
<1>7. m \in Nat /\ k \in Nat /\ k >= 1 /\ n \in Nat
  <2>1. m \in Nat /\ k \in Nat /\ k # 0
    BY ONLY <1>1, out \in Seq(Numbered), post \in Seq(Payload), post # <<>>
  <2>2. QED
    BY ONLY <1>1, <2>1
<1>8. (m + 1) + (k - 1) = n
  BY ONLY <1>1, <1>7
<1>9. Way(longer, rest) = Way(out, post)
  <2>1. Way(longer, rest) = [i \in 1..n |-> IF i <= m + 1 THEN longer[i].payload
                                             ELSE rest[i - (m + 1)]]
    BY ONLY <1>4, <1>6, <1>8 DEF Way
  <2>2. Way(out, post) = [i \in 1..n |-> IF i <= m THEN out[i].payload ELSE post[i - m]]
    BY ONLY <1>1 DEF Way
  <2>3. ASSUME NEW i \in 1..n
        PROVE  (IF i <= m + 1 THEN longer[i].payload ELSE rest[i - (m + 1)])
                 = (IF i <= m THEN out[i].payload ELSE post[i - m])
    <3>1. CASE i <= m
      <4>1. i \in 1..m /\ i <= m + 1
        BY ONLY <1>7, <3>1, i \in 1..n
      <4>2. QED
        BY ONLY <1>6, <3>1, <4>1
    <3>2. CASE i = m + 1
      <4>1. ~(i <= m) /\ i <= m + 1 /\ i - m = 1
        BY ONLY <1>7, <3>2
      <4>2. QED
        BY ONLY <1>4, <1>5, <1>6, <3>2, <4>1
    <3>3. CASE i > m + 1
      <4>1. /\ ~(i <= m) /\ ~(i <= m + 1) /\ i - (m + 1) \in 1..(k - 1)
            /\ (i - (m + 1)) + 1 = i - m
        BY ONLY <1>1, <1>7, <3>3, i \in 1..n
      <4>2. QED
        BY ONLY <1>4, <4>1
    <3>4. QED
      BY ONLY <1>7, <3>1, <3>2, <3>3, i \in 1..n
  <2>4. QED
    BY ONLY <2>1, <2>2, <2>3
<1>10. NumbersAfter(longer, rest, next + 1, read) = NumbersAfter(out, post, next, read)
  <2>1. NumbersAfter(longer, rest, next + 1, read)
          = [i \in 0..n |-> IF i = 0 THEN read ELSE IF i <= m + 1 THEN longer[i].sequence + 1
                                              ELSE (next + 1) + i - (m + 1)]
    BY ONLY <1>4, <1>6, <1>8 DEF NumbersAfter
  <2>2. NumbersAfter(out, post, next, read)
          = [i \in 0..n |-> IF i = 0 THEN read ELSE IF i <= m THEN out[i].sequence + 1
                                              ELSE next + i - m]
    BY ONLY <1>1 DEF NumbersAfter
  <2>3. ASSUME NEW i \in 0..n, i # 0
        PROVE  (IF i <= m + 1 THEN longer[i].sequence + 1 ELSE (next + 1) + i - (m + 1))
                 = (IF i <= m THEN out[i].sequence + 1 ELSE next + i - m)
    <3>1. CASE i <= m
      <4>1. i \in 1..m /\ i <= m + 1
        BY ONLY <1>7, <2>3, <3>1, i \in 0..n
      <4>2. QED
        BY ONLY <1>6, <3>1, <4>1
    <3>2. CASE i = m + 1
      <4>1. ~(i <= m) /\ i <= m + 1 /\ next + i - m = next + 1
        BY ONLY <1>7, <3>2, next \in Nat
      <4>2. QED
        BY ONLY <1>5, <1>6, <3>2, <4>1
    <3>3. CASE i > m + 1
      <4>1. /\ ~(i <= m) /\ ~(i <= m + 1) /\ (next + 1) + i - (m + 1) = next + i - m
        BY ONLY <1>1, <1>7, <3>3, next \in Nat, i \in 0..n
      <4>2. QED
        BY ONLY <4>1
    <3>4. QED
      BY ONLY <1>7, <3>1, <3>2, <3>3, i \in 0..n
  <2>4. QED
    BY ONLY <2>1, <2>2, <2>3
<1>11. (next + 1) + (k - 1) = next + k
  BY ONLY <1>7, next \in Nat
<1>12. Accounts(sent, longer, rest, next + 1, all, v)
  BY ONLY <1>1, <1>4, <1>6, <1>8, <1>9, <1>10, <1>11, Accounts(sent, out, post, next, all, v)
     DEF Accounts
<1>13. QED
  BY ONLY <1>2, <1>3, <1>12

(* The first of those posted is a Book, and is dropped. *)
LEMMA AccountsDropped ==
  ASSUME NEW out \in Seq(Numbered), NEW post \in Seq(Payload), NEW next \in Nat, NEW all \in Nat,
         NEW v \in Client, NEW sent, Accounts(sent, out, post, next, all, v), post # <<>>,
         Head(post).kind = "book"
  PROVE  \E s : Accounts(s, out, Tail(post), next + 1, all, v)
<1>1. PICK m, k, n, read : m = Len(out) /\ k = Len(post) /\ n = m + k /\ read = v.next
  OBVIOUS
<1>2. PICK rest, end, later : rest = Tail(post) /\ end = next + k /\ later = next + 1
  OBVIOUS
<1>3. /\ rest \in Seq(Payload) /\ Len(rest) = k - 1 /\ Head(post) = post[1]
      /\ \A i \in 1..(k - 1) : rest[i] = post[i + 1]
  <2>1. Head(post) = post[1]
    BY ONLY post \in Seq(Payload), post # <<>>
  <2>2. /\ rest \in Seq(Payload) /\ Len(rest) = k - 1
        /\ \A i \in 1..Len(rest) : rest[i] = post[i + 1]
    BY ONLY <1>1, <1>2, HeadTailProperties, post \in Seq(Payload), post # <<>>
  <2>3. QED
    BY ONLY <2>1, <2>2
<1>4. m \in Nat /\ k \in Nat /\ k >= 1 /\ n \in Nat /\ n - 1 = m + (k - 1) /\ m \in 0..(n - 1)
  <2>1. m \in Nat /\ k \in Nat /\ k # 0
    BY ONLY <1>1, out \in Seq(Numbered), post \in Seq(Payload), post # <<>>
  <2>2. QED
    BY ONLY <1>1, <2>1
<1>5. read \in Nat /\ later \in Nat
  BY <1>1, <1>2 DEF Client
<1>6. PICK way, numbers, way2, numbers2 :
        /\ way = Way(out, post) /\ numbers = NumbersAfter(out, post, next, read)
        /\ way2 = Way(out, rest) /\ numbers2 = NumbersAfter(out, rest, later, read)
  OBVIOUS
<1>7. /\ \A i \in 1..n : way[i] = IF i <= m THEN out[i].payload ELSE post[i - m]
      /\ \A i \in 0..n : numbers[i] = IF i = 0 THEN read ELSE IF i <= m THEN out[i].sequence + 1
                                                         ELSE next + i - m
  <2>1. way = [i \in 1..n |-> IF i <= m THEN out[i].payload ELSE post[i - m]]
    BY ONLY <1>1, <1>6 DEF Way
  <2>2. numbers = [i \in 0..n |-> IF i = 0 THEN read ELSE IF i <= m THEN out[i].sequence + 1
                                                     ELSE next + i - m]
    BY ONLY <1>1, <1>6 DEF NumbersAfter
  <2>3. QED
    BY ONLY <2>1, <2>2
<1>8. /\ \A i \in 1..(n - 1) : way2[i] = IF i <= m THEN out[i].payload ELSE rest[i - m]
      /\ \A i \in 0..(n - 1) : numbers2[i] = IF i = 0 THEN read
                                             ELSE IF i <= m THEN out[i].sequence + 1
                                                  ELSE later + i - m
  <2>1. way2 = [i \in 1..(n - 1) |-> IF i <= m THEN out[i].payload ELSE rest[i - m]]
    BY ONLY <1>1, <1>3, <1>4, <1>6 DEF Way
  <2>2. numbers2 = [i \in 0..(n - 1) |-> IF i = 0 THEN read
                                         ELSE IF i <= m THEN out[i].sequence + 1
                                              ELSE later + i - m]
    BY ONLY <1>1, <1>3, <1>4, <1>6 DEF NumbersAfter
  <2>3. QED
    BY ONLY <2>1, <2>2
<1>9. way[m + 1].kind = "book"
  <2>1. m + 1 \in 1..n /\ ~(m + 1 <= m) /\ (m + 1) - m = 1
    BY ONLY <1>4
  <2>2. QED
    BY ONLY <1>3, <1>7, <2>1, Head(post).kind = "book"
<1>10. ASSUME NEW i \in 1..(n - 1) PROVE way2[i] = way[IF i <= m THEN i ELSE i + 1]
  <2>1. i \in 1..n /\ i + 1 \in 1..n
    BY ONLY <1>4, i \in 1..(n - 1)
  <2>2. CASE i <= m
    BY ONLY <1>7, <1>8, <2>1, <2>2, i \in 1..(n - 1)
  <2>3. CASE ~(i <= m)
    <3>1. /\ ~(i + 1 <= m) /\ i - m \in 1..(k - 1) /\ (i - m) + 1 = (i + 1) - m
      BY ONLY <1>4, <2>3, i \in 1..(n - 1)
    <3>2. QED
      BY ONLY <1>3, <1>7, <1>8, <2>1, <2>3, <3>1, i \in 1..(n - 1)
  <2>4. QED
    BY ONLY <2>2, <2>3
<1>11. ASSUME NEW i \in 0..(n - 1) PROVE numbers2[i] = numbers[IF i <= m THEN i ELSE i + 1]
  <2>1. i \in 0..n /\ i + 1 \in 0..n
    BY ONLY <1>4, i \in 0..(n - 1)
  <2>2. CASE i <= m
    BY ONLY <1>4, <1>7, <1>8, <2>1, <2>2, i \in 0..(n - 1)
  <2>3. CASE ~(i <= m)
    <3>1. ~(i + 1 <= m) /\ i # 0 /\ i + 1 # 0 /\ later + i - m = next + (i + 1) - m
      BY ONLY <1>2, <1>4, <2>3, next \in Nat, i \in 0..(n - 1)
    <3>2. QED
      BY ONLY <1>7, <1>8, <2>1, <2>3, <3>1, i \in 0..(n - 1)
  <2>4. QED
    BY ONLY <2>2, <2>3
<1>12. OneLess(way2, numbers2, way, numbers, m, n)
  BY ONLY <1>9, <1>10, <1>11 DEF OneLess
<1>13. Counts(sent, way, numbers, end, all, n)
  BY ONLY <1>1, <1>2, <1>6, Accounts(sent, out, post, next, all, v) DEF Accounts
<1>14. numbers \in [0..n -> Int] /\ n \in Nat
  BY ONLY <1>1, <1>5, <1>6, WayTypes, out \in Seq(Numbered), post \in Seq(Payload), next \in Nat
<1>15. end \in Int /\ all \in Int
  BY ONLY <1>2, <1>4, next \in Nat, all \in Nat
<1>16. m \in 0..(n - 1)
  BY ONLY <1>4
<1>17. PICK s : Counts(s, way2, numbers2, end, all, n - 1) /\ s[0] = sent[0]
  BY ONLY <1>12, <1>13, <1>14, <1>15, <1>16, CountsWithout, SMTT(60)
<1>18. end = later + Len(rest) /\ n - 1 = Len(out) + Len(rest)
  BY ONLY <1>1, <1>2, <1>3, <1>4, next \in Nat
<1>19. Standing(v, sent[0])
  BY DEF Accounts
<1>20. Accounts(s, out, rest, later, all, v)
  BY ONLY <1>1, <1>6, <1>17, <1>18, <1>19 DEF Accounts
<1>21. QED
  BY ONLY <1>2, <1>20

(* A payload that is no Book is queued ahead of those posted. *)
LEMMA AccountsAhead ==
  ASSUME NEW out \in Seq(Numbered), NEW post \in Seq(Payload), NEW next \in Nat, NEW all \in Nat,
         NEW v \in Client, NEW sent, Accounts(sent, out, post, next, all, v),
         NEW p \in Payload, p.kind # "book"
  PROVE  \E s : Accounts(s, Append(out, Frame(next, p)), post, next + 1, all, v)
<1>1. PICK m, k, n, read : m = Len(out) /\ k = Len(post) /\ n = m + k /\ read = v.next
  OBVIOUS
<1>2. PICK frame, longer, end, later :
        /\ frame = Frame(next, p) /\ longer = Append(out, frame)
        /\ end = next + k /\ later = next + 1
  OBVIOUS
<1>3. frame \in Numbered /\ frame.payload = p /\ frame.sequence = next
  BY <1>2 DEF Frame, Numbered
<1>4. /\ longer \in Seq(Numbered) /\ Len(longer) = m + 1 /\ longer[m + 1] = frame
      /\ \A i \in 1..m : longer[i] = out[i]
  BY ONLY <1>1, <1>2, <1>3, AppendProperties, out \in Seq(Numbered)
<1>5. m \in Nat /\ k \in Nat /\ n \in Nat /\ n + 1 = (m + 1) + k
  <2>1. m \in Nat /\ k \in Nat
    BY ONLY <1>1, out \in Seq(Numbered), post \in Seq(Payload)
  <2>2. QED
    BY ONLY <1>1, <2>1
<1>6. read \in Nat /\ later \in Nat
  BY <1>1, <1>2 DEF Client
<1>7. PICK way, numbers, way2, numbers2 :
        /\ way = Way(out, post) /\ numbers = NumbersAfter(out, post, next, read)
        /\ way2 = Way(longer, post) /\ numbers2 = NumbersAfter(longer, post, later, read)
  OBVIOUS
<1>8. /\ \A i \in 1..n : way[i] = IF i <= m THEN out[i].payload ELSE post[i - m]
      /\ \A i \in 0..n : numbers[i] = IF i = 0 THEN read ELSE IF i <= m THEN out[i].sequence + 1
                                                         ELSE next + i - m
  <2>1. way = [i \in 1..n |-> IF i <= m THEN out[i].payload ELSE post[i - m]]
    BY ONLY <1>1, <1>7 DEF Way
  <2>2. numbers = [i \in 0..n |-> IF i = 0 THEN read ELSE IF i <= m THEN out[i].sequence + 1
                                                     ELSE next + i - m]
    BY ONLY <1>1, <1>7 DEF NumbersAfter
  <2>3. QED
    BY ONLY <2>1, <2>2
<1>9. /\ \A i \in 1..(n + 1) :
           way2[i] = IF i <= m + 1 THEN longer[i].payload ELSE post[i - (m + 1)]
      /\ \A i \in 0..(n + 1) : numbers2[i] = IF i = 0 THEN read
                                             ELSE IF i <= m + 1 THEN longer[i].sequence + 1
                                                  ELSE later + i - (m + 1)
  <2>1. way2 = [i \in 1..(n + 1) |->
                  IF i <= m + 1 THEN longer[i].payload ELSE post[i - (m + 1)]]
    BY ONLY <1>1, <1>4, <1>5, <1>7 DEF Way
  <2>2. numbers2 = [i \in 0..(n + 1) |-> IF i = 0 THEN read
                                         ELSE IF i <= m + 1 THEN longer[i].sequence + 1
                                              ELSE later + i - (m + 1)]
    BY ONLY <1>1, <1>4, <1>5, <1>7 DEF NumbersAfter
  <2>3. QED
    BY ONLY <2>1, <2>2
<1>10. way2[m + 1] = p /\ numbers2[m + 1] = later
  <2>1. m + 1 \in 1..(n + 1) /\ m + 1 \in 0..(n + 1) /\ m + 1 # 0 /\ m + 1 <= m + 1
    BY ONLY <1>1, <1>5
  <2>2. QED
    BY ONLY <1>2, <1>3, <1>4, <1>9, <2>1
<1>11. /\ \A i \in 1..m : way2[i] = way[i]
       /\ \A i \in 0..m : numbers2[i] = numbers[i]
  <2>1. ASSUME NEW i \in 1..m PROVE way2[i] = way[i] /\ numbers2[i] = numbers[i]
    <3>1. i \in 1..n /\ i \in 1..(n + 1) /\ i \in 0..n /\ i \in 0..(n + 1)
          /\ i # 0 /\ i <= m /\ i <= m + 1
      BY ONLY <1>1, <1>5, i \in 1..m
    <3>2. QED
      BY ONLY <1>4, <1>8, <1>9, <3>1, i \in 1..m
  <2>2. numbers2[0] = numbers[0]
    <3>1. 0 \in 0..n /\ 0 \in 0..(n + 1)
      BY ONLY <1>5
    <3>2. QED
      BY ONLY <1>8, <1>9, <3>1
  <2>3. \A i \in 0..m : i = 0 \/ i \in 1..m
    BY ONLY <1>5
  <2>4. QED
    BY ONLY <2>1, <2>2, <2>3
<1>12. Counts(sent, way, numbers, end, all, n) /\ Standing(v, sent[0])
  BY ONLY <1>1, <1>2, <1>7, Accounts(sent, out, post, next, all, v) DEF Accounts
<1>13. numbers \in [0..n -> Int] /\ n \in Nat
  BY ONLY <1>1, <1>6, <1>7, WayTypes, out \in Seq(Numbered), post \in Seq(Payload), next \in Nat
<1>14. end \in Int /\ all \in Int
  BY ONLY <1>2, <1>5, next \in Nat, all \in Nat
<1>15. Counts(sent, way, numbers, end, all, n)
  BY ONLY <1>12
<1>16. \E s : Counts(s, way2, numbers2, end + 1, all, n + 1) /\ s[0] = sent[0]
  <2>1. CASE k = 0
    <3>1. n = m /\ later = end + 1
      BY ONLY <1>1, <1>2, <1>5, <2>1, next \in Nat
    <3>2. numbers2 \in [0..(n + 1) -> Int]
      <4>1. numbers2 \in [0..((m + 1) + k) -> Int]
        BY ONLY <1>1, <1>4, <1>6, <1>7, WayTypes, post \in Seq(Payload)
      <4>2. QED
        BY ONLY <1>5, <4>1
    <3>3. OneMore(p, way2, numbers2, way, numbers, end, all, n)
      BY ONLY <1>10, <1>11, <3>1, <3>2, p.kind # "book" DEF OneMore
    <3>4. \E s : Counts(s, way2, numbers2, end + 1, all + BooksIn(p), n + 1) /\ s[0] = sent[0]
      BY ONLY <1>13, <1>14, <1>15, <3>3, CountsAtEnd
    <3>5. all + BooksIn(p) = all
      BY ONLY p.kind # "book", all \in Nat DEF BooksIn
    <3>6. QED
      BY ONLY <3>4, <3>5
  <2>2. CASE k # 0
    <3>1. m \in 0..(n - 1) /\ k >= 1
      BY ONLY <1>1, <1>5, <2>2
    <3>2. ASSUME NEW i \in 1..(n + 1), i # m + 1
          PROVE  way2[i] = way[IF i <= m THEN i ELSE i - 1]
      <4>1. CASE i <= m
        <5>1. i \in 1..m
          BY ONLY <1>5, <4>1, i \in 1..(n + 1)
        <5>2. QED
          BY ONLY <1>11, <4>1, <5>1
      <4>2. CASE ~(i <= m)
        <5>1. /\ ~(i <= m + 1) /\ ~(i - 1 <= m) /\ i - 1 \in 1..n /\ i - (m + 1) = (i - 1) - m
          BY ONLY <1>5, <3>2, <4>2, i \in 1..(n + 1)
        <5>2. QED
          BY ONLY <1>8, <1>9, <4>2, <5>1, i \in 1..(n + 1)
      <4>3. QED
        BY ONLY <4>1, <4>2
    <3>3. ASSUME NEW i \in 0..(n + 1)
          PROVE  numbers2[i] = IF i <= m THEN numbers[i]
                               ELSE IF i = m + 1 THEN numbers[i] ELSE numbers[i - 1] + 1
      <4>1. CASE i <= m
        <5>1. i \in 0..m
          BY ONLY <1>5, <4>1, i \in 0..(n + 1)
        <5>2. QED
          BY ONLY <1>11, <4>1, <5>1
      <4>2. CASE i = m + 1
        <5>1. /\ ~(i <= m) /\ i # 0 /\ i \in 0..n /\ next + i - m = later
          BY ONLY <1>1, <1>2, <1>5, <3>1, <4>2, next \in Nat
        <5>2. QED
          BY ONLY <1>8, <1>10, <4>2, <5>1
      <4>3. CASE i > m + 1
        <5>1. /\ ~(i <= m + 1) /\ ~(i <= m) /\ ~(i - 1 <= m) /\ i - 1 # 0 /\ i # 0 /\ i # m + 1
              /\ i - 1 \in 0..n /\ later + i - (m + 1) = (next + (i - 1) - m) + 1
          BY ONLY <1>2, <1>5, <4>3, next \in Nat, i \in 0..(n + 1)
        <5>2. QED
          BY ONLY <1>8, <1>9, <5>1, i \in 0..(n + 1)
      <4>4. QED
        BY ONLY <1>5, <4>1, <4>2, <4>3, i \in 0..(n + 1)
    <3>4. OneBetween(way2, numbers2, way, numbers, m, n)
      BY ONLY <1>10, <3>2, <3>3, p.kind # "book" DEF OneBetween
    <3>5. m \in 0..(n - 1)
      BY ONLY <3>1
    <3>6. QED
      BY ONLY <1>13, <1>14, <1>15, <3>4, <3>5, CountsBetween, SMTT(60)
  <2>3. QED
    BY ONLY <2>1, <2>2
<1>17. PICK s : Counts(s, way2, numbers2, end + 1, all, n + 1) /\ s[0] = sent[0]
  BY ONLY <1>16
<1>18. end + 1 = later + Len(post) /\ n + 1 = Len(longer) + Len(post)
  BY ONLY <1>1, <1>2, <1>4, <1>5, next \in Nat
<1>19. Accounts(s, longer, post, later, all, v)
  BY ONLY <1>1, <1>7, <1>12, <1>17, <1>18 DEF Accounts
<1>20. QED
  BY ONLY <1>2, <1>19

(* A frame is read: the client knows of every Book that it will not get. *)
LEMMA StandingRead ==
  ASSUME NEW v \in Client, NEW frame \in Numbered, NEW p, p = frame.payload,
         NEW a \in Int, NEW b \in Int, Standing(v, a),
         b = a + (frame.sequence - v.next) + BooksIn(p), a <= b,
         p.kind = "book" => a < b /\ p.n = b
  PROVE  Standing(Told(v, frame), b)
<1>1. PICK x, y, k, u, sk, l : /\ x = v.next /\ y = frame.sequence /\ k = v.book
                               /\ u = Told(v, frame) /\ sk = v.skipped /\ l = v.lost
  OBVIOUS
<1>2. /\ x \in Int /\ y \in Int /\ k \in Int /\ sk \in BOOLEAN /\ l \in BOOLEAN
  BY <1>1 DEF Client, Numbered
<1>3. /\ u.skipped <=> sk \/ y # x
      /\ p.kind # "book" => u.book = k /\ u.lost = l
      /\ p.kind = "book" => u.book = p.n /\ (u.lost <=> l \/ p.n # k + 1)
  BY <1>1, ToldEffect
<1>4. IF sk THEN l \/ k < a ELSE ~l /\ k = a
  BY ONLY <1>1, Standing(v, a) DEF Standing
<1>5. CASE p.kind = "book"
  <2>1. b = a + (y - x) + 1 /\ a < b /\ p.n = b
    BY <1>1, <1>5 DEF BooksIn
  <2>2. u.book = b /\ (u.lost <=> l \/ b # k + 1)
    BY ONLY <1>3, <1>5, <2>1
  <2>3. CASE u.skipped
    <3>1. u.lost
      BY ONLY <1>2, <1>3, <1>4, <2>1, <2>2, <2>3, a \in Int, b \in Int
    <3>2. QED
      BY <1>1, <2>3, <3>1 DEF Standing
  <2>4. CASE ~u.skipped
    <3>1. ~sk /\ y = x
      BY ONLY <1>3, <2>4
    <3>2. ~l /\ b = k + 1
      BY ONLY <1>2, <1>4, <2>1, <3>1, a \in Int, b \in Int
    <3>3. ~u.lost
      BY ONLY <2>2, <3>2
    <3>4. QED
      BY <1>1, <2>2, <2>4, <3>3 DEF Standing
  <2>5. QED
    BY ONLY <2>3, <2>4
<1>6. CASE p.kind # "book"
  <2>1. b = a + (y - x) /\ a <= b
    <3>1. BooksIn(p) = 0
      BY ONLY <1>6 DEF BooksIn
    <3>2. b = a + (y - x) + 0 /\ a <= b
      BY <1>1, <3>1
    <3>3. QED
      BY ONLY <1>2, <3>2, a \in Int
  <2>2. u.book = k /\ u.lost = l
    BY ONLY <1>3, <1>6
  <2>3. CASE u.skipped
    <3>1. l \/ k < b
      BY ONLY <1>2, <1>3, <1>4, <2>1, <2>3, a \in Int, b \in Int
    <3>2. QED
      BY <1>1, <2>2, <2>3, <3>1 DEF Standing
  <2>4. CASE ~u.skipped
    <3>1. ~l /\ k = b
      BY ONLY <1>2, <1>3, <1>4, <2>1, <2>4, a \in Int, b \in Int
    <3>2. QED
      BY <1>1, <2>2, <2>4, <3>1 DEF Standing
  <2>5. QED
    BY ONLY <2>3, <2>4
<1>7. QED
  BY ONLY <1>5, <1>6

LEMMA AccountsRead ==
  ASSUME NEW out \in Seq(Numbered), NEW post \in Seq(Payload), NEW next \in Nat, NEW all \in Nat,
         NEW v \in Client, NEW sent, Accounts(sent, out, post, next, all, v), out # <<>>
  PROVE  \E s : Accounts(s, Tail(out), post, next, all, Told(v, Head(out)))
<1>1. PICK m, k, n, read : m = Len(out) /\ k = Len(post) /\ n = m + k /\ read = v.next
  OBVIOUS
<1>2. PICK frame, rest, end, u, p :
        /\ frame = Head(out) /\ rest = Tail(out) /\ end = next + k /\ u = Told(v, Head(out))
        /\ p = Head(out).payload
  OBVIOUS
<1>3. /\ frame \in Numbered /\ frame = out[1] /\ rest \in Seq(Numbered) /\ Len(rest) = m - 1
      /\ \A i \in 1..(m - 1) : rest[i] = out[i + 1]
  <2>1. frame = out[1]
    BY ONLY <1>2, out \in Seq(Numbered), out # <<>>
  <2>2. /\ frame \in Numbered /\ rest \in Seq(Numbered) /\ Len(rest) = m - 1
        /\ \A i \in 1..Len(rest) : rest[i] = out[i + 1]
    BY ONLY <1>1, <1>2, HeadTailProperties, out \in Seq(Numbered), out # <<>>
  <2>3. QED
    BY ONLY <2>1, <2>2
<1>4. m \in Nat /\ k \in Nat /\ m >= 1 /\ n \in Nat /\ n > 0 /\ n - 1 = (m - 1) + k
  <2>1. m \in Nat /\ k \in Nat /\ m # 0
    BY ONLY <1>1, out \in Seq(Numbered), post \in Seq(Payload), out # <<>>
  <2>2. QED
    BY ONLY <1>1, <2>1
<1>5. read \in Nat /\ u.next = frame.sequence + 1 /\ frame.sequence \in Nat
  <2>1. read \in Nat
    BY <1>1 DEF Client
  <2>2. frame.sequence \in Nat
    BY <1>3 DEF Numbered
  <2>3. u.next = frame.sequence + 1
    BY ONLY <1>2, <1>3, ToldEffect, v \in Client
  <2>4. QED
    BY ONLY <2>1, <2>2, <2>3
<1>6. PICK way, numbers, way2, numbers2 :
        /\ way = Way(out, post) /\ numbers = NumbersAfter(out, post, next, read)
        /\ way2 = Way(rest, post) /\ numbers2 = NumbersAfter(rest, post, next, u.next)
  OBVIOUS
<1>7. /\ \A i \in 1..n : way[i] = IF i <= m THEN out[i].payload ELSE post[i - m]
      /\ \A i \in 0..n : numbers[i] = IF i = 0 THEN read ELSE IF i <= m THEN out[i].sequence + 1
                                                         ELSE next + i - m
  <2>1. way = [i \in 1..n |-> IF i <= m THEN out[i].payload ELSE post[i - m]]
    BY ONLY <1>1, <1>6 DEF Way
  <2>2. numbers = [i \in 0..n |-> IF i = 0 THEN read ELSE IF i <= m THEN out[i].sequence + 1
                                                     ELSE next + i - m]
    BY ONLY <1>1, <1>6 DEF NumbersAfter
  <2>3. QED
    BY ONLY <2>1, <2>2
<1>8. /\ \A i \in 1..(n - 1) :
           way2[i] = IF i <= m - 1 THEN rest[i].payload ELSE post[i - (m - 1)]
      /\ \A i \in 0..(n - 1) : numbers2[i] = IF i = 0 THEN u.next
                                             ELSE IF i <= m - 1 THEN rest[i].sequence + 1
                                                  ELSE next + i - (m - 1)
  <2>1. way2 = [i \in 1..(n - 1) |->
                  IF i <= m - 1 THEN rest[i].payload ELSE post[i - (m - 1)]]
    BY ONLY <1>1, <1>3, <1>4, <1>6 DEF Way
  <2>2. numbers2 = [i \in 0..(n - 1) |-> IF i = 0 THEN u.next
                                         ELSE IF i <= m - 1 THEN rest[i].sequence + 1
                                              ELSE next + i - (m - 1)]
    BY ONLY <1>1, <1>3, <1>4, <1>6 DEF NumbersAfter
  <2>3. QED
    BY ONLY <2>1, <2>2
<1>9. way[1] = p /\ numbers[0] = read /\ numbers[1] = u.next
  <2>1. 1 \in 1..n /\ 1 <= m /\ 0 \in 0..n /\ 1 \in 0..n
    BY ONLY <1>4
  <2>2. QED
    BY ONLY <1>2, <1>3, <1>5, <1>7, <2>1
<1>10. ASSUME NEW i \in 1..(n - 1)
       PROVE  way2[i] = way[i + 1] /\ numbers2[i] = numbers[i + 1]
  <2>1. i + 1 \in 1..n /\ i + 1 \in 0..n /\ i \in 0..(n - 1) /\ i # 0 /\ i + 1 # 0
    BY ONLY <1>4, i \in 1..(n - 1)
  <2>2. CASE i <= m - 1
    <3>1. i \in 1..(m - 1) /\ i + 1 <= m
      BY ONLY <1>4, <2>2, i \in 1..(n - 1)
    <3>2. QED
      BY ONLY <1>3, <1>7, <1>8, <2>1, <2>2, <3>1, i \in 1..(n - 1)
  <2>3. CASE ~(i <= m - 1)
    <3>1. /\ ~(i + 1 <= m) /\ i - (m - 1) = (i + 1) - m
          /\ next + i - (m - 1) = next + (i + 1) - m
      BY ONLY <1>4, <2>3, next \in Nat, i \in 1..(n - 1)
    <3>2. QED
      BY ONLY <1>7, <1>8, <2>1, <2>3, <3>1, i \in 1..(n - 1)
  <2>4. QED
    BY ONLY <2>2, <2>3
<1>11. numbers2[0] = numbers[0 + 1]
  <2>1. 0 \in 0..(n - 1)
    BY ONLY <1>4
  <2>2. QED
    BY ONLY <1>8, <1>9, <2>1
<1>12. FirstRead(way2, numbers2, way, numbers, n)
  <2>1. \A i \in 0..(n - 1) : i = 0 \/ i \in 1..(n - 1)
    BY ONLY <1>4
  <2>2. QED
    BY ONLY <1>10, <1>11, <2>1 DEF FirstRead
<1>13. Counts(sent, way, numbers, end, all, n) /\ Standing(v, sent[0])
  BY ONLY <1>1, <1>2, <1>6, Accounts(sent, out, post, next, all, v) DEF Accounts
<1>14. numbers \in [0..n -> Int] /\ n \in Nat
  BY ONLY <1>1, <1>5, <1>6, WayTypes, out \in Seq(Numbered), post \in Seq(Payload), next \in Nat
<1>15. end \in Int /\ all \in Int
  BY ONLY <1>2, <1>4, next \in Nat, all \in Nat
<1>16. Counts(sent, way, numbers, end, all, n)
  BY ONLY <1>13
<1>17. n > 0
  BY ONLY <1>4
<1>18. PICK s : Counts(s, way2, numbers2, end, all, n - 1) /\ s[0] = sent[1]
  BY ONLY <1>12, <1>14, <1>15, <1>16, <1>17, CountsAtHead
<1>19. Standing(u, sent[1])
  <2>1. PICK a, b : a = sent[0] /\ b = sent[1]
    OBVIOUS
  <2>2. 0 \in 0..n /\ 1 \in 0..n /\ 1 \in 1..n /\ 1 - 1 = 0
    BY ONLY <1>4
  <2>3. a \in Int /\ b \in Int
    BY ONLY <1>16, <2>1, <2>2 DEF Counts
  <2>4. sent[1] = sent[1 - 1] + (numbers[1] - numbers[1 - 1] - 1) + BooksIn(way[1])
    BY ONLY <1>16, <2>2 DEF Counts
  <2>5. a <= b /\ (p.kind = "book" => a < b)
    BY ONLY <1>9, <1>16, <2>1, <2>2 DEF Counts
  <2>6. p.kind = "book" => p.n = b
    BY ONLY <1>9, <1>16, <2>1, <2>2 DEF Counts
  <2>7. PICK one : one \in Int /\ one = BooksIn(p)
    BY DEF BooksIn
  <2>8. b = a + ((frame.sequence + 1) - read - 1) + one
    BY ONLY <1>5, <1>9, <2>1, <2>2, <2>4, <2>7
  <2>9. b = a + (frame.sequence - read) + one
    BY ONLY <1>5, <2>3, <2>7, <2>8
  <2>10. Standing(v, a)
    BY ONLY <1>13, <2>1
  <2>11. Standing(Told(v, frame), b)
    <3>1. a \in Int
      BY ONLY <2>3
    <3>2. b \in Int
      BY ONLY <2>3
    <3>3. p = frame.payload /\ b = a + (frame.sequence - v.next) + BooksIn(p)
      BY ONLY <1>1, <1>2, <2>7, <2>9
    <3>4. frame \in Numbered
      BY ONLY <1>3
    <3>5. QED
      BY ONLY <2>5, <2>6, <2>10, <3>1, <3>2, <3>3, <3>4, StandingRead, v \in Client
  <2>12. QED
    BY ONLY <1>2, <2>1, <2>11
<1>20. end = next + Len(post) /\ n - 1 = Len(rest) + Len(post)
  BY ONLY <1>1, <1>2, <1>3, <1>4
<1>21. Accounts(s, rest, post, next, all, u)
  BY ONLY <1>6, <1>18, <1>19, <1>20 DEF Accounts
<1>22. QED
  BY ONLY <1>2, <1>21

(* What the accounts say: numbers were skipped if a Book was lost, and if  *)
(* they were, one was, or the next Book the client will read tells.        *)
LEMMA AccountsTell ==
  ASSUME NEW out \in Seq(Numbered), NEW post \in Seq(Payload), NEW next \in Nat, NEW all \in Nat,
         NEW v \in Client, NEW sent, Accounts(sent, out, post, next, all, v),
         NEW n \in Nat, n = Len(out) + Len(post)
  PROVE  /\ v.lost => v.skipped
         /\ v.skipped /\ ~v.lost =>
              /\ v.book < all
              /\ \A i \in 1..n :
                   Way(out, post)[i].kind = "book" => Way(out, post)[i].n # v.book + 1
<1>1. PICK way, numbers, end, book : /\ way = Way(out, post)
                                     /\ numbers = NumbersAfter(out, post, next, v.next)
                                     /\ end = next + Len(post) /\ book = v.book
  OBVIOUS
<1>2. Counts(sent, way, numbers, end, all, n) /\ Standing(v, sent[0])
  BY ONLY <1>1, Accounts(sent, out, post, next, all, v), n = Len(out) + Len(post) DEF Accounts
<1>3. book \in Nat /\ v.next \in Nat
  BY <1>1 DEF Client
<1>4. numbers \in [0..n -> Int]
  BY ONLY <1>1, <1>3, WayTypes, out \in Seq(Numbered), post \in Seq(Payload), next \in Nat,
          n = Len(out) + Len(post)
<1>5. v.lost => v.skipped
  BY ONLY <1>2 DEF Standing
<1>6. ASSUME v.skipped, ~v.lost
      PROVE  book < all /\ \A i \in 1..n : way[i].kind = "book" => way[i].n # book + 1
  <2>1. book < sent[0]
    BY ONLY <1>1, <1>2, <1>6 DEF Standing
  <2>2. 0 \in 0..n /\ n \in 0..n /\ \A i \in 1..n : i \in 0..n /\ 0 < i
    BY ONLY n \in Nat
  <2>3. sent \in [0..n -> Int] /\ sent[0] <= sent[n] /\ numbers[n] <= end
        /\ all = sent[n] + end - numbers[n]
    BY ONLY <1>2, <2>2, n \in Nat DEF Counts
  <2>4. sent[0] \in Int /\ sent[n] \in Int /\ numbers[n] \in Int /\ end \in Int
    <3>1. Len(post) \in Nat
      BY ONLY post \in Seq(Payload)
    <3>2. QED
      BY ONLY <1>1, <1>4, <2>2, <2>3, <3>1, next \in Nat
  <2>5. book < all
    BY ONLY <1>3, <2>1, <2>3, <2>4
  <2>6. ASSUME NEW i \in 1..n, way[i].kind = "book" PROVE way[i].n # book + 1
    <3>1. sent[0] < sent[i] /\ way[i].n = sent[i] /\ sent[i] \in Int
      BY ONLY <1>2, <2>2, <2>3, <2>6, i \in 1..n DEF Counts
    <3>2. QED
      BY ONLY <1>3, <2>1, <2>4, <3>1
  <2>7. QED
    BY ONLY <2>5, <2>6
<1>7. QED
  BY ONLY <1>1, <1>5, <1>6

LEMMA GapsAreShown == ASSUME TypeInv, \A c \in Sessions : GapInv(c) PROVE GapsShow
<1> SUFFICES ASSUME NEW c \in Sessions, ~closed[c]
             PROVE  /\ client[c].lost => client[c].skipped
                    /\ client[c].skipped =>
                         client[c].lost \/ client[c].book + 1 \notin BooksComing(c)
  BY DEF GapsShow
<1>1. PICK out \in Seq(Numbered), post \in Seq(Payload), next \in Nat, all \in Nat, v \in Client :
        /\ out = outgoing[c] /\ post = posted[c] /\ next = sequence[c] /\ all = books[c]
        /\ v = client[c]
  BY DEF TypeInv, FramesTypeOK
<1>2. PICK sent : Accounts(sent, out, post, next, all, v)
  BY <1>1 DEF GapInv
<1>3. PICK n \in Nat : n = Len(out) + Len(post)
  BY ONLY out \in Seq(Numbered), post \in Seq(Payload)
<1>4. PICK q : q = Payloads(out)
  OBVIOUS
<1>5. /\ q \in Seq(Payload) /\ Len(q) = Len(out) /\ \A i \in 1..Len(out) : q[i] = out[i].payload
  BY <1>4, PayloadsAre
<1>6. OnTheWay(c) = q \o post
  BY ONLY <1>1, <1>4 DEF OnTheWay, Payloads
<1>7. /\ Len(q \o post) = n
      /\ \A i \in 1..n : (q \o post)[i] = IF i <= Len(q) THEN q[i] ELSE post[i - Len(q)]
  <2>1. q \in Seq(Payload)
    BY ONLY <1>5
  <2>2. PICK u : u = q \o post
    OBVIOUS
  <2>3. /\ Len(u) = Len(q) + Len(post)
        /\ \A i \in 1..Len(u) : u[i] = IF i <= Len(q) THEN q[i] ELSE post[i - Len(q)]
    BY ONLY <2>1, <2>2, ConcatProperties, post \in Seq(Payload)
  <2>4. Len(u) = n
    BY ONLY <1>3, <1>5, <2>3
  <2>5. QED
    BY ONLY <2>2, <2>3, <2>4
<1>8. Way(out, post) = [i \in 1..n |-> IF i <= Len(out) THEN out[i].payload
                                       ELSE post[i - Len(out)]]
  BY ONLY <1>3 DEF Way
<1>9. \A i \in 1..n : OnTheWay(c)[i] = Way(out, post)[i]
  <2>1. \A i \in 1..n : i <= Len(out) => i \in 1..Len(out)
    OBVIOUS
  <2>2. QED
    BY ONLY <1>5, <1>6, <1>7, <1>8, <2>1
<1>10. Len(OnTheWay(c)) = n
  BY ONLY <1>6, <1>7
<1>11. v.lost => v.skipped
  BY ONLY <1>2, <1>3, AccountsTell, out \in Seq(Numbered), post \in Seq(Payload), next \in Nat,
          all \in Nat, v \in Client, n \in Nat
<1>12. ASSUME v.skipped, ~v.lost PROVE v.book + 1 \notin BooksComing(c)
  <2>1. /\ v.book < all
        /\ \A i \in 1..n : Way(out, post)[i].kind = "book" => Way(out, post)[i].n # v.book + 1
    BY ONLY <1>2, <1>3, <1>12, AccountsTell, out \in Seq(Numbered), post \in Seq(Payload),
            next \in Nat, all \in Nat, v \in Client, n \in Nat
  <2>2. v.book + 1 # all + 1
    <3>1. v.book \in Nat
      BY DEF Client
    <3>2. QED
      BY ONLY <2>1, <3>1, all \in Nat
  <2>3. BooksComing(c) = {OnTheWay(c)[i].n : i \in {j \in 1..n : OnTheWay(c)[j].kind = "book"}}
                           \cup {all + 1}
    BY ONLY <1>1, <1>10 DEF BooksComing
  <2>4. \A i \in 1..n : OnTheWay(c)[i].kind = "book" => OnTheWay(c)[i].n # v.book + 1
    BY ONLY <1>9, <2>1
  <2>5. QED
    BY ONLY <2>2, <2>3, <2>4
<1>13. QED
  BY ONLY <1>1, <1>11, <1>12

(* Every step keeps the accounts of a connection that is not closed. *)
LEMMA GapStep ==
  ASSUME TypeInv, TypeInv', [Next]_vars, NEW d \in Sessions,
         ServerInv, SessionInv(d), GapInv(d)
  PROVE  GapInv(d)'
<1> SUFFICES ASSUME ~closed'[d]
             PROVE  \E sent : Accounts(sent, outgoing'[d], posted'[d], sequence'[d], books'[d],
                                       client'[d])
  BY DEF GapInv
<1>1. ~closed[d]
  BY Remains
<1>2. PICK out \in Seq(Numbered), post \in Seq(Payload), next \in Nat, all \in Nat, v \in Client :
        /\ out = outgoing[d] /\ post = posted[d] /\ next = sequence[d] /\ all = books[d]
        /\ v = client[d]
  BY DEF TypeInv, FramesTypeOK
<1>3. PICK sent : Accounts(sent, out, post, next, all, v)
  BY <1>1, <1>2 DEF GapInv
<1>4. ASSUME KeepsPosted(d), KeepsOutgoing(d)
      PROVE  \E s : Accounts(s, outgoing'[d], posted'[d], sequence'[d], books'[d], client'[d])
  BY <1>2, <1>3, <1>4 DEF KeepsPosted, KeepsOutgoing
<1>5. ASSUME NEW p \in Payload, KeepsOutgoing(d), posted'[d] = Append(post, p),
             books'[d] = all + BooksIn(p), p.kind = "book" => p.n = all + 1
      PROVE  \E s : Accounts(s, outgoing'[d], posted'[d], sequence'[d], books'[d], client'[d])
  <2>1. \E s : Accounts(s, out, Append(post, p), next, all + BooksIn(p), v)
    BY ONLY <1>3, <1>5, AccountsPosted, out \in Seq(Numbered), post \in Seq(Payload), next \in Nat,
            all \in Nat, v \in Client
  <2>2. outgoing'[d] = out /\ sequence'[d] = next /\ client'[d] = v
    BY <1>2, <1>5 DEF KeepsOutgoing
  <2>3. QED
    BY ONLY <1>5, <2>1, <2>2
<1>6. CASE Untouched(d)
  BY <1>4, <1>6 DEF Untouched
<1>7. CASE Connects(d) \/ AcceptHandler(d) \/ HandshakeDone(d) \/ HandshakeHandler(d)
  BY <1>4, <1>7, AcceptAt, HandshakeAt
<1>8. CASE \E command \in Commands : CommandArrives(d, command)
  BY <1>4, <1>8, ArrivesAt
<1>9. CASE ReadHandler(d)
  BY <1>1, <1>4, <1>9, ReadAt DEF Closes
<1>10. CASE ConnectionFails(d) \/ (d \in sessions /\ ~closed[d] /\ StopHandler)
  BY <1>10, FailsAt DEF Closes
<1>11. CASE EnqueueHandler(d)
  <2>1. PICK p \in Payload : /\ p = Head(post) /\ Enqueued(d, p) /\ post # <<>>
                             /\ posted'[d] = Tail(post) /\ books'[d] = all
    BY <1>2, <1>11, EnqueueAt
  <2>2. CASE /\ outgoing'[d] = Append(out, Frame(next, p)) /\ client'[d] = v
             /\ sequence'[d] = next + 1
    <3>1. Accounts(sent, Append(out, Frame(next, Head(post))), Tail(post), next + 1, all, v)
      BY ONLY <1>3, <2>1, AccountsQueued, out \in Seq(Numbered), post \in Seq(Payload),
              next \in Nat, all \in Nat, v \in Client
    <3>2. QED
      BY ONLY <2>1, <2>2, <3>1
  <2>3. CASE /\ p.kind = "book" /\ outgoing'[d] = out /\ client'[d] = v
             /\ sequence'[d] = next + 1
    <3>1. \E s : Accounts(s, out, Tail(post), next + 1, all, v)
      BY ONLY <1>3, <2>1, <2>3, AccountsDropped, out \in Seq(Numbered), post \in Seq(Payload),
              next \in Nat, all \in Nat, v \in Client
    <3>2. QED
      BY ONLY <2>1, <2>3, <3>1
  <2>4. QED
    BY <1>1, <1>2, <2>1, <2>2, <2>3 DEF Enqueued, Closes
<1>12. CASE HeartbeatHandler(d)
  <2>1. PICK p \in Payload : p = Heartbeat /\ Enqueued(d, p) /\ KeepsPosted(d)
    BY <1>12, HeartbeatAt
  <2>2. p.kind = "heartbeat"
    BY <2>1 DEF Heartbeat
  <2>3. /\ outgoing'[d] = Append(out, Frame(next, p)) /\ client'[d] = v
        /\ sequence'[d] = next + 1
    BY <1>1, <1>2, <2>1, <2>2 DEF Enqueued, Closes
  <2>4. posted'[d] = post /\ books'[d] = all
    BY <1>2, <2>1 DEF KeepsPosted
  <2>5. p.kind # "book"
    BY <2>2
  <2>6. \E s : Accounts(s, Append(out, Frame(next, p)), post, next + 1, all, v)
    BY ONLY <1>3, <2>5, AccountsAhead, out \in Seq(Numbered), post \in Seq(Payload), next \in Nat,
            all \in Nat, v \in Client, p \in Payload
  <2>7. QED
    BY ONLY <2>3, <2>4, <2>6
<1>13. CASE WriteHandler(d)
  <2>1. out # <<>> /\ outgoing'[d] = Tail(out) /\ client'[d] = Told(v, Head(out))
    BY <1>2, <1>13, WriteEffect
  <2>2. posted'[d] = post /\ books'[d] = all /\ sequence'[d] = next
    BY <1>2, <1>13, WriteAt DEF KeepsPosted, WriteHandler
  <2>3. \E s : Accounts(s, Tail(out), post, next, all, Told(v, Head(out)))
    BY ONLY <1>3, <2>1, AccountsRead, out \in Seq(Numbered), post \in Seq(Payload), next \in Nat,
            all \in Nat, v \in Client
  <2>4. QED
    BY ONLY <2>1, <2>2, <2>3
<1>14. CASE Begin(d)
  BY <1>4, <1>14, BeginAt
<1>15. CASE RunWatch(d)
  <2>1. KeepsOutgoing(d)
    BY <1>15, WatchAt
  <2>2. CASE KeepsPosted(d)
    BY <1>4, <2>1, <2>2
  <2>3. CASE \E r \in Running :
               /\ <<StreamInfo(r.id), Book(r.id, books[d] + 1)>> \in Seq(Payload)
               /\ posted'[d] = posted[d] \o <<StreamInfo(r.id), Book(r.id, books[d] + 1)>>
               /\ books'[d] = books[d] + 1
    <3>1. PICK x, y : /\ x.kind = "info" /\ y.kind = "book" /\ y.n = all + 1
                      /\ <<x, y>> \in Seq(Payload)
                      /\ posted'[d] = post \o <<x, y>> /\ books'[d] = all + 1
      <4>1. PICK r \in Running :
               /\ <<StreamInfo(r.id), Book(r.id, books[d] + 1)>> \in Seq(Payload)
               /\ posted'[d] = posted[d] \o <<StreamInfo(r.id), Book(r.id, books[d] + 1)>>
               /\ books'[d] = books[d] + 1
        BY <2>3
      <4>2. /\ StreamInfo(r.id).kind = "info"
            /\ Book(r.id, books[d] + 1).kind = "book" /\ Book(r.id, books[d] + 1).n = books[d] + 1
        BY DEF StreamInfo, Book
      <4>3. QED
        BY <1>2, <4>1, <4>2
    <3>2. /\ x \in Payload /\ y \in Payload /\ Append(post, x) \in Seq(Payload)
          /\ posted'[d] = Append(Append(post, x), y)
      BY <3>1, PostsBoth
    <3>3. PICK t \in Seq(Payload) : t = Append(post, x)
      BY <3>2
    <3>4. x.kind # "book" /\ BooksIn(x) = 0 /\ BooksIn(y) = 1
      BY ONLY <3>1 DEF BooksIn
    <3>5. \E s : Accounts(s, out, Append(post, x), next, all + BooksIn(x), v)
      <4>1. x \in Payload
        BY ONLY <3>2
      <4>2. x.kind = "book" => x.n = all + 1
        BY ONLY <3>4
      <4>3. QED
        BY ONLY <1>3, <4>1, <4>2, AccountsPosted, out \in Seq(Numbered), post \in Seq(Payload),
                next \in Nat, all \in Nat, v \in Client
    <3>6. PICK s : Accounts(s, out, t, next, all, v)
      <4>1. all + 0 = all
        BY ONLY all \in Nat
      <4>2. QED
        BY ONLY <3>3, <3>4, <3>5, <4>1
    <3>7. \E z : Accounts(z, out, Append(t, y), next, all + BooksIn(y), v)
      <4>1. y \in Payload
        BY ONLY <3>2
      <4>2. y.kind = "book" => y.n = all + 1
        BY ONLY <3>1
      <4>3. QED
        BY ONLY <3>6, <4>1, <4>2, AccountsPosted, out \in Seq(Numbered), t \in Seq(Payload),
                next \in Nat, all \in Nat, v \in Client
    <3>8. outgoing'[d] = out /\ sequence'[d] = next /\ client'[d] = v
      BY <1>2, <2>1 DEF KeepsOutgoing
    <3>9. QED
      BY ONLY <3>1, <3>2, <3>3, <3>4, <3>7, <3>8
  <2>4. QED
    BY <1>15, <2>2, <2>3, WatchAt
<1>16. CASE RunReplace(d) \/ RunUnwatch(d)
  BY <1>4, <1>16, ReplaceAt
<1>17. CASE RunReply(d)
  <2>1. PICK p : p = Reply(running[d][1].n, running[d][1].watching)
    OBVIOUS
  <2>2. p \in Payload /\ posted'[d] = Append(post, p) /\ KeepsOutgoing(d) /\ books'[d] = all
    BY <1>2, <1>17, <2>1, ReplyAt
  <2>3. p.kind # "book" /\ BooksIn(p) = 0 /\ all + 0 = all
    BY <2>1 DEF Reply, BooksIn
  <2>4. QED
    BY <1>5, <2>2, <2>3
<1>18. CASE RunDone(d) \/ RunForget(d)
  BY <1>4, <1>18, DoneAt, ForgetAt
<1>19. CASE \E id \in Ids : d \in watchers[id] /\ Publish(id)
  <2>1. PICK id \in Ids : d \in watchers[id] /\ Publish(id)
    BY <1>19
  <2>2. PICK p : p = Book(id, books[d] + 1)
    OBVIOUS
  <2>3. p \in Payload /\ posted'[d] = Append(post, p) /\ KeepsOutgoing(d) /\ books'[d] = all + 1
    BY <1>2, <2>1, <2>2, PublishAt
  <2>4. p.kind = "book" /\ p.n = all + 1 /\ BooksIn(p) = 1
    BY <1>2, <2>2 DEF Book, BooksIn
  <2>5. QED
    BY <1>5, <2>3, <2>4
<1>20. CASE DropReplies
  <2>1. posted[d] = <<>> /\ posted'[d] = <<>> /\ KeepsOutgoing(d) /\ books'[d] = books[d]
    BY <1>1, <1>20, DropAt, NothingPosted
  <2>2. QED
    BY <1>4, <2>1 DEF KeepsPosted
<1>21. QED
  BY <1>6, <1>7, <1>8, <1>9, <1>10, <1>11, <1>12, <1>13, <1>14, <1>15, <1>16, <1>17, <1>18, <1>19,
     <1>20, StepAt DEF Own

(* What a client is not told of, it did not miss: a number is skipped      *)
(* exactly when a Book was dropped, whatever was queued, read or dropped   *)
(* between.                                                                *)
THEOREM SkipsTellLosses == Spec => []GapsShow
<1> DEFINE Gaps == \A c \in Sessions : GapInv(c)
<1>1. Init => Gaps
  <2> SUFFICES ASSUME Init PROVE Gaps
    OBVIOUS
  <2>1. ASSUME NEW c \in Sessions PROVE GapInv(c)
    <3>1. /\ outgoing[c] = <<>> /\ posted[c] = <<>> /\ sequence[c] = 0 /\ books[c] = 0
          /\ client[c] = NewClient
      BY DEF Init
    <3>2. PICK out, post, next, all, v : /\ out = outgoing[c] /\ post = posted[c]
                                         /\ next = sequence[c] /\ all = books[c] /\ v = client[c]
      OBVIOUS
    <3>3. /\ Len(out) = 0 /\ Len(post) = 0 /\ next = 0 /\ all = 0 /\ v.next = 0
          /\ v.skipped = FALSE /\ v.lost = FALSE /\ v.book = 0
      BY <3>1, <3>2 DEF NewClient
    <3>4. PICK sent, way, numbers : /\ sent = [i \in 0..0 |-> 0] /\ way = Way(out, post)
                                    /\ numbers = NumbersAfter(out, post, next, v.next)
      OBVIOUS
    <3>5. sent \in [0..0 -> Int] /\ sent[0] = 0
      BY ONLY <3>4
    <3>6. numbers[0] = 0
      BY <3>3, <3>4 DEF NumbersAfter
    <3>7. Counts(sent, way, numbers, 0, 0, 0)
      BY ONLY <3>5, <3>6 DEF Counts
    <3>8. Standing(v, sent[0])
      BY ONLY <3>3, <3>5 DEF Standing
    <3>9. Accounts(sent, out, post, next, all, v)
      <4>1. next + Len(post) = 0 /\ Len(out) + Len(post) = 0
        BY ONLY <3>3
      <4>2. QED
        BY ONLY <3>3, <3>4, <3>7, <3>8, <4>1 DEF Accounts
    <3>10. QED
      BY ONLY <3>2, <3>9 DEF GapInv
  <2>2. QED
    BY <2>1
<1>2. IInv /\ IInv' /\ Gaps /\ [Next]_vars => Gaps'
  <2> SUFFICES ASSUME IInv, IInv', Gaps, [Next]_vars PROVE Gaps'
    OBVIOUS
  <2>1. ASSUME NEW c \in Sessions PROVE GapInv(c)'
    BY GapStep DEF IInv
  <2>2. QED
    BY <2>1
<1>3. IInv /\ Gaps => GapsShow
  BY GapsAreShown DEF IInv
<1>4. QED
  BY <1>1, <1>2, <1>3, ServerInvariant, PTL DEF Spec
=============================================================================
