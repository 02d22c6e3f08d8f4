-------------------------- MODULE FileWriter_proofs --------------------------
(***************************************************************************)
(* The recordings' safety for every capacity of the queue, any number of   *)
(* recordings of the pair, messages, gaps and failures, and any clock.     *)
(***************************************************************************)
EXTENDS FileWriter, FiniteSetTheorems, SequenceTheorems, WellFoundedInduction, TLAPS

Entry == [kind : {"snapshot", "update", "gap"}, n : Nat, epoch : Nat]

Message == {e \in Entry : e.kind # "gap"}

File == [writer : Nat, messages : Seq(Message)]

DiskType ==
  /\ IsFiniteSet(DOMAIN disk) /\ None \notin DOMAIN disk
  /\ \A name \in DOMAIN disk : disk[name] \in File /\ disk[name].writer <= writer

TypeInv ==
  /\ now \in Nat /\ writer \in Nat /\ received \in Nat /\ epoch \in Nat /\ faults \in Nat
  /\ inFile \in Nat
  /\ thread \in {"none", "running", "failed", "returned"}
  /\ stopping \in BOOLEAN /\ failed \in BOOLEAN
  /\ stream \in {"fresh", "live", "gap"}
  /\ queue \in Seq(Entry)
  /\ DiskType

(* The file that is open, and what a thread leaves when it ends. *)
OpenInv ==
  /\ output # None => output \in DOMAIN disk /\ Len(output) = 1
  /\ output # None /\ thread = "running" =>
       inFile = Len(disk[output].messages) /\ disk[output].writer = writer
  /\ thread = "none" => output = None /\ queue = <<>>
  /\ thread = "returned" => queue = <<>>
  /\ thread = "failed" => failed
  /\ thread = "running" => ~failed
  /\ failed => faults > 0

(* Only the open file of a writer that runs is empty. *)
OneEmpty ==
  \A a, b \in DOMAIN disk :
    /\ disk[a].writer = disk[b].writer
    /\ disk[a].messages = <<>> /\ disk[b].messages = <<>>
    => a = b

EmptyInv ==
  /\ thread = "running" =>
       \A name \in DOMAIN disk :
         disk[name].writer = writer /\ name # output => disk[name].messages # <<>>
  /\ OneEmpty

(* A file's messages. *)
IsStretch(m) ==
  m # <<>> =>
    /\ m[1].kind = "snapshot"
    /\ \A i \in 1..Len(m) : m[i].n = m[1].n + i - 1 /\ m[i].epoch = m[1].epoch

Stretches == \A name \in DOMAIN disk : IsStretch(disk[name].messages)

(* What the open file holds and what is queued behind it: an entry follows *)
(* the one before it, and the next one received will follow the last.      *)
Follows(e, f) ==
  /\ f.n = IF IsGap(f) THEN e.n ELSE e.n + 1
  /\ f.epoch = IF IsGap(e) THEN e.epoch + 1 ELSE e.epoch
  /\ IsGap(e) => f.kind # "update"

Written == IF output = None THEN <<>> ELSE disk[output].messages

Coming == Written \o queue

Chained(s) ==
  /\ \A i \in 1..(Len(s) - 1) : Follows(s[i], s[i + 1])
  /\ s # <<>> => s[1].kind # "update"

EndsAs(s) ==
  IF s = <<>> THEN stream # "live"
  ELSE /\ received = s[Len(s)].n
       /\ epoch = IF IsGap(s[Len(s)]) THEN s[Len(s)].epoch + 1 ELSE s[Len(s)].epoch
       /\ stream = "live" => ~IsGap(s[Len(s)])

ChainInv == thread = "running" => Chained(Coming) /\ EndsAs(Coming)

(* Without a failure only the open file has a recording's name, so none is *)
(* replaced.                                                               *)
KeptInv ==
  faults = 0 =>
    /\ \A name \in DOMAIN disk : IsFinal(name) \/ name = output
    /\ 1..received \subseteq OnDisk \cup Queued

IInv == TypeInv /\ OpenInv /\ EmptyInv /\ Stretches /\ ChainInv /\ KeptInv

-----------------------------------------------------------------------------
(* File names. *)

(* A non-empty set of numbers has a smallest one: the order of the numbers  *)
(* FinalPath() tries.                                                       *)
LEMMA Minimum ==
  ASSUME NEW S \in SUBSET Nat, S # {}
  PROVE  \E n \in S : \A m \in S : n <= m
<1>1. \E less : /\ IsWellFoundedOn(less, Nat)
                /\ \A x, y \in Nat : y < x => <<y, x>> \in less
  <2>1. \A x, y \in Nat : y < x => <<y, x>> \in OpToRel(<, Nat)
    BY DEF OpToRel
  <2> QED
    BY <2>1, NatLessThanWellFounded
<1>2. PICK less : /\ IsWellFoundedOn(less, Nat)
                  /\ \A x, y \in Nat : y < x => <<y, x>> \in less
  BY <1>1
<1>3. \E x \in S : \A y \in S : ~(<<y, x>> \in less)
  BY <1>2, WFMin
<1>4. PICK x \in S : \A y \in S : ~(<<y, x>> \in less)
  BY <1>3
<1>5. \A y \in S : ~(y < x)
  BY <1>2, <1>4
<1> QED
  BY <1>4, <1>5

(* Closing always finds a free name: with as many numbers to try as there   *)
(* are files and one more, two of them would have to name the same file.   *)
LEMMA FreeName ==
  ASSUME NEW start, IsFiniteSet(DOMAIN disk)
  PROVE  /\ FinalPath(start) \notin DOMAIN disk
         /\ IsFinal(FinalPath(start)) /\ Len(FinalPath(start)) = 3
<1> DEFINE C == Cardinality(DOMAIN disk)
           Free == {n \in 0..C : ~Taken(start, n)}
<1>1. C \in Nat
  BY FS_CardinalityType
<1>2. Free # {}
  <2>1. SUFFICES ASSUME \A n \in 0..C : Taken(start, n)
                 PROVE  FALSE
    OBVIOUS
  <2>2. IsFiniteSet(0..C) /\ Cardinality(0..C) = C + 1
    BY <1>1, FS_Interval
  <2>3. PICK name : name = [n \in 0..C |-> <<start, UnixTimeNow, n>>]
    OBVIOUS
  <2>4. name \in [0..C -> DOMAIN disk]
    BY <2>1, <2>3 DEF Taken
  <2>5. Cardinality(DOMAIN disk) < Cardinality(0..C)
    BY <2>2, <1>1
  <2>6. \E x, y \in 0..C : x # y /\ name[x] = name[y]
    BY <2>2, <2>4, <2>5, FS_PigeonHole
  <2> QED
    BY <2>3, <2>6
<1>3. PICK n \in Free : \A m \in Free : n <= m
  <2>1. Free \in SUBSET Nat
    BY <1>1
  <2> HIDE DEF Free
  <2> QED
    BY <1>2, <2>1, Minimum
<1>4. n \in 0..C /\ ~Taken(start, n) /\ \A k \in 0..(n - 1) : Taken(start, k)
  BY <1>1, <1>3
<1>5. PICK k : k = CHOOSE m \in 0..C : ~Taken(start, m) /\ \A j \in 0..(m - 1) : Taken(start, j)
  OBVIOUS
<1>6. ~Taken(start, k)
  BY <1>4, <1>5
<1>7. FinalPath(start) = <<start, UnixTimeNow, k>>
  BY <1>5 DEF FinalPath
<1> QED
  BY <1>6, <1>7 DEF Taken, IsFinal

(* Closing a file gives its messages a name no file has, and leaves the     *)
(* other files as they are.                                                *)
LEMMA RenamedIs ==
  ASSUME IsFiniteSet(DOMAIN disk), NEW path \in DOMAIN disk
  PROVE  \E final :
           /\ final \notin DOMAIN disk /\ IsFinal(final)
           /\ DOMAIN Renamed(path) = (DOMAIN disk \ {path}) \cup {final}
           /\ IsFiniteSet(DOMAIN Renamed(path))
           /\ \A name \in DOMAIN disk \ {path} : Renamed(path)[name] = disk[name]
           /\ Renamed(path)[final] = disk[path]
<1>1. PICK final : final = FinalPath(path[1])
  OBVIOUS
<1>2. final \notin DOMAIN disk /\ IsFinal(final)
  BY <1>1, FreeName
<1>3. Renamed(path) = [name \in (DOMAIN disk \ {path}) \cup {final} |->
                         IF name = final THEN disk[path] ELSE disk[name]]
  BY <1>1 DEF Renamed
<1>4. IsFiniteSet((DOMAIN disk \ {path}) \cup {final})
  BY FS_RemoveElement, FS_AddElement
<1> QED
  BY <1>2, <1>3, <1>4

-----------------------------------------------------------------------------
(* The chain of what is written and what is queued. *)

(* An entry that follows the last one received extends the chain.           *)
LEMMA ChainGrows ==
  ASSUME NEW s \in Seq(Entry), NEW e \in Entry, Chained(s),
         s = <<>> => e.kind # "update",
         s # <<>> => Follows(s[Len(s)], e)
  PROVE  Chained(Append(s, e)) /\ Append(s, e) # <<>> /\ Len(Append(s, e)) = Len(s) + 1
         /\ Append(s, e)[Len(s) + 1] = e
<1>1. /\ Len(Append(s, e)) = Len(s) + 1
      /\ \A i \in 1..Len(s) : Append(s, e)[i] = s[i]
      /\ Append(s, e)[Len(s) + 1] = e
  BY AppendProperties
<1>2. PICK t : t = Append(s, e)
  OBVIOUS
<1>3. Len(s) \in Nat /\ (s = <<>> <=> Len(s) = 0) /\ Len(t) = Len(s) + 1
  BY <1>1, <1>2
<1>4. ASSUME NEW i \in 1..(Len(t) - 1)
      PROVE  Follows(t[i], t[i + 1])
  <2>1. CASE i = Len(s)
    BY <1>1, <1>2, <1>3, <2>1
  <2>2. CASE i # Len(s)
    BY <1>1, <1>2, <1>3, <2>2 DEF Chained
  <2> QED
    BY <2>1, <2>2
<1>5. t[1].kind # "update"
  BY <1>1, <1>2, <1>3 DEF Chained
<1> QED
  BY <1>1, <1>2, <1>3, <1>4, <1>5 DEF Chained

(* What is queued behind a gap starts a chain of its own.                   *)
LEMMA ChainAfterGap ==
  ASSUME NEW w \in Seq(Entry), NEW q \in Seq(Entry), q # <<>>, IsGap(Head(q)),
         Chained(w \o q), EndsAs(w \o q)
  PROVE  Chained(Tail(q)) /\ EndsAs(Tail(q))
<1>1. PICK t : t = Tail(q)
  OBVIOUS
<1>2. PICK s : s = w \o q
  OBVIOUS
<1>3. /\ t \in Seq(Entry) /\ Len(t) = Len(q) - 1 /\ Len(q) > 0
      /\ \A i \in 1..Len(t) : t[i] = q[i + 1]
      /\ Head(q) = q[1]
  BY ONLY <1>1, q \in Seq(Entry), q # <<>>, HeadTailProperties
<1>4. /\ Len(s) = Len(w) + Len(q)
      /\ \A i \in 1..Len(q) : s[Len(w) + i] = q[i]
  BY ONLY <1>2, q \in Seq(Entry), w \in Seq(Entry), ConcatProperties
<1>5. Len(w) \in Nat /\ Len(q) \in Nat /\ Len(t) \in Nat /\ s # <<>> /\ (t = <<>> <=> Len(t) = 0)
  BY <1>2, <1>3
<1>6. \A i \in 1..Len(t) : t[i] = s[Len(w) + 1 + i]
  BY <1>3, <1>4, <1>5
<1>7. \A i \in 1..(Len(s) - 1) : Follows(s[i], s[i + 1])
  BY <1>2 DEF Chained
<1>8. s[Len(w) + 1] = q[1] /\ IsGap(s[Len(w) + 1])
  BY <1>3, <1>4, <1>5
<1>9. ASSUME NEW i \in 1..(Len(t) - 1)
      PROVE  Follows(t[i], t[i + 1])
  <2>1. t[i] = s[Len(w) + 1 + i] /\ t[i + 1] = s[Len(w) + 1 + i + 1]
    BY <1>5, <1>6
  <2>2. Len(w) + 1 + i \in 1..(Len(s) - 1)
    BY <1>3, <1>4, <1>5
  <2> QED
    BY <2>1, <2>2, <1>7
<1>10. ASSUME t # <<>>
       PROVE  t[1].kind # "update"
  <2>1. t[1] = s[Len(w) + 2]
    BY <1>5, <1>6, <1>10
  <2>2. Len(w) + 1 \in 1..(Len(s) - 1)
    BY <1>3, <1>4, <1>5, <1>10
  <2>3. Follows(s[Len(w) + 1], s[Len(w) + 2])
    BY <1>7, <1>5, <2>2
  <2> QED
    BY <1>8, <2>1, <2>3 DEF Follows
<1>11. EndsAs(t)
  <2>1. CASE t = <<>>
    <3>1. Len(s) = Len(w) + 1
      <4>1. Len(t) = 0 /\ Len(t) = Len(q) - 1 /\ Len(s) = Len(w) + Len(q)
        BY <1>3, <1>4, <1>5, <2>1
      <4>2. PICK lq, lt, lw \in Nat : lq = Len(q) /\ lt = Len(t) /\ lw = Len(w)
        BY <1>5
      <4>3. lq = 1 /\ Len(s) = lw + lq
        BY ONLY <4>1, <4>2
      <4> QED
        BY ONLY <4>2, <4>3
    <3>2. stream # "live"
      BY <1>2, <1>5, <1>8, <3>1 DEF EndsAs
    <3> QED
      BY <2>1, <3>2 DEF EndsAs
  <2>2. CASE t # <<>>
    <3>1. t[Len(t)] = s[Len(s)]
      BY <1>3, <1>4, <1>5, <1>6, <2>2
    <3> QED
      BY <1>2, <1>5, <2>2, <3>1 DEF EndsAs
  <2> QED
    BY <2>1, <2>2
<1> QED
  BY <1>1, <1>9, <1>10, <1>11 DEF Chained

(* Writing the first of the queue to the file moves it, and what the file   *)
(* holds remains a stretch.                                                *)
LEMMA StretchGrows ==
  ASSUME NEW w \in Seq(Message), NEW q \in Seq(Entry), q # <<>>, ~IsGap(Head(q)),
         Chained(w \o q), IsStretch(w)
  PROVE  /\ Append(w, Head(q)) \in Seq(Message)
         /\ Append(w, Head(q)) # <<>>
         /\ Append(w, Head(q)) \o Tail(q) = w \o q
         /\ IsStretch(Append(w, Head(q)))
<1>1. w \in Seq(Entry)
  BY DEF Message
<1>2. PICK e : e = Head(q)
  OBVIOUS
<1>3. PICK t : t = Tail(q)
  OBVIOUS
<1>4. PICK s : s = w \o q
  OBVIOUS
<1>5. PICK v : v = Append(w, e)
  OBVIOUS
<1>6. e \in Message
  BY <1>2 DEF Message, IsGap
<1>7. /\ v \in Seq(Message) /\ Len(v) = Len(w) + 1
      /\ \A i \in 1..Len(w) : v[i] = w[i]
      /\ v[Len(w) + 1] = e
  BY ONLY <1>5, <1>6, w \in Seq(Message), AppendProperties
<1>8. /\ t \in Seq(Entry) /\ Len(t) = Len(q) - 1 /\ Len(q) > 0
      /\ \A i \in 1..Len(t) : t[i] = q[i + 1]
      /\ e = q[1]
  BY ONLY <1>2, <1>3, q \in Seq(Entry), q # <<>>, HeadTailProperties
<1>9. /\ s \in Seq(Entry)
      /\ Len(s) = Len(w) + Len(q)
      /\ \A i \in 1..Len(w) : s[i] = w[i]
      /\ \A i \in 1..Len(q) : s[Len(w) + i] = q[i]
  BY ONLY <1>4, q \in Seq(Entry), <1>1, ConcatProperties
<1>10. v \in Seq(Entry)
  BY <1>7 DEF Message
<1>11. PICK u : u = v \o t
  OBVIOUS
<1>12. /\ u \in Seq(Entry)
       /\ Len(u) = Len(v) + Len(t)
       /\ \A i \in 1..Len(v) : u[i] = v[i]
       /\ \A i \in 1..Len(t) : u[Len(v) + i] = t[i]
  <2>1. t \in Seq(Entry)
    BY <1>8
  <2> QED
    BY ONLY <1>11, <2>1, <1>10, ConcatProperties
<1>13. Len(w) \in Nat /\ Len(q) \in Nat /\ Len(t) \in Nat
  BY <1>8, <1>1
<1>14. u = s
  <2>1. Len(u) = Len(s)
    BY <1>7, <1>8, <1>9, <1>12, <1>13
  <2>2. ASSUME NEW i \in 1..Len(s)
        PROVE  u[i] = s[i]
    <3>1. CASE i <= Len(w)
      BY <1>7, <1>9, <1>12, <1>13, <3>1
    <3>2. CASE i = Len(w) + 1
      BY <1>7, <1>8, <1>9, <1>12, <1>13, <3>2
    <3>3. CASE i > Len(w) + 1
      <4>1. PICK j : j = i - Len(w) - 1
        OBVIOUS
      <4>2. j \in 1..Len(t) /\ j + 1 \in 1..Len(q)
        BY <1>8, <1>9, <1>13, <3>3, <4>1
      <4>3. u[Len(v) + j] = t[j] /\ t[j] = q[j + 1] /\ s[Len(w) + (j + 1)] = q[j + 1]
        BY <1>8, <1>9, <1>12, <4>2
      <4>4. Len(v) + j = i /\ Len(w) + (j + 1) = i
        BY <1>7, <1>13, <4>1
      <4> QED
        BY <4>3, <4>4
    <3> QED
      BY <3>1, <3>2, <3>3, <1>13
  <2> QED
    BY ONLY <2>1, <2>2, <1>9, <1>12, SeqEqual
<1>15. IsStretch(v)
  <2>1. CASE w = <<>>
    <3>1. v[1] = e /\ Len(v) = 1 /\ s[1] = e /\ s # <<>>
      BY <1>7, <1>8, <1>9, <1>13, <2>1
    <3>2. e.kind = "snapshot"
      BY <1>4, <1>6, <3>1 DEF Chained, Message, Entry
    <3> QED
      BY <1>6, <3>1, <3>2 DEF IsStretch, Message, Entry
  <2>2. CASE w # <<>>
    <3>1. Len(w) > 0
      BY <2>2
    <3>2. Follows(s[Len(w)], s[Len(w) + 1])
      BY <1>4, <1>8, <1>9, <1>13, <3>1 DEF Chained
    <3>3. s[Len(w)] = w[Len(w)] /\ s[Len(w) + 1] = e /\ v[1] = w[1]
      <4>1. Len(w) \in 1..Len(w) /\ 1 \in 1..Len(w) /\ 1 \in 1..Len(q)
        BY <3>1, <1>8, <1>13
      <4>2. s[Len(w)] = w[Len(w)] /\ v[1] = w[1]
        BY <1>7, <1>9, <4>1
      <4>3. s[Len(w) + 1] = e
        BY <1>8, <1>9, <4>1
      <4> QED
        BY <4>2, <4>3
    <3>4. w[Len(w)] \in Message /\ w[1] \in Message
      BY <3>1
    <3>5. ~IsGap(w[Len(w)]) /\ ~IsGap(e) /\ w[1].n \in Nat /\ e.n \in Nat
      BY <1>6, <3>4 DEF Message, IsGap, Entry
    <3>6. e.n = w[Len(w)].n + 1 /\ e.epoch = w[Len(w)].epoch
      BY <3>2, <3>3, <3>5 DEF Follows
    <3>7. /\ w[1].kind = "snapshot"
          /\ \A i \in 1..Len(w) : w[i].n = w[1].n + i - 1 /\ w[i].epoch = w[1].epoch
      BY <2>2 DEF IsStretch
    <3>8. e.n = w[1].n + (Len(w) + 1) - 1 /\ e.epoch = w[1].epoch
      <4>1. PICK l : l = Len(w)
        OBVIOUS
      <4>2. l \in 1..l /\ l \in Nat
        BY <3>1, <1>13, <4>1
      <4>3. w[l].n = w[1].n + l - 1 /\ w[l].epoch = w[1].epoch
        BY <3>7, <4>1, <4>2
      <4>4. e.n = w[l].n + 1 /\ e.epoch = w[l].epoch
        BY <3>6, <4>1
      <4> QED
        BY ONLY <4>1, <4>2, <4>3, <4>4, <3>5
    <3>9. ASSUME NEW i \in 1..Len(v)
          PROVE  v[i].n = v[1].n + i - 1 /\ v[i].epoch = v[1].epoch
      <4>1. CASE i \in 1..Len(w)
        BY <1>7, <3>3, <3>7, <4>1
      <4>2. CASE i = Len(w) + 1
        BY <1>7, <3>3, <3>8, <4>2
      <4> QED
        BY <1>7, <1>13, <4>1, <4>2
    <3> QED
      BY <3>3, <3>7, <3>9 DEF IsStretch
  <2> QED
    BY <2>1, <2>2
<1>16. v # <<>>
  BY <1>7, <1>13
<1> QED
  BY <1>2, <1>3, <1>4, <1>5, <1>7, <1>11, <1>14, <1>15, <1>16

-----------------------------------------------------------------------------
(* What a change of the files keeps. *)

(* The rename of a closing file loses no message and empties no file.       *)
LEMMA RenameKeeps ==
  ASSUME DiskType, output \in DOMAIN disk, disk' = Renamed(output), writer' = writer
  PROVE  /\ DiskType'
         /\ OneEmpty => OneEmpty'
         /\ Stretches => Stretches'
         /\ OnDisk \subseteq OnDisk'
         /\ (\A name \in DOMAIN disk : IsFinal(name) \/ name = output)
              => \A name \in DOMAIN disk' : IsFinal(name)
         /\ \A name \in DOMAIN disk' :
              disk'[name] = disk[output] \/ (name # output /\ name \in DOMAIN disk /\ disk'[name] = disk[name])
<1>1. PICK final :
           /\ final \notin DOMAIN disk /\ IsFinal(final)
           /\ DOMAIN disk' = (DOMAIN disk \ {output}) \cup {final}
           /\ IsFiniteSet(DOMAIN disk')
           /\ \A name \in DOMAIN disk \ {output} : disk'[name] = disk[name]
           /\ disk'[final] = disk[output]
  BY RenamedIs DEF DiskType
<1>2. final # None
  BY <1>1 DEF IsFinal, None
<1>3. \A name \in DOMAIN disk' :
        disk'[name] = disk[output] \/ (name # output /\ name \in DOMAIN disk /\ disk'[name] = disk[name])
  BY <1>1
<1>4. DiskType'
  <2>1. None \notin DOMAIN disk'
    BY <1>1, <1>2 DEF DiskType
  <2>2. \A name \in DOMAIN disk' : disk'[name] \in File /\ disk'[name].writer <= writer
    BY <1>3 DEF DiskType
  <2> QED
    BY <1>1, <2>1, <2>2 DEF DiskType, None
<1>5. ASSUME OneEmpty
      PROVE  OneEmpty'
  <2>1. SUFFICES ASSUME NEW a \in DOMAIN disk', NEW b \in DOMAIN disk',
                        disk'[a].writer = disk'[b].writer,
                        disk'[a].messages = <<>>, disk'[b].messages = <<>>
                 PROVE  a = b
    BY DEF OneEmpty
  <2>2. CASE a = final /\ b = final
    BY <2>2
  <2>3. CASE a = final /\ b # final
    BY <1>1, <1>5, <2>1, <2>3 DEF OneEmpty
  <2>4. CASE a # final /\ b = final
    BY <1>1, <1>5, <2>1, <2>4 DEF OneEmpty
  <2>5. CASE a # final /\ b # final
    BY <1>1, <1>5, <2>1, <2>5 DEF OneEmpty
  <2> QED
    BY <2>2, <2>3, <2>4, <2>5
<1>6. Stretches => Stretches'
  BY <1>3 DEF Stretches, IsStretch
<1>7. OnDisk \subseteq OnDisk'
  <2>1. SUFFICES ASSUME NEW x \in OnDisk
                 PROVE  x \in OnDisk'
    OBVIOUS
  <2>2. PICK name \in DOMAIN disk : x \in {disk[name].messages[i].n : i \in 1..Len(disk[name].messages)}
    BY <2>1 DEF OnDisk
  <2>3. PICK new \in DOMAIN disk' : disk'[new] = disk[name]
    BY <1>1
  <2>4. x \in {disk'[new].messages[i].n : i \in 1..Len(disk'[new].messages)}
    BY <2>2, <2>3
  <2> QED
    BY <2>4 DEF OnDisk
<1> QED
  BY <1>1, <1>3, <1>4, <1>5, <1>6, <1>7

(* A file that is created under a name no file has, or that grows at its    *)
(* end, loses no message.                                                  *)
LEMMA PutKeeps ==
  ASSUME DiskType, writer \in Nat, writer' \in Nat, writer <= writer',
         NEW path, path # None, NEW file \in File, file.writer <= writer',
         disk' = Put(disk, path, file)
  PROVE  /\ DiskType'
         /\ Stretches /\ IsStretch(file.messages) => Stretches'
         /\ (path \in DOMAIN disk =>
               /\ Len(disk[path].messages) <= Len(file.messages)
               /\ \A i \in 1..Len(disk[path].messages) :
                    file.messages[i] = disk[path].messages[i])
              => OnDisk \subseteq OnDisk'
         /\ DOMAIN disk' = DOMAIN disk \cup {path}
         /\ disk'[path] = file
         /\ \A name \in DOMAIN disk : name # path => disk'[name] = disk[name]
<1>1. /\ DOMAIN disk' = DOMAIN disk \cup {path}
      /\ IsFiniteSet(DOMAIN disk')
      /\ disk'[path] = file
      /\ \A name \in DOMAIN disk : name # path => disk'[name] = disk[name]
  <2>1. IsFiniteSet(DOMAIN disk)
    BY DEF DiskType
  <2>2. disk' = [y \in DOMAIN disk \cup {path} |-> IF y = path THEN file ELSE disk[y]]
    BY DEF Put
  <2>3. IsFiniteSet(DOMAIN disk \cup {path})
    BY <2>1, FS_AddElement
  <2> QED
    BY <2>2, <2>3
<1>2. \A name \in DOMAIN disk' : disk'[name] \in File /\ disk'[name].writer <= writer'
  <2>1. SUFFICES ASSUME NEW name \in DOMAIN disk'
                 PROVE  disk'[name] \in File /\ disk'[name].writer <= writer'
    OBVIOUS
  <2>2. CASE name = path
    BY <1>1, <2>2
  <2>3. CASE name # path
    <3>1. disk'[name] = disk[name] /\ disk[name] \in File /\ disk[name].writer <= writer
      BY <1>1, <2>3 DEF DiskType
    <3>2. disk[name].writer \in Nat
      BY <3>1 DEF File
    <3> QED
      BY <3>1, <3>2
  <2> QED
    BY <2>2, <2>3
<1>3. DiskType'
  BY <1>1, <1>2 DEF DiskType, None
<1>4. Stretches /\ IsStretch(file.messages) => Stretches'
  BY <1>1 DEF Stretches, IsStretch
<1>5. ASSUME path \in DOMAIN disk =>
               /\ Len(disk[path].messages) <= Len(file.messages)
               /\ \A i \in 1..Len(disk[path].messages) :
                    file.messages[i] = disk[path].messages[i]
      PROVE  OnDisk \subseteq OnDisk'
  <2> SUFFICES ASSUME NEW x \in OnDisk
               PROVE  x \in OnDisk'
    OBVIOUS
  <2>1. PICK name \in DOMAIN disk : x \in {disk[name].messages[i].n : i \in 1..Len(disk[name].messages)}
    BY DEF OnDisk
  <2>2. CASE name # path
    <3>1. name \in DOMAIN disk' /\ disk'[name] = disk[name]
      BY <1>1, <2>2
    <3>2. x \in {disk'[name].messages[i].n : i \in 1..Len(disk'[name].messages)}
      BY <2>1, <3>1
    <3> QED
      BY <3>1, <3>2 DEF OnDisk
  <2>3. CASE name = path
    <3>1. PICK i \in 1..Len(disk[path].messages) : x = disk[path].messages[i].n
      BY <2>1, <2>3
    <3>2. Len(disk[path].messages) \in Nat /\ Len(file.messages) \in Nat
      BY <2>3 DEF File, DiskType
    <3>3. i \in 1..Len(file.messages) /\ x = file.messages[i].n
      BY <1>5, <2>3, <3>1, <3>2
    <3>4. x \in {disk'[path].messages[j].n : j \in 1..Len(disk'[path].messages)}
      BY <1>1, <3>3
    <3> QED
      BY <1>1, <3>4 DEF OnDisk
  <2> QED
    BY <2>2, <2>3
<1> QED
  BY <1>1, <1>3, <1>4, <1>5

(* An entry that is queued hides none.                                      *)
LEMMA QueueGrows ==
  ASSUME queue \in Seq(Entry), NEW e \in Entry, queue' = Append(queue, e)
  PROVE  /\ queue' \in Seq(Entry)
         /\ Queued \subseteq Queued'
         /\ ~IsGap(e) => e.n \in Queued'
<1>1. /\ queue' \in Seq(Entry) /\ Len(queue') = Len(queue) + 1
      /\ \A i \in 1..Len(queue) : queue'[i] = queue[i]
      /\ queue'[Len(queue) + 1] = e
  BY AppendProperties
<1>2. Len(queue) \in Nat
  OBVIOUS
<1>3. ASSUME NEW x \in Queued
      PROVE  x \in Queued'
  <2>1. PICK i \in 1..Len(queue) : ~IsGap(queue[i]) /\ x = queue[i].n
    BY <1>3 DEF Queued
  <2>2. i \in 1..Len(queue') /\ ~IsGap(queue'[i]) /\ x = queue'[i].n
    BY <1>1, <1>2, <2>1 DEF IsGap
  <2> QED
    BY <2>2 DEF Queued, IsGap
<1>4. ASSUME ~IsGap(e)
      PROVE  e.n \in Queued'
  <2>1. Len(queue) + 1 \in 1..Len(queue')
    BY <1>1, <1>2
  <2>2. ~IsGap(queue'[Len(queue) + 1]) /\ e.n = queue'[Len(queue) + 1].n
    BY <1>1, <1>4 DEF IsGap
  <2> QED
    BY <2>1, <2>2 DEF Queued, IsGap
<1> QED
  BY <1>1, <1>3, <1>4

(* Only the entry that is consumed leaves the queue.                        *)
LEMMA QueueShrinks ==
  ASSUME queue \in Seq(Entry), queue # <<>>, queue' = Tail(queue)
  PROVE  /\ queue' \in Seq(Entry)
         /\ \A x \in Queued : x \in Queued' \/ (~IsGap(Head(queue)) /\ x = Head(queue).n)
<1>1. /\ queue' \in Seq(Entry) /\ Len(queue') = Len(queue) - 1 /\ Len(queue) > 0
      /\ \A i \in 1..Len(queue') : queue'[i] = queue[i + 1]
      /\ Head(queue) = queue[1]
  BY HeadTailProperties
<1>2. Len(queue) \in Nat
  OBVIOUS
<1>3. ASSUME NEW x \in Queued
      PROVE  x \in Queued' \/ (~IsGap(Head(queue)) /\ x = Head(queue).n)
  <2>1. PICK i \in 1..Len(queue) : ~IsGap(queue[i]) /\ x = queue[i].n
    BY <1>3 DEF Queued
  <2>2. CASE i = 1
    BY <1>1, <2>1, <2>2
  <2>3. CASE i # 1
    <3>1. PICK j : j = i - 1
      OBVIOUS
    <3>2. j \in 1..Len(queue') /\ j + 1 = i
      BY <1>1, <1>2, <2>3, <3>1
    <3>3. ~IsGap(queue'[j]) /\ x = queue'[j].n
      BY <1>1, <2>1, <3>2 DEF IsGap
    <3> QED
      BY <3>2, <3>3 DEF Queued, IsGap
  <2> QED
    BY <2>2, <2>3
<1> QED
  BY <1>1, <1>3

-----------------------------------------------------------------------------
(* The steps. *)

(* The clock: no name depends on it before it is taken.                     *)
LEMMA TickStep ==
  ASSUME IInv, Tick
  PROVE  IInv'
<1> USE DEF IInv, Tick, fileVars, streamVars
<1>1. TypeInv'
  BY DEF TypeInv, DiskType
<1>2. OpenInv' /\ EmptyInv' /\ Stretches'
  BY DEF OpenInv, EmptyInv, OneEmpty, Stretches, IsStretch
<1>3. ChainInv'
  BY DEF ChainInv, Coming, Written, Chained, EndsAs, Follows, IsGap
<1>4. KeptInv'
  BY DEF KeptInv, OnDisk, Queued, IsGap
<1> QED
  BY <1>1, <1>2, <1>3, <1>4

(* The destructor begins.                                                   *)
LEMMA DestroyStep ==
  ASSUME IInv, Destroy
  PROVE  IInv'
<1> USE DEF IInv, Destroy, fileVars, streamVars
<1>1. TypeInv'
  BY DEF TypeInv, DiskType
<1>2. OpenInv' /\ EmptyInv' /\ Stretches'
  BY DEF OpenInv, EmptyInv, OneEmpty, Stretches, IsStretch
<1>3. ChainInv'
  BY DEF ChainInv, Coming, Written, Chained, EndsAs, Follows, IsGap
<1>4. KeptInv'
  BY DEF KeptInv, OnDisk, Queued, IsGap
<1> QED
  BY <1>1, <1>2, <1>3, <1>4

(* The thread ends once everything queued is written.                       *)
LEMMA ReturnStep ==
  ASSUME IInv, Return
  PROVE  IInv'
<1> USE DEF IInv, Return, Drained, fileVars, streamVars
<1>1. TypeInv'
  BY DEF TypeInv, DiskType
<1>2. OpenInv' /\ EmptyInv' /\ Stretches'
  BY DEF OpenInv, EmptyInv, OneEmpty, Stretches, IsStretch
<1>3. ChainInv'
  BY DEF ChainInv
<1>4. KeptInv'
  BY DEF KeptInv, OnDisk, Queued, IsGap
<1> QED
  BY <1>1, <1>2, <1>3, <1>4

(* The next recording of the pair begins with a file of its own.            *)
LEMMA ConstructStep ==
  ASSUME IInv, Construct
  PROVE  IInv'
<1>1. /\ thread = "none" /\ writer' = writer + 1
      /\ disk' = Put(disk, <<now>>, OpenedFile)
      /\ output' = <<now>> /\ inFile' = 0
      /\ thread' = "running" /\ failed' = FALSE
      /\ stream' = "fresh" /\ epoch' = epoch + 1
      /\ now' = now /\ stopping' = stopping /\ queue' = queue
      /\ received' = received /\ faults' = faults
  BY DEF Construct
<1>2. output = None /\ queue = <<>> /\ queue' = <<>>
  BY <1>1 DEF IInv, OpenInv
<1>3. DiskType /\ writer \in Nat /\ writer' \in Nat /\ writer <= writer'
  BY <1>1 DEF IInv, TypeInv
<1>4. PICK file : file = [writer |-> writer + 1, messages |-> <<>>]
  OBVIOUS
<1>5. file \in File /\ file.writer = writer' /\ file.messages = <<>> /\ OpenedFile = file
  BY <1>1, <1>3, <1>4 DEF File, OpenedFile
<1>6. PICK path : path = <<now>>
  OBVIOUS
<1>7. path # None /\ Len(path) = 1 /\ ~IsFinal(path)
  BY <1>6 DEF None, IsFinal
<1>8. disk' = Put(disk, path, file)
  BY <1>1, <1>5, <1>6
<1>9. file.writer <= writer'
  BY <1>3, <1>5
<1>10. /\ DiskType'
       /\ Stretches /\ IsStretch(file.messages) => Stretches'
       /\ path \notin DOMAIN disk => OnDisk \subseteq OnDisk'
       /\ DOMAIN disk' = DOMAIN disk \cup {path}
       /\ disk'[path] = file
       /\ \A name \in DOMAIN disk : name # path => disk'[name] = disk[name]
  BY <1>3, <1>5, <1>7, <1>8, <1>9, PutKeeps
<1>11. TypeInv'
  <2>1. TypeInv
    BY DEF IInv
  <2>2. writer' \in Nat /\ epoch' \in Nat
    BY <1>1, <2>1 DEF TypeInv
  <2>3. queue' \in Seq(Entry)
    BY <1>1, <2>1 DEF TypeInv
  <2> QED
    BY ONLY <1>1, <1>10, <2>1, <2>2, <2>3 DEF TypeInv
<1>12. OpenInv'
  BY <1>1, <1>5, <1>6, <1>7, <1>10 DEF OpenInv, None
<1>13. EmptyInv'
  <2>1. ASSUME NEW name \in DOMAIN disk', name # path
        PROVE  disk'[name] = disk[name] /\ disk'[name].writer # writer' /\ name \in DOMAIN disk
    <3>1. disk'[name] = disk[name] /\ disk[name] \in File /\ disk[name].writer <= writer
      BY <1>3, <1>10, <2>1 DEF DiskType
    <3>2. disk[name].writer \in Nat
      BY <3>1 DEF File
    <3> QED
      BY <1>1, <1>3, <1>10, <2>1, <3>1, <3>2
  <2>2. \A name \in DOMAIN disk' :
          disk'[name].writer = writer' /\ name # output' => disk'[name].messages # <<>>
    BY <1>1, <1>6, <2>1
  <2>3. OneEmpty'
    <3>1. SUFFICES ASSUME NEW a \in DOMAIN disk', NEW b \in DOMAIN disk',
                          disk'[a].writer = disk'[b].writer,
                          disk'[a].messages = <<>>, disk'[b].messages = <<>>
                   PROVE  a = b
      BY DEF OneEmpty
    <3>2. OneEmpty
      BY DEF IInv, EmptyInv
    <3> QED
      BY <1>5, <1>10, <2>1, <3>1, <3>2 DEF OneEmpty
  <2> QED
    BY <2>2, <2>3 DEF EmptyInv
<1>14. Stretches'
  BY <1>5, <1>10 DEF IInv, IsStretch
<1>15. ChainInv'
  <2>1. Written' = <<>>
    BY <1>1, <1>5, <1>6, <1>7, <1>10 DEF Written, None
  <2>2. Coming' = <<>>
    BY <1>2, <2>1 DEF Coming
  <2>3. PICK s : s = <<>>
    OBVIOUS
  <2>4. Chained(s) /\ Len(s) = 0
    BY <2>3 DEF Chained
  <2>5. Chained(Coming)'
    BY <2>2, <2>3, <2>4 DEF Chained, Follows, IsGap
  <2>6. EndsAs(Coming)'
    BY <1>1, <2>2 DEF EndsAs
  <2> QED
    BY <2>5, <2>6 DEF ChainInv
<1>16. KeptInv'
  <2>1. SUFFICES ASSUME faults = 0
                 PROVE  /\ \A name \in DOMAIN disk' : IsFinal(name) \/ name = output'
                        /\ 1..received \subseteq OnDisk' \cup Queued'
    BY <1>1 DEF KeptInv, IsFinal
  <2>2. \A name \in DOMAIN disk : IsFinal(name)
    <3>1. \A name \in DOMAIN disk : name # None
      BY <1>3 DEF DiskType
    <3> QED
      BY <1>2, <2>1, <3>1 DEF IInv, KeptInv
  <2>3. OnDisk \subseteq OnDisk'
    BY <1>7, <1>10, <2>2
  <2>4. Queued' = Queued
    BY <1>1 DEF Queued, IsGap
  <2> QED
    BY <1>1, <1>6, <1>10, <2>1, <2>2, <2>3, <2>4 DEF IInv, KeptInv
<1> QED
  BY <1>11, <1>12, <1>13, <1>14, <1>15, <1>16 DEF IInv

(* The destructor closes the last file, unless its rename fails.            *)
LEMMA JoinedStep ==
  ASSUME IInv, Joined
  PROVE  IInv'
<1>1. /\ thread \in {"returned", "failed"}
      /\ output' = None /\ thread' = "none" /\ stopping' = FALSE /\ queue' = <<>>
      /\ now' = now /\ writer' = writer /\ failed' = failed /\ inFile' = inFile
      /\ received' = received /\ stream' = stream /\ epoch' = epoch
  BY DEF Joined, streamVars
<1>2. \/ disk' = ClosedByDestructor /\ faults' = faults
      \/ disk' = disk /\ faults' = faults + 1
  BY DEF Joined
<1>3. TypeInv /\ OpenInv /\ EmptyInv /\ Stretches /\ KeptInv /\ DiskType /\ OneEmpty
  BY DEF IInv, TypeInv, EmptyInv
<1>4. faults \in Nat /\ faults' \in Nat /\ (failed => faults' > 0) /\ (faults' = 0 => faults = 0 /\ disk' = ClosedByDestructor)
  BY <1>2, <1>3 DEF TypeInv, OpenInv
<1>5. /\ DiskType' /\ OneEmpty' /\ Stretches' /\ OnDisk \subseteq OnDisk'
      /\ disk' = ClosedByDestructor =>
           ((\A name \in DOMAIN disk : IsFinal(name) \/ (name = output /\ output # None))
              => \A name \in DOMAIN disk' : IsFinal(name))
  <2>1. CASE disk' = disk
    <3>1. DiskType' /\ OneEmpty' /\ Stretches' /\ OnDisk \subseteq OnDisk'
      BY <1>1, <1>3, <2>1 DEF DiskType, OneEmpty, Stretches, IsStretch, OnDisk
    <3>2. CASE output = None
      BY <2>1, <3>1, <3>2
    <3>3. CASE output # None /\ disk' = ClosedByDestructor
      <4>1. output \in DOMAIN disk /\ disk' = Renamed(output)
        BY <1>3, <3>3 DEF OpenInv, ClosedByDestructor
      <4> QED
        BY <1>1, <1>3, <3>1, <4>1, RenameKeeps
    <3> QED
      BY <3>1, <3>2, <3>3
  <2>2. CASE disk' # disk
    <3>1. output # None /\ disk' = Renamed(output)
      BY <1>2, <2>2 DEF ClosedByDestructor
    <3>2. output \in DOMAIN disk
      BY <1>3, <3>1 DEF OpenInv
    <3> QED
      BY <1>1, <1>3, <3>1, <3>2, RenameKeeps
  <2> QED
    BY <2>1, <2>2
<1>6. TypeInv'
  <2>1. queue' \in Seq(Entry)
    BY <1>1
  <2> QED
    BY ONLY <1>1, <1>3, <1>4, <1>5, <2>1 DEF TypeInv
<1>7. OpenInv'
  BY <1>1, <1>4 DEF OpenInv, None
<1>8. EmptyInv'
  BY <1>1, <1>5 DEF EmptyInv
<1>9. ChainInv'
  BY <1>1 DEF ChainInv
<1>10. KeptInv'
  <2>1. SUFFICES ASSUME faults' = 0
                 PROVE  /\ \A name \in DOMAIN disk' : IsFinal(name) \/ name = output'
                        /\ 1..received \subseteq OnDisk' \cup Queued'
    BY <1>1 DEF KeptInv, IsFinal
  <2>2. faults = 0 /\ disk' = ClosedByDestructor /\ ~failed
    BY <1>1, <1>4, <2>1
  <2>3. Queued = {}
    <3>1. queue = <<>>
      BY <1>1, <1>3, <2>2 DEF OpenInv
    <3> QED
      BY <3>1 DEF Queued
  <2>4. \A name \in DOMAIN disk : IsFinal(name) \/ (name = output /\ output # None)
    BY <1>3, <2>2 DEF KeptInv, DiskType
  <2>5. 1..received \subseteq OnDisk \cup Queued
    BY <1>3, <2>2 DEF KeptInv
  <2> QED
    BY <1>5, <2>2, <2>3, <2>4, <2>5
<1> QED
  BY <1>5, <1>6, <1>7, <1>8, <1>9, <1>10 DEF IInv

(* What is received while the thread runs is queued.                        *)
LEMMA ReceivedStep ==
  ASSUME IInv, NEW e \in Entry, Push(e), thread \in {"running", "failed"},
         received' = (IF IsGap(e) THEN received ELSE received + 1),
         e.n = received', e.epoch = epoch,
         epoch' = (IF IsGap(e) THEN epoch + 1 ELSE epoch),
         stream' = (IF IsGap(e) THEN "gap" ELSE "live"),
         e.kind = "update" => stream = "live",
         UNCHANGED <<now, writer, thread, stopping, failed, fileVars, faults>>
  PROVE  IInv'
<1>1. /\ now' = now /\ writer' = writer /\ thread' = thread /\ stopping' = stopping
      /\ failed' = failed /\ disk' = disk /\ output' = output /\ inFile' = inFile /\ faults' = faults
  BY DEF fileVars
<1>2. TypeInv /\ OpenInv /\ EmptyInv /\ Stretches /\ ChainInv /\ KeptInv /\ DiskType
  BY DEF IInv, TypeInv
<1>3. queue \in Seq(Entry)
  BY <1>2 DEF TypeInv
<1>4. queue' = Append(queue, e) \/ (failed /\ queue' = queue)
  BY DEF Push
<1>5. queue' = Append(queue, e) =>
        queue' \in Seq(Entry) /\ Queued \subseteq Queued' /\ (~IsGap(e) => e.n \in Queued')
  BY <1>3, QueueGrows
<1>6. TypeInv'
  <2>1. queue' \in Seq(Entry)
    BY <1>3, <1>4, <1>5
  <2>2. received' \in Nat /\ epoch' \in Nat /\ stream' \in {"fresh", "live", "gap"}
    BY <1>2 DEF TypeInv
  <2>3. DiskType'
    BY <1>1, <1>2 DEF DiskType
  <2> QED
    BY ONLY <1>1, <1>2, <2>1, <2>2, <2>3 DEF TypeInv
<1>7. OpenInv'
  BY <1>1, <1>2 DEF OpenInv
<1>8. EmptyInv' /\ Stretches'
  BY <1>1, <1>2 DEF EmptyInv, OneEmpty, Stretches, IsStretch
<1>9. ChainInv'
  <2>1. SUFFICES ASSUME thread = "running"
                 PROVE  Chained(Coming)' /\ EndsAs(Coming)'
    BY <1>1 DEF ChainInv
  <2>2. queue' = Append(queue, e)
    BY <1>2, <1>4, <2>1 DEF OpenInv
  <2>3. PICK w : w = Written
    OBVIOUS
  <2>4. w \in Seq(Entry) /\ Written' = w
    <3>1. Written' = Written
      BY <1>1 DEF Written
    <3>2. CASE output = None
      BY <2>3, <3>1, <3>2 DEF Written
    <3>3. CASE output # None
      <4>1. disk[output] \in File
        BY <1>2, <3>3 DEF OpenInv, DiskType
      <4>2. w = disk[output].messages
        BY <2>3, <3>3 DEF Written
      <4> QED
        BY <2>3, <3>1, <4>1, <4>2 DEF File, Message
    <3> QED
      BY <3>2, <3>3
  <2>5. PICK s : s = w \o queue
    OBVIOUS
  <2>6. s \in Seq(Entry) /\ Coming = s /\ Chained(s) /\ EndsAs(s)
    BY <1>2, <1>3, <2>1, <2>3, <2>4, <2>5 DEF ChainInv, Coming
  <2>7. Coming' = Append(s, e)
    <3>1. w \o Append(queue, e) = Append(w \o queue, e)
      BY ONLY <1>3, <2>4, e \in Entry
    <3> QED
      BY <2>2, <2>4, <2>5, <3>1 DEF Coming
  <2>8. s = <<>> => e.kind # "update"
    BY <2>6 DEF EndsAs
  <2>9. ASSUME s # <<>>
        PROVE  Follows(s[Len(s)], e)
    <3>1. s[Len(s)] \in Entry
      BY <2>6, <2>9
    <3> QED
      BY <2>6, <2>9, <3>1 DEF EndsAs, Follows, IsGap, Entry
  <2>10. PICK t : t = Append(s, e)
    OBVIOUS
  <2>11. Chained(t) /\ t # <<>> /\ Len(t) = Len(s) + 1 /\ t[Len(s) + 1] = e
    BY <2>6, <2>8, <2>9, <2>10, ChainGrows
  <2>12. t[Len(t)] = e
    BY <2>11
  <2>13. Coming' = t
    BY <2>7, <2>10
  <2>14. Chained(Coming)'
    BY <2>11, <2>13 DEF Chained, Follows, IsGap
  <2>15. EndsAs(Coming)'
    BY <2>11, <2>12, <2>13 DEF EndsAs, IsGap
  <2> QED
    BY <2>14, <2>15
<1>10. KeptInv'
  <2>1. SUFFICES ASSUME faults = 0
                 PROVE  /\ \A name \in DOMAIN disk : IsFinal(name) \/ name = output
                        /\ 1..received' \subseteq OnDisk \cup Queued'
    BY <1>1 DEF KeptInv, IsFinal, OnDisk
  <2>2. ~failed
    BY <1>2, <2>1 DEF OpenInv
  <2>3. Queued \subseteq Queued' /\ (~IsGap(e) => received' \in Queued')
    BY <1>4, <1>5, <2>2
  <2>4. 1..received \subseteq OnDisk \cup Queued
    BY <1>2, <2>1 DEF KeptInv
  <2>5. received \in Nat
    BY <1>2 DEF TypeInv
  <2>6. 1..received' \subseteq OnDisk \cup Queued'
    <3>1. CASE IsGap(e)
      BY <2>3, <2>4, <3>1
    <3>2. CASE ~IsGap(e)
      BY <2>3, <2>4, <2>5, <3>2
    <3> QED
      BY <3>1, <3>2
  <2> QED
    BY <1>2, <2>1, <2>6 DEF KeptInv
<1> QED
  BY <1>6, <1>7, <1>8, <1>9, <1>10 DEF IInv

(* A snapshot comes at any time, an update only of a live stream.           *)
LEMMA ReceiveStep ==
  ASSUME IInv, NEW kind \in {"snapshot", "update"}, Receive(kind)
  PROVE  IInv'
<1>1. PICK e : e = [kind |-> kind, n |-> received + 1, epoch |-> epoch]
  OBVIOUS
<1>2. received \in Nat /\ epoch \in Nat
  BY DEF IInv, TypeInv
<1>3. e \in Entry /\ ~IsGap(e)
  BY <1>1, <1>2 DEF Entry, IsGap
<1>4. /\ Push(e) /\ thread \in {"running", "failed"}
      /\ received' = received + 1 /\ epoch' = epoch /\ stream' = "live"
      /\ e.kind = "update" => stream = "live"
      /\ UNCHANGED <<now, writer, thread, stopping, failed, fileVars, faults>>
  BY <1>1 DEF Receive, CanReceive
<1>5. e.n = received' /\ e.epoch = epoch
  BY <1>1, <1>4
<1> QED
  BY <1>3, <1>4, <1>5, ReceivedStep

(* A gap follows what was received, and the stream begins again after it.   *)
LEMMA OnGapStep ==
  ASSUME IInv, OnGap
  PROVE  IInv'
<1>1. PICK e : e = [kind |-> "gap", n |-> received, epoch |-> epoch]
  OBVIOUS
<1>2. received \in Nat /\ epoch \in Nat
  BY DEF IInv, TypeInv
<1>3. e \in Entry /\ IsGap(e) /\ e.kind # "update"
  BY <1>1, <1>2 DEF Entry, IsGap
<1>4. /\ Push(e) /\ thread \in {"running", "failed"}
      /\ received' = received /\ epoch' = epoch + 1 /\ stream' = "gap"
      /\ UNCHANGED <<now, writer, thread, stopping, failed, fileVars, faults>>
  BY <1>1 DEF OnGap, CanReceive
<1>5. e.n = received' /\ e.epoch = epoch
  BY <1>1, <1>4
<1> QED
  BY <1>3, <1>4, <1>5, ReceivedStep

(* What the open file holds.                                                *)
LEMMA WrittenIs ==
  ASSUME IInv
  PROVE  /\ Written \in Seq(Message) /\ Written \in Seq(Entry)
         /\ IsStretch(Written)
         /\ output # None => output \in DOMAIN disk /\ Written = disk[output].messages
         /\ thread = "running" /\ ~ClosesFile => (output # None => Written = <<>>)
<1>1. CASE output = None
  BY <1>1 DEF Written, IsStretch
<1>2. CASE output # None
  <2>1. output \in DOMAIN disk /\ Written = disk[output].messages
    BY <1>2 DEF IInv, OpenInv, Written
  <2>2. disk[output] \in File
    BY <2>1 DEF IInv, TypeInv, DiskType
  <2>3. Written \in Seq(Message)
    BY <2>1, <2>2 DEF File
  <2>4. Written \in Seq(Entry)
    BY <2>3 DEF Message
  <2>5. IsStretch(Written)
    BY <2>1 DEF IInv, Stretches
  <2>6. ASSUME thread = "running", ~ClosesFile
        PROVE  Written = <<>>
    <3>1. inFile = Len(disk[output].messages) /\ inFile \in Nat
      BY <1>2, <2>6 DEF IInv, OpenInv, TypeInv
    <3>2. Len(Written) = 0
      BY <1>2, <2>1, <2>6, <3>1 DEF ClosesFile
    <3> QED
      BY <2>3, <3>2
  <2> QED
    BY <1>2, <2>1, <2>3, <2>4, <2>5, <2>6
<1> QED
  BY <1>1, <1>2

(* A gap ends the stretch of the open file, and what comes next starts one. *)
LEMMA ConsumeGapStep ==
  ASSUME IInv, ConsumeGap
  PROVE  IInv'
<1>1. /\ thread = "running" /\ queue # <<>> /\ IsGap(Head(queue))
      /\ queue' = Tail(queue)
      /\ now' = now /\ writer' = writer /\ thread' = thread /\ stopping' = stopping
      /\ failed' = failed /\ received' = received /\ stream' = stream /\ epoch' = epoch
      /\ faults' = faults /\ inFile' = inFile
  BY DEF ConsumeGap, writerUnchanged, streamVars
<1>2. /\ ClosesFile => disk' = Renamed(output) /\ output' = None
      /\ ~ClosesFile => disk' = disk /\ output' = output
  BY DEF ConsumeGap
<1>3. TypeInv /\ OpenInv /\ EmptyInv /\ Stretches /\ ChainInv /\ KeptInv /\ DiskType /\ OneEmpty
  BY DEF IInv, TypeInv, EmptyInv
<1>4. queue \in Seq(Entry)
  BY <1>3 DEF TypeInv
<1>5. queue' \in Seq(Entry) /\ Queued \subseteq Queued'
  BY <1>1, <1>4, QueueShrinks
<1>6. ASSUME ClosesFile
      PROVE  /\ output \in DOMAIN disk /\ output # None
             /\ disk[output].messages # <<>>
             /\ disk' = Renamed(output) /\ output' = None
  <2>1. output # None /\ inFile > 0
    BY <1>6 DEF ClosesFile
  <2>2. output \in DOMAIN disk /\ inFile = Len(disk[output].messages)
    BY <1>1, <1>3, <2>1 DEF OpenInv
  <2>3. disk[output].messages # <<>>
    BY <2>1, <2>2
  <2> QED
    BY <1>2, <1>6, <2>1, <2>2, <2>3
<1>7. DiskType' /\ OneEmpty' /\ Stretches' /\ OnDisk \subseteq OnDisk'
  <2>1. CASE ClosesFile
    BY <1>1, <1>3, <1>6, <2>1, RenameKeeps
  <2>2. CASE ~ClosesFile
    BY <1>1, <1>2, <1>3, <2>2 DEF DiskType, OneEmpty, Stretches, IsStretch, OnDisk
  <2> QED
    BY <2>1, <2>2
<1>8. TypeInv'
  BY ONLY <1>1, <1>3, <1>5, <1>7 DEF TypeInv
<1>9. OpenInv'
  <2>1. CASE ClosesFile
    BY <1>1, <1>3, <1>6, <2>1 DEF OpenInv, None
  <2>2. CASE ~ClosesFile
    BY <1>1, <1>2, <1>3, <2>2 DEF OpenInv, None
  <2> QED
    BY <2>1, <2>2
<1>10. EmptyInv'
  <2>1. SUFFICES ASSUME NEW name \in DOMAIN disk', disk'[name].writer = writer, name # output'
                 PROVE  disk'[name].messages # <<>>
    BY <1>1, <1>7 DEF EmptyInv
  <2>2. CASE ClosesFile
    <3>1. disk'[name] = disk[output]
            \/ (name # output /\ name \in DOMAIN disk /\ disk'[name] = disk[name])
      BY <1>1, <1>3, <1>6, <2>2, RenameKeeps
    <3> QED
      BY <1>1, <1>3, <1>6, <2>1, <2>2, <3>1 DEF EmptyInv
  <2>3. CASE ~ClosesFile
    BY <1>1, <1>2, <1>3, <2>1, <2>3 DEF EmptyInv
  <2> QED
    BY <2>2, <2>3
<1>11. ChainInv'
  <2>1. PICK w : w = Written
    OBVIOUS
  <2>2. w \in Seq(Entry)
    BY <2>1, WrittenIs
  <2>3. Chained(w \o queue) /\ EndsAs(w \o queue)
    BY <1>1, <1>3, <2>1 DEF ChainInv, Coming
  <2>4. PICK t : t = Tail(queue)
    OBVIOUS
  <2>5. Chained(t) /\ EndsAs(t) /\ t \in Seq(Entry)
    BY <1>1, <1>4, <1>5, <2>2, <2>3, <2>4, ChainAfterGap
  <2>6. Written' = <<>>
    <3>1. CASE ClosesFile
      BY <1>6, <3>1 DEF Written, None
    <3>2. CASE ~ClosesFile
      BY <1>1, <1>2, <3>2, WrittenIs DEF Written, None
    <3> QED
      BY <3>1, <3>2
  <2>7. Coming' = t
    <3>1. <<>> \o t = t
      BY ONLY <2>5
    <3> QED
      BY <1>1, <2>4, <2>6, <3>1 DEF Coming
  <2>8. Chained(Coming)'
    BY <2>5, <2>7 DEF Chained, Follows, IsGap
  <2>9. EndsAs(Coming)'
    BY <1>1, <2>5, <2>7 DEF EndsAs, IsGap
  <2> QED
    BY <2>8, <2>9 DEF ChainInv
<1>12. KeptInv'
  <2>1. SUFFICES ASSUME faults = 0
                 PROVE  /\ \A name \in DOMAIN disk' : IsFinal(name) \/ name = output'
                        /\ 1..received \subseteq OnDisk' \cup Queued'
    BY <1>1 DEF KeptInv, IsFinal
  <2>2. /\ \A name \in DOMAIN disk : IsFinal(name) \/ name = output
        /\ 1..received \subseteq OnDisk \cup Queued
    BY <1>3, <2>1 DEF KeptInv
  <2>3. \A name \in DOMAIN disk' : IsFinal(name) \/ name = output'
    <3>1. CASE ClosesFile
      BY <1>1, <1>3, <1>6, <2>2, <3>1, RenameKeeps
    <3>2. CASE ~ClosesFile
      BY <1>2, <2>2, <3>2
    <3> QED
      BY <3>1, <3>2
  <2> QED
    BY <1>5, <1>7, <2>2, <2>3
<1> QED
  BY <1>7, <1>8, <1>9, <1>10, <1>11, <1>12 DEF IInv

(* A message is written behind those of the open file, or begins a file.    *)
LEMMA ConsumeMessageStep ==
  ASSUME IInv, ConsumeMessage
  PROVE  IInv'
<1>1. PICK w : w = Written
  OBVIOUS
<1>2. PICK e : e = Head(queue)
  OBVIOUS
<1>3. PICK path : path = IF output = None THEN <<now>> ELSE output
  OBVIOUS
<1>4. PICK file : file = [writer |-> IF output = None THEN writer ELSE disk[output].writer,
                          messages |-> Append(w, e)]
  OBVIOUS
<1>5. /\ thread = "running" /\ queue # <<>> /\ ~IsGap(Head(queue))
      /\ queue' = Tail(queue)
      /\ now' = now /\ writer' = writer /\ thread' = thread /\ stopping' = stopping
      /\ failed' = failed /\ received' = received /\ stream' = stream /\ epoch' = epoch
      /\ faults' = faults
  BY DEF ConsumeMessage, writerUnchanged, streamVars
<1>6. TypeInv /\ OpenInv /\ EmptyInv /\ Stretches /\ ChainInv /\ KeptInv /\ DiskType /\ OneEmpty
  BY DEF IInv, TypeInv, EmptyInv
<1>7. writer \in Nat /\ inFile \in Nat /\ queue \in Seq(Entry)
  BY <1>6 DEF TypeInv
<1>8. /\ w \in Seq(Message) /\ w \in Seq(Entry) /\ IsStretch(w)
      /\ output # None => output \in DOMAIN disk /\ w = disk[output].messages
      /\ output = None => w = <<>>
  BY <1>1, WrittenIs DEF Written
<1>9. Chained(w \o queue) /\ EndsAs(w \o queue)
  BY <1>1, <1>5, <1>6 DEF ChainInv, Coming
<1>10. /\ Append(w, e) \in Seq(Message) /\ Append(w, e) # <<>>
       /\ Append(w, e) \o Tail(queue) = w \o queue
       /\ IsStretch(Append(w, e))
  BY <1>2, <1>5, <1>7, <1>8, <1>9, StretchGrows
<1>11. path # None /\ Len(path) = 1 /\ ~IsFinal(path)
  BY <1>3, <1>6 DEF OpenInv, None, IsFinal
<1>12. output # None => path = output /\ disk[path] \in File /\ disk[path].writer = writer
  BY <1>3, <1>5, <1>6, <1>8 DEF OpenInv, DiskType
<1>13. file \in File /\ file.writer = writer /\ file.messages = Append(w, e)
  <2>1. (IF output = None THEN writer ELSE disk[output].writer) = writer
    BY <1>12
  <2> QED
    BY <1>4, <1>7, <1>10, <2>1 DEF File
<1>14. disk' = Put(disk, path, file) /\ output' = path
  <2>1. CASE output = None
    <3>1. w = <<>>
      BY <1>8, <2>1
    <3>2. /\ disk' = Put(disk, <<now>>, [[writer |-> writer, messages |-> <<>>]
                                           EXCEPT !.messages = Append(@, Head(queue))])
          /\ output' = <<now>>
      BY <2>1 DEF ConsumeMessage
    <3>3. [[writer |-> writer, messages |-> <<>>] EXCEPT !.messages = Append(@, Head(queue))]
            = [writer |-> writer, messages |-> Append(<<>>, Head(queue))]
      OBVIOUS
    <3>4. file = [writer |-> writer, messages |-> Append(<<>>, Head(queue))]
      BY <1>2, <1>4, <2>1, <3>1
    <3> QED
      BY <1>3, <2>1, <3>2, <3>3, <3>4
  <2>2. CASE output # None
    <3>1. /\ disk' = Put(disk, output, [disk[output] EXCEPT !.messages = Append(@, Head(queue))])
          /\ output' = output
      BY <2>2 DEF ConsumeMessage
    <3>2. PICK old \in File : old = disk[output]
      BY <1>12, <2>2
    <3>3. [old EXCEPT !.messages = Append(@, Head(queue))]
            = [writer |-> old.writer, messages |-> Append(old.messages, Head(queue))]
      <4>1. PICK a, m : old = [writer |-> a, messages |-> m]
        BY DEF File
      <4>2. [[writer |-> a, messages |-> m] EXCEPT !.messages = Append(@, Head(queue))]
              = [writer |-> a, messages |-> Append(m, Head(queue))]
        OBVIOUS
      <4>3. old.writer = a /\ old.messages = m
        BY <4>1
      <4> QED
        BY <4>1, <4>2, <4>3
    <3>4. file = [writer |-> old.writer, messages |-> Append(old.messages, Head(queue))]
      BY <1>2, <1>4, <1>8, <2>2, <3>2
    <3> QED
      BY <1>3, <2>2, <3>1, <3>2, <3>3, <3>4
  <2> QED
    BY <2>1, <2>2
<1>15. inFile' = (IF output = None THEN 1 ELSE inFile + 1)
  BY DEF ConsumeMessage
<1>16. /\ Len(Append(w, e)) = Len(w) + 1 /\ Append(w, e)[Len(w) + 1] = e
       /\ \A i \in 1..Len(w) : Append(w, e)[i] = w[i]
  <2>1. e \in Entry
    BY <1>2, <1>5, <1>7
  <2> QED
    BY ONLY <1>8, <2>1, AppendProperties
<1>17. Len(w) \in Nat
  BY <1>8
<1>18. path \in DOMAIN disk /\ output # None =>
         /\ Len(disk[path].messages) <= Len(file.messages)
         /\ \A i \in 1..Len(disk[path].messages) : file.messages[i] = disk[path].messages[i]
  BY <1>8, <1>12, <1>13, <1>16, <1>17
<1>19. file.writer <= writer' /\ writer' \in Nat /\ writer <= writer'
  BY <1>5, <1>7, <1>13
<1>20. /\ DiskType' /\ Stretches'
       /\ path \notin DOMAIN disk \/ output # None => OnDisk \subseteq OnDisk'
       /\ DOMAIN disk' = DOMAIN disk \cup {path}
       /\ disk'[path] = file
       /\ \A name \in DOMAIN disk : name # path => disk'[name] = disk[name]
  <2>1. IsStretch(file.messages)
    BY <1>10, <1>13
  <2>2. (path \notin DOMAIN disk \/ output # None) =>
          (path \in DOMAIN disk =>
               /\ Len(disk[path].messages) <= Len(file.messages)
               /\ \A i \in 1..Len(disk[path].messages) :
                    file.messages[i] = disk[path].messages[i])
    BY <1>18
  <2> QED
    BY <1>6, <1>7, <1>11, <1>13, <1>14, <1>19, <2>1, <2>2, PutKeeps
<1>21. queue' \in Seq(Entry) /\ \A x \in Queued : x \in Queued' \/ x = e.n
  BY <1>2, <1>5, <1>7, QueueShrinks
<1>22. TypeInv'
  <2>1. inFile' \in Nat
    BY <1>7, <1>15
  <2> QED
    BY ONLY <1>5, <1>6, <1>20, <1>21, <2>1 DEF TypeInv
<1>23. OpenInv'
  <2>1. inFile' = Len(Append(w, e))
    <3>1. CASE output = None
      BY <1>8, <1>15, <1>16, <3>1
    <3>2. CASE output # None
      <4>1. inFile = Len(w)
        BY <1>5, <1>6, <1>8, <3>2 DEF OpenInv
      <4> QED
        BY <1>15, <1>16, <3>2, <4>1
    <3> QED
      BY <3>1, <3>2
  <2>2. output' \in DOMAIN disk' /\ Len(output') = 1
    BY <1>11, <1>14, <1>20
  <2>3. inFile' = Len(disk'[output'].messages) /\ disk'[output'].writer = writer'
    BY <1>5, <1>13, <1>14, <1>20, <2>1
  <2> QED
    BY <1>5, <1>6, <2>2, <2>3 DEF OpenInv, None
<1>24. EmptyInv'
  <2>1. file.messages # <<>>
    BY <1>10, <1>13
  <2>2. \A name \in DOMAIN disk' : disk'[name].messages = <<>> =>
          name # path /\ name \in DOMAIN disk /\ disk'[name] = disk[name]
    BY <1>20, <2>1
  <2>3. OneEmpty'
    BY <1>6, <2>2 DEF OneEmpty
  <2>4. ASSUME NEW name \in DOMAIN disk', disk'[name].writer = writer, name # output'
        PROVE  disk'[name].messages # <<>>
    <3>1. name \in DOMAIN disk /\ disk'[name] = disk[name]
      BY <1>14, <1>20, <2>4
    <3>2. name # output
      BY <1>3, <1>6, <1>14, <2>4, <3>1 DEF DiskType
    <3> QED
      BY <1>5, <1>6, <2>4, <3>1, <3>2 DEF EmptyInv
  <2> QED
    BY <1>5, <2>3, <2>4 DEF EmptyInv
<1>25. ChainInv'
  <2>1. Written' = Append(w, e)
    BY <1>11, <1>13, <1>14, <1>20 DEF Written, None
  <2>2. PICK s : s = w \o queue
    OBVIOUS
  <2>3. Coming' = s
    BY <1>5, <1>10, <2>1, <2>2 DEF Coming
  <2>4. Chained(s) /\ EndsAs(s)
    BY <1>9, <2>2
  <2>5. Chained(Coming)'
    BY <2>3, <2>4 DEF Chained, Follows, IsGap
  <2>6. EndsAs(Coming)'
    BY <1>5, <2>3, <2>4 DEF EndsAs, IsGap
  <2> QED
    BY <2>5, <2>6 DEF ChainInv
<1>26. KeptInv'
  <2>1. SUFFICES ASSUME faults = 0
                 PROVE  /\ \A name \in DOMAIN disk' : IsFinal(name) \/ name = output'
                        /\ 1..received \subseteq OnDisk' \cup Queued'
    BY <1>5 DEF KeptInv, IsFinal
  <2>2. /\ \A name \in DOMAIN disk : IsFinal(name) \/ name = output
        /\ 1..received \subseteq OnDisk \cup Queued
    BY <1>6, <2>1 DEF KeptInv
  <2>3. path \notin DOMAIN disk \/ output # None
    BY <1>6, <1>11, <2>2 DEF DiskType
  <2>4. \A name \in DOMAIN disk' : IsFinal(name) \/ name = output'
    BY <1>6, <1>12, <1>14, <1>20, <2>2 DEF DiskType
  <2>5. e.n \in OnDisk'
    <3>1. Len(w) + 1 \in 1..Len(disk'[path].messages) /\ e.n = disk'[path].messages[Len(w) + 1].n
      BY <1>13, <1>16, <1>17, <1>20
    <3>2. e.n \in {disk'[path].messages[i].n : i \in 1..Len(disk'[path].messages)}
      BY <3>1
    <3> QED
      BY <1>20, <3>2 DEF OnDisk
  <2> QED
    BY <1>20, <1>21, <2>2, <2>3, <2>4, <2>5
<1> QED
  BY <1>20, <1>22, <1>23, <1>24, <1>25, <1>26 DEF IInv

(* A failure ends the thread, and may leave a file without messages.        *)
LEMMA ConsumeFailsStep ==
  ASSUME IInv, ConsumeFails
  PROVE  IInv'
<1>1. /\ thread = "running" /\ thread' = "failed" /\ failed' = TRUE /\ faults' = faults + 1
      /\ now' = now /\ writer' = writer /\ stopping' = stopping
      /\ queue' = queue /\ received' = received /\ stream' = stream /\ epoch' = epoch
      /\ inFile' = inFile
  BY DEF ConsumeFails, streamVars
<1>2. TypeInv /\ OpenInv /\ EmptyInv /\ Stretches /\ ChainInv /\ KeptInv /\ DiskType /\ OneEmpty
  BY DEF IInv, TypeInv, EmptyInv
<1>3. faults \in Nat /\ writer \in Nat /\ faults' > 0 /\ faults' \in Nat
  BY <1>1, <1>2 DEF TypeInv
<1>4. PICK file : file = [writer |-> writer, messages |-> <<>>]
  OBVIOUS
<1>5. file \in File /\ file.writer = writer /\ file.messages = <<>>
  BY <1>3, <1>4 DEF File
<1>6. PICK path : path = <<now>>
  OBVIOUS
<1>7. path # None /\ Len(path) = 1
  BY <1>6 DEF None
<1>8. \/ output = None /\ disk' = Put(disk, path, file) /\ output' = path
      \/ disk' = disk /\ output' \in {None, output}
  BY <1>4, <1>6 DEF ConsumeFails, HeaderFails, OtherFails
<1>9. /\ DiskType' /\ Stretches' /\ OneEmpty'
      /\ output' # None => output' \in DOMAIN disk' /\ Len(output') = 1
  <2>1. CASE output = None /\ disk' = Put(disk, path, file) /\ output' = path
    <3>1. writer' \in Nat /\ writer <= writer' /\ file.writer <= writer'
      BY <1>1, <1>3, <1>5
    <3>2. IsStretch(file.messages)
      BY <1>5 DEF IsStretch
    <3>3. /\ DiskType' /\ Stretches'
          /\ DOMAIN disk' = DOMAIN disk \cup {path}
          /\ disk'[path] = file
          /\ \A name \in DOMAIN disk : name # path => disk'[name] = disk[name]
      BY <1>2, <1>3, <1>5, <1>7, <2>1, <3>1, <3>2, PutKeeps
    <3>4. \A name \in DOMAIN disk : disk[name].writer = writer => disk[name].messages # <<>>
      BY <1>1, <1>2, <2>1 DEF EmptyInv, DiskType
    <3>5. SUFFICES ASSUME NEW a \in DOMAIN disk', NEW b \in DOMAIN disk',
                          disk'[a].writer = disk'[b].writer,
                          disk'[a].messages = <<>>, disk'[b].messages = <<>>
                   PROVE  a = b
      BY <1>7, <2>1, <3>3 DEF OneEmpty
    <3> QED
      BY <1>2, <1>5, <3>3, <3>4, <3>5 DEF OneEmpty
  <2>2. CASE disk' = disk /\ output' \in {None, output}
    BY <1>1, <1>2, <2>2 DEF OpenInv, DiskType, Stretches, IsStretch, OneEmpty
  <2> QED
    BY <1>8, <2>1, <2>2
<1>10. TypeInv'
  BY ONLY <1>1, <1>2, <1>3, <1>9 DEF TypeInv
<1>11. OpenInv'
  BY <1>1, <1>3, <1>9 DEF OpenInv, None
<1>12. EmptyInv' /\ ChainInv' /\ KeptInv'
  BY <1>1, <1>3, <1>9 DEF EmptyInv, ChainInv, KeptInv
<1> QED
  BY <1>9, <1>10, <1>11, <1>12 DEF IInv

-----------------------------------------------------------------------------
(* The theorems. *)

(* No file, and nothing received, before the first writer.                  *)
LEMMA InitIsKept == Init => IInv
<1> SUFFICES ASSUME Init
             PROVE  IInv
  OBVIOUS
<1> USE DEF Init, None
<1>1. DOMAIN disk = {}
  OBVIOUS
<1>2. TypeInv
  <2>1. DiskType
    BY <1>1, FS_EmptySet DEF DiskType
  <2>2. queue \in Seq(Entry)
    OBVIOUS
  <2> QED
    BY <2>1, <2>2 DEF TypeInv
<1>3. OpenInv /\ EmptyInv /\ Stretches /\ ChainInv
  BY <1>1 DEF OpenInv, EmptyInv, OneEmpty, Stretches, ChainInv
<1>4. KeptInv
  BY <1>1 DEF KeptInv
<1> QED
  BY <1>2, <1>3, <1>4 DEF IInv

(* Each step of the parser thread, the writer's thread and the clock.       *)
LEMMA NextIsKept == IInv /\ [Next]_vars => IInv'
<1> SUFFICES ASSUME IInv, [Next]_vars
             PROVE  IInv'
  OBVIOUS
<1>1. CASE Tick
  BY <1>1, TickStep
<1>2. CASE Construct
  BY <1>2, ConstructStep
<1>3. CASE Destroy
  BY <1>3, DestroyStep
<1>4. CASE Joined
  BY <1>4, JoinedStep
<1>5. ASSUME NEW kind \in {"snapshot", "update"}, Receive(kind)
      PROVE  IInv'
  BY <1>5, ReceiveStep
<1>6. CASE OnGap
  BY <1>6, OnGapStep
<1>7. CASE ConsumeGap
  BY <1>7, ConsumeGapStep
<1>8. CASE ConsumeMessage
  BY <1>8, ConsumeMessageStep
<1>9. CASE ConsumeFails
  BY <1>9, ConsumeFailsStep
<1>10. CASE Return
  BY <1>10, ReturnStep
<1>11. CASE UNCHANGED vars
  <2> USE <1>11 DEF vars, fileVars, streamVars, IInv
  <2>1. TypeInv'
    BY DEF TypeInv, DiskType
  <2>2. OpenInv' /\ EmptyInv' /\ Stretches'
    BY DEF OpenInv, EmptyInv, OneEmpty, Stretches, IsStretch
  <2>3. ChainInv'
    BY DEF ChainInv, Coming, Written, Chained, EndsAs, Follows, IsGap
  <2>4. KeptInv'
    BY DEF KeptInv, OnDisk, Queued, IsGap
  <2> QED
    BY <2>1, <2>2, <2>3, <2>4
<1> QED
  BY <1>1, <1>2, <1>3, <1>4, <1>5, <1>6, <1>7, <1>8, <1>9, <1>10, <1>11 DEF Next, Consume

(* The chain from the open file through the queue to the next entry.        *)
THEOREM WriterInvariant == Spec => []IInv
BY InitIsKept, NextIsKept, PTL DEF Spec

(* "Each unbroken stretch of the stream gets a file of its own", and no     *)
(* failed attempt leaves a second empty file (file_writer.h:35, 39).        *)
THEOREM StretchesAreFiles == Spec => []FilesAreStretches
<1>1. IInv => FilesAreStretches
  <2> SUFFICES ASSUME IInv
               PROVE  FilesAreStretches
    OBVIOUS
  <2>1. Stretches /\ OneEmpty
    BY DEF IInv, EmptyInv
  <2> QED
    BY <2>1 DEF FilesAreStretches, Stretches, IsStretch, OneEmpty
<1> QED
  BY <1>1, WriterInvariant, PTL

(* Without a failure, what is received is on the disk or queued for it.     *)
THEOREM EverythingIsRecorded == Spec => []NothingLost
<1>1. IInv => NothingLost
  BY DEF IInv, KeptInv, NothingLost
<1> QED
  BY <1>1, WriterInvariant, PTL

(* "So no recording replaces another" (file_writer.h:30), failures or not:  *)
(* a name that is taken is not given again.                                *)
THEOREM NoneReplaced == Spec => RecordingsKept
<1>1. ASSUME IInv, Next, NEW name \in DOMAIN disk, IsFinal(name)
      PROVE  name \in DOMAIN disk' /\ disk'[name] = disk[name]
  <2>1. output # None => output \in DOMAIN disk /\ name # output
    BY <1>1 DEF IInv, OpenInv, IsFinal
  <2>2. IsFiniteSet(DOMAIN disk)
    BY <1>1 DEF IInv, TypeInv, DiskType
  <2>3. name # <<now>>
    BY <1>1 DEF IsFinal
  <2>4. ASSUME output # None, disk' = Renamed(output)
        PROVE  name \in DOMAIN disk' /\ disk'[name] = disk[name]
    BY <2>1, <2>2, <2>4, RenamedIs
  <2>5. ASSUME NEW path, NEW file, disk' = Put(disk, path, file), path # name
        PROVE  name \in DOMAIN disk' /\ disk'[name] = disk[name]
    BY <2>5 DEF Put
  <2>6. \/ disk' = disk
        \/ output # None /\ disk' = Renamed(output)
        \/ \E file : disk' = Put(disk, <<now>>, file)
        \/ output # None /\ \E file : disk' = Put(disk, output, file)
    <3>1. CASE Tick \/ Destroy \/ OnGap \/ Return \/ \E kind \in {"snapshot", "update"} : Receive(kind)
      BY <3>1 DEF Tick, Destroy, OnGap, Return, Receive, fileVars
    <3>2. CASE Construct
      BY <3>2 DEF Construct
    <3>3. CASE Joined
      BY <3>3 DEF Joined, ClosedByDestructor
    <3>4. CASE ConsumeGap
      BY <3>4 DEF ConsumeGap, ClosesFile
    <3>5. CASE ConsumeMessage
      BY <3>5 DEF ConsumeMessage
    <3>6. CASE ConsumeFails
      BY <3>6 DEF ConsumeFails, HeaderFails, OtherFails
    <3> QED
      BY <1>1, <3>1, <3>2, <3>3, <3>4, <3>5, <3>6 DEF Next, Consume
  <2> QED
    BY <2>1, <2>3, <2>4, <2>5, <2>6
<1>2. IInv /\ [Next]_vars =>
        [\A name \in DOMAIN disk :
           IsFinal(name) => name \in DOMAIN disk' /\ disk'[name] = disk[name]]_vars
  BY <1>1
<1> QED
  BY <1>2, WriterInvariant, PTL DEF Spec, RecordingsKept
=============================================================================
