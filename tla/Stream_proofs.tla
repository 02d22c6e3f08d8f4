---------------------------- MODULE Stream_proofs ----------------------------
(***************************************************************************)
(* What clients are told, for any number of streams, clients, messages and *)
(* calls.                                                                  *)
(***************************************************************************)
EXTENDS Stream, SequenceTheorems, TLAPS

Place == [stream : Nat, seq : Nat]

Gap == {"disconnected", "degraded"}

View == [book : Place, status : {"none", "live"} \cup Gap, unannounced : BOOLEAN]

Call == [kind : {"watch", "unwatch"}, id : Ids]

TypeInv ==
  /\ life \in [Ids -> {"unused", "live", "detached", "gone"}]
  /\ book \in [Ids -> Place]
  /\ hasSnapshot \in [Ids -> BOOLEAN]
  /\ gapStatus \in [Ids -> {"none"} \cup Gap]
  /\ watchers \in [Ids -> [Watchers -> {0, 1}]]
  /\ call \in [Watchers -> {NoCall} \cup Call]
  /\ wants \in [Watchers -> SUBSET Ids]
  /\ view \in [Watchers -> [Ids -> View]]
  /\ delivered \in [Ids -> Nat]
  /\ called \in [Watchers -> Nat]

(* There is a book from a snapshot to the next gap, and a status from a gap *)
(* to the next snapshot.                                                   *)
BookOf(p, has, gap) ==
  /\ has => gap = "none" /\ p.stream > 0
  /\ ~has => p = NoBook

BookInv == \A id \in Ids : BookOf(book[id], hasSnapshot[id], gapStatus[id])

(* What a client knows of a stream it watches.                             *)
Knows(v, p, gap) ==
  /\ v.book = p
  /\ gap # "none" => v.status = gap
  /\ gap = "none" => v.status \notin Gap

ViewInv ==
  \A w \in Watchers, id \in Ids :
    /\ IsWatching(w, id) => Knows(view[w][id], book[id], gapStatus[id])
    /\ ~view[w][id].unannounced

(* A stream that has not started has no watcher, and none on its way.      *)
Unwatching(w, id) == call[w] = [kind |-> "unwatch", id |-> id]

WantsInv ==
  \A w \in Watchers, id \in Ids :
    /\ life[id] = "unused" =>
         /\ ~IsWatching(w, id) /\ id \notin wants[w]
         /\ call[w] # NoCall => call[w].id # id
    /\ life[id] = "live" /\ ~Unwatching(w, id) => (IsWatching(w, id) <=> id \in wants[w])
    /\ Unwatching(w, id) => id \notin wants[w]

IInv == TypeInv /\ BookInv /\ ViewInv /\ WantsInv

-----------------------------------------------------------------------------
(* What one call tells a client. *)

(* Two payloads are sent one after the other.                               *)
LEMMA OneThenOther ==
  ASSUME NEW a, NEW b
  PROVE  <<a>> \o <<b>> = <<a, b>> /\ <<a>> \o <<>> = <<a>> /\ <<>> \o <<b>> = <<b>>
<1>1. PICK S : S = {a, b}
  OBVIOUS
<1>2. PICK x : x = <<a>>
  OBVIOUS
<1>3. PICK y : y = <<b>>
  OBVIOUS
<1>4. x \in Seq(S) /\ y \in Seq(S) /\ Len(x) = 1 /\ Len(y) = 1 /\ x[1] = a /\ y[1] = b
  BY <1>1, <1>2, <1>3
<1>5. PICK z : z = x \o y
  OBVIOUS
<1>6. z \in Seq(S) /\ Len(z) = 2 /\ z[1] = a /\ z[2] = b
  BY ONLY <1>4, <1>5, ConcatProperties
<1>7. z = <<a, b>>
  <2>1. PICK t : t = <<a, b>>
    OBVIOUS
  <2>2. t \in Seq(S) /\ Len(t) = 2 /\ t[1] = a /\ t[2] = b
    BY <1>1, <2>1
  <2>3. z = t
    BY ONLY <1>6, <2>2, SeqEqual
  <2> QED
    BY <2>1, <2>3
<1>8. x \o <<>> = x /\ <<>> \o y = y
  BY ONLY <1>4, ConcatEmptySeq
<1> QED
  BY <1>2, <1>3, <1>5, <1>7, <1>8

(* The status that ends a gap goes out ahead of the snapshot (stream.cc:70) *)
LEMMA ToldSnapshot ==
  ASSUME NEW v \in View, ~v.unannounced, NEW id \in Ids, NEW p \in Place,
         gapStatus[id] \in {"none"} \cup Gap,
         gapStatus[id] = "none" => v.status \notin Gap,
         NEW t, t = ToldAll(v, LiveStatus(id) \o <<SnapshotOf(p)>>)
  PROVE  t \in View /\ ~t.unannounced /\ Knows(t, p, "none")
<1>1. ASSUME NEW u \in View, ~u.unannounced, u.status \notin Gap,
             t = Told(u, SnapshotOf(p))
      PROVE  t \in View /\ ~t.unannounced /\ Knows(t, p, "none")
  <2>1. SnapshotOf(p).kind = "snapshot" /\ SnapshotOf(p).place = p
    BY DEF SnapshotOf
  <2>2. PICK b, s, n : u = [book |-> b, status |-> s, unannounced |-> n]
    BY DEF View
  <2>3. t = [book |-> p, status |-> s, unannounced |-> n \/ s \in Gap]
    BY <1>1, <2>1, <2>2 DEF Told, Gap
  <2>4. b \in Place /\ s \in {"none", "live"} \cup Gap /\ n \in BOOLEAN /\ s \notin Gap /\ ~n
    BY <1>1, <2>2 DEF View
  <2>5. t = [book |-> p, status |-> s, unannounced |-> FALSE]
    BY <2>3, <2>4
  <2>6. t.book = p /\ t.status = s /\ t.unannounced = FALSE
    BY <2>5
  <2> QED
    BY <2>4, <2>5, <2>6 DEF View, Knows
<1>2. CASE gapStatus[id] = "none"
  <2>1. LiveStatus(id) \o <<SnapshotOf(p)>> = <<SnapshotOf(p)>>
    BY <1>2 DEF LiveStatus
  <2>2. t = Told(v, SnapshotOf(p))
    BY <2>1 DEF ToldAll
  <2> QED
    BY <1>1, <1>2, <2>2
<1>3. CASE gapStatus[id] # "none"
  <2>1. LiveStatus(id) \o <<SnapshotOf(p)>> = <<FeedStatus("live"), SnapshotOf(p)>>
    <3>1. LiveStatus(id) = <<FeedStatus("live")>>
      BY <1>3 DEF LiveStatus
    <3> QED
      BY <3>1, OneThenOther
  <2>2. t = Told(Told(v, FeedStatus("live")), SnapshotOf(p))
    <3>1. PICK ps : ps = <<FeedStatus("live"), SnapshotOf(p)>>
      OBVIOUS
    <3>2. t = ToldAll(v, ps)
      BY <2>1, <3>1
    <3>3. Len(ps) = 2 /\ ps[1] = FeedStatus("live") /\ ps[2] = SnapshotOf(p)
      BY ONLY <3>1
    <3> QED
      BY <3>2, <3>3 DEF ToldAll
  <2>3. FeedStatus("live").kind = "live"
    BY DEF FeedStatus
  <2>4. PICK u : u = Told(v, FeedStatus("live"))
    OBVIOUS
  <2>5. PICK b, s, n : v = [book |-> b, status |-> s, unannounced |-> n]
    BY DEF View
  <2>6. b \in Place /\ n \in BOOLEAN /\ ~n
    BY <2>5 DEF View
  <2>7. u = [book |-> b, status |-> "live", unannounced |-> n]
    BY <2>3, <2>4, <2>5 DEF Told
  <2>8. u \in View /\ ~u.unannounced /\ u.status \notin Gap
    BY <2>6, <2>7 DEF View, Gap
  <2> QED
    BY <1>1, <2>2, <2>4, <2>8
<1> QED
  BY <1>2, <1>3

(* An update takes a client's book where it takes the stream's.             *)
LEMMA ToldUpdate ==
  ASSUME NEW v \in View, ~v.unannounced, NEW p \in Place, p # NoBook, v.book = p,
         v.status \notin Gap,
         NEW q, q = [p EXCEPT !.seq = @ + 1],
         NEW t, t = ToldAll(v, <<UpdateTo(q)>>)
  PROVE  t \in View /\ ~t.unannounced /\ Knows(t, q, "none") /\ q \in Place
<1>1. UpdateTo(q).kind = "update" /\ UpdateTo(q).place = q
  BY DEF UpdateTo
<1>2. t = Told(v, UpdateTo(q))
  BY DEF ToldAll
<1>3. PICK s, n : v = [book |-> p, status |-> s, unannounced |-> n]
  BY DEF View
<1>4. s \in {"none", "live"} \cup Gap /\ s \notin Gap /\ n \in BOOLEAN /\ ~n
  BY <1>3 DEF View
<1>5. Continues(q, p)
  BY DEF Continues
<1>6. t = [book |-> q, status |-> s, unannounced |-> n]
  BY <1>1, <1>2, <1>3, <1>5 DEF Told
<1>7. q \in Place
  BY DEF Place
<1> QED
  BY <1>4, <1>6, <1>7 DEF View, Knows

(* A gap takes the client's book and says why.                              *)
LEMMA ToldGap ==
  ASSUME NEW v \in View, ~v.unannounced, NEW gap \in Gap,
         NEW t, t = ToldAll(v, <<FeedStatus(gap)>>)
  PROVE  t \in View /\ ~t.unannounced /\ Knows(t, NoBook, gap)
<1>1. FeedStatus(gap).kind = gap
  BY DEF FeedStatus
<1>2. t = Told(v, FeedStatus(gap))
  BY DEF ToldAll
<1>3. PICK b, s, n : v = [book |-> b, status |-> s, unannounced |-> n]
  BY DEF View
<1>4. n \in BOOLEAN /\ ~n
  BY <1>3 DEF View
<1>5. t = [book |-> NoBook, status |-> gap, unannounced |-> n]
  BY <1>1, <1>2, <1>3 DEF Told, Gap
<1>6. NoBook \in Place
  BY DEF NoBook, Place
<1> QED
  BY <1>4, <1>5, <1>6 DEF View, Knows, Gap

(* A client that begins to watch, or starts over, knows what there is.      *)
LEMMA ToldFirst ==
  ASSUME NEW v \in View, NEW id \in Ids,
         book[id] \in Place, gapStatus[id] \in {"none"} \cup Gap, hasSnapshot[id] \in BOOLEAN,
         BookOf(book[id], hasSnapshot[id], gapStatus[id]),
         NEW t, t = ToldAll(v, FirstPayloads(id))
  PROVE  t \in View /\ ~t.unannounced /\ Knows(t, book[id], gapStatus[id])
<1>1. Told(v, StreamInfo) = Untold
  BY DEF Told, StreamInfo
<1>2. Untold \in View /\ ~Untold.unannounced /\ Untold.status = "none" /\ Untold.book = NoBook
  BY DEF Untold, View, Place, NoBook
<1>3. CASE gapStatus[id] # "none"
  <2>1. FirstPayloads(id) = <<StreamInfo, FeedStatus(gapStatus[id])>>
    BY <1>3, OneThenOther DEF FirstPayloads
  <2>2. t = Told(Untold, FeedStatus(gapStatus[id]))
    BY <1>1, <2>1 DEF ToldAll
  <2>3. t = ToldAll(Untold, <<FeedStatus(gapStatus[id])>>)
    BY <2>2 DEF ToldAll
  <2>4. t \in View /\ ~t.unannounced /\ Knows(t, NoBook, gapStatus[id])
    BY <1>2, <1>3, <2>3, ToldGap
  <2>5. book[id] = NoBook
    BY <1>3 DEF BookOf
  <2> QED
    BY <2>4, <2>5
<1>4. CASE gapStatus[id] = "none" /\ hasSnapshot[id]
  <2>1. FirstPayloads(id) = <<StreamInfo, SnapshotOf(book[id])>>
    BY <1>4, OneThenOther DEF FirstPayloads
  <2>2. t = Told(Untold, SnapshotOf(book[id]))
    BY <1>1, <2>1 DEF ToldAll
  <2>3. LiveStatus(id) \o <<SnapshotOf(book[id])>> = <<SnapshotOf(book[id])>>
    BY <1>4 DEF LiveStatus
  <2>4. t = ToldAll(Untold, LiveStatus(id) \o <<SnapshotOf(book[id])>>)
    BY <2>2, <2>3 DEF ToldAll
  <2>5. Untold.status \notin Gap
    BY <1>2 DEF Gap
  <2> QED
    BY <1>2, <1>4, <2>4, <2>5, ToldSnapshot
<1>5. CASE gapStatus[id] = "none" /\ ~hasSnapshot[id]
  <2>1. FirstPayloads(id) = <<StreamInfo>>
    BY <1>5 DEF FirstPayloads
  <2>2. t = Untold
    BY <1>1, <2>1 DEF ToldAll
  <2>3. book[id] = NoBook
    BY <1>5 DEF BookOf
  <2> QED
    BY <1>2, <1>5, <2>2, <2>3 DEF Knows, Gap
<1> QED
  BY <1>3, <1>4, <1>5

(* What is sent reaches the clients that watch, once each, and no other.    *)
LEMMA SendLockedIs ==
  ASSUME TypeInv, NEW id \in Ids, NEW payloads, SendLocked(id, payloads)
  PROVE  /\ view' = [w \in Watchers |-> [view[w] EXCEPT ![id] = view'[w][id]]]
         /\ \A w \in Watchers : ~IsWatching(w, id) => view'[w][id] = view[w][id]
         /\ \A w \in Watchers :
              IsWatching(w, id) => view'[w][id] = ToldAll(view[w][id], payloads)
<1>1. \A w \in Watchers : watchers[id][w] \in {0, 1} /\ id \in DOMAIN view[w]
  BY DEF TypeInv
<1>2. view' = [w \in Watchers |->
                 [view[w] EXCEPT ![id] =
                    CASE watchers[id][w] = 0 -> view[w][id]
                      [] watchers[id][w] = 1 -> ToldAll(view[w][id], payloads)
                      [] OTHER -> ToldAll(ToldAll(view[w][id], payloads), payloads)]]
  BY DEF SendLocked
<1>3. ASSUME NEW w \in Watchers
      PROVE  /\ view'[w] = [view[w] EXCEPT ![id] = view'[w][id]]
             /\ ~IsWatching(w, id) => view'[w][id] = view[w][id]
             /\ IsWatching(w, id) => view'[w][id] = ToldAll(view[w][id], payloads)
  <2>1. PICK x : x = CASE watchers[id][w] = 0 -> view[w][id]
                       [] watchers[id][w] = 1 -> ToldAll(view[w][id], payloads)
                       [] OTHER -> ToldAll(ToldAll(view[w][id], payloads), payloads)
    OBVIOUS
  <2>2. view'[w] = [view[w] EXCEPT ![id] = x]
    BY <1>2, <2>1
  <2>3. view'[w][id] = x
    BY <1>1, <2>2
  <2>4. watchers[id][w] = 0 => x = view[w][id]
    BY <2>1
  <2>5. watchers[id][w] = 1 => x = ToldAll(view[w][id], payloads)
    BY <2>1
  <2>6. IsWatching(w, id) <=> watchers[id][w] = 1
    BY <1>1 DEF IsWatching
  <2>7. ~IsWatching(w, id) <=> watchers[id][w] = 0
    BY <1>1, <2>6
  <2> QED
    BY <2>2, <2>3, <2>4, <2>5, <2>6, <2>7
<1>4. view' = [w \in Watchers |-> view'[w]]
  BY <1>2
<1> QED
  BY <1>3, <1>4

-----------------------------------------------------------------------------
(* The steps. *)

(* Receive() and Interrupt(): what the stream becomes is what the clients   *)
(* that watch it are told.                                                 *)
LEMMA SentStep ==
  ASSUME IInv, NEW id \in Ids, NEW payloads, SendLocked(id, payloads),
         NEW p \in Place, NEW has \in BOOLEAN, NEW gap \in {"none"} \cup Gap,
         book' = [book EXCEPT ![id] = p], hasSnapshot' = [hasSnapshot EXCEPT ![id] = has],
         gapStatus' = [gapStatus EXCEPT ![id] = gap], BookOf(p, has, gap),
         delivered' = [delivered EXCEPT ![id] = @ + 1],
         UNCHANGED <<life, watchers, call, wants, called>>,
         \A v \in View : ~v.unannounced /\ Knows(v, book[id], gapStatus[id]) =>
           /\ ToldAll(v, payloads) \in View /\ ~ToldAll(v, payloads).unannounced
           /\ Knows(ToldAll(v, payloads), p, gap)
  PROVE  IInv'
<1>1. TypeInv /\ BookInv /\ ViewInv /\ WantsInv
  BY DEF IInv
<1>2. /\ view' = [w \in Watchers |-> [view[w] EXCEPT ![id] = view'[w][id]]]
      /\ \A w \in Watchers : ~IsWatching(w, id) => view'[w][id] = view[w][id]
      /\ \A w \in Watchers :
           IsWatching(w, id) => view'[w][id] = ToldAll(view[w][id], payloads)
  BY <1>1, SendLockedIs
<1>3. \A w \in Watchers, i \in Ids : view[w][i] \in View /\ ~view[w][i].unannounced
  BY <1>1 DEF TypeInv, ViewInv
<1>4. ASSUME NEW w \in Watchers
      PROVE  /\ view'[w][id] \in View /\ ~view'[w][id].unannounced
             /\ IsWatching(w, id) => Knows(view'[w][id], p, gap)
  <2>1. CASE IsWatching(w, id)
    <3>1. Knows(view[w][id], book[id], gapStatus[id])
      BY <1>1, <2>1 DEF ViewInv
    <3> QED
      BY <1>2, <1>3, <2>1, <3>1
  <2>2. CASE ~IsWatching(w, id)
    BY <1>2, <1>3, <2>2
  <2> QED
    BY <2>1, <2>2
<1>5. \A w \in Watchers, i \in Ids : i # id => view'[w][i] = view[w][i]
  <2>1. \A w \in Watchers : view[w] \in [Ids -> View]
    BY <1>1 DEF TypeInv
  <2> QED
    BY <1>2, <2>1
<1>6. TypeInv'
  <2>1. view' \in [Watchers -> [Ids -> View]]
    <3>1. ASSUME NEW w \in Watchers
          PROVE  [view[w] EXCEPT ![id] = view'[w][id]] \in [Ids -> View]
      <4>1. view[w] \in [Ids -> View]
        BY <1>1 DEF TypeInv
      <4> QED
        BY <1>4, <4>1
    <3> QED
      BY <1>2, <3>1
  <2>2. book' \in [Ids -> Place] /\ hasSnapshot' \in [Ids -> BOOLEAN]
        /\ gapStatus' \in [Ids -> {"none"} \cup Gap] /\ delivered' \in [Ids -> Nat]
    BY <1>1 DEF TypeInv
  <2> QED
    BY <1>1, <2>1, <2>2 DEF TypeInv
<1>7. /\ book'[id] = p /\ hasSnapshot'[id] = has /\ gapStatus'[id] = gap
      /\ \A i \in Ids : i # id => book'[i] = book[i] /\ hasSnapshot'[i] = hasSnapshot[i]
                                    /\ gapStatus'[i] = gapStatus[i]
  BY <1>1 DEF TypeInv
<1>8. BookInv'
  <2>1. SUFFICES ASSUME NEW i \in Ids
                 PROVE  BookOf(book'[i], hasSnapshot'[i], gapStatus'[i])
    BY DEF BookInv, BookOf, NoBook
  <2>2. CASE i = id
    BY <1>7, <2>2
  <2>3. CASE i # id
    BY <1>1, <1>7, <2>3 DEF BookInv
  <2> QED
    BY <2>2, <2>3
<1>9. \A w \in Watchers, i \in Ids : IsWatching(w, i)' <=> IsWatching(w, i)
  BY DEF IsWatching
<1>10. ViewInv'
  <2>1. SUFFICES ASSUME NEW w \in Watchers, NEW i \in Ids
                 PROVE  /\ IsWatching(w, i) => Knows(view'[w][i], book'[i], gapStatus'[i])
                        /\ ~view'[w][i].unannounced
    BY <1>9 DEF ViewInv, Knows, Gap
  <2>2. CASE i = id
    BY <1>4, <1>7, <2>2
  <2>3. CASE i # id
    BY <1>1, <1>5, <1>7, <2>3 DEF ViewInv
  <2> QED
    BY <2>2, <2>3
<1>11. WantsInv'
  BY <1>1 DEF WantsInv, IsWatching, Unwatching, NoCall
<1> QED
  BY <1>6, <1>8, <1>10, <1>11 DEF IInv

(* A snapshot ends a gap.                                                   *)
LEMMA SnapshotStep ==
  ASSUME IInv, NEW id \in Ids, ReceiveSnapshot(id)
  PROVE  IInv'
<1>1. PICK p : p = [stream |-> delivered[id] + 1, seq |-> 0]
  OBVIOUS
<1>2. /\ hasSnapshot' = [hasSnapshot EXCEPT ![id] = TRUE]
      /\ gapStatus' = [gapStatus EXCEPT ![id] = "none"]
      /\ book' = [book EXCEPT ![id] = p]
      /\ SendLocked(id, LiveStatus(id) \o <<SnapshotOf(p)>>)
      /\ delivered' = [delivered EXCEPT ![id] = @ + 1]
      /\ UNCHANGED <<life, watchers, call, wants, called>>
  BY <1>1 DEF ReceiveSnapshot
<1>3. delivered[id] \in Nat /\ gapStatus[id] \in {"none"} \cup Gap
  BY DEF IInv, TypeInv
<1>4. p \in Place /\ p.stream > 0
  BY <1>1, <1>3 DEF Place
<1>5. PICK payloads : payloads = LiveStatus(id) \o <<SnapshotOf(p)>>
  OBVIOUS
<1>6. ASSUME NEW v \in View, ~v.unannounced, Knows(v, book[id], gapStatus[id])
      PROVE  /\ ToldAll(v, payloads) \in View /\ ~ToldAll(v, payloads).unannounced
             /\ Knows(ToldAll(v, payloads), p, "none")
  <2>1. gapStatus[id] = "none" => v.status \notin Gap
    BY <1>6 DEF Knows
  <2>2. PICK t : t = ToldAll(v, LiveStatus(id) \o <<SnapshotOf(p)>>)
    OBVIOUS
  <2> QED
    BY <1>3, <1>4, <1>5, <1>6, <2>1, <2>2, ToldSnapshot
<1>7. BookOf(p, TRUE, "none")
  BY <1>4 DEF BookOf
<1> QED
  BY <1>2, <1>4, <1>5, <1>6, <1>7, SentStep

(* An update continues the book of the stream and those of its clients.     *)
LEMMA UpdateStep ==
  ASSUME IInv, NEW id \in Ids, ReceiveUpdate(id)
  PROVE  IInv'
<1>1. PICK p : p = book[id]
  OBVIOUS
<1>2. PICK q : q = [p EXCEPT !.seq = @ + 1]
  OBVIOUS
<1>3. /\ hasSnapshot[id]
      /\ book' = [book EXCEPT ![id] = q]
      /\ SendLocked(id, <<UpdateTo(q)>>)
      /\ delivered' = [delivered EXCEPT ![id] = @ + 1]
      /\ UNCHANGED <<life, hasSnapshot, gapStatus, watchers, call, wants, called>>
  BY <1>1, <1>2 DEF ReceiveUpdate
<1>4. p \in Place /\ p.stream > 0 /\ gapStatus[id] = "none"
  BY <1>1, <1>3 DEF IInv, TypeInv, BookInv, BookOf
<1>5. p # NoBook
  BY <1>4 DEF NoBook
<1>6. q \in Place /\ q.stream > 0
  BY <1>2, <1>4 DEF Place
<1>7. PICK payloads : payloads = <<UpdateTo(q)>>
  OBVIOUS
<1>8. ASSUME NEW v \in View, ~v.unannounced, Knows(v, book[id], gapStatus[id])
      PROVE  /\ ToldAll(v, payloads) \in View /\ ~ToldAll(v, payloads).unannounced
             /\ Knows(ToldAll(v, payloads), q, "none")
  <2>1. v.book = p /\ v.status \notin Gap
    BY <1>1, <1>4, <1>8 DEF Knows
  <2>2. PICK t : t = ToldAll(v, <<UpdateTo(q)>>)
    OBVIOUS
  <2> QED
    BY <1>2, <1>4, <1>5, <1>7, <1>8, <2>1, <2>2, ToldUpdate
<1>9. /\ hasSnapshot' = [hasSnapshot EXCEPT ![id] = TRUE]
      /\ gapStatus' = [gapStatus EXCEPT ![id] = "none"]
  BY <1>3, <1>4 DEF IInv, TypeInv
<1>10. BookOf(q, TRUE, "none")
  BY <1>6 DEF BookOf
<1> QED
  BY <1>3, <1>6, <1>7, <1>8, <1>9, <1>10, SentStep

(* A gap drops the book.                                                    *)
LEMMA InterruptStep ==
  ASSUME IInv, NEW id \in Ids, NEW gap, Interrupt(id, gap)
  PROVE  IInv'
<1>1. PICK status : status = StatusOf(gap)
  OBVIOUS
<1>2. status \in Gap
  BY <1>1 DEF StatusOf, Gap
<1>3. /\ book' = [book EXCEPT ![id] = NoBook]
      /\ hasSnapshot' = [hasSnapshot EXCEPT ![id] = FALSE]
      /\ gapStatus' = [gapStatus EXCEPT ![id] = status]
      /\ SendLocked(id, <<FeedStatus(status)>>)
      /\ delivered' = [delivered EXCEPT ![id] = @ + 1]
      /\ UNCHANGED <<life, watchers, call, wants, called>>
  BY <1>1 DEF Interrupt
<1>4. PICK payloads : payloads = <<FeedStatus(status)>>
  OBVIOUS
<1>5. ASSUME NEW v \in View, ~v.unannounced
      PROVE  /\ ToldAll(v, payloads) \in View /\ ~ToldAll(v, payloads).unannounced
             /\ Knows(ToldAll(v, payloads), NoBook, status)
  <2>1. PICK t : t = ToldAll(v, <<FeedStatus(status)>>)
    OBVIOUS
  <2> QED
    BY <1>2, <1>4, <1>5, <2>1, ToldGap
<1>6. PICK p : p = NoBook
  OBVIOUS
<1>7. p \in Place /\ BookOf(p, FALSE, status)
  BY <1>6 DEF NoBook, Place, BookOf
<1> QED
  BY <1>2, <1>3, <1>4, <1>5, <1>6, <1>7, SentStep

(* A subscription begins and ends.                                          *)
LEMMA LifeStep ==
  ASSUME IInv, NEW id \in Ids, Start(id) \/ Stop(id)
  PROVE  IInv'
<1>1. PICK phase : life' = [life EXCEPT ![id] = phase]
  BY DEF Start, Stop
<1>2. UNCHANGED <<bookVars, watchers, call, wants, view, delivered, called>>
  BY DEF Start, Stop
<1>3. TypeInv /\ BookInv /\ ViewInv /\ WantsInv
  BY DEF IInv
<1>4. life' \in [Ids -> {"unused", "live", "detached", "gone"}]
  BY <1>3 DEF Start, Stop, TypeInv
<1>5. life'[id] = "live" => life[id] = "unused"
  BY <1>3 DEF Start, Stop, TypeInv
<1>6. life'[id] # "unused" /\ \A i \in Ids : i # id => life'[i] = life[i]
  BY <1>3 DEF Start, Stop, TypeInv
<1>7. TypeInv'
  BY <1>2, <1>3, <1>4 DEF TypeInv, bookVars, NoCall
<1>8. BookInv' /\ ViewInv'
  BY <1>2, <1>3 DEF BookInv, BookOf, ViewInv, IsWatching, Knows, bookVars, NoBook, Gap
<1>9. WantsInv'
  <2>1. SUFFICES ASSUME NEW w \in Watchers, NEW i \in Ids
                 PROVE  /\ life'[i] = "unused" =>
                             /\ ~IsWatching(w, i) /\ i \notin wants[w]
                             /\ call[w] # NoCall => call[w].id # i
                        /\ life'[i] = "live" /\ ~Unwatching(w, i)
                             => (IsWatching(w, i) <=> i \in wants[w])
                        /\ Unwatching(w, i) => i \notin wants[w]
    BY <1>2 DEF WantsInv, IsWatching, Unwatching, NoCall
  <2>2. CASE i = id
    BY <1>3, <1>5, <1>6, <2>2 DEF WantsInv
  <2>3. CASE i # id
    BY <1>3, <1>6, <2>3 DEF WantsInv
  <2> QED
    BY <2>2, <2>3
<1> QED
  BY <1>7, <1>8, <1>9 DEF IInv

(* A call of the Outbox looks its stream up, and goes on without its lock.  *)
LEMMA FindStep ==
  ASSUME IInv, NEW w \in Watchers, NEW id \in Ids, NEW kind \in {"watch", "unwatch"},
         Find(w, kind, id)
  PROVE  IInv'
<1>1. TypeInv /\ BookInv /\ ViewInv /\ WantsInv
  BY DEF IInv
<1>2. PICK c : c = [kind |-> kind, id |-> id]
  OBVIOUS
<1>3. PICK d : d = IF Registered(id) THEN c ELSE NoCall
  OBVIOUS
<1>4. PICK want : want = IF kind = "unwatch" THEN wants[w] \ {id} ELSE wants[w]
  OBVIOUS
<1>5. /\ call[w] = NoCall
      /\ call' = [call EXCEPT ![w] = d]
      /\ wants' = [wants EXCEPT ![w] = want]
      /\ called' = [called EXCEPT ![w] = @ + 1]
      /\ UNCHANGED <<life, bookVars, watchers, view, delivered>>
  BY <1>2, <1>3, <1>4 DEF Find
<1>6. d \in {NoCall} \cup Call /\ want \in SUBSET Ids /\ want \subseteq wants[w]
  BY <1>1, <1>2, <1>3, <1>4 DEF Call, TypeInv
<1>7. TypeInv'
  <2>1. /\ call' \in [Watchers -> {NoCall} \cup Call]
        /\ wants' \in [Watchers -> SUBSET Ids] /\ called' \in [Watchers -> Nat]
    BY <1>1, <1>5, <1>6 DEF TypeInv
  <2> QED
    BY <1>1, <1>5, <2>1 DEF TypeInv, bookVars, NoCall
<1>8. BookInv' /\ ViewInv'
  BY <1>1, <1>5 DEF BookInv, BookOf, ViewInv, IsWatching, Knows, bookVars, NoBook, Gap
<1>9. WantsInv'
  <2>1. SUFFICES ASSUME NEW x \in Watchers, NEW i \in Ids
                 PROVE  /\ life[i] = "unused" =>
                             /\ ~IsWatching(x, i) /\ i \notin wants'[x]
                             /\ call'[x] # NoCall => call'[x].id # i
                        /\ life[i] = "live" /\ call'[x] # [kind |-> "unwatch", id |-> i]
                             => (IsWatching(x, i) <=> i \in wants'[x])
                        /\ call'[x] = [kind |-> "unwatch", id |-> i] => i \notin wants'[x]
    BY <1>5 DEF WantsInv, IsWatching, Unwatching, NoCall
  <2>2. CASE x # w
    <3>1. call'[x] = call[x] /\ wants'[x] = wants[x]
      BY <1>1, <1>5, <2>2 DEF TypeInv
    <3> QED
      BY <1>1, <3>1 DEF WantsInv, Unwatching
  <2>3. CASE x = w
    <3>1. call'[w] = d /\ wants'[w] = want
      BY <1>1, <1>5 DEF TypeInv
    <3>2. ~Unwatching(w, i)
      BY <1>5 DEF Unwatching, NoCall
    <3>3. ASSUME life[i] = "unused"
          PROVE  ~IsWatching(w, i) /\ i \notin want /\ (d # NoCall => d.id # i)
      <4>1. ~IsWatching(w, i) /\ i \notin wants[w]
        BY <1>1, <3>3 DEF WantsInv
      <4>2. d # NoCall => Registered(id) /\ d.id = id
        BY <1>2, <1>3
      <4> QED
        BY <1>6, <3>3, <4>1, <4>2 DEF Registered
    <3>4. ASSUME life[i] = "live", d # [kind |-> "unwatch", id |-> i]
          PROVE  IsWatching(w, i) <=> i \in want
      <4>1. IsWatching(w, i) <=> i \in wants[w]
        BY <1>1, <3>2, <3>4 DEF WantsInv
      <4>2. kind = "unwatch" => id # i
        BY <1>2, <1>3, <3>4 DEF Registered
      <4> QED
        BY <1>4, <4>1, <4>2
    <3>5. ASSUME d = [kind |-> "unwatch", id |-> i]
          PROVE  i \notin want
      <4>1. Registered(id) /\ c = d
        BY <1>3, <3>5 DEF NoCall
      <4>2. kind = "unwatch" /\ id = i
        BY <1>2, <3>5, <4>1
      <4> QED
        BY <1>4, <4>2
    <3> QED
      BY <2>3, <3>1, <3>3, <3>4, <3>5
  <2> QED
    BY <2>2, <2>3
<1> QED
  BY <1>7, <1>8, <1>9 DEF IInv

(* The watcher's entries are what the step leaves; others' stay.            *)
LEMMA EntriesAre ==
  ASSUME TypeInv, NEW w \in Watchers, NEW id \in Ids, NEW n \in {0, 1},
         watchers' = [watchers EXCEPT ![id] = [watchers[id] EXCEPT ![w] = n]]
  PROVE  /\ watchers' \in [Ids -> [Watchers -> {0, 1}]]
         /\ watchers'[id][w] = n
         /\ \A x \in Watchers, i \in Ids :
              x # w \/ i # id => watchers'[i][x] = watchers[i][x]
<1>1. PICK entries : entries = [watchers[id] EXCEPT ![w] = n]
  OBVIOUS
<1>2. watchers[id] \in [Watchers -> {0, 1}]
  BY DEF TypeInv
<1>3. entries \in [Watchers -> {0, 1}] /\ entries[w] = n
      /\ \A x \in Watchers : x # w => entries[x] = watchers[id][x]
  BY <1>1, <1>2
<1>4. watchers \in [Ids -> [Watchers -> {0, 1}]] /\ watchers' = [watchers EXCEPT ![id] = entries]
  BY <1>1 DEF TypeInv
<1> QED
  BY <1>3, <1>4

(* A client that watches starts over with the book or the gap there is.     *)
LEMMA WatchStep ==
  ASSUME IInv, NEW w \in Watchers, Watch(w)
  PROVE  IInv'
<1>1. TypeInv /\ BookInv /\ ViewInv /\ WantsInv
  BY DEF IInv
<1>2. PICK id : id = call[w].id
  OBVIOUS
<1>3. call[w].kind = "watch" /\ call[w] # NoCall
  BY DEF Watch, NoCall
<1>4. id \in Ids /\ ~Unwatching(w, id)
  BY <1>1, <1>2, <1>3 DEF TypeInv, Call, Unwatching
<1>5. PICK t : t = ToldAll(view[w][id], FirstPayloads(id))
  OBVIOUS
<1>6. PICK row : row = [view[w] EXCEPT ![id] = t]
  OBVIOUS
<1>7. view[w] \in [Ids -> View] /\ view[w][id] \in View
  BY <1>1, <1>4 DEF TypeInv
<1>8. /\ view' = [view EXCEPT ![w] = row]
      /\ watchers' = [watchers EXCEPT ![id] = [watchers[id] EXCEPT ![w] = 1]]
      /\ wants' = [wants EXCEPT ![w] = @ \cup {id}]
      /\ call' = [call EXCEPT ![w] = NoCall]
      /\ UNCHANGED <<life, bookVars, delivered, called>>
  <2>1. view' = [view EXCEPT ![w] = [view[w] EXCEPT ![id] = ToldAll(view[w][id], FirstPayloads(id))]]
    BY <1>2 DEF Watch
  <2> QED
    BY <1>2, <1>5, <1>6, <2>1 DEF Watch, WatchersWith
<1>9. t \in View /\ ~t.unannounced /\ Knows(t, book[id], gapStatus[id])
  <2>1. /\ book[id] \in Place /\ gapStatus[id] \in {"none"} \cup Gap /\ hasSnapshot[id] \in BOOLEAN
        /\ BookOf(book[id], hasSnapshot[id], gapStatus[id])
    BY <1>1, <1>4 DEF TypeInv, BookInv
  <2> QED
    BY <1>4, <1>5, <1>7, <2>1, ToldFirst
<1>10. row \in [Ids -> View] /\ row[id] = t /\ \A i \in Ids : i # id => row[i] = view[w][i]
  BY <1>4, <1>6, <1>7, <1>9
<1>11. /\ view' \in [Watchers -> [Ids -> View]] /\ view'[w] = row
       /\ \A x \in Watchers : x # w => view'[x] = view[x]
  BY <1>1, <1>8, <1>10 DEF TypeInv
<1>12. /\ watchers' \in [Ids -> [Watchers -> {0, 1}]]
       /\ watchers'[id][w] = 1
       /\ \A x \in Watchers, i \in Ids :
            x # w \/ i # id => watchers'[i][x] = watchers[i][x]
  BY <1>1, <1>4, <1>8, EntriesAre
<1>13. TypeInv'
  <2>1. call' \in [Watchers -> {NoCall} \cup Call] /\ wants' \in [Watchers -> SUBSET Ids]
    BY <1>1, <1>4, <1>8 DEF TypeInv
  <2> QED
    BY <1>1, <1>8, <1>11, <1>12, <2>1 DEF TypeInv, bookVars, NoCall
<1>14. BookInv'
  BY <1>1, <1>8 DEF BookInv, BookOf, bookVars, NoBook
<1>15. ViewInv'
  <2>1. SUFFICES ASSUME NEW x \in Watchers, NEW i \in Ids
                 PROVE  /\ watchers'[i][x] > 0 => Knows(view'[x][i], book[i], gapStatus[i])
                        /\ ~view'[x][i].unannounced
    BY <1>8 DEF ViewInv, IsWatching, Knows, bookVars, Gap
  <2>2. CASE x = w /\ i = id
    BY <1>9, <1>10, <1>11, <2>2
  <2>3. CASE x # w \/ i # id
    <3>1. view'[x][i] = view[x][i] /\ watchers'[i][x] = watchers[i][x]
      BY <1>10, <1>11, <1>12, <2>3
    <3> QED
      BY <1>1, <3>1 DEF ViewInv, IsWatching
  <2> QED
    BY <2>2, <2>3
<1>16. WantsInv'
  <2>1. SUFFICES ASSUME NEW x \in Watchers, NEW i \in Ids
                 PROVE  /\ life[i] = "unused" =>
                             /\ ~(watchers'[i][x] > 0) /\ i \notin wants'[x]
                             /\ call'[x] # NoCall => call'[x].id # i
                        /\ life[i] = "live" /\ call'[x] # [kind |-> "unwatch", id |-> i]
                             => (watchers'[i][x] > 0 <=> i \in wants'[x])
                        /\ call'[x] = [kind |-> "unwatch", id |-> i] => i \notin wants'[x]
    BY <1>8 DEF WantsInv, IsWatching, Unwatching, NoCall
  <2>2. life[id] # "unused"
    BY <1>1, <1>2, <1>3, <1>4 DEF WantsInv
  <2>3. CASE x = w
    <3>1. call'[w] = NoCall /\ wants'[w] = wants[w] \cup {id}
          /\ call'[w] # [kind |-> "unwatch", id |-> i]
      BY <1>1, <1>8 DEF TypeInv, NoCall
    <3>2. CASE i = id
      BY <1>12, <2>2, <2>3, <3>1, <3>2
    <3>3. CASE i # id
      <4>1. watchers'[i][x] = watchers[i][x] /\ ~Unwatching(w, i)
        BY <1>3, <1>12, <3>3 DEF Unwatching
      <4> QED
        BY <1>1, <2>3, <3>1, <3>3, <4>1 DEF WantsInv, IsWatching
    <3> QED
      BY <3>2, <3>3
  <2>4. CASE x # w
    <3>1. call'[x] = call[x] /\ wants'[x] = wants[x] /\ watchers'[i][x] = watchers[i][x]
      BY <1>1, <1>8, <1>12, <2>4 DEF TypeInv
    <3> QED
      BY <1>1, <3>1 DEF WantsInv, IsWatching, Unwatching
  <2> QED
    BY <2>3, <2>4
<1> QED
  BY <1>13, <1>14, <1>15, <1>16 DEF IInv

(* Nothing is sent to a client that no longer watches.                      *)
LEMMA UnwatchStep ==
  ASSUME IInv, NEW w \in Watchers, Unwatch(w)
  PROVE  IInv'
<1>1. TypeInv /\ BookInv /\ ViewInv /\ WantsInv
  BY DEF IInv
<1>2. PICK id : id = call[w].id
  OBVIOUS
<1>3. call[w].kind = "unwatch" /\ call[w] # NoCall
  BY DEF Unwatch, NoCall
<1>4. id \in Ids /\ Unwatching(w, id)
  BY <1>1, <1>2, <1>3 DEF TypeInv, Call, Unwatching
<1>5. /\ watchers' = [watchers EXCEPT ![id] = [watchers[id] EXCEPT ![w] = 0]]
      /\ call' = [call EXCEPT ![w] = NoCall]
      /\ UNCHANGED <<life, bookVars, wants, view, delivered, called>>
  BY <1>2 DEF Unwatch, WatchersWithout
<1>6. /\ watchers' \in [Ids -> [Watchers -> {0, 1}]]
      /\ watchers'[id][w] = 0
      /\ \A x \in Watchers, i \in Ids :
           x # w \/ i # id => watchers'[i][x] = watchers[i][x]
  BY <1>1, <1>4, <1>5, EntriesAre
<1>7. TypeInv'
  <2>1. call' \in [Watchers -> {NoCall} \cup Call]
    BY <1>1, <1>5 DEF TypeInv
  <2> QED
    BY <1>1, <1>5, <1>6, <2>1 DEF TypeInv, bookVars, NoCall
<1>8. BookInv'
  BY <1>1, <1>5 DEF BookInv, BookOf, bookVars, NoBook
<1>9. ViewInv'
  <2>1. SUFFICES ASSUME NEW x \in Watchers, NEW i \in Ids
                 PROVE  /\ watchers'[i][x] > 0 => Knows(view[x][i], book[i], gapStatus[i])
                        /\ ~view[x][i].unannounced
    BY <1>5 DEF ViewInv, IsWatching, Knows, bookVars, Gap
  <2>2. watchers'[i][x] > 0 => watchers[i][x] > 0
    BY <1>6
  <2> QED
    BY <1>1, <2>2 DEF ViewInv, IsWatching
<1>10. WantsInv'
  <2>1. SUFFICES ASSUME NEW x \in Watchers, NEW i \in Ids
                 PROVE  /\ life[i] = "unused" =>
                             /\ ~(watchers'[i][x] > 0) /\ i \notin wants[x]
                             /\ call'[x] # NoCall => call'[x].id # i
                        /\ life[i] = "live" /\ call'[x] # [kind |-> "unwatch", id |-> i]
                             => (watchers'[i][x] > 0 <=> i \in wants[x])
                        /\ call'[x] = [kind |-> "unwatch", id |-> i] => i \notin wants[x]
    BY <1>5 DEF WantsInv, IsWatching, Unwatching, NoCall
  <2>2. CASE x = w
    <3>1. call'[w] = NoCall /\ call'[w] # [kind |-> "unwatch", id |-> i]
      BY <1>1, <1>5 DEF TypeInv, NoCall
    <3>2. CASE i = id
      BY <1>1, <1>4, <1>6, <2>2, <3>1, <3>2 DEF WantsInv
    <3>3. CASE i # id
      <4>1. watchers'[i][x] = watchers[i][x] /\ ~Unwatching(w, i)
        BY <1>2, <1>6, <3>3 DEF Unwatching
      <4> QED
        BY <1>1, <2>2, <3>1, <3>3, <4>1 DEF WantsInv, IsWatching
    <3> QED
      BY <3>2, <3>3
  <2>3. CASE x # w
    <3>1. call'[x] = call[x] /\ watchers'[i][x] = watchers[i][x]
      BY <1>1, <1>5, <1>6, <2>3 DEF TypeInv
    <3> QED
      BY <1>1, <3>1 DEF WantsInv, IsWatching, Unwatching
  <2> QED
    BY <2>2, <2>3
<1> QED
  BY <1>7, <1>8, <1>9, <1>10 DEF IInv

-----------------------------------------------------------------------------
(* The theorems. *)

(* No stream has started and nobody watches.                                *)
LEMMA InitIsTold == StreamInit => IInv
<1> SUFFICES ASSUME StreamInit
             PROVE  IInv
  OBVIOUS
<1>1. NoBook \in Place /\ NoBook.seq = 0
  BY DEF NoBook, Place
<1>2. Untold \in View /\ ~Untold.unannounced
  BY <1>1 DEF Untold, View
<1>3. \A id \in Ids :
        /\ life[id] = "unused" /\ book[id] = NoBook /\ ~hasSnapshot[id] /\ gapStatus[id] = "none"
        /\ \A w \in Watchers : watchers[id][w] = 0
  BY DEF StreamInit
<1>4. \A w \in Watchers :
        call[w] = NoCall /\ wants[w] = {} /\ \A id \in Ids : view[w][id] = Untold
  BY DEF StreamInit
<1>5. TypeInv
  <2>1. /\ watchers \in [Ids -> [Watchers -> {0, 1}]]
        /\ view \in [Watchers -> [Ids -> View]]
    BY <1>2 DEF StreamInit
  <2>2. /\ life \in [Ids -> {"unused", "live", "detached", "gone"}]
        /\ hasSnapshot \in [Ids -> BOOLEAN] /\ gapStatus \in [Ids -> {"none"} \cup Gap]
        /\ delivered \in [Ids -> Nat] /\ called \in [Watchers -> Nat]
    BY DEF StreamInit
  <2>3. /\ book \in [Ids -> Place] /\ call \in [Watchers -> {NoCall} \cup Call]
        /\ wants \in [Watchers -> SUBSET Ids]
    BY <1>1 DEF StreamInit
  <2> QED
    BY <2>1, <2>2, <2>3 DEF TypeInv
<1>6. BookInv
  BY <1>3 DEF BookInv, BookOf
<1>7. ViewInv
  <2>1. ASSUME NEW w \in Watchers, NEW id \in Ids
        PROVE  ~IsWatching(w, id) /\ view[w][id] = Untold
    <3>1. watchers[id][w] = 0
      BY <1>3
    <3> QED
      BY <1>4, <3>1 DEF IsWatching
  <2> QED
    BY <1>2, <2>1 DEF ViewInv
<1>8. WantsInv
  <2>1. ASSUME NEW w \in Watchers, NEW id \in Ids
        PROVE  /\ ~IsWatching(w, id) /\ id \notin wants[w] /\ call[w] = NoCall
               /\ life[id] # "live"
    <3>1. watchers[id][w] = 0
      BY <1>3
    <3> QED
      BY <1>3, <1>4, <3>1 DEF IsWatching
  <2> QED
    BY <2>1 DEF WantsInv
<1> QED
  BY <1>5, <1>6, <1>7, <1>8 DEF IInv

(* Each step of the parser, the manager and the clients' commands.          *)
LEMMA NextIsTold == IInv /\ [StreamNext]_outboxVars => IInv'
<1> SUFFICES ASSUME IInv, [StreamNext]_outboxVars
             PROVE  IInv'
  OBVIOUS
<1>1. ASSUME NEW id \in Ids, Start(id) \/ Stop(id)
      PROVE  IInv'
  BY <1>1, LifeStep
<1>2. ASSUME NEW id \in Ids, ReceiveSnapshot(id)
      PROVE  IInv'
  BY <1>2, SnapshotStep
<1>3. ASSUME NEW id \in Ids, ReceiveUpdate(id)
      PROVE  IInv'
  BY <1>3, UpdateStep
<1>4. ASSUME NEW id \in Ids, NEW gap \in {"disconnected", "resubscribing"}, Interrupt(id, gap)
      PROVE  IInv'
  BY <1>4, InterruptStep
<1>5. ASSUME NEW w \in Watchers, NEW id \in Ids, NEW kind \in {"watch", "unwatch"},
             Find(w, kind, id)
      PROVE  IInv'
  BY <1>5, FindStep
<1>6. ASSUME NEW w \in Watchers, Watch(w)
      PROVE  IInv'
  BY <1>6, WatchStep
<1>7. ASSUME NEW w \in Watchers, Unwatch(w)
      PROVE  IInv'
  BY <1>7, UnwatchStep
<1>8. CASE UNCHANGED outboxVars
  <2> USE <1>8 DEF outboxVars, bookVars, IInv
  <2>1. TypeInv'
    BY DEF TypeInv, NoCall
  <2>2. BookInv' /\ ViewInv'
    BY DEF BookInv, BookOf, ViewInv, IsWatching, Knows, NoBook, Gap
  <2>3. WantsInv'
    BY DEF WantsInv, IsWatching, Unwatching, NoCall
  <2> QED
    BY <2>1, <2>2, <2>3
<1> QED
  BY <1>1, <1>2, <1>3, <1>4, <1>5, <1>6, <1>7, <1>8 DEF StreamNext

(* A client is an entry of a stream's watchers at most once, and what it    *)
(* was told is what the stream is.                                         *)
THEOREM StreamInvariant == StreamSpec => []IInv
BY InitIsTold, NextIsTold, PTL DEF StreamSpec

(* "A client can start watching at any time" (stream.h:27), and a gap is    *)
(* told and ended to each client that watches (stream.h:31).               *)
THEOREM BooksAreShared == StreamSpec => []WatchersHaveBook
<1>1. IInv => WatchersHaveBook
  BY DEF IInv, ViewInv, Knows, WatchersHaveBook
<1> QED
  BY <1>1, StreamInvariant, PTL

(* Watch() and Unwatch() take effect, whatever came between the lookup of   *)
(* the stream and the call (outbox.cc:29, stream.h:63).                    *)
THEOREM CallsTakeEffect == StreamSpec => []WatchedAsWanted
<1>1. ASSUME IInv, NEW w \in Watchers, NEW id \in Ids, life[id] = "live", call[w] = NoCall
      PROVE  IsWatching(w, id) <=> id \in wants[w]
  <2>1. ~Unwatching(w, id)
    BY <1>1 DEF Unwatching, NoCall
  <2> QED
    BY <1>1, <2>1 DEF IInv, WantsInv
<1>2. IInv => WatchedAsWanted
  BY <1>1 DEF WatchedAsWanted
<1> QED
  BY <1>2, StreamInvariant, PTL
=============================================================================
