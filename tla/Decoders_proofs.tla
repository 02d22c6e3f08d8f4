-------------------------- MODULE Decoders_proofs --------------------------
(***************************************************************************)
(* Proofs about the decoders (Decoders).  Of Coinbase's: for any products, *)
(* any number of frames, and any number of them lost, damaged, repeated or *)
(* overtaken on their way.  Of Kraken's: for any prices, quantities,       *)
(* decimals and depths, any number of changes to its book, and every form  *)
(* of the frames that tell of them.                                        *)
(***************************************************************************)
EXTENDS Decoders, FiniteSetTheorems, TLAPS

-----------------------------------------------------------------------------
(* The inductive invariant.  What the venue sends: its numbers are those   *)
(* from 1 to `numbered`, each of one frame, in the order sent, and so are  *)
(* the heartbeats' counters, but for those that were skipped.              *)
Frames == [channel : Channels, events : Events \cup {<<>>}, counter : Nat, sequence : Nat]

Emissions == {Emission(f) : f \in Frames}

Numbered == {i \in DOMAIN sent : sent[i].channel # "error"}

TypeInv ==
  /\ sent \in Seq(Frames) /\ numbered \in Nat /\ heartbeats \in Nat
  /\ emitted \in Seq(Emissions)
  /\ lastSequence \in Nat /\ lastHeartbeat \in Nat /\ first \in Nat /\ failed \in BOOLEAN

NumbersInv ==
  /\ \A i \in Numbered : sent[i].sequence \in 1..numbered
  /\ \A i \in DOMAIN sent \ Numbered : sent[i].sequence = None
  /\ \A i, j \in Numbered : i < j => sent[i].sequence < sent[j].sequence
  /\ \A n \in 1..numbered : \E i \in Numbered : sent[i].sequence = n

CountersInv ==
  /\ \A i \in Heartbeats : sent[i].counter \in 1..heartbeats
  /\ \A i, j \in Heartbeats : i < j => sent[i].counter < sent[j].counter

(* On its way is only what was sent, or a frame that shows its damage.     *)
Damaged == [channel : {"garbled", "mistyped"}, events : Events \cup {<<>>},
            counter : Nat, sequence : Nat]

Sendings == {sent[i] : i \in DOMAIN sent} \cup Damaged

WireInv == wire \in Seq(Sendings)

(* The frames followed are those numbered `first` to `lastSequence`.       *)
Followed(i) ==
  first # None /\ first <= sent[i].sequence /\ sent[i].sequence <= lastSequence

FollowInv ==
  /\ lastSequence <= numbered /\ first <= lastSequence
  /\ first = None => lastSequence = None /\ emitted = <<>>

(* What was emitted is what they hold, in order.                           *)
EmitInv ==
  /\ \A k \in DOMAIN emitted :
       \E i \in BookFrames : Followed(i) /\ emitted[k] = Emission(sent[i])
  /\ \A k, l \in DOMAIN emitted : k < l => emitted[k].sequence < emitted[l].sequence
  /\ \A i \in BookFrames : Followed(i) => \E k \in DOMAIN emitted : emitted[k] = Emission(sent[i])

(* Until it fails, the decoder's counter is the last heartbeat's of these. *)
BeatInv ==
  ~failed =>
    /\ \A i \in Heartbeats : Followed(i) => sent[i].counter <= lastHeartbeat
    /\ lastHeartbeat # None => \E i \in Heartbeats : Followed(i) /\ sent[i].counter = lastHeartbeat

(* A heartbeat that skipped is as far as it gets, and it fails there.      *)
SkipInv ==
  \A i, j \in Heartbeats :
    SkipsAt(i, j) /\ first # None /\ first <= sent[i].sequence =>
      /\ lastSequence <= sent[j].sequence
      /\ lastSequence = sent[j].sequence => failed

IInv ==
  TypeInv /\ NumbersInv /\ CountersInv /\ WireInv /\ FollowInv /\ EmitInv /\ BeatInv /\ SkipInv

LEMMA InitInv == Init => IInv
<1>1. SUFFICES ASSUME Init PROVE IInv
  OBVIOUS
<1>2. TypeInv
  <2>1. <<>> \in Seq(Frames) /\ <<>> \in Seq(Emissions)
    OBVIOUS
  <2>2. QED
    BY <1>1, <2>1 DEF Init, TypeInv, None
<1>3. NumbersInv /\ CountersInv /\ FollowInv
  BY <1>1 DEF Init, NumbersInv, Numbered, CountersInv, Heartbeats, FollowInv, None
<1>4. WireInv
  BY <1>1 DEF Init, WireInv
<1>5. EmitInv /\ BeatInv /\ SkipInv
  BY <1>1 DEF Init, EmitInv, BookFrames, BeatInv, SkipInv, Heartbeats, None
<1>6. QED
  BY <1>2, <1>3, <1>4, <1>5 DEF IInv

-----------------------------------------------------------------------------
(* The venue sends. *)

(* A frame that is sent leaves those before it as they are. *)
LEMMA SentGrows ==
  ASSUME NEW S, NEW s \in Seq(S), NEW e \in S
  PROVE  /\ Append(s, e) \in Seq(S)
         /\ DOMAIN Append(s, e) = DOMAIN s \cup {Len(s) + 1} /\ DOMAIN s = 1..Len(s) /\ Len(s) \in Nat
         /\ \A i \in DOMAIN s : Append(s, e)[i] = s[i]
         /\ Append(s, e)[Len(s) + 1] = e
OBVIOUS

(* What a frame sent adds to what was sent. *)
Adds(frame, n, channel) ==
  /\ n \notin DOMAIN sent /\ DOMAIN sent' = DOMAIN sent \cup {n}
  /\ \A i \in DOMAIN sent : sent'[i] = sent[i] /\ i \in Nat /\ i < n
  /\ sent'[n] = frame /\ sent' \in Seq(Frames) /\ wire' = Append(wire, frame)
  /\ frame.channel = channel /\ frame.counter = heartbeats'
  /\ heartbeats' \in Nat /\ numbered' \in Nat
  /\ channel = "error" => numbered' = numbered /\ frame.sequence = None
  /\ channel # "error" => numbered' = numbered + 1 /\ frame.sequence = numbered'
  /\ channel = "heartbeats" => heartbeats' > heartbeats
  /\ channel # "heartbeats" => heartbeats' = heartbeats

LEMMA SendAdds ==
  ASSUME TypeInv, NEW channel \in Channels, NEW events \in Events \cup {<<>>},
         NEW skips \in {0, 1}, Send(channel, events, skips)
  PROVE  \E frame \in Frames, n \in Nat : Adds(frame, n, channel)
<1> DEFINE frame == [channel |-> channel, events |-> events, counter |-> heartbeats',
                     sequence |-> IF channel = "error" THEN None ELSE numbered']
           n == Len(sent) + 1
<1>1. heartbeats' \in Nat /\ numbered' \in Nat /\ None \in Nat
  BY DEF TypeInv, Send, None
<1>2. frame \in Frames
  BY <1>1 DEF Frames
<1>3. sent' = Append(sent, frame) /\ wire' = Append(wire, frame)
  BY DEF Send
<1>4. /\ frame.channel = channel /\ frame.counter = heartbeats'
      /\ channel = "error" => numbered' = numbered /\ frame.sequence = None
      /\ channel # "error" => numbered' = numbered + 1 /\ frame.sequence = numbered'
      /\ channel = "heartbeats" => heartbeats' > heartbeats
      /\ channel # "heartbeats" => heartbeats' = heartbeats
  BY DEF TypeInv, Send
<1> HIDE DEF frame
<1>5. sent \in Seq(Frames)
  BY DEF TypeInv
<1>6. /\ sent' \in Seq(Frames)
      /\ DOMAIN sent' = DOMAIN sent \cup {n} /\ DOMAIN sent = 1..Len(sent) /\ Len(sent) \in Nat
      /\ \A i \in DOMAIN sent : sent'[i] = sent[i]
      /\ sent'[n] = frame
  BY <1>2, <1>3, <1>5, SentGrows
<1>7. n \in Nat /\ n \notin DOMAIN sent /\ \A i \in DOMAIN sent : i \in Nat /\ i < n
  BY <1>6
<1> HIDE DEF n
<1>8. QED
  BY <1>1, <1>2, <1>3, <1>4, <1>6, <1>7 DEF Adds

LEMMA SendKeeps ==
  ASSUME IInv, NEW channel \in Channels, NEW events \in Events \cup {<<>>},
         NEW skips \in {0, 1}, Send(channel, events, skips)
  PROVE  IInv'
<1>0. TypeInv
  BY DEF IInv
<1>1. PICK frame \in Frames, n \in Nat : Adds(frame, n, channel)
  BY <1>0, SendAdds
<1>2. UNCHANGED <<lastSequence, lastHeartbeat, emitted, failed, first>>
  BY DEF Send, decoderVars
<1>3. /\ sent \in Seq(Frames) /\ numbered \in Nat /\ heartbeats \in Nat
      /\ lastSequence \in Nat /\ lastHeartbeat \in Nat /\ first \in Nat
      /\ \A i \in DOMAIN sent : sent[i].sequence \in Nat /\ sent[i].counter \in Nat
  <2>1. \A i \in DOMAIN sent : sent[i] \in Frames
    BY <1>0 DEF TypeInv
  <2>2. QED
    BY <1>0, <2>1 DEF TypeInv, Frames
<1>4. TypeInv'
  BY <1>1, <1>2 DEF IInv, TypeInv, Adds
<1>5. /\ Numbered' = Numbered \cup (IF channel = "error" THEN {} ELSE {n})
      /\ Heartbeats' = Heartbeats \cup (IF channel = "heartbeats" THEN {n} ELSE {})
      /\ Heartbeats \subseteq Numbered /\ Numbered \subseteq DOMAIN sent
  BY <1>1 DEF Numbered, Heartbeats, Adds
<1>6. \A i \in DOMAIN sent : i # n /\ sent'[i] = sent[i] /\ i \in Nat /\ i < n
  BY <1>1 DEF Adds
<1>7. NumbersInv'
  <2>1. \A i \in Numbered' : sent'[i].sequence \in 1..numbered'
    BY <1>1, <1>3, <1>5 DEF IInv, NumbersInv, Adds
  <2>2. \A i \in DOMAIN sent' \ Numbered' : sent'[i].sequence = None
    BY <1>1, <1>5 DEF IInv, NumbersInv, Adds
  <2>3. \A i, j \in Numbered' : i < j => sent'[i].sequence < sent'[j].sequence
    <3>1. \A i \in Numbered : sent[i].sequence <= numbered
      BY <1>3 DEF IInv, NumbersInv
    <3>2. QED
      BY <1>1, <1>3, <1>5, <1>6, <3>1 DEF IInv, NumbersInv, Adds
  <2>4. ASSUME NEW k \in 1..numbered'
        PROVE  \E i \in Numbered' : sent'[i].sequence = k
    <3>1. CASE k \in 1..numbered
      BY <1>5, <1>6, <3>1 DEF IInv, NumbersInv
    <3>2. CASE k \notin 1..numbered
      <4>1. channel # "error" /\ k = numbered'
        BY <1>1, <1>3, <3>2 DEF Adds
      <4>2. QED
        BY <1>1, <1>5, <4>1 DEF Adds
    <3>3. QED
      BY <3>1, <3>2
  <2>5. QED
    BY <2>1, <2>2, <2>3, <2>4 DEF NumbersInv
<1>8. CountersInv'
  <2>1. \A i \in Heartbeats' : sent'[i].counter \in 1..heartbeats'
    BY <1>1, <1>3, <1>5, <1>6 DEF IInv, CountersInv, Adds
  <2>2. \A i, j \in Heartbeats' : i < j => sent'[i].counter < sent'[j].counter
    BY <1>1, <1>3, <1>5, <1>6, <2>1 DEF IInv, CountersInv, Adds
  <2>3. QED
    BY <2>1, <2>2 DEF CountersInv
<1>9. WireInv'
  <2>1. Sendings \subseteq Sendings'
    BY <1>1, <1>6 DEF Sendings, Adds
  <2>2. frame \in Sendings'
    BY <1>1 DEF Sendings, Adds
  <2>3. wire \in Seq(Sendings)
    BY DEF IInv, WireInv
  <2>4. wire \in Seq(Sendings')
    BY <2>1, <2>3
  <2>5. QED
    BY <1>1, <2>2, <2>4 DEF WireInv, Adds
<1>10. FollowInv'
  BY <1>1, <1>2, <1>3 DEF IInv, FollowInv, Adds
(* The new frame is past what was followed, and the others are as before. *)
<1>11. \A i \in DOMAIN sent' : Followed(i)' <=> i \in DOMAIN sent /\ Followed(i)
  <2>1. ~ Followed(n)'
    BY <1>1, <1>2, <1>3 DEF IInv, FollowInv, Followed, None, Adds
  <2>2. \A i \in DOMAIN sent : Followed(i)' <=> Followed(i)
    BY <1>2, <1>6 DEF Followed
  <2>3. QED
    BY <1>1, <2>1, <2>2 DEF Adds
<1>12. EmitInv'
  <2>1. /\ BookFrames \subseteq BookFrames' /\ BookFrames \subseteq DOMAIN sent
        /\ BookFrames' \subseteq DOMAIN sent'
        /\ \A i \in BookFrames' : i \in DOMAIN sent => i \in BookFrames
    BY <1>1, <1>2, <1>6 DEF BookFrames, Adds
  <2>2. \A i \in DOMAIN sent : Emission(sent'[i]) = Emission(sent[i])
    BY <1>6
  <2>3. ASSUME NEW k \in DOMAIN emitted
        PROVE  \E i \in BookFrames' : Followed(i)' /\ emitted[k] = Emission(sent'[i])
    BY <1>11, <2>1, <2>2 DEF IInv, EmitInv
  <2>4. ASSUME NEW i \in BookFrames', Followed(i)'
        PROVE  \E k \in DOMAIN emitted : emitted[k] = Emission(sent'[i])
    BY <1>11, <2>1, <2>2, <2>4 DEF IInv, EmitInv
  <2>5. QED
    BY <1>2, <2>3, <2>4 DEF IInv, EmitInv
<1>13. BeatInv'
  BY <1>1, <1>2, <1>5, <1>6, <1>11 DEF IInv, BeatInv, Adds
<1>14. SkipInv'
  <2>1. SUFFICES ASSUME NEW i \in Heartbeats', NEW j \in Heartbeats',
                        SkipsAt(i, j)', first # None, first <= sent'[i].sequence
                 PROVE  /\ lastSequence <= sent'[j].sequence
                        /\ lastSequence = sent'[j].sequence => failed
    BY <1>2 DEF SkipInv
  <2>2. i \in DOMAIN sent
    BY <1>1, <1>5, <1>6, <2>1 DEF SkipsAt, Adds
  <2>3. CASE j = n
    BY <1>1, <1>3, <1>5, <1>6, <2>2, <2>3 DEF IInv, FollowInv, NumbersInv, Adds
  <2>4. CASE j \in DOMAIN sent
    <3>1. i \in Heartbeats /\ j \in Heartbeats
      BY <1>5, <1>6, <2>2, <2>4
    <3>2. SkipsAt(i, j)
      BY <1>5, <1>6, <2>1, <3>1, <2>2, <2>4 DEF SkipsAt
    <3>3. QED
      BY <1>6, <2>1, <2>2, <2>4, <3>1, <3>2 DEF IInv, SkipInv
  <2>5. QED
    BY <1>1, <1>5, <2>3, <2>4 DEF Adds
<1>15. QED
  BY <1>4, <1>7, <1>8, <1>9, <1>10, <1>12, <1>13, <1>14 DEF IInv

-----------------------------------------------------------------------------
(* The wire. *)

(* Whatever is taken out, put twice, replaced or swapped, a sequence of S  *)
(* stays one.                                                              *)
LEMMA Disturbed ==
  ASSUME NEW S, NEW s \in Seq(S), NEW i \in 1..Len(s)
  PROVE  /\ RemoveAt(s, i) \in Seq(S)
         /\ \A e \in S : ReplaceAt(s, i, e) \in Seq(S) /\ Len(ReplaceAt(s, i, e)) = Len(s)
         /\ \A e \in S : InsertAt(s, i, e) \in Seq(S)
<1>1. Len(s) \in Nat /\ i \in Nat /\ 1 <= i /\ i <= Len(s)
  OBVIOUS
<1>2. SubSeq(s, 1, i - 1) \in Seq(S) /\ SubSeq(s, i + 1, Len(s)) \in Seq(S)
      /\ SubSeq(s, i, Len(s)) \in Seq(S)
  BY <1>1
<1>3. RemoveAt(s, i) \in Seq(S)
  BY <1>2 DEF RemoveAt
<1>4. ASSUME NEW e \in S
      PROVE  /\ ReplaceAt(s, i, e) \in Seq(S) /\ Len(ReplaceAt(s, i, e)) = Len(s)
             /\ InsertAt(s, i, e) \in Seq(S)
  <2>1. <<e>> \in Seq(S)
    OBVIOUS
  <2>2. InsertAt(s, i, e) \in Seq(S)
    BY <1>2, <2>1 DEF InsertAt
  <2>3. ReplaceAt(s, i, e) \in Seq(S) /\ Len(ReplaceAt(s, i, e)) = Len(s)
    BY DEF ReplaceAt
  <2>4. QED
    BY <2>2, <2>3
<1>5. QED
  BY <1>3, <1>4

(* Damage to what is on its way leaves what may be. *)
LEMMA DamagedIsSending ==
  ASSUME NEW f \in Sendings, sent \in Seq(Frames)
  PROVE  [f EXCEPT !.channel = "garbled"] \in Sendings /\ Mistyped(f) \subseteq Sendings
<1>1. f \in [channel : {f.channel}, events : Events \cup {<<>>}, counter : Nat, sequence : Nat]
  <2>1. CASE f \in Damaged
    BY <2>1 DEF Damaged
  <2>2. CASE f \in Frames
    BY <2>2 DEF Frames
  <2>3. QED
    BY <2>1, <2>2 DEF Sendings
<1>2. [f EXCEPT !.channel = "garbled"] \in Damaged
  BY <1>1 DEF Damaged
<1>3. \A n \in Nat : [f EXCEPT !.channel = "mistyped", !.sequence = n] \in Damaged
  BY <1>1 DEF Damaged
<1>4. None \in Nat
  BY DEF None
<1>5. QED
  BY <1>1, <1>2, <1>3, <1>4 DEF Mistyped, Sendings

LEMMA DisturbKeeps ==
  ASSUME IInv, Disturb
  PROVE  IInv'
<1>1. /\ UNCHANGED <<sent, numbered, heartbeats>>
      /\ UNCHANGED <<lastSequence, lastHeartbeat, emitted, failed, first>>
  BY DEF Disturb, decoderVars
<1>2. wire \in Seq(Sendings) /\ Sendings' = Sendings
  BY <1>1 DEF IInv, WireInv, Sendings, Damaged
<1>3. PICK i \in 1..Len(wire) :
        \/ wire' = RemoveAt(wire, i)
        \/ \E frame \in {[wire[i] EXCEPT !.channel = "garbled"]} \cup Mistyped(wire[i]) :
             wire' = ReplaceAt(wire, i, frame)
        \/ wire' = InsertAt(wire, i, wire[i])
        \/ i < Len(wire) /\ wire' = ReplaceAt(ReplaceAt(wire, i, wire[i + 1]), i + 1, wire[i])
  BY DEF Disturb
<1>4. /\ wire[i] \in Sendings
      /\ {[wire[i] EXCEPT !.channel = "garbled"]} \cup Mistyped(wire[i]) \subseteq Sendings
  <2>1. wire[i] \in Sendings
    BY <1>2
  <2>2. sent \in Seq(Frames)
    BY DEF IInv, TypeInv
  <2>3. QED
    BY <2>1, <2>2, DamagedIsSending
<1>5. ASSUME i < Len(wire), wire' = ReplaceAt(ReplaceAt(wire, i, wire[i + 1]), i + 1, wire[i])
      PROVE  wire' \in Seq(Sendings)
  <2>1. wire[i + 1] \in Sendings /\ i + 1 \in 1..Len(wire)
    BY <1>2, <1>5
  <2>2. /\ ReplaceAt(wire, i, wire[i + 1]) \in Seq(Sendings)
        /\ Len(ReplaceAt(wire, i, wire[i + 1])) = Len(wire)
    BY <1>2, <2>1, Disturbed
  <2>3. wire' \in Seq(Sendings)
    BY <1>4, <1>5, <2>1, <2>2, Disturbed
  <2>4. QED
    BY <2>3
<1>6. wire' \in Seq(Sendings)
  BY <1>2, <1>3, <1>4, <1>5, Disturbed
<1>7. TypeInv' /\ NumbersInv' /\ CountersInv' /\ FollowInv'
  BY <1>1 DEF IInv, TypeInv, NumbersInv, Numbered, CountersInv, Heartbeats, FollowInv
<1>8. EmitInv'
  BY <1>1 DEF IInv, EmitInv, BookFrames, Followed
<1>9. BeatInv' /\ SkipInv'
  BY <1>1 DEF IInv, BeatInv, SkipInv, Heartbeats, Followed, SkipsAt
<1>10. WireInv'
  BY <1>2, <1>6 DEF WireInv
<1>11. QED
  BY <1>7, <1>8, <1>9, <1>10 DEF IInv

-----------------------------------------------------------------------------
(* The decoder. *)

(* A frame that comes, if it is no error and not damaged, is one that was  *)
(* sent, and the only one of its number.                                   *)
LEMMA FrameIsSent ==
  ASSUME IInv, wire # <<>>
  PROVE  /\ Tail(wire) \in Seq(Sendings)
         /\ Head(wire).channel \notin {"garbled", "error", "mistyped"} =>
              \E m \in Numbered :
                /\ Head(wire) = sent[m]
                /\ \A i \in DOMAIN sent : sent[i].sequence = sent[m].sequence => i = m
<1>1. wire \in Seq(Sendings) /\ sent \in Seq(Frames)
  BY DEF IInv, WireInv, TypeInv
<1>2. Head(wire) \in Sendings /\ Tail(wire) \in Seq(Sendings)
  BY <1>1
<1>3. \A i \in DOMAIN sent : sent[i] \in Frames /\ i \in Nat
  BY <1>1
<1>4. \A f \in Damaged : f.channel \in {"garbled", "mistyped"}
  BY DEF Damaged
<1>5. SUFFICES ASSUME Head(wire).channel \notin {"garbled", "error", "mistyped"}
               PROVE  \E m \in Numbered :
                        /\ Head(wire) = sent[m]
                        /\ \A i \in DOMAIN sent : sent[i].sequence = sent[m].sequence => i = m
  BY <1>2
<1>6. PICK m \in DOMAIN sent : Head(wire) = sent[m]
  BY <1>2, <1>4, <1>5 DEF Sendings
<1>7. m \in Numbered
  BY <1>5, <1>6 DEF Numbered
<1>8. ASSUME NEW i \in DOMAIN sent, sent[i].sequence = sent[m].sequence
      PROVE  i = m
  <2>1. numbered \in Nat /\ Numbered \subseteq DOMAIN sent
    BY DEF IInv, TypeInv, Numbered
  <2>2. sent[m].sequence \in 1..numbered
    BY <1>7 DEF IInv, NumbersInv
  <2>3. i \in Numbered
    BY <1>8, <2>1, <2>2 DEF IInv, NumbersInv, None
  <2>4. ~(i < m) /\ ~(m < i)
    BY <1>7, <1>8, <2>1, <2>2, <2>3 DEF IInv, NumbersInv
  <2>5. QED
    BY <1>3, <2>4
<1>9. QED
  BY <1>6, <1>7, <1>8

(* A step that follows no frame on leaves all that was said, unless it     *)
(* fails.                                                                  *)
LEMMA StayKeeps ==
  ASSUME IInv, UNCHANGED <<sent, numbered, heartbeats>>, wire' \in Seq(Sendings),
         UNCHANGED <<lastSequence, lastHeartbeat, emitted, first>>,
         failed' \in BOOLEAN, failed => failed'
  PROVE  IInv'
<1>1. TypeInv' /\ NumbersInv' /\ CountersInv' /\ FollowInv'
  BY DEF IInv, TypeInv, NumbersInv, Numbered, CountersInv, Heartbeats, FollowInv
<1>2. EmitInv'
  BY DEF IInv, EmitInv, BookFrames, Followed
<1>3. BeatInv' /\ SkipInv'
  BY DEF IInv, BeatInv, SkipInv, Heartbeats, Followed, SkipsAt
<1>4. WireInv'
  BY DEF WireInv, Sendings
<1>5. QED
  BY <1>1, <1>2, <1>3, <1>4 DEF IInv

(* What the frames followed are, before and after the next one.            *)
FollowsOn(m) ==
  /\ m \in Numbered /\ ~failed
  /\ lastSequence' = sent[m].sequence
  /\ Advances(lastSequence, sent[m].sequence)
  /\ first' = IF first = None THEN sent[m].sequence ELSE first
  /\ UNCHANGED <<sent, numbered, heartbeats>>
  /\ \A i \in DOMAIN sent : sent[i].sequence = sent[m].sequence => i = m

LEMMA FollowedNext ==
  ASSUME IInv, NEW m \in DOMAIN sent, FollowsOn(m)
  PROVE  /\ lastSequence' \in Nat /\ first' \in Nat /\ first' # None
         /\ \A i \in DOMAIN sent : Followed(i)' <=> Followed(i) \/ i = m
         /\ \A i \in DOMAIN sent : Followed(i) => sent[i].sequence < sent[m].sequence
         /\ FollowInv'
<1>1. /\ lastSequence \in Nat /\ first \in Nat /\ numbered \in Nat
      /\ sent[m].sequence \in 1..numbered
      /\ lastSequence <= numbered /\ first <= lastSequence
      /\ first = None => lastSequence = None
  BY DEF IInv, TypeInv, FollowInv, NumbersInv, FollowsOn
<1>2. \A i \in DOMAIN sent : sent[i].sequence \in Nat
  <2>1. \A i \in DOMAIN sent : sent[i] \in Frames
    BY DEF IInv, TypeInv
  <2>2. QED
    BY <2>1 DEF Frames
<1>3. /\ lastSequence' = sent[m].sequence
      /\ lastSequence = None \/ sent[m].sequence = lastSequence + 1
      /\ first' = IF first = None THEN sent[m].sequence ELSE first
      /\ UNCHANGED sent /\ UNCHANGED numbered
      /\ \A i \in DOMAIN sent : sent[i].sequence = sent[m].sequence => i = m
  BY <1>1 DEF FollowsOn, Advances, OutOfOrder, Skips
<1>4. \A i \in DOMAIN sent : Followed(i) => sent[i].sequence < sent[m].sequence
  BY <1>1, <1>2, <1>3 DEF Followed, None
<1>5. \A i \in DOMAIN sent : Followed(i)' <=> Followed(i) \/ i = m
  <2>1. CASE first = None
    BY <1>1, <1>2, <1>3, <2>1 DEF Followed, None
  <2>2. CASE first # None
    BY <1>1, <1>2, <1>3, <2>2 DEF Followed, None
  <2>3. QED
    BY <2>1, <2>2
<1>6. FollowInv' /\ first' # None /\ first' \in Nat /\ lastSequence' \in Nat
  BY <1>1, <1>3 DEF FollowInv, None
<1>7. QED
  BY <1>4, <1>5, <1>6

(* The book frames followed are those frames followed that hold changes. *)
LEMMA BookFollowed ==
  \A i : i \in BookFrames /\ Followed(i)
           <=> i \in DOMAIN sent /\ sent[i].channel = "l2_data" /\ Followed(i)
BY DEF BookFrames, Followed

(* The next frame's changes go behind those of the frames before it.       *)
LEMMA EmitsNext ==
  ASSUME IInv, NEW m \in DOMAIN sent, FollowsOn(m),
         emitted' = IF sent[m].channel = "l2_data" THEN Append(emitted, Emission(sent[m])) ELSE emitted
  PROVE  EmitInv' /\ emitted' \in Seq(Emissions)
<1>1. /\ UNCHANGED sent
      /\ \A i \in DOMAIN sent : Followed(i)' <=> Followed(i) \/ i = m
      /\ \A i \in DOMAIN sent : Followed(i) => sent[i].sequence < sent[m].sequence
  BY FollowedNext DEF FollowsOn
<1>2. emitted \in Seq(Emissions) /\ Emission(sent[m]) \in Emissions
  BY DEF IInv, TypeInv, Emissions
<1>3. emitted' \in Seq(Emissions)
  BY <1>2
<1>4. \A i : i \in BookFrames' /\ Followed(i)'
             <=> \/ i \in BookFrames /\ Followed(i)
                 \/ i = m /\ sent[m].channel = "l2_data"
  <2>1. \A i : i \in BookFrames' /\ Followed(i)'
               <=> i \in DOMAIN sent /\ sent[i].channel = "l2_data" /\ Followed(i)'
    BY <1>1 DEF BookFrames, Followed
  <2>2. QED
    BY <1>1, <2>1, BookFollowed
<1>5. \A i \in DOMAIN sent : Emission(sent[i]).sequence = sent[i].sequence
  BY DEF Emission
<1>6. CASE sent[m].channel # "l2_data"
  <2>1. emitted' = emitted
    BY <1>6
  <2>2. ASSUME NEW k \in DOMAIN emitted
        PROVE  \E i \in BookFrames' : Followed(i)' /\ emitted[k] = Emission(sent[i])
    BY <1>4 DEF IInv, EmitInv
  <2>3. ASSUME NEW i \in BookFrames', Followed(i)'
        PROVE  \E k \in DOMAIN emitted : emitted[k] = Emission(sent[i])
    BY <1>4, <1>6, <2>3 DEF IInv, EmitInv
  <2>4. QED
    BY <1>1, <1>3, <2>1, <2>2, <2>3 DEF IInv, EmitInv
<1>7. CASE sent[m].channel = "l2_data"
  <2> DEFINE n == Len(emitted) + 1
  <2>1. /\ DOMAIN emitted' = DOMAIN emitted \cup {n} /\ DOMAIN emitted = 1..Len(emitted)
        /\ Len(emitted) \in Nat
        /\ \A k \in DOMAIN emitted : emitted'[k] = emitted[k]
        /\ emitted'[n] = Emission(sent[m])
    BY <1>2, <1>7, SentGrows
  <2>2. \A k \in DOMAIN emitted : k \in Nat /\ k < n
    BY <2>1
  <2> HIDE DEF n
  <2>3. ASSUME NEW k \in DOMAIN emitted'
        PROVE  \E i \in BookFrames' : Followed(i)' /\ emitted'[k] = Emission(sent[i])
    <3>1. CASE k = n
      BY <1>4, <1>7, <2>1, <3>1
    <3>2. CASE k \in DOMAIN emitted
      <4>1. PICK i \in BookFrames : Followed(i) /\ emitted[k] = Emission(sent[i])
        BY <3>2 DEF IInv, EmitInv
      <4>2. QED
        BY <1>4, <2>1, <3>2, <4>1
    <3>3. QED
      BY <2>1, <3>1, <3>2
  <2>4. \A k, l \in DOMAIN emitted' : k < l => emitted'[k].sequence < emitted'[l].sequence
    <3>1. \A k \in DOMAIN emitted : emitted[k].sequence < sent[m].sequence
      BY <1>1, <1>5, BookFollowed DEF IInv, EmitInv
    <3>2. \A k, l \in DOMAIN emitted : k < l => emitted[k].sequence < emitted[l].sequence
      BY DEF IInv, EmitInv
    <3>3. n \in Nat /\ emitted'[n].sequence = sent[m].sequence
      BY <1>5, <2>1 DEF n
    <3>4. QED
      BY <2>1, <2>2, <3>1, <3>2, <3>3
  <2>5. ASSUME NEW i \in BookFrames', Followed(i)'
        PROVE  \E k \in DOMAIN emitted' : emitted'[k] = Emission(sent[i])
    <3>1. CASE i = m
      BY <2>1, <3>1
    <3>2. CASE i # m
      <4>1. PICK k \in DOMAIN emitted : emitted[k] = Emission(sent[i])
        BY <1>4, <2>5, <3>2 DEF IInv, EmitInv
      <4>2. QED
        BY <2>1, <4>1
    <3>3. QED
      BY <3>1, <3>2
  <2>6. QED
    BY <1>1, <1>3, <2>3, <2>4, <2>5 DEF EmitInv
<1>8. QED
  BY <1>6, <1>7

(* What becomes of the heartbeat's counter. *)
Beats(frame) ==
  IF frame.channel # "heartbeats" THEN lastHeartbeat' = lastHeartbeat
  ELSE \/ OutOfOrder(lastHeartbeat, frame.counter) /\ lastHeartbeat' = lastHeartbeat
       \/ Skips(lastHeartbeat, frame.counter) /\ failed' /\ lastHeartbeat' = lastHeartbeat
       \/ Advances(lastHeartbeat, frame.counter) /\ lastHeartbeat' = frame.counter

LEMMA CountersTyped ==
  ASSUME IInv
  PROVE  /\ lastHeartbeat \in Nat /\ Heartbeats \subseteq Numbered /\ Numbered \subseteq DOMAIN sent
         /\ \A i \in DOMAIN sent : i \in Nat /\ sent[i].counter \in Nat /\ sent[i].sequence \in Nat
<1>1. \A i \in DOMAIN sent : i \in Nat /\ sent[i] \in Frames
  BY DEF IInv, TypeInv
<1>2. QED
  BY <1>1 DEF IInv, TypeInv, Frames, Heartbeats, Numbered

LEMMA BeatsNext ==
  ASSUME IInv, NEW m \in DOMAIN sent, FollowsOn(m), Beats(sent[m])
  PROVE  BeatInv' /\ lastHeartbeat' \in Nat
<1>1. /\ UNCHANGED sent /\ ~failed
      /\ \A i \in DOMAIN sent : Followed(i)' <=> Followed(i) \/ i = m
  BY FollowedNext DEF FollowsOn
<1>2. /\ \A i \in Heartbeats : Followed(i) => sent[i].counter <= lastHeartbeat
      /\ lastHeartbeat # None => \E i \in Heartbeats : Followed(i) /\ sent[i].counter = lastHeartbeat
  BY <1>1 DEF IInv, BeatInv
<1>3. Heartbeats' = Heartbeats /\ (m \in Heartbeats <=> sent[m].channel = "heartbeats")
  BY <1>1 DEF Heartbeats
<1>4. lastHeartbeat' \in Nat
  BY CountersTyped DEF Beats
<1>5. SUFFICES ASSUME ~failed'
               PROVE  /\ \A i \in Heartbeats : Followed(i)' => sent[i].counter <= lastHeartbeat'
                      /\ lastHeartbeat' # None =>
                           \E i \in Heartbeats : Followed(i)' /\ sent[i].counter = lastHeartbeat'
  BY <1>1, <1>3, <1>4 DEF BeatInv
<1>6. CASE lastHeartbeat' = lastHeartbeat /\ m \notin Heartbeats
  BY <1>1, <1>2, <1>6, CountersTyped
<1>7. CASE m \in Heartbeats /\ OutOfOrder(lastHeartbeat, sent[m].counter) /\ lastHeartbeat' = lastHeartbeat
  BY <1>1, <1>2, <1>7, CountersTyped DEF OutOfOrder
<1>8. CASE m \in Heartbeats /\ Advances(lastHeartbeat, sent[m].counter) /\ lastHeartbeat' = sent[m].counter
  <2>1. lastHeartbeat <= sent[m].counter
    BY <1>8, CountersTyped DEF Advances, OutOfOrder, None
  <2>2. QED
    BY <1>1, <1>2, <1>8, <2>1, CountersTyped
<1>9. QED
  BY <1>3, <1>5, <1>6, <1>7, <1>8 DEF Beats

(* A heartbeat that skipped fails it: the counter it is compared with is   *)
(* that of the heartbeat sent before it.                                   *)
LEMMA SkipFails ==
  ASSUME IInv, NEW m \in DOMAIN sent, FollowsOn(m), Beats(sent[m])
  PROVE  SkipInv'
<1>1. /\ UNCHANGED sent /\ ~failed /\ lastSequence' = sent[m].sequence
      /\ \A i \in DOMAIN sent : sent[i].sequence = sent[m].sequence => i = m
      /\ first' # None
  BY FollowedNext DEF FollowsOn
<1>2. Heartbeats' = Heartbeats
  BY <1>1 DEF Heartbeats
<1>3. lastSequence \in Nat /\ first \in Nat /\ (lastSequence = None <=> first = None)
  BY DEF IInv, TypeInv, FollowInv, None
<1>4. SUFFICES ASSUME NEW i \in Heartbeats, NEW j \in Heartbeats,
                      SkipsAt(i, j), first' <= sent[i].sequence
               PROVE  /\ sent[m].sequence <= sent[j].sequence
                      /\ sent[m].sequence = sent[j].sequence => failed'
  BY <1>1, <1>2 DEF SkipInv, SkipsAt
<1>5. i < j /\ sent[j].counter > sent[i].counter + 1 /\ ~\E k \in Heartbeats : i < k /\ k < j
  BY <1>4 DEF SkipsAt
<1>6. sent[i].sequence < sent[j].sequence
  BY <1>5, CountersTyped DEF IInv, NumbersInv
<1>7. CASE first = None
  <2>1. sent[m].sequence <= sent[i].sequence
    BY <1>4, <1>7 DEF FollowsOn
  <2>2. QED
    BY <1>6, <2>1, CountersTyped
<1>8. CASE first # None
  <2>1. first <= sent[i].sequence /\ sent[m].sequence = lastSequence + 1
    BY <1>3, <1>4, <1>8, CountersTyped DEF FollowsOn, Advances, OutOfOrder, Skips
  <2>2. lastSequence < sent[j].sequence
    BY <1>1, <1>3, <1>4, <1>8, <2>1, CountersTyped DEF IInv, SkipInv
  <2>3. SUFFICES ASSUME sent[m].sequence = sent[j].sequence
                 PROVE  failed'
    BY <1>3, <2>1, <2>2, CountersTyped
  <2>4. m = j
    BY <1>1, <2>3, CountersTyped
  <2>5. Followed(i)
    BY <1>3, <1>6, <1>8, <2>1, <2>3, CountersTyped DEF Followed
  <2>6. /\ sent[i].counter <= lastHeartbeat
        /\ lastHeartbeat # None => \E h \in Heartbeats : Followed(h) /\ sent[h].counter = lastHeartbeat
    BY <1>1, <2>5 DEF IInv, BeatInv
  <2>7. sent[i].counter \in Nat \ {0}
    BY CountersTyped DEF IInv, CountersInv
  <2>8. PICK h \in Heartbeats : Followed(h) /\ sent[h].counter = lastHeartbeat
    BY <2>6, <2>7, CountersTyped DEF None
  <2>9. sent[h].sequence < sent[j].sequence
    BY <1>3, <2>2, <2>8, CountersTyped DEF Followed
  <2>10. ~(j <= h)
    <3>1. h = j \/ j < h => sent[j].sequence <= sent[h].sequence
      BY CountersTyped DEF IInv, NumbersInv
    <3>2. QED
      BY <2>9, <3>1, CountersTyped
  <2>11. h <= i
    BY <1>5, <2>10, CountersTyped
  <2>12. sent[h].counter <= sent[i].counter
    BY <2>11, CountersTyped DEF IInv, CountersInv
  <2>13. Skips(lastHeartbeat, sent[j].counter) /\ ~OutOfOrder(lastHeartbeat, sent[j].counter)
    BY <1>5, <2>6, <2>7, <2>8, <2>12, CountersTyped DEF Skips, OutOfOrder, None
  <2>14. sent[j].channel = "heartbeats"
    BY DEF Heartbeats
  <2>15. QED
    BY <2>4, <2>13, <2>14 DEF Beats, Advances
<1>9. QED
  BY <1>7, <1>8

LEMMA FollowsOnKeeps ==
  ASSUME IInv, NEW m \in DOMAIN sent, FollowsOn(m), Beats(sent[m]),
         emitted' = IF sent[m].channel = "l2_data" THEN Append(emitted, Emission(sent[m])) ELSE emitted,
         failed' \in BOOLEAN, wire' \in Seq(Sendings)
  PROVE  IInv'
<1>1. UNCHANGED <<sent, numbered, heartbeats>>
  BY DEF FollowsOn
<1>2. /\ lastSequence' \in Nat /\ first' \in Nat /\ FollowInv'
      /\ EmitInv' /\ emitted' \in Seq(Emissions)
      /\ BeatInv' /\ lastHeartbeat' \in Nat /\ SkipInv'
  BY FollowedNext, EmitsNext, BeatsNext, SkipFails
<1>3. Emissions' = Emissions /\ Frames' = Frames
  BY DEF Emissions, Frames
<1>4. TypeInv'
  BY <1>1, <1>2, <1>3 DEF IInv, TypeInv
<1>5. NumbersInv' /\ CountersInv'
  BY <1>1 DEF IInv, NumbersInv, Numbered, CountersInv, Heartbeats
<1>6. WireInv'
  BY <1>1 DEF WireInv, Sendings
<1>7. QED
  BY <1>2, <1>4, <1>5, <1>6 DEF IInv

LEMMA DecodeKeeps ==
  ASSUME IInv, Decode
  PROVE  IInv'
<1> DEFINE frame == Head(wire)
<1>1. /\ wire # <<>> /\ ~failed /\ wire' = Tail(wire)
      /\ UNCHANGED <<sent, numbered, heartbeats>>
      /\ Ignore(frame) \/ Reject(frame) \/ Follow(frame)
  BY DEF Decode
<1>2. wire' \in Seq(Sendings)
  BY <1>1, FrameIsSent
<1>3. failed \in BOOLEAN
  BY DEF IInv, TypeInv
<1>4. CASE Ignore(frame)
  BY <1>1, <1>2, <1>3, <1>4, StayKeeps DEF Ignore
<1>6. CASE Reject(frame)
  <2>1. failed' \in BOOLEAN /\ UNCHANGED <<lastSequence, lastHeartbeat, emitted, first>>
    BY <1>6 DEF Reject
  <2>2. QED
    BY <1>1, <1>2, <2>1, StayKeeps
<1>5. CASE Follow(frame)
  <2>1. PICK m \in Numbered :
          /\ frame = sent[m]
          /\ \A i \in DOMAIN sent : sent[i].sequence = sent[m].sequence => i = m
    BY <1>1, <1>5, FrameIsSent DEF Follow
  <2>2. m \in DOMAIN sent /\ lastSequence \in Nat /\ lastHeartbeat \in Nat
    BY CountersTyped DEF IInv, TypeInv
  <2>3. frame.sequence \in Nat /\ frame.counter \in Nat
    BY <2>1, <2>2, CountersTyped
  <2> HIDE DEF frame
  <2>4. CASE OutOfOrder(lastSequence, frame.sequence)
    <3>1. ~Skips(lastSequence, frame.sequence)
      BY <2>2, <2>3, <2>4 DEF OutOfOrder, Skips
    <3>2. UNCHANGED <<lastSequence, lastHeartbeat, emitted, failed, first>>
      BY <1>5, <2>4, <3>1 DEF Follow, Advances
    <3>3. QED
      BY <1>1, <1>2, <1>3, <3>2, StayKeeps
  <2>5. CASE Skips(lastSequence, frame.sequence)
    <3>1. ~OutOfOrder(lastSequence, frame.sequence)
      BY <2>2, <2>3, <2>5 DEF OutOfOrder, Skips
    <3>2. failed' = TRUE /\ UNCHANGED <<lastSequence, lastHeartbeat, emitted, first>>
      BY <1>5, <2>5, <3>1 DEF Follow, Advances
    <3>3. QED
      BY <1>1, <1>2, <3>2, StayKeeps
  <2>6. CASE Advances(lastSequence, frame.sequence)
    <3>1. ~OutOfOrder(lastSequence, frame.sequence) /\ ~Skips(lastSequence, frame.sequence)
      BY <2>6 DEF Advances
    <3>2. /\ lastSequence' = frame.sequence
          /\ first' = IF first = None THEN frame.sequence ELSE first
          /\ LookInto(frame)
      BY <1>5, <2>6, <3>1 DEF Follow
    <3>3. FollowsOn(m)
      BY <1>1, <2>1, <2>6, <3>2 DEF FollowsOn
    <3>4. frame.channel \in {"heartbeats", "l2_data", "other"}
      <4>1. sent[m] \in Frames
        BY <2>2 DEF IInv, TypeInv
      <4>2. frame.channel # "error" /\ frame.channel \in Channels
        BY <2>1, <4>1 DEF Numbered, Frames
      <4>3. QED
        BY <4>2 DEF Channels, ConnectRequests
    <3>5. /\ Beats(frame) /\ failed' \in BOOLEAN
          /\ emitted' = IF frame.channel = "l2_data" THEN Append(emitted, Emission(frame)) ELSE emitted
      <4>1. CASE frame.channel = "heartbeats"
        <5>1. /\ OutOfOrder(lastHeartbeat, frame.counter) => ~Skips(lastHeartbeat, frame.counter)
              /\ Advances(lastHeartbeat, frame.counter)
                   <=> ~OutOfOrder(lastHeartbeat, frame.counter) /\ ~Skips(lastHeartbeat, frame.counter)
          BY <2>2, <2>3 DEF OutOfOrder, Skips, Advances
        <5>2. CASE OutOfOrder(lastHeartbeat, frame.counter)
          BY <1>3, <3>2, <4>1, <5>1, <5>2 DEF LookInto, Beats
        <5>3. CASE Skips(lastHeartbeat, frame.counter)
          BY <3>2, <4>1, <5>1, <5>3 DEF LookInto, Beats
        <5>4. CASE Advances(lastHeartbeat, frame.counter)
          BY <1>3, <3>2, <4>1, <5>1, <5>4 DEF LookInto, Beats
        <5>5. QED
          BY <5>1, <5>2, <5>3, <5>4
      <4>2. CASE frame.channel = "l2_data"
        BY <3>2, <4>2 DEF LookInto, Beats, Throws
      <4>3. CASE frame.channel = "other"
        BY <1>3, <3>2, <4>3 DEF LookInto, Beats
      <4>4. QED
        BY <3>4, <4>1, <4>2, <4>3
    <3>6. QED
      BY <1>2, <2>1, <2>2, <3>3, <3>5, FollowsOnKeeps
  <2>7. QED
    BY <2>4, <2>5, <2>6 DEF Advances
<1>7. QED
  BY <1>1, <1>4, <1>5, <1>6

-----------------------------------------------------------------------------
(* The invariant holds throughout. *)
LEMMA CoinbaseInvariant == Spec => []IInv
<1>1. IInv /\ [Next]_vars => IInv'
  <2> SUFFICES ASSUME IInv, [Next]_vars
               PROVE  IInv'
    OBVIOUS
  <2>1. CASE VenueSends
    <3>1. CASE \E events \in Events : Send("l2_data", events, 0)
      <4>1. PICK events \in Events : Send("l2_data", events, 0)
        BY <3>1
      <4>2. "l2_data" \in Channels /\ events \in Events \cup {<<>>}
        BY DEF Channels
      <4>3. QED
        BY <4>1, <4>2, SendKeeps
    <3>2. CASE \E channel \in Channels \ {"l2_data"} : Send(channel, <<>>, 0)
      <4>1. PICK channel \in Channels : Send(channel, <<>>, 0)
        BY <3>2
      <4>2. <<>> \in Events \cup {<<>>}
        OBVIOUS
      <4>3. QED
        BY <4>1, <4>2, SendKeeps
    <3>3. QED
      BY <2>1, <3>1, <3>2 DEF VenueSends
  <2>2. CASE HeartbeatSkips
    <3>1. "heartbeats" \in Channels /\ <<>> \in Events \cup {<<>>}
      BY DEF Channels, ConnectRequests
    <3>2. Send("heartbeats", <<>>, 1)
      BY <2>2 DEF HeartbeatSkips
    <3>3. QED
      BY <3>1, <3>2, SendKeeps
  <2>3. CASE Disturb
    BY <2>3, DisturbKeeps
  <2>4. CASE Decode
    BY <2>4, DecodeKeeps
  <2>5. CASE UNCHANGED vars
    <3>1. /\ UNCHANGED <<sent, numbered, heartbeats>> /\ UNCHANGED wire
          /\ UNCHANGED <<lastSequence, lastHeartbeat, emitted, first>> /\ UNCHANGED failed
      BY <2>5 DEF vars, decoderVars
    <3>2. wire' \in Seq(Sendings) /\ failed \in BOOLEAN
      BY <3>1 DEF IInv, WireInv, TypeInv
    <3>3. QED
      BY <3>1, <3>2, StayKeeps
  <2>6. QED
    BY <2>1, <2>2, <2>3, <2>4, <2>5 DEF Next
<1>2. QED
  BY <1>1, InitInv, PTL DEF Spec

(* A parser with Coinbase's decoder runs it; with Kraken's, it leaves      *)
(* Coinbase's as it is.                                                    *)
LEMMA RunsCoinbase == DecodersSpec => Spec
<1>1. DecodersInit => Init
  BY DEF DecodersInit
<1>2. [DecodersNext]_decodersVars => [Next]_vars
  BY DEF DecodersNext, decodersVars, CoinbaseStep, KrakenStep
<1>3. QED
  BY <1>1, <1>2, PTL DEF DecodersSpec, Spec

(* What was emitted is an unbroken run of the venue's changes from the     *)
(* first frame followed on, for any number of faults: Advance() lets no    *)
(* number but the next one through (l2_decoder.cc).                        *)
THEOREM EmitsUnbroken == DecodersSpec => []EmittedUnbroken
<1>1. IInv => EmittedUnbroken
  <2>1. SUFFICES ASSUME IInv, NEW k \in DOMAIN emitted
                 PROVE  /\ \E i \in BookFrames : emitted[k] = Emission(sent[i])
                        /\ \A l \in DOMAIN emitted : k < l => emitted[k].sequence < emitted[l].sequence
                        /\ \A i \in BookFrames : sent[i].sequence < emitted[k].sequence =>
                             \E l \in DOMAIN emitted : emitted[l] = Emission(sent[i])
    BY DEF EmittedUnbroken
  <2>2. PICK j \in BookFrames : Followed(j) /\ emitted[k] = Emission(sent[j])
    BY <2>1 DEF IInv, EmitInv
  <2>3. \A l \in DOMAIN emitted : k < l => emitted[k].sequence < emitted[l].sequence
    BY <2>1 DEF IInv, EmitInv
  <2>4. ASSUME NEW i \in BookFrames, sent[i].sequence < emitted[k].sequence
        PROVE  \E l \in DOMAIN emitted : emitted[l] = Emission(sent[i])
    <3>1. emitted[k].sequence = sent[j].sequence
      BY <2>2 DEF Emission
    <3>2. BookFrames \subseteq DOMAIN sent /\ lastSequence \in Nat /\ first \in Nat
      BY <2>1 DEF BookFrames, IInv, TypeInv
    <3>3. Followed(i)
      BY <2>1, <2>2, <2>4, <3>1, <3>2, CountersTyped DEF Followed, BookFrames
    <3>4. QED
      BY <2>1, <3>3 DEF IInv, EmitInv
  <2>5. QED
    BY <2>2, <2>3, <2>4
<1>2. QED
  BY <1>1, CoinbaseInvariant, RunsCoinbase, PTL

(* Nothing of a frame behind a heartbeat that skipped is emitted, whatever *)
(* happens on the way: the counter is compared with that of the heartbeat  *)
(* sent before it, as no frame between them was passed over.               *)
THEOREM SkipsStopIt == DecodersSpec => []NothingPastLostHeartbeat
<1>1. IInv => NothingPastLostHeartbeat
  <2>1. SUFFICES ASSUME IInv, NEW i \in Heartbeats, NEW j \in Heartbeats, SkipsAt(i, j),
                        first # None, first <= sent[i].sequence, NEW k \in DOMAIN emitted
                 PROVE  emitted[k].sequence < sent[j].sequence
    BY DEF NothingPastLostHeartbeat
  <2>2. lastSequence <= sent[j].sequence
    BY <2>1 DEF IInv, SkipInv
  <2>3. PICK h \in BookFrames : Followed(h) /\ emitted[k] = Emission(sent[h])
    BY <2>1 DEF IInv, EmitInv
  <2>4. /\ h \in Numbered /\ j \in Numbered /\ h # j
        /\ emitted[k].sequence = sent[h].sequence
    BY <2>1, <2>3 DEF BookFrames, Heartbeats, Numbered, Emission
  <2>5. sent[h].sequence <= sent[j].sequence
    BY <2>1, <2>2, <2>3, <2>4, CountersTyped DEF Followed, IInv, TypeInv
  <2>6. sent[h].sequence # sent[j].sequence
    BY <2>1, <2>4, CountersTyped DEF IInv, NumbersInv
  <2>7. QED
    BY <2>1, <2>4, <2>5, <2>6, CountersTyped
<1>2. QED
  BY <1>1, CoinbaseInvariant, RunsCoinbase, PTL

-----------------------------------------------------------------------------
(* Arithmetic and induction.  Every set of numbers has a least one.        *)
LEMMA Least ==
  ASSUME NEW S \in SUBSET Nat, S # {}
  PROVE  \E n \in S : \A m \in S : n <= m
<1>1. \E less : /\ IsWellFoundedOn(less, Nat)
                /\ \A x, y \in Nat : y < x => <<y, x>> \in less
  <2>1. \A x, y \in Nat : y < x => <<y, x>> \in OpToRel(<, Nat)
    BY DEF OpToRel
  <2>2. QED
    BY <2>1, NatLessThanWellFounded
<1>2. PICK less : /\ IsWellFoundedOn(less, Nat)
                  /\ \A x, y \in Nat : y < x => <<y, x>> \in less
  BY <1>1
<1>3. PICK n \in S : \A m \in S : ~(<<m, n>> \in less)
  BY <1>2, WFMin
<1>4. \A m \in S : ~(m < n)
  BY <1>2, <1>3
<1>5. QED
  BY <1>3, <1>4

(* A set that has 0 and, with each number, the next, has them all. *)
LEMMA Inductive ==
  ASSUME NEW T, NEW b \in Nat, 0 \in T, \A n \in 0..(b - 1) : n \in T => n + 1 \in T
  PROVE  \A n \in 0..b : n \in T
<1> DEFINE S == {n \in 0..b : n \notin T}
<1>1. SUFFICES ASSUME S # {} PROVE FALSE
  OBVIOUS
<1>2. S \in SUBSET Nat
  OBVIOUS
<1>3. PICK n \in S : \A m \in S : n <= m
  <2> HIDE DEF S
  <2>1. QED
    BY <1>1, <1>2, Least
<1>4. n # 0 /\ n \in 0..b /\ n \notin T
  BY <1>3
<1>5. n - 1 \in 0..(b - 1) /\ n - 1 \in 0..b /\ ~(n <= n - 1)
  BY <1>4
<1>6. n - 1 \in T
  BY <1>3, <1>5
<1>7. (n - 1) + 1 \in T
  BY <1>5, <1>6
<1>8. QED
  BY <1>4, <1>5, <1>7

-----------------------------------------------------------------------------
(* The order of a side.  A price has fewer ahead of it than there are, and *)
(* a better price has fewer than a worse.                                  *)
LEMMA AheadFinite ==
  ASSUME NEW side, NEW prices, IsFiniteSet(prices), NEW p
  PROVE  /\ IsFiniteSet(Ahead(side, p, prices)) /\ Ahead(side, p, prices) \subseteq prices
         /\ Cardinality(Ahead(side, p, prices)) \in Nat
<1>1. Ahead(side, p, prices) \in SUBSET prices
  BY DEF Ahead
<1>2. QED
  BY <1>1, FS_Subset, FS_CardinalityType

LEMMA Ranks ==
  ASSUME NEW side, NEW prices \in SUBSET Int, IsFiniteSet(prices), NEW p \in prices
  PROVE  /\ Cardinality(Ahead(side, p, prices)) < Cardinality(prices)
         /\ \A q \in Ahead(side, p, prices) :
              Cardinality(Ahead(side, q, prices)) < Cardinality(Ahead(side, p, prices))
<1>1. p \notin Ahead(side, p, prices)
  BY DEF Ahead, Better
<1>2. Cardinality(Ahead(side, p, prices)) < Cardinality(prices)
  <2>1. Ahead(side, p, prices) # prices /\ Ahead(side, p, prices) \in SUBSET prices
    BY <1>1, AheadFinite
  <2>2. QED
    BY <2>1, FS_Subset, FS_CardinalityType, AheadFinite
<1>3. ASSUME NEW q \in Ahead(side, p, prices)
      PROVE  Cardinality(Ahead(side, q, prices)) < Cardinality(Ahead(side, p, prices))
  <2>1. ASSUME NEW r \in Ahead(side, q, prices)
        PROVE  r \in Ahead(side, p, prices)
    <3>1. q \in Int /\ r \in Int /\ p \in Int /\ r \in prices
      BY DEF Ahead
    <3>2. Better(side, q, p) /\ Better(side, r, q)
      BY DEF Ahead
    <3>3. Better(side, r, p)
      BY <3>1, <3>2 DEF Better
    <3>4. QED
      BY <3>1, <3>3 DEF Ahead
  <2>2. q \notin Ahead(side, q, prices)
    BY DEF Ahead, Better
  <2>3. QED
    BY <2>1, <2>2, FS_Subset, AheadFinite
<1>4. QED
  BY <1>2, <1>3

(* Two prices of a side have different numbers ahead of them. *)
LEMMA RanksDiffer ==
  ASSUME NEW side, NEW prices \in SUBSET Int, IsFiniteSet(prices),
         NEW p \in prices, NEW q \in prices, p # q
  PROVE  Cardinality(Ahead(side, p, prices)) # Cardinality(Ahead(side, q, prices))
<1>1. p \in Ahead(side, q, prices) \/ q \in Ahead(side, p, prices)
  BY DEF Ahead, Better
<1>2. QED
  BY <1>1, Ranks, AheadFinite

(* Each number below how many there are is that of the ones ahead of one. *)
LEMMA RanksTaken ==
  ASSUME NEW side, NEW prices \in SUBSET Int, IsFiniteSet(prices),
         NEW i \in 1..Cardinality(prices)
  PROVE  \E p \in prices : Cardinality(Ahead(side, p, prices)) = i - 1
<1> DEFINE n == Cardinality(prices)
           rank == [p \in prices |-> Cardinality(Ahead(side, p, prices))]
<1>1. n \in Nat
  BY FS_CardinalityType
<1>2. rank \in [prices -> 0..(n - 1)]
  BY <1>1, Ranks, AheadFinite
<1>3. \A p, q \in prices : rank[p] = rank[q] => p = q
  BY RanksDiffer
<1>4. IsFiniteSet(0..(n - 1)) /\ Cardinality(0..(n - 1)) = n
  <2> HIDE DEF n
  <2>1. 0 \in Int /\ n - 1 \in Int /\ n = IF 0 > n - 1 THEN 0 ELSE n - 1 - 0 + 1
    BY <1>1
  <2>2. QED
    BY <2>1, FS_Interval
<1> HIDE DEF rank
<1>5. rank \in Injection(prices, 0..(n - 1))
  BY <1>2, <1>3 DEF Injection, IsInjective
<1>6. rank \in Surjection(prices, 0..(n - 1))
  BY <1>4, <1>5, FS_Injection
<1>7. i - 1 \in 0..(n - 1)
  BY <1>1
<1>8. PICK p \in prices : rank[p] = i - 1
  BY <1>6, <1>7 DEF Surjection
<1>9. QED
  BY <1>8 DEF rank

(* So InOrder() lists a side's prices, each of them. *)
LEMMA Ordered ==
  ASSUME NEW side, NEW prices \in SUBSET Int, IsFiniteSet(prices)
  PROVE  /\ InOrder(side, prices) \in Seq(prices)
         /\ Len(InOrder(side, prices)) = Cardinality(prices)
         /\ \A p \in prices : \E i \in 1..Cardinality(prices) : InOrder(side, prices)[i] = p
<1> DEFINE n == Cardinality(prices)
           list == InOrder(side, prices)
<1>1. n \in Nat
  BY FS_CardinalityType
<1>2. /\ DOMAIN list = 1..n
      /\ \A i \in 1..n : list[i] \in prices /\ Cardinality(Ahead(side, list[i], prices)) = i - 1
  BY RanksTaken DEF InOrder
<1>3. list = [i \in 1..n |-> list[i]]
  BY DEF InOrder
<1> HIDE DEF list
<1>4. list \in [1..n -> prices]
  BY <1>2, <1>3
<1>5. list \in Seq(prices) /\ Len(list) = n
  BY <1>1, <1>4
<1>6. ASSUME NEW p \in prices
      PROVE  \E i \in 1..n : list[i] = p
  <2>1. Cardinality(Ahead(side, p, prices)) \in 0..(n - 1)
    BY <1>1, Ranks, AheadFinite
  <2>2. PICK i \in 1..n : i - 1 = Cardinality(Ahead(side, p, prices))
    BY <1>1, <2>1
  <2>3. QED
    BY <1>2, <2>2, RanksDiffer
<1>7. QED
  BY <1>5, <1>6 DEF list

-----------------------------------------------------------------------------
(* Kept().  Of a part of a side that has all it keeps, the same is kept.    *)
LEMMA KeptOfPart ==
  ASSUME NEW side, NEW prices \in SUBSET Int, IsFiniteSet(prices), NEW d \in Nat,
         NEW part, Kept(side, prices, d) \subseteq part, part \subseteq prices
  PROVE  Kept(side, part, d) = Kept(side, prices, d)
<1>1. IsFiniteSet(part) /\ part \in SUBSET Int
  BY FS_Subset
<1>2. CASE d = 0
  BY <1>2 DEF Kept
<1>3. CASE d # 0
  <2>1. ASSUME NEW p \in Kept(side, prices, d) PROVE p \in Kept(side, part, d)
    <3>1. Ahead(side, p, part) \subseteq Ahead(side, p, prices)
      BY DEF Ahead
    <3>2. Cardinality(Ahead(side, p, part)) <= Cardinality(Ahead(side, p, prices))
      BY <3>1, AheadFinite, FS_Subset
    <3>3. Cardinality(Ahead(side, p, prices)) < d /\ p \in part
      BY <1>3 DEF Kept
    <3>4. Cardinality(Ahead(side, p, part)) \in Nat /\ Cardinality(Ahead(side, p, prices)) \in Nat
      BY <1>1, AheadFinite
    <3>5. QED
      BY <3>2, <3>3, <3>4 DEF Kept
  <2>2. ASSUME NEW p \in Kept(side, part, d), p \notin Kept(side, prices, d) PROVE FALSE
    <3> DEFINE rank(q) == Cardinality(Ahead(side, q, prices))
    <3>1. p \in part /\ p \in prices /\ Cardinality(Ahead(side, p, part)) < d
      BY <1>3, <2>2 DEF Kept
    <3>2. rank(p) \in Nat /\ rank(p) >= d
      BY <1>3, <2>2, <3>1, AheadFinite DEF Kept
    <3>3. rank(p) < Cardinality(prices) /\ Cardinality(prices) \in Nat
      BY <3>1, Ranks, FS_CardinalityType
    <3>4. d + 1 \in 1..Cardinality(prices)
      BY <3>2, <3>3
    <3>5. PICK q \in prices : rank(q) = (d + 1) - 1
      BY <3>4, RanksTaken
    <3>6. p = q \/ q \in Ahead(side, p, prices)
      <4>1. p \in Ahead(side, q, prices) => rank(p) < rank(q)
        BY <3>5, Ranks
      <4>2. p = q \/ q \in Ahead(side, p, prices) \/ p \in Ahead(side, q, prices)
        BY <3>1, <3>5 DEF Ahead, Better
      <4> HIDE DEF rank
      <4>3. QED
        BY <4>1, <4>2, <3>2, <3>5
    <3>7. ASSUME NEW r \in Ahead(side, q, prices) PROVE r \in Ahead(side, p, part)
      <4>1. rank(r) < rank(q) /\ r \in prices
        BY <3>5, Ranks DEF Ahead
      <4>2. r \in Kept(side, prices, d)
        BY <4>1, <3>5 DEF Kept
      <4>3. p \in Int /\ q \in Int /\ r \in Int
        BY <3>1, <3>5, <4>1
      <4>4. Better(side, r, q) /\ (p = q \/ Better(side, q, p))
        BY <3>6 DEF Ahead
      <4>5. Better(side, r, p)
        BY <4>3, <4>4 DEF Better
      <4>6. QED
        BY <4>2, <4>5 DEF Ahead
    <3>8. rank(q) <= Cardinality(Ahead(side, p, part))
      BY <1>1, <3>7, AheadFinite, FS_Subset
    <3>9. Cardinality(Ahead(side, p, part)) \in Nat
      BY <1>1, AheadFinite
    <3> HIDE DEF rank
    <3>10. QED
      BY <3>1, <3>5, <3>8, <3>9
  <2>3. Kept(side, part, d) \subseteq prices /\ Kept(side, prices, d) \subseteq prices
    BY DEF Kept
  <2>4. QED
    BY <2>1, <2>2, <2>3
<1>4. QED
  BY <1>2, <1>3

-----------------------------------------------------------------------------
(* A side of a book, its top, and the levels that say it. *)
IsSide(levels) ==
  /\ IsFiniteSet(DOMAIN levels) /\ DOMAIN levels \subseteq Prices
  /\ levels = [p \in DOMAIN levels |-> levels[p]]
  /\ \A p \in DOMAIN levels : levels[p] \in Quantities

Says(levels, f) ==
  /\ {levels[i].price : i \in DOMAIN levels} = DOMAIN f
  /\ \A p \in DOMAIN f : levels[LastOf(levels, p)].quantity = f[p]

LEMMA TopIs ==
  ASSUME NEW side, NEW levels
  PROVE  TopOf(side, levels) = [p \in Kept(side, DOMAIN levels, depth) |-> levels[p]]
BY DEF TopOf, Kept

LEMMA TopIsSide ==
  ASSUME NEW side, NEW levels, IsSide(levels)
  PROVE  /\ IsSide(TopOf(side, levels))
         /\ DOMAIN TopOf(side, levels) = Kept(side, DOMAIN levels, depth)
         /\ DOMAIN TopOf(side, levels) \subseteq DOMAIN levels
         /\ \A p \in DOMAIN TopOf(side, levels) : TopOf(side, levels)[p] = levels[p]
<1>1. Kept(side, DOMAIN levels, depth) \in SUBSET DOMAIN levels
  BY DEF Kept
<1>2. IsFiniteSet(Kept(side, DOMAIN levels, depth))
  BY <1>1, FS_Subset DEF IsSide
<1>3. QED
  BY <1>1, <1>2, TopIs DEF IsSide

(* What LevelsOf() lists of a side says it. *)
LEMMA LevelsSay ==
  ASSUME NEW side, NEW f, IsFiniteSet(DOMAIN f), DOMAIN f \subseteq Int
  PROVE  /\ Says(LevelsOf(side, f), f)
         /\ DOMAIN LevelsOf(side, f) = 1..Cardinality(DOMAIN f)
         /\ LevelsOf(side, f) \in Seq([price : DOMAIN f, quantity : {f[p] : p \in DOMAIN f}])
<1> DEFINE n == Cardinality(DOMAIN f)
           list == InOrder(side, DOMAIN f)
           levels == LevelsOf(side, f)
<1>1. n \in Nat
  BY FS_CardinalityType
<1>2. list \in Seq(DOMAIN f) /\ Len(list) = n
  BY Ordered
<1>3. \A p \in DOMAIN f : \E i \in 1..n : list[i] = p
  BY Ordered
<1>4. levels = [i \in 1..n |-> [price |-> list[i], quantity |-> f[list[i]]]]
  BY <1>2 DEF LevelsOf
<1>5. \A i \in 1..n : list[i] \in DOMAIN f
  BY <1>2
<1>6. \A i, j \in 1..n : list[i] = list[j] => i = j
  <2>1. \A i \in 1..n : Cardinality(Ahead(side, list[i], DOMAIN f)) = i - 1
    BY <1>1, RanksTaken DEF InOrder
  <2>2. QED
    BY <2>1
<1> HIDE DEF list, levels, n
<1>7. DOMAIN levels = 1..n /\ \A i \in 1..n : levels[i].price = list[i] /\ levels[i].quantity = f[list[i]]
  BY <1>4
<1>8. ASSUME NEW p \in DOMAIN f PROVE levels[LastOf(levels, p)].quantity = f[p]
  <2>1. PICK i \in 1..n : list[i] = p
    BY <1>3
  <2>2. \A j \in DOMAIN levels : levels[j].price = p => j = i
    BY <1>6, <1>7, <2>1
  <2>3. i \in DOMAIN levels /\ levels[i].price = p /\ i <= i
    BY <1>1, <1>7, <2>1
  <2>4. LastOf(levels, p) = i
    BY <2>2, <2>3 DEF LastOf
  <2>5. QED
    BY <1>7, <2>1, <2>4
<1>9. {levels[i].price : i \in DOMAIN levels} = DOMAIN f
  <2>1. \A i \in DOMAIN levels : levels[i].price \in DOMAIN f
    BY <1>5, <1>7
  <2>2. ASSUME NEW p \in DOMAIN f PROVE \E i \in DOMAIN levels : p = levels[i].price
    BY <1>3, <1>7
  <2>3. QED
    BY <2>1, <2>2
<1>10. levels \in Seq([price : DOMAIN f, quantity : {f[p] : p \in DOMAIN f}])
  BY <1>1, <1>4, <1>5
<1>11. QED
  BY <1>7, <1>8, <1>9, <1>10 DEF Says, levels, n

Result(side, f, d, old) ==
  [p \in Kept(side, (DOMAIN old \ DOMAIN f) \cup {q \in DOMAIN f : f[q] # 0}, d) |->
     IF p \in DOMAIN f THEN f[p] ELSE old[p]]

LEMMA Applied ==
  ASSUME NEW side, NEW levels, NEW f, Says(levels, f), NEW d, NEW old
  PROVE  ApplyLevels(side, levels, d, old) = Result(side, f, d, old)
<1> DEFINE named == {levels[i].price : i \in DOMAIN levels}
           quantity(p) == levels[LastOf(levels, p)].quantity
           set == {p \in named : quantity(p) # 0}
<1>1. named = DOMAIN f /\ \A p \in DOMAIN f : quantity(p) = f[p]
  BY DEF Says
<1>2. ApplyLevels(side, levels, d, old) =
        [p \in Kept(side, (DOMAIN old \ named) \cup set, d) |->
           IF p \in named THEN quantity(p) ELSE old[p]]
  BY DEF ApplyLevels
<1> HIDE DEF named, quantity
<1>3. set = {q \in DOMAIN f : f[q] # 0}
  BY <1>1
<1> HIDE DEF set
<1>4. QED
  BY <1>1, <1>2, <1>3 DEF Result

(* A book's top, said whole to someone who has nothing, is what they have. *)
LEMMA SnapshotSets ==
  ASSUME NEW side, NEW levels, IsSide(levels), depth \in Nat, NEW old, DOMAIN old = {}
  PROVE  ApplyLevels(side, LevelsOf(side, TopOf(side, levels)), depth, old) = TopOf(side, levels)
<1> DEFINE top == TopOf(side, levels)
           kept == Kept(side, DOMAIN levels, depth)
<1>1. IsSide(top) /\ DOMAIN top = kept /\ kept \subseteq DOMAIN levels
  BY TopIsSide
<1>2. \A p \in DOMAIN top : top[p] # 0
  BY <1>1, KrakenAssumption DEF IsSide
<1>3. Kept(side, DOMAIN top, depth) = DOMAIN top
  <2>1. DOMAIN levels \in SUBSET Int /\ IsFiniteSet(DOMAIN levels)
    BY KrakenAssumption DEF IsSide
  <2> HIDE DEF top, kept
  <2>2. Kept(side, kept, depth) = kept
    BY <1>1, <2>1, KeptOfPart DEF kept
  <2>3. QED
    BY <1>1, <2>2
<1>4. IsFiniteSet(DOMAIN top) /\ DOMAIN top \subseteq Int
  BY <1>1, KrakenAssumption DEF IsSide
<1>5. top = [p \in DOMAIN top |-> top[p]]
  BY <1>1 DEF IsSide
<1> HIDE DEF top
<1>6. Says(LevelsOf(side, top), top)
  BY <1>4, LevelsSay
<1>7. (DOMAIN old \ DOMAIN top) \cup {p \in DOMAIN top : top[p] # 0} = DOMAIN top
  BY <1>2
<1>8. ApplyLevels(side, LevelsOf(side, top), depth, old) =
        [p \in DOMAIN top |-> IF p \in DOMAIN top THEN top[p] ELSE old[p]]
  <2> DEFINE left == (DOMAIN old \ DOMAIN top) \cup {p \in DOMAIN top : top[p] # 0}
  <2>1. ApplyLevels(side, LevelsOf(side, top), depth, old) = Result(side, top, depth, old)
    BY <1>6, Applied
  <2>2. Result(side, top, depth, old) =
          [p \in Kept(side, left, depth) |-> IF p \in DOMAIN top THEN top[p] ELSE old[p]]
    BY DEF Result
  <2>3. left = DOMAIN top
    BY <1>7
  <2> HIDE DEF left
  <2>4. QED
    BY <1>3, <2>1, <2>2, <2>3
<1>9. QED
  BY <1>5, <1>8 DEF top

LEMMA SidesFinite ==
  ASSUME NEW old, IsSide(old), NEW new, IsSide(new)
  PROVE  IsFiniteSet(DOMAIN old \cup DOMAIN new) /\ DOMAIN old \cup DOMAIN new \subseteq Int
<1>1. IsFiniteSet(DOMAIN old) /\ IsFiniteSet(DOMAIN new)
  BY DEF IsSide
<1>2. IsFiniteSet(DOMAIN old \cup DOMAIN new)
  BY <1>1, FS_Union
<1>3. QED
  BY <1>2, KrakenAssumption DEF IsSide

(* Whoever has the top of a book and applies what Kraken says of a change  *)
(* to it has the top of the book after it: though nothing says which level *)
(* was pushed out, the depth drops it.                                     *)
LEMMA ToldKeeps ==
  ASSUME NEW side, NEW old, IsSide(old), NEW new, IsSide(new), depth \in Nat
  PROVE  ApplyLevels(side, ToldOf(side, old, new), depth, TopOf(side, old)) = TopOf(side, new)
<1> DEFINE was == TopOf(side, old)
           is == TopOf(side, new)
           set == {p \in DOMAIN is : p \notin DOMAIN was \/ was[p] # is[p]}
           removed == DOMAIN was \ DOMAIN new
           f == [p \in set \cup removed |-> IF p \in set THEN is[p] ELSE 0]
           left == (DOMAIN was \ DOMAIN f) \cup {p \in DOMAIN f : f[p] # 0}
<1>1. /\ IsSide(was) /\ DOMAIN was \subseteq DOMAIN old
      /\ IsSide(is) /\ DOMAIN is = Kept(side, DOMAIN new, depth) /\ DOMAIN is \subseteq DOMAIN new
  BY TopIsSide
<1>2. ToldOf(side, old, new) = LevelsOf(side, f)
  BY DEF ToldOf
<1>3. DOMAIN new \in SUBSET Int /\ IsFiniteSet(DOMAIN new)
  BY KrakenAssumption DEF IsSide
<1>4. IsFiniteSet(DOMAIN was \cup DOMAIN is) /\ DOMAIN was \cup DOMAIN is \subseteq Int
  BY <1>1, SidesFinite
<1>5. \A p \in DOMAIN is : is[p] # 0
  BY <1>1, KrakenAssumption DEF IsSide
<1>6. is = [p \in DOMAIN is |-> is[p]]
  BY <1>1 DEF IsSide
<1> HIDE DEF was, is
<1>7. IsFiniteSet(DOMAIN f) /\ DOMAIN f \subseteq Int
  <2>1. DOMAIN f \in SUBSET (DOMAIN was \cup DOMAIN is)
    OBVIOUS
  <2>2. QED
    BY <1>4, <2>1, FS_Subset
<1>8. left \subseteq DOMAIN new
  BY <1>1
<1>9. DOMAIN is \subseteq left
  BY <1>1, <1>5
<1>10. \A p \in DOMAIN is : (IF p \in DOMAIN f THEN f[p] ELSE was[p]) = is[p]
  BY <1>1
<1> HIDE DEF f, left
<1>11. Kept(side, left, depth) = DOMAIN is
  BY <1>1, <1>3, <1>8, <1>9, KeptOfPart
<1>12. Says(LevelsOf(side, f), f)
  BY <1>7, LevelsSay
<1>13. ApplyLevels(side, LevelsOf(side, f), depth, was) =
         [p \in DOMAIN is |-> IF p \in DOMAIN f THEN f[p] ELSE was[p]]
  <2>1. ApplyLevels(side, LevelsOf(side, f), depth, was) = Result(side, f, depth, was)
    BY <1>12, Applied
  <2>2. Result(side, f, depth, was) =
          [p \in Kept(side, left, depth) |-> IF p \in DOMAIN f THEN f[p] ELSE was[p]]
    BY DEF Result, left
  <2>3. QED
    BY <1>11, <2>1, <2>2
<1>14. ApplyLevels(side, LevelsOf(side, f), depth, was) = [p \in DOMAIN is |-> is[p]]
  BY <1>10, <1>13
<1>15. QED
  BY <1>2, <1>6, <1>14 DEF was, is

(* What Kraken tells is a sequence of levels. *)
IsLevels(levels) == levels \in Seq([price : Prices, quantity : Quantities \cup {0}])

LEMMA SeqIs ==
  ASSUME NEW A, NEW s \in Seq(A)
  PROVE  /\ Len(s) \in Nat /\ DOMAIN s = 1..Len(s) /\ s = [i \in 1..Len(s) |-> s[i]]
         /\ \A i \in 1..Len(s) : s[i] \in A
OBVIOUS

LEMMA SeqJoined ==
  ASSUME NEW A, NEW s \in Seq(A), NEW t \in Seq(A)
  PROVE  /\ s \o t \in Seq(A) /\ Len(s \o t) = Len(s) + Len(t)
         /\ \A i \in 1..Len(s) : (s \o t)[i] = s[i]
         /\ \A i \in 1..Len(t) : (s \o t)[i + Len(s)] = t[i]
OBVIOUS

LEMMA SeqOfMore ==
  ASSUME NEW A, NEW B, A \subseteq B, NEW s \in Seq(A)
  PROVE  s \in Seq(B)
<1>1. Len(s) \in Nat /\ s = [i \in 1..Len(s) |-> s[i]] /\ \A i \in 1..Len(s) : s[i] \in B
  OBVIOUS
<1> DEFINE n == Len(s)
<1> HIDE DEF n
<1>2. s \in [1..n -> B]
  BY <1>1 DEF n
<1>3. QED
  BY <1>1, <1>2 DEF n

LEMMA Widened ==
  ASSUME NEW A, NEW B, A \subseteq Prices, B \subseteq Quantities \cup {0},
         NEW levels \in Seq([price : A, quantity : B])
  PROVE  IsLevels(levels)
<1>1. [price : A, quantity : B] \subseteq [price : Prices, quantity : Quantities \cup {0}]
  OBVIOUS
<1>2. QED
  BY <1>1, SeqOfMore DEF IsLevels

LEMMA TopsAreLevels ==
  ASSUME NEW side, NEW levels, IsSide(levels)
  PROVE  IsLevels(LevelsOf(side, TopOf(side, levels)))
<1> DEFINE top == TopOf(side, levels)
<1>1. IsSide(top)
  BY TopIsSide
<1> HIDE DEF top
<1>2. /\ IsFiniteSet(DOMAIN top) /\ DOMAIN top \subseteq Int /\ DOMAIN top \subseteq Prices
      /\ {top[p] : p \in DOMAIN top} \subseteq Quantities
  BY <1>1, KrakenAssumption DEF IsSide
<1>3. LevelsOf(side, top) \in Seq([price : DOMAIN top, quantity : {top[p] : p \in DOMAIN top}])
  BY <1>2, LevelsSay
<1>4. QED
  BY <1>2, <1>3, Widened DEF top

LEMMA ToldAreLevels ==
  ASSUME NEW side, NEW old, IsSide(old), NEW new, IsSide(new)
  PROVE  IsLevels(ToldOf(side, old, new))
<1> DEFINE was == TopOf(side, old)
           is == TopOf(side, new)
           set == {p \in DOMAIN is : p \notin DOMAIN was \/ was[p] # is[p]}
           removed == DOMAIN was \ DOMAIN new
           f == [p \in set \cup removed |-> IF p \in set THEN is[p] ELSE 0]
<1>1. IsSide(was) /\ IsSide(is)
  BY TopIsSide
<1>2. ToldOf(side, old, new) = LevelsOf(side, f)
  BY DEF ToldOf
<1> HIDE DEF was, is
<1>3. /\ IsFiniteSet(DOMAIN was \cup DOMAIN is) /\ DOMAIN was \cup DOMAIN is \subseteq Int
      /\ DOMAIN was \cup DOMAIN is \subseteq Prices
      /\ \A p \in DOMAIN is : is[p] \in Quantities
  BY <1>1, SidesFinite DEF IsSide
<1>4. DOMAIN f \in SUBSET (DOMAIN was \cup DOMAIN is)
  OBVIOUS
<1>5. {f[p] : p \in DOMAIN f} \subseteq Quantities \cup {0}
  BY <1>3
<1> HIDE DEF f
<1>6. IsFiniteSet(DOMAIN f) /\ DOMAIN f \subseteq Int /\ DOMAIN f \subseteq Prices
  BY <1>3, <1>4, FS_Subset
<1>7. LevelsOf(side, f) \in Seq([price : DOMAIN f, quantity : {f[p] : p \in DOMAIN f}])
  BY <1>6, LevelsSay
<1>8. QED
  BY <1>2, <1>5, <1>6, <1>7, Widened

-----------------------------------------------------------------------------
(* What is written of levels reads as those levels. *)
LEMMA LevelsTyped ==
  ASSUME NEW levels, IsLevels(levels)
  PROVE  /\ Len(levels) \in Nat /\ DOMAIN levels = 1..Len(levels)
         /\ levels = [i \in 1..Len(levels) |-> levels[i]]
         /\ \A i \in 1..Len(levels) :
              /\ levels[i] = [price |-> levels[i].price, quantity |-> levels[i].quantity]
              /\ levels[i].price \in Prices /\ levels[i].quantity \in Quantities \cup {0}
              /\ levels[i].price \in Int /\ levels[i].quantity \in Int
<1>1. /\ Len(levels) \in Nat /\ DOMAIN levels = 1..Len(levels)
      /\ levels = [i \in 1..Len(levels) |-> levels[i]]
      /\ \A i \in 1..Len(levels) : levels[i] \in [price : Prices, quantity : Quantities \cup {0}]
  <2> DEFINE A == [price : Prices, quantity : Quantities \cup {0}]
  <2>1. levels \in Seq(A)
    BY DEF IsLevels
  <2> HIDE DEF A
  <2>2. QED
    BY <2>1, SeqIs DEF A
<1>2. QED
  BY <1>1, KrakenAssumption

LEMMA SidesRead ==
  ASSUME NEW levels, IsLevels(levels), NEW values, NEW at \in Nat,
         values[at] = Len(levels) * LevelSize,
         \A i \in 1..Len(levels) : /\ values[at + 2 * i - 1] = levels[i].price
                                   /\ values[at + 2 * i] = levels[i].quantity
  PROVE  ReadSide(values, at) = levels
<1> DEFINE n == Len(levels)
<1>1. n \in Nat /\ levels = [i \in 1..n |-> levels[i]]
  BY LevelsTyped
<1>2. values[at] \div LevelSize = n
  <2>1. values[at] = n * 16
    BY DEF LevelSize
  <2> HIDE DEF n
  <2>2. QED
    BY <1>1, <2>1 DEF LevelSize
<1>3. \A i \in 1..n : levels[i] = [price |-> values[at + 2 * i - 1], quantity |-> values[at + 2 * i]]
  BY LevelsTyped
<1> HIDE DEF n
<1>4. ReadSide(values, at) = [i \in 1..n |-> levels[i]]
  BY <1>2, <1>3 DEF ReadSide
<1>5. QED
  BY <1>1, <1>4

LEMMA SidesWritten ==
  ASSUME NEW levels, IsLevels(levels)
  PROVE  /\ WriteSide(levels) \in Seq(Int) /\ Len(WriteSide(levels)) = 2 * Len(levels) + 1
         /\ WriteSide(levels)[1] = Len(levels) * LevelSize
         /\ \A i \in 1..Len(levels) : /\ WriteSide(levels)[2 * i] = levels[i].price
                                      /\ WriteSide(levels)[2 * i + 1] = levels[i].quantity
<1> DEFINE n == Len(levels)
           values == LevelValues(levels)
<1>1. n \in Nat /\ \A i \in 1..n : levels[i].price \in Int /\ levels[i].quantity \in Int
  BY LevelsTyped
<1> HIDE DEF n
<1>2. values = [v \in 1..(2 * n) |-> IF v % 2 = 1 THEN levels[(v + 1) \div 2].price
                                     ELSE levels[v \div 2].quantity]
  BY DEF LevelValues, n
<1>3. \A v \in 1..(2 * n) : values[v] \in Int
  BY <1>1, <1>2
<1>4. \A i \in 1..n : values[2 * i - 1] = levels[i].price /\ values[2 * i] = levels[i].quantity
  <2> TAKE i \in 1..n
  <2>1. /\ 2 * i - 1 \in 1..(2 * n) /\ 2 * i \in 1..(2 * n)
        /\ (2 * i - 1) % 2 = 1 /\ (2 * i) % 2 = 0
        /\ ((2 * i - 1) + 1) \div 2 = i /\ (2 * i) \div 2 = i
    BY <1>1
  <2>2. QED
    BY <1>2, <2>1
<1>5. values = [v \in 1..(2 * n) |-> values[v]]
  BY <1>2
<1> HIDE DEF values
<1>6. values \in [1..(2 * n) -> Int]
  BY <1>3, <1>5
<1>7. values \in Seq(Int) /\ Len(values) = 2 * n
  BY <1>1, <1>6
<1>8. n * LevelSize \in Int
  BY <1>1 DEF LevelSize
<1>9. WriteSide(levels) = <<n * LevelSize>> \o values
  BY DEF WriteSide, n, values
<1> DEFINE written == <<n * LevelSize>> \o values
<1>10. written \in Seq(Int) /\ Len(written) = 2 * n + 1 /\ written[1] = n * LevelSize
  BY <1>1, <1>7, <1>8
<1>11. \A v \in 1..(2 * n) : written[v + 1] = values[v]
  BY <1>1, <1>7, <1>8
<1>12. \A i \in 1..n : written[2 * i] = values[2 * i - 1] /\ written[2 * i + 1] = values[2 * i]
  <2> TAKE i \in 1..n
  <2>1. /\ 2 * i - 1 \in 1..(2 * n) /\ (2 * i - 1) + 1 = 2 * i
        /\ 2 * i \in 1..(2 * n)
    BY <1>1
  <2> HIDE DEF written
  <2>2. QED
    BY <1>11, <2>1
<1> HIDE DEF written
<1>13. QED
  BY <1>4, <1>9, <1>10, <1>12 DEF n, written

(* What both a recording and a Book keep of a message. *)
Heard(message) == [type |-> message.type, buys |-> message.buys, sells |-> message.sells]

LEMMA RecordReads ==
  ASSUME NEW message, IsLevels(message.buys), IsLevels(message.sells)
  PROVE  ReadRecord(Serialize(message)) = Heard(message)
<1> DEFINE buys == WriteSide(message.buys)
           sells == WriteSide(message.sells)
           n == Len(message.buys)
           m == Len(message.sells)
           sides == buys \o sells
<1>1. Serialize(message).sides = sides /\ Serialize(message).prefix[1] = message.type
  BY DEF Serialize
<1>2. /\ n \in Nat /\ buys \in Seq(Int) /\ Len(buys) = 2 * n + 1
      /\ buys[1] = n * LevelSize
      /\ \A i \in 1..n : /\ buys[2 * i] = message.buys[i].price
                         /\ buys[2 * i + 1] = message.buys[i].quantity
  BY SidesWritten, LevelsTyped
<1>3. /\ m \in Nat /\ sells \in Seq(Int) /\ Len(sells) = 2 * m + 1
      /\ sells[1] = m * LevelSize
      /\ \A i \in 1..m : /\ sells[2 * i] = message.sells[i].price
                         /\ sells[2 * i + 1] = message.sells[i].quantity
  BY SidesWritten, LevelsTyped
<1> HIDE DEF buys, sells
<1>4. /\ \A i \in 1..Len(buys) : sides[i] = buys[i]
      /\ \A i \in 1..Len(sells) : sides[i + Len(buys)] = sells[i]
  <2>1. buys \in Seq(Int) /\ sells \in Seq(Int)
    BY <1>2, <1>3
  <2>2. QED
    BY <2>1, SeqJoined
<1> HIDE DEF sides, n, m
<1>5. ReadSide(sides, 1) = message.buys
  <2>1. sides[1] = n * LevelSize
    BY <1>2, <1>4
  <2>2. ASSUME NEW i \in 1..n
        PROVE  /\ sides[1 + 2 * i - 1] = message.buys[i].price
               /\ sides[1 + 2 * i] = message.buys[i].quantity
    <3>1. /\ 2 * i \in 1..Len(buys) /\ 2 * i + 1 \in 1..Len(buys)
          /\ 1 + 2 * i - 1 = 2 * i /\ 1 + 2 * i = 2 * i + 1
      BY <1>2
    <3>2. QED
      BY <1>2, <1>4, <3>1
  <2>3. \A i \in 1..Len(message.buys) : /\ sides[1 + 2 * i - 1] = message.buys[i].price
                                        /\ sides[1 + 2 * i] = message.buys[i].quantity
    BY <2>2 DEF n
  <2>4. 1 \in Nat /\ sides[1] = Len(message.buys) * LevelSize
    BY <2>1 DEF n
  <2>5. QED
    BY <2>3, <2>4, SidesRead
<1>6. ReadSide(sides, 2 * n + 2) = message.sells
  <2>1. sides[2 * n + 2] = m * LevelSize
    <3>1. 1 \in 1..Len(sells) /\ 2 * n + 2 = 1 + Len(buys)
      BY <1>2, <1>3
    <3>2. QED
      BY <1>3, <1>4, <3>1
  <2>2. ASSUME NEW i \in 1..m
        PROVE  /\ sides[2 * n + 2 + 2 * i - 1] = message.sells[i].price
               /\ sides[2 * n + 2 + 2 * i] = message.sells[i].quantity
    <3>1. /\ 2 * i \in 1..Len(sells) /\ 2 * i + 1 \in 1..Len(sells)
          /\ 2 * n + 2 + 2 * i - 1 = 2 * i + Len(buys)
          /\ 2 * n + 2 + 2 * i = (2 * i + 1) + Len(buys)
      BY <1>2, <1>3
    <3>2. QED
      BY <1>3, <1>4, <3>1
  <2>3. 2 * n + 2 \in Nat
    BY <1>2
  <2>4. QED
    BY <2>1, <2>2, <2>3, SidesRead DEF m
<1>7. QED
  BY <1>1, <1>5, <1>6 DEF ReadRecord, Heard, n

LEMMA BooksRead ==
  ASSUME NEW levels, IsLevels(levels)
  PROVE  ReadLevels(AppendLevels(levels, <<>>)) = levels
<1> DEFINE n == Len(levels)
           pairs == [i \in 1..n |-> <<levels[i].price, levels[i].quantity>>]
<1>1. n \in Nat /\ levels = [i \in 1..n |-> levels[i]]
  BY LevelsTyped
<1>2. \A i \in 1..n : levels[i] = [price |-> levels[i].price, quantity |-> levels[i].quantity]
  BY LevelsTyped
<1>3. pairs \in Seq(Prices \X (Quantities \cup {0})) /\ Len(pairs) = n
  <2>1. \A i \in 1..n : levels[i].price \in Prices /\ levels[i].quantity \in Quantities \cup {0}
    BY LevelsTyped
  <2> HIDE DEF n
  <2>2. pairs \in [1..n -> Prices \X (Quantities \cup {0})]
    BY <2>1
  <2> HIDE DEF pairs
  <2>3. QED
    BY <1>1, <2>2
<1>4. \A i \in 1..n : pairs[i] = <<levels[i].price, levels[i].quantity>>
  OBVIOUS
<1>5. AppendLevels(levels, <<>>) = <<>> \o pairs
  BY DEF AppendLevels
<1> HIDE DEF n, pairs
<1>6. <<>> \o pairs = pairs
  BY <1>3
<1>7. ReadLevels(pairs) = [i \in 1..n |-> [price |-> pairs[i][1], quantity |-> pairs[i][2]]]
  BY <1>3 DEF ReadLevels
<1>8. \A i \in 1..n : pairs[i][1] = levels[i].price /\ pairs[i][2] = levels[i].quantity
  BY <1>4
<1>9. ReadLevels(pairs) = [i \in 1..n |-> levels[i]]
  BY <1>2, <1>7, <1>8
<1>10. QED
  BY <1>1, <1>5, <1>6, <1>9

(* A reader of the recording and a client do as the parser does. *)
LEMMA AppliesHeard ==
  ASSUME NEW b, NEW d, NEW message
  PROVE  Apply(b, d, Heard(message)) = Apply(b, d, message)
<1>1. Cleared(b, Heard(message)) = Cleared(b, message)
  BY DEF Cleared, Heard
<1>2. \A s \in Sides : Heard(message)[s] = message[s]
  BY DEF Heard, Sides
<1>3. QED
  BY <1>1, <1>2 DEF Apply

LEMMA RecordApplies ==
  ASSUME NEW b, NEW d, NEW message, IsLevels(message.buys), IsLevels(message.sells)
  PROVE  Apply(b, d, ReadRecord(Serialize(message))) = Apply(b, d, message)
BY RecordReads, AppliesHeard

LEMMA BookApplies ==
  ASSUME NEW b, NEW to, NEW message, IsLevels(message.buys), IsLevels(message.sells)
  PROVE  ClientApply(b, to, MakeBook(message)) = Apply(b, to.depth, message)
<1> DEFINE update == MakeBook(message)
           read == [type |-> IF update.kind = "KIND_SNAPSHOT" THEN "snapshot" ELSE "update",
                    buys |-> ReadLevels(update.bids), sells |-> ReadLevels(update.asks)]
<1>1. read.buys = message.buys /\ read.sells = message.sells
  BY BooksRead DEF MakeBook
<1>2. read.type = "snapshot" <=> message.type = "snapshot"
  BY DEF MakeBook
<1>3. ClientApply(b, to, update) = Apply(b, to.depth, read)
  BY DEF ClientApply
<1> HIDE DEF read
<1>4. Cleared(b, read) = Cleared(b, message) /\ \A s \in Sides : read[s] = message[s]
  BY <1>1, <1>2 DEF Cleared, Sides
<1>5. QED
  BY <1>3, <1>4 DEF Apply

-----------------------------------------------------------------------------
(* Powers of ten. *)
IsPowers(f, n) ==
  /\ f \in [0..n -> Nat]
  /\ \A e \in 0..n : f[e] = IF e = 0 THEN 1 ELSE f[e - 1] * 10

LEMMA PowersAgree ==
  ASSUME NEW n \in Nat, NEW f, IsPowers(f, n), NEW m \in Nat, n <= m, NEW g, IsPowers(g, m)
  PROVE  f[n] = g[n]
<1> DEFINE T == {k \in Nat : f[k] = g[k]}
<1>1. 0 \in T
  BY DEF IsPowers
<1>2. ASSUME NEW k \in 0..(n - 1), k \in T
      PROVE  k + 1 \in T
  <2>1. k + 1 \in 0..n /\ k + 1 \in 0..m /\ k + 1 # 0 /\ (k + 1) - 1 = k
    OBVIOUS
  <2>2. f[k + 1] = f[k] * 10 /\ g[k + 1] = g[k] * 10
    BY <2>1 DEF IsPowers
  <2>3. QED
    BY <1>2, <2>1, <2>2
<1> HIDE DEF T
<1>3. \A k \in 0..n : k \in T
  BY <1>1, <1>2, Inductive
<1>4. n \in T
  BY <1>3
<1>5. QED
  BY <1>4 DEF T

LEMMA PowersExist ==
  ASSUME NEW n \in Nat
  PROVE  \E f : IsPowers(f, n)
<1> DEFINE T == {k \in Nat : \E f : IsPowers(f, k)}
<1>1. 0 \in T
  <2>1. IsPowers([e \in 0..0 |-> 1], 0)
    BY DEF IsPowers
  <2>2. QED
    BY <2>1
<1>2. ASSUME NEW k \in 0..(n - 1), k \in T
      PROVE  k + 1 \in T
  <2>1. PICK f : IsPowers(f, k)
    BY <1>2
  <2> DEFINE g == [e \in 0..(k + 1) |-> IF e = k + 1 THEN f[k] * 10 ELSE f[e]]
  <2>2. f \in [0..k -> Nat] /\ \A e \in 0..k : f[e] = IF e = 0 THEN 1 ELSE f[e - 1] * 10
    BY <2>1 DEF IsPowers
  <2>3. \A e \in 0..k : f[e] \in Nat /\ g[e] = f[e]
    BY <2>2
  <2>4. k \in 0..k /\ f[k] * 10 \in Nat /\ g[k + 1] = f[k] * 10
    BY <2>3
  <2>5. \A e \in 0..(k + 1) : e = k + 1 \/ e \in 0..k
    OBVIOUS
  <2>6. g \in [0..(k + 1) -> Nat]
    BY <2>3, <2>4, <2>5
  <2> HIDE DEF g
  <2>7. ASSUME NEW e \in 0..(k + 1)
        PROVE  g[e] = IF e = 0 THEN 1 ELSE g[e - 1] * 10
    <3>1. CASE e = k + 1
      BY <2>3, <2>4, <3>1
    <3>2. CASE e \in 0..k
      <4>1. e = 0 \/ e - 1 \in 0..k
        BY <3>2
      <4>2. QED
        BY <2>2, <2>3, <3>2, <4>1
    <3>3. QED
      BY <2>5, <3>1, <3>2
  <2>8. IsPowers(g, k + 1)
    BY <2>6, <2>7 DEF IsPowers
  <2>9. QED
    BY <2>8
<1> HIDE DEF T
<1>3. \A k \in 0..n : k \in T
  BY <1>1, <1>2, Inductive
<1>4. n \in T
  BY <1>3
<1>5. QED
  BY <1>4 DEF T

LEMMA Powers ==
  /\ Pow10[0] = 1
  /\ \A n \in Nat : Pow10[n] \in Nat \ {0} /\ Pow10[n + 1] = Pow10[n] * 10
<1> DEFINE to(n) == CHOOSE f : IsPowers(f, n)
           G == [n \in Nat |-> to(n)[n]]
<1>1. \A n \in Nat : IsPowers(to(n), n)
  BY PowersExist
<1> HIDE DEF to
<1>2. \A n \in Nat : G[n] = IF n = 0 THEN 1 ELSE G[n - 1] * 10
  <2> TAKE n \in Nat
  <2>1. CASE n = 0
    BY <1>1, <2>1 DEF IsPowers
  <2>2. CASE n # 0
    <3>1. n - 1 \in Nat /\ n - 1 <= n /\ n \in 0..n
      BY <2>2
    <3>2. IsPowers(to(n), n) /\ IsPowers(to(n - 1), n - 1)
      BY <1>1, <3>1
    <3>3. to(n - 1)[n - 1] = to(n)[n - 1]
      BY <3>1, <3>2, PowersAgree
    <3>4. to(n)[n] = to(n)[n - 1] * 10
      BY <2>2, <3>1, <3>2 DEF IsPowers
    <3>5. QED
      BY <2>2, <3>1, <3>3, <3>4
  <2>3. QED
    BY <2>1, <2>2
<1>3. G = [n \in Nat |-> IF n = 0 THEN 1 ELSE G[n - 1] * 10]
  <2> HIDE DEF G
  <2>1. G = [n \in Nat |-> G[n]]
    BY DEF G
  <2>2. QED
    BY <1>2, <2>1
<1>4. Pow10 = [n \in Nat |-> IF n = 0 THEN 1 ELSE Pow10[n - 1] * 10]
  <2>1. Pow10 = CHOOSE f : f = [n \in Nat |-> IF n = 0 THEN 1 ELSE f[n - 1] * 10]
    BY DEF Pow10
  <2> HIDE DEF G
  <2>2. \E f : f = [n \in Nat |-> IF n = 0 THEN 1 ELSE f[n - 1] * 10]
    BY <1>3
  <2>3. QED
    BY <2>1, <2>2
<1>5. Pow10[0] = 1 /\ \A n \in Nat : Pow10[n + 1] = Pow10[n] * 10
  BY <1>4
<1>6. ASSUME NEW n \in Nat PROVE Pow10[n] \in Nat \ {0}
  <2> DEFINE T == {k \in Nat : Pow10[k] \in Nat \ {0}}
  <2>1. 0 \in T
    BY <1>5
  <2>2. \A k \in 0..(n - 1) : k \in T => k + 1 \in T
    BY <1>5
  <2> HIDE DEF T
  <2>3. \A k \in 0..n : k \in T
    BY <2>1, <2>2, Inductive
  <2>4. n \in T
    BY <2>3
  <2>5. QED
    BY <2>4 DEF T
<1>7. QED
  BY <1>5, <1>6

LEMMA Tenths ==
  ASSUME NEW r \in Nat, NEW m \in Nat \ {0}
  PROVE  /\ r \div (m * 10) = (r \div m) \div 10
         /\ r \div m \in Nat /\ r \div m <= r
         /\ r \div m = (r \div (m * 10)) * 10 + ((r \div m) % 10)
<1> DEFINE q == r \div m
           p == q \div 10
<1>1. q \in Nat /\ m * q <= r /\ r < m * (q + 1)
  OBVIOUS
<1>2. q <= r
  <2>1. q <= m * q
    BY <1>1
  <2>2. QED
    BY <1>1, <2>1
<1> HIDE DEF q
<1>3. p \in Nat /\ 10 * p <= q /\ q <= 10 * p + 9 /\ q = 10 * p + (q % 10)
  <2>1. q \in Nat /\ p = q \div 10
    BY <1>1
  <2> HIDE DEF p
  <2>2. QED
    BY <2>1
<1> HIDE DEF p
<1>4. m * (10 * p) <= m * q /\ m * (q + 1) <= m * (10 * p + 10)
  BY <1>1, <1>3
<1>5. m * (10 * p) = (m * 10) * p /\ m * (10 * p + 10) = (m * 10) * (p + 1)
  BY <1>3
<1>6. (m * 10) * p <= r /\ r < (m * 10) * (p + 1)
  <2>1. m * q \in Int /\ m * (q + 1) \in Int /\ (m * 10) * p \in Int /\ (m * 10) * (p + 1) \in Int
    BY <1>1, <1>3
  <2>2. QED
    BY <1>1, <1>4, <1>5, <2>1
<1>7. r \div (m * 10) = p
  <2> DEFINE M == m * 10
  <2>1. M \in Nat \ {0}
    OBVIOUS
  <2> HIDE DEF M
  <2>2. M * p <= r /\ r < M * (p + 1)
    BY <1>6 DEF M
  <2>3. r \div M = p
    BY <1>3, <2>1, <2>2
  <2>4. QED
    BY <2>3 DEF M
<1>8. QED
  BY <1>1, <1>2, <1>3, <1>7 DEF p, q

(* A number's first digits are worth ten times one digit fewer, and the    *)
(* next.                                                                   *)
LEMMA NextDigit ==
  ASSUME NEW r \in Nat, NEW D \in Nat, NEW k \in 1..D
  PROVE  /\ r \div Pow10[D - k] =
              (r \div Pow10[D - (k - 1)]) * 10 + ((r \div Pow10[D - k]) % 10)
         /\ r \div Pow10[D - k] \in Nat /\ r \div Pow10[D - k] <= r
<1> DEFINE m == Pow10[D - k]
<1>1. D - k \in Nat /\ D - (k - 1) = (D - k) + 1
  OBVIOUS
<1>2. m \in Nat \ {0} /\ Pow10[D - (k - 1)] = m * 10
  BY <1>1, Powers
<1> HIDE DEF m
<1>3. r \div m = (r \div (m * 10)) * 10 + ((r \div m) % 10) /\ r \div m \in Nat /\ r \div m <= r
  BY <1>2, Tenths
<1>4. QED
  BY <1>2, <1>3 DEF m

LEMMA DigitChars ==
  ASSUME NEW x \in 0..9
  PROVE  /\ IsDigit(Digits[x + 1]) /\ ValueOf(Digits[x + 1]) = x
         /\ Digits[x + 1] # "." /\ (Digits[x + 1] = "0" => x = 0)
<1>1. x + 1 \in 1..10 /\ \A d \in 1..10 : Digits[d] = Digits[x + 1] => d = x + 1
  BY DEF Digits
<1>2. IsDigit(Digits[x + 1])
  BY <1>1 DEF IsDigit
<1>3. (CHOOSE d \in 1..10 : Digits[d] = Digits[x + 1]) = x + 1
  BY <1>1
<1>4. ValueOf(Digits[x + 1]) = x
  <2>1. ValueOf(Digits[x + 1]) = (CHOOSE d \in 1..10 : Digits[d] = Digits[x + 1]) - 1
    BY DEF ValueOf
  <2>2. ValueOf(Digits[x + 1]) = (x + 1) - 1
    BY <1>3, <2>1
  <2>3. QED
    BY <2>2
<1>5. Digits[x + 1] # "." /\ (Digits[x + 1] = "0" => x = 0)
  BY DEF Digits
<1>6. QED
  BY <1>2, <1>4, <1>5

(* from_chars() of a number's first digits. *)
LEMMA DigitsRead ==
  ASSUME NEW r \in Nat, r <= MaxInt, NEW D \in Nat, r < Pow10[D], NEW L \in 0..D,
         NEW text, Len(text) = L,
         \A i \in 1..L : text[i] = Digits[((r \div Pow10[D - i]) % 10) + 1]
  PROVE  FromChars(text) = r \div Pow10[D - L]
<1> DEFINE v(n) == r \div Pow10[D - n]
           V == [n \in 0..L |-> v(n)]
           digits == {n \in 0..Len(text) : \A i \in 1..n : IsDigit(text[i])}
           Reads(f) == f = [n \in digits |-> IF n = 0 THEN 0 ELSE f[n - 1] * 10 + ValueOf(text[n])]
           prefix == CHOOSE f : Reads(f)
<1>1. v(0) = 0
  <2>1. D - 0 = D /\ Pow10[D] \in Nat \ {0}
    BY Powers
  <2>2. r \div Pow10[D] = 0
    BY <2>1
  <2>3. QED
    BY <2>1, <2>2
<1>2. \A n \in 1..L : /\ v(n) = v(n - 1) * 10 + (v(n) % 10) /\ v(n) \in Nat /\ v(n) <= r
  <2>1. \A n \in 1..L : n \in 1..D
    OBVIOUS
  <2>2. QED
    BY <2>1, NextDigit
<1>3. \A n \in 1..L : text[n] = Digits[(v(n) % 10) + 1]
  OBVIOUS
<1> HIDE DEF v
<1>4. \A n \in 1..L : IsDigit(text[n]) /\ ValueOf(text[n]) = v(n) % 10
  <2> TAKE n \in 1..L
  <2>1. v(n) % 10 \in 0..9
    <3>1. v(n) \in Nat
      BY <1>2
    <3>2. \A q \in Nat : q % 10 \in 0..9
      OBVIOUS
    <3>3. QED
      BY <3>1, <3>2
  <2>2. QED
    BY <1>3, <2>1, DigitChars
<1>5. digits = 0..L
  BY <1>4
<1> HIDE DEF digits
<1>6. Reads(V)
  <2>1. \A n \in 0..L : V[n] = IF n = 0 THEN 0 ELSE V[n - 1] * 10 + ValueOf(text[n])
    BY <1>1, <1>2, <1>4
  <2>2. V = [n \in 0..L |-> V[n]]
    OBVIOUS
  <2> HIDE DEF V
  <2>3. QED
    BY <1>5, <2>1, <2>2
<1> HIDE DEF Reads
<1>7. Reads(prefix)
  BY <1>6
<1> HIDE DEF prefix
<1>8. \A n \in 0..L : prefix[n] = v(n)
  <2> DEFINE T == {n \in Nat : prefix[n] = v(n)}
  <2>1. \A n \in 0..L : prefix[n] = IF n = 0 THEN 0 ELSE prefix[n - 1] * 10 + ValueOf(text[n])
    BY <1>5, <1>7 DEF Reads
  <2>2. 0 \in T
    <3>1. 0 \in 0..L
      OBVIOUS
    <3>2. prefix[0] = 0
      BY <2>1, <3>1
    <3>3. QED
      BY <1>1, <3>2
  <2>3. ASSUME NEW n \in 0..(L - 1), n \in T
        PROVE  n + 1 \in T
    <3>1. n + 1 \in 1..L /\ n + 1 \in 0..L /\ (n + 1) - 1 = n /\ n + 1 # 0
      OBVIOUS
    <3>2. prefix[n + 1] = prefix[n] * 10 + ValueOf(text[n + 1])
      BY <2>1, <3>1
    <3>3. prefix[n + 1] = v(n) * 10 + (v(n + 1) % 10)
      BY <1>4, <2>3, <3>1, <3>2
    <3>4. v(n + 1) = v(n) * 10 + (v(n + 1) % 10)
      BY <1>2, <3>1
    <3>5. QED
      BY <3>1, <3>3, <3>4
  <2> HIDE DEF T
  <2>4. L \in Nat /\ \A n \in 0..(L - 1) : n \in T => n + 1 \in T
    BY <2>3
  <2>5. \A n \in 0..L : n \in T
    BY <2>2, <2>4, Inductive
  <2>6. QED
    BY <2>5 DEF T
<1>9. (CHOOSE n \in digits : n + 1 \notin digits) = L
  BY <1>5
<1>10. FromChars(text) = IF prefix[L] <= MaxInt THEN prefix[L] ELSE 0
  <2>1. FromChars(text) =
          IF prefix[CHOOSE n \in digits : n + 1 \notin digits] <= MaxInt
            THEN prefix[CHOOSE n \in digits : n + 1 \notin digits] ELSE 0
    BY DEF FromChars, prefix, Reads, digits
  <2>2. QED
    BY <1>9, <2>1
<1>11. v(L) \in Nat /\ v(L) <= r
  BY <1>1, <1>2
<1>12. prefix[L] = v(L) /\ v(L) <= MaxInt
  BY <1>8, <1>11, DecimalAssumption
<1>13. QED
  BY <1>10, <1>12 DEF v

(* Digits that are all 0 are worth nothing. *)
LEMMA TrailingZeros ==
  ASSUME NEW r \in Nat, NEW D \in Nat, NEW L \in 0..D,
         \A i \in 1..D : i > L => (r \div Pow10[D - i]) % 10 = 0
  PROVE  (r \div Pow10[D - L]) * Pow10[D - L] = r
<1> DEFINE v(j) == r \div Pow10[j]
           T == {j \in Nat : v(j) * Pow10[j] = r}
<1>1. 0 \in T
  BY Powers
<1>2. ASSUME NEW j \in 0..((D - L) - 1), j \in T
      PROVE  j + 1 \in T
  <2>1. D - j \in 1..D /\ D - j > L /\ D - (D - j) = j /\ D - ((D - j) - 1) = j + 1
    OBVIOUS
  <2>2. v(j) % 10 = 0
    BY <2>1
  <2>3. v(j) = v(j + 1) * 10 + (v(j) % 10) /\ v(j) \in Nat
    BY <2>1, NextDigit
  <2>4. v(j + 1) \in Nat /\ Pow10[j + 1] = Pow10[j] * 10 /\ Pow10[j] \in Nat
    <3>1. j \in Nat /\ j + 1 \in Nat
      OBVIOUS
    <3>2. Pow10[j + 1] \in Nat \ {0} /\ Pow10[j + 1] = Pow10[j] * 10 /\ Pow10[j] \in Nat
      BY <3>1, Powers
    <3>3. QED
      BY <3>2
  <2> HIDE DEF v
  <2>5. v(j) = v(j + 1) * 10
    BY <2>2, <2>3, <2>4
  <2>6. v(j + 1) * Pow10[j + 1] = v(j) * Pow10[j]
    BY <2>4, <2>5
  <2>7. QED
    BY <1>2, <2>6
<1> HIDE DEF T
<1>3. D - L \in Nat
  OBVIOUS
<1>4. \A j \in 0..(D - L) : j \in T
  BY <1>1, <1>2, <1>3, Inductive
<1>5. D - L \in T
  BY <1>3, <1>4
<1>6. QED
  BY <1>5 DEF T

-----------------------------------------------------------------------------
(* What Kraken writes of a number reads as that number. *)
Chars == {Digits[d] : d \in 1..10} \cup {"."}

LEMMA CharactersAre ==
  ASSUME NEW n \in Nat, NEW places \in Nat
  PROVE  /\ Characters(DigitsAt(n, places)) \in Seq(Chars)
         /\ Len(Characters(DigitsAt(n, places))) = places
         /\ \A i \in 1..places :
              /\ Characters(DigitsAt(n, places))[i] = Digits[((n \div Pow10[places - i]) % 10) + 1]
              /\ (n \div Pow10[places - i]) % 10 \in 0..9
<1> DEFINE digit(i) == (n \div Pow10[places - i]) % 10
           chars == Characters(DigitsAt(n, places))
<1>1. ASSUME NEW i \in 1..places PROVE digit(i) \in 0..9
  <2>1. places - i \in Nat
    OBVIOUS
  <2>2. Pow10[places - i] \in Nat \ {0}
    BY <2>1, Powers
  <2>3. \A m \in Nat \ {0} : (n \div m) % 10 \in 0..9
    <3> TAKE m \in Nat \ {0}
    <3>1. n \div m \in Nat
      OBVIOUS
    <3>2. \A q \in Nat : q % 10 \in 0..9
      OBVIOUS
    <3>3. QED
      BY <3>1, <3>2
  <2>4. QED
    BY <2>2, <2>3
<1>2. DigitsAt(n, places) = [i \in 1..places |-> digit(i)]
  BY DEF DigitsAt
<1> HIDE DEF digit
<1>3. [i \in 1..places |-> digit(i)] \in Seq(0..9) /\ Len([i \in 1..places |-> digit(i)]) = places
  <2> DEFINE s == [i \in 1..places |-> digit(i)]
  <2>1. s \in [1..places -> 0..9]
    BY <1>1
  <2> HIDE DEF s
  <2>2. s \in Seq(0..9) /\ Len(s) = places
    BY <2>1
  <2>3. QED
    BY <2>2 DEF s
<1>4. chars = [i \in 1..places |-> Digits[digit(i) + 1]]
  BY <1>2, <1>3 DEF Characters
<1>5. \A i \in 1..places : Digits[digit(i) + 1] \in Chars
  <2> TAKE i \in 1..places
  <2>1. digit(i) + 1 \in 1..10
    BY <1>1
  <2>2. QED
    BY <2>1 DEF Chars
<1> HIDE DEF chars
<1>6. chars \in [1..places -> Chars]
  BY <1>4, <1>5
<1>7. chars \in Seq(Chars) /\ Len(chars) = places
  BY <1>6
<1>8. QED
  BY <1>1, <1>4, <1>7 DEF chars, digit

LEMMA PowersGrow ==
  ASSUME NEW n \in Nat
  PROVE  n < Pow10[n]
<1> DEFINE T == {k \in Nat : k < Pow10[k]}
<1>1. 0 \in T
  BY Powers
<1>2. ASSUME NEW k \in 0..(n - 1), k \in T
      PROVE  k + 1 \in T
  <2>1. k \in Nat /\ k < Pow10[k] /\ Pow10[k] \in Nat /\ Pow10[k + 1] = Pow10[k] * 10
    BY <1>2, Powers
  <2>2. QED
    BY <2>1
<1> HIDE DEF T
<1>3. \A k \in 0..n : k \in T
  BY <1>1, <1>2, Inductive
<1>4. n \in T
  BY <1>3
<1>5. QED
  BY <1>4 DEF T

LEMMA DigitsOfIs ==
  ASSUME NEW n \in Nat
  PROVE  \E k \in Nat \ {0} : DigitsOf(n) = DigitsAt(n, k) /\ n < Pow10[k]
<1> DEFINE S == {k \in Nat : k # 0 /\ n < Pow10[k]}
           P(k) == n < Pow10[k] /\ (k = 1 \/ n >= Pow10[k - 1])
<1>1. n + 1 \in S
  <2>1. n + 1 \in Nat /\ n + 1 < Pow10[n + 1] /\ Pow10[n + 1] \in Nat
    BY PowersGrow, Powers
  <2>2. QED
    BY <2>1
<1>2. PICK k \in S : \A m \in S : k <= m
  <2>1. S \in SUBSET Nat
    OBVIOUS
  <2> HIDE DEF S
  <2>2. QED
    BY <1>1, <2>1, Least
<1>3. k \in 1..(n + 1)
  BY <1>1, <1>2
<1>4. P(k)
  <2>1. CASE k = 1
    BY <1>2, <2>1
  <2>2. CASE k # 1
    <3>1. k - 1 \in Nat /\ k - 1 # 0 /\ ~(k <= k - 1)
      BY <1>3, <2>2
    <3>2. ~(n < Pow10[k - 1])
      BY <1>2, <3>1
    <3>3. Pow10[k - 1] \in Nat
      BY <3>1, Powers
    <3>4. n >= Pow10[k - 1]
      BY <3>2, <3>3
    <3>5. QED
      BY <1>2, <3>4
  <2>3. QED
    BY <2>1, <2>2
<1> DEFINE c == CHOOSE i \in 1..(n + 1) : P(i)
<1>5. DigitsOf(n) = DigitsAt(n, c)
  BY DEF DigitsOf
<1>6. c \in 1..(n + 1) /\ n < Pow10[c]
  BY <1>3, <1>4
<1> HIDE DEF c
<1>7. c \in Nat \ {0}
  BY <1>6
<1>8. QED
  BY <1>5, <1>6, <1>7

(* The dot of a text of digits and a fraction. *)
LEMMA DotIs ==
  ASSUME NEW whole \in Seq(Chars), NEW rest \in Seq(Chars),
         \A i \in 1..Len(whole) : whole[i] # ".",
         Len(rest) = 0 \/ rest[1] = "."
  PROVE  DotOf(whole \o rest) = Len(whole) + 1
<1> DEFINE text == whole \o rest
           k == Len(whole)
           m == Len(rest)
           P(n) == /\ \A i \in 1..(n - 1) : text[i] # "."
                   /\ n = Len(text) + 1 \/ text[n] = "."
<1>1. /\ k \in Nat /\ m \in Nat /\ Len(text) = k + m
      /\ \A i \in 1..k : text[i] = whole[i]
      /\ \A i \in 1..m : text[i + k] = rest[i]
  BY SeqJoined, SeqIs
<1> HIDE DEF text, k, m
<1>2. \A i \in 1..k : text[i] # "."
  BY <1>1 DEF k
<1>3. m = 0 \/ text[k + 1] = "."
  <2>1. m = 0 \/ 1 \in 1..m
    BY <1>1
  <2>2. m = 0 \/ rest[1] = "."
    BY DEF m
  <2>3. 1 \in 1..m => text[1 + k] = rest[1]
    BY <1>1
  <2>4. 1 + k = k + 1
    BY <1>1
  <2>5. QED
    BY <2>1, <2>2, <2>3, <2>4
<1>4. k + 1 \in 1..(Len(text) + 1) /\ P(k + 1)
  BY <1>1, <1>2, <1>3
<1>5. ASSUME NEW n \in 1..(Len(text) + 1), P(n) PROVE n = k + 1
  <2>1. ~(n <= k)
    <3>1. SUFFICES ASSUME n <= k PROVE FALSE
      OBVIOUS
    <3>2. n \in 1..k /\ n # Len(text) + 1
      BY <1>1, <3>1
    <3>3. QED
      BY <1>2, <1>5, <3>2
  <2>2. ~(n > k + 1)
    <3>1. SUFFICES ASSUME n > k + 1 PROVE FALSE
      OBVIOUS
    <3>2. m # 0 /\ k + 1 \in 1..(n - 1)
      BY <1>1, <3>1
    <3>3. QED
      BY <1>3, <1>5, <3>2
  <2>3. QED
    BY <1>1, <2>1, <2>2
<1>6. DotOf(text) = CHOOSE n \in 1..(Len(text) + 1) : P(n)
  BY DEF DotOf
<1> HIDE DEF P
<1>7. DotOf(text) = k + 1
  BY <1>4, <1>5, <1>6
<1>8. QED
  BY <1>7 DEF text, k

LEMMA FractionDigitsAre ==
  ASSUME NEW fraction \in Seq(Chars)
  PROVE  /\ FractionDigits(<<".">> \o fraction) \in 0..Len(fraction)
         /\ \A i \in 1..Len(fraction) :
              i > FractionDigits(<<".">> \o fraction) => fraction[i] = "0"
<1> DEFINE text == <<".">> \o fraction
           m == Len(fraction)
           last == {0} \cup {i \in 1..Len(text) : text[i] # "0"}
           largest == CHOOSE i \in last : \A j \in last : j <= i
<1>1. <<".">> \in Seq(Chars) /\ Len(<<".">>) = 1 /\ <<".">>[1] = "."
  BY DEF Chars
<1>2. /\ m \in Nat /\ text \in Seq(Chars) /\ Len(text) = 1 + m /\ text[1] = "."
      /\ \A i \in 1..m : text[i + 1] = fraction[i]
  <2>1. /\ text \in Seq(Chars) /\ Len(text) = 1 + m
        /\ \A i \in 1..1 : text[i] = <<".">>[i]
        /\ \A i \in 1..m : text[i + 1] = fraction[i]
    BY <1>1, SeqJoined
  <2>2. m \in Nat /\ 1 \in 1..1
    BY SeqIs
  <2>3. QED
    BY <1>1, <2>1, <2>2
<1> HIDE DEF text, m
<1>3. DotOf(text) = 1
  <2>1. <<>> \o text = text
    BY <1>2
  <2>2. <<>> \in Seq(Chars) /\ Len(<<>>) = 0 /\ \A i \in 1..Len(<<>>) : <<>>[i] # "."
    OBVIOUS
  <2>3. DotOf(<<>> \o text) = Len(<<>>) + 1
    BY <1>2, <2>2, DotIs
  <2>4. QED
    BY <2>1, <2>2, <2>3
<1>4. 1 \in last /\ last \subseteq 0..(1 + m)
  BY <1>2
<1>5. \E i \in last : \A j \in last : j <= i
  <2> DEFINE S == {(1 + m) - j : j \in last}
  <2>1. S \in SUBSET Nat /\ S # {}
    BY <1>2, <1>4
  <2> HIDE DEF S
  <2>2. PICK n \in S : \A k \in S : n <= k
    BY <2>1, Least
  <2>3. PICK i \in last : n = (1 + m) - i
    BY DEF S
  <2>4. ASSUME NEW j \in last PROVE j <= i
    <3>1. (1 + m) - j \in S
      BY DEF S
    <3>2. (1 + m) - i <= (1 + m) - j
      BY <2>2, <2>3, <3>1
    <3>3. i \in Int /\ j \in Int /\ m \in Int
      BY <1>2, <1>4
    <3> HIDE DEF last
    <3>4. QED
      BY <3>2, <3>3
  <2>5. QED
    BY <2>4
<1>6. largest \in last /\ \A j \in last : j <= largest
  BY <1>5
<1> HIDE DEF largest
<1>7. largest \in 1..(1 + m)
  <2>1. 1 <= largest /\ largest \in 0..(1 + m)
    BY <1>4, <1>6
  <2>2. QED
    BY <1>2, <2>1
<1>8. FractionDigits(text) = largest - 1
  <2>1. FractionDigits(text) = IF largest - DotOf(text) < 0 THEN 0 ELSE largest - DotOf(text)
    BY DEF FractionDigits, largest
  <2>2. QED
    BY <1>2, <1>3, <1>7, <2>1
<1>9. ASSUME NEW i \in 1..m, i > largest - 1 PROVE fraction[i] = "0"
  <2>1. i + 1 > largest /\ i + 1 \in 1..Len(text) /\ text[i + 1] = fraction[i]
    BY <1>2, <1>7, <1>9
  <2>2. i + 1 \notin last
    <3>1. i + 1 \in Int /\ largest \in Int
      BY <1>7
    <3>2. SUFFICES ASSUME i + 1 \in last PROVE FALSE
      OBVIOUS
    <3>3. i + 1 <= largest
      BY <1>6, <3>2
    <3>4. QED
      BY <2>1, <3>1, <3>3
  <2>3. QED
    BY <2>1, <2>2
<1>10. largest - 1 \in 0..m
  BY <1>2, <1>7
<1>11. QED
  BY <1>8, <1>9, <1>10 DEF text, m

(* "The exact decimal text Kraken sent round-trips". *)
THEOREM NumbersRoundTrip ==
  ASSUME NEW n \in 0..MaxInt, NEW decimals \in Nat, NEW zeros \in BOOLEAN
  PROVE  ScaleDecimalStringToI64(NumberText(n, decimals, zeros), decimals) = n
<1> DEFINE M == Pow10[decimals]
           q == n \div M
           r == n % M
           digits == Characters(DigitsAt(r, decimals))
           fraction == digits \o (IF zeros THEN <<"0">> ELSE <<>>)
           m == Len(fraction)
           used == IF zeros THEN m ELSE FractionDigits(<<".">> \o fraction)
           whole == Characters(DigitsOf(q))
           rest == IF used = 0 THEN <<>> ELSE <<".">> \o SubSeq(fraction, 1, used)
           text == whole \o rest
<1>1. n \in Nat /\ MaxInt \in Nat /\ n <= MaxInt /\ M \in Nat \ {0}
  BY Powers, DecimalAssumption
<1>2. NumberText(n, decimals, zeros) = text
  BY DEF NumberText
<1> HIDE DEF M
<1>3. /\ q \in Nat /\ r \in Nat /\ r < M /\ n = q * M + r
      /\ q <= n /\ r <= n
  <2>1. q \in Nat /\ r \in Nat /\ r < M /\ n = M * q + r
    BY <1>1
  <2> HIDE DEF q, r
  <2>2. M * q = q * M /\ q * M \in Nat /\ q <= q * M
    BY <1>1, <2>1
  <2>3. QED
    BY <1>1, <2>1, <2>2
<1> HIDE DEF q, r
<1>4. /\ digits \in Seq(Chars) /\ Len(digits) = decimals
      /\ \A i \in 1..decimals : /\ digits[i] = Digits[((r \div Pow10[decimals - i]) % 10) + 1]
                                /\ (r \div Pow10[decimals - i]) % 10 \in 0..9
  BY <1>3, CharactersAre
<1> HIDE DEF digits
<1>5. /\ fraction \in Seq(Chars) /\ m \in Nat /\ m = decimals + (IF zeros THEN 1 ELSE 0)
      /\ \A i \in 1..decimals : fraction[i] = digits[i]
  <2> DEFINE tail == IF zeros THEN <<"0">> ELSE <<>>
  <2>1. tail \in Seq(Chars) /\ Len(tail) = IF zeros THEN 1 ELSE 0
    <3>1. "0" = Digits[1] /\ 1 \in 1..10
      BY DEF Digits
    <3>2. "0" \in Chars
      BY <3>1 DEF Chars
    <3>3. QED
      BY <3>2
  <2> HIDE DEF tail
  <2>2. /\ digits \o tail \in Seq(Chars) /\ Len(digits \o tail) = Len(digits) + Len(tail)
        /\ \A i \in 1..Len(digits) : (digits \o tail)[i] = digits[i]
    <3>1. digits \in Seq(Chars) /\ tail \in Seq(Chars)
      BY <1>4, <2>1
    <3>2. QED
      BY <3>1, SeqJoined
  <2>3. QED
    BY <1>4, <2>1, <2>2 DEF tail
<1> HIDE DEF fraction
<1>6. /\ used \in 0..m
      /\ \A i \in 1..decimals : i > used => fraction[i] = "0"
  <2>1. CASE zeros
    BY <1>5, <2>1
  <2>2. CASE ~zeros
    <3>1. /\ FractionDigits(<<".">> \o fraction) \in 0..m
          /\ \A i \in 1..m : i > FractionDigits(<<".">> \o fraction) => fraction[i] = "0"
      BY <1>5, FractionDigitsAre
    <3>2. m = decimals /\ used = FractionDigits(<<".">> \o fraction)
      BY <1>5, <2>2
    <3>3. QED
      BY <3>1, <3>2
  <2>3. QED
    BY <2>1, <2>2
<1> HIDE DEF used
<1>7. PICK k \in Nat \ {0} : DigitsOf(q) = DigitsAt(q, k) /\ q < Pow10[k]
  BY <1>3, DigitsOfIs
<1>8. /\ whole \in Seq(Chars) /\ Len(whole) = k
      /\ \A i \in 1..k : /\ whole[i] = Digits[((q \div Pow10[k - i]) % 10) + 1]
                         /\ (q \div Pow10[k - i]) % 10 \in 0..9
  <2> DEFINE chars == Characters(DigitsAt(q, k))
  <2>1. k \in Nat /\ q \in Nat
    BY <1>3, <1>7
  <2>2. /\ chars \in Seq(Chars) /\ Len(chars) = k
        /\ \A i \in 1..k : /\ chars[i] = Digits[((q \div Pow10[k - i]) % 10) + 1]
                           /\ (q \div Pow10[k - i]) % 10 \in 0..9
    BY <2>1, CharactersAre
  <2>3. whole = chars
    BY <1>7
  <2> HIDE DEF whole, chars
  <2>4. QED
    BY <2>2, <2>3
<1> HIDE DEF whole
<1>9. /\ rest \in Seq(Chars) /\ Len(rest) = IF used = 0 THEN 0 ELSE used + 1
      /\ Len(rest) = 0 \/ rest[1] = "."
      /\ \A i \in 1..used : rest[i + 1] = fraction[i]
  <2>1. CASE used = 0
    BY <2>1
  <2>2. CASE used # 0
    <3> DEFINE part == SubSeq(fraction, 1, used)
    <3>1. part \in Seq(Chars) /\ Len(part) = used /\ \A i \in 1..used : part[i] = fraction[i]
      BY <1>5, <1>6, <2>2
    <3>2. <<".">> \in Seq(Chars) /\ Len(<<".">>) = 1 /\ <<".">>[1] = "." /\ 1 \in 1..1
      BY DEF Chars
    <3>3. rest = <<".">> \o part
      BY <2>2
    <3> HIDE DEF part, rest
    <3>4. /\ rest \in Seq(Chars) /\ Len(rest) = Len(<<".">>) + Len(part)
          /\ \A i \in 1..Len(<<".">>) : rest[i] = <<".">>[i]
          /\ \A i \in 1..Len(part) : rest[i + Len(<<".">>)] = part[i]
      BY <3>1, <3>2, <3>3, SeqJoined
    <3>5. /\ rest \in Seq(Chars) /\ Len(rest) = used + 1 /\ rest[1] = "."
          /\ \A i \in 1..used : rest[i + 1] = fraction[i]
      BY <1>6, <3>1, <3>2, <3>4
    <3>6. QED
      BY <2>2, <3>5
  <2>3. QED
    BY <2>1, <2>2
<1> HIDE DEF rest
<1>10. DotOf(text) = k + 1
  <2>1. \A i \in 1..k : whole[i] # "."
    BY <1>8, DigitChars
  <2>2. QED
    BY <1>8, <1>9, <2>1, DotIs
<1>11. /\ text \in Seq(Chars) /\ Len(text) = k + Len(rest)
       /\ \A i \in 1..k : text[i] = whole[i]
       /\ \A i \in 1..Len(rest) : text[i + k] = rest[i]
  <2>1. /\ text \in Seq(Chars) /\ Len(text) = Len(whole) + Len(rest)
        /\ \A i \in 1..Len(whole) : text[i] = whole[i]
        /\ \A i \in 1..Len(rest) : text[i + Len(whole)] = rest[i]
    <3>1. whole \in Seq(Chars) /\ rest \in Seq(Chars)
      BY <1>8, <1>9
    <3>2. QED
      BY <3>1, SeqJoined
  <2>2. QED
    BY <1>8, <2>1
<1> HIDE DEF text
<1>12. FromChars(SubSeq(text, 1, DotOf(text) - 1)) = q
  <2> DEFINE part == SubSeq(text, 1, k)
  <2>1. Len(rest) \in Nat
    BY <1>6, <1>9
  <2>2. Len(part) = k /\ \A i \in 1..k : part[i] = text[i]
    BY <1>11, <2>1
  <2>3. DotOf(text) - 1 = k
    BY <1>10
  <2> HIDE DEF part
  <2>4. \A i \in 1..k : part[i] = Digits[((q \div Pow10[k - i]) % 10) + 1]
    BY <1>8, <1>11, <2>2
  <2>5. q <= MaxInt /\ k \in 0..k /\ k \in Nat
    BY <1>1, <1>3
  <2>6. FromChars(part) = q \div Pow10[k - k]
    BY <1>3, <1>7, <2>2, <2>4, <2>5, DigitsRead
  <2>7. k - k = 0 /\ q \div 1 = q
    BY <1>3
  <2>8. QED
    BY <2>3, <2>6, <2>7, Powers DEF part
<1> DEFINE after == FractionPart(text)
           u == DigitsUsed(after, decimals)
<1>13. Len(after) = used /\ \A i \in 1..used : after[i] = fraction[i]
  <2>1. after = SubSeq(text, k + 2, Len(text))
    BY <1>10 DEF FractionPart
  <2>2. CASE used = 0
    <3>1. Len(text) = k
      BY <1>9, <1>11, <2>2
    <3>2. QED
      BY <1>11, <2>1, <2>2, <3>1
  <2>3. CASE used # 0
    <3>1. Len(text) = k + used + 1 /\ used \in Nat \ {0} /\ Len(rest) = used + 1
      BY <1>6, <1>9, <1>11, <2>3
    <3>2. Len(after) = used /\ \A i \in 1..used : after[i] = text[(k + 2) + i - 1]
      BY <1>11, <2>1, <3>1
    <3>3. \A i \in 1..used : text[(k + 2) + i - 1] = rest[i + 1]
      <4> TAKE i \in 1..used
      <4>1. i + 1 \in 1..Len(rest) /\ (i + 1) + k = (k + 2) + i - 1
        BY <3>1
      <4>2. QED
        BY <1>11, <4>1
    <3>4. QED
      BY <1>9, <3>2, <3>3
  <2>4. QED
    BY <2>2, <2>3
<1> HIDE DEF after
<1>14. /\ u \in 0..decimals /\ u <= used /\ u \in 0..used
       /\ \A i \in 1..decimals : i > u => i > used
  BY <1>5, <1>6, <1>13 DEF DigitsUsed
<1> HIDE DEF u
<1>15. FromChars(SubSeq(after, 1, u)) = r \div Pow10[decimals - u]
  <2> DEFINE part == SubSeq(after, 1, u)
  <2>1. Len(part) = u /\ \A i \in 1..u : part[i] = after[i]
    <3>1. after \in Seq(Chars)
      <4>1. after = SubSeq(text, k + 2, Len(text))
        BY <1>10 DEF after, FractionPart
      <4>2. k + 2 \in 1..(Len(text) + 2)
        <5>1. Len(rest) \in Nat
          BY <1>6, <1>9
        <5>2. QED
          BY <1>11, <5>1
      <4>3. QED
        BY <1>11, <4>1, <4>2
    <3>2. QED
      BY <1>13, <1>14, <3>1
  <2> HIDE DEF part
  <2>2. \A i \in 1..u : part[i] = Digits[((r \div Pow10[decimals - i]) % 10) + 1]
    <3> TAKE i \in 1..u
    <3>1. i \in 1..used /\ i \in 1..decimals
      BY <1>6, <1>14
    <3>2. part[i] = digits[i]
      BY <1>5, <1>13, <2>1, <3>1
    <3>3. QED
      BY <1>4, <3>1, <3>2
  <2>3. r <= MaxInt /\ r < Pow10[decimals]
    BY <1>1, <1>3 DEF M
  <2>4. FromChars(part) = r \div Pow10[decimals - u]
    BY <1>3, <1>14, <2>1, <2>2, <2>3, DigitsRead
  <2>5. QED
    BY <2>4 DEF part
<1>16. (r \div Pow10[decimals - u]) * Pow10[decimals - u] = r
  <2>1. ASSUME NEW i \in 1..decimals, i > u
        PROVE  (r \div Pow10[decimals - i]) % 10 = 0
    <3>1. fraction[i] = "0" /\ fraction[i] = digits[i]
      BY <1>5, <1>6, <1>14, <2>1
    <3>2. QED
      BY <1>4, <3>1, DigitChars
  <2>2. QED
    BY <1>3, <1>14, <2>1, TrailingZeros
<1>17. ScaleDecimalStringToI64(text, decimals) =
         FromChars(SubSeq(text, 1, DotOf(text) - 1)) * M
           + FromChars(SubSeq(after, 1, u)) * Pow10[decimals - u]
  BY DEF ScaleDecimalStringToI64, after, u, M
<1>18. ScaleDecimalStringToI64(text, decimals) = q * M + r
  BY <1>12, <1>15, <1>16, <1>17
<1>19. QED
  BY <1>2, <1>3, <1>18

-----------------------------------------------------------------------------
(* A frame that a message comes of has the levels Kraken says.  A member   *)
(* that is found of the kind that is wanted is what was put there.         *)
LEMMA MemberFound ==
  ASSUME NEW members, NEW layout, NEW name, name \in DOMAIN members,
         FindJsonMember(JsonObject(Without(members, layout)), name).kind \in {"string", "array"}
  PROVE  FindJsonMember(JsonObject(Without(members, layout)), name) = members[name]
<1> DEFINE there == Without(members, layout)
           out == {x \in Members : layout = <<"without", x>>}
<1>1. there = [m \in DOMAIN members \ out |->
                 IF layout = <<"mistyped", m>> THEN JsonObject(<<>>) ELSE members[m]]
  BY DEF Without
<1>2. FindJsonMember(JsonObject(there), name) = IF name \in DOMAIN there THEN there[name] ELSE Missing
  BY DEF FindJsonMember, JsonObject
<1> HIDE DEF there, out
<1>3. Missing.kind = "missing" /\ JsonObject(<<>>).kind = "object"
  BY DEF Missing, JsonObject
<1>4. name \in DOMAIN there
  BY <1>2, <1>3 DEF there
<1>5. there[name] # JsonObject(<<>>)
  BY <1>2, <1>3, <1>4 DEF there
<1>6. there[name] = members[name]
  BY <1>1, <1>4, <1>5
<1>7. QED
  BY <1>2, <1>4, <1>6 DEF there

LEMMA LevelsParsed ==
  ASSUME NEW levels, IsLevels(levels), NEW zeros \in BOOLEAN, NEW data, NEW name,
         FindJsonMember(data, name) = SideJson(levels, zeros)
  PROVE  ParseSide(data, name) = levels
<1> DEFINE n == Len(levels)
           values == [i \in 1..n |-> LevelJson(levels[i], zeros)]
<1>1. /\ n \in Nat /\ levels = [i \in 1..n |-> levels[i]]
      /\ \A i \in 1..n : levels[i] = [price |-> levels[i].price, quantity |-> levels[i].quantity]
  BY LevelsTyped
<1>2. \A i \in 1..n : levels[i].price \in 0..MaxInt /\ levels[i].quantity \in 0..MaxInt
  <2>1. \A i \in 1..n : levels[i].price \in Prices /\ levels[i].quantity \in Quantities \cup {0}
    BY LevelsTyped
  <2>2. Prices \subseteq 0..MaxInt /\ Quantities \cup {0} \subseteq 0..MaxInt
    BY KrakenAssumption, DecimalAssumption
  <2>3. QED
    BY <2>1, <2>2
<1>3. FindJsonMember(data, name).values = values
  BY DEF SideJson, JsonArray
<1> HIDE DEF n
<1>4. Len(values) = n /\ \A i \in 1..n : values[i] = LevelJson(levels[i], zeros)
  <2>1. \A i \in 1..n : values[i] = LevelJson(levels[i], zeros)
    OBVIOUS
  <2>2. Len(values) = n
    <3> DEFINE A == {LevelJson(levels[i], zeros) : i \in 1..n}
    <3>1. values \in [1..n -> A]
      OBVIOUS
    <3> HIDE DEF values, A
    <3>2. QED
      BY <1>1, <3>1
  <2>3. QED
    BY <2>1, <2>2
<1> HIDE DEF values
<1>5. ASSUME NEW i \in 1..n
      PROVE  /\ ParseScaled(values[i], "price", Decimals.price) = levels[i].price
             /\ ParseScaled(values[i], "qty", Decimals.qty) = levels[i].quantity
  <2> DEFINE price == NumberText(levels[i].price, Decimals.price, zeros)
             qty == NumberText(levels[i].quantity, Decimals.qty, zeros)
  <2>1. values[i] = JsonObject([price |-> JsonString(price), qty |-> JsonString(qty)])
    BY <1>4 DEF LevelJson
  <2>2. /\ ScaleDecimalStringToI64(price, Decimals.price) = levels[i].price
        /\ ScaleDecimalStringToI64(qty, Decimals.qty) = levels[i].quantity
    BY <1>2, NumbersRoundTrip, KrakenAssumption
  <2> HIDE DEF price, qty
  <2>3. /\ RequireJsonString(values[i], "price") = price
        /\ RequireJsonString(values[i], "qty") = qty
    BY <2>1 DEF RequireJsonString, FindJsonMember, JsonObject, JsonString
  <2>4. QED
    BY <2>2, <2>3 DEF ParseScaled
<1>6. ParseSide(data, name) =
        [i \in 1..n |-> [price |-> ParseScaled(values[i], "price", Decimals.price),
                         quantity |-> ParseScaled(values[i], "qty", Decimals.qty)]]
  BY <1>3, <1>4 DEF ParseSide
<1>7. ParseSide(data, name) = [i \in 1..n |-> levels[i]]
  BY <1>1, <1>5, <1>6
<1>8. QED
  BY <1>1, <1>7

(* Where the data of a frame that is emitted is found. *)
LEMMA DataFound ==
  ASSUME NEW said, NEW form, Outcome(Document(said, form)) = "emits"
  PROVE  /\ BookData(Document(said, form)) = JsonObject(Without(DataJson(said, form), form.layout))
         /\ RequireJsonString(Document(said, form), "type") = <<said.type>>
         /\ ~FieldsThrow(BookData(Document(said, form)))
<1> DEFINE layout == form.layout
           document == Document(said, form)
           parts == DataJson(said, form)
           data == Without(parts, layout)
           named == CASE layout = <<"other symbol">> -> [data EXCEPT !.symbol = Word("ETH/USD")]
                      [] layout = <<"bare level">> ->
                           [data EXCEPT !.asks = JsonArray(<<JsonObject(<<>>)>>)]
                      [] OTHER -> data
           entries == CASE layout = <<"empty data">> -> <<>>
                        [] layout = <<"no data">> -> <<JsonNull>>
                        [] OTHER -> <<JsonObject(named)>>
           members == [channel |-> Word(IF layout = <<"other channel">> THEN "status" ELSE "book"),
                       type |-> Word(said.type), data |-> JsonArray(entries)]
<1>1. document = IF layout = <<"not JSON">> THEN JsonNull ELSE JsonObject(Without(members, layout))
  BY DEF Document
<1>2. /\ FindJsonMember(document, "channel") = Word("book")
      /\ ~DataThrows(document)
      /\ FindJsonMember(BookData(document), "symbol").kind = "string"
      /\ FindJsonMember(document, "type").kind = "string"
      /\ RequireJsonString(BookData(document), "symbol") = Symbol
      /\ ~ParseSideThrows(BookData(document), "bids")
      /\ ~ParseSideThrows(BookData(document), "asks")
  BY DEF Outcome, Ignored, NamingThrows, RequireThrows, FieldsThrow
<1> HIDE DEF parts, data, named, entries
<1>3. document = JsonObject(Without(members, layout))
  <2>1. FindJsonMember(JsonNull, "channel") # Word("book")
    <3>1. FindJsonMember(JsonNull, "channel").kind = "missing" /\ Word("book").kind = "string"
      BY DEF FindJsonMember, JsonNull, Missing, Word, JsonString
    <3>2. QED
      BY <3>1
  <2>2. QED
    BY <1>1, <1>2, <2>1
<1>4. /\ DOMAIN members = {"channel", "type", "data"}
      /\ members["type"] = Word(said.type) /\ members["data"] = JsonArray(entries)
  OBVIOUS
<1> HIDE DEF document, members
<1>5. FindJsonMember(document, "type") = Word(said.type)
  BY <1>2, <1>3, <1>4, MemberFound
<1>6. FindJsonMember(document, "data") = JsonArray(entries)
  BY <1>2, <1>3, <1>4, MemberFound DEF DataThrows, RequireThrows
<1>7. entries # <<>> /\ entries[1].kind = "object" /\ BookData(document) = entries[1]
  <2>1. FindJsonMember(document, "data").values = entries
    BY <1>6 DEF JsonArray
  <2>2. QED
    BY <1>2, <2>1 DEF DataThrows, BookData
<1>8. BookData(document) = JsonObject(named)
  <2>1. entries = <<JsonObject(named)>>
    <3>1. layout # <<"empty data">>
      <4>1. SUFFICES ASSUME layout = <<"empty data">> PROVE FALSE
        OBVIOUS
      <4>2. <<"empty data">> # <<"no data">>
        OBVIOUS
      <4>3. entries = <<>>
        BY <4>1, <4>2 DEF entries
      <4>4. QED
        BY <1>7, <4>3
    <3>2. layout # <<"no data">>
      <4>1. SUFFICES ASSUME layout = <<"no data">> PROVE FALSE
        OBVIOUS
      <4>2. entries = <<JsonNull>>
        BY <3>1, <4>1 DEF entries
      <4>3. JsonNull.kind = "null"
        BY DEF JsonNull
      <4>4. QED
        BY <1>7, <4>2, <4>3
    <3>3. QED
      BY <3>1, <3>2 DEF entries
  <2>2. QED
    BY <1>7, <2>1
<1>9. FindJsonMember(JsonObject(named), "symbol").text = <<"BTC/USD">>
  BY <1>2, <1>8 DEF RequireJsonString, Symbol
<1>10. \A name : FindJsonMember(JsonObject(named), name) = IF name \in DOMAIN named THEN named[name] ELSE Missing
  BY DEF FindJsonMember, JsonObject
<1>11. layout # <<"other symbol">>
  <2>1. SUFFICES ASSUME layout = <<"other symbol">> PROVE FALSE
    OBVIOUS
  <2>2. named = [data EXCEPT !.symbol = Word("ETH/USD")]
    <3>1. <<"other symbol">> # <<"bare level">>
      OBVIOUS
    <3>2. QED
      BY <2>1, <3>1 DEF named
  <2>3. Missing.kind = "missing" /\ Word("ETH/USD").text = <<"ETH/USD">>
    BY DEF Missing, Word, JsonString
  <2>4. "symbol" \in DOMAIN named
    BY <1>2, <1>8, <1>10, <2>3
  <2>5. named["symbol"] = Word("ETH/USD")
    BY <2>2, <2>4
  <2>6. <<"ETH/USD">> # <<"BTC/USD">>
    OBVIOUS
  <2>7. QED
    BY <1>9, <1>10, <2>3, <2>4, <2>5, <2>6
<1>12. layout # <<"bare level">>
  <2>1. SUFFICES ASSUME layout = <<"bare level">> PROVE FALSE
    OBVIOUS
  <2> DEFINE bare == JsonObject(<<>>)
  <2>2. named = [data EXCEPT !.asks = JsonArray(<<bare>>)]
    BY <1>11, <2>1 DEF named
  <2>3. Missing.kind = "missing" /\ JsonArray(<<bare>>).values = <<bare>>
    BY DEF Missing, JsonArray
  <2>4. FindJsonMember(BookData(document), "asks").kind = "array"
    BY <1>2 DEF ParseSideThrows, RequireThrows
  <2>5. "asks" \in DOMAIN named
    BY <1>8, <1>10, <2>3, <2>4
  <2>6. FindJsonMember(BookData(document), "asks").values = <<bare>>
    BY <1>8, <1>10, <2>2, <2>3, <2>5
  <2>7. FindJsonMember(bare, "price").kind = "missing"
    BY DEF FindJsonMember, JsonObject, Missing
  <2> HIDE DEF bare
  <2>8. 1 \in DOMAIN <<bare>> /\ <<bare>>[1] = bare
    OBVIOUS
  <2>9. ParseSideThrows(BookData(document), "asks")
    BY <2>6, <2>7, <2>8 DEF ParseSideThrows, RequireThrows
  <2>10. QED
    BY <1>2, <2>9
<1>13. named = Without(parts, layout)
  BY <1>11, <1>12 DEF named, data
<1>14. RequireJsonString(document, "type") = <<said.type>>
  BY <1>5 DEF RequireJsonString, Word, JsonString
<1>15. ~FieldsThrow(BookData(document))
  BY DEF document, Outcome
<1>16. QED
  BY <1>8, <1>13, <1>14, <1>15 DEF document, parts

(* A text that may be missing is there or it is not. *)
LEMMA TextFound ==
  ASSUME NEW members, NEW layout, NEW name, name \in DOMAIN members,
         NEW text, members[name] = JsonString(text),
         ~FindJsonStringThrows(JsonObject(Without(members, layout)), name)
  PROVE  FindJsonMember(JsonObject(Without(members, layout)), name) \in {Missing, JsonString(text)}
<1> DEFINE object == JsonObject(Without(members, layout))
           found == FindJsonMember(object, name)
<1>1. found.kind \in {"missing", "string"}
  BY DEF FindJsonStringThrows
<1>2. found = Missing \/ found = members[name] \/ found = JsonObject(<<>>)
  BY DEF FindJsonMember, JsonObject, Without
<1>3. JsonObject(<<>>).kind = "object"
  BY DEF JsonObject
<1> HIDE DEF found
<1>4. found # JsonObject(<<>>)
  BY <1>1, <1>3
<1>5. QED
  BY <1>2, <1>4 DEF found

LEMMA Decoded ==
  ASSUME NEW said, IsLevels(said.buys), IsLevels(said.sells),
         said.type \in {"snapshot", "update"},
         NEW form, form.zeros \in BOOLEAN, Outcome(Document(said, form)) = "emits", NEW time
  PROVE  /\ MessageOf(Document(said, form), time).type = said.type
         /\ MessageOf(Document(said, form), time).buys = said.buys
         /\ MessageOf(Document(said, form), time).sells = said.sells
         /\ MessageOf(Document(said, form), time).checksum \in {{}, said.checksum}
<1> DEFINE document == Document(said, form)
           parts == DataJson(said, form)
           data == JsonObject(Without(parts, form.layout))
<1>1. BookData(document) = data /\ RequireJsonString(document, "type") = <<said.type>>
  BY DataFound
<1>2. ~FieldsThrow(data)
  BY <1>1, DataFound
<1>3. /\ {"bids", "asks", "checksum"} \subseteq DOMAIN parts
      /\ parts["bids"] = SideJson(said.buys, form.zeros)
      /\ parts["asks"] = SideJson(said.sells, form.zeros)
      /\ parts["checksum"] = JsonString(said.checksum)
  BY DEF DataJson
<1> HIDE DEF parts
<1>4. /\ FindJsonMember(data, "bids") = SideJson(said.buys, form.zeros)
      /\ FindJsonMember(data, "asks") = SideJson(said.sells, form.zeros)
  <2>1. /\ FindJsonMember(data, "bids").kind = "array"
        /\ FindJsonMember(data, "asks").kind = "array"
    BY <1>2 DEF FieldsThrow, ParseSideThrows, RequireThrows
  <2>2. QED
    BY <1>3, <2>1, MemberFound
<1>5. FindJsonMember(data, "checksum") \in {Missing, JsonString(said.checksum)}
  <2>1. ~FindJsonStringThrows(data, "checksum")
    BY <1>2 DEF FieldsThrow
  <2>2. QED
    BY <1>3, <2>1, TextFound
<1> HIDE DEF document, data
<1>6. ParseSide(data, "bids") = said.buys /\ ParseSide(data, "asks") = said.sells
  BY <1>4, LevelsParsed
<1>7. ParseChecksum(data) \in {{}, said.checksum}
  BY <1>5 DEF ParseChecksum, RequireJsonString, JsonString
<1>8. (IF <<said.type>> = <<"snapshot">> THEN "snapshot" ELSE "update") = said.type
  OBVIOUS
<1>9. QED
  BY <1>1, <1>6, <1>7, <1>8 DEF MessageOf, document

-----------------------------------------------------------------------------
(* Books, and their tops. *)
IsBook(b) == b = [s \in Sides |-> b[s]] /\ \A s \in Sides : IsSide(b[s])

TopAt(d, side, levels) == [p \in Kept(side, DOMAIN levels, d) |-> levels[p]]

TopsAt(d, b) == [s \in Sides |-> TopAt(d, s, b[s])]

LEMMA TopsAre ==
  ASSUME NEW b
  PROVE  /\ TopsAt(depth, b) = [s \in Sides |-> TopOf(s, b[s])]
         /\ \A s \in Sides : TopsAt(depth, b)[s] = TopOf(s, b[s])
BY TopIs DEF TopsAt, TopAt

LEMMA TopsAreBooks ==
  ASSUME NEW b, IsBook(b), depth \in Nat
  PROVE  IsBook(TopsAt(depth, b)) /\ TopsAt(depth, TopsAt(depth, b)) = TopsAt(depth, b)
<1> DEFINE top(s) == TopOf(s, b[s])
           tops == TopsAt(depth, b)
<1>1. \A s \in Sides : IsSide(b[s])
  BY DEF IsBook
<1>2. \A s \in Sides : /\ IsSide(top(s)) /\ DOMAIN top(s) = Kept(s, DOMAIN b[s], depth)
                       /\ DOMAIN top(s) \subseteq DOMAIN b[s]
  BY <1>1, TopIsSide
<1>3. tops = [s \in Sides |-> top(s)]
  BY TopsAre
<1> HIDE DEF top
<1>4. \A s \in Sides : tops[s] = top(s)
  BY <1>3
<1>5. IsBook(tops)
  BY <1>2, <1>3, <1>4 DEF IsBook
<1>6. ASSUME NEW s \in Sides PROVE TopOf(s, top(s)) = top(s)
  <2>1. DOMAIN b[s] \in SUBSET Int /\ IsFiniteSet(DOMAIN b[s])
    <3>1. IsSide(b[s])
      BY <1>1
    <3>2. Prices \subseteq Int
      BY KrakenAssumption, DecimalAssumption
    <3>3. QED
      BY <3>1, <3>2 DEF IsSide
  <2>2. Kept(s, DOMAIN top(s), depth) = Kept(s, DOMAIN b[s], depth)
    BY <1>2, <2>1, KeptOfPart
  <2>3. Kept(s, DOMAIN top(s), depth) = DOMAIN top(s)
    BY <1>2, <2>2
  <2>4. TopOf(s, top(s)) = [p \in DOMAIN top(s) |-> top(s)[p]]
    BY <2>3, TopIs
  <2>5. QED
    BY <1>2, <2>4 DEF IsSide
<1>7. TopsAt(depth, tops) = [s \in Sides |-> TopOf(s, tops[s])]
  BY TopsAre
<1>8. QED
  BY <1>3, <1>4, <1>5, <1>6, <1>7

LEMMA EmptyBooks ==
  ASSUME depth \in Nat
  PROVE  /\ IsBook(EmptyBook) /\ TopsAt(depth, EmptyBook) = EmptyBook
         /\ \A s \in Sides : DOMAIN EmptyBook[s] = {}
<1>1. DOMAIN << >> = {} /\ << >> = [p \in {} |-> << >>[p]]
  OBVIOUS
<1>2. \A s \in Sides : EmptyBook[s] = << >>
  BY DEF EmptyBook
<1>3. IsSide(<< >>)
  BY <1>1, FS_EmptySet DEF IsSide
<1>4. IsBook(EmptyBook)
  BY <1>2, <1>3 DEF IsBook, EmptyBook
<1>5. \A s \in Sides : Kept(s, {}, depth) = {}
  BY DEF Kept
<1>6. \A s \in Sides : TopAt(depth, s, << >>) = << >>
  BY <1>1, <1>5 DEF TopAt
<1>7. TopsAt(depth, EmptyBook) = EmptyBook
  BY <1>2, <1>6 DEF TopsAt, EmptyBook
<1>8. QED
  BY <1>1, <1>2, <1>4, <1>7

(* A change to one level of a book leaves a book. *)
LEMMA VenueMoves ==
  ASSUME IsBook(venue), NEW move \in Moves
  PROVE  IsBook(VenueAfter(move))
<1> DEFINE side == move.side
           old == venue[side]
           f == [p \in {move.price} |-> move.quantity]
           new == ApplyLevels(side, <<move>>, 0, old)
<1>1. /\ side \in Sides /\ move.price \in Prices /\ move.quantity \in Quantities \cup {0}
  BY DEF Moves
<1>2. IsSide(old) /\ venue = [s \in Sides |-> venue[s]] /\ \A s \in Sides : IsSide(venue[s])
  BY <1>1 DEF IsBook
<1>3. Says(<<move>>, f)
  <2>1. DOMAIN <<move>> = {1} /\ <<move>>[1] = move
    OBVIOUS
  <2> DEFINE levels == <<move>>
  <2> HIDE DEF levels
  <2>2. DOMAIN levels = {1} /\ levels[1] = move
    BY <2>1 DEF levels
  <2>3. {levels[i].price : i \in DOMAIN levels} = DOMAIN f
    BY <2>2
  <2>4. LastOf(levels, move.price) = 1
    BY <2>2 DEF LastOf
  <2>5. QED
    BY <2>2, <2>3, <2>4 DEF Says, levels
<1> DEFINE left == (DOMAIN old \ DOMAIN f) \cup {q \in DOMAIN f : f[q] # 0}
<1>4. new = [p \in left |-> IF p \in DOMAIN f THEN f[p] ELSE old[p]]
  <2>1. new = Result(side, f, 0, old)
    BY <1>3, Applied
  <2>2. Result(side, f, 0, old) =
          [p \in Kept(side, left, 0) |-> IF p \in DOMAIN f THEN f[p] ELSE old[p]]
    BY DEF Result
  <2>3. Kept(side, left, 0) = left
    BY DEF Kept
  <2>4. QED
    BY <2>1, <2>2, <2>3
<1>5. IsFiniteSet(left) /\ left \subseteq Prices
  <2>1. left \in SUBSET (DOMAIN old \cup {move.price})
    OBVIOUS
  <2>2. IsFiniteSet(DOMAIN old \cup {move.price})
    BY <1>2, FS_AddElement DEF IsSide
  <2>3. QED
    BY <1>1, <1>2, <2>1, <2>2, FS_Subset DEF IsSide
<1>6. \A p \in left : (IF p \in DOMAIN f THEN f[p] ELSE old[p]) \in Quantities
  BY <1>1, <1>2 DEF IsSide
<1> HIDE DEF left, new, f
<1>7. IsSide(new)
  BY <1>4, <1>5, <1>6 DEF IsSide
<1>8. VenueAfter(move) = [venue EXCEPT ![side] = new]
  BY DEF VenueAfter, new
<1>9. QED
  BY <1>1, <1>2, <1>7, <1>8 DEF IsBook

(* What Kraken says of a change takes its book's top to the next. *)
LEMMA SaidIs ==
  ASSUME IsBook(venue), NEW move \in Moves
  PROVE  /\ Said(move).type = move.type
         /\ \A s \in Sides :
              /\ IsLevels(Said(move)[s])
              /\ Said(move)[s] =
                   IF move.type = "snapshot" THEN LevelsOf(s, TopOf(s, VenueAfter(move)[s]))
                   ELSE ToldOf(s, venue[s], VenueAfter(move)[s])
<1> DEFINE new == VenueAfter(move)
           top == [s \in Sides |-> TopOf(s, new[s])]
           levels(s) == IF move.type = "snapshot" THEN LevelsOf(s, top[s])
                        ELSE ToldOf(s, venue[s], new[s])
<1>1. /\ Said(move).type = move.type
      /\ Said(move)["buys"] = levels("buys") /\ Said(move)["sells"] = levels("sells")
  BY DEF Said
<1>2. \A s \in Sides : IsSide(venue[s]) /\ IsSide(new[s])
  BY VenueMoves DEF IsBook
<1> HIDE DEF new
<1>3. \A s \in Sides : IsLevels(levels(s))
  BY <1>2, TopsAreLevels, ToldAreLevels
<1>4. \A s \in Sides : Said(move)[s] = levels(s) /\ top[s] = TopOf(s, new[s])
  BY <1>1 DEF Sides
<1>5. QED
  BY <1>1, <1>3, <1>4 DEF new

LEMMA SaidKeeps ==
  ASSUME IsBook(venue), depth \in Nat, NEW move \in Moves, NEW message,
         message.type = Said(move).type,
         message.buys = Said(move).buys, message.sells = Said(move).sells
  PROVE  Apply(TopsAt(depth, venue), depth, message) = TopsAt(depth, VenueAfter(move))
<1> DEFINE new == VenueAfter(move)
           old == Cleared(TopsAt(depth, venue), message)
<1>1. \A s \in Sides : message[s] = Said(move)[s]
  BY DEF Sides
<1>2. \A s \in Sides : IsSide(venue[s]) /\ IsSide(new[s])
  BY VenueMoves DEF IsBook
<1>3. move.type \in {"snapshot", "update"} /\ message.type = move.type
  BY SaidIs DEF Moves
<1>4. ASSUME NEW s \in Sides
      PROVE  ApplyLevels(s, message[s], depth, old[s]) = TopOf(s, new[s])
  <2>1. CASE move.type = "snapshot"
    <3>1. old = EmptyBook /\ DOMAIN old[s] = {}
      BY <1>3, <2>1, EmptyBooks DEF Cleared
    <3>2. message[s] = LevelsOf(s, TopOf(s, new[s]))
      BY <1>1, <2>1, SaidIs
    <3>3. QED
      BY <1>2, <3>1, <3>2, SnapshotSets
  <2>2. CASE move.type # "snapshot"
    <3>1. old[s] = TopOf(s, venue[s])
      BY <1>3, <2>2, TopsAre DEF Cleared
    <3>2. message[s] = ToldOf(s, venue[s], new[s])
      BY <1>1, <2>2, SaidIs
    <3>3. QED
      BY <1>2, <3>1, <3>2, ToldKeeps
  <2>3. QED
    BY <2>1, <2>2
<1>5. Apply(TopsAt(depth, venue), depth, message) =
        [s \in Sides |-> ApplyLevels(s, message[s], depth, old[s])]
  BY DEF Apply
<1> HIDE DEF old, new
<1>6. Apply(TopsAt(depth, venue), depth, message) = [s \in Sides |-> TopOf(s, new[s])]
  BY <1>4, <1>5
<1>7. QED
  BY <1>6, TopsAre DEF new

-----------------------------------------------------------------------------
(* The inductive invariant.  While the decoder has not thrown, the book is *)
(* the top of Kraken's; after, it is still a top, of what Kraken had.      *)
BooksAgree ==
  /\ depth \in Nat /\ header.depth = depth /\ info.depth = depth
  /\ IsBook(venue)
  /\ IsBook(book) /\ TopsAt(depth, book) = book
  /\ ~threw => book = TopsAt(depth, venue)
  /\ replay = book /\ streamed = book

LEMMA BooksAgreeInit ==
  ASSUME KrakenInit
  PROVE  BooksAgree
<1>1. depth \in Nat /\ header.depth = depth /\ info.depth = depth
  BY KrakenAssumption DEF KrakenInit, MakeFileHeader, MakeStreamInfo
<1>2. /\ venue = EmptyBook /\ book = EmptyBook /\ replay = EmptyBook /\ streamed = EmptyBook
  BY DEF KrakenInit
<1>3. QED
  BY <1>1, <1>2, EmptyBooks DEF BooksAgree

(* What an emitted message does to the three books. *)
LEMMA EmitKeeps ==
  ASSUME BooksAgree, ~threw, NEW move \in Moves, NEW message, Emit(message),
         message.type = Said(move).type,
         message.buys = Said(move).buys, message.sells = Said(move).sells
  PROVE  /\ book' = TopsAt(depth, VenueAfter(move))
         /\ replay' = book' /\ streamed' = book'
<1>1. /\ depth \in Nat /\ header.depth = depth /\ info.depth = depth /\ IsBook(venue)
      /\ book = TopsAt(depth, venue) /\ replay = book /\ streamed = book
  BY DEF BooksAgree
<1>2. IsLevels(message.buys) /\ IsLevels(message.sells)
  <2>1. \A s \in Sides : IsLevels(Said(move)[s])
    BY <1>1, SaidIs
  <2>2. QED
    BY <2>1 DEF Sides
<1>3. /\ book' = Apply(book, depth, message)
      /\ replay' = Apply(replay, header.depth, ReadRecord(Serialize(message)))
      /\ streamed' = ClientApply(streamed, info, MakeBook(message))
  BY DEF Emit
<1>4. Apply(book, depth, message) = TopsAt(depth, VenueAfter(move))
  BY <1>1, SaidKeeps
<1>5. Apply(replay, header.depth, ReadRecord(Serialize(message))) = Apply(book, depth, message)
  BY <1>1, <1>2, RecordApplies
<1>6. ClientApply(streamed, info, MakeBook(message)) = Apply(book, depth, message)
  BY <1>1, <1>2, BookApplies
<1>7. QED
  BY <1>3, <1>4, <1>5, <1>6

LEMMA KrakenKeeps ==
  ASSUME BooksAgree, NEW move \in Moves, KrakenSends(move)
  PROVE  BooksAgree'
<1>1. PICK form \in Forms :
        LET document == Document(Said(move), form)
        IN /\ DecodeBook(document)
           /\ venue' = IF Outcome(document) = "returns" THEN venue ELSE VenueAfter(move)
  BY DEF KrakenSends
<1> DEFINE said == Said(move)
           document == Document(said, form)
           message == MessageOf(document, 0)
<1>2. DecodeBook(document)
  BY <1>1
<1>3. venue' = IF Outcome(document) = "returns" THEN venue ELSE VenueAfter(move)
  BY <1>1
<1>4. ~threw /\ depth' = depth /\ header' = header /\ info' = info
  BY DEF KrakenSends
<1>5. /\ depth \in Nat /\ header.depth = depth /\ info.depth = depth /\ IsBook(venue)
      /\ IsBook(book) /\ TopsAt(depth, book) = book /\ book = TopsAt(depth, venue)
      /\ replay = book /\ streamed = book
  BY <1>4 DEF BooksAgree
<1>6. form.zeros \in BOOLEAN
  BY DEF Forms
<1>7. /\ IsLevels(said.buys) /\ IsLevels(said.sells) /\ said.type \in {"snapshot", "update"}
  <2>1. \A s \in Sides : IsLevels(Said(move)[s])
    BY <1>5, SaidIs
  <2>2. Said(move).type = move.type
    BY <1>5, SaidIs
  <2>3. move.type \in {"snapshot", "update"}
    BY DEF Moves
  <2>4. QED
    BY <2>1, <2>2, <2>3 DEF Sides
<1>8. IsBook(VenueAfter(move))
  BY <1>5, VenueMoves
<1>9. CASE Outcome(document) = "emits"
  <2>1. message.type = said.type /\ message.buys = said.buys /\ message.sells = said.sells
    <3> HIDE DEF said
    <3>1. QED
      BY <1>6, <1>7, <1>9, Decoded
  <2>2. Emit(message) /\ threw' = FALSE
    BY <1>2, <1>9 DEF DecodeBook
  <2> HIDE DEF message
  <2>3. book' = TopsAt(depth, VenueAfter(move)) /\ replay' = book' /\ streamed' = book'
    BY <1>4, <2>1, <2>2, EmitKeeps
  <2>4. venue' = VenueAfter(move)
    BY <1>3, <1>9
  <2>5. IsBook(book') /\ TopsAt(depth, book') = book'
    BY <1>5, <1>8, <2>3, TopsAreBooks
  <2> HIDE DEF document, said
  <2>6. QED
    BY <1>4, <1>5, <1>8, <2>2, <2>3, <2>4, <2>5 DEF BooksAgree
<1>10. CASE Outcome(document) # "emits"
  <2>1. book' = book /\ replay' = replay /\ streamed' = streamed
    BY <1>2, <1>10 DEF DecodeBook
  <2>2. threw' = (Outcome(document) = "throws")
    BY <1>2 DEF DecodeBook
  <2>3. Outcome(document) \in {"returns", "throws"}
    BY <1>10 DEF Outcome
  <2>4. IsBook(venue') /\ (~threw' => venue' = venue)
    BY <1>3, <1>5, <1>8, <2>2, <2>3
  <2> HIDE DEF document, said
  <2>5. QED
    BY <1>4, <1>5, <2>1, <2>4 DEF BooksAgree
<1>11. QED
  BY <1>9, <1>10

LEMMA BooksAgreeAlways == DecodersSpec => []BooksAgree
<1>1. DecodersInit => BooksAgree
  BY BooksAgreeInit DEF DecodersInit
<1>2. BooksAgree /\ [DecodersNext]_decodersVars => BooksAgree'
  <2>1. SUFFICES ASSUME BooksAgree, [DecodersNext]_decodersVars PROVE BooksAgree'
    OBVIOUS
  <2>2. CASE KrakenStep
    BY <2>1, <2>2, KrakenKeeps DEF KrakenStep, KrakenNext
  <2>3. CASE UNCHANGED krakenVars
    BY <2>1, <2>3 DEF krakenVars, BooksAgree
  <2>4. QED
    BY <2>1, <2>2, <2>3 DEF DecodersNext, CoinbaseStep, decodersVars
<1>3. QED
  BY <1>1, <1>2, PTL DEF DecodersSpec

(* The messages alone keep the book the top of Kraken's, at every depth,   *)
(* whatever the prices, quantities and decimals and whichever way a frame  *)
(* writes them.                                                            *)
THEOREM BooksAreVenues == DecodersSpec => []BookIsVenues
<1>1. BooksAgree => BookIsVenues
  BY TopsAre DEF BooksAgree, BookIsVenues
<1>2. QED
  BY <1>1, BooksAgreeAlways, PTL

(* Header and records rebuild the book, the Books a client is sent do, and *)
(* the snapshot a client starts with is the book.                          *)
THEOREM ReplaysAreBooks == DecodersSpec => []ReplayIsBook
<1>1. BooksAgree => ReplayIsBook
  <2>1. SUFFICES ASSUME BooksAgree PROVE ReplayIsBook
    OBVIOUS
  <2> DEFINE message == [type |-> "snapshot", checksum |-> checksum,
                         buys |-> LevelsOf("buys", book.buys),
                         sells |-> LevelsOf("sells", book.sells)]
  <2>2. /\ depth \in Nat /\ info.depth = depth /\ IsBook(book) /\ TopsAt(depth, book) = book
    BY <2>1 DEF BooksAgree
  <2>3. \A s \in Sides : IsSide(book[s]) /\ TopOf(s, book[s]) = book[s]
    BY <2>2, TopsAre DEF IsBook
  <2>4. \A s \in Sides : IsLevels(LevelsOf(s, book[s]))
    <3> TAKE s \in Sides
    <3>1. IsLevels(LevelsOf(s, TopOf(s, book[s])))
      BY <2>3, TopsAreLevels
    <3>2. QED
      BY <2>3, <3>1
  <2>5. IsLevels(message.buys) /\ IsLevels(message.sells)
    BY <2>4 DEF Sides
  <2>6. SnapshotLocked(book, checksum) = MakeBook(message)
    BY DEF SnapshotLocked, MakeBook
  <2>7. \A s \in Sides : message[s] = LevelsOf(s, book[s])
    BY DEF Sides
  <2>8. Cleared(EmptyBook, message) = EmptyBook
    BY DEF Cleared
  <2> HIDE DEF message
  <2>9. ClientApply(EmptyBook, info, MakeBook(message)) = Apply(EmptyBook, depth, message)
    BY <2>2, <2>5, BookApplies
  <2>10. ASSUME NEW s \in Sides
         PROVE  ApplyLevels(s, message[s], depth, EmptyBook[s]) = book[s]
    <3>1. DOMAIN EmptyBook[s] = {}
      BY <2>2, EmptyBooks
    <3>2. ApplyLevels(s, LevelsOf(s, TopOf(s, book[s])), depth, EmptyBook[s]) = TopOf(s, book[s])
      BY <2>2, <2>3, <3>1, SnapshotSets
    <3>3. QED
      BY <2>3, <2>7, <3>2
  <2>11. Apply(EmptyBook, depth, message) = [s \in Sides |-> book[s]]
    BY <2>8, <2>10 DEF Apply
  <2>12. Apply(EmptyBook, depth, message) = book
    BY <2>2, <2>11 DEF IsBook
  <2>13. QED
    BY <2>1, <2>6, <2>9, <2>12 DEF ReplayIsBook, BooksAgree
<1>2. QED
  BY <1>1, BooksAgreeAlways, PTL

-----------------------------------------------------------------------------
(* A sequence of states, each from the one before, is there.              *)
Closed(g, X, N) == \A x \in X, n \in 1..N : g[<<x, n>>] \in X

Runs(f, a, g, X, k) ==
  /\ f \in [0..k -> X]
  /\ \A n \in 0..k : f[n] = IF n = 0 THEN a ELSE g[<<f[n - 1], n>>]

LEMMA Recursion ==
  ASSUME NEW X, NEW N \in Nat, NEW a \in X, NEW g, Closed(g, X, N)
  PROVE  \E f : Runs(f, a, g, X, N)
<1> DEFINE T == {k \in Nat : \E f : Runs(f, a, g, X, k)}
<1>1. 0 \in T
  <2>1. Runs([n \in 0..0 |-> a], a, g, X, 0)
    BY DEF Runs
  <2>2. QED
    BY <2>1
<1>2. ASSUME NEW k \in 0..(N - 1), k \in T
      PROVE  k + 1 \in T
  <2>1. PICK f : Runs(f, a, g, X, k)
    BY <1>2
  <2> DEFINE h == [n \in 0..(k + 1) |-> IF n = k + 1 THEN g[<<f[k], k + 1>>] ELSE f[n]]
  <2>2. \A n \in 0..k : f[n] \in X /\ h[n] = f[n]
    BY <2>1 DEF Runs
  <2>3. k \in 0..k /\ k + 1 \in 1..N /\ k + 1 \in 0..(k + 1)
    OBVIOUS
  <2>4. h[k + 1] = g[<<f[k], k + 1>>] /\ h[k + 1] \in X
    BY <2>2, <2>3 DEF Closed
  <2>5. \A n \in 0..(k + 1) : n = k + 1 \/ n \in 0..k
    OBVIOUS
  <2>6. h \in [0..(k + 1) -> X]
    BY <2>2, <2>4, <2>5
  <2> HIDE DEF h
  <2>7. ASSUME NEW n \in 0..(k + 1)
        PROVE  h[n] = IF n = 0 THEN a ELSE g[<<h[n - 1], n>>]
    <3>1. CASE n = k + 1
      <4>1. n # 0 /\ n - 1 = k
        BY <3>1
      <4>2. QED
        BY <2>2, <2>3, <2>4, <3>1, <4>1
    <3>2. CASE n \in 0..k
      <4>1. n = 0 \/ n - 1 \in 0..k
        BY <3>2
      <4>2. f[n] = IF n = 0 THEN a ELSE g[<<f[n - 1], n>>]
        BY <2>1, <3>2 DEF Runs
      <4>3. QED
        BY <2>2, <3>2, <4>1, <4>2
    <3>3. QED
      BY <2>5, <3>1, <3>2
  <2>8. Runs(h, a, g, X, k + 1)
    BY <2>6, <2>7 DEF Runs
  <2>9. QED
    BY <2>8
<1> HIDE DEF T
<1>3. \A k \in 0..N : k \in T
  BY <1>1, <1>2, Inductive
<1>4. N \in T
  BY <1>3
<1>5. QED
  BY <1>4 DEF T

-----------------------------------------------------------------------------
(* The checksum.  What a shift, and a step by a bit, leave set. *)
Register == SUBSET (0..31)

LEMMA ShiftIs ==
  ASSUME NEW c \in SUBSET Nat, NEW n \in Nat, NEW x \in Nat
  PROVE  x \in ShiftRight(c, n) <=> x + n \in c
<1>1. ASSUME x \in ShiftRight(c, n) PROVE x + n \in c
  <2>1. PICK b \in c : b >= n /\ x = b - n
    BY <1>1 DEF ShiftRight
  <2>2. QED
    BY <2>1
<1>2. ASSUME x + n \in c PROVE x \in ShiftRight(c, n)
  <2>1. x + n >= n /\ x = (x + n) - n
    OBVIOUS
  <2>2. QED
    BY <1>2, <2>1 DEF ShiftRight
<1>3. QED
  BY <1>1, <1>2

LEMMA ShiftIn ==
  ASSUME NEW c \in Register, NEW n \in Nat
  PROVE  ShiftRight(c, n) \in Register
<1>1. ASSUME NEW x \in ShiftRight(c, n) PROVE x \in 0..31
  <2>1. PICK b \in c : b >= n /\ x = b - n
    BY <1>1 DEF ShiftRight
  <2>2. b \in 0..31
    BY DEF Register
  <2>3. QED
    BY <2>1, <2>2
<1>2. QED
  BY <1>1 DEF Register

LEMMA XorIs ==
  ASSUME NEW a, NEW b, NEW x
  PROVE  x \in Xor(a, b) <=> ~(x \in a <=> x \in b)
BY DEF Xor

LEMMA PolynomialIn == Polynomial \in Register
BY DEF Polynomial, Register

LEMMA StepIs ==
  ASSUME NEW c \in Register
  PROVE  /\ Step(c) \in Register
         /\ \A x \in 0..31 :
              x \in Step(c) <=> ~(x + 1 \in c <=> 0 \in c /\ x \in Polynomial)
<1>1. c \in SUBSET Nat
  BY DEF Register
<1>2. ShiftRight(c, 1) \in Register
  BY ShiftIn
<1>3. \A x \in 0..31 : x \in ShiftRight(c, 1) <=> x + 1 \in c
  BY <1>1, ShiftIs
<1>4. Step(c) = IF 0 \in c THEN Xor(ShiftRight(c, 1), Polynomial) ELSE ShiftRight(c, 1)
  BY DEF Step
<1>5. Xor(ShiftRight(c, 1), Polynomial) \in Register
  BY <1>2, PolynomialIn DEF Xor, Register
<1>6. QED
  BY <1>2, <1>3, <1>4, <1>5, XorIs

LEMMA CrcBitIs ==
  ASSUME NEW c \in Register, NEW bit \in BOOLEAN
  PROVE  /\ CrcBit(c, bit) \in Register
         /\ \A x \in 0..31 :
              x \in CrcBit(c, bit) <=> ~(x + 1 \in c <=> ~(0 \in c <=> bit) /\ x \in Polynomial)
<1> DEFINE rest == {b - 1 : b \in c \ {0}}
<1>1. ASSUME NEW x \in rest PROVE x \in 0..31
  <2>1. PICK b \in c \ {0} : x = b - 1
    BY <1>1
  <2>2. b \in 0..31 /\ b # 0
    BY DEF Register
  <2>3. QED
    BY <2>1, <2>2
<1>2. \A x \in 0..31 : x \in rest <=> x + 1 \in c
  <2> TAKE x \in 0..31
  <2>1. ASSUME x \in rest PROVE x + 1 \in c
    <3>1. PICK b \in c \ {0} : x = b - 1
      BY <2>1
    <3>2. b \in 0..31
      BY DEF Register
    <3>3. QED
      BY <3>1, <3>2
  <2>2. ASSUME x + 1 \in c PROVE x \in rest
    <3>1. x = (x + 1) - 1 /\ x + 1 # 0
      OBVIOUS
    <3>2. QED
      BY <2>2, <3>1
  <2>3. QED
    BY <2>1, <2>2
<1>3. CrcBit(c, bit) = IF (0 \in c) = bit THEN rest ELSE (rest \ Polynomial) \cup (Polynomial \ rest)
  BY DEF CrcBit
<1> HIDE DEF rest
<1>4. rest \in Register
  BY <1>1 DEF Register
<1>5. CASE 0 \in c <=> bit
  <2>1. CrcBit(c, bit) = rest
    BY <1>3, <1>5
  <2>2. QED
    BY <1>2, <1>4, <1>5, <2>1
<1>6. CASE ~(0 \in c <=> bit)
  <2>1. CrcBit(c, bit) = (rest \ Polynomial) \cup (Polynomial \ rest)
    BY <1>3, <1>6
  <2>2. CrcBit(c, bit) \in Register
    BY <1>4, <2>1, PolynomialIn DEF Register
  <2>3. QED
    BY <1>2, <1>6, <2>1, <2>2
<1>7. QED
  BY <1>5, <1>6

(* A byte is the number of its bits. *)
LEMMA BytesAre ==
  ASSUME NEW bits \in SUBSET (0..7)
  PROVE  NumberOf(bits) \in 0..255 /\ Bits(NumberOf(bits)) = bits
<1> DEFINE one(b) == IF b \in bits THEN 1 ELSE 0
           n == one(0) + 2 * one(1) + 4 * one(2) + 8 * one(3) + 16 * one(4) + 32 * one(5)
                  + 64 * one(6) + 128 * one(7)
<1>1. NumberOf(bits) = n
  BY DEF NumberOf, Weights
<1>2. \A b \in 0..7 : one(b) \in {0, 1} /\ (one(b) = 1 <=> b \in bits)
  OBVIOUS
<1>3. /\ one(0) \in 0..1 /\ one(1) \in 0..1 /\ one(2) \in 0..1 /\ one(3) \in 0..1
      /\ one(4) \in 0..1 /\ one(5) \in 0..1 /\ one(6) \in 0..1 /\ one(7) \in 0..1
  BY <1>2
<1> HIDE DEF one
<1>4. n \in 0..255
  BY <1>3
<1>5. /\ (n \div 1) % 2 = one(0) /\ (n \div 2) % 2 = one(1)
      /\ (n \div 4) % 2 = one(2) /\ (n \div 8) % 2 = one(3)
      /\ (n \div 16) % 2 = one(4) /\ (n \div 32) % 2 = one(5)
      /\ (n \div 64) % 2 = one(6) /\ (n \div 128) % 2 = one(7)
  BY <1>3
<1>6. /\ Weights[0 + 1] = 1 /\ Weights[1 + 1] = 2 /\ Weights[2 + 1] = 4 /\ Weights[3 + 1] = 8
      /\ Weights[4 + 1] = 16 /\ Weights[5 + 1] = 32 /\ Weights[6 + 1] = 64 /\ Weights[7 + 1] = 128
  BY DEF Weights
<1> HIDE DEF n
<1>7. ASSUME NEW b \in 0..7 PROVE (n \div Weights[b + 1]) % 2 = one(b)
  <2>1. b = 0 \/ b = 1 \/ b = 2 \/ b = 3 \/ b = 4 \/ b = 5 \/ b = 6 \/ b = 7
    OBVIOUS
  <2>2. QED
    BY <1>5, <1>6, <2>1
<1>8. Bits(n) = bits
  BY <1>2, <1>7 DEF Bits
<1>9. QED
  BY <1>1, <1>4, <1>8

(* The eight steps of a table's entry. *)
LEMMA TableIs ==
  ASSUME NEW low \in SUBSET (0..7)
  PROVE  \E s : /\ s \in [0..8 -> Register] /\ s[0] = low
                /\ \A n \in 1..8 : s[n] = Step(s[n - 1])
                /\ Table[NumberOf(low)] = s[8]
<1> DEFINE v == NumberOf(low)
           P(f) == f = [n \in 0..8 |-> IF n = 0 THEN Bits(v) ELSE Step(f[n - 1])]
           s == CHOOSE f : P(f)
           g == [p \in Register \X (1..8) |-> Step(p[1])]
<1>1. v \in 0..255 /\ Bits(v) = low
  BY BytesAre
<1>2. low \in Register
  BY DEF Register
<1>3. Table[v] = s[8]
  BY <1>1 DEF Table
<1> HIDE DEF v
<1>4. \A x \in Register, n \in 1..8 : g[<<x, n>>] = Step(x)
  OBVIOUS
<1> HIDE DEF g
<1>5. Closed(g, Register, 8)
  <2>1. \A x \in Register : Step(x) \in Register
    BY StepIs
  <2>2. QED
    BY <1>4, <2>1 DEF Closed
<1>6. PICK f : Runs(f, low, g, Register, 8)
  BY <1>2, <1>5, Recursion
<1>7. P(f)
  <2>1. f \in [0..8 -> Register] /\ \A n \in 0..8 : f[n] = IF n = 0 THEN low ELSE g[<<f[n - 1], n>>]
    BY <1>6 DEF Runs
  <2>2. \A n \in 0..8 : n = 0 \/ (n \in 1..8 /\ n - 1 \in 0..8)
    OBVIOUS
  <2>3. \A n \in 0..8 : f[n] = IF n = 0 THEN Bits(v) ELSE Step(f[n - 1])
    BY <1>1, <1>4, <2>1, <2>2
  <2>4. f = [n \in 0..8 |-> f[n]]
    BY <2>1
  <2>5. QED
    BY <2>3, <2>4
<1>8. P(s)
  BY <1>7
<1> HIDE DEF s
<1>9. /\ s = [n \in 0..8 |-> s[n]] /\ s[0] = low
      /\ \A n \in 1..8 : s[n] = Step(s[n - 1])
  <2>1. \A n \in 0..8 : s[n] = IF n = 0 THEN Bits(v) ELSE Step(s[n - 1])
    BY <1>8
  <2>2. QED
    BY <1>1, <1>8, <2>1
<1>10. \A n \in 0..8 : s[n] \in Register
  <2> DEFINE T == {n \in Nat : s[n] \in Register}
  <2>1. 0 \in T
    BY <1>2, <1>9
  <2>2. ASSUME NEW n \in 0..(8 - 1), n \in T
        PROVE  n + 1 \in T
    <3>1. n + 1 \in 1..8 /\ (n + 1) - 1 = n
      OBVIOUS
    <3>2. s[n + 1] = Step(s[n])
      BY <1>9, <3>1
    <3>3. QED
      BY <2>2, <3>2, StepIs
  <2> HIDE DEF T
  <2>3. \A n \in 0..8 : n \in T
    BY <2>1, <2>2, Inductive
  <2>4. QED
    BY <2>3 DEF T
<1>11. s \in [0..8 -> Register]
  BY <1>9, <1>10
<1>12. QED
  BY <1>3, <1>9, <1>11 DEF v

(* Eight steps by the bits of a byte are one by the table. *)
LEMMA ByteSteps ==
  ASSUME NEW byte, NEW c \in [0..8 -> Register],
         \A k \in 0..7 : c[k + 1] = CrcBit(c[k], k \in Bits(byte))
  PROVE  c[8] = CrcByte(c[0], byte)
<1> DEFINE B == Bits(byte)
           low == Xor(c[0], B) \cap (0..7)
<1>1. B \in SUBSET (0..7)
  BY DEF Bits
<1>2. low \in SUBSET (0..7)
  OBVIOUS
<1>3. PICK s : /\ s \in [0..8 -> Register] /\ s[0] = low
               /\ \A n \in 1..8 : s[n] = Step(s[n - 1])
               /\ Table[NumberOf(low)] = s[8]
  BY <1>2, TableIs
<1>4. \A x \in Int : x \in low <=> x \in 0..7 /\ ~(x \in c[0] <=> x \in B)
  BY XorIs
<1>5. \A k \in 0..8 : c[k] \in Register /\ s[k] \in Register
  BY <1>3
<1> HIDE DEF B, low
<1> DEFINE Agree(k, x) ==
             ~(x \in c[k] <=> x + k \in B) <=> ~(x \in s[k] <=> x + k \in c[0] /\ x + k >= 8)
           T == {k \in Nat : \A x \in 0..31 : Agree(k, x)}
<1>6. 0 \in T
  <2>1. ASSUME NEW x \in 0..31 PROVE Agree(0, x)
    <3>1. x + 0 = x /\ x \in Int
      OBVIOUS
    <3>2. x \in 0..7 \/ (x >= 8 /\ x \notin B /\ x \notin 0..7)
      BY <1>1
    <3>3. x \in 0..7 => ~(x >= 8)
      OBVIOUS
    <3>4. x \in s[0] <=> x \in 0..7 /\ ~(x \in c[0] <=> x \in B)
      BY <1>3, <1>4, <3>1
    <3>5. QED
      BY <3>1, <3>2, <3>3, <3>4
  <2>2. QED
    BY <2>1
<1>7. ASSUME NEW k \in 0..(8 - 1), k \in T
      PROVE  k + 1 \in T
  <2>1. \A x \in 0..31 : Agree(k, x)
    BY <1>7
  <2>2. k \in 0..7 /\ k \in 0..8 /\ k + 1 \in 1..8 /\ (k + 1) - 1 = k /\ k + 1 \in Nat
    OBVIOUS
  <2>3. c[k + 1] = CrcBit(c[k], k \in B)
    BY <2>2 DEF B
  <2>4. s[k + 1] = Step(s[k])
    BY <1>3, <2>2
  <2>5. c[k] \in Register /\ s[k] \in Register
    BY <1>5, <2>2
  <2>6. \A x \in 0..31 :
          x \in c[k + 1] <=> ~(x + 1 \in c[k] <=> ~(0 \in c[k] <=> k \in B) /\ x \in Polynomial)
    <3>1. CASE k \in B
      <4>1. c[k + 1] = CrcBit(c[k], TRUE)
        <5>1. (k \in B) = TRUE
          BY <3>1
        <5>2. QED
          BY <2>3, <5>1
      <4>2. /\ CrcBit(c[k], TRUE) \in Register
            /\ \A x \in 0..31 :
                 x \in CrcBit(c[k], TRUE)
                   <=> ~(x + 1 \in c[k] <=> ~(0 \in c[k] <=> TRUE) /\ x \in Polynomial)
        BY <2>5, CrcBitIs, TRUE \in BOOLEAN
      <4>3. QED
        BY <3>1, <4>1, <4>2
    <3>2. CASE k \notin B
      <4>1. c[k + 1] = CrcBit(c[k], FALSE)
        <5>1. (k \in B) = FALSE
          BY <3>2
        <5>2. QED
          BY <2>3, <5>1
      <4>2. /\ CrcBit(c[k], FALSE) \in Register
            /\ \A x \in 0..31 :
                 x \in CrcBit(c[k], FALSE)
                   <=> ~(x + 1 \in c[k] <=> ~(0 \in c[k] <=> FALSE) /\ x \in Polynomial)
        BY <2>5, CrcBitIs, FALSE \in BOOLEAN
      <4>3. QED
        BY <3>2, <4>1, <4>2
    <3>3. QED
      BY <3>1, <3>2
  <2>7. \A x \in 0..31 :
          x \in s[k + 1] <=> ~(x + 1 \in s[k] <=> 0 \in s[k] /\ x \in Polynomial)
    BY <2>4, <2>5, StepIs
  <2>8. ~(0 \in c[k] <=> k \in B) <=> 0 \in s[k]
    <3>1. Agree(k, 0)
      BY <2>1
    <3>2. 0 + k = k /\ ~(k >= 8)
      BY <2>2
    <3>3. QED
      BY <3>1, <3>2
  <2>9. ASSUME NEW x \in 0..31 PROVE Agree(k + 1, x)
    <3>1. x + (k + 1) = (x + 1) + k
      BY <2>2
    <3>2. Agree(k, x + 1)
      <4>1. CASE x + 1 \in 0..31
        BY <2>1, <4>1
      <4>2. CASE x + 1 \notin 0..31
        <5>1. (x + 1) + k \notin 0..31 /\ (x + 1) + k \notin 0..7
          BY <2>2, <4>2
        <5>2. c[0] \in Register
          BY <1>5
        <5>3. QED
          BY <1>1, <2>5, <4>2, <5>1, <5>2 DEF Register
      <4>3. QED
        BY <4>1, <4>2
    <3> DEFINE p == x \in c[k + 1]
               q == x + 1 \in c[k]
               r == 0 \in s[k] /\ x \in Polynomial
               t == x \in s[k + 1]
               u == x + 1 \in s[k]
    <3>3. p <=> ~(q <=> r)
      BY <2>6, <2>8
    <3>4. t <=> ~(u <=> r)
      BY <2>7
    <3>5. QED
      BY <3>1, <3>2, <3>3, <3>4
  <2>10. QED
    BY <2>2, <2>9
<1> HIDE DEF T
<1>8. \A k \in 0..8 : k \in T
  BY <1>6, <1>7, Inductive
<1>9. \A x \in 0..31 : Agree(8, x)
  BY <1>8 DEF T
<1>10. ASSUME NEW x \in 0..31
       PROVE  x \in c[8] <=> ~(x \in s[8] <=> x \in ShiftRight(c[0], 8))
  <2>1. x + 8 \notin B /\ x + 8 >= 8
    BY <1>1
  <2>2. c[0] \in SUBSET Nat
    BY <1>5 DEF Register
  <2>3. x \in ShiftRight(c[0], 8) <=> x + 8 \in c[0]
    BY <2>2, ShiftIs
  <2>4. QED
    BY <1>9, <2>1, <2>3
<1>11. c[8] \in Register /\ s[8] \in Register /\ ShiftRight(c[0], 8) \in Register
  BY <1>5, ShiftIn
<1>12. c[8] = Xor(s[8], ShiftRight(c[0], 8))
  BY <1>10, <1>11 DEF Register, Xor
<1>13. QED
  BY <1>3, <1>12 DEF CrcByte, low, B

LEMMA CrcByteIn ==
  ASSUME NEW c \in Register, NEW byte
  PROVE  CrcByte(c, byte) \in Register
<1> DEFINE low == Xor(c, Bits(byte)) \cap (0..7)
<1>1. low \in SUBSET (0..7)
  OBVIOUS
<1>2. PICK s : s \in [0..8 -> Register] /\ Table[NumberOf(low)] = s[8]
  BY <1>1, TableIs
<1>3. Table[NumberOf(low)] \in Register
  BY <1>2
<1>4. ShiftRight(c, 8) \in Register
  BY ShiftIn
<1>5. CrcByte(c, byte) = Xor(Table[NumberOf(low)], ShiftRight(c, 8))
  BY DEF CrcByte
<1> HIDE DEF low
<1>6. QED
  BY <1>3, <1>4, <1>5 DEF Xor, Register

(* The states of both computations. *)
LEMMA ByteRuns ==
  ASSUME NEW data, Len(data) \in Nat
  PROVE  \E c : /\ c \in [0..Len(data) -> Register] /\ c[0] = AllOnes
                /\ \A n \in 1..Len(data) : c[n] = CrcByte(c[n - 1], data[n])
                /\ Crc32Of(data) = Xor(c[Len(data)], AllOnes)
<1> DEFINE N == Len(data)
           P(f) == f = [n \in 0..N |-> IF n = 0 THEN AllOnes ELSE CrcByte(f[n - 1], data[n])]
           s == CHOOSE f : P(f)
           g == [p \in Register \X (1..N) |-> CrcByte(p[1], data[p[2]])]
<1>1. Crc32Of(data) = Xor(s[N], AllOnes)
  BY DEF Crc32Of
<1>2. N \in Nat /\ AllOnes \in Register
  BY DEF AllOnes, Register
<1> HIDE DEF N
<1>3. \A x \in Register, n \in 1..N : g[<<x, n>>] = CrcByte(x, data[n])
  OBVIOUS
<1> HIDE DEF g
<1>4. Closed(g, Register, N)
  <2>1. \A x \in Register, n \in 1..N : CrcByte(x, data[n]) \in Register
    BY CrcByteIn
  <2>2. QED
    BY <1>3, <2>1 DEF Closed
<1>5. PICK f : Runs(f, AllOnes, g, Register, N)
  BY <1>2, <1>4, Recursion
<1>6. /\ f \in [0..N -> Register]
      /\ \A n \in 0..N : f[n] = IF n = 0 THEN AllOnes ELSE g[<<f[n - 1], n>>]
  BY <1>5 DEF Runs
<1>7. \A n \in 0..N : n = 0 \/ (n \in 1..N /\ n - 1 \in 0..N)
  BY <1>2
<1>8. P(f)
  <2>1. \A n \in 0..N : f[n] = IF n = 0 THEN AllOnes ELSE CrcByte(f[n - 1], data[n])
    BY <1>3, <1>6, <1>7
  <2>2. f = [n \in 0..N |-> f[n]]
    BY <1>6
  <2>3. QED
    BY <2>1, <2>2
<1>9. P(s)
  BY <1>8
<1> HIDE DEF s
<1>10. /\ s = [n \in 0..N |-> s[n]] /\ s[0] = AllOnes
       /\ \A n \in 1..N : s[n] = CrcByte(s[n - 1], data[n])
  <2>1. \A n \in 0..N : s[n] = IF n = 0 THEN AllOnes ELSE CrcByte(s[n - 1], data[n])
    BY <1>9
  <2>2. 0 \in 0..N /\ \A n \in 1..N : n \in 0..N /\ n # 0
    BY <1>2
  <2>3. QED
    BY <1>9, <2>1, <2>2
<1>11. \A n \in 0..N : s[n] \in Register
  <2> DEFINE T == {n \in Nat : s[n] \in Register}
  <2>1. 0 \in T
    BY <1>2, <1>10
  <2>2. ASSUME NEW n \in 0..(N - 1), n \in T
        PROVE  n + 1 \in T
    <3>1. n + 1 \in 1..N /\ (n + 1) - 1 = n /\ n + 1 \in Nat
      BY <1>2
    <3>2. s[n + 1] = CrcByte(s[n], data[n + 1])
      BY <1>10, <3>1
    <3>3. QED
      BY <2>2, <3>1, <3>2, CrcByteIn
  <2> HIDE DEF T
  <2>3. \A n \in 0..N : n \in T
    BY <1>2, <2>1, <2>2, Inductive
  <2>4. QED
    BY <2>3 DEF T
<1>12. s \in [0..N -> Register]
  BY <1>10, <1>11
<1>13. QED
  BY <1>1, <1>10, <1>12 DEF N

BitOf(data, n) == (data[(n - 1) \div 8 + 1] \div Weights[((n - 1) % 8) + 1]) % 2 = 1

LEMMA BitRuns ==
  ASSUME NEW data, Len(data) \in Nat
  PROVE  \E c : /\ c \in [0..(8 * Len(data)) -> Register] /\ c[0] = AllOnes
                /\ \A n \in 1..(8 * Len(data)) : c[n] = CrcBit(c[n - 1], BitOf(data, n))
                /\ CrcOf(data) = Xor(c[8 * Len(data)], AllOnes)
<1> DEFINE N == 8 * Len(data)
           bit(n) == (data[(n - 1) \div 8 + 1] \div Weights[((n - 1) % 8) + 1]) % 2 = 1
           P(f) == f = [n \in 0..N |-> IF n = 0 THEN 0..31 ELSE CrcBit(f[n - 1], bit(n))]
           s == CHOOSE f : P(f)
           g == [p \in Register \X (1..N) |-> CrcBit(p[1], bit(p[2]))]
<1>1. CrcOf(data) = (0..31) \ s[N]
  BY DEF CrcOf
<1>2. N \in Nat /\ AllOnes \in Register /\ AllOnes = 0..31
  BY DEF AllOnes, Register
<1>3. \A n : bit(n) = BitOf(data, n) /\ bit(n) \in BOOLEAN
  BY DEF BitOf
<1> HIDE DEF N
<1>4. \A x \in Register, n \in 1..N : g[<<x, n>>] = CrcBit(x, bit(n))
  OBVIOUS
<1> HIDE DEF g, bit
<1>5. \A x \in Register, n \in 1..N : CrcBit(x, bit(n)) \in Register
  <2> TAKE x \in Register, n \in 1..N
  <2>1. CASE bit(n) = TRUE
    <3>1. CrcBit(x, TRUE) \in Register
      BY CrcBitIs, TRUE \in BOOLEAN
    <3>2. QED
      BY <2>1, <3>1
  <2>2. CASE bit(n) = FALSE
    <3>1. CrcBit(x, FALSE) \in Register
      BY CrcBitIs, FALSE \in BOOLEAN
    <3>2. QED
      BY <2>2, <3>1
  <2>3. QED
    BY <1>3, <2>1, <2>2
<1>6. PICK f : Runs(f, AllOnes, g, Register, N)
  <2>1. Closed(g, Register, N)
    BY <1>4, <1>5 DEF Closed
  <2>2. QED
    BY <1>2, <2>1, Recursion
<1>7. /\ f \in [0..N -> Register]
      /\ \A n \in 0..N : f[n] = IF n = 0 THEN AllOnes ELSE g[<<f[n - 1], n>>]
  BY <1>6 DEF Runs
<1>8. \A n \in 0..N : n = 0 \/ (n \in 1..N /\ n - 1 \in 0..N)
  BY <1>2
<1>9. P(f)
  <2>1. \A n \in 0..N : f[n] = IF n = 0 THEN 0..31 ELSE CrcBit(f[n - 1], bit(n))
    BY <1>2, <1>4, <1>7, <1>8
  <2>2. f = [n \in 0..N |-> f[n]]
    BY <1>7
  <2>3. QED
    BY <2>1, <2>2
<1>10. P(s)
  BY <1>9
<1> HIDE DEF s
<1>11. /\ s = [n \in 0..N |-> s[n]] /\ s[0] = AllOnes
       /\ \A n \in 1..N : s[n] = CrcBit(s[n - 1], bit(n))
  <2>1. \A n \in 0..N : s[n] = IF n = 0 THEN 0..31 ELSE CrcBit(s[n - 1], bit(n))
    BY <1>10
  <2>2. 0 \in 0..N /\ \A n \in 1..N : n \in 0..N /\ n # 0
    BY <1>2
  <2>3. QED
    BY <1>2, <1>10, <2>1, <2>2
<1>12. \A n \in 0..N : s[n] \in Register
  <2> DEFINE T == {n \in Nat : s[n] \in Register}
  <2>1. 0 \in T
    BY <1>2, <1>11
  <2>2. ASSUME NEW n \in 0..(N - 1), n \in T
        PROVE  n + 1 \in T
    <3>1. n + 1 \in 1..N /\ (n + 1) - 1 = n /\ n + 1 \in Nat
      BY <1>2
    <3>2. s[n + 1] = CrcBit(s[n], bit(n + 1))
      BY <1>11, <3>1
    <3>3. QED
      BY <1>5, <2>2, <3>1, <3>2
  <2> HIDE DEF T
  <2>3. \A n \in 0..N : n \in T
    BY <1>2, <2>1, <2>2, Inductive
  <2>4. QED
    BY <2>3 DEF T
<1>13. s \in [0..N -> Register]
  BY <1>11, <1>12
<1>14. (0..31) \ s[N] = Xor(s[N], AllOnes)
  <2>1. s[N] \in Register
    BY <1>2, <1>13
  <2>2. QED
    BY <1>2, <2>1 DEF Xor, Register
<1>15. QED
  BY <1>1, <1>3, <1>11, <1>13, <1>14 DEF N

(* The table's checksum of any bytes is the one defined bit by bit. *)
THEOREM CrcSame ==
  ASSUME NEW data, Len(data) \in Nat
  PROVE  Crc32Of(data) = CrcOf(data)
<1> DEFINE N == Len(data)
<1>1. PICK d : /\ d \in [0..N -> Register] /\ d[0] = AllOnes
               /\ \A n \in 1..N : d[n] = CrcByte(d[n - 1], data[n])
               /\ Crc32Of(data) = Xor(d[N], AllOnes)
  BY ByteRuns
<1>2. PICK c : /\ c \in [0..(8 * N) -> Register] /\ c[0] = AllOnes
               /\ \A n \in 1..(8 * N) : c[n] = CrcBit(c[n - 1], BitOf(data, n))
               /\ CrcOf(data) = Xor(c[8 * N], AllOnes)
  BY BitRuns
<1>3. N \in Nat
  OBVIOUS
<1> HIDE DEF N
<1> DEFINE T == {n \in Nat : c[8 * n] = d[n]}
<1>4. 0 \in T
  BY <1>1, <1>2
<1>5. ASSUME NEW n \in 0..(N - 1), n \in T
      PROVE  n + 1 \in T
  <2> DEFINE e == [k \in 0..8 |-> c[8 * n + k]]
  <2>1. n + 1 \in 1..N /\ (n + 1) - 1 = n /\ n + 1 \in Nat /\ n \in Nat
    BY <1>3
  <2>2. \A k \in 0..8 : 8 * n + k \in 0..(8 * N)
    BY <1>3
  <2>3. e \in [0..8 -> Register]
    BY <1>2, <2>2
  <2>4. \A k \in 0..7 : /\ k \in 0..8 /\ k + 1 \in 0..8
                        /\ 8 * n + k + 1 \in 1..(8 * N) /\ 8 * n + k + 1 - 1 = 8 * n + k
                        /\ 8 * n + (k + 1) = 8 * n + k + 1
    BY <1>3
  <2>5. \A k \in 0..7 : (8 * n + k) \div 8 = n /\ (8 * n + k) % 8 = k
    BY <2>1
  <2>6. ASSUME NEW k \in 0..7
        PROVE  BitOf(data, 8 * n + k + 1) = (k \in Bits(data[n + 1]))
    <3>1. BitOf(data, 8 * n + k + 1) = ((data[n + 1] \div Weights[k + 1]) % 2 = 1)
      <4> DEFINE at == 8 * n + k + 1
                 low == 8 * n + k
      <4>1. at - 1 = low /\ low \div 8 = n /\ low % 8 = k
        BY <2>4, <2>5
      <4>2. BitOf(data, at)
              = ((data[(at - 1) \div 8 + 1] \div Weights[((at - 1) % 8) + 1]) % 2 = 1)
        BY DEF BitOf
      <4> HIDE DEF at, low
      <4>3. (at - 1) \div 8 + 1 = n + 1 /\ ((at - 1) % 8) + 1 = k + 1
        BY <4>1
      <4>4. BitOf(data, at) = ((data[n + 1] \div Weights[k + 1]) % 2 = 1)
        BY <4>2, <4>3, Zenon
      <4>5. QED
        BY <4>4 DEF at
    <3>2. (k \in Bits(data[n + 1])) = ((data[n + 1] \div Weights[k + 1]) % 2 = 1)
      BY DEF Bits
    <3>3. QED
      BY <3>1, <3>2
  <2>7. ASSUME NEW k \in 0..7
        PROVE  e[k + 1] = CrcBit(e[k], k \in Bits(data[n + 1]))
    <3>1. c[8 * n + k + 1] = CrcBit(c[8 * n + k], BitOf(data, 8 * n + k + 1))
      BY <1>2, <2>4
    <3>2. e[k + 1] = c[8 * n + k + 1] /\ e[k] = c[8 * n + k]
      BY <2>4
    <3>3. QED
      BY <2>6, <3>1, <3>2
  <2>8. /\ e[0] = c[8 * n] /\ e[8] = c[8 * (n + 1)]
    BY <2>1
  <2> HIDE DEF e
  <2>9. e[8] = CrcByte(e[0], data[n + 1])
    BY <2>3, <2>7, ByteSteps
  <2>10. d[n + 1] = CrcByte(d[n], data[n + 1])
    BY <1>1, <2>1
  <2>11. QED
    BY <1>5, <2>1, <2>8, <2>9, <2>10
<1> HIDE DEF T
<1>6. \A n \in 0..N : n \in T
  BY <1>3, <1>4, <1>5, Inductive
<1>7. c[8 * N] = d[N]
  BY <1>3, <1>6 DEF T
<1>8. QED
  BY <1>1, <1>2, <1>7

-----------------------------------------------------------------------------
(* The checksum's text.  What sequences of digits flatten to. *)
LEMMA FlattenIn ==
  ASSUME NEW A, NEW s \in Seq(Seq(A))
  PROVE  FlattenSeq(s) \in Seq(A)
<1> DEFINE n == Len(s)
           X == Seq(A)
           P(f) == f = [i \in 1..n |-> IF i = 1 THEN s[i] ELSE f[i - 1] \o s[i]]
           flat == CHOOSE f : P(f)
           g == [p \in X \X (1..(n - 1)) |-> p[1] \o s[p[2] + 1]]
<1>1. FlattenSeq(s) = IF n = 0 THEN s ELSE flat[n]
  BY DEF FlattenSeq
<1>2. n \in Nat /\ \A i \in 1..n : s[i] \in X
  BY SeqIs
<1>3. CASE n = 0
  <2>1. s \in X
    BY <1>3
  <2>2. QED
    BY <1>1, <1>3, <2>1
<1>4. CASE n # 0
  <2> HIDE DEF n
  <2>1. \A x \in X, i \in 1..(n - 1) : g[<<x, i>>] = x \o s[i + 1]
    OBVIOUS
  <2> HIDE DEF g
  <2>2. \A x, y \in X : x \o y \in X
    BY SeqJoined
  <2> HIDE DEF X
  <2>3. Closed(g, X, n - 1)
    <3> SUFFICES ASSUME NEW x \in X, NEW i \in 1..(n - 1)
                 PROVE  g[<<x, i>>] \in X
      BY DEF Closed
    <3>1. i + 1 \in 1..n
      BY <1>2
    <3>2. QED
      BY <1>2, <2>1, <2>2, <3>1
  <2>4. n - 1 \in Nat /\ 1 \in 1..n
    BY <1>2, <1>4
  <2>5. PICK f : Runs(f, s[1], g, X, n - 1)
    BY <1>2, <2>3, <2>4, Recursion
  <2>6. /\ f \in [0..(n - 1) -> X]
        /\ \A i \in 0..(n - 1) : f[i] = IF i = 0 THEN s[1] ELSE g[<<f[i - 1], i>>]
    BY <2>5 DEF Runs
  <2> DEFINE h == [i \in 1..n |-> f[i - 1]]
  <2>7. P(h)
    <3>1. ASSUME NEW i \in 1..n
          PROVE  h[i] = IF i = 1 THEN s[i] ELSE h[i - 1] \o s[i]
      <4>1. i - 1 \in 0..(n - 1) /\ h[i] = f[i - 1]
        BY <1>2
      <4>2. CASE i = 1
        <5>1. i - 1 = 0 /\ 0 \in 0..(n - 1)
          BY <4>1, <4>2
        <5>2. QED
          BY <2>6, <4>1, <4>2, <5>1
      <4>3. CASE i # 1
        <5>1. i - 1 \in 1..(n - 1) /\ i - 1 # 0 /\ i - 1 \in 1..n /\ (i - 1) - 1 \in 0..(n - 1) /\ (i - 1) + 1 = i
          BY <1>2, <4>3
        <5>2. f[i - 1] = g[<<f[(i - 1) - 1], i - 1>>]
          BY <2>6, <4>1, <5>1
        <5>3. f[(i - 1) - 1] \in X /\ h[i - 1] = f[(i - 1) - 1]
          BY <2>6, <5>1
        <5>4. QED
          BY <2>1, <4>1, <4>3, <5>1, <5>2, <5>3
      <4>4. QED
        BY <4>2, <4>3
    <3>2. h = [i \in 1..n |-> h[i]]
      OBVIOUS
    <3> HIDE DEF h
    <3>3. QED
      BY <3>1, <3>2
  <2>8. P(flat)
    BY <2>7
  <2> HIDE DEF flat, h
  <2>9. \A i \in 1..n : flat[i] = IF i = 1 THEN s[i] ELSE flat[i - 1] \o s[i]
    BY <2>8
  <2> DEFINE T == {i \in Nat : flat[i + 1] \in X}
  <2>10. 0 \in T
    BY <1>2, <2>4, <2>9
  <2>11. ASSUME NEW i \in 0..(n - 1 - 1), i \in T
         PROVE  i + 1 \in T
    <3>1. (i + 1) + 1 \in 1..n /\ (i + 1) + 1 # 1 /\ ((i + 1) + 1) - 1 = i + 1 /\ i + 1 \in Nat
      BY <1>2
    <3>2. flat[(i + 1) + 1] = flat[i + 1] \o s[(i + 1) + 1]
      BY <2>9, <3>1
    <3>3. QED
      BY <1>2, <2>2, <2>11, <3>1, <3>2
  <2> HIDE DEF T
  <2>12. \A i \in 0..(n - 1) : i \in T
    BY <2>4, <2>10, <2>11, Inductive
  <2>13. n - 1 \in T /\ (n - 1) + 1 = n
    <3>1. n - 1 \in 0..(n - 1) /\ (n - 1) + 1 = n
      BY <1>2, <2>4
    <3>2. QED
      BY <2>12, <3>1
  <2>14. flat[n] \in X
    BY <2>13 DEF T
  <2>15. QED
    BY <1>1, <1>4, <2>14 DEF X
<1>5. QED
  BY <1>3, <1>4

LEMMA DigitsIn ==
  ASSUME NEW n \in Nat
  PROVE  DigitsOf(n) \in Seq(0..9)
<1>1. PICK k \in Nat \ {0} : DigitsOf(n) = DigitsAt(n, k)
  BY DigitsOfIs
<1> DEFINE digit(i) == (n \div Pow10[k - i]) % 10
           s == [i \in 1..k |-> digit(i)]
<1>2. DigitsAt(n, k) = s
  BY DEF DigitsAt
<1>3. \A i \in 1..k : digit(i) \in 0..9
  BY CharactersAre
<1> HIDE DEF digit
<1>4. s \in [1..k -> 0..9]
  BY <1>3
<1> HIDE DEF s
<1>5. s \in Seq(0..9)
  BY <1>4
<1>6. QED
  BY <1>1, <1>2, <1>5

(* A side's part of the text is that of its levels. *)
LEMMA SideDigitsAre ==
  ASSUME NEW side, NEW levels, IsSide(levels)
  PROVE  /\ AppendSide(side, levels) = SideDigits(side, LevelsOf(side, levels))
         /\ AppendSide(side, levels) \in Seq(0..9)
<1> DEFINE list == InOrder(side, DOMAIN levels)
           n == Len(list)
           m == IF n < ChecksumDepth THEN n ELSE ChecksumDepth
           top == SubSeq(list, 1, m)
           said == LevelsOf(side, levels)
           digits(i) == DigitsOf(list[i]) \o DigitsOf(levels[list[i]])
           parts == [i \in 1..m |-> digits(i)]
<1>1. IsFiniteSet(DOMAIN levels) /\ DOMAIN levels \in SUBSET Int
  BY KrakenAssumption DEF IsSide
<1>2. list \in Seq(DOMAIN levels)
  BY <1>1, Ordered
<1>3. n \in Nat /\ \A i \in 1..n : list[i] \in DOMAIN levels
  BY <1>2
<1>4. m \in Nat /\ m <= n /\ ChecksumDepth \in Nat
  BY <1>3, KrakenAssumption
<1>5. Len(top) = m /\ \A i \in 1..m : top[i] = list[i]
  BY <1>2, <1>3, <1>4
<1>6. said = [i \in 1..n |-> [price |-> list[i], quantity |-> levels[list[i]]]]
  BY DEF LevelsOf
<1>7. Len(said) = n
  <2> HIDE DEF list, n
  <2> DEFINE A == {[price |-> list[i], quantity |-> levels[list[i]]] : i \in 1..n}
  <2>1. said \in [1..n -> A]
    BY <1>6
  <2> HIDE DEF said, A
  <2>2. QED
    BY <1>3, <2>1
<1>8. AppendSide(side, levels) = FlattenSeq([i \in 1..Len(top) |-> DigitsOf(top[i]) \o DigitsOf(levels[top[i]])])
  BY DEF AppendSide
<1>9. SideDigits(side, said)
        = FlattenSeq([i \in 1..m |-> DigitsOf(said[i].price) \o DigitsOf(said[i].quantity)])
  BY <1>7 DEF SideDigits
<1> HIDE DEF top, said, list, n, m
<1>10. [i \in 1..Len(top) |-> DigitsOf(top[i]) \o DigitsOf(levels[top[i]])] = parts
  BY <1>5
<1>11. [i \in 1..m |-> DigitsOf(said[i].price) \o DigitsOf(said[i].quantity)] = parts
  <2>1. \A i \in 1..m : i \in 1..n
    BY <1>3, <1>4
  <2>2. \A i \in 1..m : said[i].price = list[i] /\ said[i].quantity = levels[list[i]]
    BY <1>6, <2>1
  <2>3. QED
    BY <2>2
<1>12. ASSUME NEW i \in 1..m PROVE digits(i) \in Seq(0..9)
  <2>1. i \in 1..n
    BY <1>3, <1>4
  <2>2. list[i] \in Prices /\ levels[list[i]] \in Quantities
    BY <1>3, <2>1 DEF IsSide
  <2>3. list[i] \in Nat /\ levels[list[i]] \in Nat
    <3>1. Prices \subseteq 0..MaxInt /\ Quantities \subseteq 1..MaxInt
      BY KrakenAssumption
    <3>2. \A x \in 0..MaxInt : x \in Nat
      BY DecimalAssumption
    <3>3. 1..MaxInt \subseteq 0..MaxInt
      BY DecimalAssumption
    <3>4. QED
      BY <2>2, <3>1, <3>2, <3>3
  <2>4. DigitsOf(list[i]) \in Seq(0..9) /\ DigitsOf(levels[list[i]]) \in Seq(0..9)
    BY <2>3, DigitsIn
  <2>5. QED
    BY <2>4, SeqJoined
<1> HIDE DEF digits
<1>13. parts \in [1..m -> Seq(0..9)]
  BY <1>12
<1> HIDE DEF parts
<1>14. parts \in Seq(Seq(0..9))
  BY <1>4, <1>13
<1>15. FlattenSeq(parts) \in Seq(0..9)
  BY <1>14, FlattenIn
<1>16. AppendSide(side, levels) = FlattenSeq(parts)
  BY <1>8, <1>10
<1>17. SideDigits(side, said) = FlattenSeq(parts)
  BY <1>9, <1>11
<1>18. QED
  BY <1>15, <1>16, <1>17 DEF said

(* The code's checksum of a book is the one of Kraken's document. *)
LEMMA ChecksumSame ==
  ASSUME NEW b, IsBook(b)
  PROVE  BookChecksum(b) = ChecksumOf(b)
<1> DEFINE sells == AppendSide("sells", b.sells)
           buys == AppendSide("buys", b.buys)
           text == ChecksumText(b)
           bytes == [i \in 1..Len(text) |-> 48 + text[i]]
<1>1. IsSide(b.sells) /\ IsSide(b.buys)
  BY DEF IsBook, Sides
<1>2. /\ sells = SideDigits("sells", LevelsOf("sells", b.sells)) /\ sells \in Seq(0..9)
      /\ buys = SideDigits("buys", LevelsOf("buys", b.buys)) /\ buys \in Seq(0..9)
  BY <1>1, SideDigitsAre
<1>3. text = sells \o buys
  BY DEF ChecksumText
<1>4. ChecksumOf(b) = CrcOf([i \in 1..Len(sells \o buys) |-> 48 + (sells \o buys)[i]])
  BY <1>2 DEF ChecksumOf
<1>5. BookChecksum(b) = Crc32Of(bytes)
  BY DEF BookChecksum
<1> HIDE DEF sells, buys, text
<1>6. text \in Seq(0..9)
  BY <1>2, <1>3, SeqJoined
<1>7. Len(bytes) \in Nat
  <2>1. Len(text) \in Nat
    BY <1>6
  <2>2. bytes \in [1..Len(text) -> {48 + text[i] : i \in 1..Len(text)}]
    OBVIOUS
  <2> HIDE DEF bytes
  <2>3. QED
    BY <2>1, <2>2
<1>8. Crc32Of(bytes) = CrcOf(bytes)
  <2> HIDE DEF bytes
  <2>1. QED
    BY <1>7, CrcSame
<1>9. QED
  BY <1>3, <1>4, <1>5, <1>8

-----------------------------------------------------------------------------
(* The checksum a message came with is that of Kraken's top, which is the  *)
(* book.                                                                   *)
ChecksumSays == ~threw => checksum \in {{}, ChecksumOf(TopsAt(depth, venue))}

LEMMA ChecksumKeeps ==
  ASSUME BooksAgree, ChecksumSays, NEW move \in Moves, KrakenSends(move)
  PROVE  ChecksumSays'
<1>1. PICK form \in Forms :
        LET document == Document(Said(move), form)
        IN /\ DecodeBook(document)
           /\ venue' = IF Outcome(document) = "returns" THEN venue ELSE VenueAfter(move)
  BY DEF KrakenSends
<1> DEFINE said == Said(move)
           document == Document(said, form)
           message == MessageOf(document, 0)
<1>2. DecodeBook(document)
  BY <1>1
<1>3. venue' = IF Outcome(document) = "returns" THEN venue ELSE VenueAfter(move)
  BY <1>1
<1>4. ~threw /\ depth' = depth
  BY DEF KrakenSends
<1>5. checksum \in {{}, ChecksumOf(TopsAt(depth, venue))} /\ IsBook(venue)
  BY <1>4 DEF ChecksumSays, BooksAgree
<1>6. form.zeros \in BOOLEAN
  BY DEF Forms
<1>7. /\ IsLevels(said.buys) /\ IsLevels(said.sells) /\ said.type \in {"snapshot", "update"}
  <2>1. \A s \in Sides : IsLevels(Said(move)[s])
    BY <1>5, SaidIs
  <2>2. Said(move).type = move.type
    BY <1>5, SaidIs
  <2>3. move.type \in {"snapshot", "update"}
    BY DEF Moves
  <2>4. QED
    BY <2>1, <2>2, <2>3 DEF Sides
<1>8. said.checksum = ChecksumOf(TopsAt(depth, VenueAfter(move)))
  <2>1. said.checksum = ChecksumOf([s \in Sides |-> TopOf(s, VenueAfter(move)[s])])
    BY DEF Said
  <2>2. QED
    BY <2>1, TopsAre
<1>9. CASE Outcome(document) = "emits"
  <2>1. message.checksum \in {{}, said.checksum}
    <3> HIDE DEF said
    <3>1. QED
      BY <1>6, <1>7, <1>9, Decoded
  <2>2. Emit(message)
    BY <1>2, <1>9 DEF DecodeBook
  <2> HIDE DEF message, said, document
  <2>3. checksum' = message.checksum
    BY <2>2 DEF Emit
  <2>4. venue' = VenueAfter(move)
    BY <1>3, <1>9
  <2>5. TopsAt(depth, venue)' = TopsAt(depth, VenueAfter(move))
    BY <1>4, <2>4 DEF TopsAt, TopAt, Kept, Ahead, Better
  <2>6. ChecksumOf(TopsAt(depth, venue))' = ChecksumOf(TopsAt(depth, venue)')
    BY DEF ChecksumOf
  <2>7. QED
    BY <1>8, <2>1, <2>3, <2>5, <2>6 DEF ChecksumSays
<1>10. CASE Outcome(document) = "returns"
  <2>1. venue' = venue /\ checksum' = checksum
    BY <1>2, <1>3, <1>10 DEF DecodeBook
  <2> HIDE DEF document, said
  <2>2. TopsAt(depth, venue)' = TopsAt(depth, venue)
    BY <1>4, <2>1 DEF TopsAt, TopAt, Kept, Ahead, Better
  <2>3. ChecksumOf(TopsAt(depth, venue))' = ChecksumOf(TopsAt(depth, venue)')
    BY DEF ChecksumOf
  <2>4. QED
    BY <1>5, <2>1, <2>2, <2>3 DEF ChecksumSays
<1>11. CASE Outcome(document) = "throws"
  <2>1. threw' = TRUE
    BY <1>2, <1>11 DEF DecodeBook
  <2>2. QED
    BY <2>1 DEF ChecksumSays
<1>12. Outcome(document) \in {"emits", "returns", "throws"}
  BY DEF Outcome
<1>13. QED
  BY <1>9, <1>10, <1>11, <1>12

(* The checksum of the book is the one a message came with: on a stream    *)
(* that lost nothing no pair is resubscribed to for its checksum, whatever *)
(* its levels, its decimals and the depth of its book.                     *)
THEOREM ChecksumsAgree == DecodersSpec => []ChecksumsMatch
<1>1. DecodersInit => ChecksumSays
  BY DEF DecodersInit, KrakenInit, ChecksumSays
<1>2. BooksAgree /\ ChecksumSays /\ [DecodersNext]_decodersVars => ChecksumSays'
  <2>1. SUFFICES ASSUME BooksAgree, ChecksumSays, [DecodersNext]_decodersVars PROVE ChecksumSays'
    OBVIOUS
  <2>2. CASE KrakenStep
    BY <2>1, <2>2, ChecksumKeeps DEF KrakenStep, KrakenNext
  <2>3. CASE UNCHANGED krakenVars
    <3>1. depth' = depth /\ venue' = venue /\ checksum' = checksum /\ threw' = threw
      BY <2>3 DEF krakenVars
    <3>2. TopsAt(depth, venue)' = TopsAt(depth, venue)
      BY <3>1 DEF TopsAt, TopAt, Kept, Ahead, Better
    <3>3. ChecksumOf(TopsAt(depth, venue))' = ChecksumOf(TopsAt(depth, venue)')
      BY DEF ChecksumOf
    <3>4. QED
      BY <2>1, <3>1, <3>2, <3>3 DEF ChecksumSays
  <2>4. QED
    BY <2>1, <2>2, <2>3 DEF DecodersNext, CoinbaseStep, decodersVars
<1>3. BooksAgree /\ ChecksumSays => ChecksumsMatch
  <2>1. SUFFICES ASSUME BooksAgree, ChecksumSays, ~threw, checksum # {}
                 PROVE  BookChecksum(book) = checksum
    BY DEF ChecksumsMatch
  <2>2. IsBook(book) /\ book = TopsAt(depth, venue)
    BY <2>1 DEF BooksAgree
  <2>3. BookChecksum(book) = ChecksumOf(book)
    BY <2>2, ChecksumSame
  <2>4. checksum = ChecksumOf(TopsAt(depth, venue))
    BY <2>1 DEF ChecksumSays
  <2>5. QED
    BY <2>2, <2>3, <2>4
<1>4. QED
  BY <1>1, <1>2, <1>3, BooksAgreeAlways, PTL DEF DecodersSpec

-----------------------------------------------------------------------------
(* Times.  The days before a year: its leap years counted, and by the rule. *)
Rule(year) == year \div 4 - year \div 100 + year \div 400

LEMMA LeapStep ==
  ASSUME NEW year \in Nat
  PROVE  Rule(year + 1) = Rule(year) + (IF IsLeap(year + 1) THEN 1 ELSE 0)
<1>1. (year + 1) \div 4 = year \div 4 + (IF (year + 1) % 4 = 0 THEN 1 ELSE 0)
  OBVIOUS
<1>2. (year + 1) \div 100 = year \div 100 + (IF (year + 1) % 100 = 0 THEN 1 ELSE 0)
  OBVIOUS
<1>3. (year + 1) \div 400 = year \div 400 + (IF (year + 1) % 400 = 0 THEN 1 ELSE 0)
  OBVIOUS
<1>4. /\ (year + 1) % 400 = 0 => (year + 1) % 100 = 0
      /\ (year + 1) % 100 = 0 => (year + 1) % 4 = 0
  OBVIOUS
<1>5. year \div 4 \in Int /\ year \div 100 \in Int /\ year \div 400 \in Int
  OBVIOUS
<1>6. QED
  BY <1>1, <1>2, <1>3, <1>4, <1>5 DEF Rule, IsLeap

LeapsTo(year) == {y \in 1970..(year - 1) : IsLeap(y)}

LEMMA LeapsCounted ==
  ASSUME NEW n \in Nat
  PROVE  /\ IsFiniteSet(LeapsTo(1970 + n))
         /\ Cardinality(LeapsTo(1970 + n)) = Rule(1969 + n) - 477
<1> DEFINE T == {k \in Nat : /\ IsFiniteSet(LeapsTo(1970 + k))
                             /\ Cardinality(LeapsTo(1970 + k)) = Rule(1969 + k) - 477}
<1>1. 0 \in T
  <2>1. LeapsTo(1970 + 0) = {}
    BY DEF LeapsTo
  <2>2. Rule(1969 + 0) = 477
    BY DEF Rule
  <2>3. QED
    BY <2>1, <2>2, FS_EmptySet
<1>2. ASSUME NEW k \in 0..(n - 1), k \in T
      PROVE  k + 1 \in T
  <2>1. /\ k + 1 \in Nat /\ k \in Nat /\ 1970 + (k + 1) - 1 = 1970 + k /\ 1969 + (k + 1) = (1969 + k) + 1
        /\ 1969 + k \in Nat /\ (1969 + k) + 1 = 1970 + k
    OBVIOUS
  <2>2. Rule(1969 + (k + 1)) = Rule(1969 + k) + (IF IsLeap(1970 + k) THEN 1 ELSE 0)
    BY <2>1, LeapStep
  <2>3. Rule(1969 + k) \in Int
    BY <2>1 DEF Rule
  <2>4. 1970 + k \notin LeapsTo(1970 + k)
    BY DEF LeapsTo
  <2>5. IsFiniteSet(LeapsTo(1970 + k)) /\ Cardinality(LeapsTo(1970 + k)) = Rule(1969 + k) - 477
    BY <1>2
  <2>6. 1970..(1970 + (k + 1) - 1) = 1970..(1970 + k - 1) \cup {1970 + k}
    BY <2>1
  <2>7. CASE IsLeap(1970 + k)
    <3>1. LeapsTo(1970 + (k + 1)) = LeapsTo(1970 + k) \cup {1970 + k}
      BY <2>6, <2>7 DEF LeapsTo
    <3>2. IsFiniteSet(LeapsTo(1970 + (k + 1)))
          /\ Cardinality(LeapsTo(1970 + (k + 1))) = Cardinality(LeapsTo(1970 + k)) + 1
      BY <2>4, <2>5, <3>1, FS_AddElement
    <3>3. QED
      BY <2>1, <2>2, <2>3, <2>5, <2>7, <3>2
  <2>8. CASE ~IsLeap(1970 + k)
    <3>1. LeapsTo(1970 + (k + 1)) = LeapsTo(1970 + k)
      BY <2>6, <2>8 DEF LeapsTo
    <3>2. QED
      BY <2>1, <2>2, <2>3, <2>5, <2>8, <3>1
  <2>9. QED
    BY <2>7, <2>8
<1> HIDE DEF T
<1>3. \A k \in 0..n : k \in T
  BY <1>1, <1>2, Inductive
<1>4. n \in T
  BY <1>3
<1>5. QED
  BY <1>4 DEF T

(* Days counted from March are those counted by the calendar. *)
LEMMA DaysAgree ==
  ASSUME NEW text, text.year \in 1970..2261, text.month \in 1..12, text.day \in 1..31
  PROVE  /\ SysDays(text.year, text.month, text.day) = DaysOf(text)
         /\ DaysOf(text) \in Nat
<1> DEFINE year == text.year
           month == text.month
           leap == IF IsLeap(year) THEN 1 ELSE 0
           before == Cardinality(LeapsTo(year))
<1>1. year \in Nat /\ year - 1970 \in Nat /\ year >= 1970 /\ 1970 + (year - 1970) = year
      /\ 1969 + (year - 1970) = year - 1 /\ year - 1 \in Nat /\ (year - 1) + 1 = year
  OBVIOUS
<1>2. before = Rule(year - 1) - 477 /\ before \in Nat
  <2>1. /\ IsFiniteSet(LeapsTo(1970 + (year - 1970)))
        /\ Cardinality(LeapsTo(1970 + (year - 1970))) = Rule(1969 + (year - 1970)) - 477
    BY <1>1, LeapsCounted
  <2>2. QED
    BY <1>1, <2>1, FS_CardinalityType
<1>3. Rule(year) = Rule(year - 1) + leap
  BY <1>1, LeapStep
<1>4. Rule(year) \in Int /\ Rule(year - 1) \in Int /\ leap \in 0..1
  BY <1>1 DEF Rule
<1>5. DaysOf(text) = (year - 1970) * 365 + before + DaysBefore[month]
                       + (IF month > 2 /\ IsLeap(year) THEN 1 ELSE 0) + text.day - 1
  BY DEF DaysOf, LeapsTo
<1>6. SysDays(year, month, text.day)
        = IF month <= 2 THEN (year - 1) * 365 + Rule(year - 1) + ((month + 9) * 153 + 2) \div 5 + text.day - 1 - 719468
          ELSE year * 365 + Rule(year) + ((month - 3) * 153 + 2) \div 5 + text.day - 1 - 719468
  BY <1>1 DEF SysDays, Rule
<1>7. DaysBefore[month] \in 0..334
  BY DEF DaysBefore
<1>8. IF month <= 2 THEN ((month + 9) * 153 + 2) \div 5 = DaysBefore[month] + 306
      ELSE ((month - 3) * 153 + 2) \div 5 = DaysBefore[month] - 59
  <2>1. month = 1 \/ month = 2 \/ month = 3 \/ month = 4 \/ month = 5 \/ month = 6 \/ month = 7
          \/ month = 8 \/ month = 9 \/ month = 10 \/ month = 11 \/ month = 12
    OBVIOUS
  <2>2. /\ DaysBefore[1] = 0 /\ DaysBefore[2] = 31 /\ DaysBefore[3] = 59 /\ DaysBefore[4] = 90
        /\ DaysBefore[5] = 120 /\ DaysBefore[6] = 151 /\ DaysBefore[7] = 181 /\ DaysBefore[8] = 212
        /\ DaysBefore[9] = 243 /\ DaysBefore[10] = 273 /\ DaysBefore[11] = 304 /\ DaysBefore[12] = 334
    BY DEF DaysBefore
  <2> HIDE DEF month
  <2>3. QED
    BY <2>1, <2>2
<1> DEFINE db == DaysBefore[month]
           day == text.day
           rule == Rule(year - 1)
<1>9. /\ (year - 1) * 365 + rule + (db + 306) + day - 1 - 719468
           = (year - 1970) * 365 + before + db + 0 + day - 1
      /\ year * 365 + (rule + leap) + (db - 59) + day - 1 - 719468
           = (year - 1970) * 365 + before + db + leap + day - 1
      /\ \A some \in 0..1 : (year - 1970) * 365 + before + db + some + day - 1 \in Nat
  <2>1. year \in Int /\ year >= 1970 /\ day \in 1..31
    OBVIOUS
  <2>2. before \in Nat /\ rule \in Int /\ before = rule - 477 /\ db \in 0..334 /\ leap \in 0..1
    BY <1>2, <1>4, <1>7
  <2> HIDE DEF leap, before, year, month, db, day, rule
  <2>3. PICK y \in Int : y = year
    BY <2>1, SMT
  <2>4. PICK d \in 1..31 : d = day
    BY <2>1, SMT
  <2>5. PICK b \in Nat : b = before
    BY <2>2, SMT
  <2>6. PICK r \in Int : r = rule
    BY <2>2, SMT
  <2>7. PICK m \in 0..334 : m = db
    BY <2>2, SMT
  <2>8. PICK l \in 0..1 : l = leap
    BY <2>2, SMT
  <2>9. y >= 1970 /\ b = r - 477
    BY <2>1, <2>2, <2>3, <2>5, <2>6, SMT
  <2>10. /\ (y - 1) * 365 + r + (m + 306) + d - 1 - 719468 = (y - 1970) * 365 + b + m + 0 + d - 1
         /\ y * 365 + (r + l) + (m - 59) + d - 1 - 719468 = (y - 1970) * 365 + b + m + l + d - 1
         /\ \A some \in 0..1 : (y - 1970) * 365 + b + m + some + d - 1 \in Nat
    BY <2>9, SMTT(30)
  <2>11. QED
    BY <2>3, <2>4, <2>5, <2>6, <2>7, <2>8, <2>10, SMT
<1>10. CASE month <= 2
  <2>1. ~(month > 2)
    BY <1>10, SMT
  <2>2. DaysOf(text) = (year - 1970) * 365 + before + DaysBefore[month] + 0 + text.day - 1
    BY <1>5, <2>1, SMT
  <2>3. ((month + 9) * 153 + 2) \div 5 = DaysBefore[month] + 306
    BY <1>8, <1>10, SMT
  <2>4. SysDays(year, month, text.day)
          = (year - 1) * 365 + Rule(year - 1) + (DaysBefore[month] + 306) + text.day - 1 - 719468
    BY <1>6, <1>10, <2>3, SMT
  <2>5. QED
    BY <1>9, <2>2, <2>4, SMT
<1>11. CASE ~(month <= 2)
  <2>1. month > 2
    BY <1>11, SMT
  <2>2. DaysOf(text) = (year - 1970) * 365 + before + DaysBefore[month] + leap + text.day - 1
    BY <1>5, <2>1, SMT DEF leap
  <2>3. ((month - 3) * 153 + 2) \div 5 = DaysBefore[month] - 59
    BY <1>8, <1>11, SMT
  <2>4. SysDays(year, month, text.day)
          = year * 365 + (Rule(year - 1) + leap) + (DaysBefore[month] - 59) + text.day - 1 - 719468
    BY <1>3, <1>6, <1>11, <2>3, SMT
  <2>5. QED
    BY <1>4, <1>9, <2>2, <2>4, SMT
<1>12. QED
  BY <1>10, <1>11

(* What a digit of the fraction is worth, and the sums up to each digit. *)
LEMMA DigitValues ==
  ASSUME NEW n \in Nat
  PROVE  /\ DigitValue(n) \in Nat
         /\ n > NanoDigits => DigitValue(n) = 0
         /\ n <= NanoDigits => DigitValue(n) = Pow10[NanoDigits - n]
<1>1. NanoDigits \in Nat
  BY UnixTimeAssumption
<1>2. CASE n > NanoDigits
  BY <1>1, <1>2 DEF DigitValue
<1>3. CASE ~(n > NanoDigits)
  <2>1. NanoDigits - n \in Nat
    BY <1>1, <1>3
  <2>2. Pow10[NanoDigits - n] \in Nat
    BY <2>1, Powers
  <2>3. QED
    BY <1>3, <2>2 DEF DigitValue
<1>4. QED
  BY <1>2, <1>3

LEMMA FractionRuns ==
  ASSUME NEW digits \in Seq(0..9)
  PROVE  \E sum : /\ sum \in [0..Len(digits) -> Nat] /\ sum[0] = 0
                  /\ \A n \in 1..Len(digits) : sum[n] = sum[n - 1] + digits[n] * DigitValue(n)
                  /\ FractionNanos(digits) = sum[Len(digits)]
<1> DEFINE N == Len(digits)
           P(f) == f = [n \in 0..N |-> IF n = 0 THEN 0 ELSE f[n - 1] + digits[n] * DigitValue(n)]
           s == CHOOSE f : P(f)
           g == [p \in Nat \X (1..N) |-> p[1] + digits[p[2]] * DigitValue(p[2])]
<1>1. FractionNanos(digits) = s[N]
  BY DEF FractionNanos
<1>2. N \in Nat /\ \A n \in 1..N : digits[n] \in 0..9
  BY SeqIs
<1> HIDE DEF N
<1>3. \A x \in Nat, n \in 1..N : g[<<x, n>>] = x + digits[n] * DigitValue(n)
  OBVIOUS
<1> HIDE DEF g
<1>4. \A x \in Nat, n \in 1..N : x + digits[n] * DigitValue(n) \in Nat
  <2> TAKE x \in Nat, n \in 1..N
  <2>1. n \in Nat /\ digits[n] \in Nat
    BY <1>2
  <2>2. DigitValue(n) \in Nat
    BY <2>1, DigitValues
  <2>3. \A a, b \in Nat : x + a * b \in Nat
    OBVIOUS
  <2>4. QED
    BY <2>1, <2>2, <2>3
<1>5. PICK f : Runs(f, 0, g, Nat, N)
  <2>1. Closed(g, Nat, N)
    BY <1>3, <1>4 DEF Closed
  <2>2. 0 \in Nat
    OBVIOUS
  <2>3. QED
    BY <1>2, <2>1, <2>2, Recursion
<1>6. /\ f \in [0..N -> Nat]
      /\ \A n \in 0..N : f[n] = IF n = 0 THEN 0 ELSE g[<<f[n - 1], n>>]
  BY <1>5 DEF Runs
<1>7. \A n \in 0..N : n = 0 \/ (n \in 1..N /\ n - 1 \in 0..N)
  BY <1>2
<1>8. P(f)
  <2>1. \A n \in 0..N : f[n] = IF n = 0 THEN 0 ELSE f[n - 1] + digits[n] * DigitValue(n)
    BY <1>3, <1>6, <1>7
  <2>2. f = [n \in 0..N |-> f[n]]
    BY <1>6
  <2>3. QED
    BY <2>1, <2>2
<1>9. P(s)
  BY <1>8
<1> HIDE DEF s
<1>10. /\ s = [n \in 0..N |-> s[n]] /\ s[0] = 0
       /\ \A n \in 1..N : s[n] = s[n - 1] + digits[n] * DigitValue(n)
  <2>1. \A n \in 0..N : s[n] = IF n = 0 THEN 0 ELSE s[n - 1] + digits[n] * DigitValue(n)
    BY <1>9
  <2>2. 0 \in 0..N /\ \A n \in 1..N : n \in 0..N /\ n # 0
    BY <1>2
  <2>3. QED
    BY <1>9, <2>1, <2>2
<1>11. \A n \in 0..N : s[n] \in Nat
  <2> DEFINE T == {n \in Nat : s[n] \in Nat}
  <2>1. 0 \in T
    BY <1>10
  <2>2. ASSUME NEW n \in 0..(N - 1), n \in T
        PROVE  n + 1 \in T
    <3>1. n + 1 \in 1..N /\ (n + 1) - 1 = n /\ n + 1 \in Nat
      BY <1>2
    <3>2. s[n + 1] = s[n] + digits[n + 1] * DigitValue(n + 1)
      BY <1>10, <3>1
    <3>3. s[n] \in Nat
      BY <2>2
    <3>4. QED
      BY <1>4, <3>1, <3>2, <3>3
  <2> HIDE DEF T
  <2>3. \A n \in 0..N : n \in T
    BY <1>2, <2>1, <2>2, Inductive
  <2>4. QED
    BY <2>3 DEF T
<1>12. s \in [0..N -> Nat]
  BY <1>10, <1>11
<1>13. QED
  BY <1>1, <1>10, <1>12 DEF N

DigitOf(text, n) == IF n <= Len(text.fraction) THEN text.fraction[n] ELSE 0

Seconds(text) == DaysOf(text) * 86400 + text.hour * 3600 + text.minute * 60 + text.second

LEMMA TimeRuns ==
  ASSUME NEW text, text.fraction \in Seq(0..9), Seconds(text) \in Nat
  PROVE  \E time : /\ time \in [0..NanoDigits -> Nat] /\ time[0] = Seconds(text)
                   /\ \A n \in 1..NanoDigits : time[n] = time[n - 1] * 10 + DigitOf(text, n)
                   /\ NanosOf(text) = time[NanoDigits]
<1> DEFINE N == NanoDigits
           digit(n) == IF n <= Len(text.fraction) THEN text.fraction[n] ELSE 0
           P(f) == f = [n \in 0..N |->
                          IF n = 0 THEN DaysOf(text) * 86400 + text.hour * 3600
                                          + text.minute * 60 + text.second
                          ELSE f[n - 1] * 10 + digit(n)]
           s == CHOOSE f : P(f)
           g == [p \in Nat \X (1..N) |-> p[1] * 10 + DigitOf(text, p[2])]
<1>1. NanosOf(text) = s[N]
  BY SMT DEF NanosOf
<1>2. N \in Nat
  BY UnixTimeAssumption
<1>3. \A n \in 1..N : DigitOf(text, n) \in Nat /\ DigitOf(text, n) = digit(n)
  <2> TAKE n \in 1..N
  <2>1. DigitOf(text, n) = digit(n)
    BY DEF DigitOf
  <2>2. CASE n <= Len(text.fraction)
    <3>1. n \in 1..Len(text.fraction)
      BY <1>2, <2>2
    <3>2. text.fraction[n] \in 0..9
      BY <3>1, SeqIs
    <3>3. QED
      BY <2>1, <2>2, <3>2
  <2>3. CASE ~(n <= Len(text.fraction))
    BY <2>1, <2>3
  <2>4. QED
    BY <2>2, <2>3
<1> HIDE DEF N
<1>4. \A x \in Nat, n \in 1..N : g[<<x, n>>] = x * 10 + DigitOf(text, n)
  OBVIOUS
<1> HIDE DEF g, digit
<1>5. \A x \in Nat, n \in 1..N : x * 10 + DigitOf(text, n) \in Nat
  BY <1>3
<1>6. PICK f : Runs(f, Seconds(text), g, Nat, N)
  <2>1. Closed(g, Nat, N)
    BY <1>4, <1>5 DEF Closed
  <2>2. QED
    BY <1>2, <2>1, Recursion
<1>7. /\ f \in [0..N -> Nat]
      /\ \A n \in 0..N : f[n] = IF n = 0 THEN Seconds(text) ELSE g[<<f[n - 1], n>>]
  BY <1>6 DEF Runs
<1>8. \A n \in 0..N : n = 0 \/ (n \in 1..N /\ n - 1 \in 0..N)
  BY <1>2
<1> DEFINE Q(h) == h = [n \in 0..N |-> IF n = 0 THEN Seconds(text) ELSE h[n - 1] * 10 + digit(n)]
<1>9. \A h : P(h) <=> Q(h)
  BY SMT DEF Seconds
<1>10. Q(f)
  <2>1. \A n \in 0..N : f[n] = IF n = 0 THEN Seconds(text) ELSE f[n - 1] * 10 + digit(n)
    BY <1>3, <1>4, <1>7, <1>8
  <2>2. f = [n \in 0..N |-> f[n]]
    BY <1>7
  <2>3. QED
    BY <2>1, <2>2
<1>11. Q(s)
  <2> HIDE DEF Q
  <2>1. P(f)
    BY <1>9, <1>10
  <2> HIDE DEF P
  <2>2. P(s)
    BY <2>1
  <2>3. QED
    BY <1>9, <2>2
<1> HIDE DEF s, P
<1>12. /\ s = [n \in 0..N |-> s[n]] /\ s[0] = Seconds(text)
       /\ \A n \in 1..N : s[n] = s[n - 1] * 10 + DigitOf(text, n)
  <2>1. \A n \in 0..N : s[n] = IF n = 0 THEN Seconds(text) ELSE s[n - 1] * 10 + digit(n)
    BY <1>11
  <2>2. 0 \in 0..N /\ \A n \in 1..N : n \in 0..N /\ n # 0
    BY <1>2
  <2>3. QED
    BY <1>3, <1>11, <2>1, <2>2
<1>13. \A n \in 0..N : s[n] \in Nat
  <2> DEFINE T == {n \in Nat : s[n] \in Nat}
  <2>1. 0 \in T
    BY <1>12
  <2>2. ASSUME NEW n \in 0..(N - 1), n \in T
        PROVE  n + 1 \in T
    <3>1. n + 1 \in 1..N /\ (n + 1) - 1 = n /\ n + 1 \in Nat
      BY <1>2
    <3>2. s[n + 1] = s[n] * 10 + DigitOf(text, n + 1)
      BY <1>12, <3>1
    <3>3. s[n] \in Nat
      BY <2>2
    <3>4. QED
      BY <1>5, <3>1, <3>2, <3>3
  <2> HIDE DEF T
  <2>3. \A n \in 0..N : n \in T
    BY <1>2, <2>1, <2>2, Inductive
  <2>4. QED
    BY <2>3 DEF T
<1>14. s \in [0..N -> Nat]
  BY <1>12, <1>13
<1>15. QED
  BY <1>1, <1>12, <1>14 DEF N

LEMMA Shifted ==
  ASSUME NEW t \in Nat, NEW d \in Nat, NEW w \in Nat
  PROVE  (t * 10 + d) * w = t * (w * 10) + d * w
OBVIOUS

(* The time counted digit by digit is the seconds' and the fraction's. *)
LEMMA FractionAgrees ==
  ASSUME NEW text, text.fraction \in Seq(0..9), Seconds(text) \in Nat
  PROVE  Seconds(text) * Pow10[NanoDigits] + FractionNanos(text.fraction) = NanosOf(text)
<1> DEFINE N == NanoDigits
           digits == text.fraction
           L == Len(digits)
           D == Seconds(text)
           upto(n) == IF n <= L THEN n ELSE L
<1>1. N \in Nat /\ L \in Nat /\ D \in Nat /\ \A n \in 1..L : digits[n] \in 0..9
  BY UnixTimeAssumption, SeqIs
<1>2. PICK sum : /\ sum \in [0..L -> Nat] /\ sum[0] = 0
                 /\ \A n \in 1..L : sum[n] = sum[n - 1] + digits[n] * DigitValue(n)
                 /\ FractionNanos(digits) = sum[L]
  BY FractionRuns
<1>3. PICK time : /\ time \in [0..N -> Nat] /\ time[0] = D
                  /\ \A n \in 1..N : time[n] = time[n - 1] * 10 + DigitOf(text, n)
                  /\ NanosOf(text) = time[N]
  BY TimeRuns
<1>4. \A n \in Nat : DigitOf(text, n) = IF n <= L THEN digits[n] ELSE 0
  BY DEF DigitOf
<1>5. \A n \in Nat : upto(n) \in 0..L /\ sum[upto(n)] \in Nat
  BY <1>1, <1>2
<1> HIDE DEF N, digits, L, D
<1> DEFINE T == {n \in Nat : n <= N => time[n] * Pow10[N - n] = D * Pow10[N] + sum[upto(n)]}
<1>6. 0 \in T
  <2>1. N - 0 = N /\ Pow10[N] \in Nat /\ upto(0) = 0
    <3>1. Pow10[N] \in Nat
      BY <1>1, Powers
    <3>2. N - 0 = N /\ 0 <= L
      BY <1>1
    <3>3. QED
      BY <3>1, <3>2
  <2>2. time[0] * Pow10[N - 0] = D * Pow10[N] + sum[upto(0)]
    BY <1>1, <1>2, <1>3, <2>1
  <2>3. QED
    BY <2>2
<1>7. ASSUME NEW n \in 0..(N - 1), n \in T
      PROVE  n + 1 \in T
  <2> DEFINE w == Pow10[N - (n + 1)]
             d == DigitOf(text, n + 1)
  <2>1. /\ n \in Nat /\ n + 1 \in 1..N /\ (n + 1) - 1 = n /\ n \in 0..N /\ n <= N
        /\ N - (n + 1) \in Nat /\ (N - (n + 1)) + 1 = N - n /\ n + 1 \in Nat /\ n + 1 <= N
    BY <1>1
  <2>2. w \in Nat /\ Pow10[N - n] = w * 10 /\ Pow10[N] \in Nat
    BY <1>1, <2>1, Powers
  <2>3. d \in Nat
    <3>1. CASE n + 1 <= L
      <4>1. n + 1 \in 1..L
        BY <1>1, <2>1, <3>1
      <4>2. QED
        BY <1>1, <1>4, <2>1, <3>1, <4>1
    <3>2. CASE ~(n + 1 <= L)
      BY <1>4, <2>1, <3>2
    <3>3. QED
      BY <3>1, <3>2
  <2>4. time[n + 1] = time[n] * 10 + d /\ time[n] \in Nat
    BY <1>3, <2>1
  <2>5. time[n] * (w * 10) = D * Pow10[N] + sum[upto(n)]
    BY <1>7, <2>1, <2>2
  <2>6. sum[upto(n + 1)] = sum[upto(n)] + d * w
    <3>1. CASE n + 1 <= L
      <4>1. upto(n + 1) = n + 1 /\ upto(n) = n /\ n + 1 \in 1..L
        BY <1>1, <2>1, <3>1
      <4>2. sum[n + 1] = sum[n] + digits[n + 1] * DigitValue(n + 1)
        BY <1>2, <2>1, <4>1
      <4>3. DigitValue(n + 1) = w /\ d = digits[n + 1]
        <5>1. DigitValue(n + 1) = Pow10[NanoDigits - (n + 1)]
          BY <2>1, DigitValues DEF N
        <5>2. d = digits[n + 1]
          BY <1>4, <2>1, <3>1
        <5>3. QED
          BY <5>1, <5>2 DEF N
      <4> HIDE DEF w, d, upto
      <4>4. QED
        BY <4>1, <4>2, <4>3
    <3>2. CASE ~(n + 1 <= L)
      <4>1. upto(n + 1) = L /\ upto(n) = L
        BY <1>1, <2>1, <3>2
      <4>2. d = 0
        BY <1>4, <2>1, <3>2
      <4>3. sum[L] \in Nat
        BY <1>1, <1>2
      <4> HIDE DEF w, d, upto
      <4>4. d * w = 0
        BY <2>2, <4>2
      <4>5. QED
        BY <4>1, <4>3, <4>4
    <3>3. QED
      BY <3>1, <3>2
  <2>7. sum[upto(n)] \in Nat
    BY <1>5, <2>1
  <2> HIDE DEF w, d, upto
  <2>8. time[n + 1] * w = time[n] * (w * 10) + d * w
    BY <2>2, <2>3, <2>4, Shifted
  <2>9. D * Pow10[N] \in Nat /\ d * w \in Nat
    BY <1>1, <2>2, <2>3
  <2>10. time[n + 1] * w = D * Pow10[N] + sum[upto(n + 1)]
    BY <2>5, <2>6, <2>7, <2>8, <2>9
  <2>11. QED
    BY <2>1, <2>10 DEF w
<1> HIDE DEF T
<1>8. \A n \in 0..N : n \in T
  BY <1>1, <1>6, <1>7, Inductive
<1>9. time[N] = D * Pow10[N] + sum[upto(N)]
  <2>1. N \in 0..N /\ N - N = 0 /\ Pow10[0] = 1 /\ N <= N
    BY <1>1, Powers
  <2>2. time[N] * Pow10[N - N] = D * Pow10[N] + sum[upto(N)]
    BY <1>8, <2>1 DEF T
  <2>3. time[N] \in Nat
    BY <1>3, <2>1
  <2> HIDE DEF upto
  <2>4. QED
    BY <2>1, <2>2, <2>3
<1>10. sum[L] = sum[upto(N)]
  <2>1. CASE L <= N
    <3>1. upto(N) = L
      BY <1>1, <2>1
    <3>2. QED
      BY <3>1
  <2>2. CASE ~(L <= N)
    <3> DEFINE S == {k \in Nat : k >= N => sum[k] = sum[N]}
    <3>1. 0 \in S
      <4>1. 0 >= N => N = 0
        BY <1>1
      <4>2. QED
        BY <4>1
    <3>2. ASSUME NEW k \in 0..(L - 1), k \in S
          PROVE  k + 1 \in S
      <4>1. k + 1 \in 1..L /\ (k + 1) - 1 = k /\ k + 1 \in Nat /\ k \in 0..L
        BY <1>1
      <4>2. CASE k + 1 <= N
        <5>1. k + 1 >= N => k + 1 = N
          BY <1>1, <4>1, <4>2
        <5>2. QED
          BY <4>1, <5>1
      <4>3. CASE ~(k + 1 <= N)
        <5>1. k >= N /\ k + 1 > N
          BY <1>1, <4>1, <4>3
        <5>2. DigitValue(k + 1) = 0
          BY <4>1, <5>1, DigitValues DEF N
        <5>3. digits[k + 1] \in Nat /\ sum[k] \in Nat
          <6>1. digits[k + 1] \in 0..9
            BY <1>1, <4>1
          <6>2. sum[k] \in Nat
            BY <1>2, <4>1
          <6>3. QED
            BY <6>1, <6>2
        <5>4. sum[k + 1] = sum[k] + digits[k + 1] * 0
          BY <1>2, <4>1, <5>2
        <5>5. sum[k + 1] = sum[k]
          BY <5>3, <5>4
        <5>6. QED
          BY <3>2, <4>1, <5>1, <5>5
      <4>4. QED
        BY <4>2, <4>3
    <3> HIDE DEF S
    <3>3. \A k \in 0..L : k \in S
      BY <1>1, <3>1, <3>2, Inductive
    <3>4. L \in 0..L /\ L >= N /\ upto(N) = N
      BY <1>1, <2>2
    <3>5. QED
      BY <3>3, <3>4 DEF S
  <2>3. QED
    BY <2>1, <2>2
<1>11. QED
  BY <1>2, <1>3, <1>9, <1>10 DEF D, N, digits

LEMMA TimesAgree ==
  ASSUME NEW text \in Times, text.isIso
  PROVE  ParseIso8601ToUnixNanos(text) = {NanosOf(text)}
<1>1. /\ text.year \in 1970..2261 /\ text.month \in 1..12 /\ text.day \in 1..31
      /\ text.fraction \in Seq(0..9)
  BY KrakenAssumption, SMT
<1>2. text.hour \in 0..23 /\ text.minute \in 0..59 /\ text.second \in 0..59
  BY KrakenAssumption, SMT
<1>3. /\ SysDays(text.year, text.month, text.day) = DaysOf(text)
      /\ DaysOf(text) \in Nat
  BY <1>1, DaysAgree, SMT
<1>4. Seconds(text) \in Nat
  <2>1. /\ DaysOf(text) * 86400 \in Nat /\ text.hour * 3600 \in Nat
        /\ text.minute * 60 \in Nat /\ text.second \in Nat
    <3>1. text.hour \in Nat /\ text.minute \in Nat /\ text.second \in Nat
      BY <1>2, SMT
    <3>2. \A n \in Nat : n * 86400 \in Nat /\ n * 3600 \in Nat /\ n * 60 \in Nat
      BY SMT
    <3>3. QED
      BY <1>3, <3>1, <3>2, SMT
  <2>2. QED
    BY <2>1, SMT DEF Seconds
<1>5. ParseIso8601ToUnixNanos(text)
        = {Seconds(text) * Pow10[NanoDigits] + FractionNanos(text.fraction)}
  BY <1>3, SMT DEF ParseIso8601ToUnixNanos, Seconds
<1>6. text.fraction \in Seq(0..9)
  BY <1>1, SMT
<1>7. QED
  BY <1>4, <1>5, <1>6, FractionAgrees

LEMMA TimeRead ==
  ASSUME NEW said, NEW form, form.time \in Times,
         Outcome(Document(said, form)) = "emits", NEW capture
  PROVE  MessageOf(Document(said, form), capture).venueTime
           \in {0} \cup IF form.time.isIso THEN {NanosOf(form.time)} ELSE {}
<1> DEFINE document == Document(said, form)
           parts == DataJson(said, form)
           data == JsonObject(Without(parts, form.layout))
           text == form.time
           nanos == ParseIso8601ToUnixNanos(text)
<1>1. BookData(document) = data /\ ~FieldsThrow(data)
  BY DataFound, Zenon
<1>2. "timestamp" \in DOMAIN parts /\ parts["timestamp"] = JsonString(text)
  BY DEF DataJson
<1> HIDE DEF parts
<1>3. FindJsonMember(data, "timestamp") \in {Missing, JsonString(text)}
  <2>1. ~FindJsonStringThrows(data, "timestamp")
    BY <1>1, Zenon DEF FieldsThrow
  <2>2. QED
    BY <1>2, <2>1, TextFound, Zenon
<1>4. MessageOf(document, capture).venueTime = ParseVenueTime(data)
  BY <1>1 DEF MessageOf
<1>5. IF text.isIso THEN nanos = {NanosOf(text)} ELSE nanos = {}
  <2>1. CASE text.isIso
    BY <2>1, TimesAgree, Zenon
  <2>2. CASE ~text.isIso
    BY <2>2, SMT DEF ParseIso8601ToUnixNanos
  <2>3. QED
    BY <2>1, <2>2, Zenon
<1> HIDE DEF document, data, nanos, text
<1>6. CASE FindJsonMember(data, "timestamp") = Missing
  <2>1. ParseVenueTime(data) = 0
    BY <1>6 DEF ParseVenueTime
  <2>2. QED
    BY <1>4, <2>1, Zenon DEF document
<1>7. CASE FindJsonMember(data, "timestamp") = JsonString(text) /\ JsonString(text) # Missing
  <2>1. JsonString(text).text = text
    BY DEF JsonString
  <2>2. ParseVenueTime(data) = IF nanos = {} THEN 0 ELSE CHOOSE n \in nanos : TRUE
    <3> DEFINE found == FindJsonMember(data, "timestamp")
               read == IF found = Missing THEN {} ELSE ParseIso8601ToUnixNanos(found.text)
    <3>1. ParseVenueTime(data) = IF read = {} THEN 0 ELSE CHOOSE n \in read : TRUE
      BY Zenon DEF ParseVenueTime
    <3>2. found # Missing /\ found.text = text
      BY <1>7, <2>1, Zenon
    <3> HIDE DEF found
    <3>3. read = nanos
      BY <3>2, Zenon DEF nanos
    <3> HIDE DEF read
    <3>4. QED
      BY <3>1, <3>3, Zenon
  <2>3. CASE text.isIso
    <3>1. nanos = {NanosOf(text)}
      BY <1>5, <2>3, Zenon
    <3>2. ParseVenueTime(data) \in nanos
      BY <2>2, <3>1
    <3>3. ParseVenueTime(data) = NanosOf(text)
      BY <3>1, <3>2
    <3>4. QED
      BY <1>4, <2>3, <3>3, Zenon DEF document, text
  <2>4. CASE ~text.isIso
    <3>1. nanos = {}
      BY <1>5, <2>4, Zenon
    <3>2. ParseVenueTime(data) = 0
      BY <2>2, <3>1, Zenon
    <3>3. QED
      BY <1>4, <3>2, Zenon DEF document
  <2>5. QED
    BY <2>3, <2>4, Zenon
<1>8. QED
  BY <1>3, <1>6, <1>7, Zenon

(* A message says what Kraken did, in whatever form its frame came: the    *)
(* side, price and quantity of every level at the pair's decimals, and the *)
(* checksum and the time to the nanosecond, unless the frame has none.     *)
THEOREM MessagesAreMeant == DecodersSpec => []DecodedAsMeant
<1>1. BooksAgree => DecodedAsMeant
  <2>1. SUFFICES ASSUME BooksAgree, NEW move \in Moves, NEW form \in Forms,
                        Outcome(Document(Said(move), form)) = "emits"
                 PROVE  LET message == MessageOf(Document(Said(move), form), 0)
                        IN /\ message.type = Said(move).type
                           /\ message.buys = Said(move).buys /\ message.sells = Said(move).sells
                           /\ message.checksum \in {{}, Said(move).checksum}
                           /\ message.venueTime
                                \in {0} \cup IF form.time.isIso THEN {NanosOf(form.time)} ELSE {}
    BY Zenon DEF DecodedAsMeant, SaysTheSame
  <2>2. IsBook(venue)
    BY <2>1 DEF BooksAgree
  <2>3. /\ IsLevels(Said(move).buys) /\ IsLevels(Said(move).sells)
        /\ Said(move).type \in {"snapshot", "update"}
    <3>1. \A s \in Sides : IsLevels(Said(move)[s])
      BY <2>2, SaidIs
    <3>2. Said(move).type = move.type
      BY <2>2, SaidIs
    <3>3. move.type \in {"snapshot", "update"}
      BY DEF Moves
    <3>4. QED
      BY <3>1, <3>2, <3>3 DEF Sides
  <2>4. form.zeros \in BOOLEAN /\ form.time \in Times
    <3>1. (CHOOSE t \in Times : t.isIso) \in Times
      <4>1. \E t \in Times : t.isIso
        BY KrakenAssumption, Zenon
      <4>2. QED
        BY <4>1, Zenon
    <3> DEFINE iso == CHOOSE t \in Times : t.isIso
    <3>2. Forms = [layout : {<<"whole">>}, zeros : BOOLEAN, time : Times]
                    \cup [layout : Layouts, zeros : {FALSE}, time : {iso}]
      BY Zenon DEF Forms
    <3> HIDE DEF iso
    <3>3. QED
      BY <3>1, <3>2 DEF iso
  <2> DEFINE said == Said(move)
  <2> HIDE DEF said
  <2>5. LET message == MessageOf(Document(said, form), 0)
        IN /\ message.type = said.type /\ message.buys = said.buys /\ message.sells = said.sells
           /\ message.checksum \in {{}, said.checksum}
    BY <2>1, <2>3, <2>4, Decoded DEF said
  <2>6. MessageOf(Document(said, form), 0).venueTime
          \in {0} \cup IF form.time.isIso THEN {NanosOf(form.time)} ELSE {}
    BY <2>1, <2>4, TimeRead, Zenon DEF said
  <2>7. QED
    BY <2>5, <2>6, Zenon DEF said
<1>2. QED
  BY <1>1, BooksAgreeAlways, PTL

=============================================================================
