-------------------------------- MODULE Book --------------------------------
(***************************************************************************)
(* l2/book.{h,cc} and l2/message.{h,cc}: a pair's book as its messages     *)
(* leave it, and the records a recording keeps of them.  A side of a book  *)
(* is a function from its prices to their quantities; a side of a message  *)
(* is the sequence of the levels it sets or, at quantity 0, removes.       *)
(***************************************************************************)
EXTENDS Integers, FiniteSets, Sequences

Sides == {"buys", "sells"}

EmptyBook == [s \in Sides |-> << >>]

Better(side, p, q) == IF side = "buys" THEN p > q ELSE p < q

Ahead(side, p, prices) == {q \in prices : Better(side, q, p)}

(* What is left of a side with these prices: its first `depth`, or all of  *)
(* it if the book has no depth (kFullDepth).                               *)
KeepAll(side, prices, depth) == prices        \* mutant: nothing is dropped

Kept(side, prices, depth) ==
  {p \in prices : depth = 0 \/ Cardinality(Ahead(side, p, prices)) < depth}

(* ApplyLevels(), one level after the other, so that of those of a price   *)
(* the last one counts, then down to the depth.                            *)
LastOf(levels, p) ==
  CHOOSE i \in DOMAIN levels :
    /\ levels[i].price = p
    /\ \A j \in DOMAIN levels : levels[j].price = p => j <= i

ApplyLevels(side, levels, depth, old) ==
  LET named == {levels[i].price : i \in DOMAIN levels}
      quantity(p) == levels[LastOf(levels, p)].quantity
      set == {p \in named : quantity(p) # 0}
  IN [p \in Kept(side, (DOMAIN old \ named) \cup set, depth) |->
        IF p \in named THEN quantity(p) ELSE old[p]]

(* Apply(): a snapshot clears the book first. *)
Cleared(book, message) == IF message.type = "snapshot" THEN EmptyBook ELSE book

Apply(book, depth, message) ==
  [s \in Sides |-> ApplyLevels(s, message[s], depth, Cleared(book, message)[s])]

(* A side's prices, the best first. *)
InOrder(side, prices) ==
  [i \in 1..Cardinality(prices) |->
     CHOOSE p \in prices : Cardinality(Ahead(side, p, prices)) = i - 1]

(* bids() and asks(): a side's levels, the best first. *)
LevelsOf(side, levels) ==
  LET prices == InOrder(side, DOMAIN levels)
  IN [i \in 1..Len(prices) |-> [price |-> prices[i], quantity |-> levels[prices[i]]]]

-----------------------------------------------------------------------------
(* Message::Serialize(): the fields, then each side's size in bytes and    *)
(* its levels.  A record is a sequence of its values.                      *)
LevelSize == 16

LevelValues(levels) ==
  [v \in 1..(2 * Len(levels)) |->
     IF v % 2 = 1 THEN levels[(v + 1) \div 2].price ELSE levels[v \div 2].quantity]

CountFirst(levels) == <<Len(levels)>> \o LevelValues(levels)   \* mutant: levels, not bytes

WriteSide(levels) == <<Len(levels) * LevelSize>> \o LevelValues(levels)

GetByteSize(message) == 24 + 16 + (Len(message.buys) + Len(message.sells)) * LevelSize

Serialize(message) ==
  [prefix |-> <<message.type, message.checksum, message.venueTime, message.captureTime>>,
   bytes |-> GetByteSize(message),
   sides |-> WriteSide(message.buys) \o WriteSide(message.sells)]

(* FileHeader: what a reader knows besides the records. *)
TextSize == 16

ToFixedText(text) == SubSeq(text, 1, IF Len(text) < TextSize THEN Len(text) ELSE TextSize)

MakeFileHeader(venue, symbol, depth, precision, startTime) ==
  [depth |-> depth, priceDecimals |-> precision.price, qtyDecimals |-> precision.qty,
   startTime |-> startTime, venue |-> ToFixedText(venue), symbol |-> ToFixedText(symbol)]
=============================================================================
