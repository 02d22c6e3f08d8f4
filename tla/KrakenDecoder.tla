--------------------------- MODULE KrakenDecoder ----------------------------
(***************************************************************************)
(* kraken/l2_decoder.{h,cc} and kraken/checksum.{h,cc}: from the text of a *)
(* book frame to a message, the book it leaves, the checksum Kraken sent   *)
(* with it, the record a reader of the recording rebuilds the book from,   *)
(* and the Book a client does.                                             *)
(*                                                                         *)
(* Kraken (external) keeps the whole book in ticks.  At a depth it sends   *)
(* the levels of its top that changed or moved in and the removal of those *)
(* that are gone, but not of those pushed out (book.h:28).  It writes a    *)
(* number with any number of trailing zeros, and a frame may come with a   *)
(* layout the decoder does not expect.  Frames are decoded as they come:   *)
(* what is lost or late is L2Manager's.                                    *)
(***************************************************************************)
EXTENDS Wire, SequencesExt, Json, Decimal, Crc32, UnixTime

CONSTANTS Prices,         \* The prices of a level, in ticks.
          Quantities,     \* The quantities of a level, in lots; none is 0.
          Depths,         \* The depths of a book; 0 is kFullDepth.
          ChecksumDepth,  \* kChecksumDepth: 10.
          Decimals,       \* The pair's PairPrecision.
          Times           \* The times Kraken's clock shows, as texts.

ASSUME KrakenAssumption ==
  /\ Prices \subseteq 0..MaxInt /\ Quantities \subseteq 1..MaxInt
  /\ Depths \subseteq Nat /\ ChecksumDepth \in Nat \ {0}
  /\ Decimals.price \in Nat /\ Decimals.qty \in Nat
  /\ \E time \in Times : time.isIso
  /\ \A time \in Times : time.isIso =>
       /\ time.year \in 1970..2261 /\ time.month \in 1..12 /\ time.day \in 1..31
       /\ time.hour \in 0..23 /\ time.minute \in 0..59 /\ time.second \in 0..59
       /\ time.fraction \in Seq(0..9)

VARIABLES
  depth,     \* The book's depth_.
  venue,     \* External: every level of Kraken's book.
  book,      \* The L2Parser's book of the pair.
  checksum,  \* The last message's, as the set of its bits; {} for none.
  header,    \* The recording's FileHeader.
  replay,    \* The book a reader has, of the header and the records alone.
  info,      \* The StreamInfo a client got.
  streamed,  \* The book a client has, of the Books it was sent.
  threw      \* Whether Decode() threw.

krakenVars == <<depth, venue, book, checksum, header, replay, info, streamed, threw>>

Symbol == <<"BTC/USD">>

KrakenInit ==
  /\ depth \in Depths
  /\ venue = EmptyBook /\ book = EmptyBook /\ replay = EmptyBook /\ streamed = EmptyBook
  /\ checksum = {} /\ threw = FALSE
  /\ header = MakeFileHeader(<<"kraken">>, Symbol, depth, Decimals, 0)
  /\ info = MakeStreamInfo(Symbol, <<"kraken">>, depth, Decimals)

-----------------------------------------------------------------------------
(* Kraken: its book, and the text of its frames. *)

TopOf(side, levels) ==
  LET among(p) == Cardinality(Ahead(side, p, DOMAIN levels)) < depth
  IN [p \in {p \in DOMAIN levels : depth = 0 \/ among(p)} |-> levels[p]]

ToldOf(side, old, new) ==
  LET was == TopOf(side, old)
      is == TopOf(side, new)
      set == {p \in DOMAIN is : p \notin DOMAIN was \/ was[p] # is[p]}
      removed == DOMAIN was \ DOMAIN new
  IN LevelsOf(side, [p \in set \cup removed |-> IF p \in set THEN is[p] ELSE 0])

(* The last digits of a number, and all of it. *)
DigitsAt(n, places) == [i \in 1..places |-> (n \div Pow10[places - i]) % 10]

DigitsOf(n) ==
  DigitsAt(n, CHOOSE k \in 1..(n + 1) : n < Pow10[k] /\ (k = 1 \/ n >= Pow10[k - 1]))

Characters(digits) == [i \in 1..Len(digits) |-> Digits[digits[i] + 1]]

(* A number of ticks as a decimal text, with a zero to spare or none. *)
NumberText(n, decimals, zeros) ==
  LET fraction == Characters(DigitsAt(n % Pow10[decimals], decimals))
                    \o (IF zeros THEN <<"0">> ELSE <<>>)
      used == IF zeros THEN Len(fraction) ELSE FractionDigits(<<".">> \o fraction)
  IN Characters(DigitsOf(n \div Pow10[decimals]))
       \o (IF used = 0 THEN <<>> ELSE <<".">> \o SubSeq(fraction, 1, used))

(* CRC-32 as its standard has it, bit by bit, over the digits of the first *)
(* levels without dots and leading zeros, asks first.  Its text is the set *)
(* of its bits: TLC has no 32-bit numbers.                                 *)
CrcBit(crc, bit) ==
  LET rest == {b - 1 : b \in crc \ {0}}
  IN IF (0 \in crc) = bit THEN rest ELSE (rest \ Polynomial) \cup (Polynomial \ rest)

CrcOf(bytes) ==
  LET bit(n) == (bytes[(n - 1) \div 8 + 1] \div Weights[((n - 1) % 8) + 1]) % 2 = 1
      crc[n \in 0..(8 * Len(bytes))] == IF n = 0 THEN 0..31 ELSE CrcBit(crc[n - 1], bit(n))
  IN (0..31) \ crc[8 * Len(bytes)]

SideDigits(side, levels) ==
  FlattenSeq([i \in 1..(IF Len(levels) < ChecksumDepth THEN Len(levels) ELSE ChecksumDepth) |->
                DigitsOf(levels[i].price) \o DigitsOf(levels[i].quantity)])

ChecksumOf(levels) ==
  LET digits == SideDigits("sells", LevelsOf("sells", levels.sells))
                  \o SideDigits("buys", LevelsOf("buys", levels.buys))
  IN CrcOf([i \in 1..Len(digits) |-> 48 + digits[i]])

LevelJson(level, zeros) ==
  JsonObject([price |-> JsonString(NumberText(level.price, Decimals.price, zeros)),
              qty |-> JsonString(NumberText(level.quantity, Decimals.qty, zeros))])

SideJson(levels, zeros) == JsonArray([i \in 1..Len(levels) |-> LevelJson(levels[i], zeros)])

DataJson(said, form) ==
  [symbol |-> JsonString(Symbol), checksum |-> JsonString(said.checksum),
   timestamp |-> JsonString(form.time),
   bids |-> SideJson(said.buys, form.zeros), asks |-> SideJson(said.sells, form.zeros)]

(* A frame's form: with zeros to spare or none, its time, and its layout,  *)
(* which is as it should be or odd in one way, as without a member or with *)
(* an object in its place.                                                 *)
Members == {"channel", "type", "data", "symbol", "checksum", "timestamp", "bids", "asks"}

Layouts == {<<"not JSON">>, <<"other channel">>, <<"no data">>,
            <<"empty data">>, <<"bare level">>, <<"other symbol">>}
             \cup {<<"without", m>> : m \in Members} \cup {<<"mistyped", m>> : m \in Members}

Forms == [layout : {<<"whole">>}, zeros : BOOLEAN, time : Times]
           \cup [layout : Layouts, zeros : {FALSE}, time : {CHOOSE t \in Times : t.isIso}]

Without(members, layout) ==
  [m \in DOMAIN members \ {x \in Members : layout = <<"without", x>>} |->
     IF layout = <<"mistyped", m>> THEN JsonObject(<<>>) ELSE members[m]]

Document(said, form) ==
  LET layout == form.layout
      data == Without(DataJson(said, form), layout)
      named == CASE layout = <<"other symbol">> ->
                      [data EXCEPT !.symbol = Word("ETH/USD")]
                 [] layout = <<"bare level">> ->
                      [data EXCEPT !.asks = JsonArray(<<JsonObject(<<>>)>>)]
                 [] OTHER -> data
      entries == CASE layout = <<"empty data">> -> <<>>
                   [] layout = <<"no data">> -> <<JsonNull>>
                   [] OTHER -> <<JsonObject(named)>>
  IN IF layout = <<"not JSON">> THEN JsonNull
     ELSE JsonObject(Without(
            [channel |-> Word(IF layout = <<"other channel">> THEN "status" ELSE "book"),
             type |-> Word(said.type), data |-> JsonArray(entries)], layout))

-----------------------------------------------------------------------------
(* Decode(). *)

Ignored(document) == FindJsonMember(document, "channel") # Word("book")

DataThrows(document) ==
  \/ RequireThrows(document, "data", "array")
  \/ LET data == FindJsonMember(document, "data").values
     IN data = <<>> \/ data[1].kind # "object"

BookData(document) == FindJsonMember(document, "data").values[1]

(* What Output::Find() has to be asked with. *)
NamingThrows(document) ==
  \/ DataThrows(document)
  \/ RequireThrows(BookData(document), "symbol", "string")
  \/ RequireThrows(document, "type", "string")

ParseScaled(level, name, decimals) ==
  ScaleDecimalStringToI64(RequireJsonString(level, name), decimals)

ParseSideThrows(data, name) ==
  \/ RequireThrows(data, name, "array")
  \/ \E i \in DOMAIN FindJsonMember(data, name).values :
       LET level == FindJsonMember(data, name).values[i]
       IN RequireThrows(level, "price", "string") \/ RequireThrows(level, "qty", "string")

ParseSide(data, name) ==
  LET levels == FindJsonMember(data, name).values
  IN [i \in 1..Len(levels) |->
        [price |-> ParseScaled(levels[i], "price", Decimals.price),
         quantity |-> ParseScaled(levels[i], "qty", Decimals.qty)]]

ParseChecksum(data) ==
  IF FindJsonMember(data, "checksum") = Missing THEN {} ELSE RequireJsonString(data, "checksum")

ParseVenueTime(data) ==
  LET time == FindJsonMember(data, "timestamp")
      nanos == IF time = Missing THEN {} ELSE ParseIso8601ToUnixNanos(time.text)
  IN IF nanos = {} THEN 0 ELSE CHOOSE n \in nanos : TRUE

FieldsThrow(data) ==
  \/ FindJsonStringThrows(data, "checksum") \/ FindJsonStringThrows(data, "timestamp")
  \/ ParseSideThrows(data, "bids") \/ ParseSideThrows(data, "asks")

MessageOf(document, captureTime) ==
  LET data == BookData(document)
  IN [type |-> IF RequireJsonString(document, "type") = <<"snapshot">> THEN "snapshot" ELSE "update",
      checksum |-> ParseChecksum(data), venueTime |-> ParseVenueTime(data),
      captureTime |-> captureTime,
      buys |-> ParseSide(data, "bids"), sells |-> ParseSide(data, "asks")]

(* BookChecksum(). *)
AppendSide(side, levels) ==
  LET prices == InOrder(side, DOMAIN levels)
      first == SubSeq(prices, 1, IF Len(prices) < ChecksumDepth THEN Len(prices) ELSE ChecksumDepth)
  IN FlattenSeq([i \in 1..Len(first) |-> DigitsOf(first[i]) \o DigitsOf(levels[first[i]])])

BidsFirst(b) ==                               \* mutant: the sides the other way round
  AppendSide("buys", b.buys) \o AppendSide("sells", b.sells)

ChecksumText(b) == AppendSide("sells", b.sells) \o AppendSide("buys", b.buys)

BookChecksum(b) ==
  LET text == ChecksumText(b) IN Crc32Of([i \in 1..Len(text) |-> 48 + text[i]])

-----------------------------------------------------------------------------
(* External: a reader of the recording takes a record's sides apart by     *)
(* their sizes (message.h:27), and applies it at the header's depth.       *)
ReadSide(values, at) ==
  [i \in 1..(values[at] \div LevelSize) |->
     [price |-> values[at + 2 * i - 1], quantity |-> values[at + 2 * i]]]

ReadRecord(record) ==
  LET buys == ReadSide(record.sides, 1)
  IN [type |-> record.prefix[1], buys |-> buys,
      sells |-> ReadSide(record.sides, 2 * Len(buys) + 2)]

(* Emit(): the parser's book, which is also the Stream's, a recording and a *)
(* client.                                                                 *)
Emit(message) ==
  /\ checksum' = message.checksum
  /\ book' = Apply(book, depth, message)
  /\ replay' = Apply(replay, header.depth, ReadRecord(Serialize(message)))
  /\ streamed' = ClientApply(streamed, info, MakeBook(message))

(* What Decode() does with a frame: a pair nobody asked for is not looked  *)
(* into any further.                                                       *)
Outcome(document) ==
  IF Ignored(document) THEN "returns"
  ELSE IF NamingThrows(document) THEN "throws"
  ELSE IF RequireJsonString(BookData(document), "symbol") # Symbol THEN "returns"
  ELSE IF FieldsThrow(BookData(document)) THEN "throws"
  ELSE "emits"

DecodeBook(document) ==
  /\ threw' = (Outcome(document) = "throws")
  /\ \/ Outcome(document) = "emits" /\ Emit(MessageOf(document, 0))
     \/ Outcome(document) # "emits" /\ UNCHANGED <<book, checksum, replay, streamed>>

(* What Kraken has to say of a change to one level of its book: an update, *)
(* or, where the stream broke meanwhile, a snapshot.                       *)
Moves == [side : Sides, price : Prices, quantity : Quantities \cup {0},
          type : {"snapshot", "update"}]

VenueAfter(move) == [venue EXCEPT ![move.side] = ApplyLevels(move.side, <<move>>, 0, @)]

Said(move) ==
  LET new == VenueAfter(move)
      top == [s \in Sides |-> TopOf(s, new[s])]
      levels(s) == IF move.type = "snapshot" THEN LevelsOf(s, top[s]) ELSE ToldOf(s, venue[s], new[s])
  IN [type |-> move.type, checksum |-> ChecksumOf(top), buys |-> levels("buys"), sells |-> levels("sells")]

(* A frame that is ignored is one besides the pair's own: the book it      *)
(* tells of did not change.                                                *)
KrakenSends(move) ==
  /\ ~threw
  /\ \E said \in {Said(move)} : \E form \in Forms :
       LET document == Document(said, form)
       IN /\ DecodeBook(document)
          /\ venue' = IF Outcome(document) = "returns" THEN venue ELSE VenueAfter(move)
  /\ UNCHANGED <<depth, header, info>>

KrakenNext == \E move \in Moves : KrakenSends(move)

-----------------------------------------------------------------------------
(* The messages alone keep the book equal to the top of Kraken's at its    *)
(* depth (book.h:27): a level pushed out is not there when the level that  *)
(* pushed it is taken away, though Kraken never said it went.              *)
BookIsVenues == ~threw => book = [s \in Sides |-> TopOf(s, venue[s])]

(* On a stream that lost nothing, the checksum over the book is the one    *)
(* the message came with, or the pair would be resubscribed to again and   *)
(* again (l2_parser.cc:123).                                               *)
ChecksumsMatch ==
  ~threw /\ checksum # {} => BookChecksum(book) = checksum

(* "A replay can prove it rebuilt the same book" (message.h:41): header    *)
(* and records suffice to rebuild it.  So do the Books a client is sent,   *)
(* whether it watches since the first of them or from now on, "so a client *)
(* can prove it applied the deltas correctly" (market_data.proto:101).     *)
ReplayIsBook ==
  /\ replay = book
  /\ streamed = book
  /\ ClientApply(EmptyBook, info, SnapshotLocked(book, checksum)) = book

(* A text's time, counted from the epoch (in NanoDigits of a second). *)
IsLeap(year) == year % 4 = 0 /\ (year % 100 # 0 \/ year % 400 = 0)

DaysBefore == <<0, 31, 59, 90, 120, 151, 181, 212, 243, 273, 304, 334>>

DaysOf(text) ==
  (text.year - 1970) * 365 + Cardinality({y \in 1970..(text.year - 1) : IsLeap(y)})
    + DaysBefore[text.month] + (IF text.month > 2 /\ IsLeap(text.year) THEN 1 ELSE 0)
    + text.day - 1

NanosOf(text) ==
  LET digit(n) == IF n <= Len(text.fraction) THEN text.fraction[n] ELSE 0
      time[n \in 0..NanoDigits] ==
        IF n = 0 THEN DaysOf(text) * 86400 + text.hour * 3600 + text.minute * 60 + text.second
        ELSE time[n - 1] * 10 + digit(n)
  IN time[NanoDigits]

(* A message of a move says what Kraken did, in whatever form. *)
SaysTheSame(move) ==
  \E said \in {Said(move)} : \A form \in Forms :
    LET document == Document(said, form)
        message == MessageOf(document, 0)
    IN Outcome(document) = "emits" =>
         /\ message.type = said.type
         /\ message.buys = said.buys /\ message.sells = said.sells
         /\ message.checksum \in {{}, said.checksum}
         /\ message.venueTime \in {0} \cup IF form.time.isIso THEN {NanosOf(form.time)} ELSE {}
=============================================================================
