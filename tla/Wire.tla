-------------------------------- MODULE Wire --------------------------------
(***************************************************************************)
(* frontend/wire.{h,cc} and Stream::SnapshotLocked(): a book's messages,   *)
(* and a book as it is, as the Books a client is sent, and the StreamInfo  *)
(* it decodes them by.  A level on the wire is its price and quantity.     *)
(***************************************************************************)
EXTENDS Book

MakeStreamInfo(symbol, venue, depth, precision) ==
  [symbol |-> symbol, venue |-> venue, depth |-> depth,
   priceDecimals |-> precision.price, qtyDecimals |-> precision.qty]

AppendLevels(levels, out) ==
  out \o [i \in 1..Len(levels) |-> <<levels[i].price, levels[i].quantity>>]

MakeBook(message) ==
  [kind |-> IF message.type = "snapshot" THEN "KIND_SNAPSHOT" ELSE "KIND_DELTA",
   bids |-> AppendLevels(message.buys, <<>>), asks |-> AppendLevels(message.sells, <<>>),
   checksum |-> message.checksum]

(* A client that starts watching gets the book the messages left, the best *)
(* level first, with the last one's checksum.                              *)
SnapshotLocked(book, checksum) ==
  [kind |-> "KIND_SNAPSHOT",
   bids |-> AppendLevels(LevelsOf("buys", book.buys), <<>>),
   asks |-> AppendLevels(LevelsOf("sells", book.sells), <<>>),
   checksum |-> checksum]

(* External: a client's book at the StreamInfo's depth, after a Book       *)
(* (market_data.proto:88).                                                 *)
ReadLevels(levels) ==
  [i \in 1..Len(levels) |-> [price |-> levels[i][1], quantity |-> levels[i][2]]]

ClientApply(book, info, update) ==
  Apply(book, info.depth,
        [type |-> IF update.kind = "KIND_SNAPSHOT" THEN "snapshot" ELSE "update",
         buys |-> ReadLevels(update.bids), sells |-> ReadLevels(update.asks)])
=============================================================================
