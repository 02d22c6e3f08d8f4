-------------------------------- MODULE Rest --------------------------------
(***************************************************************************)
(* What is asked of a venue over HTTPS, and what becomes of its answer:    *)
(* venue/adapter.{h,cc}, kraken/ and coinbase/adapter.{h,cc},              *)
(* kraken/pair_precision.cc, tradable_pairs.cc, rest_error.cc and          *)
(* coinbase/products.cc.                                                   *)
(*                                                                         *)
(* A symbol is its length and the kinds of characters in it.  A response   *)
(* is its HTTP status and its body as JSON, or Unreachable if              *)
(* MakeRequest() threw.  A fetch's result is a value or a throw; a         *)
(* function with undefined behaviour has the set of its results.           *)
(***************************************************************************)
EXTENDS Json, Decimal, FiniteSets

CONSTANTS KrakenDepths,       \* kL2Depths.
          MaxSymbolLength     \* kMaxSymbolLength: 32.

ASSUME RestAssumption == KrakenDepths \subseteq Nat \ {0} /\ MaxSymbolLength \in Nat

Kraken == 0
Coinbase == 1
FullDepth == 0

(* The adapters: what of a venue L2Manager knows and never asks it.        *)
CoinbaseDepths == {FullDepth}

KrakenPunctuation == {"/", ".", "-", "_"}
CoinbasePunctuation == {"-"}

KrakenAdapter ==
  [depths |-> KrakenDepths, punctuation |-> KrakenPunctuation, rejects |-> {}]

CoinbaseAdapter ==
  [depths |-> CoinbaseDepths, punctuation |-> CoinbasePunctuation, rejects |-> {"lower"}]

Adapter(venue) == IF venue = Kraken THEN KrakenAdapter ELSE CoinbaseAdapter

Depths(venue) == Adapter(venue).depths

IsWellFormedSymbol(symbol, punctuation) ==
  /\ symbol.length \in 1..MaxSymbolLength
  /\ symbol.characters \subseteq {"upper", "lower", "digit"} \cup punctuation

CheckSymbol(venue, symbol) ==
  /\ IsWellFormedSymbol(symbol, Adapter(venue).punctuation)
  /\ symbol.characters \cap Adapter(venue).rejects = {}

-----------------------------------------------------------------------------
Unreachable == [status |-> 0]
Response(status, body) == [status |-> status, body |-> body]

Returns(value) == [is |-> "value", value |-> value]
Unknown == [is |-> "UnknownSymbolError"]
Throws == [is |-> "std::exception"]
Aborts == [is |-> "abort"]

(* CallVenue(): the error code of what a fetch threw. *)
CallVenue(result) ==
  CASE result.is = "value" -> "ok"
    [] result.is = "UnknownSymbolError" -> "kUnknownSymbol"
    [] result.is = "std::exception" -> "kVenueFailed"

-----------------------------------------------------------------------------
(* Coinbase. *)

IsSet(product, name) == FindJsonMember(product, name) = JsonBool(TRUE)

AliasStreams(product) ==                \* mutant: an alias counts as streamed
  IF RequireThrows(product, "product_id", "string") THEN "throws"
  ELSE IF FindJsonStringThrows(product, "status") THEN "throws"
  ELSE IF FindJsonString(product, "status") # <<"online">> THEN "why" ELSE "none"

WhyUnstreamable(product) ==
  IF RequireThrows(product, "product_id", "string") THEN "throws"
  ELSE IF FindJsonStringThrows(product, "status") THEN "throws"
  ELSE IF FindJsonString(product, "status") # <<"online">> THEN "why"
  ELSE IF IsSet(product, "is_disabled") \/ IsSet(product, "trading_disabled") THEN "why"
  ELSE IF FindJsonStringThrows(product, "alias") THEN "throws"
  ELSE IF FindJsonString(product, "alias") # <<>> THEN "why" ELSE "none"

(* No JSON, or none that is an object. *)
ParseObjectThrows(body) == body.kind # "object"

ParseProductPrecision(body) ==
  LET why == WhyUnstreamable(body)
      own == FindJsonString(body, "price_increment")
  IN IF ParseObjectThrows(body) \/ why = "throws" THEN Throws
     ELSE IF why = "why" THEN Unknown
     ELSE IF \/ FindJsonStringThrows(body, "price_increment")
             \/ own = <<>> /\ RequireThrows(body, "quote_increment", "string")
             \/ RequireThrows(body, "base_increment", "string") THEN Throws
     ELSE Returns([price |-> FractionDigits(IF own # <<>> THEN own
                                            ELSE RequireJsonString(body, "quote_increment")),
                   qty |-> FractionDigits(RequireJsonString(body, "base_increment"))])

(* The ids, which are sorted: as a set. *)
ParseTradableProducts(body) ==
  IF ParseObjectThrows(body) \/ RequireThrows(body, "products", "array") THEN Throws
  ELSE LET products == FindJsonMember(body, "products").values
           listed == {i \in DOMAIN products : WhyUnstreamable(products[i]) = "none"}
       IN IF \E i \in DOMAIN products : WhyUnstreamable(products[i]) = "throws" THEN Throws
          ELSE Returns({RequireJsonString(products[i], "product_id") : i \in listed})

FetchProductPrecision(response) ==
  IF response = Unreachable THEN Throws
  ELSE IF response.status \in {404, 400} THEN Unknown
  ELSE IF response.status # 200 THEN Throws
  ELSE ParseProductPrecision(response.body)

FetchTradableProducts(response) ==
  IF response = Unreachable \/ response.status # 200 THEN Throws
  ELSE ParseTradableProducts(response.body)

-----------------------------------------------------------------------------
(* Kraken.  The HTTP status is not looked at. *)

UnknownPairError == Word("EQuery:Unknown asset pair")

ReportsUnknownPair(document) ==
  LET errors == FindJsonMember(document, "error")
  IN errors.kind = "array" /\ \E i \in DOMAIN errors.values : errors.values[i] = UnknownPairError

(* Without an array of errors, Debug builds fail an assertion, which ends  *)
(* the program, and Release builds read what rapidjson takes for a null,   *)
(* with no elements and no members.                                        *)
ThrowOnRestError(document) ==
  LET errors == FindJsonMember(document, "error")
  IN IF errors.kind # "array" THEN {"aborts", "returns"}
     ELSE IF errors.values # <<>> THEN {"throws"} ELSE {"returns"}

FetchPairPrecision(response, symbol) ==
  LET pair == FindJsonMember(FindJsonMember(response.body, "result"), symbol)
      precision == Returns([price |-> FindJsonMember(pair, "pair_decimals").number,
                            qty |-> FindJsonMember(pair, "lot_decimals").number])
  IN IF response = Unreachable THEN {Throws}
     ELSE IF ReportsUnknownPair(response.body) THEN {Unknown}
     ELSE {CASE outcome = "throws" -> Throws
             [] outcome = "aborts" -> Aborts
             [] outcome = "returns" -> IF pair = Missing THEN Unknown ELSE precision :
           outcome \in ThrowOnRestError(response.body)}

FetchTradablePairs(response) ==
  LET result == FindJsonMember(response.body, "result")
      online == IF result = Missing THEN {}
                ELSE {s \in DOMAIN result.members :
                        FindJsonMember(result.members[s], "status") = Word("online")}
  IN IF response = Unreachable THEN {Throws}
     ELSE {CASE outcome = "throws" -> Throws
             [] outcome = "aborts" -> Aborts
             [] outcome = "returns" -> Returns(online) :
           outcome \in ThrowOnRestError(response.body)}

-----------------------------------------------------------------------------
(* Adapter::FetchPrecision() and FetchPairs(). *)
FetchPrecision(venue, response, symbol) ==
  IF venue = Kraken THEN FetchPairPrecision(response, symbol)
  ELSE {FetchProductPrecision(response)}

FetchPairs(venue, response) ==
  IF venue = Kraken THEN FetchTradablePairs(response) ELSE {FetchTradableProducts(response)}
=============================================================================
