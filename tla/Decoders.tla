------------------------------ MODULE Decoders ------------------------------
(***************************************************************************)
(* An L2Parser has the decoder its adapter made (MakeDecoder()): Kraken's  *)
(* with its checksums, or Coinbase's with its sequence numbers.            *)
(***************************************************************************)
EXTENDS CoinbaseDecoder, KrakenDecoder

VARIABLE decoder

decodersVars == <<decoder, vars, krakenVars>>

(* Adapter::MakeDecoder(). *)
MakeDecoder == {"coinbase", "kraken"}

(* Coinbase has books of full depth only. *)
DecodersInit ==
  /\ decoder \in MakeDecoder /\ Init /\ KrakenInit
  /\ decoder = "coinbase" => depth = 0

CoinbaseStep == decoder = "coinbase" /\ Next /\ UNCHANGED <<decoder, krakenVars>>

KrakenStep == decoder = "kraken" /\ KrakenNext /\ UNCHANGED <<decoder, vars>>

DecodersNext == CoinbaseStep \/ KrakenStep

DecodersSpec == DecodersInit /\ [][DecodersNext]_decodersVars

(* A message says what its frame did: "the exact decimal text Kraken sent  *)
(* round-trips" (message.h:18), however many zeros it was written with,    *)
(* and the time is Kraken's clock's, to the nanosecond, or 0.              *)
DecodedAsMeant ==
  decoder = "kraken" /\ ~threw => \A move \in Moves : SaysTheSame(move)
=============================================================================
