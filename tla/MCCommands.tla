----------------------------- MODULE MCCommands -----------------------------
(* Commands for TLC: a pair of each venue, one that the venue knows under  *)
(* another id, and one that no venue can have.                             *)
EXTENDS Commands

Symbol(length, characters) == [length |-> length, characters |-> characters]

SlashPair == Symbol(2, {"upper", "/"})      \* As BTC/USD.
DashPair == Symbol(2, {"upper", "-"})       \* As BTC-USD.
Alias == Symbol(1, {"upper"})
TooLong == Symbol(3, {"lower"})

MCSymbols == {SlashPair, DashPair, Alias, TooLong}

MCCatalogue ==
  (Kraken :> (SlashPair :> "online" @@ DashPair :> "absent" @@ Alias :> "absent"
                @@ TooLong :> "absent"))
    @@ (Coinbase :> (SlashPair :> "absent" @@ DashPair :> "online" @@ Alias :> "alias"
                      @@ TooLong :> "absent"))

MCPrecision == [price |-> 2, qty |-> 0]

Symmetry == Permutations(Clients)
=============================================================================
