----------------------------- MODULE MCDecoders -----------------------------
(* Decoders for TLC: prices with two decimals, of which a text may have    *)
(* none, one or more, quantities with one, and four of a clock's times.    *)
EXTENDS Decoders

MCDecimals == [price |-> 2, qty |-> 1]

Clock(year, month, day, hour, minute, second, fraction) ==
  [isIso |-> TRUE, year |-> year, month |-> month, day |-> day, hour |-> hour,
   minute |-> minute, second |-> second, fraction |-> fraction]

(* The epoch, the end of a leap day, more digits than are kept, and a text *)
(* that is no time.                                                        *)
MCTimes ==
  {Clock(1970, 1, 1, 0, 0, 0, <<>>), Clock(1972, 2, 29, 23, 59, 59, <<9>>),
   Clock(1973, 3, 1, 0, 0, 1, <<0, 5>>),
   [Clock(1970, 1, 1, 0, 0, 0, <<>>) EXCEPT !.isIso = FALSE]}
=============================================================================
