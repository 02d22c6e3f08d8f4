------------------------------ MODULE Decimal -------------------------------
(***************************************************************************)
(* core/decimal.{h,cc}: the decimal text of a price, a quantity or a step  *)
(* size, as a sequence of its characters, to the integer it is worth at a  *)
(* number of decimals.                                                     *)
(***************************************************************************)
EXTENDS Integers, Sequences

CONSTANT MaxInt     \* The largest i64.

ASSUME DecimalAssumption == MaxInt \in Nat

Digits == <<"0", "1", "2", "3", "4", "5", "6", "7", "8", "9">>
IsDigit(c) == \E d \in 1..10 : Digits[d] = c
ValueOf(c) == (CHOOSE d \in 1..10 : Digits[d] = c) - 1

Pow10[exponent \in Nat] == IF exponent = 0 THEN 1 ELSE Pow10[exponent - 1] * 10

(* std::from_chars() reads the digits a text begins with, and leaves its   *)
(* target, 0 here, alone if there are none or they do not fit.             *)
FromChars(text) ==
  LET digits == {n \in 0..Len(text) : \A i \in 1..n : IsDigit(text[i])}
      first[n \in digits] == IF n = 0 THEN 0 ELSE first[n - 1] * 10 + ValueOf(text[n])
      value == first[CHOOSE n \in digits : n + 1 \notin digits]
  IN IF value <= MaxInt THEN value ELSE 0

(* Where the dot is, or behind the text if there is none. *)
DotOf(text) ==
  CHOOSE n \in 1..(Len(text) + 1) :
    /\ \A i \in 1..(n - 1) : text[i] # "."
    /\ n = Len(text) + 1 \/ text[n] = "."

FractionPart(text) == SubSeq(text, DotOf(text) + 1, Len(text))

DigitsUsed(fraction, decimals) == IF Len(fraction) < decimals THEN Len(fraction) ELSE decimals

ScaledAsIs(text, decimals) ==          \* mutant: a short fraction is not padded
  LET fraction == FractionPart(text)
  IN FromChars(SubSeq(text, 1, DotOf(text) - 1)) * Pow10[decimals]
       + FromChars(SubSeq(fraction, 1, DigitsUsed(fraction, decimals)))

(* Digits the decimals have no place for are cut off. *)
ScaleDecimalStringToI64(text, decimals) ==
  LET fraction == FractionPart(text)
      used == DigitsUsed(fraction, decimals)
  IN FromChars(SubSeq(text, 1, DotOf(text) - 1)) * Pow10[decimals]
       + FromChars(SubSeq(fraction, 1, used)) * Pow10[decimals - used]

(* The place after the dot of the last character that is not '0'. *)
FractionDigits(text) ==
  LET last == {0} \cup {i \in 1..Len(text) : text[i] # "0"}
      place == (CHOOSE i \in last : \A j \in last : j <= i) - DotOf(text)
  IN IF place < 0 THEN 0 ELSE place
=============================================================================
