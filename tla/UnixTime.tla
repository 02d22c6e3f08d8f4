------------------------------ MODULE UnixTime ------------------------------
(***************************************************************************)
(* core/unix_time.{h,cc}, ParseIso8601ToUnixNanos(): the time a venue put  *)
(* into a frame, "YYYY-MM-DDTHH:MM:SS" and perhaps a fraction.  A text is  *)
(* the record of its numbers and of the digits of its fraction; isIso is   *)
(* false of one that lacks a separator or a digit of the prefix.           *)
(***************************************************************************)
EXTENDS Decimal

CONSTANT NanoDigits     \* Digits of a nanosecond: 9.

ASSUME UnixTimeAssumption == NanoDigits \in Nat

(* std::chrono::sys_days: days since 1970-01-01, counted from 1 March. *)
SysDays(year, month, day) ==
  LET y == IF month <= 2 THEN year - 1 ELSE year
      m == IF month <= 2 THEN month + 9 ELSE month - 3
  IN y * 365 + y \div 4 - y \div 100 + y \div 400 + (m * 153 + 2) \div 5 + day - 1 - 719468

(* Each digit is worth a tenth of the one before, and nothing past the     *)
(* last nanosecond.                                                        *)
DigitValue(place) == IF place > NanoDigits THEN 0 ELSE Pow10[NanoDigits - place]

FractionNanos(digits) ==
  LET sum[n \in 0..Len(digits)] ==
        IF n = 0 THEN 0 ELSE sum[n - 1] + digits[n] * DigitValue(n)
  IN sum[Len(digits)]

(* std::nullopt is the empty set. *)
ParseIso8601ToUnixNanos(text) ==
  IF ~text.isIso THEN {}
  ELSE {((SysDays(text.year, text.month, text.day) * 86400)
          + text.hour * 3600 + text.minute * 60 + text.second) * Pow10[NanoDigits]
        + FractionNanos(text.fraction)}
=============================================================================
