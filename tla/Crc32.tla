------------------------------- MODULE Crc32 --------------------------------
(***************************************************************************)
(* crypto/crc32.{h,cc}, table-driven.  A u32 is the set of its bits' places *)
(* so that exclusive or is the symmetric difference.                       *)
(***************************************************************************)
EXTENDS Integers, Sequences

Xor(a, b) == (a \ b) \cup (b \ a)

ShiftRight(bits, n) == {b - n : b \in {c \in bits : c >= n}}

(* What the bits of a byte are worth, and those that are set. *)
Weights == <<1, 2, 4, 8, 16, 32, 64, 128>>

Bits(byte) == {b \in 0..7 : (byte \div Weights[b + 1]) % 2 = 1}

(* 0xEDB88320 and 0xFFFFFFFF. *)
Polynomial == {5, 8, 9, 15, 19, 20, 21, 23, 24, 26, 27, 29, 30, 31}
AllOnes == 0..31

Step(crc) ==
  IF 0 \in crc THEN Xor(ShiftRight(crc, 1), Polynomial) ELSE ShiftRight(crc, 1)

(* BuildCrc32Table(): eight steps of every byte. *)
Table ==
  [value \in 0..255 |->
     LET steps[n \in 0..8] == IF n = 0 THEN Bits(value) ELSE Step(steps[n - 1])
     IN steps[8]]

(* The byte of some bits. *)
NumberOf(bits) ==
  LET worth(b) == IF b \in bits THEN Weights[b + 1] ELSE 0
  IN worth(0) + worth(1) + worth(2) + worth(3) + worth(4) + worth(5) + worth(6) + worth(7)

(* One byte of Crc32()'s loop, and the loop, over bytes as numbers. *)
CrcByte(crc, byte) ==
  Xor(Table[NumberOf(Xor(crc, Bits(byte)) \cap (0..7))], ShiftRight(crc, 8))

Crc32Of(data) ==
  LET crc[n \in 0..Len(data)] == IF n = 0 THEN AllOnes ELSE CrcByte(crc[n - 1], data[n])
  IN Xor(crc[Len(data)], AllOnes)
=============================================================================
