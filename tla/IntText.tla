------------------------------ MODULE IntText ------------------------------
(***************************************************************************)
(* The numbers of the integer dialog and their texts in the three radices: *)
(* CString::Format, FormatHelper::ToBinary and _wcstoui64.  A text is the  *)
(* sequence of its digits; a member that is not below the radix is a       *)
(* character that ends the number.                                         *)
(***************************************************************************)
EXTENDS Naturals, Sequences, SequencesExt, FiniteSetsExt

CONSTANTS Bits,         \* the width of ULONGLONG
          DwordBits     \* the width of DWORD

ASSUME BitsAssumption ==
  /\ Bits \in Nat \ {0} /\ DwordBits \in 1 .. Bits
  /\ 2 ^ Bits \in Nat /\ 2 ^ DwordBits \in 1 .. 2 ^ Bits   \* so they are; said for the proofs

MaxInt == 2 ^ Bits - 1

(* What a REG_DWORD keeps of a ULONGLONG.                                  *)
ToDword(v) == v % 2 ^ DwordBits

HexOrDec == 0 .. 2      \* the radio buttons: hexadecimal, decimal, binary

GetRadix(n) == <<16, 10, 2>>[n + 1]

(* Format with %llX and %llu.                                              *)
Format(v, radix) ==
  LET digits[n \in 0 .. MaxInt] ==
        IF n < radix THEN <<n>> ELSE Append(digits[n \div radix], n % radix)
  IN  digits[v]

(* FormatHelper::ToBinary: the bits from the right until none is set, and  *)
(* "0" for a text that stayed empty.                                       *)
ToBinary_Reversed(v) ==                 \* variant: each bit is put behind the others
  LET bits[n \in 0 .. MaxInt] == IF n = 0 THEN <<>> ELSE <<n % 2>> \o bits[n \div 2]
  IN  IF v = 0 THEN <<0>> ELSE bits[v]

ToBinary(v) ==
  LET bits[n \in 0 .. MaxInt] == IF n = 0 THEN <<>> ELSE Append(bits[n \div 2], n % 2)
  IN  IF v = 0 THEN <<0>> ELSE bits[v]

TextOf(v, n) == IF n = 2 THEN ToBinary(v) ELSE Format(v, GetRadix(n))

(* _wcstoui64: the longest beginning that is a number, 0 for none, and the *)
(* largest number for one that does not fit.                               *)
WithDigit(v, radix, d) == Min({v * radix + d, MaxInt})

Reading(text, radix) ==                 \* what each beginning of the text is read as
  LET value[k \in 0 .. Len(text)] ==
        IF k = 0 THEN 0 ELSE WithDigit(value[k - 1], radix, text[k])
  IN  value

NumberOf(text, n) ==
  LET radix      == GetRadix(n)
      beginnings == {k \in 0 .. Len(text) : \A i \in 1 .. k : text[i] < radix}
  IN  Reading(text, radix)[Max(beginnings)]

(* What a text that cannot be edited is read as when a radio button is     *)
(* clicked: the text of one radix read in another.                         *)
Rereadings(v) ==
  {w \in 0 .. MaxInt : \E shown, read \in HexOrDec : w = NumberOf(TextOf(v, shown), read)}
=============================================================================
