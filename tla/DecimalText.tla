----------------------------- MODULE DecimalText -----------------------------
(***************************************************************************)
(* The decimal numbers of the USB protocol: what parse_uint32,             *)
(* parse_normalized_millionths and the others of                           *)
(* peripherals/usb/usb_json_protocol.c make of the characters of a token,  *)
(* and the digits that uint64_decimal.c and format_signed_millionths       *)
(* write.  A character is a digit, Point or Minus; the width of the        *)
(* integers and the number of fraction digits are scaled down, so that     *)
(* every short text can be enumerated.                                     *)
(***************************************************************************)
EXTENDS Integers, Sequences, SequencesExt

Point == 10
Minus == 11

FractionDigits == 1     \* 6 in the code
Scale          == 10    \* USB_JSON_THROTTLE_SCALE: 10 to the FractionDigits
UintMax        == 199   \* UINT32_MAX
IntMax         == 99    \* INT32_MAX

Bad == -1000            \* the parser returned false

\* Tails and parts of a text.
After(text, k) == SubSeq(text, k + 1, Len(text))

(***************************************************************************)
(* Reading.                                                                *)
(***************************************************************************)
\* The loop over digits: the check is made before the digit is added.
ParsedDigits(text) ==
  FoldLeft(LAMBDA parsed, d :
             IF parsed = Bad \/ d > 9 \/ parsed > (UintMax - d) \div 10
             THEN Bad ELSE parsed * 10 + d,
           0, text)

ParseUint(text) ==
  IF text = <<>> \/ (Len(text) > 1 /\ text[1] = 0) THEN Bad ELSE ParsedDigits(text)

\* The digits behind the point, as a multiple of 1 / Scale; there is at least one.
ParsedFraction(digits) ==
  IF digits = <<>> \/ Len(digits) > FractionDigits \/ \E k \in DOMAIN digits : digits[k] > 9
  THEN Bad
  ELSE FoldLeft(LAMBDA f, d : f * 10 + d, 0,
                digits \o [k \in 1 .. FractionDigits - Len(digits) |-> 0])

ParseNormalized(text) ==
  LET whole    == text[1]
      fraction == ParsedFraction(After(text, 2))
  IN IF text = <<>> \/ whole \notin {0, 1} THEN Bad
     ELSE IF Len(text) = 1 THEN whole * Scale
     ELSE IF text[2] # Point \/ fraction = Bad \/ (whole = 1 /\ fraction # 0) THEN Bad
     ELSE whole * Scale + fraction

ParseSigned(text) ==
  LET negative == text # <<>> /\ text[1] = Minus
      parsed   == ParseNormalized(IF negative THEN After(text, 1) ELSE text)
  IN IF parsed = Bad THEN Bad ELSE IF negative THEN -parsed ELSE parsed

\* Where the point is, or the end.
PointAt(text) ==
  LET points == {k \in DOMAIN text : text[k] = Point}
  IN IF points = {} THEN Len(text) + 1 ELSE CHOOSE k \in points : \A j \in points : k <= j

ParsePositive(text) ==
  LET at       == PointAt(text)
      whole    == ParsedDigits(SubSeq(text, 1, at - 1))
      fraction == IF at > Len(text) THEN 0 ELSE ParsedFraction(After(text, at))
  IN IF \/ text = <<>>
        \/ Len(text) > 1 /\ text[1] = 0 /\ text[2] # Point
        \/ whole = Bad \/ fraction = Bad
        \/ whole > (UintMax - fraction) \div Scale
     THEN Bad ELSE whole * Scale + fraction

ParseDecimal(text) ==
  LET negative == text # <<>> /\ text[1] = Minus
      parsed   == ParsePositive(IF negative THEN After(text, 1) ELSE text)
  IN IF parsed = Bad \/ parsed > (IF negative THEN IntMax + 1 ELSE IntMax) THEN Bad
     ELSE IF negative THEN -parsed ELSE parsed

(***************************************************************************)
(* Writing.                                                                *)
(***************************************************************************)
\* uint64_decimal_format: the digits from the last to the first, at least "width".
Digits(value, width) ==
  LET last[v \in 0 .. value] == IF v < 10 THEN <<v>> ELSE Append(last[v \div 10], v % 10)
      digits == last[value]
  IN [k \in 1 .. width - Len(digits) |-> 0] \o digits

FormatMillionths(value) ==
  Digits(value \div Scale, 0) \o <<Point>> \o Digits(value % Scale, FractionDigits)

FormatSigned(value) ==
  IF value < 0 THEN <<Minus>> \o FormatMillionths(-value) ELSE FormatMillionths(value)

(***************************************************************************)
(* What the numbers mean, checked over every short text.                   *)
(***************************************************************************)
Texts == UNION {[1 .. n -> {0, 1, 2, 9, Point, Minus}] : n \in 0 .. 4}

IsDigits(text) == text # <<>> /\ \A k \in DOMAIN text : text[k] <= 9

\* The value of a text of digits, without a width.
ValueOf(text) == FoldLeft(LAMBDA v, d : v * 10 + d, 0, text)

\* A number is read exactly when it fits, and then as the number it is.
ASSUME UintIsReadExactly ==
  \A text \in Texts :
    ParseUint(text) =
      IF IsDigits(text) /\ (text[1] # 0 \/ Len(text) = 1) /\ ValueOf(text) <= UintMax
      THEN ValueOf(text) ELSE Bad

\* What is written is read back as the same number, in every form a
\* configuration uses: the whole counts, the fractions, the signed numbers
\* down to the smallest.
ASSUME WrittenIsReadBack ==
  /\ \A v \in 0 .. UintMax : /\ ParseUint(Digits(v, 0)) = v
                             /\ ParsePositive(FormatMillionths(v)) = v
  /\ \A v \in 0 .. Scale : /\ ParseNormalized(FormatMillionths(v)) = v
                           /\ ParseSigned(FormatSigned(-v)) = -v
  /\ \A v \in -(IntMax + 1) .. IntMax : ParseDecimal(FormatSigned(v)) = v

\* The narrower readers accept nothing that the wider ones refuse or read otherwise.
ASSUME ReadersAgree ==
  \A text \in Texts :
    /\ ParseNormalized(text) # Bad => ParsePositive(text) = ParseNormalized(text)
    /\ ParseSigned(text) # Bad => ParseDecimal(text) = ParseSigned(text)
    /\ ParseUint(text) # Bad /\ ParseUint(text) * Scale <= UintMax
         => ParsePositive(text) = ParseUint(text) * Scale

=============================================================================
