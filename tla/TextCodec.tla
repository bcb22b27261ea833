----------------------------- MODULE TextCodec -----------------------------
(***************************************************************************)
(* The conversions PduCodec is made of: octets and hex digits, UTF-8, the  *)
(* GSM 7-bit alphabet, UTF-16, and septets packed into octets.             *)
(*                                                                         *)
(* An octet, a septet, a UTF-16 unit and a code point are numbers, a hex   *)
(* digit is 0..15.  A conversion that can fail returns [ec, out].          *)
(***************************************************************************)
EXTENDS Integers, SequencesExt

Ok(out) == [ec |-> "Ok", out |-> out]
Fails(code) == [ec |-> code, out |-> <<>>]

Sum(f, S) == FoldFunctionOnSet(+, 0, f, S)
Bit(n, b) == (n \div 2^b) % 2
Ceil(n, d) == (n + d - 1) \div d

-----------------------------------------------------------------------------
(***************************************************************************)
(* Hex text.  A character that is no hex digit is NotHex.                  *)
(***************************************************************************)
NotHex == 16

BytesToHex(bytes) == [i \in 1..(2 * Len(bytes)) |->
  IF i % 2 = 1 THEN bytes[Ceil(i, 2)] \div 16 ELSE bytes[Ceil(i, 2)] % 16]

HexToBytes(hex) ==
  IF Len(hex) % 2 # 0 \/ NotHex \in ToSet(hex) THEN Fails("InvalidArgument")
  ELSE Ok([i \in 1..(Len(hex) \div 2) |-> 16 * hex[2 * i - 1] + hex[2 * i]])

-----------------------------------------------------------------------------
(***************************************************************************)
(* UTF-8.  The octets after the first are counted, not checked, so that    *)
(* some octets that are no UTF-8 are read as a code point.                 *)
(***************************************************************************)
Utf8Size(lead) ==
  CASE lead < 128 -> 1 [] lead \in 192..223 -> 2 [] lead \in 224..239 -> 3
    [] lead \in 240..247 -> 4 [] OTHER -> 0

\* utf8_next: the size of the code point that starts at i, 0 when there is none.
Utf8Next(text, i) == LET n == Utf8Size(text[i]) IN IF i + n - 1 > Len(text) THEN 0 ELSE n

CodePoint(text, i, n) ==
  LET tail(k) == text[i + k] % 64
  IN CASE n = 1 -> text[i]
       [] n = 2 -> 64 * (text[i] % 32) + tail(1)
       [] n = 3 -> 4096 * (text[i] % 16) + 64 * tail(1) + tail(2)
       [] n = 4 -> 262144 * (text[i] % 8) + 4096 * tail(1) + 64 * tail(2) + tail(3)

\* The code points of a text, which the encoders read one after another.
CodePoints(text) ==
  LET from[i \in 1..(Len(text) + 1)] ==
        IF i > Len(text) THEN Ok(<<>>)
        ELSE LET n == Utf8Next(text, i)
                 rest == from[i + n]
             IN IF n = 0 THEN Fails("EncodeFailure")
                ELSE IF rest.ec # "Ok" THEN rest ELSE Ok(<<CodePoint(text, i, n)>> \o rest.out)
  IN from[1]

\* append_utf8
Utf8(cp) ==
  LET n == IF cp < 128 THEN 1 ELSE IF cp < 2048 THEN 2 ELSE IF cp < 65536 THEN 3 ELSE 4
      lead == IF n = 1 THEN 0 ELSE 256 - 2^(8 - n)
  IN [k \in 1..n |-> IF k = 1 THEN lead + (cp \div 64^(n - 1))
                              ELSE 128 + ((cp \div 64^(n - k)) % 64)]

-----------------------------------------------------------------------------
(***************************************************************************)
(* The GSM 7-bit alphabet.                                                 *)
(***************************************************************************)
Esc == 27

\* kGsmBasic: the code points of the septets 0 to 127, Esc's place unused.
GsmBasic ==
  <<64, 163, 36, 165, 232, 233, 249, 236, 242, 199, 10, 216, 248, 13, 197, 229,
    916, 95, 934, 915, 923, 937, 928, 936, 931, 920, 926, 65533, 198, 230, 223, 201,
    32, 33, 34, 35, 164>> \o [i \in 1..27 |-> 36 + i] \o <<161>> \o [i \in 1..26 |-> 64 + i]
  \o <<196, 214, 209, 220, 167, 191>> \o [i \in 1..26 |-> 96 + i] \o <<228, 246, 241, 252, 224>>

\* kGsmExt: the septet that follows Esc, and its code point.
GsmExt == {<<10, 12>>, <<20, 94>>, <<40, 123>>, <<41, 125>>, <<47, 92>>,
           <<60, 91>>, <<61, 126>>, <<62, 93>>, <<64, 124>>, <<101, 8364>>}

\* gsm7_encode_codepoint: none when the alphabet has no such character.
Gsm7(cp) ==
  LET basic == {i \in 0..127 : i # Esc /\ GsmBasic[i + 1] = cp}
      ext == {e \in GsmExt : e[2] = cp}
  IN IF basic # {} THEN <<Min(basic)>>
     ELSE IF ext # {} THEN <<Esc, (CHOOSE e \in ext : TRUE)[1]>> ELSE <<>>

Utf8ToGsm7(text) ==
  LET cps == CodePoints(text)
      septets == [i \in DOMAIN cps.out |-> Gsm7(cps.out[i])]
  IN IF cps.ec # "Ok" \/ <<>> \in ToSet(septets) THEN Fails("EncodeFailure")
     ELSE Ok(FlattenSeq(septets))

\* gsm7_ext_codepoint; a second Esc, or none to follow the first, is a space.
Extended(septet) ==
  IF septet = Esc THEN 32
  ELSE IF \E e \in GsmExt : e[1] = septet THEN (CHOOSE e \in GsmExt : e[1] = septet)[2]
  ELSE GsmBasic[septet + 1]

Gsm7ToUtf8(septets) ==
  LET from[i \in 1..(Len(septets) + 1)] ==
        IF i > Len(septets) THEN <<>>
        ELSE IF septets[i] # Esc THEN Utf8(GsmBasic[septets[i] + 1]) \o from[i + 1]
        ELSE IF i = Len(septets) THEN Utf8(32)
        ELSE Utf8(Extended(septets[i + 1])) \o from[i + 2]
  IN Ok(from[1])

-----------------------------------------------------------------------------
(***************************************************************************)
(* UTF-16, sent as octets, the high one first.                             *)
(***************************************************************************)
HighSurrogates == 55296..56319
LowSurrogates == 56320..57343

Utf16(cp) ==
  IF cp < 65536 THEN <<cp>>
  ELSE <<55296 + (((cp - 65536) \div 1024) % 1024), 56320 + ((cp - 65536) % 1024)>>

Octets(units) == FlattenSeq([i \in DOMAIN units |-> <<units[i] \div 256, units[i] % 256>>])

\* encode_ucs2, in units.
EncodeUcs2(text) ==
  LET cps == CodePoints(text)
  IN IF cps.ec # "Ok" THEN cps
     ELSE Ok(FlattenSeq([i \in DOMAIN cps.out |-> Utf16(cps.out[i])]))

DecodeUcs2(bytes) ==
  LET size == Len(bytes) \div 2
      unit(k) == 256 * bytes[2 * k - 1] + bytes[2 * k]
      from[k \in 1..(size + 1)] ==
        IF k > size THEN Ok(<<>>)
        ELSE LET pair == unit(k) \in HighSurrogates
                 rest == from[IF pair THEN k + 2 ELSE k + 1]
                 cp == IF pair THEN 65536 + 1024 * (unit(k) - 55296) + unit(k + 1) - 56320
                               ELSE unit(k)
             IN IF pair /\ (k = size \/ unit(k + 1) \notin LowSurrogates)
                  THEN Fails("DecodeFailure")
                ELSE IF rest.ec # "Ok" THEN rest ELSE Ok(Utf8(cp) \o rest.out)
  IN IF Len(bytes) % 2 # 0 THEN Fails("DecodeFailure") ELSE from[1]

-----------------------------------------------------------------------------
(***************************************************************************)
(* Septets in octets.                                                      *)
(***************************************************************************)
\* append_packed_7bit_at: the bits of the septets are set from start_bit on;
\* what lies before it stays.
AppendPacked7bitAt(buf, septets, start_bit) ==
  LET old(p) == p < 8 * Len(buf) /\ Bit(buf[p \div 8 + 1], p % 8) = 1
      new(p) == /\ p \in start_bit..(start_bit + 7 * Len(septets) - 1)
                /\ Bit(septets[(p - start_bit) \div 7 + 1], (p - start_bit) % 7) = 1
      value(k, b) == IF old(8 * k + b) \/ new(8 * k + b) THEN 2^b ELSE 0
      octet(k) == value(k, 0) + value(k, 1) + value(k, 2) + value(k, 3)
                    + value(k, 4) + value(k, 5) + value(k, 6) + value(k, 7)
      size == Ceil(start_bit + 7 * Len(septets), 8)
  IN [k \in 1..(IF size > Len(buf) THEN size ELSE Len(buf)) |-> octet(k - 1)]

\* encode_7bit: each septet but every eighth makes an octet, of its low bits and
\* the bits left of the septet before it; what is left in the end is one more.
Encode7bit(septets) ==
  LET left(n) == septets[n] \div 2^((n - 1) % 8)
      octet(n) == IF n % 8 = 1 THEN <<>>
                  ELSE <<((septets[n] * 2^(8 - ((n - 1) % 8))) % 256) + left(n - 1)>>
      last == IF Len(septets) % 8 = 0 THEN <<>> ELSE <<left(Len(septets))>>
  IN FlattenSeq([n \in DOMAIN septets |-> octet(n)]) \o last

\* decode_7bit: the octet k holds the rest of a septet and the begin of the next,
\* and every seventh a whole one besides.
Decode7bit(packed, count) ==
  LET left(k) == packed[k] \div 2^(8 - (k % 7))
      begin(k) == (packed[k] * 2^((k - 1) % 7) + IF k % 7 = 1 THEN 0 ELSE left(k - 1)) % 128
      septets == FlattenSeq([k \in DOMAIN packed |->
                    IF k % 7 = 0 THEN <<begin(k), packed[k] \div 2>> ELSE <<begin(k)>>])
  IN SubSeq(septets, 1, IF count < Len(septets) THEN count ELSE Len(septets))
=============================================================================
