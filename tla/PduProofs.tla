----------------------------- MODULE PduProofs -----------------------------
(***************************************************************************)
(* Theorems about PduPath, for any requests and any size of the user data: *)
(* what the PDUs of an encode call are read as, submitted or delivered,    *)
(* the length announced for them, status reports and what is taken for     *)
(* one, and PDUs that lost their end.  Before them, lemmas about the       *)
(* conversions of TextCodec and PduCodec.                                  *)
(***************************************************************************)
EXTENDS PduPath, SequenceLemmas

Octet == 0..255
HexDigit == 0..15

-----------------------------------------------------------------------------
(***************************************************************************)
(* Octets and hex digits.                                                  *)
(***************************************************************************)
LEMMA HexWritten ==
  ASSUME NEW bytes \in Seq(Nat)
  PROVE  /\ BytesToHex(bytes) \in Seq(Nat) /\ Len(BytesToHex(bytes)) = 2 * Len(bytes)
         /\ \A k \in 1..Len(bytes) : /\ BytesToHex(bytes)[2 * k - 1] = bytes[k] \div 16
                                     /\ BytesToHex(bytes)[2 * k] = bytes[k] % 16
<1> DEFINE n == Len(bytes)
           hex == BytesToHex(bytes)
<1>1. n \in Nat /\ \A k \in 1..n : bytes[k] \in Nat
  OBVIOUS
<1> HIDE DEF n
<1>2. \A i \in 1..(2 * n) : Ceil(i, 2) \in 1..n
  BY <1>1 DEF Ceil
<1>3. hex = [i \in 1..(2 * n) |-> IF i % 2 = 1 THEN bytes[Ceil(i, 2)] \div 16 ELSE bytes[Ceil(i, 2)] % 16]
  BY DEF BytesToHex, n
<1> HIDE DEF hex
<1>4. \A i \in 1..(2 * n) : hex[i] \in Nat
  <2>1. \A x \in Nat : x \div 16 \in Nat /\ x % 16 \in Nat
    OBVIOUS
  <2> QED
    BY <1>1, <1>2, <1>3, <2>1
<1>5. hex \in Seq(Nat) /\ Len(hex) = 2 * n
  <2>1. hex \in [1..(2 * n) -> Nat]
    BY <1>3, <1>4
  <2> QED
    BY <1>1, <2>1
<1>6. ASSUME NEW k \in 1..n PROVE hex[2 * k - 1] = bytes[k] \div 16 /\ hex[2 * k] = bytes[k] % 16
  <2>1. /\ 2 * k - 1 \in 1..(2 * n) /\ 2 * k \in 1..(2 * n)
        /\ (2 * k - 1) % 2 = 1 /\ (2 * k) % 2 # 1
        /\ Ceil(2 * k - 1, 2) = k /\ Ceil(2 * k, 2) = k
    BY <1>1 DEF Ceil
  <2> QED
    BY <1>3, <2>1
<1> QED
  BY <1>5, <1>6 DEF hex, n

\* An even number of hex digits is read as half as many octets.
LEMMA HexRead ==
  ASSUME NEW hex \in Seq(Nat), HexToBytes(hex).ec = "Ok"
  PROVE  /\ Len(hex) % 2 = 0 /\ NotHex \notin ToSet(hex)
         /\ HexToBytes(hex).out \in Seq(Nat) /\ Len(HexToBytes(hex).out) = Len(hex) \div 2
         /\ \A k \in 1..(Len(hex) \div 2) :
              HexToBytes(hex).out[k] = 16 * hex[2 * k - 1] + hex[2 * k]
<1> DEFINE n == Len(hex)
           out == [i \in 1..(n \div 2) |-> 16 * hex[2 * i - 1] + hex[2 * i]]
<1>1. n \in Nat /\ \A k \in 1..n : hex[k] \in Nat
  OBVIOUS
<1>2. n % 2 = 0 /\ NotHex \notin ToSet(hex) /\ HexToBytes(hex).out = out
  <2>1. Fails("InvalidArgument").ec # "Ok"
    BY DEF Fails
  <2>2. Ok(out).out = out
    BY DEF Ok
  <2> QED
    BY <2>1, <2>2 DEF HexToBytes
<1> HIDE DEF n
<1>3. ASSUME NEW k \in 1..(n \div 2) PROVE out[k] \in Nat
  <2>1. 2 * k - 1 \in 1..n /\ 2 * k \in 1..n
    BY <1>1
  <2> QED
    BY <1>1, <2>1
<1>4. out \in Seq(Nat) /\ Len(out) = n \div 2
  <2>1. out \in [1..(n \div 2) -> Nat]
    BY <1>3
  <2>2. n \div 2 \in Nat
    BY <1>1
  <2> HIDE DEF out
  <2> QED
    BY <2>1, <2>2
<1> QED
  BY <1>2, <1>4 DEF n

\* What is read of written octets is what was written, when it can be read.
LEMMA HexReadsBack ==
  ASSUME NEW bytes \in Seq(Nat), HexToBytes(BytesToHex(bytes)).ec = "Ok"
  PROVE  HexToBytes(BytesToHex(bytes)).out = bytes
<1> DEFINE n == Len(bytes)
           hex == BytesToHex(bytes)
           out == HexToBytes(hex).out
<1>1. /\ n \in Nat /\ (\A k \in 1..n : bytes[k] \in Nat)
      /\ hex \in Seq(Nat) /\ Len(hex) = 2 * n
      /\ \A k \in 1..n : hex[2 * k - 1] = bytes[k] \div 16 /\ hex[2 * k] = bytes[k] % 16
  <2>1. n \in Nat /\ \A k \in 1..n : bytes[k] \in Nat
    OBVIOUS
  <2> QED
    BY <2>1, HexWritten
<1> HIDE DEF hex
<1>2. /\ out \in Seq(Nat) /\ Len(out) = (2 * n) \div 2
      /\ \A k \in 1..((2 * n) \div 2) : out[k] = 16 * hex[2 * k - 1] + hex[2 * k]
  <2>1. HexToBytes(hex).ec = "Ok"
    BY DEF hex
  <2> QED
    BY <1>1, <2>1, HexRead
<1>3. Len(bytes) = n
  OBVIOUS
<1> HIDE DEF n, out
<1>4. (2 * n) \div 2 = n
  BY <1>1
<1>5. ASSUME NEW k \in 1..n PROVE out[k] = bytes[k]
  <2>1. out[k] = 16 * (bytes[k] \div 16) + (bytes[k] % 16)
    BY <1>1, <1>2, <1>4
  <2>2. \A x \in Nat : 16 * (x \div 16) + (x % 16) = x
    OBVIOUS
  <2> QED
    BY <1>1, <2>1, <2>2
<1>6. out = bytes
  BY <1>2, <1>3, <1>4, <1>5, SeqEqual
<1> QED
  BY <1>6 DEF out, hex

\* Octets can.
LEMMA OctetsReadBack ==
  ASSUME NEW bytes \in Seq(Octet)
  PROVE  HexToBytes(BytesToHex(bytes)) = Ok(bytes)
<1> DEFINE n == Len(bytes)
           hex == BytesToHex(bytes)
<1>1. bytes \in Seq(Nat) /\ n \in Nat /\ \A k \in 1..n : bytes[k] \in Octet
  <2>1. n \in Nat /\ \A k \in 1..n : bytes[k] \in Octet
    OBVIOUS
  <2>2. Octet \subseteq Nat
    BY DEF Octet
  <2> QED
    BY <2>1, <2>2, SeqOver
<1>2. /\ hex \in Seq(Nat) /\ Len(hex) = 2 * n
      /\ \A k \in 1..n : hex[2 * k - 1] = bytes[k] \div 16 /\ hex[2 * k] = bytes[k] % 16
  BY <1>1, HexWritten
<1> HIDE DEF hex, n
<1>3. (2 * n) % 2 = 0
  BY <1>1
<1>4. ASSUME NEW i \in 1..(2 * n) PROVE hex[i] # NotHex
  <2>1. PICK k \in 1..n : i = 2 * k - 1 \/ i = 2 * k
    <3>1. Ceil(i, 2) \in 1..n /\ (i = 2 * Ceil(i, 2) - 1 \/ i = 2 * Ceil(i, 2))
      BY <1>1 DEF Ceil
    <3> QED
      BY <3>1
  <2>2. \A x \in Octet : x \div 16 # 16 /\ x % 16 # 16
    BY DEF Octet
  <2> QED
    BY <1>1, <1>2, <2>1, <2>2 DEF NotHex
<1>5. NotHex \notin ToSet(hex)
  BY <1>2, <1>4 DEF ToSet
<1>6. HexToBytes(hex) = Ok([i \in 1..(Len(hex) \div 2) |-> 16 * hex[2 * i - 1] + hex[2 * i]])
  BY <1>2, <1>3, <1>5 DEF HexToBytes
<1>7. HexToBytes(hex).ec = "Ok" /\ HexToBytes(hex) = Ok(HexToBytes(hex).out)
  BY <1>6 DEF Ok
<1>8. HexToBytes(hex).out = bytes
  BY <1>1, <1>7, HexReadsBack DEF hex
<1> QED
  BY <1>7, <1>8 DEF hex

-----------------------------------------------------------------------------
(***************************************************************************)
(* Addresses.                                                              *)
(***************************************************************************)
LEMMA DigitsOnly ==
  ASSUME NEW address \in Seq(Nat)
  PROVE  /\ NormalizeAddressDigits(address) \in Seq(0..9)
         /\ Len(NormalizeAddressDigits(address)) \in Nat
         /\ Len(NormalizeAddressDigits(address)) <= Len(address)
<1> DEFINE n == Len(address)
           ss == [i \in 1..n |-> IF address[i] \in 0..9 THEN <<address[i]>> ELSE <<>>]
<1>1. n \in Nat
  OBVIOUS
<1>2. DOMAIN address = 1..n
  OBVIOUS
<1>3. NormalizeAddressDigits(address) = FlattenSeq(ss)
  BY <1>2 DEF NormalizeAddressDigits
<1> HIDE DEF n
<1>4. ASSUME NEW i \in 1..n PROVE ss[i] \in Seq(0..9) /\ Len(ss[i]) <= 1
  <2>1. CASE address[i] \in 0..9
    <3> DEFINE x == address[i]
    <3>1. ss[i] = <<x>> /\ x \in 0..9
      BY <2>1
    <3> HIDE DEF x, ss
    <3>2. <<x>> \in Seq(0..9) /\ Len(<<x>>) = 1
      BY <3>1
    <3> QED
      BY <3>1, <3>2
  <2>2. CASE address[i] \notin 0..9
    <3>1. ss[i] = <<>>
      BY <2>2
    <3> QED
      BY <3>1, EmptySeq
  <2> QED
    BY <2>1, <2>2
<1>5. ss \in Seq(Seq(0..9)) /\ Len(ss) = n
  <2>1. ss \in [1..n -> Seq(0..9)]
    BY <1>4
  <2> HIDE DEF ss
  <2> QED
    BY <1>1, <2>1
<1> HIDE DEF ss
<1>6. FlattenSeq(ss) \in Seq(0..9)
  BY <1>5, FlattenSpreads
<1>7. Len(FlattenSeq(ss)) \in Nat /\ Len(FlattenSeq(ss)) <= n
  BY <1>4, <1>5, FlattenShort
<1> QED
  BY <1>3, <1>6, <1>7 DEF n

\* Digits and a filler after an odd last one.
Padded(digits) == IF Len(digits) % 2 = 1 THEN Append(digits, Filler) ELSE digits

LEMMA PaddedDigits ==
  ASSUME NEW digits \in Seq(0..9)
  PROVE  /\ Padded(digits) \in Seq(HexDigit) /\ Len(Padded(digits)) = 2 * Ceil(Len(digits), 2)
         /\ \A i \in 1..Len(digits) : Padded(digits)[i] = digits[i]
         /\ Len(digits) % 2 = 1 => Padded(digits)[Len(Padded(digits))] = Filler
<1>1. digits \in Seq(HexDigit)
  BY SeqOver DEF HexDigit
<1>2. Len(digits) \in Nat /\ 15 \in HexDigit
  BY DEF HexDigit
<1>3. CASE Len(digits) % 2 = 1
  <2>1. Padded(digits) = Append(digits, 15)
    BY <1>3 DEF Padded, Filler
  <2>2. 2 * Ceil(Len(digits), 2) = Len(digits) + 1
    BY <1>2, <1>3 DEF Ceil
  <2> QED
    BY <1>1, <1>2, <2>1, <2>2, AppendProperties DEF Filler
<1>4. CASE Len(digits) % 2 # 1
  <2>1. 2 * Ceil(Len(digits), 2) = Len(digits)
    BY <1>2, <1>4 DEF Ceil
  <2> QED
    BY <1>1, <1>4, <2>1 DEF Padded
<1> QED
  BY <1>3, <1>4

LEMMA PairsSwapped ==
  ASSUME NEW S, NEW s \in Seq(S), Len(s) % 2 = 0
  PROVE  /\ SwapPairs(s) \in Seq(S) /\ Len(SwapPairs(s)) = Len(s)
         /\ \A k \in 1..(Len(s) \div 2) : /\ SwapPairs(s)[2 * k - 1] = s[2 * k]
                                          /\ SwapPairs(s)[2 * k] = s[2 * k - 1]
<1> DEFINE n == Len(s)
           t == [i \in 1..n |-> s[IF i % 2 = 1 THEN i + 1 ELSE i - 1]]
<1>1. n \in Nat /\ n % 2 = 0 /\ (\A i \in 1..n : s[i] \in S) /\ DOMAIN s = 1..n
  OBVIOUS
<1>2. SwapPairs(s) = t
  BY <1>1 DEF SwapPairs
<1> HIDE DEF n
<1>3. ASSUME NEW i \in 1..n PROVE t[i] \in S
  <2>1. (IF i % 2 = 1 THEN i + 1 ELSE i - 1) \in 1..n
    BY <1>1
  <2> QED
    BY <1>1, <2>1
<1>4. t \in Seq(S) /\ Len(t) = n
  <2>1. t \in [1..n -> S]
    BY <1>3
  <2> HIDE DEF t
  <2> QED
    BY <1>1, <2>1
<1>5. ASSUME NEW k \in 1..(n \div 2) PROVE t[2 * k - 1] = s[2 * k] /\ t[2 * k] = s[2 * k - 1]
  <2>1. /\ 2 * k - 1 \in 1..n /\ 2 * k \in 1..n /\ (2 * k - 1) % 2 = 1 /\ (2 * k) % 2 # 1
        /\ (2 * k - 1) + 1 = 2 * k
    BY <1>1
  <2> QED
    BY <2>1
<1> QED
  BY <1>2, <1>4, <1>5 DEF n

\* Swapped twice, the pairs are as they were.
LEMMA SwappedBack ==
  ASSUME NEW S, NEW s \in Seq(S), Len(s) % 2 = 0
  PROVE  SwapPairs(SwapPairs(s)) = s
<1> DEFINE n == Len(s)
           t == SwapPairs(s)
           u == SwapPairs(t)
<1>1. n \in Nat /\ n % 2 = 0
  OBVIOUS
<1>2. /\ t \in Seq(S) /\ Len(t) = n
      /\ \A k \in 1..(n \div 2) : t[2 * k - 1] = s[2 * k] /\ t[2 * k] = s[2 * k - 1]
  BY PairsSwapped
<1> HIDE DEF t
<1>3. /\ u \in Seq(S) /\ Len(u) = n
      /\ \A k \in 1..(n \div 2) : u[2 * k - 1] = t[2 * k] /\ u[2 * k] = t[2 * k - 1]
  BY <1>1, <1>2, PairsSwapped
<1> HIDE DEF n, u
<1>4. ASSUME NEW i \in 1..n PROVE u[i] = s[i]
  <2>1. PICK k \in 1..(n \div 2) : i = 2 * k - 1 \/ i = 2 * k
    <3>1. Ceil(i, 2) \in 1..(n \div 2) /\ (i = 2 * Ceil(i, 2) - 1 \/ i = 2 * Ceil(i, 2))
      BY <1>1 DEF Ceil
    <3> QED
      BY <3>1
  <2> QED
    BY <1>2, <1>3, <2>1
<1>5. u = s
  <2>1. Len(s) = n
    BY DEF n
  <2> QED
    BY <1>3, <1>4, <2>1, SeqEqual
<1> QED
  BY <1>5 DEF u, t

LEMMA DigitsInOctets ==
  ASSUME NEW digits \in Seq(0..9)
  PROVE  /\ DigitOctets(digits) \in Seq(Octet) /\ Len(DigitOctets(digits)) = Ceil(Len(digits), 2)
         /\ BytesToHex(DigitOctets(digits)) = InvertDigits(digits)
<1> DEFINE p == Padded(digits)
           q == SwapPairs(p)
           h == Ceil(Len(digits), 2)
           out == HexToBytes(q).out
<1>1. h \in Nat
  <2>1. Len(digits) \in Nat
    OBVIOUS
  <2> QED
    BY <2>1 DEF Ceil
<1>2. p \in Seq(HexDigit) /\ Len(p) = 2 * h
  BY PaddedDigits
<1> HIDE DEF p, h
<1>3. q \in Seq(HexDigit) /\ Len(q) = 2 * h
  <2>1. (2 * h) % 2 = 0
    BY <1>1
  <2> QED
    BY <1>2, <2>1, PairsSwapped
<1>4. InvertDigits(digits) = q
  BY DEF InvertDigits, Padded, p
<1> HIDE DEF q
<1>5. q \in Seq(Nat) /\ \A i \in 1..(2 * h) : q[i] \in HexDigit
  <2>1. HexDigit \subseteq Nat
    BY DEF HexDigit
  <2>2. q \in Seq(Nat)
    BY <1>3, <2>1, SeqOver
  <2> QED
    BY <1>3, <2>2
<1>6. HexToBytes(q).ec = "Ok"
  <2>1. NotHex \notin ToSet(q)
    <3>1. DOMAIN q = 1..(2 * h)
      BY <1>3
    <3>2. \A x \in HexDigit : x # NotHex
      BY DEF HexDigit, NotHex
    <3> QED
      BY <1>5, <3>1, <3>2 DEF ToSet
  <2>2. Len(q) % 2 = 0
    BY <1>1, <1>3
  <2> QED
    BY <2>1, <2>2 DEF HexToBytes, Ok
<1>7. /\ out \in Seq(Nat) /\ Len(out) = h
      /\ \A k \in 1..h : out[k] = 16 * q[2 * k - 1] + q[2 * k]
  <2>1. (2 * h) \div 2 = h
    BY <1>1
  <2> QED
    BY <1>3, <1>5, <1>6, <2>1, HexRead
<1> HIDE DEF out
<1>8. ASSUME NEW k \in 1..h
      PROVE  out[k] \in Octet /\ out[k] \div 16 = q[2 * k - 1] /\ out[k] % 16 = q[2 * k]
  <2>1. q[2 * k - 1] \in HexDigit /\ q[2 * k] \in HexDigit
    <3>1. 2 * k - 1 \in 1..(2 * h) /\ 2 * k \in 1..(2 * h)
      BY <1>1
    <3> QED
      BY <1>5, <3>1
  <2>2. \A x, y \in HexDigit : /\ 16 * x + y \in Octet
                               /\ (16 * x + y) \div 16 = x /\ (16 * x + y) % 16 = y
    BY DEF HexDigit, Octet
  <2> QED
    BY <1>7, <2>1, <2>2
<1>9. out \in Seq(Octet)
  <2>1. out \in [1..h -> Octet]
    BY <1>7, <1>8
  <2> QED
    BY <1>1, <2>1
<1>10. BytesToHex(out) = q
  <2> DEFINE hex == BytesToHex(out)
  <2>1. /\ hex \in Seq(Nat) /\ Len(hex) = 2 * h
        /\ \A k \in 1..h : hex[2 * k - 1] = out[k] \div 16 /\ hex[2 * k] = out[k] % 16
    BY <1>7, HexWritten
  <2> HIDE DEF hex
  <2>2. ASSUME NEW i \in 1..(2 * h) PROVE hex[i] = q[i]
    <3>1. PICK k \in 1..h : i = 2 * k - 1 \/ i = 2 * k
      <4>1. Ceil(i, 2) \in 1..h /\ (i = 2 * Ceil(i, 2) - 1 \/ i = 2 * Ceil(i, 2))
        BY <1>1 DEF Ceil
      <4> QED
        BY <4>1
    <3> QED
      BY <1>8, <2>1, <3>1
  <2>3. hex = q
    BY <1>3, <1>5, <2>1, <2>2, SeqEqual
  <2> QED
    BY <2>3 DEF hex
<1>11. DigitOctets(digits) = out
  BY <1>4 DEF DigitOctets, out
<1> QED
  BY <1>4, <1>7, <1>9, <1>10, <1>11 DEF h

(***************************************************************************)
(* An address reads as the digits that were written.                       *)
(***************************************************************************)
LEMMA DigitsReadBack ==
  ASSUME NEW digits \in Seq(0..9)
  PROVE  OctetDigits(DigitOctets(digits)) = digits
<1> DEFINE p == Padded(digits)
<1>1. Len(digits) \in Nat /\ \A i \in 1..Len(digits) : digits[i] \in 0..9
  OBVIOUS
<1>2. /\ p \in Seq(HexDigit) /\ Len(p) = 2 * Ceil(Len(digits), 2)
      /\ \A i \in 1..Len(digits) : p[i] = digits[i]
      /\ Len(digits) % 2 = 1 => p[Len(p)] = Filler
  BY PaddedDigits
<1>3. InvertDigits(digits) = SwapPairs(p)
  BY DEF InvertDigits, Padded
<1>4. SwapPairs(SwapPairs(p)) = p
  <2>1. Len(p) % 2 = 0
    BY <1>1, <1>2 DEF Ceil
  <2> QED
    BY <1>2, <2>1, SwappedBack
<1>5. OctetDigits(DigitOctets(digits)) = IF p # <<>> /\ Last(p) = Filler THEN Front(p) ELSE p
  BY <1>3, <1>4, DigitsInOctets DEF OctetDigits, SerializeDigits
<1>6. CASE Len(digits) % 2 = 1
  <2>1. p = Append(digits, Filler)
    BY <1>6 DEF Padded
  <2>2. p # <<>> /\ Last(p) = Filler
    <3>1. p # <<>>
      BY <2>1, AppendProperties
    <3> QED
      BY <1>2, <1>6, <3>1 DEF Last
  <2>3. Front(p) = digits
    <3> DEFINE n == Len(digits)
    <3>1. Len(p) = n + 1 /\ (n + 1) - 1 = n /\ n \in Nat
      BY <1>1, <2>1
    <3>2. Front(p) = [i \in 1..n |-> p[i]]
      BY <3>1 DEF Front
    <3>3. digits = [i \in 1..n |-> digits[i]]
      OBVIOUS
    <3> QED
      BY <1>2, <3>2, <3>3
  <2> QED
    BY <1>5, <2>2, <2>3
<1>7. CASE Len(digits) % 2 # 1
  <2>1. p = digits
    BY <1>7 DEF Padded
  <2>2. digits # <<>> => Last(digits) # Filler
    <3>1. ASSUME digits # <<>> PROVE Last(digits) # Filler
      <4>1. Len(digits) \in 1..Len(digits)
        BY <1>1, <3>1, EmptySeq
      <4> QED
        BY <1>1, <4>1 DEF Last, Filler
    <3> QED
      BY <3>1
  <2> QED
    BY <1>5, <2>1, <2>2
<1> QED
  BY <1>1, <1>6, <1>7

-----------------------------------------------------------------------------
(***************************************************************************)
(* The units of a text.                                                    *)
(***************************************************************************)
LEMMA CodePointCases ==
  ASSUME NEW text, NEW i, NEW n \in 1..4
  PROVE  CodePoint(text, i, n) =
           IF n = 1 THEN text[i]
           ELSE IF n = 2 THEN 64 * (text[i] % 32) + (text[i + 1] % 64)
           ELSE IF n = 3 THEN 4096 * (text[i] % 16) + 64 * (text[i + 1] % 64) + (text[i + 2] % 64)
           ELSE 262144 * (text[i] % 8) + 4096 * (text[i + 1] % 64) + 64 * (text[i + 2] % 64)
                  + (text[i + 3] % 64)
BY DEF CodePoint

LEMMA CodePointTyped ==
  ASSUME NEW text, NEW i \in Nat, NEW n \in 1..4, \A k \in 0..(n - 1) : text[i + k] \in 0..255
  PROVE  CodePoint(text, i, n) \in Nat
<1>1. \A x \in 0..255 : /\ x \in Nat /\ x % 64 \in Nat /\ x % 32 \in Nat
                        /\ x % 16 \in Nat /\ x % 8 \in Nat
  OBVIOUS
<1>2. text[i] \in 0..255
  OBVIOUS
<1>3. CASE n = 1
  <2>1. CodePoint(text, i, n) = text[i]
    BY <1>3, CodePointCases, SMT
  <2> QED
    BY <1>1, <1>2, <2>1
<1>4. CASE n = 2
  <2>1. CodePoint(text, i, n) = 64 * (text[i] % 32) + (text[i + 1] % 64)
    BY <1>4, CodePointCases, SMT
  <2>2. text[i + 1] \in 0..255
    BY <1>4
  <2> QED
    BY <1>1, <1>2, <2>1, <2>2, SMTT(30)
<1>5. CASE n = 3
  <2>1. CodePoint(text, i, n) =
          4096 * (text[i] % 16) + 64 * (text[i + 1] % 64) + (text[i + 2] % 64)
    BY <1>5, CodePointCases, SMT
  <2>2. text[i + 1] \in 0..255 /\ text[i + 2] \in 0..255
    BY <1>5
  <2>3. text[i] % 16 \in Nat /\ text[i + 1] % 64 \in Nat /\ text[i + 2] % 64 \in Nat
    BY <1>1, <1>2, <2>2
  <2>4. \A a, b, c \in Nat : 4096 * a + 64 * b + c \in Nat
    BY SMT
  <2> QED
    BY <2>1, <2>3, <2>4, SMT
<1>6. CASE n = 4
  <2>1. CodePoint(text, i, n) =
          262144 * (text[i] % 8) + 4096 * (text[i + 1] % 64) + 64 * (text[i + 2] % 64)
            + (text[i + 3] % 64)
    BY <1>6, CodePointCases, SMT
  <2>2. text[i + 1] \in 0..255 /\ text[i + 2] \in 0..255 /\ text[i + 3] \in 0..255
    BY <1>6
  <2>3. /\ text[i] % 8 \in Nat /\ text[i + 1] % 64 \in Nat /\ text[i + 2] % 64 \in Nat
        /\ text[i + 3] % 64 \in Nat
    BY <1>1, <1>2, <2>2
  <2>4. \A a, b, c, d \in Nat : 262144 * a + 4096 * b + 64 * c + d \in Nat
    BY SMT
  <2> QED
    BY <2>1, <2>3, <2>4, SMT
<1> QED
  BY <1>3, <1>4, <1>5, <1>6

LEMMA NextInText ==
  ASSUME NEW text \in Seq(Octet), NEW i \in 1..Len(text)
  PROVE  /\ Utf8Next(text, i) \in 0..4 /\ i + Utf8Next(text, i) <= Len(text) + 1
         /\ Utf8Next(text, i) # 0 => CodePoint(text, i, Utf8Next(text, i)) \in Nat
<1> DEFINE n == Utf8Size(text[i])
           m == Utf8Next(text, i)
           N == Len(text)
<1>1. N \in Nat /\ i \in 1..N /\ \A j \in 1..N : text[j] \in 0..255
  <2>1. N \in Nat /\ i \in 1..N /\ \A j \in 1..N : text[j] \in Octet
    OBVIOUS
  <2> QED
    BY <2>1 DEF Octet
<1>2. n \in 0..4
  BY DEF Utf8Size
<1> HIDE DEF n
<1>3. m = IF i + n - 1 > N THEN 0 ELSE n
  BY DEF Utf8Next, n
<1> HIDE DEF m, N
<1>4. m \in 0..4 /\ i + m <= N + 1
  BY <1>1, <1>2, <1>3
<1>5. ASSUME m # 0 PROVE CodePoint(text, i, m) \in Nat
  <2>1. \A k \in 0..(m - 1) : i + k \in 1..N
    BY <1>1, <1>4
  <2>2. m \in 1..4 /\ \A k \in 0..(m - 1) : text[i + k] \in 0..255
    BY <1>1, <1>4, <1>5, <2>1
  <2> QED
    BY <1>1, <2>2, CodePointTyped
<1> QED
  BY <1>4, <1>5 DEF m, N

\* The results of a conversion into elements of S that may fail with an error e.
Results(S, e) == {r \in [ec : {"Ok", e}, out : Seq(S)] : r.ec = "Ok" \/ r.out = <<>>}

LEMMA ResultsMade ==
  ASSUME NEW S, NEW e
  PROVE  Fails(e) \in Results(S, e) /\ \A s \in Seq(S) : Ok(s) \in Results(S, e)
<1>1. <<>> \in Seq(S)
  BY EmptySeq
<1> QED
  BY <1>1 DEF Fails, Ok, Results

LEMMA CodePointsTyped ==
  ASSUME NEW text \in Seq(Octet)
  PROVE  CodePoints(text) \in Results(Nat, "EncodeFailure")
<1> DEFINE N == Len(text)
           D == Results(Nat, "EncodeFailure")
           Body(g, i) ==
             IF i > N THEN Ok(<<>>)
             ELSE LET n == Utf8Next(text, i)
                      rest == g[i + n]
                  IN IF n = 0 THEN Fails("EncodeFailure")
                     ELSE IF rest.ec # "Ok" THEN rest ELSE Ok(<<CodePoint(text, i, n)>> \o rest.out)
           Rec(g) == g = [i \in 1..(N + 1) |-> Body(g, i)]
           from == CHOOSE g : Rec(g)
<1>1. N \in Nat
  OBVIOUS
<1>2. CodePoints(text) = from[1]
  BY DEF CodePoints
<1>3. \A i \in 1..N : /\ Utf8Next(text, i) \in 0..4 /\ i + Utf8Next(text, i) <= N + 1
                      /\ Utf8Next(text, i) # 0 => CodePoint(text, i, Utf8Next(text, i)) \in Nat
  BY NextInText
<1> HIDE DEF N
<1> DEFINE next == [i \in 0..(N + 1) |-> IF i = 0 \/ Utf8Next(text, i) = 0 THEN i + 1
                                         ELSE i + Utf8Next(text, i)]
           step == [x \in (0..(N + 1)) \X D |->
                      IF x[1] = 0 \/ Utf8Next(text, x[1]) = 0 THEN Fails("EncodeFailure")
                      ELSE IF x[2].ec # "Ok" THEN x[2]
                      ELSE Ok(<<CodePoint(text, x[1], Utf8Next(text, x[1]))>> \o x[2].out)]
<1>4. Ok(<<>>) \in D /\ Fails("EncodeFailure") \in D
  BY EmptySeq, ResultsMade
<1>5. ASSUME NEW i \in 1..N, Utf8Next(text, i) # 0, NEW d \in D, d.ec = "Ok"
      PROVE  Ok(<<CodePoint(text, i, Utf8Next(text, i))>> \o d.out) \in D
  <2>1. d.out \in Seq(Nat)
    BY <1>5 DEF Results
  <2>2. <<CodePoint(text, i, Utf8Next(text, i))>> \in Seq(Nat)
    BY <1>3, <1>5
  <2>3. <<CodePoint(text, i, Utf8Next(text, i))>> \o d.out \in Seq(Nat)
    BY <2>1, <2>2, ConcatProperties
  <2> QED
    BY <2>3, ResultsMade
<1>6. ASSUME NEW i \in 0..(N + 1), i # N + 1 PROVE next[i] \in (i + 1)..(N + 1)
  BY <1>1, <1>3, <1>6
<1>7. ASSUME NEW i \in 0..(N + 1), NEW d \in D, i # N + 1 PROVE step[<<i, d>>] \in D
  <2> HIDE DEF D
  <2>1. step[<<i, d>>] = IF i = 0 \/ Utf8Next(text, i) = 0 THEN Fails("EncodeFailure")
                         ELSE IF d.ec # "Ok" THEN d
                         ELSE Ok(<<CodePoint(text, i, Utf8Next(text, i))>> \o d.out)
    OBVIOUS
  <2>2. i # 0 => i \in 1..N
    BY <1>1, <1>7
  <2> HIDE DEF step
  <2> QED
    BY <1>4, <1>5, <2>1, <2>2
<1>8. PICK g : g \in Descents(D, 0, N + 1, Ok(<<>>), next, step)
  <2> HIDE DEF next, step, D
  <2>1. N + 1 \in Nat
    BY <1>1
  <2> QED
    BY <1>4, <1>6, <1>7, <2>1, DescentExists
<1>9. /\ g \in [0..(N + 1) -> D] /\ g[N + 1] = Ok(<<>>)
      /\ \A i \in 0..(N + 1) : i # N + 1 => g[i] = step[<<i, g[next[i]]>>]
  BY <1>8 DEF Descents
<1> DEFINE f == [i \in 1..(N + 1) |-> g[i]]
<1>10. ASSUME NEW i \in 1..(N + 1) PROVE g[i] = Body(f, i)
  <2>1. CASE i = N + 1
    <3>1. i > N
      BY <1>1, <2>1
    <3> QED
      BY <1>9, <2>1, <3>1
  <2>2. CASE i # N + 1
    <3> DEFINE n == Utf8Next(text, i)
               j == next[i]
    <3>1. i \in 1..N /\ i \in 0..(N + 1) /\ ~(i > N)
      BY <1>1, <2>2
    <3>2. j \in 1..(N + 1) /\ (n # 0 => j = i + n)
      BY <1>1, <1>6, <2>2, <3>1
    <3> HIDE DEF next
    <3>3. g[i] = step[<<i, g[j]>>] /\ g[j] \in D
      <4> HIDE DEF D, step
      <4>1. j \in 0..(N + 1)
        BY <1>1, <3>2
      <4> QED
        BY <1>9, <2>2, <3>1, <4>1
    <3> HIDE DEF j, D
    <3>4. g[i] = IF n = 0 THEN Fails("EncodeFailure")
                 ELSE IF g[j].ec # "Ok" THEN g[j] ELSE Ok(<<CodePoint(text, i, n)>> \o g[j].out)
      BY <1>1, <3>1, <3>3
    <3> HIDE DEF step, n
    <3>5. n # 0 => f[i + n] = g[j]
      BY <3>2
    <3> HIDE DEF f
    <3>6. Body(f, i) = IF n = 0 THEN Fails("EncodeFailure")
                       ELSE IF f[i + n].ec # "Ok" THEN f[i + n]
                       ELSE Ok(<<CodePoint(text, i, n)>> \o f[i + n].out)
      BY <3>1 DEF n
    <3> HIDE DEF Body
    <3> QED
      BY <3>4, <3>5, <3>6
  <2> QED
    BY <2>1, <2>2
<1>11. Rec(f)
  <2> HIDE DEF Body
  <2>1. f = [i \in 1..(N + 1) |-> Body(f, i)]
    BY <1>10
  <2> QED
    BY <2>1
<1>12. Rec(from)
  <2> HIDE DEF Rec, f
  <2> QED
    BY <1>11
<1> HIDE DEF from, f
<1>13. \A i \in 1..(N + 1) : from[i] = Body(from, i)
  <2> HIDE DEF Body
  <2> QED
    BY <1>12
<1> DEFINE S == {i \in 0..(N + 1) : i = 0 \/ from[i] \in D}
<1>14. N + 1 \in S
  <2>1. N + 1 \in 1..(N + 1) /\ N + 1 > N /\ N + 1 \in 0..(N + 1)
    BY <1>1
  <2>2. from[N + 1] = Ok(<<>>)
    BY <1>13, <2>1
  <2> QED
    BY <1>4, <2>1, <2>2
<1>15. ASSUME NEW i \in 0..(N + 1), i # N + 1, \A j \in (i + 1)..(N + 1) : j \in S PROVE i \in S
  <2> DEFINE n == Utf8Next(text, i)
  <2>1. CASE i = 0
    BY <2>1
  <2>2. CASE i # 0
    <3>1. i \in 1..N /\ i \in 1..(N + 1) /\ ~(i > N)
      BY <1>1, <1>15, <2>2
    <3>2. CASE n = 0
      <4>1. from[i] = Fails("EncodeFailure")
        BY <1>13, <3>1, <3>2
      <4> QED
        BY <1>4, <4>1
    <3>3. CASE n # 0
      <4>1. i + n \in (i + 1)..(N + 1) /\ i + n # 0
        BY <1>1, <1>3, <3>1, <3>3
      <4>2. from[i + n] \in D
        BY <1>15, <4>1
      <4>3. from[i] = IF from[i + n].ec # "Ok" THEN from[i + n]
                      ELSE Ok(<<CodePoint(text, i, n)>> \o from[i + n].out)
        BY <1>13, <3>1, <3>3
      <4>4. from[i + n].ec = "Ok" => Ok(<<CodePoint(text, i, n)>> \o from[i + n].out) \in D
        BY <1>5, <3>1, <3>3, <4>2
      <4> HIDE DEF D
      <4>5. from[i] \in D
        BY <4>2, <4>3, <4>4
      <4> QED
        BY <4>5
    <3> QED
      BY <3>2, <3>3
  <2> QED
    BY <2>1, <2>2
<1>16. 1 \in S
  <2> HIDE DEF S
  <2>1. \A i \in 0..(N + 1) : i \in S
    <3>1. N + 1 \in Nat
      BY <1>1
    <3> QED
      BY <1>14, <1>15, <3>1, DownTo
  <2> QED
    BY <1>1, <2>1
<1> QED
  BY <1>2, <1>16

Septet == 0..127
Unit == {u \in Nat : u < 65536}

LEMMA SeptetsOf ==
  ASSUME NEW cp
  PROVE  Gsm7(cp) \in Seq(Septet)
<1> DEFINE basic == {i \in 0..127 : i # Esc /\ GsmBasic[i + 1] = cp}
           ext == {e \in GsmExt : e[2] = cp}
<1>1. basic \subseteq Septet /\ basic \in SUBSET Nat
  BY DEF Septet
<1>2. \A e \in GsmExt : e[1] \in Septet
  BY DEF GsmExt, Septet
<1>3. Gsm7(cp) = IF basic # {} THEN <<Min(basic)>>
                 ELSE IF ext # {} THEN <<Esc, (CHOOSE e \in ext : TRUE)[1]>> ELSE <<>>
  BY DEF Gsm7
<1>4. ext \subseteq GsmExt
  OBVIOUS
<1> HIDE DEF basic, ext
<1>5. CASE basic # {}
  <2> DEFINE x == Min(basic)
  <2>1. x \in Septet
    BY <1>1, <1>5, LeastOf
  <2> HIDE DEF x
  <2>2. <<x>> \in Seq(Septet)
    BY <2>1
  <2> QED
    BY <1>3, <1>5, <2>2 DEF x
<1>6. CASE basic = {} /\ ext # {}
  <2> DEFINE x == (CHOOSE e \in ext : TRUE)[1]
  <2>1. x \in Septet
    BY <1>2, <1>4, <1>6
  <2>2. Esc \in Septet
    BY DEF Esc, Septet
  <2> HIDE DEF x
  <2>3. <<Esc, x>> \in Seq(Septet)
    BY <2>1, <2>2
  <2> QED
    BY <1>3, <1>6, <2>3 DEF x
<1>7. CASE basic = {} /\ ext = {}
  BY <1>3, <1>7, EmptySeq
<1> QED
  BY <1>5, <1>6, <1>7

LEMMA UnitsOf ==
  ASSUME NEW cp \in Nat
  PROVE  Utf16(cp) \in Seq(Unit)
<1>1. CASE cp < 65536
  <2>1. cp \in Unit
    BY <1>1 DEF Unit
  <2>2. <<cp>> \in Seq(Unit)
    BY <2>1
  <2> QED
    BY <1>1, <2>2 DEF Utf16
<1>2. CASE ~(cp < 65536)
  <2> DEFINE x == (cp - 65536) \div 1024
             y == cp - 65536
             high == 55296 + (x % 1024)
             low == 56320 + (y % 1024)
  <2>1. x \in Nat /\ y \in Nat
    BY <1>2
  <2>2. \A z \in Nat : z % 1024 \in Nat /\ z % 1024 < 1024
    OBVIOUS
  <2>3. high \in Unit /\ low \in Unit
    <3> HIDE DEF x, y
    <3>1. x % 1024 \in Nat /\ x % 1024 < 1024 /\ y % 1024 \in Nat /\ y % 1024 < 1024
      BY <2>1, <2>2
    <3> QED
      BY <3>1 DEF Unit
  <2>4. Utf16(cp) = <<high, low>>
    BY <1>2 DEF Utf16
  <2> HIDE DEF high, low
  <2>5. <<high, low>> \in Seq(Unit)
    BY <2>3
  <2> QED
    BY <2>4, <2>5
<1> QED
  BY <1>1, <1>2

LEMMA Utf8ToGsm7Typed ==
  ASSUME NEW text \in Seq(Octet)
  PROVE  Utf8ToGsm7(text) \in Results(Septet, "EncodeFailure")
<1> DEFINE cps == CodePoints(text).out
           n == Len(cps)
           septets == [i \in 1..n |-> Gsm7(cps[i])]
<1>1. cps \in Seq(Nat)
  BY CodePointsTyped DEF Results
<1> HIDE DEF cps
<1>2. DOMAIN cps = 1..n /\ n \in Nat
  BY <1>1
<1>3. \/ Utf8ToGsm7(text) = Fails("EncodeFailure")
      \/ Utf8ToGsm7(text) = Ok(FlattenSeq(septets))
  BY <1>2 DEF Utf8ToGsm7, cps
<1> HIDE DEF n
<1>4. septets \in Seq(Seq(Septet))
  <2>1. septets \in [1..n -> Seq(Septet)]
    BY SeptetsOf
  <2> HIDE DEF septets
  <2> QED
    BY <1>2, <2>1
<1> HIDE DEF septets
<1>5. FlattenSeq(septets) \in Seq(Septet)
  BY <1>4, FlattenSpreads
<1> QED
  BY <1>3, <1>5, ResultsMade

LEMMA EncodeUcs2Typed ==
  ASSUME NEW text \in Seq(Octet)
  PROVE  EncodeUcs2(text) \in Results(Unit, "EncodeFailure")
<1> DEFINE all == CodePoints(text)
           cps == all.out
           n == Len(cps)
           pieces == [i \in 1..n |-> Utf16(cps[i])]
<1>1. all \in Results(Nat, "EncodeFailure")
  BY CodePointsTyped
<1> HIDE DEF all
<1>2. cps \in Seq(Nat) /\ DOMAIN cps = 1..n /\ n \in Nat /\ \A i \in 1..n : cps[i] \in Nat
  <2>1. cps \in Seq(Nat)
    BY <1>1 DEF Results
  <2> HIDE DEF cps
  <2> QED
    BY <2>1
<1>3. EncodeUcs2(text) = IF all.ec # "Ok" THEN all ELSE Ok(FlattenSeq(pieces))
  BY <1>2 DEF EncodeUcs2, all
<1> HIDE DEF n
<1>4. pieces \in Seq(Seq(Unit))
  <2>1. pieces \in [1..n -> Seq(Unit)]
    BY <1>2, UnitsOf
  <2> HIDE DEF pieces
  <2> QED
    BY <1>2, <2>1
<1> HIDE DEF pieces, cps
<1>5. Ok(FlattenSeq(pieces)) \in Results(Unit, "EncodeFailure")
  BY <1>4, FlattenSpreads, ResultsMade
<1>6. all.ec # "Ok" => all \in Results(Unit, "EncodeFailure")
  BY <1>1, EmptySeq DEF Results
<1> QED
  BY <1>3, <1>5, <1>6

-----------------------------------------------------------------------------
(***************************************************************************)
(* Units in octets.                                                        *)
(***************************************************************************)
LEMMA OctetsTyped ==
  ASSUME NEW units \in Seq(Unit)
  PROVE  Octets(units) \in Seq(Octet) /\ Len(Octets(units)) = 2 * Len(units)
<1> DEFINE n == Len(units)
           pieces == [i \in 1..n |-> <<units[i] \div 256, units[i] % 256>>]
           f == [k \in 0..n |-> 2 * k]
<1>1. n \in Nat /\ DOMAIN units = 1..n /\ \A i \in 1..n : units[i] \in Unit
  OBVIOUS
<1>2. Octets(units) = FlattenSeq(pieces)
  BY <1>1 DEF Octets
<1> HIDE DEF n
<1>3. ASSUME NEW i \in 1..n PROVE pieces[i] \in Seq(Octet) /\ Len(pieces[i]) = 2
  <2> DEFINE u == units[i]
             high == u \div 256
             low == u % 256
  <2>1. \A v \in Unit : v \div 256 \in Octet /\ v % 256 \in Octet
    BY DEF Unit, Octet
  <2>2. high \in Octet /\ low \in Octet
    BY <1>1, <2>1
  <2>3. pieces[i] = <<high, low>>
    OBVIOUS
  <2> HIDE DEF high, low, pieces
  <2>4. <<high, low>> \in Seq(Octet) /\ Len(<<high, low>>) = 2
    BY <2>2
  <2> QED
    BY <2>3, <2>4
<1>4. pieces \in Seq(Seq(Octet)) /\ Len(pieces) = n
  <2>1. pieces \in [1..n -> Seq(Octet)]
    BY <1>3
  <2> HIDE DEF pieces
  <2> QED
    BY <1>1, <2>1
<1> HIDE DEF pieces
<1>5. FlattenSeq(pieces) \in Seq(Octet)
  BY <1>4, FlattenSpreads
<1>6. Len(FlattenSeq(pieces)) = f[n]
  <2>1. f \in [0..Len(pieces) -> Nat] /\ f[0] = 0
    BY <1>1, <1>4
  <2>2. ASSUME NEW k \in 0..Len(pieces), k < Len(pieces)
        PROVE  f[k + 1] = f[k] + Len(pieces[k + 1])
    <3>1. k + 1 \in 1..n /\ k \in 0..n /\ k + 1 \in 0..n
      BY <1>1, <1>4, <2>2
    <3>2. Len(pieces[k + 1]) = 2 /\ f[k + 1] = 2 * (k + 1) /\ f[k] = 2 * k
      BY <1>3, <3>1
    <3> QED
      BY <3>1, <3>2
  <2> HIDE DEF f
  <2> QED
    BY <1>4, <2>1, <2>2, FlattenLength
<1> QED
  BY <1>1, <1>2, <1>5, <1>6 DEF n

\* The low bits of a septet, moved up, and what is left of the one before it, at
\* the place r of a group of eight.
LEMMA SeptetsMeet ==
  ASSUME NEW a \in Septet, NEW b \in Septet, NEW r \in 1..7
  PROVE  ((a * 2^(8 - r)) % 256) + (b \div 2^(r - 1)) \in Octet
<1> USE DEF Septet, Octet
<1>1. CASE r = 1
  <2>1. 2^(8 - r) = 128 /\ 2^(r - 1) = 1
    BY <1>1
  <2> QED
    BY <2>1
<1>2. CASE r = 2
  <2>1. 2^(8 - r) = 64 /\ 2^(r - 1) = 2
    BY <1>2
  <2> QED
    BY <2>1
<1>3. CASE r = 3
  <2>1. 2^(8 - r) = 32 /\ 2^(r - 1) = 4
    BY <1>3
  <2> QED
    BY <2>1
<1>4. CASE r = 4
  <2>1. 2^(8 - r) = 16 /\ 2^(r - 1) = 8
    BY <1>4
  <2> QED
    BY <2>1
<1>5. CASE r = 5
  <2>1. 2^(8 - r) = 8 /\ 2^(r - 1) = 16
    BY <1>5
  <2> QED
    BY <2>1
<1>6. CASE r = 6
  <2>1. 2^(8 - r) = 4 /\ 2^(r - 1) = 32
    BY <1>6
  <2> QED
    BY <2>1
<1>7. CASE r = 7
  <2>1. 2^(8 - r) = 2 /\ 2^(r - 1) = 64
    BY <1>7
  <2> QED
    BY <2>1
<1> QED
  BY <1>1, <1>2, <1>3, <1>4, <1>5, <1>6, <1>7

LEMMA SeptetLeft ==
  ASSUME NEW a \in Septet, NEW r \in 0..7
  PROVE  a \div 2^r \in Octet
<1> USE DEF Septet, Octet
<1>0. CASE r = 0
  <2>1. 2^r = 1
    BY <1>0
  <2> QED
    BY <2>1
<1>1. CASE r = 1
  <2>1. 2^r = 2
    BY <1>1
  <2> QED
    BY <2>1
<1>2. CASE r = 2
  <2>1. 2^r = 4
    BY <1>2
  <2> QED
    BY <2>1
<1>3. CASE r = 3
  <2>1. 2^r = 8
    BY <1>3
  <2> QED
    BY <2>1
<1>4. CASE r = 4
  <2>1. 2^r = 16
    BY <1>4
  <2> QED
    BY <2>1
<1>5. CASE r = 5
  <2>1. 2^r = 32
    BY <1>5
  <2> QED
    BY <2>1
<1>6. CASE r = 6
  <2>1. 2^r = 64
    BY <1>6
  <2> QED
    BY <2>1
<1>7. CASE r = 7
  <2>1. 2^r = 128
    BY <1>7
  <2> QED
    BY <2>1
<1> QED
  BY <1>0, <1>1, <1>2, <1>3, <1>4, <1>5, <1>6, <1>7

LEMMA Encode7bitTyped ==
  ASSUME NEW septets \in Seq(Septet)
  PROVE  /\ Encode7bit(septets) \in Seq(Octet)
         /\ Len(Encode7bit(septets)) = Ceil(7 * Len(septets), 8)
<1> DEFINE n == Len(septets)
           left(k) == septets[k] \div 2^((k - 1) % 8)
           octet(k) == IF k % 8 = 1 THEN <<>>
                       ELSE <<((septets[k] * 2^(8 - ((k - 1) % 8))) % 256) + left(k - 1)>>
           last == IF n % 8 = 0 THEN <<>> ELSE <<left(n)>>
           pieces == [k \in 1..n |-> octet(k)]
           f == [k \in 0..n |-> k - Ceil(k, 8)]
<1>1. n \in Nat /\ DOMAIN septets = 1..n /\ \A k \in 1..n : septets[k] \in Septet
  OBVIOUS
<1>2. Encode7bit(septets) = FlattenSeq(pieces) \o last
  BY <1>1 DEF Encode7bit
<1> HIDE DEF n
<1>3. ASSUME NEW k \in 1..n
      PROVE  octet(k) \in Seq(Octet) /\ Len(octet(k)) = IF k % 8 = 1 THEN 0 ELSE 1
  <2>1. CASE k % 8 = 1
    <3>1. octet(k) = <<>>
      BY <2>1
    <3> QED
      BY <2>1, <3>1, EmptySeq
  <2>2. CASE k % 8 # 1
    <3> DEFINE r == (k - 1) % 8
               x == ((septets[k] * 2^(8 - r)) % 256) + (septets[k - 1] \div 2^(r - 1))
    <3>1. r \in 1..7 /\ k - 1 \in 1..n /\ ((k - 1) - 1) % 8 = r - 1
      BY <1>1, <2>2
    <3>2. x \in Octet
      <4> HIDE DEF r
      <4>1. septets[k] \in Septet /\ septets[k - 1] \in Septet
        BY <1>1, <3>1
      <4> QED
        BY <3>1, <4>1, SeptetsMeet
    <3>3. octet(k) = <<x>>
      BY <2>2, <3>1
    <3> HIDE DEF x, octet
    <3>4. <<x>> \in Seq(Octet) /\ Len(<<x>>) = 1
      BY <3>2
    <3> QED
      BY <2>2, <3>3, <3>4
  <2> QED
    BY <2>1, <2>2
<1>4. last \in Seq(Octet) /\ Len(last) = IF n % 8 = 0 THEN 0 ELSE 1
  <2>1. CASE n % 8 = 0
    <3>1. last = <<>>
      BY <2>1
    <3> QED
      BY <2>1, <3>1, EmptySeq
  <2>2. CASE n % 8 # 0
    <3> DEFINE x == left(n)
    <3>1. (n - 1) % 8 \in 0..7 /\ n \in 1..n
      BY <1>1, <2>2
    <3>2. x \in Octet
      BY <1>1, <3>1, SeptetLeft
    <3>3. last = <<x>>
      BY <2>2
    <3> HIDE DEF x, last
    <3>4. <<x>> \in Seq(Octet) /\ Len(<<x>>) = 1
      BY <3>2
    <3> QED
      BY <2>2, <3>3, <3>4
  <2> QED
    BY <2>1, <2>2
<1> HIDE DEF octet, last
<1>5. pieces \in Seq(Seq(Octet)) /\ Len(pieces) = n
  <2>1. pieces \in [1..n -> Seq(Octet)]
    BY <1>3
  <2> HIDE DEF pieces
  <2> QED
    BY <1>1, <2>1
<1>6. \A k \in 1..n : Len(pieces[k]) = IF k % 8 = 1 THEN 0 ELSE 1
  BY <1>3
<1> HIDE DEF pieces
<1>7. FlattenSeq(pieces) \in Seq(Octet)
  BY <1>5, FlattenSpreads
<1>8. Len(FlattenSeq(pieces)) = f[n]
  <2>1. ASSUME NEW k \in 0..n PROVE f[k] \in Nat
    BY <1>1 DEF Ceil
  <2>2. f \in [0..Len(pieces) -> Nat] /\ f[0] = 0
    <3>1. Ceil(0, 8) = 0
      BY DEF Ceil
    <3> QED
      BY <1>1, <1>5, <2>1, <3>1
  <2>3. ASSUME NEW k \in 0..Len(pieces), k < Len(pieces)
        PROVE  f[k + 1] = f[k] + Len(pieces[k + 1])
    <3>1. k + 1 \in 1..n /\ k \in 0..n /\ k + 1 \in 0..n /\ k \in Nat
      BY <1>1, <1>5, <2>3
    <3>2. f[k + 1] = (k + 1) - Ceil(k + 1, 8) /\ f[k] = k - Ceil(k, 8)
      BY <3>1
    <3>3. Len(pieces[k + 1]) = IF (k + 1) % 8 = 1 THEN 0 ELSE 1
      BY <1>6, <3>1
    <3> HIDE DEF f
    <3>4. Ceil(k + 1, 8) = IF (k + 1) % 8 = 1 THEN Ceil(k, 8) + 1 ELSE Ceil(k, 8)
      BY <3>1 DEF Ceil
    <3>5. Ceil(k, 8) \in Nat
      BY <3>1 DEF Ceil
    <3> QED
      BY <3>1, <3>2, <3>3, <3>4, <3>5
  <2> HIDE DEF f
  <2> QED
    BY <1>5, <2>2, <2>3, FlattenLength
<1>9. f[n] + (IF n % 8 = 0 THEN 0 ELSE 1) = Ceil(7 * n, 8)
  <2>1. f[n] = n - Ceil(n, 8)
    BY <1>1
  <2> QED
    BY <1>1, <2>1 DEF Ceil
<1>10. /\ FlattenSeq(pieces) \o last \in Seq(Octet)
       /\ Len(FlattenSeq(pieces) \o last) = Len(FlattenSeq(pieces)) + Len(last)
  BY <1>4, <1>7, ConcatProperties
<1> QED
  BY <1>2, <1>4, <1>8, <1>9, <1>10 DEF n

LEMMA PackedTyped ==
  ASSUME NEW buf \in Seq(Octet), NEW septets \in Seq(Septet), NEW start_bit \in Nat,
         NEW size, size = Ceil(start_bit + 7 * Len(septets), 8)
  PROVE  /\ AppendPacked7bitAt(buf, septets, start_bit) \in Seq(Octet)
         /\ Len(AppendPacked7bitAt(buf, septets, start_bit)) =
              IF size > Len(buf) THEN size ELSE Len(buf)
<1> DEFINE old(p) == p < 8 * Len(buf) /\ Bit(buf[p \div 8 + 1], p % 8) = 1
           new(p) == /\ p \in start_bit..(start_bit + 7 * Len(septets) - 1)
                     /\ Bit(septets[(p - start_bit) \div 7 + 1], (p - start_bit) % 7) = 1
           value(k, b) == IF old(8 * k + b) \/ new(8 * k + b) THEN 2^b ELSE 0
           octet(k) == value(k, 0) + value(k, 1) + value(k, 2) + value(k, 3)
                         + value(k, 4) + value(k, 5) + value(k, 6) + value(k, 7)
           n == IF size > Len(buf) THEN size ELSE Len(buf)
           packed == [k \in 1..n |-> octet(k - 1)]
<1>1. AppendPacked7bitAt(buf, septets, start_bit) = packed
  BY DEF AppendPacked7bitAt
<1>2. n \in Nat
  <2>1. Len(buf) \in Nat /\ Len(septets) \in Nat
    OBVIOUS
  <2>2. size \in Nat
    BY <2>1 DEF Ceil
  <2> QED
    BY <2>1, <2>2
<1> HIDE DEF n, old, new
<1>3. ASSUME NEW k PROVE octet(k) \in Octet
  <2>1. /\ value(k, 0) \in 0..1 /\ value(k, 1) \in 0..2 /\ value(k, 2) \in 0..4
        /\ value(k, 3) \in 0..8 /\ value(k, 4) \in 0..16 /\ value(k, 5) \in 0..32
        /\ value(k, 6) \in 0..64 /\ value(k, 7) \in 0..128
    <3>1. /\ 2^0 = 1 /\ 2^1 = 2 /\ 2^2 = 4 /\ 2^3 = 8
          /\ 2^4 = 16 /\ 2^5 = 32 /\ 2^6 = 64 /\ 2^7 = 128
      OBVIOUS
    <3> QED
      BY <3>1
  <2>2. \A b0 \in 0..1, b1 \in 0..2, b2 \in 0..4, b3 \in 0..8,
          b4 \in 0..16, b5 \in 0..32, b6 \in 0..64, b7 \in 0..128 :
          b0 + b1 + b2 + b3 + b4 + b5 + b6 + b7 \in Octet
    BY DEF Octet
  <2> HIDE DEF value
  <2> QED
    BY <2>1, <2>2
<1> HIDE DEF octet
<1>4. packed \in [1..n -> Octet]
  BY <1>3
<1> HIDE DEF packed
<1>5. packed \in Seq(Octet) /\ Len(packed) = n
  BY <1>2, <1>4
<1> QED
  BY <1>1, <1>5 DEF n

-----------------------------------------------------------------------------
(***************************************************************************)
(* What the decoders of text report.                                       *)
(***************************************************************************)
DecodeOutcomes == {"Ok", "DecodeFailure"}

UnitAt(bytes, k) == 256 * bytes[2 * k - 1] + bytes[2 * k]

\* Every first half of a surrogate pair is followed by a second one.
PairsWhole(bytes) ==
  /\ Len(bytes) % 2 = 0
  /\ \A k \in 1..(Len(bytes) \div 2) :
       UnitAt(bytes, k) \in HighSurrogates =>
         k # Len(bytes) \div 2 /\ UnitAt(bytes, k + 1) \in LowSurrogates

LEMMA DecodeUcs2Outcome ==
  ASSUME NEW bytes \in Seq(Nat)
  PROVE  /\ DecodeUcs2(bytes).ec \in DecodeOutcomes
         /\ PairsWhole(bytes) => DecodeUcs2(bytes).ec = "Ok"
<1> DEFINE size == Len(bytes) \div 2
           unit(k) == 256 * bytes[2 * k - 1] + bytes[2 * k]
           pair(k) == unit(k) \in HighSurrogates
           cp(k) == IF pair(k) THEN 65536 + 1024 * (unit(k) - 55296) + unit(k + 1) - 56320
                               ELSE unit(k)
           broken(k) == pair(k) /\ (k = size \/ unit(k + 1) \notin LowSurrogates)
           skip(k) == IF pair(k) THEN k + 2 ELSE k + 1
           Body(g, k) ==
             IF k > size THEN Ok(<<>>)
             ELSE LET rest == g[skip(k)]
                  IN IF broken(k) THEN Fails("DecodeFailure")
                     ELSE IF rest.ec # "Ok" THEN rest ELSE Ok(Utf8(cp(k)) \o rest.out)
           Rec(g) == g = [k \in 1..(size + 1) |-> Body(g, k)]
           from == CHOOSE g : Rec(g)
           V == UNION {{Utf8(cp(k))[j] : j \in DOMAIN Utf8(cp(k))} : k \in Nat}
           D == Results(V, "DecodeFailure")
<1>1. size \in Nat
  <2>1. Len(bytes) \in Nat
    OBVIOUS
  <2> QED
    BY <2>1
<1>2. \/ DecodeUcs2(bytes) = Fails("DecodeFailure")
      \/ DecodeUcs2(bytes) = from[1]
  BY DEF DecodeUcs2
<1>a. PairsWhole(bytes) => DecodeUcs2(bytes) = from[1] /\ \A k \in 1..size : ~broken(k)
  <2>1. PairsWhole(bytes) => DecodeUcs2(bytes) = from[1]
    BY DEF DecodeUcs2, PairsWhole
  <2> HIDE DEF from
  <2>2. PairsWhole(bytes) => \A k \in 1..size : ~broken(k)
    BY DEF PairsWhole, UnitAt
  <2> QED
    BY <2>1, <2>2
<1>3. ASSUME NEW k \in Nat PROVE Utf8(cp(k)) \in Seq(V)
  <2> DEFINE c == cp(k)
             n == IF c < 128 THEN 1 ELSE IF c < 2048 THEN 2 ELSE IF c < 65536 THEN 3 ELSE 4
  <2> HIDE DEF c
  <2>1. DOMAIN Utf8(c) = 1..n /\ n \in Nat
    BY DEF Utf8
  <2>2. Utf8(c) \in [1..n -> V]
    <3>1. \A j \in DOMAIN Utf8(c) : Utf8(c)[j] \in V
      <4> HIDE DEF cp
      <4>1. {Utf8(cp(k))[j] : j \in DOMAIN Utf8(cp(k))} \subseteq V
        OBVIOUS
      <4> HIDE DEF V
      <4> QED
        BY <4>1 DEF c
    <3>2. Utf8(c) = [j \in DOMAIN Utf8(c) |-> Utf8(c)[j]]
      BY DEF Utf8
    <3> HIDE DEF V, n
    <3> QED
      BY <2>1, <3>1, <3>2
  <2> HIDE DEF n, V
  <2>3. Utf8(c) \in Seq(V)
    BY <2>1, <2>2
  <2> QED
    BY <2>3 DEF c
<1> HIDE DEF size, V
<1>4. \A k \in 1..size : ~broken(k) => skip(k) \in (k + 1)..(size + 1)
  BY <1>1
<1> HIDE DEF broken, skip, cp
<1> DEFINE next == [k \in 0..(size + 1) |-> IF k = 0 \/ broken(k) THEN k + 1 ELSE skip(k)]
           step == [x \in (0..(size + 1)) \X D |->
                      IF x[1] = 0 \/ broken(x[1]) THEN Fails("DecodeFailure")
                      ELSE IF x[2].ec # "Ok" THEN x[2] ELSE Ok(Utf8(cp(x[1])) \o x[2].out)]
<1>5. Ok(<<>>) \in D /\ Fails("DecodeFailure") \in D
  BY EmptySeq, ResultsMade
<1>6. ASSUME NEW k \in 1..size, NEW d \in D, d.ec = "Ok" PROVE Ok(Utf8(cp(k)) \o d.out) \in D
  <2>1. d.out \in Seq(V)
    BY <1>6 DEF Results
  <2>2. Utf8(cp(k)) \in Seq(V)
    <3>1. k \in Nat
      BY <1>1
    <3> QED
      BY <1>3, <3>1
  <2>3. Utf8(cp(k)) \o d.out \in Seq(V)
    BY <2>1, <2>2, ConcatProperties
  <2> QED
    BY <2>3, ResultsMade
<1>7. ASSUME NEW k \in 0..(size + 1), k # size + 1 PROVE next[k] \in (k + 1)..(size + 1)
  <2>1. k # 0 => k \in 1..size
    BY <1>1, <1>7
  <2> QED
    BY <1>1, <1>4, <1>7, <2>1
<1>8. ASSUME NEW k \in 0..(size + 1), NEW d \in D, k # size + 1 PROVE step[<<k, d>>] \in D
  <2> HIDE DEF D
  <2>1. step[<<k, d>>] = IF k = 0 \/ broken(k) THEN Fails("DecodeFailure")
                         ELSE IF d.ec # "Ok" THEN d ELSE Ok(Utf8(cp(k)) \o d.out)
    OBVIOUS
  <2>2. k # 0 => k \in 1..size
    BY <1>1, <1>8
  <2> HIDE DEF step
  <2> QED
    BY <1>5, <1>6, <2>1, <2>2
<1>9. PICK g : g \in Descents(D, 0, size + 1, Ok(<<>>), next, step)
  <2> HIDE DEF next, step, D
  <2>1. size + 1 \in Nat
    BY <1>1
  <2> QED
    BY <1>5, <1>7, <1>8, <2>1, DescentExists
<1>10. /\ g \in [0..(size + 1) -> D] /\ g[size + 1] = Ok(<<>>)
       /\ \A k \in 0..(size + 1) : k # size + 1 => g[k] = step[<<k, g[next[k]]>>]
  BY <1>9 DEF Descents
<1> DEFINE f == [k \in 1..(size + 1) |-> g[k]]
<1>11. ASSUME NEW k \in 1..(size + 1) PROVE g[k] = Body(f, k)
  <2>1. CASE k = size + 1
    <3>1. k > size
      BY <1>1, <2>1
    <3> QED
      BY <1>10, <2>1, <3>1
  <2>2. CASE k # size + 1
    <3> DEFINE j == next[k]
    <3>1. k \in 1..size /\ k \in 0..(size + 1) /\ ~(k > size)
      BY <1>1, <2>2
    <3>2. j \in 1..(size + 1) /\ (~broken(k) => j = skip(k))
      BY <1>1, <1>7, <2>2, <3>1
    <3> HIDE DEF next
    <3>3. g[k] = step[<<k, g[j]>>] /\ g[j] \in D
      <4> HIDE DEF D, step
      <4>1. j \in 0..(size + 1)
        BY <1>1, <3>2
      <4> QED
        BY <1>10, <2>2, <3>1, <4>1
    <3> HIDE DEF j, D
    <3>4. g[k] = IF broken(k) THEN Fails("DecodeFailure")
                 ELSE IF g[j].ec # "Ok" THEN g[j] ELSE Ok(Utf8(cp(k)) \o g[j].out)
      BY <1>1, <3>1, <3>3
    <3> HIDE DEF step
    <3>5. ~broken(k) => f[skip(k)] = g[j]
      BY <3>2
    <3> HIDE DEF f
    <3>6. Body(f, k) = IF broken(k) THEN Fails("DecodeFailure")
                       ELSE IF f[skip(k)].ec # "Ok" THEN f[skip(k)]
                       ELSE Ok(Utf8(cp(k)) \o f[skip(k)].out)
      BY <3>1
    <3> HIDE DEF Body
    <3> QED
      BY <3>4, <3>5, <3>6
  <2> QED
    BY <2>1, <2>2
<1>12. Rec(f)
  <2> HIDE DEF Body
  <2>1. f = [k \in 1..(size + 1) |-> Body(f, k)]
    BY <1>11
  <2> QED
    BY <2>1
<1>13. Rec(from)
  <2> HIDE DEF Rec, f
  <2> QED
    BY <1>12
<1> HIDE DEF from, f
<1>14. \A k \in 1..(size + 1) : from[k] = Body(from, k)
  <2> HIDE DEF Body
  <2> QED
    BY <1>13
<1> DEFINE Good(k) == /\ from[k].ec \in DecodeOutcomes
                      /\ PairsWhole(bytes) => from[k].ec = "Ok"
           S == {k \in 0..(size + 1) : k = 0 \/ Good(k)}
<1>15. size + 1 \in S
  <2>1. size + 1 \in 1..(size + 1) /\ size + 1 > size /\ size + 1 \in 0..(size + 1)
    BY <1>1
  <2>2. from[size + 1] = Ok(<<>>)
    BY <1>14, <2>1
  <2> QED
    BY <2>1, <2>2 DEF Ok, DecodeOutcomes
<1>16. ASSUME NEW k \in 0..(size + 1), k # size + 1, \A j \in (k + 1)..(size + 1) : j \in S
       PROVE  k \in S
  <2>1. CASE k = 0
    BY <2>1
  <2>2. CASE k # 0
    <3>1. k \in 1..size /\ k \in 1..(size + 1) /\ ~(k > size)
      BY <1>1, <1>16, <2>2
    <3>2. CASE broken(k)
      <4>1. from[k] = Fails("DecodeFailure")
        BY <1>14, <3>1, <3>2
      <4>2. ~PairsWhole(bytes)
        BY <1>a, <3>1, <3>2
      <4> QED
        BY <4>1, <4>2 DEF Fails, DecodeOutcomes
    <3>3. CASE ~broken(k)
      <4>1. skip(k) \in (k + 1)..(size + 1) /\ skip(k) # 0
        BY <1>1, <1>4, <3>1, <3>3
      <4>2. Good(skip(k))
        BY <1>16, <4>1
      <4>3. from[k] = IF from[skip(k)].ec # "Ok" THEN from[skip(k)]
                      ELSE Ok(Utf8(cp(k)) \o from[skip(k)].out)
        BY <1>14, <3>1, <3>3
      <4>4. Good(k)
        BY <4>2, <4>3 DEF Ok, DecodeOutcomes
      <4> QED
        BY <4>4
    <3> QED
      BY <3>2, <3>3
  <2> QED
    BY <2>1, <2>2
<1>17. 1 \in S
  <2> HIDE DEF S
  <2>1. \A k \in 0..(size + 1) : k \in S
    <3>1. size + 1 \in Nat
      BY <1>1
    <3> QED
      BY <1>15, <1>16, <3>1, DownTo
  <2> QED
    BY <1>1, <2>1
<1> QED
  BY <1>2, <1>a, <1>17 DEF Fails, DecodeOutcomes

\* The octets that the length of the user data stands for.
TextOctets(coding, udl) == IF coding = "gsm7" THEN Ceil(7 * udl, 8) ELSE udl

LEMMA UserTextOutcome ==
  ASSUME NEW coding, NEW ud \in Seq(Nat), NEW udl \in Nat, NEW udh \in Nat
  PROVE  /\ UserText(coding, ud, udl, udh).ec \in DecodeOutcomes
         /\ TextOctets(coding, udl) > Len(ud) => UserText(coding, ud, udl, udh).ec # "Ok"
<1>1. Len(ud) \in Nat
  OBVIOUS
<1>2. CASE coding = "gsm7"
  BY <1>2 DEF UserText, TextOctets, DecodeOutcomes, Gsm7ToUtf8, Ok, Fails
<1>3. CASE coding # "gsm7" /\ (udl < udh \/ Len(ud) < udl)
  <2>1. UserText(coding, ud, udl, udh) = Fails("DecodeFailure")
    BY <1>3 DEF UserText
  <2> QED
    BY <2>1 DEF Fails, DecodeOutcomes
<1>4. CASE coding # "gsm7" /\ ~(udl < udh \/ Len(ud) < udl)
  <2> DEFINE octets == SubSeq(ud, udh + 1, udl)
  <2>1. UserText(coding, ud, udl, udh) = IF coding = "ucs2" THEN DecodeUcs2(octets) ELSE Ok(octets)
    BY <1>4 DEF UserText
  <2>2. octets \in Seq(Nat)
    BY <1>1, <1>4, SubSeqProperties
  <2>3. DecodeUcs2(octets).ec \in DecodeOutcomes
    <3> HIDE DEF octets
    <3> QED
      BY <2>2, DecodeUcs2Outcome
  <2>4. ~(TextOctets(coding, udl) > Len(ud))
    BY <1>1, <1>4 DEF TextOctets
  <2> HIDE DEF octets
  <2> QED
    BY <2>1, <2>3, <2>4 DEF Ok, DecodeOutcomes
<1> QED
  BY <1>2, <1>3, <1>4


-----------------------------------------------------------------------------
(***************************************************************************)
(* Cutting a text into parts.                                              *)
(***************************************************************************)
\* What units of a coding are, and how many a part has.
UnitsFor(c) == IF c = "gsm7" THEN Septet ELSE IF c = "ucs2" THEN Unit ELSE Octet
PartUnits(c) == IF c = "gsm7" THEN Capacity(c, UserDataOctets) - UdhSeptets(6)
                              ELSE Capacity(c, UserDataOctets - 6)

\* A part has 2 units at least, and no more than a message.
LEMMA PartsHaveRoom ==
  ASSUME NEW c \in {"gsm7", "ucs2", "8bit"}
  PROVE  /\ PartUnits(c) \in Nat /\ 2 <= PartUnits(c)
         /\ Capacity(c, UserDataOctets) \in Nat /\ PartUnits(c) <= Capacity(c, UserDataOctets)
<1>1. UserDataOctets \in 11..140
  BY UserDataAssumption
<1>2. UdhSeptets(6) = 7
  BY DEF UdhSeptets, Ceil
<1>3. CASE c = "gsm7"
  <2>1. /\ PartUnits(c) = (8 * UserDataOctets) \div 7 - 7
        /\ Capacity(c, UserDataOctets) = (8 * UserDataOctets) \div 7
    BY <1>2, <1>3 DEF PartUnits, Capacity
  <2> QED
    BY <1>1, <2>1
<1>4. CASE c = "ucs2"
  <2>1. /\ PartUnits(c) = (UserDataOctets - 6) \div 2
        /\ Capacity(c, UserDataOctets) = UserDataOctets \div 2
    BY <1>4 DEF PartUnits, Capacity
  <2> QED
    BY <1>1, <2>1
<1>5. CASE c = "8bit"
  <2>1. PartUnits(c) = UserDataOctets - 6 /\ Capacity(c, UserDataOctets) = UserDataOctets
    BY <1>5 DEF PartUnits, Capacity
  <2> QED
    BY <1>1, <2>1
<1> QED
  BY <1>3, <1>4, <1>5

\* A part ends after it begins, and not too far.
LEMMA PartEnds ==
  ASSUME NEW c \in {"gsm7", "ucs2", "8bit"}, NEW U, NEW text \in Seq(U),
         NEW start \in 0..Len(text), start # Len(text)
  PROVE  /\ Concat!ChunkEnd(c, text, start) \in (start + 1)..Len(text)
         /\ Concat!ChunkEnd(c, text, start) <= start + PartUnits(c)
<1> DEFINE N == {start + PartUnits(c), Len(text)}
           L == Len(text)
<1>1. L \in Nat /\ start \in Nat /\ start < L /\ PartUnits(c) \in Nat /\ 2 <= PartUnits(c)
  BY PartsHaveRoom
<1>2. N \in SUBSET Nat /\ N # {}
  BY <1>1
<1>3. Min(N) \in N /\ Min(N) <= L /\ Min(N) <= start + PartUnits(c)
  <2>1. Min(N) \in N /\ \A y \in N : Min(N) <= y
    BY <1>2, LeastOf
  <2> QED
    BY <2>1
<1>4. \/ Concat!ChunkEnd(c, text, start) = Min(N)
      \/ Min(N) < L /\ Concat!ChunkEnd(c, text, start) = Min(N) - 1
  <2>1. Concat!Min(N) = Min(N)
    BY DEF Concat!Min, Min
  <2>2. [d \in {"gsm7", "ucs2", "8bit"} |->
           IF d = "gsm7" THEN Capacity(d, UserDataOctets) - UdhSeptets(6)
                         ELSE Capacity(d, UserDataOctets - 6)][c] = PartUnits(c)
    BY DEF PartUnits
  <2> QED
    BY <2>1, <2>2 DEF Concat!ChunkEnd
<1> DEFINE least == Min(N)
<1>5. least \in Nat /\ start < least /\ (least < L => start < least - 1)
  BY <1>1, <1>3
<1> HIDE DEF N, least
<1> QED
  BY <1>1, <1>3, <1>4, <1>5 DEF least

\* The parts of a text are its pieces from one end to the next; what one of them
\* cannot hold makes two at least.
LEMMA PartsMade ==
  ASSUME NEW c \in {"gsm7", "ucs2", "8bit"}, NEW U, NEW text \in Seq(U), NEW G,
         \A i \in 0..Len(text) :
           i # Len(text) => SubSeq(text, i + 1, Concat!ChunkEnd(c, text, i)) \in G
  PROVE  /\ Concat!Chunks(c, text) \in Seq(G)
         /\ PartUnits(c) < Len(text) => Len(Concat!Chunks(c, text)) >= 2
<1> DEFINE N == Len(text)
           D == Seq(G)
           end(i) == Concat!ChunkEnd(c, text, i)
           piece(i) == SubSeq(text, i + 1, end(i))
           Body(g, i) == IF i = N THEN <<>> ELSE <<piece(i)>> \o g[end(i)]
           Rec(g) == g = [i \in 0..N |-> Body(g, i)]
           from == CHOOSE g : Rec(g)
<1>1. N \in Nat /\ <<>> \in D
  BY EmptySeq
<1>2. Concat!Chunks(c, text) = from[0]
  BY DEF Concat!Chunks
<1>3. ASSUME NEW i \in 0..N, i # N
      PROVE  end(i) \in (i + 1)..N /\ <<piece(i)>> \in D
  <2>1. end(i) \in (i + 1)..N
    BY <1>3, PartEnds
  <2>2. piece(i) \in G
    BY <1>3
  <2> HIDE DEF piece
  <2> QED
    BY <2>1, <2>2
<1> DEFINE next == [i \in 0..N |-> end(i)]
           step == [x \in (0..N) \X D |-> <<piece(x[1])>> \o x[2]]
<1>4. ASSUME NEW i \in 0..N, i # N PROVE next[i] \in (i + 1)..N
  BY <1>3, <1>4
<1>5. ASSUME NEW i \in 0..N, NEW d \in D, i # N PROVE step[<<i, d>>] \in D /\ step[<<i, d>>] = <<piece(i)>> \o d
  <2> HIDE DEF piece
  <2>1. <<piece(i)>> \o d \in D
    BY <1>3, <1>5, ConcatProperties
  <2> QED
    BY <2>1
<1> HIDE DEF N, D, end, piece
<1>6. PICK g : g \in Descents(D, 0, N, <<>>, next, step)
  <2> HIDE DEF next, step
  <2> QED
    BY <1>1, <1>4, <1>5, DescentExists
<1>7. /\ g \in [0..N -> D] /\ g[N] = <<>>
      /\ \A i \in 0..N : i # N => g[i] = step[<<i, g[next[i]]>>]
  BY <1>6 DEF Descents
<1>8. ASSUME NEW i \in 0..N PROVE g[i] = Body(g, i)
  <2>1. CASE i = N
    BY <1>7, <2>1
  <2>2. CASE i # N
    <3>0. next[i] = end(i) /\ end(i) \in 0..N
      <4>1. next[i] = end(i)
        OBVIOUS
      <4>2. end(i) \in (i + 1)..N
        BY <1>3, <2>2
      <4> HIDE DEF next
      <4> QED
        BY <1>1, <4>1, <4>2
    <3>1. g[i] = step[<<i, g[end(i)]>>] /\ end(i) \in 0..N
      <4> HIDE DEF next, step
      <4> QED
        BY <1>7, <2>2, <3>0
    <3>2. g[end(i)] \in D
      BY <1>7, <3>1
    <3> HIDE DEF step
    <3> QED
      BY <1>5, <2>2, <3>1, <3>2
  <2> QED
    BY <2>1, <2>2
<1>9. Rec(g)
  <2> HIDE DEF Body
  <2> QED
    BY <1>7, <1>8
<1>10. Rec(from)
  <2> HIDE DEF Rec
  <2> QED
    BY <1>9
<1> HIDE DEF from
<1>11. \A i \in 0..N : from[i] = Body(from, i)
  <2> HIDE DEF Body
  <2> QED
    BY <1>10
<1> DEFINE S == {i \in 0..N : from[i] \in D}
<1>12. N \in S
  <2>1. N \in 0..N
    BY <1>1
  <2>2. from[N] = <<>>
    BY <1>11, <2>1
  <2> QED
    BY <1>1, <2>1, <2>2
<1>13. ASSUME NEW i \in 0..N, i # N, \A j \in (i + 1)..N : j \in S PROVE i \in S
  <2>1. end(i) \in (i + 1)..N /\ from[end(i)] \in D /\ <<piece(i)>> \in D
    BY <1>3, <1>13
  <2>2. <<piece(i)>> \o from[end(i)] \in D
    BY <2>1, ConcatProperties DEF D
  <2>3. from[i] = <<piece(i)>> \o from[end(i)]
    BY <1>11, <1>13
  <2> QED
    BY <2>2, <2>3
<1>14. 0 \in S
  <2> HIDE DEF S
  <2>1. \A i \in 0..N : i \in S
    BY <1>1, <1>12, <1>13, DownTo
  <2> QED
    BY <1>1, <2>1
<1>15. ASSUME PartUnits(c) < N PROVE Len(from[0]) >= 2
  <2> DEFINE e == end(0)
  <2>1. 0 \in 0..N /\ 0 # N
    BY <1>1, <1>15, PartsHaveRoom
  <2>2. e \in 1..N /\ e <= PartUnits(c) /\ e # N
    <3>1. end(0) \in (0 + 1)..N /\ end(0) <= 0 + PartUnits(c) /\ PartUnits(c) \in Nat
      <4>1. 0 \in 0..Len(text) /\ 0 # Len(text)
        BY <2>1 DEF N
      <4> QED
        BY <4>1, PartEnds, PartsHaveRoom DEF end, N
    <3> QED
      BY <1>1, <1>15, <3>1
  <2>3. from[0] = <<piece(0)>> \o from[e] /\ <<piece(0)>> \in D
    BY <1>3, <1>11, <2>1
  <2> DEFINE f == end(e)
  <2>4. e \in 0..N
    BY <1>1, <2>2
  <2>5. from[e] = <<piece(e)>> \o from[f] /\ <<piece(e)>> \in D /\ f \in (e + 1)..N
    BY <1>3, <1>11, <2>2, <2>4
  <2>6. from[f] \in D
    <3>1. \A i \in 0..N : i \in S
      <4> HIDE DEF S
      <4> QED
        BY <1>1, <1>12, <1>13, DownTo
    <3>2. f \in 0..N
      BY <1>1, <2>4, <2>5
    <3> QED
      BY <3>1, <3>2
  <2> HIDE DEF e, f
  <2>7. from[e] \in D /\ Len(from[e]) = 1 + Len(from[f]) /\ Len(from[f]) \in Nat
    <3>1. from[e] \in D
      BY <2>5, <2>6, ConcatProperties DEF D
    <3>2. Len(from[e]) = Len(<<piece(e)>>) + Len(from[f])
      BY <2>5, <2>6, ConcatProperties DEF D
    <3>3. Len(from[f]) \in Nat
      BY <2>6 DEF D
    <3> QED
      BY <3>1, <3>2, <3>3
  <2>8. Len(from[0]) = Len(<<piece(0)>>) + Len(from[e])
    BY <2>3, <2>7, ConcatProperties DEF D
  <2> QED
    BY <2>7, <2>8
<1> QED
  BY <1>2, <1>14, <1>15 DEF D, N

\* Every first half of a surrogate pair is followed by a second one.
WellPaired(u) ==
  \A i \in 1..Len(u) : u[i] \in HighSurrogates => i # Len(u) /\ u[i + 1] \in LowSurrogates

\* A part is of the units of its text, has not too many of them, and ends no pair
\* in the middle.
PartsOf(c, U, text) ==
  {s \in Seq(U) : /\ Len(s) <= PartUnits(c)
                  /\ c = "ucs2" /\ WellPaired(text) => WellPaired(s)}

LEMMA PartIsPart ==
  ASSUME NEW c \in {"gsm7", "ucs2", "8bit"}, NEW U, NEW text \in Seq(U),
         NEW start \in 0..Len(text), start # Len(text),
         NEW e, e = Concat!ChunkEnd(c, text, start)
  PROVE  SubSeq(text, start + 1, e) \in PartsOf(c, U, text)
<1> DEFINE s == SubSeq(text, start + 1, e)
           n == Len(text)
<1>1. n \in Nat /\ e \in Nat /\ start \in Nat /\ start + 1 <= e /\ e <= n /\ e - start <= PartUnits(c)
  <2>1. e \in (start + 1)..n /\ e <= start + PartUnits(c) /\ PartUnits(c) \in Nat
    BY PartEnds, PartsHaveRoom
  <2> QED
    BY <2>1
<1>2. s \in Seq(U) /\ Len(s) = e - start /\ \A k \in 1..(e - start) : s[k] = text[start + k]
  <2>1. \A k \in (start + 1)..e : text[k] \in U
    <3>1. \A k \in (start + 1)..e : k \in 1..n
      BY <1>1
    <3> QED
      BY <3>1
  <2>2. start + 1 \in Int /\ e \in Int /\ e - (start + 1) + 1 = e - start
    BY <1>1
  <2>3. \A k \in 1..(e - start) : start + 1 + k - 1 = start + k
    BY <1>1
  <2>4. /\ s \in Seq(U) /\ Len(s) = e - (start + 1) + 1
        /\ \A k \in 1..(e - (start + 1) + 1) : s[k] = text[start + 1 + k - 1]
    BY <1>1, <2>1, <2>2, SubSeqProperties
  <2> HIDE DEF s
  <2> QED
    BY <2>2, <2>3, <2>4
<1> HIDE DEF s
<1>3. ASSUME c = "ucs2", WellPaired(text) PROVE WellPaired(s)
  <2> SUFFICES ASSUME NEW k \in 1..Len(s), s[k] \in HighSurrogates
               PROVE  k # Len(s) /\ s[k + 1] \in LowSurrogates
    BY DEF WellPaired
  <2>1. k \in 1..(e - start) /\ text[start + k] \in HighSurrogates
    BY <1>2
  <2>2. start + k \in 1..n /\ start + k + 1 = start + (k + 1)
    BY <1>1, <2>1
  <2>3. start + k # n /\ text[start + (k + 1)] \in LowSurrogates
    BY <1>3, <2>1, <2>2 DEF WellPaired
  <2>4. k # Len(s)
    <3>1. ASSUME k = Len(s) PROVE FALSE
      <4>1. start + k = e /\ e < n /\ text[e] \in HighSurrogates
        <5>1. start + k = e
          BY <1>1, <1>2, <3>1
        <5>2. e # n /\ text[e] \in HighSurrogates
          BY <2>1, <2>3, <5>1
        <5>3. e < n
          BY <1>1, <5>2
        <5> QED
          BY <5>1, <5>2, <5>3
      <4> DEFINE m == Concat!Min({start + PartUnits(c), n})
      <4>2. e = IF m < n /\ text[m] \in HighSurrogates THEN m - 1 ELSE m
        <5>1. [d \in {"gsm7", "ucs2", "8bit"} |->
                 IF d = "gsm7" THEN Capacity(d, UserDataOctets) - UdhSeptets(6)
                               ELSE Capacity(d, UserDataOctets - 6)][c] = PartUnits(c)
          BY DEF PartUnits
        <5>2. [d \in {"gsm7", "ucs2", "8bit"} |->
                 CASE d = "gsm7" -> {Esc} [] d = "ucs2" -> HighSurrogates [] OTHER -> {}][c]
                = HighSurrogates
          BY <1>3
        <5> QED
          BY <5>1, <5>2 DEF Concat!ChunkEnd
      <4>3. m \in Nat
        <5>1. m = Min({start + PartUnits(c), n})
          BY DEF Concat!Min, Min
        <5>2. {start + PartUnits(c), n} \in SUBSET Nat
          BY <1>1, PartsHaveRoom
        <5>3. \A x, y : {x, y} # {}
          OBVIOUS
        <5>4. Min({start + PartUnits(c), n}) \in {start + PartUnits(c), n}
          BY <5>2, <5>3, LeastOf
        <5> HIDE DEF m
        <5> QED
          BY <5>1, <5>2, <5>4
      <4> HIDE DEF m
      <4>4. text[m] \in HighSurrogates /\ m = e + 1
        BY <4>1, <4>2, <4>3
      <4>5. text[e + 1] \in LowSurrogates
        <5>1. e + 1 = start + (k + 1)
          BY <2>2, <4>1
        <5> QED
          BY <2>3, <5>1
      <4>6. HighSurrogates \intersect LowSurrogates = {}
        BY DEF HighSurrogates, LowSurrogates
      <4> QED
        BY <4>4, <4>5, <4>6
    <3> QED
      BY <3>1
  <2>5. s[k + 1] = text[start + (k + 1)]
    <3>1. k + 1 \in 1..(e - start)
      BY <1>1, <1>2, <2>1, <2>4
    <3> QED
      BY <1>2, <3>1
  <2> QED
    BY <2>3, <2>4, <2>5
<1>4. Len(s) <= PartUnits(c)
  BY <1>1, <1>2
<1> QED
  BY <1>2, <1>3, <1>4 DEF PartsOf, s

LEMMA PartsTyped ==
  ASSUME NEW c \in {"gsm7", "ucs2", "8bit"}, NEW U, NEW text \in Seq(U)
  PROVE  /\ Concat!Chunks(c, text) \in Seq(PartsOf(c, U, text))
         /\ PartUnits(c) < Len(text) => Len(Concat!Chunks(c, text)) >= 2
<1>1. \A i \in 0..Len(text) :
        i # Len(text) => SubSeq(text, i + 1, Concat!ChunkEnd(c, text, i)) \in PartsOf(c, U, text)
  BY PartIsPart
<1> QED
  BY <1>1, PartsMade

\* The reference of a message whose caller gives none is a checksum of its text.
LEMMA ReferenceTyped ==
  ASSUME NEW text \in Seq(Octet)
  PROVE  Concat!ConcatRef([concat_ref |-> 0, text |-> text]) \in Octet
<1> DEFINE n == Len(text)
           Body(g, k) == IF k = 0 THEN 0 ELSE (g[k - 1] + [u \in 0..255 |-> u][text[k]]) % 2^8
           Rec(g) == g = [k \in 0..n |-> Body(g, k)]
           sum == CHOOSE g : Rec(g)
           next == [x \in (1..n) \X Octet |-> (x[2] + text[x[1]]) % 256]
<1>1. n \in Nat /\ 0 \in Octet /\ \A k \in 1..n : text[k] \in Octet
  <2>1. n \in Nat /\ \A k \in 1..n : text[k] \in Octet
    OBVIOUS
  <2> QED
    BY <2>1 DEF Octet
<1>2. Concat!ConcatRef([concat_ref |-> 0, text |-> text]) = IF sum[n] = 0 THEN 1 ELSE sum[n]
  BY DEF Concat!ConcatRef
<1>3. next \in [(1..n) \X Octet -> Octet]
  <2>1. \A x, y \in Octet : (x + y) % 256 \in Octet
    BY DEF Octet
  <2> HIDE DEF n
  <2> QED
    BY <1>1, <2>1
<1> HIDE DEF n
<1>4. PICK g : g \in Runs(Octet, n, 0, next)
  <2> HIDE DEF next
  <2> QED
    BY <1>1, <1>3, RunExists
<1>5. g \in [0..n -> Octet] /\ g[0] = 0 /\ \A k \in 0..n : k < n => g[k + 1] = next[<<k + 1, g[k]>>]
  BY <1>4 DEF Runs
<1>6. 2^8 = 256
  OBVIOUS
<1>7. ASSUME NEW k \in 0..n PROVE g[k] = Body(g, k)
  <2>1. CASE k = 0
    BY <1>5, <2>1
  <2>2. CASE k # 0
    <3>1. k - 1 \in 0..n /\ k - 1 < n /\ (k - 1) + 1 = k /\ k \in 1..n
      BY <1>1, <2>2
    <3>2. g[k] = next[<<k, g[k - 1]>>] /\ g[k - 1] \in Octet
      BY <1>5, <3>1
    <3>3. g[k] = (g[k - 1] + text[k]) % 256
      BY <3>1, <3>2
    <3>4. [u \in 0..255 |-> u][text[k]] = text[k]
      BY <1>1, <3>1 DEF Octet
    <3> QED
      BY <1>6, <2>2, <3>3, <3>4
  <2> QED
    BY <2>1, <2>2
<1>8. Rec(g)
  <2> HIDE DEF Body
  <2> QED
    BY <1>5, <1>7
<1>9. Rec(sum)
  <2> HIDE DEF Rec
  <2> QED
    BY <1>8
<1> HIDE DEF sum
<1>10. \A k \in 0..n : sum[k] = Body(sum, k)
  <2> HIDE DEF Body
  <2> QED
    BY <1>9
<1> DEFINE S == {k \in 0..n : sum[k] \in Octet}
<1>11. 0 \in S
  <2>1. 0 \in 0..n
    BY <1>1
  <2>2. sum[0] = 0
    BY <1>10, <2>1
  <2> QED
    BY <1>1, <2>1, <2>2
<1>12. ASSUME NEW k \in 0..n, k \in S, k < n PROVE k + 1 \in S
  <2>1. k + 1 \in 0..n /\ k + 1 \in 1..n /\ (k + 1) - 1 = k /\ k + 1 # 0
    BY <1>1, <1>12
  <2>2. [u \in 0..255 |-> u][text[k + 1]] = text[k + 1] /\ text[k + 1] \in Octet
    BY <1>1, <2>1 DEF Octet
  <2>3. sum[k + 1] = (sum[k] + text[k + 1]) % 256 /\ sum[k] \in Octet
    BY <1>6, <1>10, <1>12, <2>1, <2>2
  <2>4. \A x, y \in Octet : (x + y) % 256 \in Octet
    BY DEF Octet
  <2> QED
    BY <2>1, <2>2, <2>3, <2>4
<1>13. n \in S
  <2> HIDE DEF S
  <2>1. \A k \in 0..n : k \in S
    BY <1>1, <1>11, <1>12, UpTo
  <2> QED
    BY <1>1, <2>1
<1>14. sum[n] \in Octet /\ 1 \in Octet
  BY <1>13 DEF Octet
<1> QED
  BY <1>2, <1>14

-----------------------------------------------------------------------------
(***************************************************************************)
(* The octets of a PDU.                                                    *)
(***************************************************************************)
\* Where the elements of two joined sequences are.
LEMMA JoinedAt ==
  ASSUME NEW S, NEW s \in Seq(S), NEW t \in Seq(S)
  PROVE  /\ s \o t \in Seq(S) /\ Len(s \o t) = Len(s) + Len(t)
         /\ \A i \in 1..Len(s) : (s \o t)[i] = s[i]
         /\ \A i \in 1..Len(t) : (s \o t)[Len(s) + i] = t[i]
         /\ SubSeq(s \o t, 1, Len(s)) = s
         /\ SubSeq(s \o t, Len(s) + 1, Len(s) + Len(t)) = t
<1> DEFINE u == s \o t
           m == Len(s)
           n == Len(t)
<1>1. m \in Nat /\ n \in Nat /\ (\A i \in 1..m : s[i] \in S) /\ \A i \in 1..n : t[i] \in S
  OBVIOUS
<1>2. /\ u \in Seq(S) /\ Len(u) = m + n
      /\ \A i \in 1..(m + n) : u[i] = IF i <= m THEN s[i] ELSE t[i - m]
  BY ConcatProperties
<1> HIDE DEF u, m, n
<1>3. /\ \A i \in 1..m : i \in 1..(m + n) /\ i <= m
      /\ \A i \in 1..n : m + i \in 1..(m + n) /\ ~(m + i <= m) /\ (m + i) - m = i
  BY <1>1
<1>4. (\A i \in 1..m : u[i] = s[i]) /\ \A i \in 1..n : u[m + i] = t[i]
  BY <1>2, <1>3
<1>5. /\ SubSeq(u, 1, m) \in Seq(S)
      /\ Len(SubSeq(u, 1, m)) = IF 1 <= m THEN m - 1 + 1 ELSE 0
      /\ \A i \in 1..(m - 1 + 1) : SubSeq(u, 1, m)[i] = u[1 + i - 1]
  <2>1. 1 \in Int /\ m \in Int /\ \A i \in 1..m : u[i] \in S
    BY <1>1, <1>4
  <2> QED
    BY <2>1, SubSeqProperties
<1> DEFINE a == m + 1
           b == m + n
<1>6. /\ SubSeq(u, a, b) \in Seq(S) /\ Len(SubSeq(u, a, b)) = IF a <= b THEN b - a + 1 ELSE 0
      /\ \A i \in 1..(b - a + 1) : SubSeq(u, a, b)[i] = u[a + i - 1]
  <2>1. a \in Int /\ b \in Int
    BY <1>1
  <2>2. ASSUME NEW i \in a..b PROVE u[i] \in S
    <3>1. i - m \in 1..n /\ m + (i - m) = i
      BY <1>1
    <3> QED
      BY <1>1, <1>4, <3>1
  <2> HIDE DEF a, b
  <2> QED
    BY <2>1, <2>2, SubSeqProperties
<1>7. SubSeq(u, 1, m) = s
  <2> DEFINE v == SubSeq(u, 1, m)
  <2>1. v \in Seq(S) /\ Len(v) = m /\ \A i \in 1..m : v[i] = s[i]
    <3>1. m - 1 + 1 = m /\ (~(1 <= m) => m = 0) /\ \A i \in 1..m : 1 + i - 1 = i
      BY <1>1
    <3> QED
      BY <1>4, <1>5, <3>1
  <2> HIDE DEF v
  <2>2. v = s
    BY <2>1, SeqEqual DEF m
  <2> QED
    BY <2>2 DEF v
<1>8. SubSeq(u, a, b) = t
  <2> DEFINE v == SubSeq(u, a, b)
  <2>1. v \in Seq(S) /\ Len(v) = n /\ \A i \in 1..n : v[i] = t[i]
    <3>1. /\ b - a + 1 = n /\ (a <= b <=> 1 <= n) /\ (~(1 <= n) => n = 0)
          /\ \A i \in 1..n : a + i - 1 = m + i
      BY <1>1
    <3> HIDE DEF a, b
    <3> QED
      BY <1>4, <1>6, <3>1
  <2> HIDE DEF v
  <2>2. v = t
    BY <2>1, SeqEqual DEF n
  <2> QED
    BY <2>2 DEF v
<1> QED
  BY <1>2, <1>4, <1>7, <1>8 DEF u, m, n

\* A piece of a sequence, from its elements.
LEMMA PieceIs ==
  ASSUME NEW s \in Seq(Octet), NEW t \in Seq(Octet), NEW k \in Nat, NEW n, n = Len(t),
         k + n <= Len(s), \A i \in 1..n : s[k + i] = t[i]
  PROVE  SubSeq(s, k + 1, k + n) = t
<1> DEFINE p == SubSeq(s, k + 1, k + n)
<1>1. n \in Nat /\ Len(s) \in Nat
  OBVIOUS
<1>2. \A i \in (k + 1)..(k + n) : s[i] \in Octet
  <2>1. \A i \in (k + 1)..(k + n) : i \in 1..Len(s)
    BY <1>1
  <2> QED
    BY <2>1
<1>3. /\ p \in Seq(Octet) /\ Len(p) = IF k + 1 <= k + n THEN (k + n) - (k + 1) + 1 ELSE 0
      /\ \A i \in 1..((k + n) - (k + 1) + 1) : p[i] = s[(k + 1) + i - 1]
  BY <1>1, <1>2, SubSeqProperties
<1> HIDE DEF p
<1>4. Len(p) = n
  BY <1>1, <1>3
<1>5. \A i \in 1..n : p[i] = t[i]
  <2>1. (k + n) - (k + 1) + 1 = n
    BY <1>1
  <2>2. \A i \in 1..n : (k + 1) + i - 1 = k + i
    BY <1>1
  <2> QED
    BY <1>3, <2>1, <2>2
<1>6. p = t
  BY <1>3, <1>4, <1>5, SeqEqual
<1> QED
  BY <1>6 DEF p

\* The service centre: its length, its type and its digits.
ServiceOctets(smsc) ==
  IF smsc = <<>> THEN <<0>> ELSE <<(Ceil(Len(smsc), 2) + 1) % 256, 145>> \o DigitOctets(smsc)

LEMMA ServiceWritten ==
  ASSUME NEW smsc \in Seq(0..9)
  PROVE  /\ ServiceOctets(smsc) \in Seq(Octet)
         /\ Len(ServiceOctets(smsc)) = IF Len(smsc) = 0 THEN 1 ELSE 2 + Ceil(Len(smsc), 2)
         /\ ServiceOctets(smsc)[1] = IF Len(smsc) = 0 THEN 0 ELSE (Ceil(Len(smsc), 2) + 1) % 256
<1>1. Len(smsc) \in Nat /\ (Len(smsc) = 0 <=> smsc = <<>>)
  BY EmptySeq
<1>2. CASE smsc = <<>>
  <2>1. ServiceOctets(smsc) = <<0>> /\ 0 \in Octet
    BY <1>2 DEF ServiceOctets, Octet
  <2>2. <<0>> \in Seq(Octet) /\ Len(<<0>>) = 1 /\ <<0>>[1] = 0
    BY <2>1
  <2> QED
    BY <1>1, <1>2, <2>1, <2>2
<1>3. CASE smsc # <<>>
  <2> DEFINE h == Ceil(Len(smsc), 2)
             x == (h + 1) % 256
             s == <<x, 145>>
  <2>1. h \in Nat
    BY <1>1 DEF Ceil
  <2>2. x \in Octet /\ 145 \in Octet
    <3> HIDE DEF h
    <3> QED
      BY <2>1 DEF Octet
  <2>3. ServiceOctets(smsc) = s \o DigitOctets(smsc)
    BY <1>3 DEF ServiceOctets
  <2>4. DigitOctets(smsc) \in Seq(Octet) /\ Len(DigitOctets(smsc)) = h
    BY DigitsInOctets
  <2> HIDE DEF x, h
  <2>5. s \in Seq(Octet) /\ Len(s) = 2 /\ s[1] = x
    BY <2>2
  <2> HIDE DEF s
  <2>6. /\ s \o DigitOctets(smsc) \in Seq(Octet) /\ Len(s \o DigitOctets(smsc)) = 2 + h
        /\ (s \o DigitOctets(smsc))[1] = x
    <3> DEFINE d == DigitOctets(smsc)
    <3>1. 1 \in 1..Len(s)
      BY <2>5
    <3> HIDE DEF d
    <3>2. /\ s \o d \in Seq(Octet) /\ Len(s \o d) = Len(s) + Len(d)
          /\ \A i \in 1..Len(s) : (s \o d)[i] = s[i]
      BY <2>4, <2>5, JoinedAt DEF d
    <3> QED
      BY <2>4, <2>5, <3>1, <3>2 DEF d
  <2> QED
    BY <1>1, <1>3, <2>3, <2>6 DEF x, h
<1> QED
  BY <1>2, <1>3

\* The first octet of the TPDU.
SubmitFlags(m, udhi) ==
  1 + (IF udhi THEN 64 ELSE 0) + (IF m.request_status_report THEN 32 ELSE 0)
    + (IF m.validity # -1 THEN 16 ELSE 0)

LEMMA FlagsRead ==
  ASSUME NEW m, NEW udhi
  PROVE  /\ SubmitFlags(m, udhi) \in Octet /\ SubmitFlags(m, udhi) % 4 = 1
         /\ (SubmitFlags(m, udhi) \div 8) % 4 = IF m.validity # -1 THEN 2 ELSE 0
         /\ Bit(SubmitFlags(m, udhi), 4) = IF m.validity # -1 THEN 1 ELSE 0
<1> DEFINE u == IF udhi THEN 64 ELSE 0
           r == IF m.request_status_report THEN 32 ELSE 0
           v == IF m.validity # -1 THEN 16 ELSE 0
           f == 1 + u + r + v
<1>1. u \in {0, 64} /\ r \in {0, 32} /\ v \in {0, 16} /\ (m.validity # -1 <=> v = 16)
  OBVIOUS
<1>2. SubmitFlags(m, udhi) = f
  BY DEF SubmitFlags
<1> HIDE DEF u, r, v
<1>3. 2^4 = 16
  OBVIOUS
<1>4. f \in Octet /\ f % 4 = 1 /\ (f \div 8) % 4 = (IF v = 16 THEN 2 ELSE 0)
      /\ (f \div 16) % 2 = IF v = 16 THEN 1 ELSE 0
  BY <1>1 DEF Octet
<1> HIDE DEF f
<1> QED
  BY <1>1, <1>2, <1>3, <1>4 DEF Bit

\* Its other bits: the header and the request for a report.
LEMMA FlagBits ==
  ASSUME NEW m, NEW udhi
  PROVE  /\ Bit(SubmitFlags(m, udhi), 6) = IF udhi THEN 1 ELSE 0
         /\ RequestsReport(SubmitFlags(m, udhi)) <=> m.request_status_report
<1> DEFINE u == IF udhi THEN 64 ELSE 0
           r == IF m.request_status_report THEN 32 ELSE 0
           v == IF m.validity # -1 THEN 16 ELSE 0
           f == 1 + u + r + v
<1>1. /\ u \in {0, 64} /\ r \in {0, 32} /\ v \in {0, 16} /\ (m.request_status_report <=> r = 32)
      /\ (udhi <=> u = 64)
  OBVIOUS
<1>2. SubmitFlags(m, udhi) = f
  BY DEF SubmitFlags
<1> HIDE DEF u, r, v
<1>3. 2^6 = 64 /\ 2^5 = 32
  OBVIOUS
<1>4. /\ f % 4 = 1 /\ (f \div 64) % 2 = (IF u = 64 THEN 1 ELSE 0)
      /\ (f \div 32) % 2 = (IF r = 32 THEN 1 ELSE 0)
  BY <1>1
<1> HIDE DEF f
<1>5. Bit(f, 6) = (IF u = 64 THEN 1 ELSE 0) /\ Bit(f, 5) = IF r = 32 THEN 1 ELSE 0
  BY <1>3, <1>4 DEF Bit
<1> QED
  BY <1>1, <1>2, <1>4, <1>5 DEF RequestsReport

\* Where the fields of the header h of m are: the service centre takes L octets,
\* the digits of the destination d.
HeaderAt(h, m, dest, udhi, L, d) ==
  /\ L \in Nat /\ d \in Nat /\ h \in Seq(Octet)
  /\ Len(h) = L + d + 6 + (IF m.validity # -1 THEN 1 ELSE 0)
  /\ \A i \in 1..L : h[i] = ServiceOctets(NormalizeAddressDigits(m.service_center))[i]
  /\ h[L + 1] = SubmitFlags(m, udhi) /\ h[L + 3] = Len(dest) % 256
  /\ \A i \in 1..d : h[L + 4 + i] = DigitOctets(dest)[i]
  /\ h[L + d + 6] = m.coding /\ (m.validity # -1 => h[L + d + 7] = m.validity)

LEMMA HeaderWritten ==
  ASSUME NEW m, m.service_center \in Seq(Nat), m.validity \in -1..255, m.coding \in Octet,
         NEW dest \in Seq(0..9), NEW udhi,
         NEW L, L = Len(ServiceOctets(NormalizeAddressDigits(m.service_center))),
         NEW d, d = Ceil(Len(dest), 2), NEW h, h = SubmitHeader(m, dest, udhi)
  PROVE  HeaderAt(h, m, dest, udhi, L, d)
<1> DEFINE s == ServiceOctets(NormalizeAddressDigits(m.service_center))
           flags == SubmitFlags(m, udhi)
           n == Len(dest) % 256
           f == <<flags, 0, n, 145>>
           D == DigitOctets(dest)
           c == <<0, m.coding>>
           vp == IF m.validity = -1 THEN <<>> ELSE <<m.validity>>
           v == IF m.validity # -1 THEN 1 ELSE 0
<1>1. s \in Seq(Octet) /\ Len(s) = L /\ L \in Nat
  <2>1. s \in Seq(Octet)
    BY DigitsOnly, ServiceWritten
  <2> QED
    BY <2>1
<1>2. f \in Seq(Octet) /\ Len(f) = 4 /\ f[1] = flags /\ f[3] = n
  <2>1. flags \in Octet /\ n \in Octet /\ 0 \in Octet /\ 145 \in Octet
    <3>1. Len(dest) \in Nat /\ \A x \in Nat : x % 256 \in Octet
      BY DEF Octet
    <3>2. n \in Octet
      BY <3>1
    <3> QED
      BY <3>2, FlagsRead DEF Octet
  <2> HIDE DEF flags, n
  <2> QED
    BY <2>1
<1>3. D \in Seq(Octet) /\ Len(D) = d /\ d \in Nat
  <2>1. D \in Seq(Octet) /\ Len(D) = d
    BY DigitsInOctets
  <2> QED
    BY <2>1
<1>4. c \in Seq(Octet) /\ Len(c) = 2 /\ c[2] = m.coding
  <2>1. 0 \in Octet
    BY DEF Octet
  <2> QED
    BY <2>1
<1>5. vp \in Seq(Octet) /\ Len(vp) = v /\ v \in Nat /\ (m.validity # -1 => v = 1 /\ vp[1] = m.validity)
  <2>1. CASE m.validity = -1
    BY <2>1, EmptySeq
  <2>2. CASE m.validity # -1
    <3>1. m.validity \in Octet
      BY <2>2 DEF Octet
    <3> QED
      BY <2>2, <3>1
  <2> QED
    BY <2>1, <2>2
<1> DEFINE flag == 1 + (IF udhi THEN 64 ELSE 0) + (IF m.request_status_report THEN 32 ELSE 0)
                     + (IF vp # <<>> THEN 16 ELSE 0)
<1>6. flag = flags
  <2>1. vp # <<>> <=> m.validity # -1
    OBVIOUS
  <2> QED
    BY <2>1 DEF SubmitFlags
<1>7. h = s \o <<flag, 0, n, 145>> \o D \o c \o vp
  BY DEF SubmitHeader, ServiceOctets
<1> HIDE DEF flag, flags, s, n, D, c, vp
<1>8. h = s \o f \o D \o c \o vp
  BY <1>6, <1>7
<1> HIDE DEF f, v
<1> DEFINE h1 == s \o f
           h2 == h1 \o D
           h3 == h2 \o c
<1>9. /\ h1 \in Seq(Octet) /\ Len(h1) = L + 4
      /\ (\A i \in 1..L : h1[i] = s[i]) /\ \A i \in 1..4 : h1[L + i] = f[i]
  <2>1. /\ h1 \in Seq(Octet) /\ Len(h1) = Len(s) + Len(f)
        /\ (\A i \in 1..Len(s) : h1[i] = s[i]) /\ \A i \in 1..Len(f) : h1[Len(s) + i] = f[i]
    <3>1. s \in Seq(Octet) /\ f \in Seq(Octet)
      BY <1>1, <1>2
    <3> QED
      BY <3>1, JoinedAt
  <2> HIDE DEF h1
  <2> QED
    BY <1>1, <1>2, <2>1
<1> HIDE DEF h1
<1>10. /\ h2 \in Seq(Octet) /\ Len(h2) = L + 4 + d /\ (\A i \in 1..(L + 4) : h2[i] = h1[i])
       /\ \A i \in 1..d : h2[L + 4 + i] = D[i]
  <2>1. /\ h2 \in Seq(Octet) /\ Len(h2) = Len(h1) + Len(D)
        /\ (\A i \in 1..Len(h1) : h2[i] = h1[i]) /\ \A i \in 1..Len(D) : h2[Len(h1) + i] = D[i]
    <3>1. h1 \in Seq(Octet) /\ D \in Seq(Octet)
      BY <1>3, <1>9
    <3> QED
      BY ONLY <3>1, JoinedAt
  <2> HIDE DEF h2
  <2> QED
    BY <1>3, <1>9, <2>1
<1> HIDE DEF h2
<1>11. /\ h3 \in Seq(Octet) /\ Len(h3) = L + 4 + d + 2
       /\ \A i \in 1..(L + 4 + d) : h3[i] = h2[i]
       /\ \A i \in 1..2 : h3[L + 4 + d + i] = c[i]
  <2>1. /\ h3 \in Seq(Octet) /\ Len(h3) = Len(h2) + Len(c)
        /\ (\A i \in 1..Len(h2) : h3[i] = h2[i]) /\ \A i \in 1..Len(c) : h3[Len(h2) + i] = c[i]
    <3>1. h2 \in Seq(Octet) /\ c \in Seq(Octet)
      BY <1>4, <1>10
    <3> QED
      BY <3>1, JoinedAt
  <2> HIDE DEF h3
  <2> QED
    BY <1>4, <1>10, <2>1
<1> HIDE DEF h3
<1>12. /\ h \in Seq(Octet) /\ Len(h) = L + 4 + d + 2 + v
       /\ (\A i \in 1..(L + 4 + d + 2) : h[i] = h3[i])
       /\ \A i \in 1..v : h[L + 4 + d + 2 + i] = vp[i]
  <2>1. h = h3 \o vp
    BY <1>8 DEF h3, h2, h1
  <2> DEFINE h4 == h3 \o vp
  <2>2. /\ h4 \in Seq(Octet) /\ Len(h4) = Len(h3) + Len(vp)
        /\ (\A i \in 1..Len(h3) : h4[i] = h3[i]) /\ \A i \in 1..Len(vp) : h4[Len(h3) + i] = vp[i]
    <3>1. h3 \in Seq(Octet) /\ vp \in Seq(Octet)
      BY <1>5, <1>11
    <3> QED
      BY <3>1, JoinedAt
  <2> HIDE DEF h4
  <2> QED
    BY <1>5, <1>11, <2>1, <2>2 DEF h4
<1>13. /\ L + 4 + d + 2 + v = L + d + 6 + v
       /\ L + 4 + d + 2 = L + d + 6
       /\ \A i \in 1..L : i \in 1..(L + 4) /\ i \in 1..(L + 4 + d) /\ i \in 1..(L + 4 + d + 2)
       /\ \A i \in 1..4 : /\ L + i \in 1..(L + 4) /\ L + i \in 1..(L + 4 + d)
                          /\ L + i \in 1..(L + 4 + d + 2)
       /\ L + d + 6 \in 1..(L + 4 + d + 2)
  <2>1. /\ L + 4 + d + 2 + v = L + d + 6 + v /\ L + 4 + d + 2 = L + d + 6
        /\ L + d + 6 \in 1..(L + 4 + d + 2)
    <3>1. L \in Nat /\ d \in Nat /\ v \in Nat
      BY <1>1, <1>3, <1>5
    <3>2. L + 4 + d + 2 = L + d + 6
      BY <3>1
    <3>3. L + d + 6 \in Nat /\ 1 <= L + d + 6
      BY <3>1
    <3> QED
      BY <3>1, <3>2, <3>3
  <2>2. \A i \in 1..L : i \in 1..(L + 4) /\ i \in 1..(L + 4 + d) /\ i \in 1..(L + 4 + d + 2)
    BY <1>1, <1>3
  <2>3. \A i \in 1..4 : /\ L + i \in 1..(L + 4) /\ L + i \in 1..(L + 4 + d)
                        /\ L + i \in 1..(L + 4 + d + 2)
    BY <1>1, <1>3
  <2> QED
    BY <2>1, <2>2, <2>3
<1>14. ASSUME NEW i \in 1..L PROVE h[i] = s[i]
  <2>1. i \in 1..(L + 4) /\ i \in 1..(L + 4 + d) /\ i \in 1..(L + 4 + d + 2)
    BY <1>13
  <2>2. h[i] = h3[i]
    BY <1>12, <2>1
  <2>3. h3[i] = h2[i]
    BY <1>11, <2>1
  <2>4. h2[i] = h1[i]
    BY <1>10, <2>1
  <2> QED
    BY <1>9, <2>2, <2>3, <2>4
<1>15. ASSUME NEW i \in 1..4 PROVE h[L + i] = f[i]
  <2>1. L + i \in 1..(L + 4) /\ L + i \in 1..(L + 4 + d) /\ L + i \in 1..(L + 4 + d + 2)
    BY <1>13
  <2>2. h[L + i] = h3[L + i]
    BY <1>12, <2>1
  <2>3. h3[L + i] = h2[L + i]
    BY <1>11, <2>1
  <2>4. h2[L + i] = h1[L + i]
    BY <1>10, <2>1
  <2> QED
    BY <1>9, <2>2, <2>3, <2>4
<1>16. h[L + 1] = flags /\ h[L + 3] = n
  <2>1. 1 \in 1..4 /\ 3 \in 1..4
    OBVIOUS
  <2> QED
    BY <1>2, <1>15, <2>1
<1>17. h[L + d + 6] = m.coding
  <2>1. 2 \in 1..2
    OBVIOUS
  <2>2. h3[L + d + 6] = c[2]
    BY <1>11, <1>13, <2>1
  <2> QED
    BY <1>4, <1>12, <1>13, <2>2
<1>18. \A i \in 1..d : h[L + 4 + i] = D[i]
  <2> SUFFICES ASSUME NEW i \in 1..d PROVE h[L + 4 + i] = D[i]
    OBVIOUS
  <2>1. L + 4 + i \in 1..(L + 4 + d) /\ L + 4 + i \in 1..(L + 4 + d + 2)
    <3>1. L \in Nat /\ d \in Nat /\ i \in 1..d
      BY <1>1, <1>3
    <3> QED
      BY ONLY <3>1
  <2> QED
    BY <1>10, <1>11, <1>12, <2>1
<1>19. m.validity # -1 => h[L + d + 7] = m.validity
  <2> SUFFICES ASSUME m.validity # -1 PROVE h[L + d + 7] = m.validity
    OBVIOUS
  <2>1. v = 1 /\ vp[1] = m.validity /\ 1 \in 1..1
    BY <1>5
  <2>2. L + d + 7 = L + 4 + d + 2 + 1
    <3>1. L \in Nat /\ d \in Nat
      BY <1>1, <1>3
    <3> QED
      BY ONLY <3>1
  <2> QED
    BY <1>12, <2>1, <2>2
<1> QED
  BY <1>1, <1>3, <1>12, <1>13, <1>14, <1>16, <1>17, <1>18, <1>19 DEF HeaderAt, s, flags, n, v, D

\* User data that is as long as its first octet says.
WellMeasured(c, data) ==
  /\ data \in Seq(Octet) /\ data # <<>> /\ Len(data) = 1 + TextOctets(c, data[1])

LEMMA MeasuredBy ==
  ASSUME NEW c, NEW data \in Seq(Octet), NEW x \in Octet, data[1] = x,
         Len(data) = 1 + TextOctets(c, x)
  PROVE  WellMeasured(c, data)
<1>1. x \in Nat
  BY DEF Octet
<1>2. TextOctets(c, x) \in Nat
  BY <1>1 DEF TextOctets, Ceil
<1>3. data # <<>>
  <2>1. Len(data) # 0
    BY <1>2
  <2> QED
    BY <2>1, EmptySeq
<1> QED
  BY <1>3 DEF WellMeasured

\* A text after its length x: septets without a header, septets that follow a
\* header, units of one octet.
LEMMA PlainWritten ==
  ASSUME NEW septets \in Seq(Septet), NEW x \in Octet, x = Len(septets),
         NEW data, data = <<x>> \o Encode7bit(septets)
  PROVE  WellMeasured("gsm7", data)
<1> DEFINE body == Encode7bit(septets)
<1>1. body \in Seq(Octet) /\ Len(body) = Ceil(7 * x, 8)
  BY Encode7bitTyped
<1>2. <<x>> \in Seq(Octet) /\ Len(<<x>>) = 1 /\ <<x>>[1] = x /\ 1 \in 1..1
  OBVIOUS
<1> HIDE DEF body
<1>3. /\ <<x>> \o body \in Seq(Octet) /\ Len(<<x>> \o body) = Len(<<x>>) + Len(body)
      /\ \A i \in 1..Len(<<x>>) : (<<x>> \o body)[i] = <<x>>[i]
  BY <1>1, <1>2, JoinedAt
<1>4. data = <<x>> \o body
  BY DEF body
<1> DEFINE s == <<x>>
<1> HIDE DEF s
<1>5. data \in Seq(Octet) /\ data[1] = x /\ Len(data) = 1 + Ceil(7 * x, 8)
  BY <1>1, <1>2, <1>3, <1>4
<1>6. Ceil(7 * x, 8) = TextOctets("gsm7", x)
  BY DEF TextOctets
<1> QED
  BY <1>5, <1>6, MeasuredBy

LEMMA PackedWritten ==
  ASSUME NEW udh \in Seq(Octet), NEW septets \in Seq(Septet),
         NEW skip \in Nat, skip = UdhSeptets(Len(udh)), NEW x \in Octet, x = skip + Len(septets),
         NEW data, data = <<x>> \o AppendPacked7bitAt(udh, septets, 7 * skip)
  PROVE  WellMeasured("gsm7", data)
<1> DEFINE n == Len(septets)
           h == Len(udh)
           start == 7 * skip
           size == Ceil(start + 7 * n, 8)
           body == AppendPacked7bitAt(udh, septets, start)
<1>1. n \in Nat /\ h \in Nat /\ x = skip + n
  OBVIOUS
<1>2. skip = (8 * h + 7 - 1) \div 7
  BY DEF UdhSeptets, Ceil
<1> HIDE DEF n, h
<1>3. skip \in Nat /\ start \in Nat /\ 8 * h <= start
  BY <1>1, <1>2
<1>4. size = (start + 7 * n + 8 - 1) \div 8 /\ size = Ceil(7 * x, 8)
  <2>1. start + 7 * n = 7 * x
    BY <1>1, <1>3
  <2> QED
    BY <2>1 DEF Ceil
<1> HIDE DEF size, start
<1>5. h <= size /\ size \in Nat
  BY <1>1, <1>3, <1>4
<1>6. body \in Seq(Octet) /\ Len(body) = IF size > h THEN size ELSE h
  BY <1>3, PackedTyped DEF n, h, size
<1>7. Len(body) = size
  BY <1>1, <1>5, <1>6
<1>8. <<x>> \in Seq(Octet) /\ Len(<<x>>) = 1 /\ <<x>>[1] = x /\ 1 \in 1..1
  OBVIOUS
<1>9. data = <<x>> \o body
  BY DEF body, start
<1> HIDE DEF body
<1>10. /\ <<x>> \o body \in Seq(Octet) /\ Len(<<x>> \o body) = Len(<<x>>) + Len(body)
       /\ \A i \in 1..Len(<<x>>) : (<<x>> \o body)[i] = <<x>>[i]
  <2>1. <<x>> \in Seq(Octet) /\ body \in Seq(Octet)
    BY <1>6, <1>8
  <2> QED
    BY <2>1, JoinedAt
<1>11. data \in Seq(Octet) /\ data[1] = x /\ Len(data) = 1 + Ceil(7 * x, 8)
  BY <1>4, <1>7, <1>8, <1>9, <1>10
<1>12. Ceil(7 * x, 8) = TextOctets("gsm7", x)
  BY DEF TextOctets
<1> QED
  BY <1>11, <1>12, MeasuredBy

LEMMA OctetsWritten ==
  ASSUME NEW udh \in Seq(Octet), NEW octets \in Seq(Octet),
         NEW x \in Octet, x = Len(udh) + Len(octets),
         NEW data, data = <<x>> \o udh \o octets, NEW c, c # "gsm7"
  PROVE  WellMeasured(c, data)
<1> DEFINE s == <<x>>
           t == s \o udh
           u == t \o octets
<1>1. s \in Seq(Octet) /\ Len(s) = 1 /\ s[1] = x /\ 1 \in 1..1
  OBVIOUS
<1> HIDE DEF s
<1>2. /\ t \in Seq(Octet) /\ Len(t) = Len(s) + Len(udh)
      /\ \A i \in 1..Len(s) : t[i] = s[i]
  <2>1. s \in Seq(Octet)
    BY <1>1
  <2> QED
    BY <2>1, JoinedAt
<1> HIDE DEF t
<1>3. t \in Seq(Octet)
  BY <1>2
<1>4. /\ u \in Seq(Octet) /\ Len(u) = Len(t) + Len(octets)
      /\ \A i \in 1..Len(t) : u[i] = t[i]
  BY <1>3, JoinedAt
<1> HIDE DEF u
<1>5. Len(udh) \in Nat /\ Len(octets) \in Nat
  OBVIOUS
<1>6. 1 \in 1..Len(t) /\ Len(u) = 1 + x
  BY <1>1, <1>2, <1>4, <1>5
<1>7. u[1] = x
  BY <1>1, <1>2, <1>4, <1>6
<1>8. data \in Seq(Octet) /\ data[1] = x /\ Len(data) = 1 + x
  BY <1>4, <1>6, <1>7 DEF u, t, s
<1>9. x = TextOctets(c, x)
  BY DEF TextOctets
<1> QED
  BY <1>8, <1>9, MeasuredBy

\* The user data of a part.
SegmentData(c, units, concat) ==
  LET udh == ConcatUdh(concat)
      skip == UdhSeptets(Len(udh))
      octets == IF c = "ucs2" THEN Octets(units) ELSE units
  IN IF c # "gsm7" THEN <<Len(udh) + Len(octets)>> \o udh \o octets
     ELSE IF concat = <<>> THEN <<Len(units)>> \o Encode7bit(units)
     ELSE <<skip + Len(units)>> \o AppendPacked7bitAt(udh, units, 7 * skip)

LEMMA UdhWritten ==
  ASSUME NEW concat, concat = <<>> \/ (concat \in Seq(Octet) /\ Len(concat) = 3)
  PROVE  /\ ConcatUdh(concat) \in Seq(Octet)
         /\ Len(ConcatUdh(concat)) = IF concat = <<>> THEN 0 ELSE 6
<1>1. CASE concat = <<>>
  BY <1>1, EmptySeq DEF ConcatUdh
<1>2. CASE concat # <<>>
  <2> DEFINE s == <<5, 0, 3>>
  <2>1. 5 \in Octet /\ 0 \in Octet /\ 3 \in Octet
    BY DEF Octet
  <2>2. s \in Seq(Octet) /\ concat \in Seq(Octet)
    BY <1>2, <2>1
  <2>3. Len(s) = 3 /\ Len(concat) = 3 /\ ConcatUdh(concat) = s \o concat
    BY <1>2 DEF ConcatUdh
  <2> HIDE DEF s
  <2>4. s \o concat \in Seq(Octet) /\ Len(s \o concat) = Len(s) + Len(concat)
    BY <2>2, JoinedAt
  <2> QED
    BY <1>2, <2>3, <2>4
<1> QED
  BY <1>1, <1>2

LEMMA DataWritten ==
  ASSUME NEW c \in {"gsm7", "ucs2", "8bit"}, NEW units \in Seq(UnitsFor(c)),
         NEW concat, concat = <<>> \/ (concat \in Seq(Octet) /\ Len(concat) = 3),
         Len(units) <= IF concat = <<>> THEN Capacity(c, UserDataOctets) ELSE PartUnits(c)
  PROVE  WellMeasured(c, SegmentData(c, units, concat))
<1> DEFINE n == Len(units)
           udh == ConcatUdh(concat)
           h == IF concat = <<>> THEN 0 ELSE 6
           data == SegmentData(c, units, concat)
<1>1. n \in Nat /\ UserDataOctets \in 11..140
  BY UserDataAssumption
<1>2. udh \in Seq(Octet) /\ Len(udh) = h
  BY UdhWritten
<1>3. (concat = <<>> => h = 0 /\ n <= Capacity(c, UserDataOctets))
      /\ (concat # <<>> => h = 6 /\ n <= PartUnits(c))
  OBVIOUS
<1> HIDE DEF n, h
<1>5. CASE c = "gsm7"
  <2>0. units \in Seq(Septet)
    BY <1>5 DEF UnitsFor
  <2>1. CASE concat = <<>>
    <3>1. n <= (8 * UserDataOctets) \div 7
      BY <1>3, <1>5, <2>1 DEF Capacity
    <3>2. n \in Octet
      BY <1>1, <3>1 DEF Octet
    <3>3. data = <<n>> \o Encode7bit(units)
      BY <1>5, <2>1 DEF SegmentData, n
    <3>4. n = Len(units)
      BY DEF n
    <3>5. WellMeasured("gsm7", data)
      <4> HIDE DEF data
      <4> QED
        BY <2>0, <3>2, <3>3, <3>4, PlainWritten
    <3> QED
      BY <1>5, <3>5
  <2>2. CASE concat # <<>>
    <3>1. PICK u, skip : u = udh /\ skip = UdhSeptets(Len(u))
      OBVIOUS
    <3>2. u \in Seq(Octet) /\ Len(u) = 6
      BY <1>2, <1>3, <2>2, <3>1
    <3>3. skip = 7 /\ UdhSeptets(6) = 7
      BY <3>1, <3>2 DEF UdhSeptets, Ceil
    <3>4. n <= (8 * UserDataOctets) \div 7 - 7
      BY <1>3, <1>5, <2>2, <3>3 DEF Capacity, PartUnits
    <3>5. PICK x : x = skip + Len(units)
      OBVIOUS
    <3>6. x \in Octet
      <4>1. x = 7 + n
        BY <3>3, <3>5 DEF n
      <4> QED
        BY <1>1, <3>4, <4>1 DEF Octet
    <3>7. data = <<x>> \o AppendPacked7bitAt(u, units, 7 * skip)
      BY <1>5, <2>2, <3>1, <3>5 DEF SegmentData
    <3>8. u \in Seq(Octet) /\ skip \in Nat /\ skip = UdhSeptets(Len(u))
      BY <3>1, <3>2, <3>3
    <3>9. WellMeasured("gsm7", data)
      <4> HIDE DEF data
      <4> QED
        BY <2>0, <3>5, <3>6, <3>7, <3>8, PackedWritten
    <3> QED
      BY <1>5, <3>9
  <2> QED
    BY <2>1, <2>2
<1>6. CASE c # "gsm7"
  <2> DEFINE octets == IF c = "ucs2" THEN Octets(units) ELSE units
             m == Len(octets)
             x == Len(udh) + m
  <2>1. octets \in Seq(Octet) /\ m = IF c = "ucs2" THEN 2 * n ELSE n
    <3>1. CASE c = "ucs2"
      <4>1. units \in Seq(Unit)
        BY <3>1 DEF UnitsFor
      <4> QED
        BY <3>1, <4>1, OctetsTyped DEF n
    <3>2. CASE c # "ucs2"
      <4>1. units \in Seq(Octet)
        BY <1>6, <3>2 DEF UnitsFor
      <4> QED
        BY <3>2, <4>1 DEF n
    <3> QED
      BY <3>1, <3>2
  <2>2. h + m <= UserDataOctets /\ m \in Nat
    <3> HIDE DEF m
    <3>1. CASE c = "ucs2"
      <4>1. concat = <<>> => n <= UserDataOctets \div 2
        BY <1>3, <3>1 DEF Capacity
      <4>2. concat # <<>> => n <= (UserDataOctets - 6) \div 2
        BY <1>3, <3>1 DEF Capacity, PartUnits
      <4> QED
        BY <1>1, <1>3, <2>1, <3>1, <4>1, <4>2
    <3>2. CASE c = "8bit"
      <4>1. concat = <<>> => n <= UserDataOctets
        BY <1>3, <3>2 DEF Capacity
      <4>2. concat # <<>> => n <= UserDataOctets - 6
        BY <1>3, <3>2 DEF Capacity, PartUnits
      <4> QED
        BY <1>1, <1>3, <2>1, <3>2, <4>1, <4>2
    <3> QED
      BY <1>6, <3>1, <3>2
  <2>3. x \in Octet
    <3> HIDE DEF m
    <3>1. h \in Nat /\ Len(udh) + m = h + m
      BY <1>2, <1>3
    <3>2. h + m \in Octet
      BY <1>1, <2>2, <3>1 DEF Octet
    <3> QED
      BY <3>1, <3>2
  <2>4. data = <<x>> \o udh \o octets
    BY <1>6 DEF SegmentData
  <2>5. x = Len(udh) + Len(octets) /\ udh \in Seq(Octet) /\ octets \in Seq(Octet)
    BY <1>2, <2>1
  <2>6. WellMeasured(c, data)
    <3> HIDE DEF data, udh, octets, x
    <3> QED
      BY <1>6, <2>3, <2>4, <2>5, OctetsWritten
  <2> QED
    BY <2>6
<1> QED
  BY <1>5, <1>6

-----------------------------------------------------------------------------
(***************************************************************************)
(* What the user data of a part reads back as.                             *)
(***************************************************************************)
LEMMA OctetsAreNumbers ==
  ASSUME NEW s \in Seq(Octet)
  PROVE  s \in Seq(Nat)
<1>1. Octet \subseteq Nat
  BY DEF Octet
<1> QED
  BY <1>1, SeqOver

\* Octets can be read back as the units they were made of.
LEMMA UnitsReadBack ==
  ASSUME NEW units \in Seq(Unit)
  PROVE  \A k \in 1..Len(units) : UnitAt(Octets(units), k) = units[k]
<1> DEFINE n == Len(units)
           hi(i) == units[i] \div 256
           lo(i) == units[i] % 256
           pieces == [i \in 1..n |-> <<hi(i), lo(i)>>]
<1>1. n \in Nat /\ DOMAIN units = 1..n /\ \A i \in 1..n : units[i] \in Unit
  OBVIOUS
<1>2. Octets(units) = FlattenSeq(pieces)
  BY <1>1 DEF Octets
<1>3. \A i \in 1..n : hi(i) \in Octet /\ lo(i) \in Octet /\ 256 * hi(i) + lo(i) = units[i]
  <2>1. \A v \in Unit : v \div 256 \in Octet /\ v % 256 \in Octet /\ 256 * (v \div 256) + (v % 256) = v
    BY DEF Unit, Octet
  <2> QED
    BY <1>1, <2>1
<1> HIDE DEF n, hi, lo
<1>4. pieces \in Seq(Seq(Octet)) /\ Len(pieces) = n /\ \A i \in 1..n : pieces[i] = <<hi(i), lo(i)>>
  <2>1. \A i \in 1..n : <<hi(i), lo(i)>> \in Seq(Octet)
    BY <1>3
  <2>2. pieces \in [1..n -> Seq(Octet)] /\ \A i \in 1..n : pieces[i] = <<hi(i), lo(i)>>
    BY <2>1
  <2> HIDE DEF pieces
  <2> QED
    BY <1>1, <2>2
<1> HIDE DEF pieces
<1>5. PICK g : FlatRun(Octet, pieces, g)
  BY <1>4, FlatRunExists
<1>6. /\ g \in [0..n -> Seq(Octet)] /\ g[0] = <<>> /\ FlattenSeq(pieces) = g[n]
      /\ \A k \in 0..n : k < n => g[k + 1] = g[k] \o pieces[k + 1]
  BY <1>4, <1>5, FlattenIsRun DEF FlatRun
<1> DEFINE Holds(k) == /\ Len(g[k]) = 2 * k
                       /\ \A j \in 1..k : g[k][2 * j - 1] = hi(j) /\ g[k][2 * j] = lo(j)
           S == {k \in 0..n : Holds(k)}
<1>7. 0 \in S
  BY <1>1, <1>6
<1>8. ASSUME NEW k \in 0..n, k \in S, k < n PROVE k + 1 \in S
  <2> DEFINE s == g[k]
             t == pieces[k + 1]
  <2>1. k + 1 \in 1..n /\ k + 1 \in 0..n /\ k \in Nat
    BY <1>1, <1>8
  <2>2. s \in Seq(Octet) /\ Len(s) = 2 * k /\ \A j \in 1..k : s[2 * j - 1] = hi(j) /\ s[2 * j] = lo(j)
    BY <1>6, <1>8
  <2>3. t \in Seq(Octet) /\ Len(t) = 2 /\ t[1] = hi(k + 1) /\ t[2] = lo(k + 1)
    <3>1. PICK x, y : x = hi(k + 1) /\ y = lo(k + 1)
      OBVIOUS
    <3>2. t = <<x, y>> /\ x \in Octet /\ y \in Octet
      BY <1>3, <1>4, <2>1, <3>1
    <3> QED
      BY <3>1, <3>2
  <2>4. g[k + 1] = s \o t
    BY <1>6, <1>8
  <2> HIDE DEF s, t
  <2>5. /\ Len(s \o t) = 2 * k + 2 /\ (\A i \in 1..(2 * k) : (s \o t)[i] = s[i])
        /\ \A i \in 1..2 : (s \o t)[2 * k + i] = t[i]
    <3>1. PICK w : w = s \o t
      OBVIOUS
    <3>a. s \in Seq(Octet) /\ t \in Seq(Octet)
      BY <2>2, <2>3
    <3>b. /\ Len(s \o t) = Len(s) + Len(t) /\ (\A i \in 1..Len(s) : (s \o t)[i] = s[i])
          /\ \A i \in 1..Len(t) : (s \o t)[Len(s) + i] = t[i]
      BY ONLY <3>a, JoinedAt
    <3>2. /\ Len(w) = Len(s) + Len(t) /\ (\A i \in 1..Len(s) : w[i] = s[i])
          /\ \A i \in 1..Len(t) : w[Len(s) + i] = t[i]
      BY <3>1, <3>b
    <3>3. PICK m : m = 2 * k
      OBVIOUS
    <3>4. Len(w) = m + 2 /\ (\A i \in 1..m : w[i] = s[i]) /\ \A i \in 1..2 : w[m + i] = t[i]
      BY <2>2, <2>3, <3>2, <3>3
    <3> QED
      BY <3>1, <3>3, <3>4
  <2>6. ASSUME NEW j \in 1..(k + 1)
        PROVE  g[k + 1][2 * j - 1] = hi(j) /\ g[k + 1][2 * j] = lo(j)
    <3>1. CASE j \in 1..k
      <4>1. 2 * j - 1 \in 1..(2 * k) /\ 2 * j \in 1..(2 * k)
        BY <2>1, <3>1
      <4> QED
        BY <2>2, <2>4, <2>5, <3>1, <4>1
    <3>2. CASE j = k + 1
      <4>1. 2 * j - 1 = 2 * k + 1 /\ 2 * j = 2 * k + 2 /\ 1 \in 1..2 /\ 2 \in 1..2
        BY <2>1, <3>2
      <4> QED
        BY <2>3, <2>4, <2>5, <3>2, <4>1
    <3> QED
      BY <2>1, <3>1, <3>2
  <2>7. Len(g[k + 1]) = 2 * (k + 1)
    BY <2>1, <2>4, <2>5
  <2> QED
    BY <2>1, <2>6, <2>7
<1>9. n \in S
  <2> HIDE DEF S
  <2>1. \A k \in 0..n : k \in S
    BY <1>1, <1>7, <1>8, UpTo
  <2> QED
    BY <1>1, <2>1
<1> QED
  BY <1>1, <1>2, <1>3, <1>6, <1>9 DEF UnitAt, n

\* Pairs that are whole are read.
LEMMA PairsRead ==
  ASSUME NEW units \in Seq(Unit), WellPaired(units)
  PROVE  DecodeUcs2(Octets(units)).ec = "Ok"
<1> DEFINE b == Octets(units)
           n == Len(units)
<1>1. n \in Nat /\ b \in Seq(Octet) /\ Len(b) = 2 * n /\ \A k \in 1..n : UnitAt(b, k) = units[k]
  BY OctetsTyped, UnitsReadBack
<1> HIDE DEF b
<1>2. Len(b) % 2 = 0 /\ Len(b) \div 2 = n /\ b \in Seq(Nat)
  BY <1>1, OctetsAreNumbers
<1>3. PairsWhole(b)
  <2> SUFFICES ASSUME NEW k \in 1..n, UnitAt(b, k) \in HighSurrogates
               PROVE  k # n /\ UnitAt(b, k + 1) \in LowSurrogates
    BY <1>2 DEF PairsWhole
  <2>1. k # n /\ units[k + 1] \in LowSurrogates
    BY <1>1 DEF WellPaired
  <2>2. k + 1 \in 1..n
    BY <1>1, <2>1
  <2> QED
    BY <1>1, <2>1, <2>2
<1> QED
  BY <1>2, <1>3, DecodeUcs2Outcome DEF b

\* So are those that the encoder makes of characters.
LEMMA PairsJoined ==
  ASSUME NEW u \in Seq(Unit), NEW v \in Seq(Unit), WellPaired(u), WellPaired(v)
  PROVE  WellPaired(u \o v)
<1> DEFINE w == u \o v
           m == Len(u)
           n == Len(v)
<1>1. /\ Len(w) = m + n /\ m \in Nat /\ n \in Nat /\ (\A i \in 1..m : w[i] = u[i])
      /\ \A i \in 1..n : w[m + i] = v[i]
  BY JoinedAt
<1> HIDE DEF w
<1> SUFFICES ASSUME NEW i \in 1..Len(w), w[i] \in HighSurrogates
             PROVE  i # Len(w) /\ w[i + 1] \in LowSurrogates
  BY DEF WellPaired, w
<1>2. CASE i \in 1..m
  <2>1. i # m /\ u[i + 1] \in LowSurrogates
    BY <1>1, <1>2 DEF WellPaired
  <2>2. i + 1 \in 1..m /\ i # m + n
    BY <1>1, <1>2, <2>1
  <2> QED
    BY <1>1, <2>1, <2>2
<1>3. CASE i \notin 1..m
  <2>1. PICK j \in 1..n : i = m + j
    <3>1. i - m \in 1..n /\ i = m + (i - m)
      BY <1>1, <1>3
    <3> QED
      BY <3>1
  <2>2. j # n /\ v[j + 1] \in LowSurrogates
    BY <1>1, <2>1 DEF WellPaired
  <2>3. j + 1 \in 1..n /\ i # m + n /\ i + 1 = m + (j + 1)
    BY <1>1, <2>1, <2>2
  <2>4. w[m + (j + 1)] = v[j + 1]
    BY <1>1, <2>3
  <2>5. w[i + 1] = v[j + 1]
    BY <2>3, <2>4
  <2> QED
    BY <1>1, <2>2, <2>3, <2>5
<1> QED
  BY <1>2, <1>3

LEMMA CharacterPaired ==
  ASSUME NEW cp \in Nat, cp \notin HighSurrogates \union LowSurrogates
  PROVE  WellPaired(Utf16(cp))
<1>1. CASE cp < 65536
  <2>1. Utf16(cp) = <<cp>>
    BY <1>1 DEF Utf16
  <2>2. Len(Utf16(cp)) = 1 /\ Utf16(cp)[1] \notin HighSurrogates
    BY <2>1
  <2> QED
    BY <2>2 DEF WellPaired
<1>2. CASE ~(cp < 65536)
  <2> DEFINE high == 55296 + (((cp - 65536) \div 1024) % 1024)
             low == 56320 + ((cp - 65536) % 1024)
  <2>1. Utf16(cp) = <<high, low>>
    BY <1>2 DEF Utf16
  <2>2. low \in LowSurrogates
    <3>1. \A z \in Nat : z % 1024 \in 0..1023
      OBVIOUS
    <3>2. cp - 65536 \in Nat
      BY <1>2
    <3>3. PICK y \in 0..1023 : y = (cp - 65536) % 1024
      BY <3>1, <3>2
    <3> QED
      BY <3>3 DEF LowSurrogates
  <2>3. HighSurrogates \intersect LowSurrogates = {}
    BY DEF HighSurrogates, LowSurrogates
  <2> HIDE DEF high, low
  <2>4. Len(Utf16(cp)) = 2 /\ Utf16(cp)[1] = high /\ Utf16(cp)[2] = low
    BY <2>1
  <2>5. \A i \in 1..2 : i = 1 \/ i = 2
    OBVIOUS
  <2>6. \A i \in 1..2 : Utf16(cp)[i] \in HighSurrogates => i # 2 /\ Utf16(cp)[i + 1] \in LowSurrogates
    <3>1. CASE TRUE
      <4>1. Utf16(cp)[2] \notin HighSurrogates /\ Utf16(cp)[1 + 1] \in LowSurrogates
        BY <2>2, <2>3, <2>4
      <4> QED
        BY <2>5, <4>1
    <3> QED
      BY <3>1
  <2> QED
    BY <2>4, <2>6 DEF WellPaired
<1> QED
  BY <1>1, <1>2

LEMMA EncodedPaired ==
  ASSUME NEW text \in Seq(Octet), IsUtf8(text)
  PROVE  WellPaired(EncodeUcs2(text).out)
<1> DEFINE all == CodePoints(text)
           cps == all.out
           n == Len(cps)
           pieces == [i \in 1..n |-> Utf16(cps[i])]
<1>1. all \in Results(Nat, "EncodeFailure") /\ all.ec = "Ok"
  BY CodePointsTyped DEF IsUtf8
<1>0. \A i \in DOMAIN cps : cps[i] \notin HighSurrogates \union LowSurrogates
  BY DEF IsUtf8
<1> HIDE DEF all
<1>2. cps \in Seq(Nat) /\ DOMAIN cps = 1..n /\ n \in Nat /\ \A i \in 1..n : cps[i] \in Nat
  <2>1. cps \in Seq(Nat)
    BY <1>1 DEF Results
  <2> HIDE DEF cps
  <2> QED
    BY <2>1
<1>3. EncodeUcs2(text).out = FlattenSeq(pieces)
  <2>1. EncodeUcs2(text) = Ok(FlattenSeq(pieces))
    BY <1>1, <1>2 DEF EncodeUcs2, all
  <2> QED
    BY <2>1 DEF Ok
<1> HIDE DEF n
<1>4. \A i \in 1..n : Utf16(cps[i]) \in Seq(Unit) /\ WellPaired(Utf16(cps[i]))
  <2> HIDE DEF cps
  <2> QED
    BY <1>0, <1>2, UnitsOf, CharacterPaired
<1>5. /\ pieces \in Seq(Seq(Unit)) /\ Len(pieces) = n
      /\ \A i \in 1..n : pieces[i] \in Seq(Unit) /\ WellPaired(pieces[i])
  <2>1. pieces \in [1..n -> Seq(Unit)] /\ \A i \in 1..n : pieces[i] = Utf16(cps[i])
    BY <1>4
  <2> HIDE DEF pieces
  <2> QED
    BY <1>2, <1>4, <2>1
<1> HIDE DEF pieces, cps
<1>6. PICK g : FlatRun(Unit, pieces, g)
  BY <1>5, FlatRunExists
<1>7. /\ g \in [0..n -> Seq(Unit)] /\ g[0] = <<>> /\ FlattenSeq(pieces) = g[n]
      /\ \A k \in 0..n : k < n => g[k + 1] = g[k] \o pieces[k + 1]
  BY <1>5, <1>6, FlattenIsRun DEF FlatRun
<1> DEFINE S == {k \in 0..n : WellPaired(g[k])}
<1>8. 0 \in S
  <2>1. WellPaired(<<>>)
    BY DEF WellPaired
  <2> QED
    BY <1>2, <1>7, <2>1
<1>9. ASSUME NEW k \in 0..n, k \in S, k < n PROVE k + 1 \in S
  <2>1. k + 1 \in 1..n /\ k + 1 \in 0..n
    BY <1>2, <1>9
  <2>2. WellPaired(g[k] \o pieces[k + 1])
    BY <1>5, <1>7, <1>9, <2>1, PairsJoined
  <2> QED
    BY <1>7, <1>9, <2>1, <2>2
<1>10. n \in S
  <2> HIDE DEF S
  <2>1. \A k \in 0..n : k \in S
    BY <1>2, <1>8, <1>9, UpTo
  <2> QED
    BY <1>2, <2>1
<1> QED
  BY <1>3, <1>7, <1>10

\* parse_concat_from_udh finds the element that append_concat_udh writes.
LEMMA ConcatParsed ==
  ASSUME NEW concat \in Seq(Octet), Len(concat) = 3
  PROVE  /\ ParseConcatFromUdh(ConcatUdh(concat)) = concat
         /\ ConcatUdh(concat) \in Seq(Octet) /\ Len(ConcatUdh(concat)) = 6 /\ ConcatUdh(concat)[1] = 5
<1> DEFINE s == <<5, 0, 3>>
           udh == ConcatUdh(concat)
<1>1. s \in Seq(Octet) /\ Len(s) = 3 /\ s[1] = 5 /\ s[2] = 0 /\ s[3] = 3 /\ concat # <<>>
  <2>1. 5 \in Octet /\ 0 \in Octet /\ 3 \in Octet
    BY DEF Octet
  <2>2. concat # <<>>
    BY EmptySeq
  <2> QED
    BY <2>1, <2>2
<1>2. udh = s \o concat
  BY <1>1 DEF ConcatUdh
<1> HIDE DEF s, udh
<1>3. /\ udh \in Seq(Octet) /\ Len(udh) = 6 /\ (\A i \in 1..3 : udh[i] = s[i])
      /\ (\A i \in 1..3 : udh[3 + i] = concat[i]) /\ SubSeq(udh, 4, 6) = concat
  <2>1. /\ s \o concat \in Seq(Octet) /\ Len(s \o concat) = Len(s) + Len(concat)
        /\ (\A i \in 1..Len(s) : (s \o concat)[i] = s[i])
        /\ (\A i \in 1..Len(concat) : (s \o concat)[Len(s) + i] = concat[i])
        /\ SubSeq(s \o concat, Len(s) + 1, Len(s) + Len(concat)) = concat
    <3>1. s \in Seq(Octet) /\ concat \in Seq(Octet)
      BY <1>1
    <3> QED
      BY ONLY <3>1, JoinedAt
  <2> QED
    BY <1>1, <1>2, <2>1
<1>4. udh[1] = 5 /\ udh[2] = 0 /\ udh[3] = 3 /\ \A i \in 1..6 : udh[i] \in Nat
  <2>1. \A i \in 1..6 : udh[i] \in Octet
    <3>0. udh \in Seq(Octet)
      BY <1>3
    <3>1. \A i \in 1..Len(udh) : udh[i] \in Octet
      BY ONLY <3>0
    <3> QED
      BY <1>3, <3>1
  <2>2. udh[1] = s[1] /\ udh[2] = s[2] /\ udh[3] = s[3]
    BY <1>3
  <2>3. Octet \subseteq Nat
    BY DEF Octet
  <2> QED
    BY <1>1, <2>1, <2>2, <2>3
<1> DEFINE Wide(i) == <<256 * udh[i + 2] + udh[i + 3], udh[i + 4], udh[i + 5]>>
           Body(g, i) ==
             IF i + 1 > Len(udh) \/ i + 1 + udh[i + 1] > Len(udh) THEN <<>>
             ELSE IF udh[i] = 0 /\ udh[i + 1] = 3 THEN SubSeq(udh, i + 2, i + 4)
             ELSE IF udh[i] = 8 /\ udh[i + 1] = 4 THEN Wide(i)
             ELSE g[i + 2 + udh[i + 1]]
           Rec(g) == g = [i \in 2..(Len(udh) + 1) |-> Body(g, i)]
           from == CHOOSE g : Rec(g)
<1>5. ParseConcatFromUdh(udh) = from[2]
  BY DEF ParseConcatFromUdh
<1>6. \E g : Rec(g)
  <2> DEFINE g == [i \in 2..7 |-> IF i = 2 THEN concat ELSE <<>>]
  <2>1. g[2] = concat /\ \A i \in 3..7 : g[i] = <<>>
    OBVIOUS
  <2>2. Body(g, 2) = concat
    BY <1>3, <1>4
  <2> HIDE DEF g, Wide
  <2>3. Body(g, 7) = <<>> /\ Body(g, 6) = <<>>
    BY <1>3
  <2>4. Body(g, 5) = <<>>
    <3>1. udh[6] \in Nat /\ (udh[6] = 0 => g[5 + 2 + udh[6]] = <<>>)
      BY <1>4, <2>1
    <3>2. udh[6] # 0 => 5 + 1 + udh[6] > 6
      BY <3>1
    <3> QED
      BY <1>3, <3>1, <3>2
  <2>5. Body(g, 4) = <<>>
    <3>1. udh[5] \in Nat /\ (udh[5] \in 0..1 => g[4 + 2 + udh[5]] = <<>>)
      BY <1>4, <2>1
    <3>2. udh[5] \notin 0..1 => 4 + 1 + udh[5] > 6
      BY <3>1
    <3> QED
      BY <1>3, <3>1, <3>2
  <2>6. Body(g, 3) = <<>>
    <3>1. udh[4] \in Nat /\ (udh[4] \in 0..2 => g[3 + 2 + udh[4]] = <<>>)
      BY <1>4, <2>1
    <3>2. udh[4] \notin 0..2 => 3 + 1 + udh[4] > 6
      BY <3>1
    <3> QED
      BY <1>3, <1>4, <3>1, <3>2
  <2>7. g = [i \in 2..7 |-> Body(g, i)]
    <3>1. \A i \in 2..7 : Body(g, i) = IF i = 2 THEN concat ELSE <<>>
      <4>1. \A i \in 2..7 : i = 2 \/ i = 3 \/ i = 4 \/ i = 5 \/ i = 6 \/ i = 7
        OBVIOUS
      <4> HIDE DEF Body
      <4> QED
        BY <2>2, <2>3, <2>4, <2>5, <2>6, <4>1
    <3> HIDE DEF Body
    <3> QED
      BY <3>1 DEF g
  <2>8. 2..(Len(udh) + 1) = 2..7
    BY <1>3
  <2> QED
    BY <2>7, <2>8
<1>7. Rec(from)
  BY <1>6
<1> HIDE DEF from
<1>8. from[2] = Body(from, 2)
  <2>1. 2 \in 2..(Len(udh) + 1)
    BY <1>3
  <2> HIDE DEF Body
  <2> QED
    BY <1>7, <2>1
<1>9. Body(from, 2) = concat
  BY <1>3, <1>4
<1> QED
  BY <1>3, <1>4, <1>5, <1>8, <1>9 DEF udh

\* An octet is its bits.
BitValue(x, b) == IF Bit(x, b) = 1 THEN 2^b ELSE 0

LEMMA OctetBits ==
  ASSUME NEW x \in Octet
  PROVE  x = BitValue(x, 0) + BitValue(x, 1) + BitValue(x, 2) + BitValue(x, 3)
               + BitValue(x, 4) + BitValue(x, 5) + BitValue(x, 6) + BitValue(x, 7)
<1>1. /\ 2^0 = 1 /\ 2^1 = 2 /\ 2^2 = 4 /\ 2^3 = 8 /\ 2^4 = 16 /\ 2^5 = 32 /\ 2^6 = 64 /\ 2^7 = 128
  OBVIOUS
<1>2. x \in Int /\ 0 <= x /\ x < 256
  BY DEF Octet
<1>3. x = (IF (x \div 1) % 2 = 1 THEN 1 ELSE 0) + (IF (x \div 2) % 2 = 1 THEN 2 ELSE 0)
            + (IF (x \div 4) % 2 = 1 THEN 4 ELSE 0) + (IF (x \div 8) % 2 = 1 THEN 8 ELSE 0)
            + (IF (x \div 16) % 2 = 1 THEN 16 ELSE 0) + (IF (x \div 32) % 2 = 1 THEN 32 ELSE 0)
            + (IF (x \div 64) % 2 = 1 THEN 64 ELSE 0) + (IF (x \div 128) % 2 = 1 THEN 128 ELSE 0)
  BY ONLY <1>2
<1> QED
  BY <1>1, <1>3 DEF Bit, BitValue

\* Septets that begin after the octets of the buffer leave them as they were.
LEMMA PackedKeeps ==
  ASSUME NEW buf \in Seq(Octet), NEW septets \in Seq(Septet), NEW start_bit \in Nat,
         8 * Len(buf) <= start_bit, NEW k \in 1..Len(buf)
  PROVE  AppendPacked7bitAt(buf, septets, start_bit)[k] = buf[k]
<1> DEFINE old(p) == p < 8 * Len(buf) /\ Bit(buf[p \div 8 + 1], p % 8) = 1
           new(p) == /\ p \in start_bit..(start_bit + 7 * Len(septets) - 1)
                     /\ Bit(septets[(p - start_bit) \div 7 + 1], (p - start_bit) % 7) = 1
           value(i, b) == IF old(8 * i + b) \/ new(8 * i + b) THEN 2^b ELSE 0
           octet(i) == value(i, 0) + value(i, 1) + value(i, 2) + value(i, 3)
                         + value(i, 4) + value(i, 5) + value(i, 6) + value(i, 7)
           size == Ceil(start_bit + 7 * Len(septets), 8)
           n == IF size > Len(buf) THEN size ELSE Len(buf)
<1>1. AppendPacked7bitAt(buf, septets, start_bit) = [i \in 1..n |-> octet(i - 1)]
  BY DEF AppendPacked7bitAt
<1>2. k \in 1..n
  <2>1. Len(buf) \in Nat /\ Len(septets) \in Nat
    OBVIOUS
  <2>2. size \in Nat
    BY <2>1 DEF Ceil
  <2> HIDE DEF size
  <2> QED
    BY <2>1, <2>2
<1>3. ASSUME NEW b \in 0..7
      PROVE  /\ old(8 * (k - 1) + b) <=> Bit(buf[k], b) = 1
             /\ ~new(8 * (k - 1) + b)
  <2> DEFINE p == 8 * (k - 1) + b
  <2>1. p < 8 * Len(buf) /\ p \div 8 = k - 1 /\ p % 8 = b /\ k - 1 + 1 = k /\ p \in Nat
    <3>1. k \in Nat /\ 1 <= k /\ k <= Len(buf) /\ Len(buf) \in Nat
      OBVIOUS
    <3> QED
      BY ONLY <3>1
  <2>2. p \notin start_bit..(start_bit + 7 * Len(septets) - 1)
    BY <2>1
  <2> QED
    BY <2>1, <2>2
<1> HIDE DEF old, new, n
<1>4. \A b \in 0..7 : value(k - 1, b) = IF Bit(buf[k], b) = 1 THEN 2^b ELSE 0
  BY <1>3
<1>5. /\ 2^0 = 1 /\ 2^1 = 2 /\ 2^2 = 4 /\ 2^3 = 8 /\ 2^4 = 16 /\ 2^5 = 32 /\ 2^6 = 64 /\ 2^7 = 128
  OBVIOUS
<1> DEFINE x == buf[k]
<1>6. x \in Octet
  OBVIOUS
<1>7. octet(k - 1) = x
  <2> HIDE DEF value, x
  <2>1. \A b \in 0..7 : value(k - 1, b) = BitValue(x, b)
    BY <1>4 DEF x, BitValue
  <2>2. /\ value(k - 1, 0) = BitValue(x, 0) /\ value(k - 1, 1) = BitValue(x, 1)
        /\ value(k - 1, 2) = BitValue(x, 2) /\ value(k - 1, 3) = BitValue(x, 3)
        /\ value(k - 1, 4) = BitValue(x, 4) /\ value(k - 1, 5) = BitValue(x, 5)
        /\ value(k - 1, 6) = BitValue(x, 6) /\ value(k - 1, 7) = BitValue(x, 7)
    BY <2>1
  <2> QED
    BY <1>6, <2>2, OctetBits
<1> HIDE DEF octet
<1> QED
  BY <1>1, <1>2, <1>7 DEF x

\* User data as DecodeMessage reads it, with a header or without.
After(data) == SubSeq(data, 2, Len(data))
HeaderOctets(data, udhi) == IF udhi THEN After(data)[1] + 1 ELSE 0
TextOf(c, data, udhi) == UserText(c, After(data), data[1], HeaderOctets(data, udhi))
ConcatOf(data, udhi) ==
  IF udhi THEN ParseConcatFromUdh(Span(After(data), 1, HeaderOctets(data, udhi))) ELSE <<>>

\* It is read, and its header is found to be that of a part.
DataReads(c, data, concat) ==
  /\ HeaderFits(After(data), concat # <<>>)
  /\ TextOf(c, data, concat # <<>>).ec = "Ok" /\ ConcatOf(data, concat # <<>>) = concat

LEMMA AfterOctet ==
  ASSUME NEW x \in Octet, NEW body \in Seq(Octet), NEW data, data = <<x>> \o body
  PROVE  data \in Seq(Octet) /\ data[1] = x /\ After(data) = body
<1> DEFINE s == <<x>>
<1>1. s \in Seq(Octet) /\ Len(s) = 1 /\ s[1] = x
  OBVIOUS
<1> HIDE DEF s
<1>2. /\ s \o body \in Seq(Octet) /\ Len(s \o body) = Len(s) + Len(body)
      /\ (\A i \in 1..Len(s) : (s \o body)[i] = s[i])
      /\ SubSeq(s \o body, Len(s) + 1, Len(s) + Len(body)) = body
  <2>1. s \in Seq(Octet)
    BY <1>1
  <2> QED
    BY <2>1, JoinedAt
<1>3. data = s \o body
  BY DEF s
<1>4. 1 \in 1..Len(s) /\ Len(s) + 1 = 2
  BY <1>1
<1> QED
  BY <1>1, <1>2, <1>3, <1>4 DEF After

\* Octets after a header, or without one.
LEMMA OctetsRead ==
  ASSUME NEW c \in {"ucs2", "8bit"}, NEW udh \in Seq(Octet), NEW octets \in Seq(Octet),
         c = "ucs2" => DecodeUcs2(octets).ec = "Ok",
         NEW h, h = Len(udh), NEW x, x = h + Len(octets), NEW ud, ud = udh \o octets
  PROVE  UserText(c, ud, x, h).ec = "Ok"
<1>1. /\ udh \o octets \in Seq(Octet) /\ Len(udh \o octets) = Len(udh) + Len(octets)
      /\ SubSeq(udh \o octets, Len(udh) + 1, Len(udh) + Len(octets)) = octets
  BY JoinedAt
<1>2. Len(ud) = x /\ SubSeq(ud, h + 1, x) = octets /\ h \in Nat /\ Len(octets) \in Nat
  BY <1>1
<1>3. ~(x < h) /\ ~(Len(ud) < x)
  BY <1>2
<1>4. UserText(c, ud, x, h) = IF c = "ucs2" THEN DecodeUcs2(octets) ELSE Ok(octets)
  BY <1>2, <1>3 DEF UserText
<1> QED
  BY <1>4 DEF Ok

\* Septets after a header, or without one.
LEMMA SeptetsRead ==
  ASSUME NEW h \in Nat, NEW n \in Nat, NEW x, x = UdhSeptets(h) + n,
         NEW ud, Len(ud) = Ceil(7 * x, 8)
  PROVE  UserText("gsm7", ud, x, h).ec = "Ok"
<1>1. UdhSeptets(h) \in Nat
  BY DEF UdhSeptets, Ceil
<1>2. ~(UdhSeptets(h) > x)
  BY <1>1
<1>3. Ceil(7 * x, 8) \in Nat
  BY <1>1 DEF Ceil
<1>4. ~(Ceil(7 * x, 8) > Len(ud))
  BY <1>3
<1> QED
  BY <1>2, <1>4 DEF UserText, Gsm7ToUtf8, Ok

LEMMA SegmentReads ==
  ASSUME NEW c \in {"gsm7", "ucs2", "8bit"}, NEW units \in Seq(UnitsFor(c)),
         NEW concat, concat = <<>> \/ (concat \in Seq(Octet) /\ Len(concat) = 3),
         Len(units) <= IF concat = <<>> THEN Capacity(c, UserDataOctets) ELSE PartUnits(c),
         c = "ucs2" => WellPaired(units)
  PROVE  DataReads(c, SegmentData(c, units, concat), concat)
<1> DEFINE n == Len(units)
           udh == ConcatUdh(concat)
           h == IF concat = <<>> THEN 0 ELSE 6
           data == SegmentData(c, units, concat)
           x == data[1]
<1>1. n \in Nat
  OBVIOUS
<1>2. udh \in Seq(Octet) /\ Len(udh) = h
  BY UdhWritten
<1>3. (concat = <<>> => h = 0 /\ udh = <<>>)
      /\ (concat # <<>> => h = 6 /\ udh[1] = 5 /\ ParseConcatFromUdh(udh) = concat)
  BY ConcatParsed DEF ConcatUdh
<1>4. WellMeasured(c, data)
  BY DataWritten
<1>5. /\ data \in Seq(Octet) /\ data # <<>> /\ Len(data) = 1 + TextOctets(c, x) /\ x \in Octet
  <2>1. data \in Seq(Octet) /\ data # <<>> /\ Len(data) = 1 + TextOctets(c, x)
    BY <1>4 DEF WellMeasured
  <2> HIDE DEF data
  <2>2. 1 \in 1..Len(data)
    BY <2>1, EmptySeq
  <2> QED
    BY <2>1, <2>2
<1>6. PICK body \in Seq(Octet) :
        /\ data = <<x>> \o body /\ Len(body) = TextOctets(c, x)
        /\ UserText(c, body, x, h).ec = "Ok"
        /\ concat # <<>> => Len(body) >= 6 /\ SubSeq(body, 1, 6) = udh
  <2>1. CASE c = "gsm7" /\ concat = <<>>
    <3> DEFINE body == Encode7bit(units)
    <3>1. units \in Seq(Septet)
      BY <2>1 DEF UnitsFor
    <3>2. body \in Seq(Octet) /\ Len(body) = Ceil(7 * n, 8)
      BY <3>1, Encode7bitTyped
    <3>3. data = <<n>> \o body /\ x = n
      <4>1. data = <<n>> \o body
        BY <2>1 DEF SegmentData
      <4>2. data[1] = n
        <5>1. PICK s : s = <<n>>
          OBVIOUS
        <5>2. s \in Seq(Nat) /\ Len(s) = 1 /\ s[1] = n
          BY <1>1, <5>1
        <5>3. body \in Seq(Nat)
          BY <3>2, OctetsAreNumbers
        <5> HIDE DEF body, n
        <5>4. (s \o body)[1] = s[1]
          BY <5>2, <5>3, JoinedAt
        <5> QED
          BY <4>1, <5>1, <5>2, <5>4
      <4> QED
        BY <4>1, <4>2
    <3>4. UdhSeptets(0) = 0 /\ h = 0
      BY <2>1 DEF UdhSeptets, Ceil
    <3> HIDE DEF body, n, h, data
    <3>5. UserText("gsm7", body, n, 0).ec = "Ok"
      <4>1. n = UdhSeptets(0) + n
        BY <1>1, <3>4
      <4> QED
        BY <1>1, <3>2, <4>1, SeptetsRead
    <3>6. Len(body) = TextOctets(c, x)
      BY <2>1, <3>2, <3>3 DEF TextOctets
    <3> QED
      BY <2>1, <3>2, <3>3, <3>4, <3>5, <3>6
  <2>2. CASE c = "gsm7" /\ concat # <<>>
    <3>1. units \in Seq(Septet)
      BY <2>2 DEF UnitsFor
    <3>2. UdhSeptets(6) = 7 /\ h = 6
      BY <2>2 DEF UdhSeptets, Ceil
    <3> DEFINE body == AppendPacked7bitAt(udh, units, 49)
               y == 7 + n
    <3>3. data = <<y>> \o body
      BY <1>2, <2>2, <3>2 DEF SegmentData
    <3>4. body \in Seq(Octet) /\ Len(body) = Ceil(49 + 7 * n, 8)
      <4> DEFINE size == Ceil(49 + 7 * n, 8)
      <4>1. size \in Nat /\ size > 6
        BY <1>1 DEF Ceil
      <4>2. body \in Seq(Octet) /\ Len(body) = IF size > Len(udh) THEN size ELSE Len(udh)
        BY <1>2, <3>1, PackedTyped
      <4> HIDE DEF size, body
      <4> QED
        BY <1>2, <3>2, <4>1, <4>2 DEF size
    <3>5. \A k \in 1..6 : body[k] = udh[k]
      <4> SUFFICES ASSUME NEW k \in 1..6 PROVE body[k] = udh[k]
        OBVIOUS
      <4>1. udh \in Seq(Octet) /\ 8 * Len(udh) <= 49 /\ k \in 1..Len(udh) /\ 49 \in Nat
        BY <1>2, <3>2
      <4> HIDE DEF udh
      <4> QED
        BY <3>1, <4>1, PackedKeeps
    <3> HIDE DEF body
    <3>6. x = y /\ 49 + 7 * n = 7 * y /\ y \in Nat
      <4>1. y \in Nat /\ 49 + 7 * n = 7 * y
        BY <1>1
      <4>2. data[1] = y
        <5>1. PICK s : s = <<y>>
          OBVIOUS
        <5>2. s \in Seq(Nat) /\ Len(s) = 1 /\ s[1] = y
          BY <4>1, <5>1
        <5>3. body \in Seq(Nat)
          BY <3>4, OctetsAreNumbers
        <5> HIDE DEF y
        <5>4. (s \o body)[1] = s[1]
          BY <5>2, <5>3, JoinedAt
        <5> QED
          BY <3>3, <5>1, <5>2, <5>4
      <4> QED
        BY <4>1, <4>2
    <3>7. UserText("gsm7", body, x, 6).ec = "Ok"
      <4>1. x = UdhSeptets(6) + n /\ Len(body) = Ceil(7 * x, 8) /\ 6 \in Nat
        BY <1>1, <3>2, <3>4, <3>6
      <4> HIDE DEF n, data
      <4> QED
        BY <1>1, <4>1, SeptetsRead
    <3>8. Len(body) >= 6
      <4>1. Ceil(49 + 7 * n, 8) >= 6
        BY <1>1 DEF Ceil
      <4> QED
        BY <3>4, <4>1
    <3>9. SubSeq(body, 1, 6) = udh
      <4>1. 0 + 6 <= Len(body) /\ 6 = Len(udh) /\ \A k \in 1..6 : body[0 + k] = udh[k]
        BY <1>2, <3>2, <3>5, <3>8
      <4> HIDE DEF udh
      <4>2. SubSeq(body, 0 + 1, 0 + 6) = udh
        BY <1>2, <3>4, <4>1, PieceIs
      <4> QED
        BY <4>2
    <3>10. data = <<x>> \o body /\ Len(body) = TextOctets(c, x)
      BY <2>2, <3>3, <3>4, <3>6 DEF TextOctets
    <3> HIDE DEF data, h, udh
    <3> QED
      BY <2>2, <3>2, <3>4, <3>7, <3>8, <3>9, <3>10
  <2>3. CASE c # "gsm7"
    <3> DEFINE octets == IF c = "ucs2" THEN Octets(units) ELSE units
               body == udh \o octets
               y == Len(udh) + Len(octets)
    <3>1. octets \in Seq(Octet) /\ (c = "ucs2" => DecodeUcs2(octets).ec = "Ok")
      <4>1. CASE c = "ucs2"
        <5>1. units \in Seq(Unit) /\ WellPaired(units)
          BY <4>1 DEF UnitsFor
        <5> QED
          BY <4>1, <5>1, OctetsTyped, PairsRead
      <4>2. CASE c # "ucs2"
        BY <2>3, <4>2 DEF UnitsFor
      <4> QED
        BY <4>1, <4>2
    <3>2. data = <<y>> \o udh \o octets
      BY <2>3 DEF SegmentData
    <3> HIDE DEF octets, udh, data
    <3>3. body \in Seq(Octet) /\ Len(body) = y /\ y \in Nat /\ \A k \in 1..Len(udh) : body[k] = udh[k]
      <4>1. /\ udh \o octets \in Seq(Octet) /\ Len(udh \o octets) = Len(udh) + Len(octets)
            /\ \A k \in 1..Len(udh) : (udh \o octets)[k] = udh[k]
        BY <1>2, <3>1, JoinedAt
      <4>2. Len(udh) \in Nat /\ Len(octets) \in Nat
        BY <1>2, <3>1
      <4> QED
        BY <4>1, <4>2
    <3>4. data = <<y>> \o body
      BY <1>2, <3>1, <3>2, <3>3
    <3>5. x = y
      <4>1. PICK s : s = <<y>>
        OBVIOUS
      <4>2. s \in Seq(Nat) /\ Len(s) = 1 /\ s[1] = y
        BY <3>3, <4>1
      <4>3. body \in Seq(Nat)
        BY <3>3, OctetsAreNumbers
      <4> HIDE DEF y, body
      <4>4. (s \o body)[1] = s[1]
        BY <4>2, <4>3, JoinedAt
      <4> QED
        BY <3>4, <4>1, <4>2, <4>4
    <3>6. UserText(c, body, y, h).ec = "Ok"
      <4>1. c \in {"ucs2", "8bit"}
        BY <2>3
      <4>2. h = Len(udh) /\ y = h + Len(octets) /\ udh \in Seq(Octet) /\ octets \in Seq(Octet)
        BY <1>2, <3>1
      <4>3. c = "ucs2" => DecodeUcs2(octets).ec = "Ok"
        BY <3>1
      <4>4. body = udh \o octets
        OBVIOUS
      <4> HIDE DEF h, y, body
      <4> QED
        BY ONLY <4>1, <4>2, <4>3, <4>4, OctetsRead
    <3>7. Len(body) = TextOctets(c, x)
      BY <2>3, <3>3, <3>5 DEF TextOctets
    <3>8. concat # <<>> => Len(body) >= 6 /\ SubSeq(body, 1, 6) = udh
      <4> SUFFICES ASSUME concat # <<>>
                   PROVE  Len(body) >= 6 /\ SubSeq(body, 1, 6) = udh
        OBVIOUS
      <4>1. Len(udh) = 6
        BY <1>2
      <4>2. Len(octets) \in Nat
        BY <3>1
      <4>3. Len(body) >= 6
        BY <3>3, <4>1, <4>2
      <4> HIDE DEF body
      <4>4. 0 + 6 <= Len(body) /\ 6 = Len(udh) /\ \A k \in 1..6 : body[0 + k] = udh[k]
        <5>1. \A k \in 1..6 : 0 + k = k
          OBVIOUS
        <5> QED
          BY <3>3, <4>1, <4>3, <5>1
      <4>5. SubSeq(body, 0 + 1, 0 + 6) = udh
        BY <1>2, <3>3, <4>4, PieceIs
      <4> QED
        BY <4>3, <4>5
    <3> HIDE DEF body, y, h
    <3> QED
      BY <3>3, <3>4, <3>5, <3>6, <3>7, <3>8
  <2> QED
    BY <2>1, <2>2, <2>3
<1> HIDE DEF n, h, data, udh
<1>7. x \in Octet /\ After(data) = body
  BY <1>5, <1>6, AfterOctet
<1>8. CASE concat = <<>>
  <2>1. HeaderOctets(data, concat # <<>>) = h
    BY <1>3, <1>8 DEF HeaderOctets
  <2>2. HeaderFits(After(data), concat # <<>>) /\ ConcatOf(data, concat # <<>>) = concat
    BY <1>8 DEF HeaderFits, ConcatOf
  <2>3. TextOf(c, data, concat # <<>>).ec = "Ok"
    BY <1>6, <1>7, <2>1 DEF TextOf
  <2> QED
    BY <2>2, <2>3 DEF DataReads, data
<1>9. CASE concat # <<>>
  <2>1. body[1] = 5 /\ body # <<>> /\ Len(body) >= 6
    <3>1. \A i \in 1..6 : SubSeq(body, 1, 6)[i] = body[i]
      <4>1. Len(body) \in Nat /\ 6 <= Len(body)
        BY <1>6, <1>9
      <4> QED
        BY <4>1
    <3>2. body # <<>>
      BY <1>6, <1>9, EmptySeq
    <3> QED
      BY <1>3, <1>6, <1>9, <3>1, <3>2
  <2>2. HeaderOctets(data, concat # <<>>) = h /\ h = 6
    BY <1>3, <1>7, <1>9, <2>1 DEF HeaderOctets
  <2>3. HeaderFits(After(data), concat # <<>>)
    BY <1>7, <1>9, <2>1 DEF HeaderFits
  <2>4. ConcatOf(data, concat # <<>>) = concat
    <3>1. Span(body, 1, 6) = SubSeq(body, 1, 6)
      BY DEF Span
    <3>2. Span(body, 1, 6) = udh
      BY <1>6, <1>9, <3>1
    <3> QED
      BY <1>3, <1>7, <1>9, <2>2, <3>2 DEF ConcatOf
  <2>5. TextOf(c, data, concat # <<>>).ec = "Ok"
    BY <1>6, <1>7, <2>2 DEF TextOf
  <2> QED
    BY <2>3, <2>4, <2>5 DEF DataReads, data
<1> QED
  BY <1>8, <1>9

-----------------------------------------------------------------------------
(***************************************************************************)
(* What an encode call returns.                                            *)
(***************************************************************************)
\* The first octets of a PDU, as its first hex digits.
LEMMA HexCut ==
  ASSUME NEW bytes \in Seq(Octet), NEW k \in 0..Len(bytes)
  PROVE  /\ SubSeq(bytes, 1, k) \in Seq(Octet) /\ Len(SubSeq(bytes, 1, k)) = k
         /\ \A i \in 1..k : SubSeq(bytes, 1, k)[i] = bytes[i]
         /\ SubSeq(BytesToHex(bytes), 1, 2 * k) = BytesToHex(SubSeq(bytes, 1, k))
<1> DEFINE n == Len(bytes)
           hex == BytesToHex(bytes)
           cut == SubSeq(bytes, 1, k)
           start == BytesToHex(cut)
           part == SubSeq(hex, 1, 2 * k)
<1>1. n \in Nat /\ k \in Nat /\ k <= n /\ bytes \in Seq(Nat)
  <2>1. bytes \in Seq(Nat)
    BY OctetsAreNumbers
  <2> QED
    BY <2>1
<1>2. cut \in Seq(Octet) /\ Len(cut) = k /\ \A i \in 1..k : cut[i] = bytes[i]
  <2>1. \A i \in 1..k : bytes[i] \in Octet
    <3>1. \A i \in 1..k : i \in 1..Len(bytes)
      BY <1>1
    <3> QED
      BY <3>1
  <2>2. /\ cut \in Seq(Octet) /\ Len(cut) = IF 1 <= k THEN k - 1 + 1 ELSE 0
        /\ \A i \in 1..(k - 1 + 1) : cut[i] = bytes[1 + i - 1]
    BY <1>1, <2>1, SubSeqProperties
  <2> HIDE DEF cut
  <2>3. k - 1 + 1 = k /\ (~(1 <= k) => k = 0) /\ \A i \in 1..k : 1 + i - 1 = i
    BY <1>1
  <2> QED
    BY <2>2, <2>3
<1> HIDE DEF cut, n
<1>3. /\ hex \in Seq(Nat) /\ Len(hex) = 2 * n
      /\ \A i \in 1..n : hex[2 * i - 1] = bytes[i] \div 16 /\ hex[2 * i] = bytes[i] % 16
  BY <1>1, HexWritten DEF n
<1>4. cut \in Seq(Nat)
  BY <1>2, OctetsAreNumbers
<1>5. /\ start \in Seq(Nat) /\ Len(start) = 2 * k
      /\ \A i \in 1..k : start[2 * i - 1] = cut[i] \div 16 /\ start[2 * i] = cut[i] % 16
  BY <1>2, <1>4, HexWritten
<1> HIDE DEF hex, start
<1> DEFINE m == 2 * k
<1>6. m \in Nat /\ m <= 2 * n
  BY <1>1
<1>7. part \in Seq(Nat) /\ Len(part) = m /\ \A i \in 1..m : part[i] = hex[i]
  <2> HIDE DEF m
  <2>1. \A i \in 1..m : hex[i] \in Nat
    <3>1. \A i \in 1..m : i \in 1..Len(hex)
      BY <1>1, <1>3, <1>6
    <3> QED
      BY <1>3, <3>1
  <2> DEFINE p == SubSeq(hex, 1, m)
  <2>2. /\ p \in Seq(Nat) /\ Len(p) = IF 1 <= m THEN m - 1 + 1 ELSE 0
        /\ \A i \in 1..(m - 1 + 1) : p[i] = hex[1 + i - 1]
    BY <1>6, <2>1, SubSeqProperties
  <2> HIDE DEF p
  <2>3. m - 1 + 1 = m /\ (~(1 <= m) => m = 0) /\ \A i \in 1..m : 1 + i - 1 = i
    BY <1>6
  <2>4. p \in Seq(Nat) /\ Len(p) = m /\ \A i \in 1..m : p[i] = hex[i]
    BY <2>2, <2>3
  <2>5. part = p
    BY DEF p, m
  <2> HIDE DEF part
  <2> QED
    BY <2>4, <2>5
<1> HIDE DEF part
<1>8. ASSUME NEW i \in 1..m PROVE part[i] = start[i]
  <2>1. PICK j \in 1..k : i = 2 * j - 1 \/ i = 2 * j
    <3>1. Ceil(i, 2) \in 1..k /\ (i = 2 * Ceil(i, 2) - 1 \/ i = 2 * Ceil(i, 2))
      BY <1>1 DEF Ceil
    <3> QED
      BY <3>1
  <2>2. j \in 1..n /\ cut[j] = bytes[j]
    BY <1>1, <1>2
  <2>3. start[2 * j - 1] = bytes[j] \div 16 /\ start[2 * j] = bytes[j] % 16
    BY <1>5, <2>2
  <2>4. hex[2 * j - 1] = bytes[j] \div 16 /\ hex[2 * j] = bytes[j] % 16
    BY <1>3, <2>2
  <2>5. start[i] = hex[i]
    BY <2>1, <2>3, <2>4
  <2> QED
    BY <1>7, <2>5
<1>9. part = start
  <2> HIDE DEF m
  <2>1. Len(start) = m
    BY <1>5 DEF m
  <2> QED
    BY <1>5, <1>7, <1>8, <2>1, SeqEqual
<1> QED
  BY <1>2, <1>9 DEF part, start, cut, hex

\* A line of a call: the header of a message and user data.
Coded(a) == CodingOf(MapDcs(a.dcs))
LineOctets(a, udhi, data) ==
  SubmitHeader(MessageOf(a), NormalizeAddressDigits(a.destination), udhi) \o data
IsLine(a, hex) ==
  \E udhi \in BOOLEAN, data \in Seq(Octet) :
    WellMeasured(Coded(a), data) /\ hex = BytesToHex(LineOctets(a, udhi, data))

LEMMA MessageTyped ==
  ASSUME NEW a \in Requests, OptionsValid(a)
  PROVE  /\ MessageOf(a).service_center \in Seq(Nat) /\ MessageOf(a).validity \in -1..255
         /\ MessageOf(a).coding \in Octet /\ MessageOf(a).coding = MapDcs(a.dcs)
         /\ MessageOf(a).user_data \in Seq(Octet) /\ MessageOf(a).concat_ref = 0
         /\ MessageOf(a).peer_address = a.destination /\ a.destination \in Seq(Nat)
         /\ MessageOf(a).service_center = a.smsc /\ a.smsc \in Seq(Nat)
<1>1. a.smsc \in Seq(Nat) /\ a.destination \in Seq(Nat) /\ a.text \in Seq(Octet)
  BY RequestAssumption DEF Octet
<1>2. MapDcs(a.dcs) \in Octet
  BY DEF MapDcs, Ucs2, Octet
<1> QED
  BY <1>1, <1>2 DEF MessageOf, OptionsValid

LEMMA UnitsTyped ==
  ASSUME NEW m, m.user_data \in Seq(Octet)
  PROVE  Units(m) \in Results(UnitsFor(CodingOf(m.coding)), "EncodeFailure")
<1>1. CASE CodingOf(m.coding) = "gsm7"
  BY <1>1, Utf8ToGsm7Typed DEF Units, UnitsFor
<1>2. CASE CodingOf(m.coding) = "ucs2"
  BY <1>2, EncodeUcs2Typed DEF Units, UnitsFor
<1>3. CASE CodingOf(m.coding) \notin {"gsm7", "ucs2"}
  BY <1>3, ResultsMade DEF Units, UnitsFor
<1> QED
  BY <1>1, <1>2, <1>3

\* A segment of typed units that fit is a line.
LEMMA SegmentIsLine ==
  ASSUME NEW a \in Requests, OptionsValid(a),
         NEW units \in Seq(UnitsFor(Coded(a))),
         NEW concat, concat = <<>> \/ (concat \in Seq(Octet) /\ Len(concat) = 3),
         Len(units) <= IF concat = <<>> THEN Capacity(Coded(a), UserDataOctets) ELSE PartUnits(Coded(a))
  PROVE  IsLine(a, EncodeOneSegment(MessageOf(a), NormalizeAddressDigits(a.destination), units, concat))
<1> DEFINE m == MessageOf(a)
           data == SegmentData(Coded(a), units, concat)
           udhi == concat # <<>>
<1>1. Coded(a) \in {"gsm7", "ucs2", "8bit"} /\ Coded(a) = CodingOf(m.coding)
  BY MessageTyped DEF Coded, CodingOf
<1>2. WellMeasured(Coded(a), data)
  BY <1>1, DataWritten
<1>3. EncodeOneSegment(m, NormalizeAddressDigits(a.destination), units, concat)
        = BytesToHex(LineOctets(a, udhi, data))
  BY <1>1 DEF EncodeOneSegment, LineOctets, SegmentData
<1>4. udhi \in BOOLEAN /\ data \in Seq(Octet)
  BY <1>2 DEF WellMeasured
<1> HIDE DEF data, udhi
<1> QED
  BY <1>2, <1>3, <1>4 DEF IsLine

\* A line whose user data is read, as that of a part if concat has its numbers;
\* the lines of a message.
IsPart(a, hex, concat) ==
  \E data : /\ WellMeasured(Coded(a), data) /\ DataReads(Coded(a), data, concat)
            /\ hex = BytesToHex(LineOctets(a, concat # <<>>, data))

AreParts(a, out) ==
  \E ref : \A i \in 1..Len(out) :
    IsPart(a, out[i], IF Len(out) = 1 THEN <<>> ELSE <<ref, Len(out), i>>)

TextSound(a) == MapDcs(a.dcs) = 4 \/ IsUtf8(a.text)

LEMMA SegmentIsPart ==
  ASSUME NEW a \in Requests, OptionsValid(a),
         NEW units \in Seq(UnitsFor(Coded(a))),
         NEW concat, concat = <<>> \/ (concat \in Seq(Octet) /\ Len(concat) = 3),
         Len(units) <= IF concat = <<>> THEN Capacity(Coded(a), UserDataOctets) ELSE PartUnits(Coded(a)),
         Coded(a) = "ucs2" => WellPaired(units)
  PROVE  IsPart(a, EncodeOneSegment(MessageOf(a), NormalizeAddressDigits(a.destination), units, concat),
                concat)
<1> DEFINE m == MessageOf(a)
           data == SegmentData(Coded(a), units, concat)
<1>1. Coded(a) \in {"gsm7", "ucs2", "8bit"} /\ Coded(a) = CodingOf(m.coding)
  BY MessageTyped DEF Coded, CodingOf
<1>2. WellMeasured(Coded(a), data) /\ DataReads(Coded(a), data, concat)
  BY <1>1, DataWritten, SegmentReads
<1>3. EncodeOneSegment(m, NormalizeAddressDigits(a.destination), units, concat)
        = BytesToHex(LineOctets(a, concat # <<>>, data))
  BY <1>1 DEF EncodeOneSegment, LineOctets, SegmentData
<1> HIDE DEF data
<1> QED
  BY <1>2, <1>3 DEF IsPart

\* The units of a sound text end no pair in the middle.
LEMMA SoundUnits ==
  ASSUME NEW a \in Requests, OptionsValid(a), TextSound(a), Coded(a) = "ucs2"
  PROVE  WellPaired(Units(MessageOf(a)).out)
<1>1. a.text \in Seq(Octet) /\ MessageOf(a).user_data = a.text /\ MessageOf(a).coding = MapDcs(a.dcs)
  BY RequestAssumption DEF MessageOf, Octet
<1>2. IsUtf8(a.text)
  BY DEF TextSound, Coded, CodingOf, Gsm7Bit, Ucs2
<1>3. Units(MessageOf(a)) = EncodeUcs2(a.text)
  BY <1>1 DEF Units, Coded
<1> QED
  BY <1>1, <1>2, <1>3, EncodedPaired

\* What an encode call that succeeds has for out_hex, and how one fails.
AreLines(a, out) ==
  /\ out \in Seq(Seq(Nat)) /\ Len(out) <= 255
  /\ \A i \in 1..Len(out) : IsLine(a, out[i])
  /\ TextSound(a) => AreParts(a, out)

EncodeErrors == {"InvalidArgument", "EncodeFailure"}

LEMMA LineIsHex ==
  ASSUME NEW a \in Requests, OptionsValid(a), NEW hex, IsLine(a, hex)
  PROVE  hex \in Seq(Nat)
<1> DEFINE dest == NormalizeAddressDigits(a.destination)
<1>1. PICK udhi \in BOOLEAN, data \in Seq(Octet) : hex = BytesToHex(LineOctets(a, udhi, data))
  BY DEF IsLine
<1>2. SubmitHeader(MessageOf(a), dest, udhi) \in Seq(Octet)
  <2> DEFINE m == MessageOf(a)
  <2>1. /\ m.service_center \in Seq(Nat) /\ m.validity \in -1..255 /\ m.coding \in Octet
        /\ dest \in Seq(0..9)
    BY MessageTyped, DigitsOnly
  <2> HIDE DEF m, dest
  <2>2. HeaderAt(SubmitHeader(m, dest, udhi), m, dest, udhi,
                 Len(ServiceOctets(NormalizeAddressDigits(m.service_center))), Ceil(Len(dest), 2))
    BY <2>1, HeaderWritten
  <2> QED
    BY <2>2 DEF HeaderAt, m, dest
<1> DEFINE h == SubmitHeader(MessageOf(a), dest, udhi)
<1>3. LineOctets(a, udhi, data) = h \o data
  BY DEF LineOctets
<1> HIDE DEF h
<1>4. h \in Seq(Octet)
  BY <1>2 DEF h
<1>5. LineOctets(a, udhi, data) \in Seq(Octet)
  BY <1>3, <1>4, JoinedAt
<1> QED
  BY <1>1, <1>5, OctetsAreNumbers, HexWritten

LEMMA OneIsLine ==
  ASSUME NEW a \in Requests, OptionsValid(a), Units(MessageOf(a)).ec = "Ok", FitsOne(MessageOf(a)),
         NEW hex, hex = EncodeOneSegment(MessageOf(a), NormalizeAddressDigits(a.destination),
                                         Units(MessageOf(a)).out, <<>>)
  PROVE  AreLines(a, <<hex>>)
<1> DEFINE units == Units(MessageOf(a)).out
<1>1. Coded(a) = CodingOf(MessageOf(a).coding)
  BY MessageTyped DEF Coded
<1>2. units \in Seq(UnitsFor(Coded(a)))
  BY <1>1, MessageTyped, UnitsTyped DEF Results
<1>3. Len(units) <= Capacity(Coded(a), UserDataOctets)
  BY <1>1 DEF FitsOne
<1> HIDE DEF units
<1>4. IsLine(a, hex)
  BY <1>2, <1>3, SegmentIsLine DEF units
<1>5. hex \in Seq(Nat)
  BY <1>4, LineIsHex
<1>6. <<hex>> \in Seq(Seq(Nat)) /\ Len(<<hex>>) = 1 /\ \A i \in 1..1 : <<hex>>[i] = hex
  BY <1>5
<1>7. TextSound(a) => AreParts(a, <<hex>>)
  <2> SUFFICES ASSUME TextSound(a) PROVE AreParts(a, <<hex>>)
    OBVIOUS
  <2>1. Coded(a) = "ucs2" => WellPaired(units)
    BY SoundUnits DEF units
  <2>2. IsPart(a, EncodeOneSegment(MessageOf(a), NormalizeAddressDigits(a.destination), units, <<>>), <<>>)
    BY <1>2, <1>3, <2>1, SegmentIsPart
  <2>3. IsPart(a, hex, <<>>)
    BY <2>2 DEF units
  <2> QED
    BY <1>6, <2>3 DEF AreParts
<1> QED
  BY <1>4, <1>6, <1>7 DEF AreLines

LEMMA EncodedLine ==
  ASSUME NEW a \in Requests, OptionsValid(a), NEW pdu, pdu = Encode(MessageOf(a))
  PROVE  \/ pdu.ec \in EncodeErrors
         \/ pdu.ec = "Ok" /\ AreLines(a, <<pdu.out>>)
<1> DEFINE m == MessageOf(a)
           dest == NormalizeAddressDigits(a.destination)
<1>1. Units(m) \in Results(UnitsFor(CodingOf(m.coding)), "EncodeFailure") /\ m.peer_address = a.destination
  BY MessageTyped, UnitsTyped
<1>2. Units(m).ec \in {"Ok", "EncodeFailure"}
  BY <1>1 DEF Results
<1>3. CASE dest = <<>>
  BY <1>1, <1>3 DEF Encode, Fails, EncodeErrors
<1>4. CASE dest # <<>> /\ Units(m).ec # "Ok"
  BY <1>1, <1>2, <1>4 DEF Encode, EncodeErrors
<1>5. CASE dest # <<>> /\ Units(m).ec = "Ok" /\ FitsOne(m)
  <2> DEFINE hex == EncodeOneSegment(m, dest, Units(m).out, <<>>)
  <2>1. pdu = Ok(hex)
    BY <1>1, <1>5 DEF Encode
  <2>2. AreLines(a, <<hex>>)
    BY <1>5, OneIsLine
  <2> HIDE DEF hex
  <2> QED
    BY <2>1, <2>2 DEF Ok
<1>6. CASE dest # <<>> /\ Units(m).ec = "Ok" /\ ~FitsOne(m)
  BY <1>1, <1>6 DEF Encode, Fails, EncodeErrors
<1> QED
  BY <1>3, <1>4, <1>5, <1>6

LEMMA EncodedFields ==
  ASSUME NEW a \in Requests, OptionsValid(a)
  PROVE  \E ec, out : Encode(MessageOf(a)) = [ec |-> ec, out |-> out]
<1> DEFINE m == MessageOf(a)
           dest == NormalizeAddressDigits(a.destination)
<1>1. Units(m) \in Results(UnitsFor(CodingOf(m.coding)), "EncodeFailure") /\ m.peer_address = a.destination
  BY MessageTyped, UnitsTyped
<1>2. Units(m) = [ec |-> Units(m).ec, out |-> Units(m).out]
  BY <1>1 DEF Results
<1>3. CASE dest = <<>>
  BY <1>1, <1>3 DEF Encode, Fails
<1>4. CASE dest # <<>> /\ Units(m).ec # "Ok"
  <2>1. Encode(m) = Units(m)
    BY <1>1, <1>4 DEF Encode
  <2> QED
    BY <1>2, <2>1
<1>5. CASE dest # <<>> /\ Units(m).ec = "Ok" /\ FitsOne(m)
  BY <1>1, <1>5 DEF Encode, Ok
<1>6. CASE dest # <<>> /\ Units(m).ec = "Ok" /\ ~FitsOne(m)
  BY <1>1, <1>6 DEF Encode, Fails
<1> QED
  BY <1>3, <1>4, <1>5, <1>6

LEMMA EncodedLines ==
  ASSUME NEW a \in Requests, OptionsValid(a), NEW pdus, pdus = EncodeSegments(MessageOf(a))
  PROVE  \/ pdus.ec \in EncodeErrors
         \/ pdus.ec = "Ok" /\ AreLines(a, pdus.out)
<1> DEFINE m == MessageOf(a)
           dest == NormalizeAddressDigits(a.destination)
           c == CodingOf(m.coding)
           chunks == Concat!Chunks(c, Units(m).out)
           ref == Concat!ConcatRef([concat_ref |-> m.concat_ref, text |-> m.user_data])
           line(i) == EncodeOneSegment(m, dest, chunks[i], <<ref, Len(chunks), i>>)
           lines == [i \in 1..Len(chunks) |-> line(i)]
<1>1. /\ Units(m) \in Results(UnitsFor(c), "EncodeFailure") /\ m.peer_address = a.destination
      /\ c = Coded(a) /\ c \in {"gsm7", "ucs2", "8bit"}
  <2>1. Units(m) \in Results(UnitsFor(c), "EncodeFailure") /\ m.peer_address = a.destination
    BY MessageTyped, UnitsTyped
  <2>2. c = Coded(a) /\ c \in {"gsm7", "ucs2", "8bit"}
    BY MessageTyped DEF Coded, CodingOf
  <2> QED
    BY <2>1, <2>2
<1>2. Units(m).ec \in {"Ok", "EncodeFailure"} /\ Units(m).out \in Seq(UnitsFor(c))
  BY <1>1 DEF Results
<1>3. CASE dest = <<>>
  BY <1>1, <1>3 DEF EncodeSegments, Fails, EncodeErrors
<1>4. CASE dest # <<>> /\ Units(m).ec # "Ok"
  BY <1>1, <1>2, <1>4 DEF EncodeSegments, EncodeErrors
<1>5. CASE dest # <<>> /\ Units(m).ec = "Ok" /\ FitsOne(m)
  <2> DEFINE hex == EncodeOneSegment(m, dest, Units(m).out, <<>>)
  <2>1. pdus = Ok(<<hex>>)
    BY <1>1, <1>5 DEF EncodeSegments
  <2>2. AreLines(a, <<hex>>)
    BY <1>5, OneIsLine
  <2> HIDE DEF hex
  <2> QED
    BY <2>1, <2>2 DEF Ok
<1>6. CASE dest # <<>> /\ Units(m).ec = "Ok" /\ ~FitsOne(m) /\ Len(chunks) > Concat!MaxParts
  BY <1>1, <1>6 DEF EncodeSegments, Fails, EncodeErrors
<1>7. CASE dest # <<>> /\ Units(m).ec = "Ok" /\ ~FitsOne(m) /\ ~(Len(chunks) > Concat!MaxParts)
  <2> DEFINE units == Units(m).out
             G == PartsOf(c, UnitsFor(c), units)
             n == Len(chunks)
  <2>1. chunks \in Seq(G) /\ n >= 2
    <3>1. chunks \in Seq(G) /\ (PartUnits(c) < Len(units) => n >= 2)
      BY <1>1, <1>2, PartsTyped
    <3>2. PartUnits(c) < Len(units)
      <4>1. ~(Len(units) <= Capacity(c, UserDataOctets)) /\ Len(units) \in Nat
        BY <1>2, <1>7 DEF FitsOne
      <4> HIDE DEF units
      <4> QED
        BY <1>1, <4>1, PartsHaveRoom
    <3> QED
      BY <3>1, <3>2
  <2>a. TextSound(a) /\ c = "ucs2" => WellPaired(units)
    BY <1>1, SoundUnits
  <2> HIDE DEF units
  <2>2. ref \in Octet
    BY MessageTyped, ReferenceTyped
  <2>3. n \in Nat /\ n <= 255 /\ DOMAIN chunks = 1..n
    <3>1. n \in Nat /\ DOMAIN chunks = 1..n
      BY <2>1
    <3>2. Concat!MaxParts = 255
      BY DEF Concat!MaxParts
    <3> QED
      BY <1>7, <3>1, <3>2
  <2>4. pdus = Ok([i \in DOMAIN chunks |-> line(i)])
    BY <1>1, <1>7 DEF EncodeSegments
  <2>5. pdus = Ok(lines)
    BY <2>3, <2>4
  <2> HIDE DEF chunks, ref
  <2>6. ASSUME NEW i \in 1..n
        PROVE  /\ IsLine(a, line(i)) /\ line(i) \in Seq(Nat)
               /\ TextSound(a) => IsPart(a, line(i), <<ref, n, i>>)
    <3> DEFINE concat == <<ref, n, i>>
               part == chunks[i]
    <3>1. ref \in Octet /\ n \in Octet /\ i \in Octet
      <4> HIDE DEF n
      <4>1. n \in 0..255 /\ i \in 0..255
        BY <2>3
      <4> QED
        BY <2>2, <4>1 DEF Octet
    <3>2. concat \in Seq(Octet) /\ Len(concat) = 3 /\ concat # <<>>
      <4> HIDE DEF n
      <4> QED
        BY <3>1
    <3>3. /\ part \in Seq(UnitsFor(c)) /\ Len(part) <= PartUnits(c)
          /\ TextSound(a) /\ c = "ucs2" => WellPaired(part)
      <4>1. part \in G
        BY <2>1
      <4> QED
        BY <2>a, <4>1 DEF PartsOf
    <3>4. line(i) = EncodeOneSegment(m, dest, part, concat)
      OBVIOUS
    <3> HIDE DEF concat, part, line, n, c
    <3>5. IsLine(a, line(i))
      <4>1. concat = <<>> \/ (concat \in Seq(Octet) /\ Len(concat) = 3)
        BY <3>2
      <4>2. part \in Seq(UnitsFor(Coded(a)))
        BY <1>1, <3>3
      <4>3. Len(part) <= IF concat = <<>> THEN Capacity(Coded(a), UserDataOctets) ELSE PartUnits(Coded(a))
        BY <1>1, <3>2, <3>3
      <4> QED
        BY <3>4, <4>1, <4>2, <4>3, SegmentIsLine
    <3>6. ASSUME TextSound(a) PROVE IsPart(a, line(i), concat)
      <4>1. concat = <<>> \/ (concat \in Seq(Octet) /\ Len(concat) = 3)
        BY <3>2
      <4>2. part \in Seq(UnitsFor(Coded(a)))
        BY <1>1, <3>3
      <4>3. Len(part) <= IF concat = <<>> THEN Capacity(Coded(a), UserDataOctets) ELSE PartUnits(Coded(a))
        BY <1>1, <3>2, <3>3
      <4>4. Coded(a) = "ucs2" => WellPaired(part)
        BY <1>1, <3>3, <3>6
      <4> QED
        BY <3>4, <4>1, <4>2, <4>3, <4>4, SegmentIsPart
    <3> QED
      BY <3>5, <3>6, LineIsHex DEF concat
  <2> HIDE DEF line, n
  <2>7. lines \in Seq(Seq(Nat)) /\ Len(lines) = n /\ \A i \in 1..n : lines[i] = line(i)
    <3>1. lines = [i \in 1..n |-> line(i)]
      BY DEF n
    <3> HIDE DEF lines
    <3>2. lines \in [1..n -> Seq(Nat)]
      BY <2>6, <3>1
    <3> QED
      BY <2>3, <3>1, <3>2
  <2> HIDE DEF lines
  <2>8. TextSound(a) => AreParts(a, lines)
    <3>1. Len(lines) # 1 /\ \A i \in 1..n : lines[i] = line(i)
      BY <2>1, <2>3, <2>7
    <3> QED
      BY <2>6, <2>7, <3>1 DEF AreParts
  <2>9. AreLines(a, lines)
    BY <2>3, <2>6, <2>7, <2>8 DEF AreLines
  <2> QED
    BY <2>5, <2>9 DEF Ok
<1> QED
  BY <1>3, <1>4, <1>5, <1>6, <1>7

-----------------------------------------------------------------------------
(***************************************************************************)
(* The lines of the call.                                                  *)
(***************************************************************************)
\* A call that gave lines was one of the requests, with valid options.
CallInv ==
  \/ call.lines = <<>>
  \/ call.args \in Requests /\ OptionsValid(call.args) /\ AreLines(call.args, call.lines)

LEMMA CallMade ==
  ASSUME NEW a \in Requests, NEW encoded,
         OptionsValid(a) => \/ encoded.ec \in EncodeErrors
                            \/ encoded.ec = "Ok" /\ AreLines(a, encoded.out),
         EncodeInto(a, encoded)
  PROVE  CallInv'
<1> DEFINE status ==
             IF ~OptionsValid(a) THEN "CT_ERR_INVALID_ARGUMENT"
             ELSE IF encoded.ec = "Ok" /\ RoomFor(encoded.out) > a.cap THEN "CT_ERR_ENCODE"
             ELSE MapError(encoded.ec)
<1>1. call' = [args |-> a, status |-> status,
               lines |-> IF status = "CT_OK" THEN encoded.out ELSE <<>>]
  BY DEF EncodeInto
<1>2. CASE status = "CT_OK"
  <2>1. OptionsValid(a) /\ ~(encoded.ec = "Ok" /\ RoomFor(encoded.out) > a.cap)
    BY <1>2
  <2>2. encoded.ec \notin EncodeErrors
    <3>1. ASSUME encoded.ec \in EncodeErrors PROVE FALSE
      <4>1. MapError(encoded.ec) # "CT_OK"
        BY <3>1 DEF MapError, EncodeErrors
      <4>2. encoded.ec # "Ok"
        BY <3>1 DEF EncodeErrors
      <4> QED
        BY <1>2, <2>1, <4>1, <4>2
    <3> QED
      BY <3>1
  <2>3. AreLines(a, encoded.out)
    BY <2>1, <2>2
  <2>4. call'.args = a /\ call'.lines = encoded.out
    BY <1>1, <1>2
  <2> QED
    BY <2>1, <2>3, <2>4 DEF CallInv
<1>3. CASE status # "CT_OK"
  <2>1. call'.lines = <<>>
    BY <1>1, <1>3
  <2> QED
    BY <2>1 DEF CallInv
<1> QED
  BY <1>2, <1>3

\* Only the encode calls change it.
LEMMA CallInvHolds ==
  Spec => []CallInv
<1>1. Init => CallInv
  BY DEF Init, NoCall, CallInv
<1>2. CallInv /\ [Next]_vars => CallInv'
  <2> SUFFICES ASSUME CallInv, [Next]_vars
               PROVE  CallInv'
    OBVIOUS
  <2>1. CASE CtPduEncodeSubmitSegmentsEx
    <3>1. PICK a \in Requests : EncodeInto(a, EncodeSegments(MessageOf(a)))
      BY <2>1 DEF CtPduEncodeSubmitSegmentsEx
    <3>2. OptionsValid(a) => \/ EncodeSegments(MessageOf(a)).ec \in EncodeErrors
                             \/ /\ EncodeSegments(MessageOf(a)).ec = "Ok"
                                /\ AreLines(a, EncodeSegments(MessageOf(a)).out)
      BY EncodedLines
    <3> QED
      BY <3>1, <3>2, CallMade
  <2>2. CASE CtPduEncodeSubmitEx
    <3>1. PICK a \in Requests :
            EncodeInto(a, [Encode(MessageOf(a)) EXCEPT !.out = <<Encode(MessageOf(a)).out>>])
      BY <2>2 DEF CtPduEncodeSubmitEx
    <3> DEFINE pdu == Encode(MessageOf(a))
               encoded == [pdu EXCEPT !.out = <<pdu.out>>]
    <3>2. OptionsValid(a) => \/ pdu.ec \in EncodeErrors
                             \/ pdu.ec = "Ok" /\ AreLines(a, <<pdu.out>>)
      BY EncodedLine
    <3>3. OptionsValid(a) => encoded.ec = pdu.ec /\ encoded.out = <<pdu.out>>
      <4> SUFFICES ASSUME OptionsValid(a)
                   PROVE  encoded.ec = pdu.ec /\ encoded.out = <<pdu.out>>
        OBVIOUS
      <4>1. PICK ec, out : pdu = [ec |-> ec, out |-> out]
        BY EncodedFields
      <4> HIDE DEF pdu
      <4> QED
        BY <4>1
    <3> HIDE DEF pdu, encoded
    <3>4. OptionsValid(a) => \/ encoded.ec \in EncodeErrors
                             \/ encoded.ec = "Ok" /\ AreLines(a, encoded.out)
      BY <3>2, <3>3
    <3> QED
      BY <3>1, <3>4, CallMade DEF encoded, pdu
  <2>3. CASE UNCHANGED call
    BY <2>3 DEF CallInv
  <2>4. CASE Transfer \/ Deliver \/ Report \/ OtherPhone \/ Cut
    BY <2>3, <2>4 DEF Transfer, Deliver, Report, OtherPhone, Cut, Put
  <2>5. CASE CtPduDecode \/ CtPduDecodeStatusReport \/ CtModemList
    BY <2>3, <2>5 DEF CtPduDecode, CtPduDecodeStatusReport, CtModemList, Reads
  <2>6. CASE UNCHANGED vars
    BY <2>3, <2>6 DEF vars
  <2> QED
    BY <2>1, <2>2, <2>4, <2>5, <2>6 DEF Next
<1> QED
  BY <1>1, <1>2, PTL DEF Spec

\* The octets of a line: where its header's fields are, and its user data.
LineAt(b, a, udhi, data, s, d, v) ==
  /\ s \in Nat \ {0} /\ d \in Nat /\ b \in Seq(Octet) /\ Len(b) = s + d + 6 + v + Len(data)
  /\ b[1] = ServiceOctets(NormalizeAddressDigits(a.smsc))[1]
  /\ \A i \in 1..s : b[i] = ServiceOctets(NormalizeAddressDigits(a.smsc))[i]
  /\ b[s + 1] = SubmitFlags(MessageOf(a), udhi)
  /\ b[s + 3] = Len(NormalizeAddressDigits(a.destination)) % 256 /\ b[s + d + 6] = MapDcs(a.dcs)
  /\ \A i \in 1..d : b[s + 4 + i] = DigitOctets(NormalizeAddressDigits(a.destination))[i]
  /\ a.vp # -1 => b[s + d + 7] = a.vp
  /\ b[s + d + 6 + v + 1] = data[1]
  /\ SubSeq(b, s + d + 6 + v + 1, Len(b)) = data

LEMMA LineWritten ==
  ASSUME NEW a \in Requests, OptionsValid(a), NEW udhi, NEW data, WellMeasured(Coded(a), data),
         NEW b, b = LineOctets(a, udhi, data),
         NEW s, s = Len(ServiceOctets(NormalizeAddressDigits(a.smsc))),
         NEW d, d = Ceil(Len(NormalizeAddressDigits(a.destination)), 2),
         NEW v, v = IF a.vp # -1 THEN 1 ELSE 0
  PROVE  LineAt(b, a, udhi, data, s, d, v)
<1> DEFINE smsc == NormalizeAddressDigits(a.smsc)
           dest == NormalizeAddressDigits(a.destination)
           m == MessageOf(a)
           h == SubmitHeader(m, dest, udhi)
<1>1. dest \in Seq(0..9) /\ smsc \in Seq(0..9)
  BY MessageTyped, DigitsOnly
<1>a. s = Len(ServiceOctets(smsc)) /\ d = Ceil(Len(dest), 2)
  OBVIOUS
<1>b. h = SubmitHeader(m, dest, udhi) /\ smsc = NormalizeAddressDigits(a.smsc)
  OBVIOUS
<1> HIDE DEF smsc, dest
<1>2. s \in Nat /\ s # 0
  <2>1. Len(smsc) \in Nat
    BY <1>1
  <2>2. s = IF Len(smsc) = 0 THEN 1 ELSE 2 + Ceil(Len(smsc), 2)
    BY <1>1, <1>a, ServiceWritten
  <2> QED
    BY <2>1, <2>2 DEF Ceil
<1>3. m.validity # -1 <=> a.vp # -1
  BY DEF MessageOf
<1>4. /\ d \in Nat /\ h \in Seq(Octet) /\ Len(h) = s + d + 6 + v
      /\ \A i \in 1..s : h[i] = ServiceOctets(smsc)[i]
      /\ h[s + 1] = SubmitFlags(m, udhi) /\ h[s + 3] = Len(dest) % 256
      /\ (\A i \in 1..d : h[s + 4 + i] = DigitOctets(dest)[i])
      /\ h[s + d + 6] = MapDcs(a.dcs) /\ (a.vp # -1 => h[s + d + 7] = a.vp)
  <2>0. m.validity = a.vp
    BY DEF MessageOf
  <2>1. /\ m.service_center \in Seq(Nat) /\ m.validity \in -1..255 /\ m.coding \in Octet
        /\ m.coding = MapDcs(a.dcs) /\ m.service_center = a.smsc
    BY MessageTyped
  <2> HIDE DEF m
  <2>a. s = Len(ServiceOctets(NormalizeAddressDigits(m.service_center)))
    BY <1>a, <1>b, <2>1
  <2>b. /\ s \in Nat /\ d \in Nat /\ h \in Seq(Octet)
        /\ Len(h) = s + d + 6 + (IF m.validity # -1 THEN 1 ELSE 0)
        /\ \A i \in 1..s : h[i] = ServiceOctets(NormalizeAddressDigits(m.service_center))[i]
        /\ h[s + 1] = SubmitFlags(m, udhi) /\ h[s + 3] = Len(dest) % 256
        /\ (\A i \in 1..d : h[s + 4 + i] = DigitOctets(dest)[i])
        /\ h[s + d + 6] = m.coding /\ (m.validity # -1 => h[s + d + 7] = m.validity)
    <3> HIDE DEF h
    <3>1. h = SubmitHeader(m, dest, udhi)
      BY DEF h
    <3>2. m.service_center \in Seq(Nat)
      BY <2>1
    <3>3. m.validity \in -1..255
      BY <2>1
    <3>4. m.coding \in Octet
      BY <2>1
    <3>5. dest \in Seq(0..9)
      BY <1>1
    <3>6. d = Ceil(Len(dest), 2)
      BY <1>a
    <3> HIDE DEF m
    <3>7. HeaderAt(h, m, dest, udhi, s, d)
      BY <2>a, <3>1, <3>2, <3>3, <3>4, <3>5, <3>6, HeaderWritten
    <3> QED
      BY <3>7 DEF HeaderAt
  <2>2. /\ d \in Nat /\ h \in Seq(Octet)
        /\ Len(h) = s + d + 6 + (IF m.validity # -1 THEN 1 ELSE 0)
        /\ \A i \in 1..s : h[i] = ServiceOctets(smsc)[i]
        /\ h[s + 1] = SubmitFlags(m, udhi) /\ h[s + 3] = Len(dest) % 256
        /\ (\A i \in 1..d : h[s + 4 + i] = DigitOctets(dest)[i])
        /\ h[s + d + 6] = m.coding /\ (m.validity # -1 => h[s + d + 7] = m.validity)
    <3> HIDE DEF h
    <3> QED
      BY <1>b, <2>1, <2>b
  <2>3. v = IF m.validity # -1 THEN 1 ELSE 0
    BY <1>3
  <2> HIDE DEF h
  <2> QED
    BY <2>0, <2>1, <2>2, <2>3
<1>5. data \in Seq(Octet) /\ data # <<>>
  BY DEF WellMeasured
<1> DEFINE n == Len(h)
<1> HIDE DEF h
<1>6. b = h \o data
  BY DEF LineOctets, h, dest
<1>7. /\ b \in Seq(Octet) /\ Len(b) = Len(h) + Len(data)
      /\ (\A i \in 1..Len(h) : b[i] = h[i]) /\ (\A i \in 1..Len(data) : b[Len(h) + i] = data[i])
      /\ SubSeq(b, Len(h) + 1, Len(h) + Len(data)) = data
  <2>1. h \in Seq(Octet) /\ data \in Seq(Octet)
    BY <1>4, <1>5
  <2> QED
    BY <1>6, <2>1, JoinedAt
<1>8. v \in {0, 1} /\ Len(data) \in Nat /\ 1 \in 1..Len(data) /\ 1 \in 1..s
  <2>1. Len(data) \in Nat \ {0}
    BY <1>5, EmptySeq
  <2> QED
    BY <1>2, <2>1
<1>9. /\ 1 \in 1..(s + d + 6 + v) /\ s + 1 \in 1..(s + d + 6 + v)
      /\ s + 3 \in 1..(s + d + 6 + v) /\ s + d + 6 \in 1..(s + d + 6 + v)
  <2>1. s \in Nat /\ s # 0 /\ d \in Nat /\ v \in Nat
    BY <1>2, <1>4, <1>8
  <2> QED
    BY ONLY <2>1
<1>10. b[1] = h[1] /\ b[s + 1] = h[s + 1] /\ b[s + 3] = h[s + 3] /\ b[s + d + 6] = h[s + d + 6]
  BY <1>4, <1>7, <1>9
<1>11. h[1] = ServiceOctets(smsc)[1]
  BY <1>4, <1>8
<1>12. b[s + d + 6 + v + 1] = data[1] /\ SubSeq(b, s + d + 6 + v + 1, Len(b)) = data
  BY <1>4, <1>7, <1>8
<1>13. (\A i \in 1..s : b[i] = h[i]) /\ (\A i \in 1..d : b[s + 4 + i] = h[s + 4 + i])
       /\ (a.vp # -1 => b[s + d + 7] = h[s + d + 7])
  <2>1. s \in Nat /\ d \in Nat /\ v \in Nat /\ (a.vp # -1 => v = 1)
    BY <1>2, <1>4, <1>8
  <2>2. \A i \in 1..s : i \in 1..(s + d + 6 + v)
    BY ONLY <2>1
  <2>3. \A i \in 1..d : s + 4 + i \in 1..(s + d + 6 + v)
    BY ONLY <2>1
  <2>4. a.vp # -1 => s + d + 7 \in 1..(s + d + 6 + v)
    BY ONLY <2>1
  <2>5. \A i \in 1..(s + d + 6 + v) : b[i] = h[i]
    BY <1>4, <1>7
  <2> QED
    BY <2>2, <2>3, <2>4, <2>5
<1> QED
  BY <1>2, <1>4, <1>7, <1>10, <1>11, <1>12, <1>13 DEF LineAt, smsc, dest

\* The length announced for a line.
LEMMA LineAnnounced ==
  ASSUME NEW a \in Requests, OptionsValid(a), Len(a.smsc) < 256, NEW hex, IsLine(a, hex),
         NEW digits, digits = Len(NormalizeAddressDigits(a.smsc))
  PROVE  CmgsLength(hex) = Len(hex) \div 2 - (IF digits = 0 THEN 1 ELSE 2 + Ceil(digits, 2))
<1> DEFINE smsc == NormalizeAddressDigits(a.smsc)
           dest == NormalizeAddressDigits(a.destination)
<1>1. PICK udhi \in BOOLEAN, data \in Seq(Octet) :
        WellMeasured(Coded(a), data) /\ hex = BytesToHex(LineOctets(a, udhi, data))
  BY DEF IsLine
<1> DEFINE b == LineOctets(a, udhi, data)
           s == Len(ServiceOctets(smsc))
           d == Ceil(Len(dest), 2)
           v == IF a.vp # -1 THEN 1 ELSE 0
<1>2. smsc \in Seq(0..9) /\ Len(smsc) \in 0..255
  <2>1. smsc \in Seq(0..9) /\ Len(smsc) <= Len(a.smsc) /\ Len(a.smsc) \in Nat
    BY MessageTyped, DigitsOnly
  <2> HIDE DEF smsc
  <2>2. Len(smsc) \in Nat
    BY <2>1
  <2>3. \A x, y \in Nat : x <= y /\ y < 256 => x \in 0..255
    OBVIOUS
  <2>4. Len(smsc) \in 0..255
    BY <2>1, <2>2, <2>3
  <2> QED
    BY <2>1, <2>4
<1>3. /\ s \in Nat \ {0} /\ d \in Nat /\ b \in Seq(Octet) /\ Len(b) = s + d + 6 + v + Len(data)
      /\ b[1] = ServiceOctets(smsc)[1]
  <2>1. LineAt(b, a, udhi, data, s, d, v)
    BY <1>1, LineWritten
  <2> HIDE DEF b, s, d, v
  <2> QED
    BY <2>1 DEF LineAt
<1>4. ServiceOctets(smsc)[1] = IF digits = 0 THEN 0 ELSE Ceil(digits, 2) + 1
  <2>1. ServiceOctets(smsc)[1] = IF digits = 0 THEN 0 ELSE (Ceil(digits, 2) + 1) % 256
    BY <1>2, ServiceWritten
  <2>2. Ceil(digits, 2) \in 0..128
    <3>1. digits \in 0..255
      BY <1>2
    <3> QED
      BY ONLY <3>1 DEF Ceil
  <2>3. \A x \in 0..128 : (x + 1) % 256 = x + 1
    OBVIOUS
  <2> QED
    BY <2>1, <2>2, <2>3
<1>5. 1 \in 0..Len(b) /\ 1 \in 1..1
  <2>1. Len(data) \in Nat /\ v \in Nat /\ Len(b) \in Nat
    BY <1>1, <1>3
  <2> HIDE DEF b, s, d, v
  <2> QED
    BY <1>3, <2>1
<1> HIDE DEF b, s, d, v
<1> DEFINE f == SubSeq(b, 1, 1)
<1>6. f \in Seq(Octet) /\ f[1] = b[1] /\ SubSeq(hex, 1, 2 * 1) = BytesToHex(f)
  BY <1>1, <1>3, <1>5, HexCut DEF b
<1>7. HexToBytes(SubSeq(hex, 1, 2)).out[1] = b[1]
  <2>1. SubSeq(hex, 1, 2) = BytesToHex(f)
    BY <1>6
  <2> HIDE DEF f
  <2>2. HexToBytes(BytesToHex(f)) = Ok(f)
    BY <1>6, OctetsReadBack
  <2>3. HexToBytes(BytesToHex(f)).out = f
    BY <2>2 DEF Ok
  <2> QED
    BY <1>6, <2>1, <2>3
<1>8. CmgsLength(hex) = Len(hex) \div 2 - ((b[1] + 1) % 256)
  BY <1>7 DEF CmgsLength
<1>9. (b[1] + 1) % 256 = IF digits = 0 THEN 1 ELSE 2 + Ceil(digits, 2)
  <2>1. b[1] = IF digits = 0 THEN 0 ELSE Ceil(digits, 2) + 1
    BY <1>3, <1>4
  <2>2. Ceil(digits, 2) \in 0..128
    <3>1. digits \in 0..255
      BY <1>2
    <3> QED
      BY ONLY <3>1 DEF Ceil
  <2>3. (\A x \in 0..128 : (x + 1 + 1) % 256 = 2 + x) /\ (0 + 1) % 256 = 1
    OBVIOUS
  <2> QED
    BY <2>1, <2>2, <2>3
<1> QED
  BY <1>8, <1>9

\* The length AT+CMGS announces for a line of an encode call is that of the TPDU,
\* whatever the request, if its service centre has less than 256 digits
\* (GsmModem::send_encoded_pdu).
THEOREM TpduAnnounced ==
  Spec => []LengthAnnounced
<1>1. CallInv => LengthAnnounced
  <2> SUFFICES ASSUME CallInv, NEW i \in DOMAIN call.lines, Len(call.args.smsc) < 256
               PROVE  LET digits == Len(NormalizeAddressDigits(call.args.smsc))
                      IN CmgsLength(call.lines[i]) = Len(call.lines[i]) \div 2
                                                       - (IF digits = 0 THEN 1 ELSE 2 + Ceil(digits, 2))
    BY DEF LengthAnnounced
  <2>1. call.lines # <<>>
    BY EmptySeq
  <2>2. call.args \in Requests /\ OptionsValid(call.args) /\ AreLines(call.args, call.lines)
    BY <2>1 DEF CallInv
  <2>3. IsLine(call.args, call.lines[i])
    <3>1. DOMAIN call.lines = 1..Len(call.lines)
      BY <2>2 DEF AreLines
    <3> QED
      BY <2>2, <3>1 DEF AreLines
  <2> QED
    BY <2>2, <2>3, LineAnnounced
<1> QED
  BY <1>1, CallInvHolds, PTL

-----------------------------------------------------------------------------
(***************************************************************************)
(* What decodes, and what does not.                                        *)
(***************************************************************************)
\* The places DecodeMessage reads, of the TPDU at i, and what it checks.
IsSubmit(b, i) == b[i] % 4 = 1
HasHeader(b, i) == Bit(b[i], 6) = 1
AddrAt(b, i) == IF IsSubmit(b, i) THEN i + 2 ELSE i + 1
PidAt(b, i) == AddressEnd(b, AddrAt(b, i))
SkippedAt(b, i) ==
  LET vpf == (b[i] \div 8) % 4
  IN IF IsSubmit(b, i) /\ vpf = 0 THEN 0 ELSE IF IsSubmit(b, i) /\ vpf = 2 THEN 1 ELSE 7
UdlAt(b, i) == PidAt(b, i) + 2 + SkippedAt(b, i)
DataAt(b, i) == SubSeq(b, UdlAt(b, i) + 1, Len(b))
HeaderAtData(b, i) == IF HasHeader(b, i) THEN DataAt(b, i)[1] + 1 ELSE 0
IsComplete(b, i) ==
  /\ HasAddress(b, AddrAt(b, i)) /\ UdlAt(b, i) <= Len(b)
  /\ HeaderFits(DataAt(b, i), HasHeader(b, i))
TextAt(b, i) == UserText(CodingOf(b[PidAt(b, i) + 1]), DataAt(b, i), b[UdlAt(b, i)], HeaderAtData(b, i))

LEMMA MessageRead ==
  ASSUME NEW b, NEW i
  PROVE  /\ ~DecodeMessage(b, i).is_status_report
         /\ DecodeMessage(b, i).ec = IF IsComplete(b, i) THEN TextAt(b, i).ec ELSE "DecodeFailure"
<1> DEFINE m == DecodeMessage(b, i)
           bad == DecodeError("DecodeFailure")
           unread == DecodeError(TextAt(b, i).ec)
           sc == ServiceCenter(b)
           addr == Address(b, AddrAt(b, i))
           coding == b[PidAt(b, i) + 1]
           srr == RequestsReport(b[i])
           vp == IF IsSubmit(b, i) /\ (b[i] \div 8) % 4 = 2 THEN b[PidAt(b, i) + 2] ELSE -1
           time == IF IsSubmit(b, i) THEN <<>> ELSE OctetDigits(Span(b, PidAt(b, i) + 2, 7))
           concat == IF HasHeader(b, i)
                       THEN ParseConcatFromUdh(Span(DataAt(b, i), 1, HeaderAtData(b, i))) ELSE <<>>
           ref == IF concat = <<>> THEN 0 ELSE concat[1]
           total == IF concat = <<>> THEN 0 ELSE concat[2]
           seq == IF concat = <<>> THEN 0 ELSE concat[3]
           good == [NoMessage EXCEPT
                      !.service_center = sc, !.peer_address = addr, !.coding = coding,
                      !.request_status_report = srr, !.validity = vp, !.service_timestamp = time,
                      !.has_udh = HasHeader(b, i), !.is_concatenated = concat # <<>>,
                      !.concat_ref = ref, !.concat_total = total, !.concat_seq = seq,
                      !.user_data = TextAt(b, i).out]
<1>1. m = IF ~IsComplete(b, i) THEN bad ELSE IF TextAt(b, i).ec # "Ok" THEN unread ELSE good
  BY DEF DecodeMessage, IsSubmit, HasHeader, AddrAt, PidAt, SkippedAt, UdlAt, DataAt, HeaderAtData,
         IsComplete, TextAt
<1> HIDE DEF m, sc, addr, coding, srr, vp, time, concat, ref, total, seq
<1>2. good.ec = "Ok" /\ good.is_status_report = FALSE
  BY DEF NoMessage
<1>3. bad.ec = "DecodeFailure" /\ bad.is_status_report = FALSE
  BY DEF DecodeError, NoMessage
<1>4. unread.ec = TextAt(b, i).ec /\ unread.is_status_report = FALSE
  BY DEF DecodeError, NoMessage
<1> HIDE DEF good, bad, unread
<1> QED
  BY <1>1, <1>2, <1>3, <1>4 DEF m

\* What is read of a PDU that is complete.
LEMMA PlacesTyped ==
  ASSUME NEW b \in Seq(Nat), NEW i \in Nat \ {0}, i <= Len(b), IsComplete(b, i)
  PROVE  /\ AddrAt(b, i) \in 1..Len(b) /\ PidAt(b, i) + 1 \in 1..Len(b)
         /\ UdlAt(b, i) \in 1..Len(b) /\ DataAt(b, i) \in Seq(Nat)
         /\ Len(DataAt(b, i)) = Len(b) - UdlAt(b, i) /\ HeaderAtData(b, i) \in Nat
<1> DEFINE a == AddrAt(b, i)
           p == PidAt(b, i)
           u == UdlAt(b, i)
           v == SkippedAt(b, i)
           n == Len(b)
<1>1. n \in Nat /\ a \in Nat \ {0} /\ v \in Nat
  BY DEF AddrAt, SkippedAt
<1>2. a \in 1..n
  BY <1>1 DEF IsComplete, HasAddress
<1>3. p \in Nat /\ p >= a + 2
  <2>1. b[a] \in Nat
    BY <1>2
  <2>2. Ceil(b[a], 2) \in Nat
    BY <2>1 DEF Ceil
  <2>3. p = a + 2 + Ceil(b[a], 2)
    BY DEF PidAt, AddressEnd
  <2> HIDE DEF a, p
  <2> QED
    BY <1>2, <2>2, <2>3
<1>4. u = p + 2 + v /\ u <= n
  BY DEF UdlAt, IsComplete
<1> HIDE DEF a, p, u, v, n
<1>5. p + 1 \in 1..n /\ u \in 1..n
  BY <1>1, <1>2, <1>3, <1>4
<1>6. DataAt(b, i) \in Seq(Nat) /\ Len(DataAt(b, i)) = n - u
  <2> DEFINE t == SubSeq(b, u + 1, n)
  <2>1. \A j \in (u + 1)..n : b[j] \in Nat
    <3>1. \A j \in (u + 1)..n : j \in 1..Len(b)
      BY <1>1, <1>5 DEF n
    <3> QED
      BY <3>1
  <2>2. t \in Seq(Nat) /\ Len(t) = IF u + 1 <= n THEN n - (u + 1) + 1 ELSE 0
    <3>1. u + 1 \in Nat \ {0} /\ n \in Nat
      BY <1>1, <1>5
    <3>2. u + 1 \in 1..(n + 1) /\ n \in u..n
      BY <1>1, <1>5
    <3> QED
      BY <2>1, <3>1, <3>2, SubSeqProperties DEF n
  <2>3. t = DataAt(b, i)
    BY DEF DataAt, u, n
  <2>4. (IF u + 1 <= n THEN n - (u + 1) + 1 ELSE 0) = n - u
    BY <1>1, <1>5
  <2> HIDE DEF t
  <2> QED
    BY <2>2, <2>3, <2>4
<1>7. HeaderAtData(b, i) \in Nat
  <2>1. CASE ~HasHeader(b, i)
    BY <2>1 DEF HeaderAtData
  <2>2. CASE HasHeader(b, i)
    <3> DEFINE d == DataAt(b, i)
    <3>1. d # <<>> /\ d \in Seq(Nat)
      BY <1>6, <2>2 DEF IsComplete, HeaderFits
    <3>2. HeaderAtData(b, i) = d[1] + 1
      BY <2>2 DEF HeaderAtData
    <3> HIDE DEF d
    <3>3. d[1] \in Nat
      BY <3>1, EmptySeq
    <3> QED
      BY <3>2, <3>3
  <2> QED
    BY <2>1, <2>2
<1> QED
  BY <1>2, <1>5, <1>6, <1>7 DEF a, p, u, n

\* A message is read, or refused with DecodeFailure; it is refused when its user
\* data has fewer octets than its length says.
LEMMA MessageOutcome ==
  ASSUME NEW b \in Seq(Nat), NEW i \in Nat \ {0}, i <= Len(b)
  PROVE  /\ DecodeMessage(b, i).ec \in DecodeOutcomes
         /\ DecodeMessage(b, i).ec = "Ok" =>
              /\ IsComplete(b, i)
              /\ ~(TextOctets(CodingOf(b[PidAt(b, i) + 1]), b[UdlAt(b, i)]) > Len(b) - UdlAt(b, i))
<1>1. CASE ~IsComplete(b, i)
  BY <1>1, MessageRead DEF DecodeOutcomes
<1>2. CASE IsComplete(b, i)
  <2>1. /\ UdlAt(b, i) \in 1..Len(b) /\ DataAt(b, i) \in Seq(Nat)
        /\ Len(DataAt(b, i)) = Len(b) - UdlAt(b, i) /\ HeaderAtData(b, i) \in Nat
    BY <1>2, PlacesTyped
  <2>2. b[UdlAt(b, i)] \in Nat
    BY <2>1
  <2>3. /\ TextAt(b, i).ec \in DecodeOutcomes
        /\ TextOctets(CodingOf(b[PidAt(b, i) + 1]), b[UdlAt(b, i)]) > Len(DataAt(b, i))
             => TextAt(b, i).ec # "Ok"
    <3> DEFINE d == DataAt(b, i)
               h == HeaderAtData(b, i)
               x == b[UdlAt(b, i)]
               c == CodingOf(b[PidAt(b, i) + 1])
    <3>1. TextAt(b, i) = UserText(c, d, x, h)
      BY DEF TextAt
    <3>2. d \in Seq(Nat) /\ h \in Nat /\ x \in Nat
      BY <2>1, <2>2
    <3> HIDE DEF d, h, x, c
    <3>3. UserText(c, d, x, h).ec \in DecodeOutcomes /\ (TextOctets(c, x) > Len(d) => UserText(c, d, x, h).ec # "Ok")
      BY <3>2, UserTextOutcome
    <3> QED
      BY <3>1, <3>3 DEF d, x, c
  <2>4. DecodeMessage(b, i).ec = TextAt(b, i).ec
    BY <1>2, MessageRead
  <2> QED
    BY <1>2, <2>1, <2>3, <2>4
<1> QED
  BY <1>1, <1>2

\* A PDU, not of a status report, with no more user data than its length says.
Sized(b) ==
  /\ b \in Seq(Octet) /\ b # <<>>
  /\ b[b[1] + 2] % 4 # 2
  /\ Len(b) - UdlAt(b, b[1] + 2)
       <= TextOctets(CodingOf(b[PidAt(b, b[1] + 2) + 1]), b[UdlAt(b, b[1] + 2)])

LEMMA DecodeOctets ==
  ASSUME NEW b \in Seq(Octet)
  PROVE  Decode(BytesToHex(b)) =
           IF b = <<>> \/ b[1] + 2 > Len(b) THEN DecodeError("DecodeFailure")
           ELSE IF b[b[1] + 2] % 4 = 2 THEN DecodeStatusReport(b, b[1] + 2)
           ELSE DecodeMessage(b, b[1] + 2)
<1>1. HexToBytes(BytesToHex(b)) = Ok(b)
  BY OctetsReadBack
<1>2. HexToBytes(BytesToHex(b)).ec = "Ok" /\ HexToBytes(BytesToHex(b)).out = b
  BY <1>1 DEF Ok
<1> QED
  BY <1>2 DEF Decode

LEMMA NotDecoded ==
  ASSUME NEW code
  PROVE  DecodeError(code).ec = code /\ ~DecodeError(code).is_status_report
BY DEF DecodeError, NoMessage

LEMMA DecodeWhole ==
  ASSUME NEW b, Sized(b)
  PROVE  /\ Decode(BytesToHex(b)).ec \in DecodeOutcomes
         /\ ~Decode(BytesToHex(b)).is_status_report
<1> DEFINE i == b[1] + 2
<1>1. b \in Seq(Octet) /\ b # <<>> /\ b[i] % 4 # 2 /\ b \in Seq(Nat)
  BY OctetsAreNumbers DEF Sized
<1>2. CASE i > Len(b)
  BY <1>1, <1>2, DecodeOctets, NotDecoded DEF DecodeOutcomes
<1>3. CASE ~(i > Len(b))
  <2>1. Decode(BytesToHex(b)) = DecodeMessage(b, i)
    BY <1>1, <1>3, DecodeOctets
  <2>2. i \in Nat \ {0} /\ i <= Len(b)
    <3>1. b[1] \in Nat /\ Len(b) \in Nat
      BY <1>1, EmptySeq
    <3> QED
      BY <1>3, <3>1
  <2> HIDE DEF i
  <2> QED
    BY <1>1, <2>1, <2>2, MessageOutcome, MessageRead
<1> QED
  BY <1>2, <1>3

\* What lost its end and is decoded all the same lost whole octets, and not all.
LEMMA CutToOctets ==
  ASSUME NEW b \in Seq(Octet), NEW n \in 0..(2 * Len(b) - 1),
         NEW hex, hex = SubSeq(BytesToHex(b), 1, n), Decode(hex).ec = "Ok"
  PROVE  \E k \in 1..(Len(b) - 1) : hex = BytesToHex(SubSeq(b, 1, k))
<1> DEFINE whole == BytesToHex(b)
           k == n \div 2
<1>1. Len(b) \in Nat /\ n \in Nat /\ n <= 2 * Len(b) - 1
  BY OctetsAreNumbers
<1>2. whole \in Seq(Nat) /\ Len(whole) = 2 * Len(b)
  BY OctetsAreNumbers, HexWritten
<1>3. Len(hex) = n
  <2>1. \A j \in 1..n : whole[j] \in Nat
    BY <1>1, <1>2
  <2> HIDE DEF whole
  <2> DEFINE p == SubSeq(whole, 1, n)
  <2>2. Len(p) = IF 1 <= n THEN n - 1 + 1 ELSE 0
    BY <1>1, <2>1, SubSeqProperties
  <2>3. hex = p
    BY DEF whole
  <2> HIDE DEF p
  <2> QED
    BY <1>1, <2>2, <2>3
<1>4. n % 2 = 0
  <2>1. ASSUME n % 2 # 0 PROVE FALSE
    <3>1. HexToBytes(hex) = Fails("InvalidArgument")
      BY <1>3, <2>1 DEF HexToBytes
    <3>2. HexToBytes(hex).ec = "InvalidArgument"
      BY <3>1 DEF Fails
    <3>3. Decode(hex) = DecodeError("InvalidArgument")
      BY <3>2 DEF Decode
    <3> QED
      BY <3>3, NotDecoded
  <2> QED
    BY <2>1
<1>5. k \in 0..Len(b) /\ k <= Len(b) - 1 /\ n = 2 * k
  BY <1>1, <1>4
<1> DEFINE c == SubSeq(b, 1, k)
<1>6. c \in Seq(Octet) /\ Len(c) = k /\ hex = BytesToHex(c)
  <2> HIDE DEF k
  <2>1. c \in Seq(Octet) /\ Len(c) = k /\ SubSeq(BytesToHex(b), 1, 2 * k) = BytesToHex(c)
    BY <1>5, HexCut
  <2> QED
    BY <1>5, <2>1
<1>7. k # 0
  <2>1. ASSUME k = 0 PROVE FALSE
    <3> HIDE DEF c, k
    <3>1. c = <<>>
      BY <1>6, <2>1, EmptySeq
    <3>2. Decode(hex) = DecodeError("DecodeFailure")
      BY <1>6, <3>1, DecodeOctets
    <3> QED
      BY <3>2, NotDecoded
  <2> QED
    BY <2>1
<1>8. k \in 1..(Len(b) - 1)
  <2> HIDE DEF k
  <2> QED
    BY <1>1, <1>5, <1>7
<1> HIDE DEF k
<1> QED
  BY <1>6, <1>8

LEMMA DecodeCut ==
  ASSUME NEW b, Sized(b), NEW n \in 0..(2 * Len(b) - 1)
  PROVE  Decode(SubSeq(BytesToHex(b), 1, n)).ec # "Ok"
<1> DEFINE hex == SubSeq(BytesToHex(b), 1, n)
           i == b[1] + 2
<1>1. b \in Seq(Octet) /\ b # <<>> /\ b \in Seq(Nat) /\ Len(b) \in Nat
  BY OctetsAreNumbers DEF Sized
<1> SUFFICES ASSUME Decode(hex).ec = "Ok"
             PROVE  FALSE
  OBVIOUS
<1>2. PICK k \in 1..(Len(b) - 1) : hex = BytesToHex(SubSeq(b, 1, k))
  <2> HIDE DEF hex
  <2>1. hex = SubSeq(BytesToHex(b), 1, n)
    BY DEF hex
  <2> QED
    BY <1>1, <2>1, CutToOctets
<1> DEFINE c == SubSeq(b, 1, k)
<1>3. c \in Seq(Octet) /\ Len(c) = k /\ (\A j \in 1..k : c[j] = b[j]) /\ c \in Seq(Nat)
  <2>1. k \in 0..Len(b)
    BY <1>1
  <2>2. c \in Seq(Octet) /\ Len(c) = k /\ \A j \in 1..k : c[j] = b[j]
    BY <1>1, <2>1, HexCut
  <2> HIDE DEF c
  <2> QED
    BY <2>2, OctetsAreNumbers
<1>4. k \in Nat /\ 1 <= k /\ k < Len(b)
  BY <1>1
<1>5. Decode(BytesToHex(c)).ec = "Ok"
  BY <1>2
<1> HIDE DEF c, hex
<1>6. c[1] = b[1] /\ b[1] \in Nat
  <2>1. 1 \in 1..k /\ 1 \in 1..Len(b)
    BY <1>1, <1>4
  <2> QED
    BY <1>1, <1>3, <2>1
<1>7. i \in Nat \ {0} /\ i <= k
  <2>1. c[1] + 2 <= Len(c)
    <3>1. ASSUME c[1] + 2 > Len(c) PROVE FALSE
      BY <1>3, <1>5, <3>1, DecodeOctets, NotDecoded
    <3> QED
      BY <1>3, <1>4, <1>6, <3>1
  <2> QED
    BY <1>3, <1>6, <2>1
<1>8. c[i] = b[i] /\ b[i] % 4 # 2
  <2>1. i \in 1..k
    BY <1>4, <1>7
  <2> HIDE DEF i
  <2>2. c[i] = b[i]
    BY <1>3, <2>1
  <2> QED
    BY <2>2 DEF Sized, i
<1>9. DecodeMessage(c, i).ec = "Ok"
  <2>1. c # <<>>
    BY <1>3, <1>4, EmptySeq
  <2>2. ~(c[1] + 2 > Len(c)) /\ c[1] + 2 = i
    <3>1. c[1] + 2 = i
      BY <1>6
    <3> HIDE DEF i
    <3> QED
      BY <1>3, <1>4, <1>7, <3>1
  <2> HIDE DEF i
  <2>3. Decode(BytesToHex(c)) = DecodeMessage(c, i)
    BY <1>3, <1>8, <2>1, <2>2, DecodeOctets
  <2> QED
    BY <1>5, <2>3
<1> HIDE DEF i
<1>10. /\ IsComplete(c, i)
       /\ ~(TextOctets(CodingOf(c[PidAt(c, i) + 1]), c[UdlAt(c, i)]) > Len(c) - UdlAt(c, i))
  BY <1>3, <1>7, <1>9, MessageOutcome
<1>11. AddrAt(c, i) \in 1..k /\ PidAt(c, i) + 1 \in 1..k /\ UdlAt(c, i) \in 1..k
  BY <1>3, <1>7, <1>10, PlacesTyped
<1>12. AddrAt(c, i) = AddrAt(b, i) /\ SkippedAt(c, i) = SkippedAt(b, i)
  BY <1>8 DEF AddrAt, SkippedAt, IsSubmit
<1>13. PidAt(c, i) = PidAt(b, i)
  <2>1. c[AddrAt(c, i)] = b[AddrAt(c, i)]
    BY <1>3, <1>11
  <2> QED
    BY <1>12, <2>1 DEF PidAt, AddressEnd
<1>14. UdlAt(c, i) = UdlAt(b, i)
  BY <1>12, <1>13 DEF UdlAt
<1> DEFINE u == UdlAt(c, i)
           t == TextOctets(CodingOf(c[PidAt(c, i) + 1]), c[u])
<1>15. c[u] = b[u] /\ c[PidAt(c, i) + 1] = b[PidAt(c, i) + 1] /\ c[u] \in Nat
  BY <1>3, <1>11
<1>16. Len(b) - u <= t
  BY <1>13, <1>14, <1>15 DEF Sized, i
<1>17. ~(t > Len(c) - u) /\ u \in 1..k
  BY <1>10, <1>11
<1>18. t \in Nat
  BY <1>15 DEF TextOctets, Ceil
<1> HIDE DEF t, u
<1> QED
  BY <1>1, <1>3, <1>4, <1>16, <1>17, <1>18

-----------------------------------------------------------------------------
(***************************************************************************)
(* The PDUs on the air.                                                    *)
(***************************************************************************)
\* A PDU of a submitted line whose addresses fit.
LEMMA LineSized ==
  ASSUME NEW a \in Requests, OptionsValid(a), AddressesFit(a), NEW udhi, NEW data,
         WellMeasured(Coded(a), data), NEW b, b = LineOctets(a, udhi, data),
         NEW s, s = Len(ServiceOctets(NormalizeAddressDigits(a.smsc))),
         NEW d, d = Ceil(Len(NormalizeAddressDigits(a.destination)), 2)
  PROVE  /\ Sized(b) /\ b[1] + 1 = s /\ b[b[1] + 2] = SubmitFlags(MessageOf(a), udhi)
         /\ AddressEnd(b, b[1] + 4) = s + d + 5 /\ b[s + d + 6] = MapDcs(a.dcs)
         /\ SubSeq(b, s + d + 7 + Bit(b[b[1] + 2], 4), Len(b)) = data
<1> DEFINE smsc == NormalizeAddressDigits(a.smsc)
           dest == NormalizeAddressDigits(a.destination)
           v == IF a.vp # -1 THEN 1 ELSE 0
           m == MessageOf(a)
<1>1. /\ s \in Nat \ {0} /\ d \in Nat /\ b \in Seq(Octet) /\ Len(b) = s + d + 6 + v + Len(data)
      /\ b[1] = ServiceOctets(smsc)[1] /\ b[s + 1] = SubmitFlags(m, udhi)
      /\ b[s + 3] = Len(dest) % 256 /\ b[s + d + 6] = MapDcs(a.dcs)
      /\ b[s + d + 6 + v + 1] = data[1]
      /\ SubSeq(b, s + d + 6 + v + 1, Len(b)) = data
  <2>1. LineAt(b, a, udhi, data, s, d, v)
    BY LineWritten
  <2> HIDE DEF v
  <2> QED
    BY <2>1 DEF LineAt
<1>2. smsc \in Seq(0..9) /\ Len(smsc) \in 0..255 /\ dest \in Seq(0..9) /\ Len(dest) \in 0..255
  <2>1. /\ smsc \in Seq(0..9) /\ Len(smsc) <= Len(a.smsc) /\ Len(a.smsc) \in Nat /\ Len(smsc) \in Nat
        /\ dest \in Seq(0..9) /\ Len(dest) <= Len(a.destination) /\ Len(a.destination) \in Nat
        /\ Len(dest) \in Nat
    BY MessageTyped, DigitsOnly
  <2> HIDE DEF smsc, dest
  <2>2. Len(a.smsc) < 256 /\ Len(a.destination) < 256
    BY DEF AddressesFit
  <2>3. \A x, y \in Nat : x <= y /\ y < 256 => x \in 0..255
    OBVIOUS
  <2> QED
    BY <2>1, <2>2, <2>3
<1>3. b[1] + 1 = s
  <2> DEFINE n == Len(smsc)
  <2>1. n \in 0..255
    BY <1>2
  <2>2. /\ s = IF n = 0 THEN 1 ELSE 2 + Ceil(n, 2)
        /\ b[1] = IF n = 0 THEN 0 ELSE (Ceil(n, 2) + 1) % 256
    <3>1. smsc \in Seq(0..9)
      BY <1>2
    <3> HIDE DEF smsc
    <3> QED
      BY <1>1, <3>1, ServiceWritten DEF smsc
  <2> HIDE DEF n
  <2>3. Ceil(n, 2) \in 0..128
    BY <2>1 DEF Ceil
  <2>4. \A x \in 0..128 : (x + 1) % 256 = x + 1
    OBVIOUS
  <2> DEFINE x == Ceil(n, 2)
  <2>5. x \in 0..128 /\ (x + 1) % 256 = x + 1
    BY <2>3, <2>4
  <2>6. s = (IF n = 0 THEN 1 ELSE 2 + x) /\ b[1] = IF n = 0 THEN 0 ELSE (x + 1) % 256
    BY <2>2
  <2> HIDE DEF x
  <2> QED
    BY <2>5, <2>6
<1>4. Len(dest) % 256 = Len(dest) /\ Ceil(Len(dest), 2) = d
  <2>1. \A x \in 0..255 : x % 256 = x
    OBVIOUS
  <2>2. Ceil(Len(dest), 2) = d
    OBVIOUS
  <2> HIDE DEF dest
  <2> QED
    BY <1>2, <2>1, <2>2
<1>a. b[1] \in Nat /\ Len(b) \in Nat
  <2>1. Len(data) \in Nat /\ v \in Nat
    BY DEF WellMeasured
  <2> HIDE DEF v
  <2>2. 1 \in 1..Len(b)
    BY <1>1, <2>1
  <2>3. b[1] \in Octet
    BY <1>1, <2>2
  <2>4. b[1] \in Nat
    BY ONLY <2>3 DEF Octet
  <2>5. Len(b) \in Nat
    BY <1>1
  <2> QED
    BY <2>4, <2>5
<1> DEFINE f == SubmitFlags(m, udhi)
<1>5. /\ f \in Octet /\ f % 4 = 1 /\ (f \div 8) % 4 = IF v = 1 THEN 2 ELSE 0
      /\ Bit(f, 4) = v /\ v \in {0, 1}
  <2>1. m.validity # -1 <=> v = 1
    BY DEF MessageOf
  <2>2. v \in {0, 1} /\ v = IF v = 1 THEN 1 ELSE 0
    OBVIOUS
  <2> HIDE DEF m, v
  <2> QED
    BY <2>1, <2>2, FlagsRead
<1> DEFINE i == b[1] + 2
<1>6. i = s + 1
  <2>1. \A x, y \in Nat : x + 1 = y => x + 2 = y + 1
    OBVIOUS
  <2>2. s \in Nat
    BY <1>1
  <2> QED
    BY <1>3, <1>a, <2>1, <2>2
<1> HIDE DEF v, m, smsc, f, i
<1>7. b[i] = f
  BY <1>1, <1>6 DEF f
<1>8. AddrAt(b, i) = s + 3 /\ SkippedAt(b, i) = v
  <2>1. IsSubmit(b, i)
    BY <1>5, <1>7 DEF IsSubmit
  <2>2. AddrAt(b, i) = s + 3
    BY <1>1, <1>6, <2>1 DEF AddrAt
  <2>3. SkippedAt(b, i) = v
    BY <1>5, <1>7, <2>1 DEF SkippedAt
  <2> QED
    BY <2>2, <2>3
<1>9. AddressEnd(b, s + 3) = s + d + 5
  <2>1. b[s + 3] = Len(dest)
    BY <1>1, <1>4
  <2>2. AddressEnd(b, s + 3) = s + 3 + 2 + d
    BY <1>4, <2>1 DEF AddressEnd
  <2> QED
    BY <1>1, <2>2
<1>10. PidAt(b, i) = s + d + 5 /\ UdlAt(b, i) = s + d + 7 + v
  <2>1. PidAt(b, i) = s + d + 5
    BY <1>8, <1>9 DEF PidAt
  <2> QED
    BY <1>1, <1>5, <1>8, <2>1 DEF UdlAt
<1>b. s \in Nat /\ d \in Nat /\ v \in Nat /\ Len(data) \in Nat
  BY <1>1, <1>5 DEF WellMeasured
<1>11. s + d + 6 + v + 1 = s + d + 7 + v /\ s + d + 5 + 1 = s + d + 6
  BY ONLY <1>b
<1>12. /\ b[UdlAt(b, i)] = data[1] /\ b[PidAt(b, i) + 1] = MapDcs(a.dcs)
       /\ Len(b) - UdlAt(b, i) = Len(data) - 1
  <2>1. Len(b) = s + d + 6 + v + Len(data)
    BY <1>1
  <2>2. Len(b) - (s + d + 7 + v) = Len(data) - 1
    BY ONLY <1>b, <2>1
  <2> QED
    BY <1>1, <1>10, <1>11, <2>2
<1>13. Len(data) - 1 = TextOctets(Coded(a), data[1]) /\ Len(data) - 1 \in Int
  <2>1. Len(data) = 1 + TextOctets(Coded(a), data[1]) /\ data \in Seq(Octet) /\ data # <<>>
    BY DEF WellMeasured
  <2>2. data[1] \in Nat
    <3>1. 1 \in 1..Len(data)
      BY <2>1, EmptySeq
    <3>2. data[1] \in Octet
      BY <2>1, <3>1
    <3> QED
      BY ONLY <3>2 DEF Octet
  <2>3. TextOctets(Coded(a), data[1]) \in Int
    BY <2>2 DEF TextOctets, Ceil
  <2> QED
    BY <2>1, <2>3
<1>14. Sized(b)
  <2>1. b # <<>>
    <3>1. Len(data) \in Nat /\ v \in Nat
      BY <1>5 DEF WellMeasured
    <3>2. Len(b) # 0
      BY <1>1, <3>1
    <3> QED
      BY <3>2, EmptySeq
  <2>2. b[i] % 4 # 2
    BY <1>5, <1>7
  <2>3. Len(b) - UdlAt(b, i) <= TextOctets(CodingOf(b[PidAt(b, i) + 1]), b[UdlAt(b, i)])
    BY <1>12, <1>13 DEF Coded
  <2> QED
    BY <1>1, <2>1, <2>2, <2>3 DEF Sized, i
<1>15. b[1] + 4 = s + 3 /\ s + d + 7 + v = s + d + 6 + v + 1
  <2>1. \A x, y \in Nat : x + 1 = y => x + 4 = y + 3
    OBVIOUS
  <2> QED
    BY <1>3, <1>11, <1>a, <1>b, <2>1
<1>16. Bit(b[b[1] + 2], 4) = v /\ b[b[1] + 2] = f
  BY <1>5, <1>7 DEF i
<1> QED
  BY <1>1, <1>3, <1>9, <1>14, <1>15, <1>16 DEF f, m

\* The octets of an SMS-DELIVER: the service centre, the sender, the time and the
\* user data.
DeliverAt(b, flags, dcs, data) ==
  /\ b \in Seq(Octet) /\ Len(data) \in Nat \ {0} /\ Len(b) = 18 + Len(data)
  /\ b[1] = 3 /\ b[5] = flags /\ b[6] = 3 /\ b[11] = dcs /\ b[19] = data[1]
  /\ \A i \in 1..2 : b[2 + i] = DigitOctets(Centre)[i]
  /\ \A i \in 1..2 : b[7 + i] = DigitOctets(Sender)[i]
  /\ \A i \in 1..7 : b[11 + i] = DigitOctets(Time)[i]
  /\ SubSeq(b, 19, Len(b)) = data

LEMMA NumbersTyped ==
  /\ Centre \in Seq(0..9) /\ Len(Centre) = 4 /\ Sender \in Seq(0..9) /\ Len(Sender) = 3
  /\ Time \in Seq(0..9) /\ Len(Time) = 14 /\ Ceil(4, 2) = 2 /\ Ceil(3, 2) = 2 /\ Ceil(14, 2) = 7
BY DEF Centre, Sender, Time, Ceil

LEMMA DeliverWritten ==
  ASSUME NEW flags \in Octet, NEW dcs \in Octet, NEW data,
         WellMeasured(CodingOf(dcs), data)
  PROVE  \E b : DeliverAt(b, flags, dcs, data) /\ DeliverPdu(flags, dcs, data) = BytesToHex(b)
<1> DEFINE t == <<3, 145>>
           C == DigitOctets(Centre)
           g == <<flags, Len(Sender), 145>>
           S == DigitOctets(Sender)
           c == <<0, dcs>>
           T == DigitOctets(Time)
           h1 == g \o S
           h2 == h1 \o c
           h3 == h2 \o T
           h4 == h3 \o data
           h5 == t \o C
           b == h5 \o h4
<1>1. DeliverPdu(flags, dcs, data) = BytesToHex(b)
  BY DEF DeliverPdu, Centred
<1>2. /\ Centre \in Seq(0..9) /\ Len(Centre) = 4 /\ Sender \in Seq(0..9) /\ Len(Sender) = 3
      /\ Time \in Seq(0..9) /\ Len(Time) = 14
  BY NumbersTyped
<1>3. Ceil(4, 2) = 2 /\ Ceil(3, 2) = 2 /\ Ceil(14, 2) = 7
  BY NumbersTyped
<1>4. C \in Seq(Octet) /\ Len(C) = 2
  BY <1>2, <1>3, DigitsInOctets
<1>5. S \in Seq(Octet) /\ Len(S) = 2
  BY <1>2, <1>3, DigitsInOctets
<1>6. T \in Seq(Octet) /\ Len(T) = 7
  BY <1>2, <1>3, DigitsInOctets
<1>7. t \in Seq(Octet) /\ Len(t) = 2 /\ t[1] = 3
  BY DEF Octet
<1>8. g \in Seq(Octet) /\ Len(g) = 3 /\ g[1] = flags /\ g[2] = 3
  <2>1. 3 \in Octet /\ 145 \in Octet
    BY DEF Octet
  <2> QED
    BY <1>2, <2>1
<1>9. c \in Seq(Octet) /\ Len(c) = 2 /\ c[2] = dcs
  <2>1. 0 \in Octet
    BY DEF Octet
  <2> QED
    BY <2>1
<1>10. data \in Seq(Octet) /\ Len(data) \in Nat \ {0}
  <2>1. data \in Seq(Octet) /\ data # <<>>
    BY DEF WellMeasured
  <2> QED
    BY <2>1, EmptySeq
<1> HIDE DEF t, C, g, S, c, T
<1>11. /\ h1 \in Seq(Octet) /\ Len(h1) = 5 /\ h1[1] = flags /\ h1[2] = 3
       /\ \A i \in 1..2 : h1[3 + i] = S[i]
  <2>1. /\ h1 \in Seq(Octet) /\ Len(h1) = Len(g) + Len(S) /\ (\A i \in 1..Len(g) : h1[i] = g[i])
        /\ \A i \in 1..Len(S) : h1[Len(g) + i] = S[i]
    <3>1. g \in Seq(Octet) /\ S \in Seq(Octet)
      BY <1>5, <1>8
    <3> QED
      BY ONLY <3>1, JoinedAt
  <2>2. 1 \in 1..3 /\ 2 \in 1..3
    OBVIOUS
  <2> HIDE DEF h1
  <2> QED
    BY <1>5, <1>8, <2>1, <2>2
<1> HIDE DEF h1
<1>12. /\ h2 \in Seq(Octet) /\ Len(h2) = 7 /\ h2[1] = flags /\ h2[2] = 3 /\ h2[7] = dcs
       /\ \A i \in 1..2 : h2[3 + i] = S[i]
  <2>1. /\ h2 \in Seq(Octet) /\ Len(h2) = Len(h1) + Len(c) /\ (\A i \in 1..Len(h1) : h2[i] = h1[i])
        /\ \A i \in 1..Len(c) : h2[Len(h1) + i] = c[i]
    <3>1. h1 \in Seq(Octet) /\ c \in Seq(Octet)
      BY <1>9, <1>11
    <3> QED
      BY ONLY <3>1, JoinedAt
  <2>2. 1 \in 1..5 /\ 2 \in 1..5 /\ 2 \in 1..2 /\ 5 + 2 = 7 /\ \A i \in 1..2 : 3 + i \in 1..5
    OBVIOUS
  <2> HIDE DEF h2
  <2> QED
    BY <1>9, <1>11, <2>1, <2>2
<1> HIDE DEF h2
<1>13. /\ h3 \in Seq(Octet) /\ Len(h3) = 14 /\ h3[1] = flags /\ h3[2] = 3 /\ h3[7] = dcs
       /\ (\A i \in 1..2 : h3[3 + i] = S[i]) /\ \A i \in 1..7 : h3[7 + i] = T[i]
  <2>1. /\ h3 \in Seq(Octet) /\ Len(h3) = Len(h2) + Len(T) /\ (\A i \in 1..Len(h2) : h3[i] = h2[i])
        /\ \A i \in 1..Len(T) : h3[Len(h2) + i] = T[i]
    <3>1. h2 \in Seq(Octet) /\ T \in Seq(Octet)
      BY <1>6, <1>12
    <3> QED
      BY ONLY <3>1, JoinedAt
  <2>2. 1 \in 1..7 /\ 2 \in 1..7 /\ 7 \in 1..7 /\ 7 + 7 = 14 /\ \A i \in 1..2 : 3 + i \in 1..7
    OBVIOUS
  <2> HIDE DEF h3
  <2> QED
    BY <1>6, <1>12, <2>1, <2>2
<1> HIDE DEF h3
<1>14. /\ h4 \in Seq(Octet) /\ Len(h4) = 14 + Len(data) /\ h4[1] = flags /\ h4[2] = 3
       /\ h4[7] = dcs /\ h4[15] = data[1]
       /\ (\A i \in 1..2 : h4[3 + i] = S[i]) /\ (\A i \in 1..7 : h4[7 + i] = T[i])
       /\ \A i \in 1..Len(data) : h4[14 + i] = data[i]
  <2>1. /\ h4 \in Seq(Octet) /\ Len(h4) = Len(h3) + Len(data) /\ (\A i \in 1..Len(h3) : h4[i] = h3[i])
        /\ \A i \in 1..Len(data) : h4[Len(h3) + i] = data[i]
    <3>1. h3 \in Seq(Octet) /\ data \in Seq(Octet)
      BY <1>10, <1>13
    <3> QED
      BY ONLY <3>1, JoinedAt
  <2>2. /\ 1 \in 1..14 /\ 2 \in 1..14 /\ 7 \in 1..14 /\ 1 \in 1..Len(data) /\ 14 + 1 = 15
        /\ (\A i \in 1..2 : 3 + i \in 1..14) /\ \A i \in 1..7 : 7 + i \in 1..14
    BY <1>10
  <2> HIDE DEF h4
  <2> QED
    BY <1>10, <1>13, <2>1, <2>2
<1> HIDE DEF h4
<1>15. h5 \in Seq(Octet) /\ Len(h5) = 4 /\ h5[1] = 3 /\ \A i \in 1..2 : h5[2 + i] = C[i]
  <2>1. /\ h5 \in Seq(Octet) /\ Len(h5) = Len(t) + Len(C) /\ (\A i \in 1..Len(t) : h5[i] = t[i])
        /\ \A i \in 1..Len(C) : h5[Len(t) + i] = C[i]
    <3>1. t \in Seq(Octet) /\ C \in Seq(Octet)
      BY <1>4, <1>7
    <3> QED
      BY ONLY <3>1, JoinedAt
  <2>2. 1 \in 1..2 /\ 2 + 2 = 4
    OBVIOUS
  <2> HIDE DEF h5
  <2> QED
    BY <1>4, <1>7, <2>1, <2>2
<1> HIDE DEF h5
<1>16. /\ b \in Seq(Octet) /\ Len(b) = 4 + Len(h4) /\ (\A i \in 1..4 : b[i] = h5[i])
       /\ \A i \in 1..Len(h4) : b[4 + i] = h4[i]
  <2>1. /\ b \in Seq(Octet) /\ Len(b) = Len(h5) + Len(h4) /\ (\A i \in 1..Len(h5) : b[i] = h5[i])
        /\ \A i \in 1..Len(h4) : b[Len(h5) + i] = h4[i]
    <3>1. h5 \in Seq(Octet) /\ h4 \in Seq(Octet)
      BY <1>14, <1>15
    <3> QED
      BY ONLY <3>1, JoinedAt
  <2> HIDE DEF b
  <2> QED
    BY <1>15, <2>1
<1> HIDE DEF b
<1>17. PICK n \in Nat \ {0} : n = Len(data) /\ Len(h4) = 14 + n /\ Len(b) = 18 + n
  BY <1>10, <1>14, <1>16
<1>18. \A i \in 1..(14 + n) : b[4 + i] = h4[i]
  BY <1>16, <1>17
<1>19. b[1] = 3 /\ b[5] = flags /\ b[6] = 3 /\ b[11] = dcs /\ b[19] = data[1]
  <2>1. 1 \in 1..4 /\ 1 \in 1..(14 + n) /\ 2 \in 1..(14 + n) /\ 7 \in 1..(14 + n) /\ 15 \in 1..(14 + n)
    OBVIOUS
  <2>2. b[4 + 1] = flags /\ b[4 + 2] = 3 /\ b[4 + 7] = dcs /\ b[4 + 15] = data[1]
    BY <1>14, <1>18, <2>1
  <2>3. b[1] = 3
    BY <1>15, <1>16, <2>1
  <2> QED
    BY <2>2, <2>3
<1>20. \A i \in 1..2 : b[2 + i] = C[i] /\ b[7 + i] = S[i]
  <2> SUFFICES ASSUME NEW i \in 1..2
               PROVE  b[2 + i] = C[i] /\ b[7 + i] = S[i]
    OBVIOUS
  <2>1. 2 + i \in 1..4 /\ 3 + i \in 1..(14 + n) /\ 4 + (3 + i) = 7 + i
    OBVIOUS
  <2>2. b[2 + i] = C[i]
    BY <1>15, <1>16, <2>1
  <2>3. b[4 + (3 + i)] = h4[3 + i]
    BY <1>18, <2>1
  <2> QED
    BY <1>14, <2>1, <2>2, <2>3
<1>21. \A i \in 1..7 : b[11 + i] = T[i]
  <2> SUFFICES ASSUME NEW i \in 1..7
               PROVE  b[11 + i] = T[i]
    OBVIOUS
  <2>1. 7 + i \in 1..(14 + n) /\ 4 + (7 + i) = 11 + i
    OBVIOUS
  <2>2. b[4 + (7 + i)] = h4[7 + i]
    BY <1>18, <2>1
  <2> QED
    BY <1>14, <2>1, <2>2
<1>22. SubSeq(b, 19, Len(b)) = data
  <2>1. \A i \in 1..n : b[18 + i] = data[i]
    <3> SUFFICES ASSUME NEW i \in 1..n
                 PROVE  b[18 + i] = data[i]
      OBVIOUS
    <3>1. 14 + i \in 1..(14 + n) /\ 4 + (14 + i) = 18 + i
      OBVIOUS
    <3>2. b[4 + (14 + i)] = h4[14 + i]
      BY <1>18, <3>1
    <3> QED
      BY <1>14, <1>17, <3>1, <3>2
  <2>2. b \in Seq(Octet) /\ data \in Seq(Octet) /\ n = Len(data) /\ 18 \in Nat /\ 18 + n <= Len(b)
    BY <1>10, <1>16, <1>17
  <2>3. SubSeq(b, 18 + 1, 18 + n) = data
    BY ONLY <2>1, <2>2, PieceIs
  <2> QED
    BY <1>17, <2>3
<1>23. Len(data) \in Nat \ {0} /\ Len(b) = 18 + Len(data)
  BY <1>17
<1>24. DeliverAt(b, flags, dcs, data)
  BY <1>16, <1>19, <1>20, <1>21, <1>22, <1>23 DEF DeliverAt, C, S, T
<1> QED
  BY <1>1, <1>24

\* With user data that is measured: its type is 0, its places are those of the two
\* addresses.
LEMMA DeliverPlaces ==
  ASSUME NEW flags, flags % 4 = 0, NEW dcs, NEW data, NEW b, DeliverAt(b, flags, dcs, data)
  PROVE  /\ ~IsSubmit(b, 5) /\ AddrAt(b, 5) = 6 /\ PidAt(b, 5) = 10 /\ UdlAt(b, 5) = 19
         /\ AddressEnd(b, 6) = 10
<1>1. b[5] % 4 = 0 /\ b[6] = 3 /\ Ceil(3, 2) = 2
  BY NumbersTyped DEF DeliverAt
<1>2. ~IsSubmit(b, 5)
  BY <1>1 DEF IsSubmit
<1>3. AddrAt(b, 5) = 6 /\ SkippedAt(b, 5) = 7
  BY <1>2 DEF AddrAt, SkippedAt
<1>4. AddressEnd(b, 6) = 10
  BY <1>1 DEF AddressEnd
<1>5. PidAt(b, 5) = 10
  BY <1>3, <1>4 DEF PidAt
<1>6. UdlAt(b, 5) = 19
  BY <1>3, <1>5 DEF UdlAt
<1> QED
  BY <1>2, <1>3, <1>4, <1>5, <1>6

LEMMA DeliverSized ==
  ASSUME NEW flags \in Octet, flags % 4 = 0, NEW dcs \in Octet, NEW data,
         WellMeasured(CodingOf(dcs), data)
  PROVE  \E b : Sized(b) /\ DeliverPdu(flags, dcs, data) = BytesToHex(b)
<1>1. PICK b : DeliverAt(b, flags, dcs, data) /\ DeliverPdu(flags, dcs, data) = BytesToHex(b)
  BY DeliverWritten
<1>2. /\ b \in Seq(Octet) /\ Len(data) \in Nat \ {0} /\ Len(b) = 18 + Len(data)
      /\ b[1] = 3 /\ b[5] = flags /\ b[11] = dcs /\ b[19] = data[1] /\ b[1] + 2 = 5
  BY <1>1 DEF DeliverAt
<1>3. PidAt(b, 5) = 10 /\ UdlAt(b, 5) = 19
  BY <1>1, DeliverPlaces
<1>4. b # <<>> /\ b[5] % 4 # 2
  BY <1>2, EmptySeq
<1>5. Len(b) - 19 <= TextOctets(CodingOf(dcs), data[1])
  <2>1. Len(data) = 1 + TextOctets(CodingOf(dcs), data[1]) /\ data \in Seq(Octet)
    BY DEF WellMeasured
  <2>2. data[1] \in Nat
    <3>1. 1 \in 1..Len(data)
      BY <1>2
    <3>2. data[1] \in Octet
      BY <2>1, <3>1
    <3> QED
      BY ONLY <3>2 DEF Octet
  <2>3. TextOctets(CodingOf(dcs), data[1]) \in Int
    BY <2>2 DEF TextOctets, Ceil
  <2> QED
    BY <1>2, <2>1, <2>3
<1>6. Sized(b)
  BY <1>2, <1>3, <1>4, <1>5 DEF Sized
<1> QED
  BY <1>1, <1>6

\* What the network makes of a line.
LEMMA DeliveredIs ==
  ASSUME NEW a \in Requests, OptionsValid(a), AddressesFit(a), NEW udhi, NEW data,
         WellMeasured(Coded(a), data), NEW hex, hex = BytesToHex(LineOctets(a, udhi, data)),
         NEW sri \in {0, 1}
  PROVE  \E flags \in Octet : /\ flags % 4 = 0 /\ (Bit(flags, 6) = 1 <=> udhi)
                              /\ Delivered(hex, sri) = DeliverPdu(flags, MapDcs(a.dcs), data)
<1> DEFINE f == SubmitFlags(MessageOf(a), udhi)
<1>1. PICK b, s, d : /\ b = LineOctets(a, udhi, data)
                     /\ s = Len(ServiceOctets(NormalizeAddressDigits(a.smsc)))
                     /\ d = Ceil(Len(NormalizeAddressDigits(a.destination)), 2)
  OBVIOUS
<1>2. /\ Sized(b) /\ b[1] + 1 = s /\ b[b[1] + 2] = f
      /\ AddressEnd(b, b[1] + 4) = s + d + 5 /\ b[s + d + 6] = MapDcs(a.dcs)
      /\ SubSeq(b, s + d + 7 + Bit(b[b[1] + 2], 4), Len(b)) = data
  <2>1. /\ a \in Requests /\ OptionsValid(a) /\ AddressesFit(a)
        /\ WellMeasured(Coded(a), data)
    OBVIOUS
  <2> QED
    BY ONLY <1>1, <2>1, LineSized
<1>3. b \in Seq(Octet) /\ HexToBytes(hex).out = b
  <2>1. b \in Seq(Octet)
    BY <1>2 DEF Sized
  <2>2. HexToBytes(BytesToHex(b)) = Ok(b)
    BY <2>1, OctetsReadBack
  <2> QED
    BY <1>1, <2>1, <2>2 DEF Ok
<1>4. s \in Nat /\ d \in Nat /\ Bit(f, 6) = IF udhi THEN 1 ELSE 0
  <2>1. s \in Nat
    BY <1>1, MessageTyped, DigitsOnly, ServiceWritten
  <2>2. d \in Nat
    <3>1. Len(NormalizeAddressDigits(a.destination)) \in Nat
      BY MessageTyped, DigitsOnly
    <3> QED
      BY <1>1, <3>1 DEF Ceil
  <2>3. Bit(f, 6) = IF udhi THEN 1 ELSE 0
    BY FlagBits
  <2> QED
    BY <2>1, <2>2, <2>3
<1> HIDE DEF f
<1> DEFINE flags == 64 * Bit(f, 6) + 32 * sri
<1>5. Delivered(hex, sri) = DeliverPdu(flags, MapDcs(a.dcs), data)
  <2> DEFINE pid == AddressEnd(b, b[1] + 4)
             first == b[b[1] + 2]
  <2>1. Delivered(hex, sri) = DeliverPdu(64 * Bit(first, 6) + 32 * sri, b[pid + 1],
                                         SubSeq(b, pid + 2 + Bit(first, 4), Len(b)))
    BY <1>3 DEF Delivered
  <2>2. pid = s + d + 5 /\ first = f
    BY <1>2
  <2>3. pid + 1 = s + d + 6 /\ pid + 2 = s + d + 7
    BY <1>4, <2>2
  <2> HIDE DEF pid
  <2> QED
    BY <1>2, <2>1, <2>2, <2>3
<1>6. flags \in Octet /\ flags % 4 = 0 /\ (Bit(flags, 6) = 1 <=> udhi)
  <2>1. PICK x \in {0, 1} : x = Bit(f, 6) /\ (x = 1 <=> udhi)
    BY <1>4
  <2>2. /\ 64 * x + 32 * sri \in Octet /\ (64 * x + 32 * sri) % 4 = 0
        /\ ((64 * x + 32 * sri) \div 64) % 2 = x
    BY DEF Octet
  <2>3. flags = 64 * x + 32 * sri /\ 2^6 = 64
    BY <2>1
  <2> HIDE DEF flags
  <2> QED
    BY <2>1, <2>2, <2>3 DEF Bit
<1> HIDE DEF flags
<1> QED
  BY <1>5, <1>6

LEMMA DeliveredSized ==
  ASSUME NEW a \in Requests, OptionsValid(a), AddressesFit(a), NEW hex, IsLine(a, hex),
         NEW sri \in {0, 1}
  PROVE  \E b : Sized(b) /\ Delivered(hex, sri) = BytesToHex(b)
<1>1. PICK udhi \in BOOLEAN, data \in Seq(Octet) :
        WellMeasured(Coded(a), data) /\ hex = BytesToHex(LineOctets(a, udhi, data))
  BY DEF IsLine
<1>2. PICK flags \in Octet : /\ flags % 4 = 0
                            /\ Delivered(hex, sri) = DeliverPdu(flags, MapDcs(a.dcs), data)
  BY <1>1, DeliveredIs
<1>3. MapDcs(a.dcs) \in Octet /\ WellMeasured(CodingOf(MapDcs(a.dcs)), data)
  BY <1>1, MessageTyped DEF Coded
<1> QED
  BY <1>2, <1>3, DeliverSized

\* What a phone sends.
LEMMA PhoneSized ==
  ASSUME NEW p \in Phones
  PROVE  \E b : Sized(b) /\ PhonePdu(p) = BytesToHex(b)
<1> DEFINE udh == IF p.udh = <<>> THEN <<>> ELSE <<Len(p.udh)>> \o p.udh
           septets == Utf8ToGsm7(p.text).out
           skip == UdhSeptets(Len(udh))
           octets == IF p.dcs = Ucs2 THEN Octets(EncodeUcs2(p.text).out) ELSE p.text
           data == PhoneData(p)
<1>1. /\ p.udh \in Seq(Octet) /\ p.text \in Seq(Octet) /\ p.dcs \in Octet
      /\ Len(p.udh) < UserDataOctets /\ data[1] < 256
  BY PhoneAssumption DEF Octet
<1>2. udh \in Seq(Octet) /\ Len(udh) \in Nat
  <2>1. CASE p.udh = <<>>
    BY <2>1, EmptySeq
  <2>2. CASE p.udh # <<>>
    <3>1. Len(p.udh) \in Octet
      <4>1. \A n, u \in Nat : n < u /\ u \in 11..140 => n \in Octet
        BY DEF Octet
      <4>2. Len(p.udh) \in Nat /\ Len(p.udh) < UserDataOctets /\ UserDataOctets \in Nat
        BY <1>1, UserDataAssumption
      <4> QED
        BY <4>1, <4>2, UserDataAssumption
    <3>2. <<Len(p.udh)>> \in Seq(Octet) /\ p.udh \in Seq(Octet)
      BY <1>1, <3>1
    <3>3. <<Len(p.udh)>> \o p.udh \in Seq(Octet)
      BY ONLY <3>2, JoinedAt
    <3> QED
      BY <2>2, <3>3
  <2>3. udh \in Seq(Octet)
    BY <2>1, <2>2
  <2> HIDE DEF udh
  <2> QED
    BY <2>3
<1>3. septets \in Seq(Septet) /\ octets \in Seq(Octet)
  <2>1. septets \in Seq(Septet)
    BY <1>1, Utf8ToGsm7Typed DEF Results
  <2>2. EncodeUcs2(p.text).out \in Seq(Unit)
    BY <1>1, EncodeUcs2Typed DEF Results
  <2>3. Octets(EncodeUcs2(p.text).out) \in Seq(Octet)
    BY <2>2, OctetsTyped
  <2> QED
    BY <1>1, <2>1, <2>3
<1>4. skip \in Nat
  <2> HIDE DEF udh
  <2> QED
    BY <1>2 DEF UdhSeptets, Ceil
<1> HIDE DEF udh, septets, octets
<1>5. data = IF p.dcs = Gsm7Bit
               THEN <<skip + Len(septets)>> \o AppendPacked7bitAt(udh, septets, 7 * skip)
               ELSE <<Len(udh) + Len(octets)>> \o udh \o octets
  BY DEF PhoneData, udh, septets, octets
<1> HIDE DEF data, skip
<1>6. ASSUME NEW x \in Nat, NEW t \in Seq(Octet), NEW w, w = <<x>> \o t, w[1] < 256
      PROVE  x \in Octet
  <2>1. <<x>> \in Seq(Nat) /\ t \in Seq(Nat)
    BY <1>6, OctetsAreNumbers
  <2>2. Len(<<x>>) = 1 /\ <<x>>[1] = x /\ 1 \in 1..1
    OBVIOUS
  <2>3. \A i \in 1..Len(<<x>>) : (<<x>> \o t)[i] = <<x>>[i]
    BY ONLY <2>1, JoinedAt
  <2>4. w[1] = x
    BY <1>6, <2>2, <2>3
  <2>5. x < 256
    BY <1>6, <2>4
  <2> QED
    BY ONLY <1>6, <2>5 DEF Octet
<1>7. WellMeasured(CodingOf(p.dcs), data)
  <2>1. CASE p.dcs = Gsm7Bit
    <3> DEFINE t == AppendPacked7bitAt(udh, septets, 7 * skip)
               x == skip + Len(septets)
    <3>1. t \in Seq(Octet)
      <4>1. 7 * skip \in Nat
        BY <1>4
      <4> QED
        BY <1>2, <1>3, <4>1, PackedTyped
    <3>2. x \in Nat /\ data = <<x>> \o t
      BY <1>3, <1>4, <1>5, <2>1
    <3>3. x \in Octet
      <4> HIDE DEF x, t
      <4> QED
        BY <1>1, <1>6, <3>1, <3>2
    <3>4. WellMeasured("gsm7", data)
      <4>1. data = <<x>> \o AppendPacked7bitAt(udh, septets, 7 * skip) /\ x = skip + Len(septets)
        BY <3>2
      <4>2. skip = UdhSeptets(Len(udh))
        BY DEF skip
      <4> HIDE DEF x
      <4> QED
        BY <1>2, <1>3, <1>4, <3>3, <4>1, <4>2, PackedWritten
    <3> QED
      BY <2>1, <3>4 DEF CodingOf
  <2>2. CASE p.dcs # Gsm7Bit
    <3> DEFINE t == udh \o octets
               x == Len(udh) + Len(octets)
    <3>1. t \in Seq(Octet)
      BY <1>2, <1>3, JoinedAt
    <3>2. x \in Nat /\ data = <<x>> \o udh \o octets
      BY <1>2, <1>3, <1>5, <2>2
    <3>3. <<x>> \o udh \o octets = <<x>> \o t
      <4>1. udh \in Seq(Nat) /\ octets \in Seq(Nat) /\ <<x>> \in Seq(Nat)
        BY <1>2, <1>3, <3>2, OctetsAreNumbers
      <4> HIDE DEF x
      <4> QED
        BY <4>1
    <3>4. x \in Octet
      <4> HIDE DEF x, t
      <4> QED
        BY <1>1, <1>6, <3>1, <3>2, <3>3
    <3>5. CodingOf(p.dcs) # "gsm7"
      BY <2>2 DEF CodingOf, Gsm7Bit
    <3>6. x = Len(udh) + Len(octets)
      OBVIOUS
    <3> HIDE DEF x, t
    <3> QED
      BY <1>2, <1>3, <3>2, <3>4, <3>5, <3>6, OctetsWritten
  <2> QED
    BY <2>1, <2>2
<1> DEFINE flags == IF p.udh = <<>> THEN 0 ELSE 64
<1>8. flags \in Octet /\ flags % 4 = 0
  BY DEF Octet
<1>9. PhonePdu(p) = DeliverPdu(flags, p.dcs, data)
  BY DEF PhonePdu, data
<1> HIDE DEF flags
<1> QED
  BY <1>1, <1>7, <1>8, <1>9, DeliverSized

\* The octets of a report about a message to dest without parameters, and where
\* its fields are.
ReportOctets(reference, dest) ==
  <<3, 145>> \o DigitOctets(Centre)
    \o (<<2, reference, Len(dest), 145>> \o DigitOctets(dest) \o DigitOctets(Time)
        \o DigitOctets(Later) \o <<48>>)

ReportAt(b, reference, dest, d) ==
  /\ b \in Seq(Octet) /\ Len(b) = d + 23 /\ b[1] = 3 /\ b[5] = 2 /\ b[6] = reference
  /\ b[7] = Len(dest) /\ (\A i \in 1..d : b[8 + i] = DigitOctets(dest)[i])
  /\ (\A i \in 1..7 : b[d + 8 + i] = DigitOctets(Time)[i])
  /\ (\A i \in 1..7 : b[d + 15 + i] = DigitOctets(Later)[i]) /\ b[d + 23] = 48

LEMMA ReportWritten ==
  ASSUME NEW reference \in Octet, NEW dest \in Seq(0..9), Len(dest) < 256, NEW d, d = Ceil(Len(dest), 2)
  PROVE  ReportAt(ReportOctets(reference, dest), reference, dest, d)
<1> DEFINE t == <<3, 145>>
           C == DigitOctets(Centre)
           n == Len(dest)
           g == <<2, reference, n, 145>>
           D == DigitOctets(dest)
           T == DigitOctets(Time)
           L == DigitOctets(Later)
           st == <<48>>
           h1 == g \o D
           h2 == h1 \o T
           h3 == h2 \o L
           h4 == h3 \o st
           h5 == t \o C
           b == h5 \o h4
<1>1. ReportOctets(reference, dest) = b
  BY DEF ReportOctets
<1>2. /\ Centre \in Seq(0..9) /\ Len(Centre) = 4 /\ Later \in Seq(0..9) /\ Len(Later) = 14
      /\ Time \in Seq(0..9) /\ Len(Time) = 14
  BY DEF Centre, Later, Time
<1>3. Ceil(4, 2) = 2 /\ Ceil(14, 2) = 7
  BY DEF Ceil
<1>4. C \in Seq(Octet) /\ Len(C) = 2
  BY <1>2, <1>3, DigitsInOctets
<1>5. T \in Seq(Octet) /\ Len(T) = 7
  BY <1>2, <1>3, DigitsInOctets
<1>6. L \in Seq(Octet) /\ Len(L) = 7
  BY <1>2, <1>3, DigitsInOctets
<1>7. D \in Seq(Octet) /\ Len(D) = d /\ d \in Nat
  <2>1. D \in Seq(Octet) /\ Len(D) = d
    BY DigitsInOctets
  <2> HIDE DEF D
  <2> QED
    BY <2>1
<1>8. t \in Seq(Octet) /\ Len(t) = 2 /\ t[1] = 3
  BY DEF Octet
<1>9. st \in Seq(Octet) /\ Len(st) = 1 /\ st[1] = 48
  BY DEF Octet
<1>10. g \in Seq(Octet) /\ Len(g) = 4 /\ g[1] = 2 /\ g[2] = reference /\ g[3] = n
  <2>1. n \in Nat /\ n < 256
    OBVIOUS
  <2> HIDE DEF n
  <2>2. n \in Octet /\ 2 \in Octet /\ 145 \in Octet
    BY <2>1 DEF Octet
  <2> QED
    BY <2>2
<1> HIDE DEF t, C, n, g, D, T, L, st
<1>11. /\ h1 \in Seq(Octet) /\ Len(h1) = 4 + d /\ (\A i \in 1..4 : h1[i] = g[i])
       /\ \A i \in 1..d : h1[4 + i] = D[i]
  <2>1. g \in Seq(Octet) /\ D \in Seq(Octet)
    BY <1>7, <1>10
  <2>2. /\ h1 \in Seq(Octet) /\ Len(h1) = Len(g) + Len(D) /\ (\A i \in 1..Len(g) : h1[i] = g[i])
        /\ \A i \in 1..Len(D) : h1[Len(g) + i] = D[i]
    BY ONLY <2>1, JoinedAt
  <2> HIDE DEF h1
  <2> QED
    BY <1>7, <1>10, <2>2
<1> HIDE DEF h1
<1>12. /\ h2 \in Seq(Octet) /\ Len(h2) = 4 + d + 7 /\ (\A i \in 1..(4 + d) : h2[i] = h1[i])
       /\ \A i \in 1..7 : h2[4 + d + i] = T[i]
  <2>1. h1 \in Seq(Octet) /\ T \in Seq(Octet)
    BY <1>5, <1>11
  <2>2. /\ h2 \in Seq(Octet) /\ Len(h2) = Len(h1) + Len(T) /\ (\A i \in 1..Len(h1) : h2[i] = h1[i])
        /\ \A i \in 1..Len(T) : h2[Len(h1) + i] = T[i]
    BY ONLY <2>1, JoinedAt
  <2> HIDE DEF h2
  <2> QED
    BY <1>5, <1>11, <2>2
<1> HIDE DEF h2
<1>13. /\ h3 \in Seq(Octet) /\ Len(h3) = 4 + d + 7 + 7 /\ (\A i \in 1..(4 + d + 7) : h3[i] = h2[i])
       /\ \A i \in 1..7 : h3[4 + d + 7 + i] = L[i]
  <2>1. h2 \in Seq(Octet) /\ L \in Seq(Octet)
    BY <1>6, <1>12
  <2>2. /\ h3 \in Seq(Octet) /\ Len(h3) = Len(h2) + Len(L) /\ (\A i \in 1..Len(h2) : h3[i] = h2[i])
        /\ \A i \in 1..Len(L) : h3[Len(h2) + i] = L[i]
    BY ONLY <2>1, JoinedAt
  <2> HIDE DEF h3
  <2> QED
    BY <1>6, <1>12, <2>2
<1> HIDE DEF h3
<1>14. /\ h4 \in Seq(Octet) /\ Len(h4) = 4 + d + 7 + 7 + 1
       /\ (\A i \in 1..(4 + d + 7 + 7) : h4[i] = h3[i]) /\ h4[4 + d + 7 + 7 + 1] = 48
  <2>1. h3 \in Seq(Octet) /\ st \in Seq(Octet)
    BY <1>9, <1>13
  <2>2. /\ h4 \in Seq(Octet) /\ Len(h4) = Len(h3) + Len(st) /\ (\A i \in 1..Len(h3) : h4[i] = h3[i])
        /\ \A i \in 1..Len(st) : h4[Len(h3) + i] = st[i]
    BY ONLY <2>1, JoinedAt
  <2> HIDE DEF h4
  <2>3. 1 \in 1..1
    OBVIOUS
  <2> QED
    BY <1>9, <1>13, <2>2, <2>3
<1> HIDE DEF h4
<1>15. h5 \in Seq(Octet) /\ Len(h5) = 4 /\ h5[1] = 3
  <2>1. t \in Seq(Octet) /\ C \in Seq(Octet)
    BY <1>4, <1>8
  <2>2. h5 \in Seq(Octet) /\ Len(h5) = Len(t) + Len(C) /\ \A i \in 1..Len(t) : h5[i] = t[i]
    BY ONLY <2>1, JoinedAt
  <2>3. 1 \in 1..2
    OBVIOUS
  <2> HIDE DEF h5
  <2> QED
    BY <1>4, <1>8, <2>2, <2>3
<1> HIDE DEF h5
<1>16. /\ b \in Seq(Octet) /\ Len(b) = 4 + (4 + d + 7 + 7 + 1) /\ b[1] = 3
       /\ \A i \in 1..(4 + d + 7 + 7 + 1) : b[4 + i] = h4[i]
  <2>1. h5 \in Seq(Octet) /\ h4 \in Seq(Octet)
    BY <1>14, <1>15
  <2>2. /\ b \in Seq(Octet) /\ Len(b) = Len(h5) + Len(h4) /\ (\A i \in 1..Len(h5) : b[i] = h5[i])
        /\ \A i \in 1..Len(h4) : b[Len(h5) + i] = h4[i]
    BY ONLY <2>1, JoinedAt
  <2>3. 1 \in 1..4
    OBVIOUS
  <2> HIDE DEF b
  <2> QED
    BY <1>14, <1>15, <2>2, <2>3
<1> HIDE DEF b
<1> DEFINE e == 4 + d + 7 + 7 + 1
<1>17. d \in Nat /\ e \in Nat /\ e = d + 19
  BY <1>7
<1>18. Len(b) = d + 23 /\ \A i \in 1..(d + 18) : b[4 + i] = h3[i]
  <2>1. Len(b) = d + 23
    <3>1. 4 + (4 + d + 7 + 7 + 1) = d + 23
      BY ONLY <1>17
    <3> QED
      BY <1>16, <3>1
  <2>2. \A i \in 1..(d + 18) : i \in 1..(4 + d + 7 + 7 + 1) /\ i \in 1..(4 + d + 7 + 7)
    BY ONLY <1>17
  <2> QED
    BY <1>14, <1>16, <2>1, <2>2
<1>19. \A i \in 1..4 : b[4 + i] = g[i]
  <2>1. \A i \in 1..4 : /\ i \in 1..(d + 18) /\ i \in 1..(4 + d + 7) /\ i \in 1..(4 + d)
    BY ONLY <1>17
  <2> QED
    BY <1>11, <1>12, <1>13, <1>18, <2>1
<1>20. \A i \in 1..d : b[8 + i] = D[i]
  <2>1. \A i \in 1..d : /\ 4 + i \in 1..(d + 18) /\ 4 + i \in 1..(4 + d + 7) /\ 4 + i \in 1..(4 + d)
                        /\ 4 + (4 + i) = 8 + i
    BY ONLY <1>17
  <2>2. ASSUME NEW i \in 1..d PROVE b[8 + i] = D[i]
    <3>1. b[4 + (4 + i)] = h3[4 + i]
      BY <1>18, <2>1
    <3>2. h3[4 + i] = h1[4 + i]
      BY <1>12, <1>13, <2>1
    <3> QED
      BY <1>11, <2>1, <3>1, <3>2
  <2> QED
    BY <2>2
<1>21. \A i \in 1..7 : b[d + 8 + i] = T[i]
  <2>1. \A i \in 1..7 : /\ 4 + d + i \in 1..(d + 18) /\ 4 + d + i \in 1..(4 + d + 7)
                        /\ 4 + (4 + d + i) = d + 8 + i
    BY ONLY <1>17
  <2> QED
    BY <1>12, <1>13, <1>18, <2>1
<1>22. \A i \in 1..7 : b[d + 15 + i] = L[i]
  <2>1. \A i \in 1..7 : 4 + d + 7 + i \in 1..(d + 18) /\ 4 + (4 + d + 7 + i) = d + 15 + i
    BY ONLY <1>17
  <2> QED
    BY <1>13, <1>18, <2>1
<1>23. b[d + 23] = 48
  <2>1. e \in 1..e /\ 4 + e = d + 23
    BY ONLY <1>17
  <2> QED
    BY <1>14, <1>16, <2>1
<1>24. b[5] = 2 /\ b[6] = reference /\ b[7] = n
  <2>1. b[4 + 1] = g[1] /\ b[4 + 2] = g[2] /\ b[4 + 3] = g[3]
    BY <1>19
  <2> QED
    BY <1>10, <2>1
<1> QED
  BY <1>1, <1>16, <1>18, <1>20, <1>21, <1>22, <1>23, <1>24 DEF ReportAt, n, D, T, L

\* Parameters follow.
LEMMA ReportParameters ==
  ASSUME NEW reference \in Octet, Len(call.args.destination) < 256,
         call.args.destination \in Seq(Nat), NEW ps \in Seq(Octet),
         NEW dest, dest = NormalizeAddressDigits(call.args.destination)
  PROVE  /\ ReportPdu(reference, ps) = BytesToHex(ReportOctets(reference, dest) \o ps)
         /\ ReportPdu(reference, <<>>) = BytesToHex(ReportOctets(reference, dest))
<1> DEFINE h == <<3, 145>> \o DigitOctets(Centre)
           x == <<2, reference, Len(dest), 145>> \o DigitOctets(dest) \o DigitOctets(Time)
                  \o DigitOctets(Later) \o <<48>>
<1>1. \A q : ReportPdu(reference, q) = BytesToHex(h \o (x \o q))
  BY DEF ReportPdu, Centred
<1>2. ReportOctets(reference, dest) = h \o x
  BY DEF ReportOctets
<1>3. h \in Seq(Nat) /\ x \in Seq(Nat) /\ ps \in Seq(Nat)
  <2>1. dest \in Seq(0..9) /\ Len(dest) \in Nat
    BY DigitsOnly
  <2>2. Centre \in Seq(0..9) /\ Later \in Seq(0..9) /\ Time \in Seq(0..9)
    BY DEF Centre, Later, Time
  <2>3. /\ DigitOctets(dest) \in Seq(Nat) /\ DigitOctets(Time) \in Seq(Nat)
        /\ DigitOctets(Later) \in Seq(Nat) /\ DigitOctets(Centre) \in Seq(Nat)
    BY <2>1, <2>2, DigitsInOctets, OctetsAreNumbers
  <2>4. reference \in Nat
    BY DEF Octet
  <2>5. <<3, 145>> \in Seq(Nat) /\ <<48>> \in Seq(Nat) /\ <<2, reference, Len(dest), 145>> \in Seq(Nat)
    BY <2>1, <2>4
  <2> QED
    BY <2>3, <2>5, OctetsAreNumbers
<1> HIDE DEF h, x
<1>4. h \o (x \o ps) = (h \o x) \o ps /\ x \o <<>> = x
  BY <1>3
<1> QED
  BY <1>1, <1>2, <1>4

\* The message a report is read as, before its parameters; what DecodeParameters
\* leaves of it.
ReportMessage(b, reference, dest) ==
  [NoMessage EXCEPT
     !.is_status_report = TRUE, !.service_center = ServiceCenter(b),
     !.message_reference = reference, !.peer_address = dest,
     !.service_timestamp = Time, !.discharge_time = Later, !.tp_status = 48]

IsReport(m, reference, dest) ==
  /\ m.ec = "Ok" /\ m.is_status_report = TRUE /\ m.message_reference = reference
  /\ m.peer_address = dest /\ m.service_timestamp = Time /\ m.discharge_time = Later
  /\ m.tp_status = 48

LEMMA ReportMessageIs ==
  ASSUME NEW b, NEW reference, NEW dest, NEW coding, NEW data,
         NEW m, m = ReportMessage(b, reference, dest)
  PROVE  /\ IsReport(m, reference, dest)
         /\ IsReport([m EXCEPT !.coding = coding], reference, dest)
         /\ IsReport([m EXCEPT !.coding = coding, !.user_data = data], reference, dest)
BY DEF ReportMessage, NoMessage, IsReport

\* It is read when all of it is there, from the octets of its fields.
LEMMA ReportFields ==
  ASSUME NEW r, NEW reference \in Octet, NEW dest \in Seq(0..9), NEW d, NEW c \in Seq(Octet),
         d = Ceil(Len(dest), 2), ReportAt(r, reference, dest, d), Len(c) >= d + 23,
         \A i \in 1..(d + 23) : c[i] = r[i]
  PROVE  Decode(BytesToHex(c)) = DecodeParameters(ReportMessage(c, reference, dest), c, d + 24)
<1> DEFINE n == Len(dest)
           D == DigitOctets(dest)
           T == DigitOctets(Time)
           L == DigitOctets(Later)
<1>1. D \in Seq(Octet) /\ Len(D) = d /\ d \in Nat /\ OctetDigits(D) = dest
  <2>1. D \in Seq(Octet) /\ Len(D) = d /\ OctetDigits(D) = dest
    BY DigitsInOctets, DigitsReadBack
  <2> HIDE DEF D
  <2> QED
    BY <2>1
<1>2. /\ T \in Seq(Octet) /\ Len(T) = 7 /\ OctetDigits(T) = Time
      /\ L \in Seq(Octet) /\ Len(L) = 7 /\ OctetDigits(L) = Later
  <2>1. Later \in Seq(0..9) /\ Len(Later) = 14 /\ Time \in Seq(0..9) /\ Len(Time) = 14
    BY DEF Later, Time
  <2>2. Ceil(14, 2) = 7
    BY DEF Ceil
  <2> QED
    BY <2>1, <2>2, DigitsInOctets, DigitsReadBack
<1> HIDE DEF D, T, L
<1>3. /\ r[1] = 3 /\ r[5] = 2 /\ r[6] = reference /\ r[7] = n /\ r[d + 23] = 48
      /\ (\A i \in 1..d : r[8 + i] = D[i]) /\ (\A i \in 1..7 : r[d + 8 + i] = T[i])
      /\ (\A i \in 1..7 : r[d + 15 + i] = L[i])
  BY DEF ReportAt, D, T, L
<1>4. /\ \A i \in 1..d : 8 + i \in 1..(d + 23)
      /\ \A i \in 1..7 : d + 8 + i \in 1..(d + 23) /\ d + 15 + i \in 1..(d + 23)
  <2>1. d \in Nat
    BY <1>1
  <2>2. \A i \in 1..d : 8 + i \in 1..(d + 23)
    BY ONLY <2>1
  <2>3. \A i \in 1..7 : d + 8 + i \in 1..(d + 23)
    BY ONLY <2>1
  <2>4. \A i \in 1..7 : d + 15 + i \in 1..(d + 23)
    BY ONLY <2>1
  <2> QED
    BY <2>2, <2>3, <2>4
<1>5. /\ 1 \in 1..(d + 23) /\ 5 \in 1..(d + 23) /\ 6 \in 1..(d + 23) /\ 7 \in 1..(d + 23)
      /\ d + 23 \in 1..(d + 23)
  BY <1>1
<1>6. c[1] = 3 /\ c[5] = 2 /\ c[6] = reference /\ c[7] = n /\ c[d + 23] = 48
  BY <1>3, <1>5
<1>7. Len(c) \in Nat /\ n \in Nat /\ Len(c) >= d + 23
  OBVIOUS
<1> DEFINE s == Len(c)
<1>8. SubSeq(c, 8 + 1, 8 + d) = D
  <2>1. \A i \in 1..d : c[8 + i] = D[i]
    BY <1>3, <1>4
  <2>2. 8 + d <= Len(c)
    BY <1>1, <1>7
  <2>3. d = Len(D) /\ D \in Seq(Octet) /\ 8 \in Nat
    BY <1>1
  <2> QED
    BY <2>1, <2>2, <2>3, PieceIs
<1>9. SubSeq(c, d + 8 + 1, d + 8 + 7) = T
  <2>1. \A i \in 1..7 : c[d + 8 + i] = T[i]
    BY <1>3, <1>4
  <2>2. PICK k \in Nat : k = d + 8
    BY <1>1
  <2>3. k + 7 <= Len(c)
    BY <1>1, <1>7, <2>2
  <2>4. 7 = Len(T) /\ T \in Seq(Octet) /\ \A i \in 1..7 : c[k + i] = T[i]
    BY <1>2, <2>1, <2>2
  <2>5. SubSeq(c, k + 1, k + 7) = T
    BY <2>3, <2>4, PieceIs
  <2> QED
    BY <2>2, <2>5
<1>10. SubSeq(c, d + 15 + 1, d + 15 + 7) = L
  <2>1. \A i \in 1..7 : c[d + 15 + i] = L[i]
    BY <1>3, <1>4
  <2>2. PICK k \in Nat : k = d + 15
    BY <1>1
  <2>3. k + 7 <= Len(c)
    BY <1>1, <1>7, <2>2
  <2>4. 7 = Len(L) /\ L \in Seq(Octet) /\ \A i \in 1..7 : c[k + i] = L[i]
    BY <1>2, <2>1, <2>2
  <2>5. SubSeq(c, k + 1, k + 7) = L
    BY <2>3, <2>4, PieceIs
  <2> QED
    BY <2>2, <2>5
<1>11. Ceil(c[7], 2) = d
  BY <1>6
<1> HIDE DEF n
<1>12. AddressEnd(c, 7) = d + 9
  <2>1. AddressEnd(c, 7) = 7 + 2 + d
    BY <1>11 DEF AddressEnd
  <2> QED
    BY <1>1, <2>1
<1>13. HasAddress(c, 7)
  BY <1>1, <1>7, <1>12 DEF HasAddress
<1>14. Address(c, 7) = dest
  <2> DEFINE digits == OctetDigits(Span(c, 7 + 2, Ceil(c[7], 2)))
  <2>1. Span(c, 7 + 2, d) = D
    <3>1. 7 + 2 + d - 1 = 8 + d /\ 7 + 2 = 8 + 1
      BY <1>1
    <3> QED
      BY <1>8, <3>1 DEF Span
  <2>2. digits = dest
    BY <1>1, <1>11, <2>1
  <2> HIDE DEF digits
  <2>3. Address(c, 7) = SubSeq(digits, 1, IF c[7] < Len(digits) THEN c[7] ELSE Len(digits))
    BY DEF Address, digits
  <2>4. Address(c, 7) = SubSeq(dest, 1, Len(dest))
    BY <1>6, <2>2, <2>3 DEF n
  <2> QED
    BY <2>4
<1>15. Span(c, d + 9, 7) = T /\ Span(c, d + 9 + 7, 7) = L
  <2>1. d + 9 + 7 - 1 = d + 8 + 7 /\ d + 9 = d + 8 + 1
    BY <1>1
  <2>2. d + 9 + 7 + 7 - 1 = d + 15 + 7 /\ d + 9 + 7 = d + 15 + 1
    BY <1>1
  <2>3. Span(c, d + 9, 7) = T
    BY <1>9, <2>1 DEF Span
  <2> QED
    BY <1>10, <2>2, <2>3 DEF Span
<1>16. DecodeStatusReport(c, 5) = DecodeParameters(ReportMessage(c, reference, dest), c, d + 24)
  <2>1. 5 + 2 = 7 /\ 5 + 1 = 6 /\ d + 9 + 14 = d + 23 /\ d + 9 + 15 = d + 24
    BY <1>1
  <2>2. d + 9 + 14 <= Len(c)
    BY <1>1, <1>7
  <2>3. DecodeStatusReport(c, 5) =
          DecodeParameters(
            [NoMessage EXCEPT
               !.is_status_report = TRUE, !.service_center = ServiceCenter(c),
               !.message_reference = c[6], !.peer_address = Address(c, 7),
               !.service_timestamp = OctetDigits(Span(c, d + 9, 7)),
               !.discharge_time = OctetDigits(Span(c, d + 9 + 7, 7)),
               !.tp_status = c[d + 23]], c, d + 24)
    BY <1>12, <1>13, <2>1, <2>2 DEF DecodeStatusReport
  <2> QED
    BY <1>1, <1>2, <1>6, <1>14, <1>15, <2>3 DEF ReportMessage
<1>17. c # <<>> /\ ~(c[1] + 2 > Len(c)) /\ c[1] + 2 = 5 /\ c[5] % 4 = 2
  BY <1>1, <1>6, <1>7, EmptySeq
<1> QED
  BY <1>16, <1>17, DecodeOctets

\* With less of it, it is refused.
LEMMA ReportCut ==
  ASSUME NEW r, NEW reference \in Octet, NEW dest \in Seq(0..9), NEW d, NEW c \in Seq(Octet),
         d = Ceil(Len(dest), 2), ReportAt(r, reference, dest, d), Len(c) < d + 23,
         \A i \in 1..Len(c) : c[i] = r[i]
  PROVE  Decode(BytesToHex(c)).ec # "Ok"
<1> SUFFICES ASSUME Decode(BytesToHex(c)).ec = "Ok"
             PROVE  FALSE
  OBVIOUS
<1>1. Len(c) \in Nat /\ Len(dest) \in Nat /\ Len(c) < d + 23
  OBVIOUS
<1>2. d \in Nat
  BY <1>1 DEF Ceil
<1>3. r[1] = 3 /\ r[5] = 2 /\ r[7] = Len(dest)
  BY DEF ReportAt
<1>4. c # <<>> /\ ~(c[1] + 2 > Len(c))
  BY DecodeOctets, NotDecoded
<1>5. c[1] = 3 /\ 5 <= Len(c)
  <2>1. 1 \in 1..Len(c)
    BY <1>1, <1>4, EmptySeq
  <2>2. c[1] = 3
    BY <1>3, <2>1
  <2> QED
    BY <1>1, <1>4, <2>2
<1>6. c[5] = 2
  BY <1>1, <1>3, <1>5
<1>7. Decode(BytesToHex(c)) = DecodeStatusReport(c, 5)
  <2>1. c[1] + 2 = 5 /\ c[5] % 4 = 2
    BY <1>5, <1>6
  <2> QED
    BY <1>4, <2>1, DecodeOctets
<1>8. HasAddress(c, 7) /\ AddressEnd(c, 7) + 14 <= Len(c)
  <2>1. 5 + 2 = 7
    OBVIOUS
  <2>2. ~(HasAddress(c, 7) /\ AddressEnd(c, 7) + 14 <= Len(c))
          => DecodeStatusReport(c, 5) = DecodeError("DecodeFailure")
    BY <2>1 DEF DecodeStatusReport
  <2> QED
    BY <1>7, <2>2, NotDecoded
<1>9. 7 \in 1..Len(c)
  BY <1>1, <1>8 DEF HasAddress
<1>10. AddressEnd(c, 7) = 7 + 2 + d
  BY <1>3, <1>9 DEF AddressEnd
<1> QED
  BY <1>1, <1>2, <1>8, <1>10

\* The parameters that a report may have; with the last ones goes an 'a'.
AllParameters == {<<>>, <<0>>, <<7, 0, 0, 1, 97>>}

LEMMA ParametersTyped ==
  ASSUME NEW ps \in AllParameters
  PROVE  ps \in Seq(Octet) /\ Len(ps) \in Nat /\ (Len(ps) > 1 => ps = <<7, 0, 0, 1, 97>>)
<1>1. CASE ps = <<>>
  BY <1>1, EmptySeq
<1>2. CASE ps = <<0>>
  <2>1. 0 \in Octet
    BY DEF Octet
  <2>2. ps \in Seq(Octet) /\ Len(ps) = 1
    BY <1>2, <2>1
  <2> QED
    BY <2>2
<1>3. CASE ps = <<7, 0, 0, 1, 97>>
  <2>1. 0 \in Octet /\ 1 \in Octet /\ 7 \in Octet /\ 97 \in Octet
    BY DEF Octet
  <2>2. ps \in Seq(Octet) /\ Len(ps) = 5
    BY <1>3, <2>1
  <2> QED
    BY <1>3, <2>2
<1> QED
  BY <1>1, <1>2, <1>3 DEF AllParameters

LEMMA LetterRead ==
  ASSUME NEW ud, Len(ud) = 1
  PROVE  UserText("gsm7", ud, 1, 0).ec = "Ok"
<1>1. Ceil(7 * 1, 8) = 1 /\ UdhSeptets(0) = 0
  BY DEF Ceil, UdhSeptets
<1> QED
  BY <1>1 DEF UserText, Gsm7ToUtf8, Ok

LEMMA IndicatorBits ==
  /\ Bit(0, 0) = 0 /\ Bit(0, 1) = 0 /\ Bit(0, 2) = 0
  /\ Bit(7, 0) = 1 /\ Bit(7, 1) = 1 /\ Bit(7, 2) = 1
<1>1. 2^0 = 1 /\ 2^1 = 2 /\ 2^2 = 4
  OBVIOUS
<1> QED
  BY <1>1 DEF Bit

LEMMA ReportWhole ==
  ASSUME NEW reference \in Octet, NEW dest \in Seq(0..9), Len(dest) < 256, NEW ps \in AllParameters
  PROVE  IsReport(Decode(BytesToHex(ReportOctets(reference, dest) \o ps)), reference, dest)
<1> DEFINE r == ReportOctets(reference, dest)
           d == Ceil(Len(dest), 2)
           b == r \o ps
           m == ReportMessage(b, reference, dest)
<1>1. ps \in Seq(Octet) /\ ReportAt(r, reference, dest, d)
  <2>1. ps \in Seq(Octet)
    BY ParametersTyped
  <2> QED
    BY <2>1, ReportWritten
<1>2. d \in Nat /\ r \in Seq(Octet) /\ Len(r) = d + 23
  <2>1. Len(dest) \in Nat
    OBVIOUS
  <2>2. d \in Nat
    BY <2>1 DEF Ceil
  <2> HIDE DEF r, d
  <2> QED
    BY <1>1, <2>2 DEF ReportAt
<1> HIDE DEF r
<1>3. /\ b \in Seq(Octet) /\ Len(b) = Len(r) + Len(ps) /\ (\A i \in 1..Len(r) : b[i] = r[i])
      /\ \A i \in 1..Len(ps) : b[Len(r) + i] = ps[i]
  <2>1. r \in Seq(Octet) /\ ps \in Seq(Octet)
    BY <1>1, <1>2
  <2> QED
    BY ONLY <2>1, JoinedAt
<1> HIDE DEF b
<1>4. Len(b) = d + 23 + Len(ps) /\ \A i \in 1..Len(ps) : b[d + 23 + i] = ps[i]
  BY <1>2, <1>3
<1>5. Decode(BytesToHex(b)) = DecodeParameters(m, b, d + 24)
  <2>1. Len(b) >= d + 23
    BY <1>1, <1>2, <1>4
  <2>2. \A i \in 1..(d + 23) : b[i] = r[i]
    BY <1>2, <1>3
  <2>3. d = Ceil(Len(dest), 2)
    OBVIOUS
  <2> HIDE DEF d
  <2> QED
    <3>1. ReportAt(r, reference, dest, d)
      BY <1>1
    <3>2. b \in Seq(Octet)
      BY <1>3
    <3>3. DecodeParameters(m, b, d + 24) = DecodeParameters(ReportMessage(b, reference, dest), b, d + 24)
      OBVIOUS
    <3>4. Decode(BytesToHex(b)) = DecodeParameters(ReportMessage(b, reference, dest), b, d + 24)
      BY <2>1, <2>2, <2>3, <3>1, <3>2, ReportFields
    <3> QED
      BY <3>3, <3>4
<1>6. \A coding, data :
        /\ IsReport(m, reference, dest)
        /\ IsReport([m EXCEPT !.coding = coding], reference, dest)
        /\ IsReport([m EXCEPT !.coding = coding, !.user_data = data], reference, dest)
  BY ReportMessageIs
<1> HIDE DEF m, d
<1> DEFINE i == d + 24
<1>7. IsReport(DecodeParameters(m, b, i), reference, dest)
  <2>1. CASE ps = <<>>
    <3>1. i > Len(b)
      BY <1>2, <1>4, <2>1
    <3>2. DecodeParameters(m, b, i) = m
      BY <3>1 DEF DecodeParameters
    <3> QED
      BY <1>6, <3>2
  <2>2. CASE ps = <<0>>
    <3>1. Len(ps) = 1 /\ 1 \in 1..1 /\ ps[1] = 0
      BY <2>2
    <3>2. Len(b) = i /\ b[i] = 0
      <4>1. d + 23 + 1 = i
        BY <1>2
      <4> QED
        BY <1>4, <3>1, <4>1
    <3>3. i \in Nat
      BY <1>2
    <3> HIDE DEF i
    <3>4. ~(i > Len(b)) /\ ~((i + 1) - 1 > Len(b))
      BY <3>2, <3>3
    <3>5. DecodeParameters(m, b, i) = [m EXCEPT !.coding = m.coding]
      BY <3>2, <3>4, IndicatorBits DEF DecodeParameters
    <3> QED
      BY <1>6, <3>5
  <2>3. CASE ps = <<7, 0, 0, 1, 97>>
    <3>1. /\ Len(ps) = 5 /\ 1 \in 1..5 /\ 3 \in 1..5 /\ 4 \in 1..5
          /\ ps[1] = 7 /\ ps[3] = 0 /\ ps[4] = 1
      BY <2>3
    <3>2. i \in Nat /\ d + 23 + 1 = i /\ d + 23 + 3 = i + 2 /\ d + 23 + 4 = i + 3
      BY <1>2
    <3>3. Len(b) = i + 4 /\ b[i] = 7 /\ b[i + 2] = 0 /\ b[i + 3] = 1
      BY <1>2, <1>4, <3>1, <3>2
    <3> HIDE DEF i
    <3>4. ~(i > Len(b)) /\ i + 2 + 1 = i + 3 /\ ~(i + 3 > Len(b)) /\ i + 3 + 1 = i + 4
      BY <3>2, <3>3
    <3> DEFINE ud == SubSeq(b, i + 4, Len(b))
               text == UserText("gsm7", ud, 1, 0)
    <3>5. Len(ud) = 1
      <4>1. i + 4 \in 1..Len(b) /\ Len(b) = i + 4
        BY <3>2, <3>3
      <4>2. b \in Seq(Octet)
        BY <1>3
      <4> QED
        BY ONLY <4>1, <4>2
    <3> HIDE DEF ud
    <3>6. text.ec = "Ok"
      BY <3>5, LetterRead
    <3>7. CodingOf(b[i + 2]) = "gsm7"
      BY <3>3 DEF CodingOf, Gsm7Bit
    <3> HIDE DEF text
    <3>8. DecodeParameters(m, b, i) = [m EXCEPT !.coding = b[i + 2], !.user_data = text.out]
      BY <3>3, <3>4, <3>6, <3>7, IndicatorBits DEF DecodeParameters, text, ud
    <3>9. IsReport([m EXCEPT !.coding = b[i + 2], !.user_data = text.out], reference, dest)
      BY <1>6
    <3> QED
      BY <3>8, <3>9
  <2> QED
    BY <2>1, <2>2, <2>3 DEF AllParameters
<1> QED
  BY <1>5, <1>7 DEF b, r

\* A part of a report is read only when just the parameters are missing.
LEMMA ReportPart ==
  ASSUME NEW reference \in Octet, NEW dest \in Seq(0..9), Len(dest) < 256, NEW ps \in AllParameters,
         NEW b, b = ReportOctets(reference, dest) \o ps, NEW n \in 0..(2 * Len(b) - 1),
         Decode(SubSeq(BytesToHex(b), 1, n)).ec = "Ok"
  PROVE  SubSeq(BytesToHex(b), 1, n) = BytesToHex(ReportOctets(reference, dest))
<1> DEFINE r == ReportOctets(reference, dest)
           d == Ceil(Len(dest), 2)
           hex == SubSeq(BytesToHex(b), 1, n)
<1>1. ps \in Seq(Octet) /\ ReportAt(r, reference, dest, d)
  <2>1. ps \in Seq(Octet)
    BY ParametersTyped
  <2> QED
    BY <2>1, ReportWritten
<1>2. d \in Nat /\ r \in Seq(Octet) /\ Len(r) = d + 23
  <2>1. Len(dest) \in Nat
    OBVIOUS
  <2>2. d \in Nat
    BY <2>1 DEF Ceil
  <2> HIDE DEF r, d
  <2> QED
    BY <1>1, <2>2 DEF ReportAt
<1>3. b = r \o ps
  OBVIOUS
<1> HIDE DEF r
<1>4. /\ b \in Seq(Octet) /\ Len(b) = Len(r) + Len(ps) /\ (\A i \in 1..Len(r) : b[i] = r[i])
      /\ \A i \in 1..Len(ps) : b[Len(r) + i] = ps[i]
  <2>1. r \in Seq(Octet) /\ ps \in Seq(Octet)
    BY <1>1, <1>2
  <2> QED
    BY ONLY <1>3, <2>1, JoinedAt
<1>5. PICK k \in 1..(Len(b) - 1) : hex = BytesToHex(SubSeq(b, 1, k))
  <2> HIDE DEF hex
  <2>1. hex = SubSeq(BytesToHex(b), 1, n) /\ Decode(hex).ec = "Ok"
    BY DEF hex
  <2> QED
    BY <1>4, <2>1, CutToOctets
<1> DEFINE c == SubSeq(b, 1, k)
<1>6. Len(b) \in Nat /\ k \in Nat /\ k < Len(b) /\ Len(ps) \in Nat
  BY <1>1, <1>4
<1>7. c \in Seq(Octet) /\ Len(c) = k /\ (\A i \in 1..k : c[i] = b[i])
  <2>1. k \in 0..Len(b)
    BY <1>6
  <2> QED
    BY <1>4, <2>1, HexCut
<1>8. Decode(BytesToHex(c)).ec = "Ok"
  BY <1>5
<1> HIDE DEF hex
<1>9. ~(k < d + 23)
  <2>1. ASSUME k < d + 23 PROVE FALSE
    <3> HIDE DEF c
    <3>1. Len(c) < d + 23
      BY <1>7, <2>1
    <3>2. \A i \in 1..Len(c) : c[i] = r[i]
      <4>1. \A i \in 1..Len(c) : i \in 1..k /\ i \in 1..Len(r)
        <5> HIDE DEF d
        <5> QED
          BY <1>2, <1>6, <1>7, <2>1
      <4> QED
        BY <1>4, <1>7, <4>1
    <3>3. d = Ceil(Len(dest), 2)
      OBVIOUS
    <3> HIDE DEF d
    <3> QED
      BY <1>1, <1>7, <1>8, <3>1, <3>2, <3>3, ReportCut
  <2> QED
    BY <2>1
<1>10. CASE k = d + 23
  <2>1. c = r
    <3> HIDE DEF c, d
    <3>1. Len(c) = Len(r) /\ \A i \in 1..Len(c) : c[i] = r[i]
      BY <1>2, <1>4, <1>7, <1>10
    <3> QED
      BY <1>2, <1>7, <3>1, SeqEqual
  <2> QED
    BY <1>5, <2>1 DEF r, hex
<1>11. CASE k # d + 23
  <2> DEFINE m == ReportMessage(c, reference, dest)
             i == d + 24
  <2>1. Decode(BytesToHex(c)) = DecodeParameters(m, c, i)
    <3> HIDE DEF c, d
    <3>1. Len(c) >= d + 23
      BY <1>2, <1>6, <1>7, <1>9
    <3>2. \A j \in 1..(d + 23) : c[j] = r[j]
      <4>1. \A j \in 1..(d + 23) : j \in 1..k /\ j \in 1..Len(r)
        BY <1>2, <1>6, <1>9
      <4> QED
        BY <1>4, <1>7, <4>1
    <3>3. d = Ceil(Len(dest), 2)
      BY DEF d
    <3> QED
      <4>1. ReportAt(r, reference, dest, d)
        BY <1>1 DEF d
      <4>2. c \in Seq(Octet)
        BY <1>7
      <4>3. Decode(BytesToHex(c)) = DecodeParameters(ReportMessage(c, reference, dest), c, d + 24)
        BY <3>1, <3>2, <3>3, <4>1, <4>2, ReportFields
      <4> QED
        BY <4>3
  <2> HIDE DEF c, d, m
  <2>2. i \in Nat /\ i <= k /\ k < d + 23 + Len(ps)
    BY <1>2, <1>4, <1>6, <1>9, <1>11
  <2>3. ps = <<7, 0, 0, 1, 97>>
    <3>1. Len(ps) > 1
      BY <1>2, <1>6, <2>2
    <3> QED
      BY <3>1, ParametersTyped
  <2>4. /\ Len(ps) = 5 /\ 1 \in 1..5 /\ 3 \in 1..5 /\ 4 \in 1..5
        /\ ps[1] = 7 /\ ps[3] = 0 /\ ps[4] = 1
    BY <2>3
  <2>5. d + 23 + 1 = i /\ d + 23 + 3 = i + 2 /\ d + 23 + 4 = i + 3
    BY <1>2
  <2>6. b[i] = 7 /\ b[i + 2] = 0 /\ b[i + 3] = 1
    <3>1. \A j \in 1..5 : b[d + 23 + j] = ps[j]
      BY <1>2, <1>4, <2>4
    <3>2. b[d + 23 + 1] = 7 /\ b[d + 23 + 3] = 0 /\ b[d + 23 + 4] = 1
      BY <2>4, <3>1
    <3> HIDE DEF i
    <3> QED
      BY <2>5, <3>2
  <2>7. k <= i + 3
    BY <1>2, <2>2, <2>4
  <2> HIDE DEF i
  <2>8. c[i] = 7 /\ ~(i > Len(c)) /\ i + 2 + 1 = i + 3
    <3>1. i \in 1..k
      BY <1>2, <2>2 DEF i
    <3> QED
      BY <1>7, <2>2, <2>6, <3>1
  <2>9. CASE k < i + 3
    <3>1. i + 3 > Len(c)
      BY <1>7, <2>2, <2>9
    <3>2. DecodeParameters(m, c, i) = DecodeError("DecodeFailure")
      BY <2>8, <3>1, IndicatorBits DEF DecodeParameters
    <3> QED
      BY <1>8, <2>1, <3>2, NotDecoded
  <2>10. CASE k = i + 3
    <3>1. c[i + 2] = 0 /\ c[i + 3] = 1 /\ ~(i + 3 > Len(c))
      <4>1. i + 2 \in 1..k /\ i + 3 \in 1..k
        BY <2>2, <2>10
      <4> QED
        BY <1>7, <2>2, <2>6, <2>10, <4>1
    <3> DEFINE ud == SubSeq(c, i + 3 + 1, Len(c))
    <3>2. ud = <<>>
      <4>1. i + 3 + 1 > Len(c) /\ i + 3 + 1 \in Nat /\ Len(c) \in Nat
        BY <1>7, <2>2, <2>10
      <4> QED
        BY ONLY <1>7, <4>1
    <3>3. UserText("gsm7", <<>>, 1, 0) = Fails("DecodeFailure")
      <4>1. Ceil(7 * 1, 8) = 1 /\ Len(<<>>) = 0
        BY DEF Ceil
      <4> QED
        BY <4>1 DEF UserText
    <3> DEFINE text == UserText(CodingOf(c[i + 2]), ud, c[i + 3], 0)
    <3>4. text.ec = "DecodeFailure"
      <4>1. CodingOf(c[i + 2]) = "gsm7"
        BY <3>1 DEF CodingOf, Gsm7Bit
      <4> HIDE DEF ud
      <4> QED
        BY <3>1, <3>2, <3>3, <4>1 DEF Fails
    <3> HIDE DEF text
    <3>5. DecodeParameters(m, c, i) = DecodeError(text.ec)
      BY <2>8, <3>1, <3>4, IndicatorBits DEF DecodeParameters, text
    <3> QED
      BY <1>8, <2>1, <3>4, <3>5, NotDecoded
  <2> QED
    BY <1>6, <2>2, <2>7, <2>9, <2>10
<1> QED
  BY <1>10, <1>11

-----------------------------------------------------------------------------
(***************************************************************************)
(* What is in the air, and what was read of it.                            *)
(***************************************************************************)
Kinds == {"submit", "deliver", "report", "phone"}

\* The PDUs a part travels as, before any is cut.
WholeOf(kind, part) ==
  IF kind = "submit" THEN {call.lines[part]}
  ELSE IF kind = "deliver" THEN {Delivered(call.lines[part], sri) : sri \in {0, 1}}
  ELSE IF kind = "report" THEN {ReportPdu(part, ps) : ps \in AllParameters}
  ELSE {PhonePdu(part)}

Carries(e) ==
  /\ DOMAIN e = {"kind", "part", "hex", "cut"}
  /\ e.kind \in Kinds /\ e.cut \in BOOLEAN
  /\ IF e.kind = "phone" THEN e.part \in Phones ELSE e.part \in DOMAIN call.lines
  /\ e.kind = "report" => Len(call.args.destination) < 256
  /\ \E hex \in WholeOf(e.kind, e.part) :
       IF e.cut THEN \E n \in 0..(Len(hex) - 1) : e.hex = SubSeq(hex, 1, n) ELSE e.hex = hex

\* The only PDU in the air carries a part of the call, or is another phone's.
AirInv ==
  /\ air \in Seq({air[i] : i \in DOMAIN air})
  /\ Len(air) = 1 => Carries(air[1])

\* What a call filled was read from the PDUs that are still there.
ReadInv ==
  \/ read = NotRead
  \/ read.fn = "list" /\ air # <<>> /\ ~air[1].cut
  \/ /\ Len(air) = 1
     /\ LET m == Decode(air[1].hex)
        IN \/ read = [fn |-> "decode", status |-> MapError(m.ec),
                      out |-> IF m.ec = "Ok" THEN <<FillMessage(m)>> ELSE <<>>]
           \/ read = [fn |-> "report", status |-> MapError(ReportError(m)),
                      out |-> IF ReportError(m) = "Ok" THEN <<FillStatusReport(m)>> ELSE <<>>]

\* Any value appended to a sequence of its own values is one, too.
LEMMA AppendedSeq ==
  ASSUME NEW s, s \in Seq({s[i] : i \in DOMAIN s}), NEW e, NEW t, t = Append(s, e)
  PROVE  /\ t \in Seq({t[i] : i \in DOMAIN t}) /\ Len(t) = Len(s) + 1 /\ Len(s) \in Nat
         /\ Len(t) = 1 => t[1] = e /\ s = <<>>
<1> DEFINE S == {s[i] : i \in DOMAIN s} \union {e}
<1>1. s \in Seq(S)
  <2>1. s \in [1..Len(s) -> {s[i] : i \in DOMAIN s}] /\ Len(s) \in Nat
    OBVIOUS
  <2>2. s \in [1..Len(s) -> S]
    BY <2>1
  <2> QED
    BY <2>1, <2>2
<1> HIDE DEF S
<1>2. e \in S
  BY DEF S
<1>3. t \in Seq(S) /\ Len(t) = Len(s) + 1 /\ Len(s) \in Nat /\ t[Len(s) + 1] = e
  BY <1>1, <1>2
<1> DEFINE R == {t[i] : i \in DOMAIN t}
<1>4. \A i \in 1..Len(t) : t[i] \in R
  <2>1. DOMAIN t = 1..Len(t)
    BY <1>3
  <2> QED
    BY <2>1
<1>5. t \in Seq(R)
  <2> HIDE DEF R
  <2> QED
    BY <1>3, <1>4
<1>6. Len(t) = 1 => t[1] = e /\ s = <<>>
  <2>1. Len(t) = 1 => Len(s) = 0
    BY <1>3
  <2> QED
    BY <1>1, <1>3, <2>1
<1> QED
  BY <1>3, <1>5, <1>6

\* A PDU put into the air that is empty carries what it was put for.
LEMMA PutCarries ==
  ASSUME NEW kind \in Kinds, NEW part, NEW hex, Put(kind, part, hex), AirInv,
         Len(air) = 0 =>
           /\ IF kind = "phone" THEN part \in Phones ELSE part \in DOMAIN call.lines
           /\ kind = "report" => Len(call.args.destination) < 256
           /\ hex \in WholeOf(kind, part)
  PROVE  AirInv'
<1> DEFINE e == [kind |-> kind, part |-> part, hex |-> hex, cut |-> FALSE]
<1>1. air' = Append(air, e) /\ call' = call
  BY DEF Put
<1>2. air \in Seq({air[i] : i \in DOMAIN air})
  BY DEF AirInv
<1>3. e.kind = kind /\ e.part = part /\ e.hex = hex /\ e.cut = FALSE
  OBVIOUS
<1>4. DOMAIN e = {"kind", "part", "hex", "cut"}
  OBVIOUS
<1> HIDE DEF e
<1>5. /\ air' \in Seq({air'[i] : i \in DOMAIN air'}) /\ Len(air') = Len(air) + 1 /\ Len(air) \in Nat
      /\ Len(air') = 1 => air'[1] = e /\ air = <<>>
  BY <1>1, <1>2, AppendedSeq
<1>6. ASSUME Len(air') = 1 PROVE Carries(air[1])'
  <2>1. Len(air) = 0 /\ air'[1] = e
    BY <1>5, <1>6
  <2>2. WholeOf(e.kind, e.part)' = WholeOf(e.kind, e.part)
    BY <1>1, <1>3 DEF WholeOf, ReportPdu
  <2>3. Carries(e)
    BY <1>3, <1>4, <2>1 DEF Carries
  <2>4. e' = e
    BY DEF e
  <2>5. Carries(e)'
    BY <1>1, <2>2, <2>3, <2>4 DEF Carries
  <2> QED
    BY <2>1, <2>4, <2>5 DEF Carries
<1> QED
  BY <1>5, <1>6 DEF AirInv

\* Cutting leaves a beginning of what was put there.
LEMMA CutCarries ==
  ASSUME AirInv, Cut
  PROVE  AirInv'
<1>1. PICK n \in 0..(Len(air[1].hex) - 1) :
        air' = <<[air[1] EXCEPT !.cut = TRUE, !.hex = SubSeq(@, 1, n)]>>
  BY DEF Cut
<1> DEFINE e == air[1]
           f == [e EXCEPT !.cut = TRUE, !.hex = SubSeq(@, 1, n)]
<1>2. Len(air) = 1 /\ ~e.cut /\ call' = call
  BY DEF Cut
<1>3. Carries(e)
  BY <1>2 DEF AirInv
<1>4. DOMAIN e = {"kind", "part", "hex", "cut"}
  BY <1>3 DEF Carries
<1>5. air' = <<f>> /\ n \in 0..(Len(e.hex) - 1)
  BY <1>1
<1>6. /\ DOMAIN f = {"kind", "part", "hex", "cut"} /\ f.kind = e.kind /\ f.part = e.part
      /\ f.hex = SubSeq(e.hex, 1, n) /\ f.cut = TRUE
  BY <1>4
<1> HIDE DEF e, f
<1>7. Carries(f)
  <2>1. PICK hex \in WholeOf(e.kind, e.part) : e.hex = hex
    BY <1>2, <1>3 DEF Carries
  <2> QED
    BY <1>3, <1>5, <1>6, <2>1 DEF Carries
<1>8. PICK g : g = f
  OBVIOUS
<1>9. air' = <<g>> /\ Carries(g)
  BY <1>5, <1>7, <1>8
<1>10. WholeOf(g.kind, g.part)' = WholeOf(g.kind, g.part)
  BY <1>2 DEF WholeOf, ReportPdu
<1>11. air'[1] = g /\ Len(air') = 1 /\ DOMAIN air' = {1} /\ air' \in Seq({air'[i] : i \in DOMAIN air'})
  <2>1. air'[1] = g /\ Len(air') = 1 /\ DOMAIN air' = {1}
    BY <1>9
  <2>2. {air'[i] : i \in DOMAIN air'} = {g}
    BY <2>1
  <2>3. air' \in Seq({g})
    BY <1>9
  <2> QED
    BY <2>1, <2>2, <2>3
<1>12. Carries(air[1])'
  BY <1>2, <1>9, <1>10, <1>11 DEF Carries
<1> QED
  BY <1>11, <1>12 DEF AirInv

\* What the encode calls, the network and the receiver do to both.
LEMMA AirInvHolds ==
  Spec => [](AirInv /\ ReadInv)
<1>1. Init => AirInv /\ ReadInv
  <2> SUFFICES ASSUME Init PROVE AirInv /\ ReadInv
    OBVIOUS
  <2>1. air = <<>> /\ Len(air) = 0 /\ read = NotRead
    BY DEF Init
  <2>2. air \in Seq({air[i] : i \in DOMAIN air})
    BY <2>1
  <2> QED
    BY <2>1, <2>2 DEF AirInv, ReadInv
<1>2. AirInv /\ ReadInv /\ [Next]_vars => (AirInv /\ ReadInv)'
  <2> SUFFICES ASSUME AirInv, ReadInv, [Next]_vars
               PROVE  (AirInv /\ ReadInv)'
    OBVIOUS
  <2>1. air = <<>> => read = NotRead /\ Len(air) = 0
    BY DEF ReadInv
  <2>2. read = NotRead /\ UNCHANGED read => ReadInv'
    BY DEF ReadInv
  <2>3. air = <<>> /\ UNCHANGED air => AirInv'
    BY <2>1 DEF AirInv
  <2>4. CASE CtPduEncodeSubmitSegmentsEx \/ CtPduEncodeSubmitEx
    <3>1. air = <<>> /\ UNCHANGED <<air, read>>
      BY <2>4 DEF CtPduEncodeSubmitSegmentsEx, CtPduEncodeSubmitEx, EncodeInto
    <3> QED
      BY <2>1, <2>2, <2>3, <3>1
  <2>5. CASE Transfer
    <3>1. PICK i \in DOMAIN call.lines : Put("submit", i, call.lines[i])
      BY <2>5 DEF Transfer
    <3>2. call.lines[i] \in WholeOf("submit", i) /\ "submit" \in Kinds
      BY DEF WholeOf, Kinds
    <3>3. AirInv'
      BY <3>1, <3>2, PutCarries
    <3>4. air = <<>> /\ UNCHANGED read
      BY <2>5, <3>1 DEF Transfer, Put
    <3> QED
      BY <2>1, <2>2, <3>3, <3>4
  <2>6. CASE Deliver
    <3>1. PICK i \in DOMAIN call.lines, sri \in {0, 1} : Put("deliver", i, Delivered(call.lines[i], sri))
      BY <2>6 DEF Deliver
    <3>2. Delivered(call.lines[i], sri) \in WholeOf("deliver", i) /\ "deliver" \in Kinds
      BY DEF WholeOf, Kinds
    <3>3. AirInv'
      BY <3>1, <3>2, PutCarries
    <3>4. read = NotRead /\ UNCHANGED read
      BY <2>6, <3>1 DEF Deliver, Fresh, Put
    <3> QED
      BY <2>2, <3>3, <3>4
  <2>7. CASE Report
    <3>1. PICK i \in DOMAIN call.lines, ps \in AllParameters :
            Len(call.args.destination) < 256 /\ Put("report", i, ReportPdu(i, ps))
      BY <2>7 DEF Report, AllParameters
    <3>2. ReportPdu(i, ps) \in WholeOf("report", i) /\ "report" \in Kinds
      BY DEF WholeOf, Kinds
    <3>3. AirInv'
      BY <3>1, <3>2, PutCarries
    <3>4. air = <<>> /\ UNCHANGED read
      BY <2>7, <3>1 DEF Report, Put
    <3> QED
      BY <2>1, <2>2, <3>3, <3>4
  <2>8. CASE OtherPhone
    <3>1. PICK p \in Phones : Put("phone", p, PhonePdu(p))
      BY <2>8 DEF OtherPhone
    <3>2. PhonePdu(p) \in WholeOf("phone", p) /\ "phone" \in Kinds
      BY DEF WholeOf, Kinds
    <3>3. AirInv'
      BY <3>1, <3>2, PutCarries
    <3>4. air = <<>> /\ UNCHANGED read
      BY <2>8, <3>1 DEF OtherPhone, Put
    <3> QED
      BY <2>1, <2>2, <3>3, <3>4
  <2>9. CASE Cut
    <3>1. read = NotRead /\ UNCHANGED read
      BY <2>9 DEF Cut
    <3> QED
      BY <2>2, <2>9, <3>1, CutCarries
  <2>10. ASSUME UNCHANGED <<call, air>> PROVE AirInv'
    <3>1. WholeOf(air[1].kind, air[1].part)' = WholeOf(air[1].kind, air[1].part)
      BY <2>10 DEF WholeOf, ReportPdu
    <3> QED
      BY <2>10, <3>1 DEF AirInv, Carries
  <2>11. CASE CtPduDecode
    <3>1. UNCHANGED <<call, air>> /\ Len(air) = 1
      BY <2>11 DEF CtPduDecode, Reads
    <3>2. ReadInv'
      BY <2>11, <3>1 DEF CtPduDecode, Reads, ReadInv
    <3>3. AirInv'
      BY <2>10, <3>1
    <3> QED
      BY <3>2, <3>3
  <2>12. CASE CtPduDecodeStatusReport
    <3>1. UNCHANGED <<call, air>> /\ Len(air) = 1
      BY <2>12 DEF CtPduDecodeStatusReport, Reads
    <3>2. ReadInv'
      BY <2>12, <3>1 DEF CtPduDecodeStatusReport, Reads, ReadInv
    <3> QED
      BY <2>10, <3>1, <3>2
  <2>13. CASE CtModemList
    <3>1. UNCHANGED <<call, air>> /\ air # <<>>
      BY <2>13 DEF CtModemList, Reads
    <3>2. PICK out : read' = [fn |-> "list", status |-> "CT_OK", out |-> out]
      BY <2>13 DEF CtModemList, Reads
    <3>3. ~air[1].cut
      <4>1. DOMAIN air = 1..Len(air) /\ Len(air) \in Nat
        BY DEF AirInv
      <4>2. 1 \in DOMAIN air
        BY <3>1, <4>1 DEF AirInv
      <4> QED
        BY <2>13, <4>2 DEF CtModemList
    <3>4. ReadInv'
      BY <3>1, <3>2, <3>3 DEF ReadInv
    <3> QED
      BY <2>10, <3>1, <3>4
  <2>14. CASE UNCHANGED vars
    <3>1. UNCHANGED <<call, air>> /\ UNCHANGED read
      BY <2>14 DEF vars
    <3>2. ReadInv'
      BY <3>1 DEF ReadInv
    <3> QED
      BY <2>10, <3>1, <3>2
  <2> QED
    BY <2>4, <2>5, <2>6, <2>7, <2>8, <2>9, <2>11, <2>12, <2>13, <2>14 DEF Next
<1> QED
  BY <1>1, <1>2, PTL DEF Spec

\* The status of a call is CT_OK for a decoded PDU only.
LEMMA StatusOf ==
  ASSUME NEW ec
  PROVE  /\ MapError(ec) = "CT_OK" <=> ec = "Ok"
         /\ MapError("DecodeFailure") = "CT_ERR_DECODE"
BY DEF MapError

\* The part of a call a PDU carries.
LEMMA PartOf ==
  ASSUME CallInv, NEW i \in DOMAIN call.lines
  PROVE  /\ call.args \in Requests /\ OptionsValid(call.args) /\ IsLine(call.args, call.lines[i])
         /\ i \in Octet /\ call.args.destination \in Seq(Nat)
<1>1. call.lines # <<>>
  BY EmptySeq
<1>2. call.args \in Requests /\ OptionsValid(call.args) /\ AreLines(call.args, call.lines)
  BY <1>1 DEF CallInv
<1>3. DOMAIN call.lines = 1..Len(call.lines) /\ Len(call.lines) \in Nat /\ Len(call.lines) <= 255
  BY <1>2 DEF AreLines
<1>4. IsLine(call.args, call.lines[i])
  BY <1>2, <1>3 DEF AreLines
<1>5. i \in Octet
  <2>1. PICK n : n = Len(call.lines)
    OBVIOUS
  <2>2. i \in 1..n /\ n \in Nat /\ n <= 255
    BY <1>3, <2>1
  <2> QED
    BY ONLY <2>2 DEF Octet
<1> QED
  BY <1>2, <1>4, <1>5, RequestAssumption

\* Of PDUs whose addresses fit, all that are no reports have as much user data as
\* they say.
LEMMA OthersSized ==
  ASSUME CallInv, NEW e, Carries(e), e.kind # "report", e.kind # "phone" => AddressesFit(call.args),
         NEW hex \in WholeOf(e.kind, e.part)
  PROVE  \E b : Sized(b) /\ hex = BytesToHex(b)
<1>1. CASE e.kind = "phone"
  <2>1. e.part \in Phones /\ hex = PhonePdu(e.part)
    BY <1>1 DEF Carries, WholeOf
  <2> QED
    BY <2>1, PhoneSized
<1>2. CASE e.kind # "phone"
  <2>1. e.part \in DOMAIN call.lines /\ AddressesFit(call.args)
    BY <1>2 DEF Carries
  <2>2. /\ call.args \in Requests /\ OptionsValid(call.args)
        /\ IsLine(call.args, call.lines[e.part])
    BY <2>1, PartOf
  <2>3. CASE e.kind = "submit"
    <3>1. hex = call.lines[e.part]
      BY <2>3 DEF WholeOf
    <3>2. PICK udhi \in BOOLEAN, data \in Seq(Octet) :
            WellMeasured(Coded(call.args), data) /\ hex = BytesToHex(LineOctets(call.args, udhi, data))
      BY <2>2, <3>1 DEF IsLine
    <3>3. Sized(LineOctets(call.args, udhi, data))
      BY <2>1, <2>2, <3>2, LineSized
    <3> QED
      BY <3>2, <3>3
  <2>4. CASE e.kind = "deliver"
    <3>1. PICK sri \in {0, 1} : hex = Delivered(call.lines[e.part], sri)
      BY <2>4 DEF WholeOf
    <3> QED
      BY <2>1, <2>2, <3>1, DeliveredSized
  <2> QED
    BY <1>2, <2>3, <2>4 DEF Carries, Kinds
<1> QED
  BY <1>1, <1>2

\* ct_pdu_decode_status_report takes no PDU for a report that is none, whatever
\* was sent, if the addresses fit their octets.
THEOREM ReportsOnly ==
  Spec => []OthersRefused
<1>1. CallInv /\ AirInv /\ ReadInv => OthersRefused
  <2> SUFFICES ASSUME CallInv, AirInv, ReadInv, WasRead(FALSE), read.fn = "report", air[1].kind # "report"
               PROVE  read.status = "CT_ERR_DECODE"
    BY DEF OthersRefused
  <2> DEFINE m == Decode(air[1].hex)
  <2>1. Len(air) = 1 /\ read.status = MapError(ReportError(m))
    <3>1. read # NotRead
      BY DEF WasRead, NotRead
    <3> QED
      BY <3>1 DEF ReadInv
  <2>2. Carries(air[1]) /\ air[1].cut = FALSE
    BY <2>1 DEF AirInv, WasRead
  <2>3. PICK hex \in WholeOf(air[1].kind, air[1].part) : air[1].hex = hex
    BY <2>2 DEF Carries
  <2>4. PICK b : Sized(b) /\ hex = BytesToHex(b)
    BY <2>2, OthersSized DEF WasRead
  <2>5. m.ec \in DecodeOutcomes /\ ~m.is_status_report
    BY <2>3, <2>4, DecodeWhole
  <2> HIDE DEF m
  <2>6. ReportError(m) = "DecodeFailure"
    BY <2>5 DEF ReportError, DecodeOutcomes
  <2> QED
    BY <2>1, <2>6, StatusOf
<1> QED
  BY <1>1, CallInvHolds, AirInvHolds, PTL

\* No PDU that lost its end is decoded, wherever the cut is and whatever was
\* sent; a report may look whole when it lost its parameters.
THEOREM CutsRefused ==
  Spec => []CutRejected
<1>1. CallInv /\ AirInv /\ ReadInv => CutRejected
  <2> SUFFICES ASSUME CallInv, AirInv, ReadInv, WasRead(TRUE), read.status = "CT_OK"
               PROVE  air[1].kind = "report" /\ air[1].hex = ReportPdu(air[1].part, <<>>)
    BY DEF CutRejected
  <2> DEFINE m == Decode(air[1].hex)
             e == air[1]
  <2>1. Len(air) = 1 /\ m.ec = "Ok"
    <3>1. read # NotRead /\ ~(read.fn = "list" /\ ~air[1].cut)
      BY DEF WasRead, NotRead
    <3>2. Len(air) = 1 /\ (read.status = MapError(m.ec) \/ read.status = MapError(ReportError(m)))
      BY <3>1 DEF ReadInv
    <3>3. m.ec = "Ok" \/ ReportError(m) = "Ok"
      BY <3>2, StatusOf
    <3> HIDE DEF m
    <3> QED
      BY <3>2, <3>3 DEF ReportError
  <2>2. Carries(e) /\ e.cut = TRUE
    BY <2>1 DEF AirInv, WasRead
  <2>6. PICK hex \in WholeOf(e.kind, e.part) :
          \E n \in 0..(Len(hex) - 1) : e.hex = SubSeq(hex, 1, n)
    BY <2>2 DEF Carries
  <2>3. PICK n \in 0..(Len(hex) - 1) : e.hex = SubSeq(hex, 1, n)
    BY <2>6
  <2>4. CASE e.kind # "report"
    <3>1. PICK b : Sized(b) /\ hex = BytesToHex(b)
      <4>1. e.kind # "phone" => AddressesFit(call.args)
        BY DEF WasRead
      <4> HIDE DEF e
      <4> QED
        BY <2>2, <2>4, <4>1, OthersSized
    <3>2. Len(hex) = 2 * Len(b)
      <4>1. b \in Seq(Nat)
        BY <3>1, OctetsAreNumbers DEF Sized
      <4> QED
        BY <3>1, <4>1, HexWritten
    <3>3. Decode(SubSeq(hex, 1, n)).ec # "Ok"
      BY <3>1, <3>2, DecodeCut
    <3> QED
      BY <2>1, <2>3, <3>3
  <2>5. CASE e.kind = "report"
    <3> DEFINE dest == NormalizeAddressDigits(call.args.destination)
    <3>1. PICK ps \in AllParameters : hex = ReportPdu(e.part, ps)
      BY <2>5 DEF WholeOf
    <3>2. /\ e.part \in Octet /\ Len(call.args.destination) < 256
          /\ call.args.destination \in Seq(Nat)
      <4>1. e.part \in DOMAIN call.lines /\ Len(call.args.destination) < 256
        BY <2>2, <2>5 DEF Carries
      <4> QED
        BY <4>1, PartOf
    <3>3. dest \in Seq(0..9) /\ Len(dest) < 256
      <4>1. Len(call.args.destination) \in Nat
        BY <3>2
      <4> QED
        BY <3>2, <4>1, DigitsOnly
    <3>4. ps \in Seq(Octet)
      BY ParametersTyped
    <3> DEFINE b == ReportOctets(e.part, dest) \o ps
    <3>5. hex = BytesToHex(b) /\ ReportPdu(e.part, <<>>) = BytesToHex(ReportOctets(e.part, dest))
      BY <3>1, <3>2, <3>4, ReportParameters
    <3>6. Len(hex) = 2 * Len(b)
      <4>1. ReportOctets(e.part, dest) \in Seq(Octet)
        BY <3>2, <3>3, ReportWritten DEF ReportAt
      <4>2. b \in Seq(Octet)
        <5> HIDE DEF dest, e
        <5> QED
          BY <3>4, <4>1
      <4>3. b \in Seq(Nat)
        <5> HIDE DEF b
        <5> QED
          BY <4>2, OctetsAreNumbers
      <4> QED
        BY <3>5, <4>3, HexWritten
    <3>7. SubSeq(BytesToHex(b), 1, n) = BytesToHex(ReportOctets(e.part, dest))
      <4>1. n \in 0..(2 * Len(b) - 1)
        BY <3>6
      <4>2. Decode(SubSeq(BytesToHex(b), 1, n)).ec = "Ok"
        BY <2>1, <2>3, <3>5
      <4>3. b = ReportOctets(e.part, dest) \o ps
        OBVIOUS
      <4> HIDE DEF dest, e, b
      <4> QED
        BY <3>2, <3>3, <4>1, <4>2, <4>3, ReportPart
    <3> QED
      BY <2>3, <2>5, <3>5, <3>7
  <2> QED
    BY <2>4, <2>5
<1> QED
  BY <1>1, CallInvHolds, AirInvHolds, PTL

\* ct_pdu_decode_status_report reads every report of a message whose number's
\* length fits its octet, whatever follows the status.
THEOREM ReportsRead ==
  Spec => []ReportRead
<1>1. CallInv /\ AirInv /\ ReadInv => ReportRead
  <2> SUFFICES ASSUME CallInv, AirInv, ReadInv, Uncut("report", "report")
               PROVE  /\ read.status = "CT_OK"
                      /\ read.out[1] =
                           [message_reference |-> air[1].part, tp_status |-> 48,
                            recipient_address |->
                              CopyField(NormalizeAddressDigits(call.args.destination), FieldCap),
                            service_timestamp |-> Time, discharge_time |-> Later]
    BY DEF ReportRead
  <2> DEFINE m == Decode(air[1].hex)
             part == air[1].part
             dest == NormalizeAddressDigits(call.args.destination)
  <2>1. /\ read.status = MapError(ReportError(m))
        /\ read.out = IF ReportError(m) = "Ok" THEN <<FillStatusReport(m)>> ELSE <<>>
    <3>1. read # NotRead
      BY DEF Uncut, NotRead
    <3> QED
      BY <3>1 DEF ReadInv, Uncut
  <2>2. Carries(air[1]) /\ ~air[1].cut /\ air[1].kind = "report"
    BY DEF AirInv, Uncut
  <2>3. PICK ps \in AllParameters : air[1].hex = ReportPdu(part, ps)
    BY <2>2 DEF Carries, WholeOf
  <2>4. /\ part \in Octet /\ Len(call.args.destination) < 256
        /\ call.args.destination \in Seq(Nat)
    <3>1. part \in DOMAIN call.lines /\ Len(call.args.destination) < 256
      BY <2>2 DEF Carries
    <3> QED
      BY <3>1, PartOf
  <2>5. dest \in Seq(0..9) /\ Len(dest) < 256
    <3>1. Len(call.args.destination) \in Nat
      BY <2>4
    <3> QED
      BY <2>4, <3>1, DigitsOnly
  <2>6. ps \in Seq(Octet)
    BY ParametersTyped
  <2>7. m = Decode(BytesToHex(ReportOctets(part, dest) \o ps))
    BY <2>3, <2>4, <2>6, ReportParameters
  <2> HIDE DEF m, part, dest
  <2>8. IsReport(m, part, dest)
    BY <2>4, <2>5, <2>7, ReportWhole
  <2>9. ReportError(m) = "Ok"
    BY <2>8 DEF ReportError, IsReport
  <2>10. CopyField(Time, FieldCap) = Time /\ CopyField(Later, FieldCap) = Later
    <3>1. Time \in Seq(0..9) /\ Len(Time) = 14 /\ Later \in Seq(0..9) /\ Len(Later) = 14
      BY DEF Time, Later
    <3>2. \A s \in Seq(0..9) : Len(s) = 14 => SubSeq(s, 1, 14) = s
      OBVIOUS
    <3> QED
      BY <3>1, <3>2 DEF CopyField, FieldCap
  <2>11. FillStatusReport(m) =
           [message_reference |-> part, tp_status |-> 48, recipient_address |-> CopyField(dest, FieldCap),
            service_timestamp |-> Time, discharge_time |-> Later]
    BY <2>8, <2>10 DEF FillStatusReport, IsReport
  <2> QED
    BY <2>1, <2>9, <2>11, StatusOf DEF part, dest
<1> QED
  BY <1>1, CallInvHolds, AirInvHolds, PTL

-----------------------------------------------------------------------------
(***************************************************************************)
(* The fields of a part, submitted and delivered.                          *)
(***************************************************************************)
\* An address and a service centre read as they were written.
LEMMA AddressRead ==
  ASSUME NEW b \in Seq(Octet), NEW dest \in Seq(0..9), NEW i \in Nat \ {0},
         NEW d, d = Ceil(Len(dest), 2), b[i] = Len(dest), i + 1 + d <= Len(b),
         \A j \in 1..d : b[i + 1 + j] = DigitOctets(dest)[j]
  PROVE  AddressEnd(b, i) = i + 2 + d /\ Address(b, i) = dest
<1> DEFINE D == DigitOctets(dest)
<1>1. D \in Seq(Octet) /\ Len(D) = d /\ OctetDigits(D) = dest
  BY DigitsInOctets, DigitsReadBack
<1> HIDE DEF D
<1>2. d \in Nat
  BY <1>1
<1>3. Ceil(b[i], 2) = d
  OBVIOUS
<1>4. AddressEnd(b, i) = i + 2 + d
  BY <1>3 DEF AddressEnd
<1>5. Span(b, i + 2, d) = D
  <2>1. PICK k \in Nat : k = i + 1
    OBVIOUS
  <2>2. i + 2 = k + 1 /\ i + 2 + d - 1 = k + d /\ k + d <= Len(b)
    BY <1>2, <2>1
  <2>3. d = Len(D) /\ D \in Seq(Octet) /\ \A j \in 1..d : b[k + j] = D[j]
    BY <1>1, <2>1 DEF D
  <2>4. SubSeq(b, k + 1, k + d) = D
    BY <2>2, <2>3, PieceIs
  <2> QED
    BY <2>2, <2>4 DEF Span
<1> DEFINE digits == OctetDigits(Span(b, i + 2, Ceil(b[i], 2)))
<1>6. digits = dest
  BY <1>1, <1>3, <1>5
<1> HIDE DEF digits
<1>7. Address(b, i) = SubSeq(digits, 1, IF b[i] < Len(digits) THEN b[i] ELSE Len(digits))
  BY DEF Address, digits
<1>8. Address(b, i) = SubSeq(dest, 1, Len(dest))
  BY <1>6, <1>7
<1>9. SubSeq(dest, 1, Len(dest)) = dest
  OBVIOUS
<1> QED
  BY <1>4, <1>8, <1>9

LEMMA ServiceDigits ==
  ASSUME NEW smsc \in Seq(0..9), smsc # <<>>, NEW j \in 1..Ceil(Len(smsc), 2)
  PROVE  ServiceOctets(smsc)[2 + j] = DigitOctets(smsc)[j]
<1> DEFINE h == Ceil(Len(smsc), 2)
           x == (h + 1) % 256
           s == <<x, 145>>
           D == DigitOctets(smsc)
<1>1. ServiceOctets(smsc) = s \o D
  BY DEF ServiceOctets
<1>2. D \in Seq(Octet) /\ Len(D) = h
  BY DigitsInOctets
<1>3. s \in Seq(Octet) /\ Len(s) = 2
  <2>1. h \in Nat
    BY DEF Ceil
  <2> HIDE DEF h
  <2>2. x \in Octet /\ 145 \in Octet
    BY <2>1 DEF Octet
  <2> HIDE DEF x
  <2> QED
    BY <2>2
<1> HIDE DEF s, D
<1>4. \A i \in 1..Len(D) : (s \o D)[Len(s) + i] = D[i]
  <2>1. s \in Seq(Octet) /\ D \in Seq(Octet)
    BY <1>2, <1>3
  <2> QED
    BY ONLY <2>1, JoinedAt
<1>5. j \in 1..Len(D) /\ DigitOctets(smsc) = D
  BY <1>2 DEF D
<1> QED
  BY <1>1, <1>3, <1>4, <1>5

LEMMA CentreRead ==
  ASSUME NEW b \in Seq(Octet), NEW smsc \in Seq(0..9), Len(smsc) < 256,
         NEW s, s = Len(ServiceOctets(smsc)), s <= Len(b),
         \A i \in 1..s : b[i] = ServiceOctets(smsc)[i]
  PROVE  ServiceCenter(b) = smsc
<1> DEFINE h == Ceil(Len(smsc), 2)
           D == DigitOctets(smsc)
<1>1. /\ s = IF Len(smsc) = 0 THEN 1 ELSE 2 + h
      /\ ServiceOctets(smsc)[1] = IF Len(smsc) = 0 THEN 0 ELSE (h + 1) % 256
  BY ServiceWritten
<1>2. Len(smsc) \in Nat /\ (Len(smsc) = 0 <=> smsc = <<>>)
  BY EmptySeq
<1>3. h \in 0..128 /\ (h = 0 <=> Len(smsc) = 0)
  <2>1. PICK n \in Nat : n = Len(smsc) /\ n < 256
    BY <1>2
  <2>2. (n + 1) \div 2 \in 0..128 /\ ((n + 1) \div 2 = 0 <=> n = 0)
    <3>1. n \in Nat /\ n < 256
      BY <2>1
    <3> QED
      BY ONLY <3>1
  <2>3. h = (n + 2 - 1) \div 2 /\ n + 2 - 1 = n + 1
    BY <2>1 DEF Ceil
  <2> HIDE DEF h
  <2> QED
    BY <2>1, <2>2, <2>3
<1>4. 1 \in 1..s
  <2> HIDE DEF h
  <2>1. s \in Nat /\ s # 0
    BY <1>1, <1>2, <1>3
  <2> QED
    BY ONLY <2>1
<1>5. CASE smsc = <<>>
  BY <1>1, <1>2, <1>4, <1>5 DEF ServiceCenter
<1>6. CASE smsc # <<>>
  <2>1. D \in Seq(Octet) /\ Len(D) = h /\ OctetDigits(D) = smsc
    BY DigitsInOctets, DigitsReadBack
  <2>2. \A j \in 1..h : ServiceOctets(smsc)[2 + j] = D[j]
    BY <1>6, ServiceDigits
  <2> HIDE DEF h, D
  <2>3. b[1] = h + 1 /\ s = 2 + h
    <3>1. \A y \in 0..128 : (y + 1) % 256 = y + 1
      OBVIOUS
    <3> QED
      BY <1>1, <1>2, <1>3, <1>4, <1>6, <3>1
  <2>4. \A j \in 1..h : b[2 + j] = D[j]
    <3>1. \A j \in 1..h : 2 + j \in 1..s
      BY <1>3, <2>3
    <3> QED
      BY <2>2, <3>1
  <2>5. SubSeq(b, 2 + 1, 2 + h) = D
    <3>1. 2 + h <= Len(b) /\ h = Len(D) /\ 2 \in Nat /\ h \in Nat
      BY <1>3, <2>1, <2>3
    <3> QED
      BY <2>1, <2>4, <3>1, PieceIs
  <2>6. Span(b, 3, b[1] - 1) = D
    <3>1. 2 + 1 = 3 /\ 3 + (b[1] - 1) - 1 = 2 + h
      BY <1>3, <2>3
    <3> QED
      BY <2>5, <3>1 DEF Span
  <2>7. b[1] # 0
    BY <1>3, <2>3
  <2> QED
    BY <2>1, <2>6, <2>7 DEF ServiceCenter
<1> QED
  BY <1>5, <1>6

\* A message that is read: its fields, and what its user data says.
IsMessage(m, b, i) ==
  /\ m.ec = "Ok" /\ m.service_center = ServiceCenter(b)
  /\ m.peer_address = Address(b, AddrAt(b, i)) /\ m.request_status_report = RequestsReport(b[i])
  /\ m.validity = IF IsSubmit(b, i) /\ (b[i] \div 8) % 4 = 2 THEN b[PidAt(b, i) + 2] ELSE -1
  /\ m.service_timestamp = IF IsSubmit(b, i) THEN <<>> ELSE OctetDigits(Span(b, PidAt(b, i) + 2, 7))

HasData(m, dcs, data, concat) ==
  /\ m.coding = dcs /\ m.has_udh = (concat # <<>>) /\ m.is_concatenated = (concat # <<>>)
  /\ m.concat_ref = IF concat = <<>> THEN 0 ELSE concat[1]
  /\ m.concat_total = IF concat = <<>> THEN 0 ELSE concat[2]
  /\ m.concat_seq = IF concat = <<>> THEN 0 ELSE concat[3]
  /\ m.user_data = TextOf(CodingOf(dcs), data, concat # <<>>).out

LEMMA MessageIs ==
  ASSUME NEW b, NEW i, NEW dcs, dcs = b[PidAt(b, i) + 1], NEW data, NEW concat,
         HasAddress(b, AddrAt(b, i)), UdlAt(b, i) <= Len(b), DataAt(b, i) = After(data),
         b[UdlAt(b, i)] = data[1], HasHeader(b, i) = (concat # <<>>),
         DataReads(CodingOf(dcs), data, concat)
  PROVE  IsMessage(DecodeMessage(b, i), b, i) /\ HasData(DecodeMessage(b, i), dcs, data, concat)
<1> DEFINE m == DecodeMessage(b, i)
           sc == ServiceCenter(b)
           addr == Address(b, AddrAt(b, i))
           srr == RequestsReport(b[i])
           vp == IF IsSubmit(b, i) /\ (b[i] \div 8) % 4 = 2 THEN b[PidAt(b, i) + 2] ELSE -1
           time == IF IsSubmit(b, i) THEN <<>> ELSE OctetDigits(Span(b, PidAt(b, i) + 2, 7))
           ref == IF concat = <<>> THEN 0 ELSE concat[1]
           total == IF concat = <<>> THEN 0 ELSE concat[2]
           seq == IF concat = <<>> THEN 0 ELSE concat[3]
           text == TextOf(CodingOf(dcs), data, concat # <<>>).out
           good == [NoMessage EXCEPT
                      !.service_center = sc, !.peer_address = addr, !.coding = dcs,
                      !.request_status_report = srr, !.validity = vp, !.service_timestamp = time,
                      !.has_udh = concat # <<>>, !.is_concatenated = concat # <<>>,
                      !.concat_ref = ref, !.concat_total = total, !.concat_seq = seq,
                      !.user_data = text]
<1>1. HeaderAtData(b, i) = HeaderOctets(data, concat # <<>>)
  BY DEF HeaderAtData, HeaderOctets
<1>2. TextAt(b, i) = TextOf(CodingOf(dcs), data, concat # <<>>)
  BY <1>1 DEF TextAt, TextOf
<1>3. IsComplete(b, i) /\ TextAt(b, i).ec = "Ok"
  BY <1>2 DEF IsComplete, DataReads
<1>4. (IF HasHeader(b, i) THEN ParseConcatFromUdh(Span(DataAt(b, i), 1, HeaderAtData(b, i))) ELSE <<>>)
        = concat
  BY <1>1 DEF DataReads, ConcatOf
<1> DEFINE found == IF HasHeader(b, i)
                      THEN ParseConcatFromUdh(Span(DataAt(b, i), 1, HeaderAtData(b, i))) ELSE <<>>
           ref1 == IF found = <<>> THEN 0 ELSE found[1]
           total1 == IF found = <<>> THEN 0 ELSE found[2]
           seq1 == IF found = <<>> THEN 0 ELSE found[3]
           coding == b[PidAt(b, i) + 1]
           read0 == [NoMessage EXCEPT
                      !.service_center = sc, !.peer_address = addr, !.coding = coding,
                      !.request_status_report = srr, !.validity = vp, !.service_timestamp = time,
                      !.has_udh = HasHeader(b, i), !.is_concatenated = found # <<>>,
                      !.concat_ref = ref1, !.concat_total = total1, !.concat_seq = seq1,
                      !.user_data = TextAt(b, i).out]
           bad == DecodeError("DecodeFailure")
           unread == DecodeError(TextAt(b, i).ec)
<1>5. m = IF ~IsComplete(b, i) THEN bad ELSE IF TextAt(b, i).ec # "Ok" THEN unread ELSE read0
  BY DEF DecodeMessage, IsSubmit, HasHeader, AddrAt, PidAt, SkippedAt, UdlAt, DataAt, HeaderAtData,
         IsComplete, TextAt
<1>6. m = good
  <2>1. m = read0
    BY <1>3, <1>5
  <2>2. /\ coding = dcs /\ HasHeader(b, i) = (concat # <<>>) /\ found = concat
        /\ TextAt(b, i).out = text
    BY <1>2, <1>4
  <2> HIDE DEF m, sc, addr, srr, vp, time, found, coding, text
  <2> QED
    BY <2>1, <2>2
<1> HIDE DEF m, sc, addr, srr, vp, time, ref, total, seq, text
<1>7. /\ good.ec = "Ok" /\ good.service_center = sc /\ good.peer_address = addr /\ good.coding = dcs
      /\ good.request_status_report = srr /\ good.validity = vp /\ good.service_timestamp = time
      /\ good.has_udh = (concat # <<>>) /\ good.is_concatenated = (concat # <<>>)
      /\ good.concat_ref = ref /\ good.concat_total = total /\ good.concat_seq = seq
      /\ good.user_data = text
  BY DEF NoMessage
<1> HIDE DEF good
<1>8. IsMessage(m, b, i)
  BY <1>6, <1>7 DEF IsMessage, sc, addr, srr, vp, time
<1>9. HasData(m, dcs, data, concat)
  BY <1>6, <1>7 DEF HasData, ref, total, seq, text
<1> QED
  BY <1>8, <1>9 DEF m

\* What follows the first octet of a last piece.
LEMMA TailData ==
  ASSUME NEW b \in Seq(Octet), NEW data \in Seq(Octet), NEW k \in Nat \ {0},
         NEW n, n = Len(data), n # 0, Len(b) = k + n - 1, SubSeq(b, k, Len(b)) = data
  PROVE  SubSeq(b, k + 1, Len(b)) = After(data)
<1> DEFINE L == Len(b)
           t == SubSeq(data, 2, n)
           u == SubSeq(b, k + 1, L)
           w == SubSeq(b, k, L)
<1>1. n \in Nat \ {0} /\ L \in Nat /\ L = k + n - 1
  OBVIOUS
<1>2. /\ \A i \in 1..n : data[i] \in Octet
      /\ \A i \in 1..L : b[i] \in Octet
  OBVIOUS
<1>3. t \in Seq(Octet) /\ Len(t) = n - 1 /\ \A i \in 1..(n - 1) : t[i] = data[i + 1]
  <2>1. \A i \in 2..n : data[i] \in Octet
    BY <1>1, <1>2
  <2>2. /\ t \in Seq(Octet) /\ Len(t) = IF 2 <= n THEN n - 2 + 1 ELSE 0
        /\ \A i \in 1..(n - 2 + 1) : t[i] = data[2 + i - 1]
    BY <1>1, <2>1, SubSeqProperties
  <2> HIDE DEF t
  <2>3. n - 2 + 1 = n - 1 /\ \A i \in 1..(n - 1) : 2 + i - 1 = i + 1
    BY <1>1
  <2> QED
    BY <1>1, <2>2, <2>3
<1>4. u \in Seq(Octet) /\ Len(u) = n - 1 /\ \A i \in 1..(n - 1) : u[i] = b[k + i]
  <2>1. \A i \in (k + 1)..L : b[i] \in Octet
    BY <1>1, <1>2
  <2>2. /\ u \in Seq(Octet) /\ Len(u) = IF k + 1 <= L THEN L - (k + 1) + 1 ELSE 0
        /\ \A i \in 1..(L - (k + 1) + 1) : u[i] = b[k + 1 + i - 1]
    BY <1>1, <2>1, SubSeqProperties
  <2> HIDE DEF u, L
  <2>3. L - (k + 1) + 1 = n - 1 /\ (\A i \in 1..(n - 1) : k + 1 + i - 1 = k + i)
    BY <1>1
  <2> QED
    BY <1>1, <2>2, <2>3
<1>5. \A i \in 1..(n - 1) : data[i + 1] = b[k + i]
  <2>1. \A i \in k..L : b[i] \in Octet
    BY <1>1, <1>2
  <2>2. \A i \in 1..(L - k + 1) : w[i] = b[k + i - 1]
    BY <1>1, <2>1, SubSeqProperties
  <2>3. w = data
    OBVIOUS
  <2> HIDE DEF w, L
  <2>4. \A i \in 1..(n - 1) : i + 1 \in 1..(L - k + 1) /\ k + (i + 1) - 1 = k + i
    BY <1>1
  <2> QED
    BY <2>2, <2>3, <2>4
<1>6. After(data) = t
  BY DEF After
<1> HIDE DEF t, u
<1>7. t = u
  <2>1. Len(t) = Len(u) /\ t \in Seq(Octet) /\ u \in Seq(Octet)
    BY <1>3, <1>4
  <2>2. \A i \in 1..Len(t) : t[i] = u[i]
    BY <1>3, <1>4, <1>5
  <2> QED
    BY <2>1, <2>2, SeqEqual
<1> QED
  BY <1>6, <1>7 DEF u, L

\* A submitted line, decoded: the arguments of its call, and its user data.
HasArguments(m, a) ==
  /\ m.ec = "Ok" /\ m.validity = a.vp /\ m.request_status_report = (a.srr # 0)
  /\ m.peer_address = NormalizeAddressDigits(a.destination)
  /\ m.service_center = NormalizeAddressDigits(a.smsc) /\ m.service_timestamp = <<>>

LEMMA LineReads ==
  ASSUME NEW a \in Requests, OptionsValid(a), AddressesFit(a), NEW data, NEW concat,
         WellMeasured(Coded(a), data), DataReads(Coded(a), data, concat),
         NEW b, b = LineOctets(a, concat # <<>>, data)
  PROVE  /\ HasArguments(Decode(BytesToHex(b)), a)
         /\ HasData(Decode(BytesToHex(b)), MapDcs(a.dcs), data, concat)
<1> DEFINE smsc == NormalizeAddressDigits(a.smsc)
           dest == NormalizeAddressDigits(a.destination)
           s == Len(ServiceOctets(smsc))
           d == Ceil(Len(dest), 2)
           v == IF a.vp # -1 THEN 1 ELSE 0
           f == SubmitFlags(MessageOf(a), concat # <<>>)
           m == DecodeMessage(b, s + 1)
<1>1. LineAt(b, a, concat # <<>>, data, s, d, v)
  BY LineWritten
<1>2. /\ Sized(b) /\ b[1] + 1 = s /\ b[b[1] + 2] = f
      /\ AddressEnd(b, b[1] + 4) = s + d + 5 /\ b[s + d + 6] = MapDcs(a.dcs)
  BY LineSized
<1>3. smsc \in Seq(0..9) /\ Len(smsc) \in 0..255 /\ dest \in Seq(0..9) /\ Len(dest) \in 0..255
  <2>1. /\ smsc \in Seq(0..9) /\ Len(smsc) <= Len(a.smsc) /\ Len(a.smsc) \in Nat /\ Len(smsc) \in Nat
        /\ dest \in Seq(0..9) /\ Len(dest) <= Len(a.destination) /\ Len(a.destination) \in Nat
        /\ Len(dest) \in Nat
    BY MessageTyped, DigitsOnly
  <2> HIDE DEF smsc, dest
  <2>2. Len(a.smsc) < 256 /\ Len(a.destination) < 256
    BY DEF AddressesFit
  <2>3. \A x, y \in Nat : x <= y /\ y < 256 => x \in 0..255
    OBVIOUS
  <2> QED
    BY <2>1, <2>2, <2>3
<1>4. data \in Seq(Octet) /\ Len(data) \in Nat \ {0}
  <2>1. data \in Seq(Octet) /\ data # <<>>
    BY DEF WellMeasured
  <2> QED
    BY <2>1, EmptySeq
<1>5. /\ f % 4 = 1 /\ (f \div 8) % 4 = (IF v = 1 THEN 2 ELSE 0)
      /\ Bit(f, 6) = (IF concat # <<>> THEN 1 ELSE 0) /\ (RequestsReport(f) <=> a.srr # 0)
      /\ v \in {0, 1} /\ (a.vp # -1 <=> v = 1)
  <2>1. MessageOf(a).validity = a.vp /\ MessageOf(a).request_status_report = (a.srr # 0)
    BY DEF MessageOf
  <2> DEFINE M == MessageOf(a)
             udhi == concat # <<>>
  <2>2. f = SubmitFlags(M, udhi) /\ M.validity = a.vp /\ M.request_status_report = (a.srr # 0)
    BY <2>1
  <2> HIDE DEF M, udhi
  <2>3. /\ SubmitFlags(M, udhi) % 4 = 1
        /\ (SubmitFlags(M, udhi) \div 8) % 4 = (IF M.validity # -1 THEN 2 ELSE 0)
        /\ Bit(SubmitFlags(M, udhi), 6) = (IF udhi THEN 1 ELSE 0)
        /\ (RequestsReport(SubmitFlags(M, udhi)) <=> M.request_status_report)
    BY FlagsRead, FlagBits
  <2>4. v \in {0, 1} /\ (a.vp # -1 <=> v = 1)
    OBVIOUS
  <2>5. udhi <=> concat # <<>>
    BY DEF udhi
  <2> HIDE DEF f, v
  <2> QED
    BY <2>2, <2>3, <2>4, <2>5
<1>6. smsc = NormalizeAddressDigits(a.smsc) /\ dest = NormalizeAddressDigits(a.destination)
      /\ s = Len(ServiceOctets(smsc)) /\ d = Ceil(Len(dest), 2)
  OBVIOUS
<1> HIDE DEF smsc, dest, s, d, v, f
<1>7. /\ s \in Nat \ {0} /\ d \in Nat /\ b \in Seq(Octet) /\ Len(b) = s + d + 6 + v + Len(data)
      /\ \A i \in 1..s : b[i] = ServiceOctets(smsc)[i]
      /\ b[s + 3] = Len(dest) % 256 /\ b[s + d + 6] = MapDcs(a.dcs)
      /\ \A i \in 1..d : b[s + 4 + i] = DigitOctets(dest)[i]
      /\ (a.vp # -1 => b[s + d + 7] = a.vp)
      /\ b[s + d + 6 + v + 1] = data[1]
      /\ SubSeq(b, s + d + 6 + v + 1, Len(b)) = data
  BY <1>1, <1>6 DEF LineAt
<1>a. /\ s \in Nat \ {0} /\ d \in Nat /\ v \in {0, 1} /\ Len(data) \in Nat \ {0}
      /\ Len(b) = s + d + 6 + v + Len(data)
  BY <1>4, <1>5, <1>7
<1>8. b[s + 1] = f /\ Decode(BytesToHex(b)) = m
  <2>1. b[1] \in Nat
    <3>1. 1 \in 1..Len(b)
      BY ONLY <1>a
    <3>2. b[1] \in Octet
      BY <1>7, <3>1
    <3> QED
      BY ONLY <3>2 DEF Octet
  <2>2. b[1] + 2 = s + 1
    <3>1. \A x, y \in Nat : x + 1 = y => x + 2 = y + 1
      OBVIOUS
    <3> QED
      BY <1>2, <1>7, <2>1, <3>1
  <2>3. b[s + 1] = f
    BY <1>2, <2>2
  <2>4. b # <<>> /\ ~(s + 1 > Len(b)) /\ ~(b[s + 1] % 4 = 2)
    <3>1. b # <<>>
      BY <1>2 DEF Sized
    <3>2. ~(s + 1 > Len(b))
      BY ONLY <1>a
    <3> QED
      BY <1>5, <2>3, <3>1, <3>2
  <2>5. Decode(BytesToHex(b)) = DecodeMessage(b, s + 1)
    BY <1>7, <2>2, <2>4, DecodeOctets
  <2> QED
    BY <2>3, <2>5
<1> HIDE DEF m
<1>9. IsSubmit(b, s + 1) /\ AddrAt(b, s + 1) = s + 3 /\ SkippedAt(b, s + 1) = v
  <2>1. IsSubmit(b, s + 1)
    BY <1>5, <1>8 DEF IsSubmit
  <2>2. AddrAt(b, s + 1) = s + 3
    BY <1>7, <2>1 DEF AddrAt
  <2>3. SkippedAt(b, s + 1) = v
    BY <1>5, <1>8, <2>1 DEF SkippedAt
  <2> QED
    BY <2>1, <2>2, <2>3
<1>10. AddressEnd(b, s + 3) = s + d + 5 /\ Address(b, s + 3) = dest
  <2>1. PICK i \in Nat \ {0} : i = s + 3
    BY <1>7
  <2>2. b[i] = Len(dest)
    <3>1. \A x \in 0..255 : x % 256 = x
      OBVIOUS
    <3> QED
      BY <1>3, <1>7, <2>1, <3>1
  <2>3. i + 1 + d <= Len(b)
    BY ONLY <1>a, <2>1
  <2>4. \A j \in 1..d : b[i + 1 + j] = DigitOctets(dest)[j]
    <3>1. i + 1 = s + 4
      BY <1>7, <2>1
    <3> QED
      BY <1>7, <3>1
  <2>5. AddressEnd(b, i) = i + 2 + d /\ Address(b, i) = dest
    <3>1. b \in Seq(Octet) /\ dest \in Seq(0..9) /\ d = Ceil(Len(dest), 2)
      BY <1>3, <1>6, <1>7
    <3> QED
      BY ONLY <2>2, <2>3, <2>4, <3>1, AddressRead
  <2>6. i + 2 + d = s + d + 5
    BY <1>7, <2>1
  <2> QED
    BY <2>1, <2>5, <2>6
<1>11. ServiceCenter(b) = smsc
  <2>1. s <= Len(b)
    BY ONLY <1>a
  <2>2. b \in Seq(Octet) /\ smsc \in Seq(0..9) /\ Len(smsc) < 256 /\ s = Len(ServiceOctets(smsc))
    <3>1. \A x \in 0..255 : x < 256
      OBVIOUS
    <3>2. Len(smsc) < 256
      BY <1>3, <3>1
    <3>3. b \in Seq(Octet)
      BY <1>7
    <3> QED
      BY <1>3, <1>6, <3>2, <3>3
  <2>3. \A i \in 1..s : b[i] = ServiceOctets(smsc)[i]
    BY <1>7
  <2> QED
    BY ONLY <2>1, <2>2, <2>3, CentreRead
<1>12. PidAt(b, s + 1) = s + d + 5 /\ UdlAt(b, s + 1) = s + d + 7 + v
  <2>1. PidAt(b, s + 1) = s + d + 5
    BY <1>9, <1>10 DEF PidAt
  <2> QED
    BY <1>5, <1>7, <1>9, <2>1 DEF UdlAt
<1>13. /\ s + d + 5 + 1 = s + d + 6 /\ s + d + 5 + 2 = s + d + 7
       /\ s + d + 6 + v + 1 = s + d + 7 + v
  BY <1>5, <1>7
<1>14. HasAddress(b, s + 3) /\ s + d + 7 + v <= Len(b)
  <2>1. s + 3 < Len(b) /\ s + d + 5 <= Len(b) + 1 /\ s + d + 7 + v <= Len(b)
    BY ONLY <1>a
  <2> QED
    BY <1>10, <2>1 DEF HasAddress
<1>15. DataAt(b, s + 1) = After(data)
  <2>1. PICK k \in Nat \ {0} : k = s + d + 7 + v
    BY <1>5, <1>7
  <2>2. Len(b) = k + Len(data) - 1 /\ Len(data) # 0
    BY ONLY <1>a, <2>1
  <2>3. SubSeq(b, k, Len(b)) = data
    BY <1>7, <1>13, <2>1
  <2>4. SubSeq(b, k + 1, Len(b)) = After(data)
    <3>1. b \in Seq(Octet) /\ data \in Seq(Octet)
      BY <1>4, <1>7
    <3> QED
      BY ONLY <2>2, <2>3, <3>1, TailData
  <2> QED
    BY <1>12, <2>1, <2>4 DEF DataAt
<1>16. HasHeader(b, s + 1) = (concat # <<>>)
  <2>1. HasHeader(b, s + 1) <=> concat # <<>>
    BY <1>5, <1>8 DEF HasHeader
  <2> QED
    BY <2>1 DEF HasHeader
<1> DEFINE i == s + 1
<1>17. /\ MapDcs(a.dcs) = b[PidAt(b, i) + 1] /\ HasAddress(b, AddrAt(b, i)) /\ UdlAt(b, i) <= Len(b)
       /\ DataAt(b, i) = After(data) /\ b[UdlAt(b, i)] = data[1] /\ HasHeader(b, i) = (concat # <<>>)
       /\ DataReads(CodingOf(MapDcs(a.dcs)), data, concat)
  BY <1>7, <1>9, <1>12, <1>13, <1>14, <1>15, <1>16 DEF Coded
<1> HIDE DEF i
<1>18. IsMessage(DecodeMessage(b, i), b, i) /\ HasData(DecodeMessage(b, i), MapDcs(a.dcs), data, concat)
  BY <1>17, MessageIs
<1>19. HasArguments(m, a)
  <2>1. m.ec = "Ok" /\ m.peer_address = dest /\ m.service_center = smsc /\ m.service_timestamp = <<>>
    BY <1>9, <1>10, <1>11, <1>18 DEF IsMessage, m, i
  <2>2. m.request_status_report = (a.srr # 0)
    <3>1. m.request_status_report = RequestsReport(f)
      BY <1>8, <1>18 DEF IsMessage, m, i
    <3>2. RequestsReport(f) = (a.srr # 0)
      BY <1>5 DEF RequestsReport
    <3> QED
      BY <3>1, <3>2
  <2>3. m.validity = a.vp
    <3>1. (f \div 8) % 4 = 2 <=> v = 1
      BY <1>5
    <3>2. m.validity = IF (b[s + 1] \div 8) % 4 = 2 THEN b[PidAt(b, s + 1) + 2] ELSE -1
      BY <1>9, <1>18 DEF IsMessage, m, i
    <3>3. m.validity = IF v = 1 THEN b[s + d + 7] ELSE -1
      BY <1>8, <1>12, <1>13, <3>1, <3>2
    <3> QED
      BY <1>5, <1>7, <3>3
  <2> QED
    BY <2>1, <2>2, <2>3 DEF HasArguments, smsc, dest
<1> QED
  BY <1>8, <1>18, <1>19 DEF m, i

\* The number and the count of the parts, or zeros.
PartNumbers(concat) == IF concat = <<>> THEN <<0, 0>> ELSE <<concat[3], concat[2]>>

LEMMA PartReads ==
  ASSUME NEW a \in Requests, OptionsValid(a), AddressesFit(a), NEW hex, NEW concat,
         IsPart(a, hex, concat)
  PROVE  /\ HasArguments(Decode(hex), a) /\ Decode(hex).coding = MapDcs(a.dcs)
         /\ <<Decode(hex).concat_seq, Decode(hex).concat_total>> = PartNumbers(concat)
<1>1. PICK data : /\ WellMeasured(Coded(a), data) /\ DataReads(Coded(a), data, concat)
                  /\ hex = BytesToHex(LineOctets(a, concat # <<>>, data))
  BY DEF IsPart
<1>2. HasArguments(Decode(hex), a) /\ HasData(Decode(hex), MapDcs(a.dcs), data, concat)
  BY <1>1, LineReads
<1> DEFINE m == Decode(hex)
<1> HIDE DEF m
<1>3. /\ m.coding = MapDcs(a.dcs) /\ m.concat_seq = (IF concat = <<>> THEN 0 ELSE concat[3])
      /\ m.concat_total = IF concat = <<>> THEN 0 ELSE concat[2]
  BY <1>2 DEF HasData, m
<1>4. <<m.concat_seq, m.concat_total>> = PartNumbers(concat)
  BY <1>3 DEF PartNumbers
<1> QED
  BY <1>2, <1>3, <1>4 DEF m

\* Every PDU an encode call returns for a sound request decodes to the call's
\* arguments, whatever the size of a message and the number of its parts.
THEOREM SubmitsReadBack ==
  Spec => []SubmitReadsBack
<1>1. CallInv => SubmitReadsBack
  <2> DEFINE a == call.args
             lines == call.lines
             m == MessageOf(a)
  <2> SUFFICES ASSUME CallInv, Sound(a), NEW i \in DOMAIN lines
               PROVE  /\ Decode(lines[i]).ec = "Ok"
                      /\ Decode(lines[i]).peer_address = NormalizeAddressDigits(m.peer_address)
                      /\ Decode(lines[i]).service_center = NormalizeAddressDigits(m.service_center)
                      /\ Decode(lines[i]).coding = m.coding /\ Decode(lines[i]).validity = m.validity
                      /\ Decode(lines[i]).request_status_report = m.request_status_report
                      /\ <<Decode(lines[i]).concat_seq, Decode(lines[i]).concat_total>> =
                           IF Len(lines) = 1 THEN <<0, 0>> ELSE <<i, Len(lines)>>
    BY DEF SubmitReadsBack
  <2>1. lines # <<>>
    BY EmptySeq
  <2>2. a \in Requests /\ OptionsValid(a) /\ AreLines(a, lines)
    BY <2>1 DEF CallInv
  <2>3. AddressesFit(a) /\ TextSound(a)
    BY DEF Sound, TextSound
  <2>4. i \in 1..Len(lines) /\ AreParts(a, lines)
    BY <2>2, <2>3 DEF AreLines
  <2>5. PICK ref : \A j \in 1..Len(lines) :
          IsPart(a, lines[j], IF Len(lines) = 1 THEN <<>> ELSE <<ref, Len(lines), j>>)
    BY <2>4 DEF AreParts
  <2> DEFINE concat == IF Len(lines) = 1 THEN <<>> ELSE <<ref, Len(lines), i>>
             part == Decode(lines[i])
  <2>6. IsPart(a, lines[i], concat)
    BY <2>4, <2>5
  <2>7. PartNumbers(concat) = IF Len(lines) = 1 THEN <<0, 0>> ELSE <<i, Len(lines)>>
    BY DEF PartNumbers
  <2> HIDE DEF concat, a, lines
  <2>8. /\ HasArguments(part, a) /\ part.coding = MapDcs(a.dcs)
        /\ <<part.concat_seq, part.concat_total>> = PartNumbers(concat)
    BY <2>2, <2>3, <2>6, PartReads
  <2>9. /\ m.peer_address = a.destination /\ m.service_center = a.smsc
        /\ m.coding = MapDcs(a.dcs) /\ m.validity = a.vp /\ m.request_status_report = (a.srr # 0)
    BY DEF MessageOf
  <2> HIDE DEF part, m
  <2>10. /\ part.ec = "Ok" /\ part.peer_address = NormalizeAddressDigits(m.peer_address)
         /\ part.service_center = NormalizeAddressDigits(m.service_center)
         /\ part.coding = m.coding /\ part.validity = m.validity
         /\ part.request_status_report = m.request_status_report
    BY <2>8, <2>9 DEF HasArguments
  <2> QED
    BY <2>7, <2>8, <2>10 DEF part
<1> QED
  BY <1>1, CallInvHolds, PTL

\* A delivered part, decoded: who sent it, by which centre and when, and its user
\* data.
IsDelivered(m) ==
  /\ m.ec = "Ok" /\ m.service_center = Centre /\ m.peer_address = Sender
  /\ m.service_timestamp = Time /\ ~m.request_status_report

LEMMA DeliverReads ==
  ASSUME NEW flags \in Octet, flags % 4 = 0, NEW dcs \in Octet, NEW data, NEW concat,
         WellMeasured(CodingOf(dcs), data), DataReads(CodingOf(dcs), data, concat),
         Bit(flags, 6) = 1 <=> concat # <<>>
  PROVE  /\ IsDelivered(Decode(DeliverPdu(flags, dcs, data)))
         /\ HasData(Decode(DeliverPdu(flags, dcs, data)), dcs, data, concat)
<1>1. PICK b : DeliverAt(b, flags, dcs, data) /\ DeliverPdu(flags, dcs, data) = BytesToHex(b)
  BY DeliverWritten
<1>2. /\ b \in Seq(Octet) /\ Len(data) \in Nat \ {0} /\ Len(b) = 18 + Len(data)
      /\ b[1] = 3 /\ b[5] = flags /\ b[6] = 3 /\ b[11] = dcs /\ b[19] = data[1] /\ b[1] + 2 = 5
      /\ SubSeq(b, 19, Len(b)) = data
  BY <1>1 DEF DeliverAt
<1>3. /\ ~IsSubmit(b, 5) /\ AddrAt(b, 5) = 6 /\ PidAt(b, 5) = 10 /\ UdlAt(b, 5) = 19
      /\ AddressEnd(b, 6) = 10
  BY <1>1, DeliverPlaces
<1> DEFINE m == DecodeMessage(b, 5)
           L == Len(b)
<1>4. L \in Nat /\ 19 <= L
  BY <1>2
<1>5. Decode(DeliverPdu(flags, dcs, data)) = m
  <2>1. b # <<>> /\ ~(5 > Len(b)) /\ ~(b[5] % 4 = 2)
    BY <1>2, <1>4, EmptySeq
  <2> QED
    BY <1>1, <1>2, <2>1, DecodeOctets
<1> HIDE DEF m
<1>6. Address(b, 6) = Sender
  <2>1. Sender \in Seq(0..9) /\ Len(Sender) = 3 /\ Ceil(3, 2) = 2
    BY NumbersTyped
  <2>2. PICK i \in Nat \ {0} : i = 6
    OBVIOUS
  <2>3. b[i] = Len(Sender) /\ i + 1 + 2 <= Len(b)
    BY <1>2, <1>4, <2>1, <2>2
  <2>4. \A j \in 1..2 : b[i + 1 + j] = DigitOctets(Sender)[j]
    BY <1>1, <2>2 DEF DeliverAt
  <2>5. b \in Seq(Octet) /\ Sender \in Seq(0..9) /\ 2 = Ceil(Len(Sender), 2)
    BY <1>2, <2>1
  <2>6. Address(b, i) = Sender
    BY ONLY <2>3, <2>4, <2>5, AddressRead
  <2> QED
    BY <2>2, <2>6
<1>7. ServiceCenter(b) = Centre
  <2>1. DigitOctets(Centre) \in Seq(Octet) /\ Len(DigitOctets(Centre)) = 2
        /\ OctetDigits(DigitOctets(Centre)) = Centre
    BY NumbersTyped, DigitsInOctets, DigitsReadBack
  <2>2. \A j \in 1..2 : b[2 + j] = DigitOctets(Centre)[j]
    BY <1>1 DEF DeliverAt
  <2> DEFINE C == DigitOctets(Centre)
  <2>3. b \in Seq(Octet) /\ C \in Seq(Octet) /\ 2 = Len(C) /\ 2 \in Nat /\ 2 + 2 <= Len(b)
    BY <1>2, <1>4, <2>1
  <2>4. SubSeq(b, 2 + 1, 2 + 2) = C
    BY ONLY <2>2, <2>3, PieceIs
  <2>5. Span(b, 3, b[1] - 1) = C
    BY <1>2, <2>4 DEF Span
  <2> QED
    BY <1>2, <2>1, <2>5 DEF ServiceCenter
<1>8. OctetDigits(Span(b, 12, 7)) = Time
  <2>1. DigitOctets(Time) \in Seq(Octet) /\ Len(DigitOctets(Time)) = 7
        /\ OctetDigits(DigitOctets(Time)) = Time
    BY NumbersTyped, DigitsInOctets, DigitsReadBack
  <2>2. \A j \in 1..7 : b[11 + j] = DigitOctets(Time)[j]
    BY <1>1 DEF DeliverAt
  <2> DEFINE T == DigitOctets(Time)
  <2>3. b \in Seq(Octet) /\ T \in Seq(Octet) /\ 7 = Len(T) /\ 11 \in Nat /\ 11 + 7 <= Len(b)
    BY <1>2, <1>4, <2>1
  <2>4. SubSeq(b, 11 + 1, 11 + 7) = T
    BY ONLY <2>2, <2>3, PieceIs
  <2>5. Span(b, 12, 7) = T
    BY <2>4 DEF Span
  <2> QED
    BY <2>1, <2>5
<1>9. DataAt(b, 5) = After(data)
  <2>1. data \in Seq(Octet) /\ b \in Seq(Octet)
    BY <1>2 DEF WellMeasured
  <2>2. Len(data) # 0 /\ Len(b) = 19 + Len(data) - 1 /\ 19 \in Nat \ {0} /\ SubSeq(b, 19, Len(b)) = data
    BY <1>2
  <2>3. SubSeq(b, 19 + 1, Len(b)) = After(data)
    BY ONLY <2>1, <2>2, TailData
  <2> QED
    BY <1>3, <2>3 DEF DataAt
<1>10. /\ dcs = b[PidAt(b, 5) + 1] /\ HasAddress(b, AddrAt(b, 5)) /\ UdlAt(b, 5) <= Len(b)
       /\ DataAt(b, 5) = After(data) /\ b[UdlAt(b, 5)] = data[1] /\ HasHeader(b, 5) = (concat # <<>>)
  <2>1. HasAddress(b, 6)
    BY <1>3, <1>4 DEF HasAddress
  <2>2. HasHeader(b, 5) = (concat # <<>>)
    BY <1>2 DEF HasHeader
  <2> QED
    BY <1>2, <1>3, <1>4, <1>9, <2>1, <2>2
<1>11. IsMessage(m, b, 5) /\ HasData(m, dcs, data, concat)
  BY <1>10, MessageIs DEF m
<1>12. IsDelivered(m)
  <2>1. ~RequestsReport(b[5])
    BY <1>2 DEF RequestsReport
  <2>2. PidAt(b, 5) + 2 = 12
    BY <1>3
  <2> QED
    BY <1>3, <1>6, <1>7, <1>8, <1>11, <2>1, <2>2 DEF IsMessage, IsDelivered
<1> QED
  BY <1>5, <1>11, <1>12

\* A part as submitted and as delivered reads the same but for the numbers and the
\* time.
LEMMA PartDelivered ==
  ASSUME NEW a \in Requests, OptionsValid(a), AddressesFit(a), NEW hex, NEW concat,
         IsPart(a, hex, concat), NEW sri \in {0, 1},
         NEW m, m = Decode(Delivered(hex, sri))
  PROVE  /\ m.ec = "Ok" /\ ~m.request_status_report
         /\ FillMessage(m) = [FillMessage(Decode(hex)) EXCEPT !.service_center = Centre,
                                !.peer_address = Sender, !.service_timestamp = Time]
<1>1. PICK data : /\ WellMeasured(Coded(a), data) /\ DataReads(Coded(a), data, concat)
                  /\ hex = BytesToHex(LineOctets(a, concat # <<>>, data))
  BY DEF IsPart
<1> DEFINE n == Decode(hex)
           dcs == MapDcs(a.dcs)
           udhi == concat # <<>>
<1>2. HasData(n, dcs, data, concat)
  BY <1>1, LineReads
<1>3. PICK flags \in Octet : /\ flags % 4 = 0 /\ (Bit(flags, 6) = 1 <=> udhi)
                            /\ Delivered(hex, sri) = DeliverPdu(flags, dcs, data)
  <2>1. /\ a \in Requests /\ OptionsValid(a) /\ AddressesFit(a) /\ WellMeasured(Coded(a), data)
        /\ hex = BytesToHex(LineOctets(a, udhi, data)) /\ sri \in {0, 1}
    BY <1>1
  <2> HIDE DEF udhi
  <2> QED
    BY ONLY <2>1, DeliveredIs DEF dcs
<1>4. dcs \in Octet /\ WellMeasured(CodingOf(dcs), data) /\ DataReads(CodingOf(dcs), data, concat)
  BY <1>1, MessageTyped DEF Coded
<1>5. IsDelivered(m) /\ HasData(m, dcs, data, concat)
  <2> DEFINE x == dcs
  <2> HIDE DEF dcs
  <2> QED
    BY <1>3, <1>4, DeliverReads
<1>6. /\ CopyField(Centre, FieldCap) = Centre /\ CopyField(Sender, FieldCap) = Sender
      /\ CopyField(Time, FieldCap) = Time
  <2>1. \A s \in Seq(0..9) : Len(s) < 32 => SubSeq(s, 1, Len(s)) = s
    OBVIOUS
  <2>2. \A s \in Seq(0..9) : Len(s) < 32 => CopyField(s, FieldCap) = s
    BY <2>1 DEF CopyField, FieldCap
  <2>3. Len(Centre) < 32 /\ Len(Sender) < 32 /\ Len(Time) < 32
    BY NumbersTyped
  <2> QED
    BY <2>2, <2>3, NumbersTyped
<1> HIDE DEF n, dcs, udhi
<1>7. /\ m.coding = n.coding /\ m.has_udh = n.has_udh /\ m.is_concatenated = n.is_concatenated
      /\ m.concat_ref = n.concat_ref /\ m.concat_total = n.concat_total
      /\ m.concat_seq = n.concat_seq /\ m.user_data = n.user_data
  BY <1>2, <1>5 DEF HasData
<1>8. FillMessage(m) = [FillMessage(n) EXCEPT !.service_center = Centre,
                          !.peer_address = Sender, !.service_timestamp = Time]
  <2> DEFINE r == [dcs |-> n.coding, has_udh |-> n.has_udh, is_concatenated |-> n.is_concatenated,
                   concat_ref |-> n.concat_ref, concat_total |-> n.concat_total,
                   concat_seq |-> n.concat_seq, service_center |-> Centre, peer_address |-> Sender,
                   service_timestamp |-> Time, user_data |-> CopyField(n.user_data, TextCap)]
  <2>1. FillMessage(m) = r
    BY <1>5, <1>6, <1>7 DEF FillMessage, IsDelivered
  <2>2. [FillMessage(n) EXCEPT !.service_center = Centre, !.peer_address = Sender,
           !.service_timestamp = Time] = r
    <3> DEFINE q == FillMessage(n)
               x == [q EXCEPT !.service_center = Centre, !.peer_address = Sender,
                              !.service_timestamp = Time]
    <3>1. /\ q.dcs = n.coding /\ q.has_udh = n.has_udh /\ q.is_concatenated = n.is_concatenated
          /\ q.concat_ref = n.concat_ref /\ q.concat_total = n.concat_total
          /\ q.concat_seq = n.concat_seq /\ q.user_data = CopyField(n.user_data, TextCap)
          /\ q = [k \in DOMAIN q |-> q[k]]
          /\ DOMAIN q = {"dcs", "has_udh", "is_concatenated", "concat_ref", "concat_total",
                         "concat_seq", "service_center", "peer_address", "service_timestamp",
                         "user_data"}
      BY DEF FillMessage
    <3> HIDE DEF q
    <3>2. /\ x.dcs = n.coding /\ x.has_udh = n.has_udh /\ x.is_concatenated = n.is_concatenated
          /\ x.concat_ref = n.concat_ref /\ x.concat_total = n.concat_total
          /\ x.concat_seq = n.concat_seq /\ x.user_data = CopyField(n.user_data, TextCap)
          /\ x.service_center = Centre /\ x.peer_address = Sender /\ x.service_timestamp = Time
          /\ x = [k \in DOMAIN q |-> x[k]]
      BY <3>1
    <3> HIDE DEF x
    <3>3. x = r
      BY <3>1, <3>2
    <3> QED
      BY <3>3 DEF x, q
  <2> QED
    BY <2>1, <2>2
<1> QED
  BY <1>5, <1>8 DEF IsDelivered, n

\* A delivered part of a sound request decodes to what was submitted, whichever
\* part and whatever TP-SRI.
THEOREM DeliveriesRead ==
  Spec => []DeliveredAsSubmitted
<1>1. CallInv /\ AirInv /\ ReadInv => DeliveredAsSubmitted
  <2> DEFINE a == call.args
             lines == call.lines
             i == air[1].part
             m == Decode(air[1].hex)
  <2> SUFFICES ASSUME CallInv, AirInv, ReadInv, Uncut("deliver", "decode"), Sound(a)
               PROVE  /\ read.status = "CT_OK" /\ ~m.request_status_report
                      /\ read.out[1] =
                           [FillMessage(Decode(lines[i])) EXCEPT !.service_center = Centre,
                              !.peer_address = Sender, !.service_timestamp = Time]
    BY DEF DeliveredAsSubmitted
  <2>1. /\ read.status = MapError(m.ec)
        /\ read.out = IF m.ec = "Ok" THEN <<FillMessage(m)>> ELSE <<>>
    <3>1. read # NotRead
      BY DEF Uncut, NotRead
    <3> QED
      BY <3>1 DEF ReadInv, Uncut
  <2>2. Carries(air[1]) /\ ~air[1].cut /\ air[1].kind = "deliver"
    BY DEF AirInv, Uncut
  <2>3. i \in DOMAIN lines
    BY <2>2 DEF Carries
  <2>4. PICK sri \in {0, 1} : air[1].hex = Delivered(lines[i], sri)
    BY <2>2 DEF Carries, WholeOf
  <2>5. lines # <<>>
    BY <2>3, EmptySeq
  <2>6. a \in Requests /\ OptionsValid(a) /\ AreLines(a, lines)
    BY <2>5 DEF CallInv
  <2>7. AddressesFit(a) /\ TextSound(a)
    BY DEF Sound, TextSound
  <2>8. i \in 1..Len(lines) /\ AreParts(a, lines)
    BY <2>3, <2>6, <2>7 DEF AreLines
  <2>9. PICK ref : \A j \in 1..Len(lines) :
          IsPart(a, lines[j], IF Len(lines) = 1 THEN <<>> ELSE <<ref, Len(lines), j>>)
    BY <2>8 DEF AreParts
  <2> DEFINE concat == IF Len(lines) = 1 THEN <<>> ELSE <<ref, Len(lines), i>>
  <2>10. IsPart(a, lines[i], concat)
    BY <2>8, <2>9
  <2>11. m = Decode(Delivered(lines[i], sri))
    BY <2>4
  <2> HIDE DEF a, lines, i, m, concat
  <2>12. /\ m.ec = "Ok" /\ ~m.request_status_report
         /\ FillMessage(m) = [FillMessage(Decode(lines[i])) EXCEPT !.service_center = Centre,
                                !.peer_address = Sender, !.service_timestamp = Time]
    BY <2>6, <2>7, <2>10, <2>11, PartDelivered
  <2> QED
    BY <2>1, <2>12, StatusOf
<1> QED
  BY <1>1, CallInvHolds, AirInvHolds, PTL
===========================================================================
