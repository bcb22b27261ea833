------------------------------ MODULE PduCodec ------------------------------
(***************************************************************************)
(* PduCodec: a message to the SMS-SUBMIT PDUs that carry it, and a PDU,    *)
(* SMS-SUBMIT, SMS-DELIVER or SMS-STATUS-REPORT, to a message.  A PDU is   *)
(* the sequence of its hex digits.                                         *)
(***************************************************************************)
EXTENDS TextCodec

CONSTANT UserDataOctets   \* octets of user data, 140 in the code

\* Room for the header of a part and some text; no more than a message has.
ASSUME UserDataAssumption == UserDataOctets \in 11..140

\* A coding the enumeration DataCoding does not name is treated as 8-bit data.
Gsm7Bit == 0
Ucs2 == 8
CodingOf(dcs) == IF dcs = Gsm7Bit THEN "gsm7" ELSE IF dcs = Ucs2 THEN "ucs2" ELSE "8bit"

\* Mutant: total and number change places.
ConcatUdhSwapped(concat) ==
  IF concat = <<>> THEN <<>> ELSE <<5, 0, 3, concat[1], concat[3], concat[2]>>

\* append_concat_udh; the septets that UDH octets take, with their fill bits.
ConcatUdh(concat) == IF concat = <<>> THEN <<>> ELSE <<5, 0, 3>> \o concat
UdhSeptets(octets) == Ceil(8 * octets, 7)

\* What a message holds, in septets, UTF-16 units or octets.
Capacity(coding, octets) ==
  CASE coding = "gsm7" -> (8 * octets) \div 7 [] coding = "ucs2" -> octets \div 2 [] OTHER -> octets

Concat == INSTANCE ConcatSms WITH
  Width <- 8,
  SingleLimit <- [c \in {"gsm7", "ucs2", "8bit"} |-> Capacity(c, UserDataOctets)],
  PartLimit <- [c \in {"gsm7", "ucs2", "8bit"} |->
                  IF c = "gsm7" THEN Capacity(c, UserDataOctets) - UdhSeptets(6)
                                ELSE Capacity(c, UserDataOctets - 6)],
  FirstHalf <- [c \in {"gsm7", "ucs2", "8bit"} |->
                  CASE c = "gsm7" -> {Esc} [] c = "ucs2" -> HighSurrogates [] OTHER -> {}],
  Value <- [u \in 0..255 |-> u]

-----------------------------------------------------------------------------
(***************************************************************************)
(* Addresses: digits, of which a PDU has two in an octet, the first one    *)
(* low, and a filler after an odd last one.                                *)
(***************************************************************************)
Filler == 15
NormalizeAddressDigits(address) ==
  FlattenSeq([i \in DOMAIN address |-> IF address[i] \in 0..9 THEN <<address[i]>> ELSE <<>>])

SwapPairs(s) == [i \in DOMAIN s |-> s[IF i % 2 = 1 THEN i + 1 ELSE i - 1]]

InvertDigits(digits) ==
  SwapPairs(IF Len(digits) % 2 = 1 THEN Append(digits, Filler) ELSE digits)

SerializeDigits(inverted) ==
  LET digits == SwapPairs(inverted)
  IN IF digits # <<>> /\ Last(digits) = Filler THEN Front(digits) ELSE digits

DigitOctets(digits) == HexToBytes(InvertDigits(digits)).out
OctetDigits(bytes) == SerializeDigits(BytesToHex(bytes))

-----------------------------------------------------------------------------
(***************************************************************************)
(* Encoding.                                                               *)
(***************************************************************************)
\* Mutant: the options are those of the message without a UDH.
HeaderOfSingle(m, dest, udhi) ==
  LET smsc == NormalizeAddressDigits(m.service_center)
  IN (IF smsc = <<>> THEN <<0>> ELSE <<Ceil(Len(smsc), 2) + 1, 145>> \o DigitOctets(smsc))
     \o <<IF udhi THEN 65 ELSE 1, 0, Len(dest), 145>> \o DigitOctets(dest) \o <<0, m.coding>>

\* append_submit_header.  The first octet of the TPDU: SMS-SUBMIT, TP-UDHI, TP-SRR
\* and TP-VPF; -1 stands for no validity period.
SubmitHeader(m, dest, udhi) ==
  LET smsc == NormalizeAddressDigits(m.service_center)
      vp == IF m.validity = -1 THEN <<>> ELSE <<m.validity>>
      flags == 1 + (IF udhi THEN 64 ELSE 0) + (IF m.request_status_report THEN 32 ELSE 0)
                 + (IF vp # <<>> THEN 16 ELSE 0)
  IN (IF smsc = <<>> THEN <<0>> ELSE <<(Ceil(Len(smsc), 2) + 1) % 256, 145>> \o DigitOctets(smsc))
     \o <<flags, 0, Len(dest) % 256, 145>> \o DigitOctets(dest) \o <<0, m.coding>> \o vp

EncodeOneSegment(m, dest, units, concat) ==
  LET udh == ConcatUdh(concat)
      skip == UdhSeptets(Len(udh))
      octets == IF CodingOf(m.coding) = "ucs2" THEN Octets(units) ELSE units
      user_data ==
        IF CodingOf(m.coding) # "gsm7" THEN <<Len(udh) + Len(octets)>> \o udh \o octets
        ELSE IF concat = <<>> THEN <<Len(units)>> \o Encode7bit(units)
        ELSE <<skip + Len(units)>> \o AppendPacked7bitAt(udh, units, 7 * skip)
  IN BytesToHex(SubmitHeader(m, dest, concat # <<>>) \o user_data)

\* The text in the units of its coding.
Units(m) ==
  CASE CodingOf(m.coding) = "gsm7" -> Utf8ToGsm7(m.user_data)
    [] CodingOf(m.coding) = "ucs2" -> EncodeUcs2(m.user_data)
    [] OTHER -> Ok(m.user_data)

FitsOne(m) == Len(Units(m).out) <= Capacity(CodingOf(m.coding), UserDataOctets)

Encode(m) ==
  LET dest == NormalizeAddressDigits(m.peer_address)
  IN IF dest = <<>> THEN Fails("InvalidArgument")
     ELSE IF Units(m).ec # "Ok" THEN Units(m)
     ELSE IF FitsOne(m) THEN Ok(EncodeOneSegment(m, dest, Units(m).out, <<>>))
     ELSE Fails("EncodeFailure")

\* All the parts have one reference.
EncodeSegments(m) ==
  LET dest == NormalizeAddressDigits(m.peer_address)
      chunks == Concat!Chunks(CodingOf(m.coding), Units(m).out)
      ref == Concat!ConcatRef([concat_ref |-> m.concat_ref, text |-> m.user_data])
  IN IF dest = <<>> THEN Fails("InvalidArgument")
     ELSE IF Units(m).ec # "Ok" THEN Units(m)
     ELSE IF FitsOne(m) THEN Ok(<<EncodeOneSegment(m, dest, Units(m).out, <<>>)>>)
     ELSE IF Len(chunks) > Concat!MaxParts THEN Fails("EncodeFailure")
     ELSE Ok([i \in DOMAIN chunks |->
                EncodeOneSegment(m, dest, chunks[i], <<ref, Len(chunks), i>>)])

\* Mutant: the octet of the service centre's length is counted too.
LengthWithSmscLen(hex) == Len(hex) \div 2 - HexToBytes(SubSeq(hex, 1, 2)).out[1]

\* send_encoded_pdu announces the octets that follow the service centre.
CmgsLength(hex) ==
  LET smsc_len == HexToBytes(SubSeq(hex, 1, 2)).out[1]
  IN Len(hex) \div 2 - ((smsc_len + 1) % 256)

-----------------------------------------------------------------------------
(***************************************************************************)
(* Decoding.  Every length is checked before what it counts is read.       *)
(***************************************************************************)
NoMessage ==
  [ec |-> "Ok", service_center |-> <<>>, peer_address |-> <<>>, coding |-> Ucs2,
   request_status_report |-> FALSE, validity |-> -1, service_timestamp |-> <<>>,
   has_udh |-> FALSE, is_concatenated |-> FALSE, concat_ref |-> 0, concat_total |-> 0,
   concat_seq |-> 0, user_data |-> <<>>, is_status_report |-> FALSE,
   message_reference |-> 0, tp_status |-> 0, discharge_time |-> <<>>]

DecodeError(code) == [NoMessage EXCEPT !.ec = code]

\* The octets of b from the place i on, n of them.
Span(b, i, n) == SubSeq(b, i, i + n - 1)

\* An address at i: the number of its digits, a type that is skipped, the digits.
AddressEnd(b, i) == i + 2 + Ceil(b[i], 2)     \* the place after it
HasAddress(b, i) == i < Len(b) /\ AddressEnd(b, i) <= Len(b) + 1
Address(b, i) ==
  LET digits == OctetDigits(Span(b, i + 2, Ceil(b[i], 2)))
  IN SubSeq(digits, 1, IF b[i] < Len(digits) THEN b[i] ELSE Len(digits))

ServiceCenter(b) == IF b[1] = 0 THEN <<>> ELSE OctetDigits(Span(b, 3, b[1] - 1))

\* Mutant: only the first element of the header is looked at.
ParseFirstElement(udh) ==
  IF Len(udh) < 6 \/ <<udh[2], udh[3]>> # <<0, 3>> THEN <<>> ELSE <<udh[4], udh[5], udh[6]>>

\* parse_concat_from_udh: reference, total and number of the first concat element.
\* An element that would end after the header ends the search.
ParseConcatFromUdh(udh) ==
  LET from[i \in 2..(Len(udh) + 1)] ==
        IF i + 1 > Len(udh) \/ i + 1 + udh[i + 1] > Len(udh) THEN <<>>
        ELSE IF udh[i] = 0 /\ udh[i + 1] = 3 THEN SubSeq(udh, i + 2, i + 4)
        ELSE IF udh[i] = 8 /\ udh[i + 1] = 4
          THEN <<256 * udh[i + 2] + udh[i + 3], udh[i + 4], udh[i + 5]>>
        ELSE from[i + 2 + udh[i + 1]]
  IN from[2]

\* Mutants: the septets a header takes are rounded down; as many are decoded as are
\* there.
UserTextRoundedDown(coding, ud, udl, udh) ==
  LET skip == (8 * udh) \div 7
  IN IF coding # "gsm7" \/ Ceil(7 * udl, 8) > Len(ud) THEN Fails("DecodeFailure")
     ELSE Gsm7ToUtf8(SubSeq(Decode7bit(ud, udl), skip + 1, udl))
UserTextAsFound(coding, ud, udl, udh) ==
  LET octets == SubSeq(ud, udh + 1, Len(ud))
      septets == Decode7bit(ud, udl)
  IN IF coding = "ucs2" THEN DecodeUcs2(octets)
     ELSE IF coding = "8bit" THEN Ok(octets)
     ELSE Gsm7ToUtf8(SubSeq(septets, UdhSeptets(udh) + 1, Len(septets)))

\* The text in the user data ud: udl counts its septets or octets, the first udh
\* octets are the header.
UserText(coding, ud, udl, udh) ==
  IF coding = "gsm7"
    THEN IF Ceil(7 * udl, 8) > Len(ud) \/ UdhSeptets(udh) > udl THEN Fails("DecodeFailure")
         ELSE Gsm7ToUtf8(SubSeq(Decode7bit(Span(ud, 1, Ceil(7 * udl, 8)), udl),
                                UdhSeptets(udh) + 1, udl))
  ELSE IF udl < udh \/ Len(ud) < udl THEN Fails("DecodeFailure")
  ELSE IF coding = "ucs2" THEN DecodeUcs2(SubSeq(ud, udh + 1, udl))
  ELSE Ok(SubSeq(ud, udh + 1, udl))

\* A header is there, and ends inside the user data.
HeaderFits(ud, udhi) == udhi => ud # <<>> /\ ud[1] + 1 <= Len(ud)

\* Mutant: TP-SRI of an SMS-DELIVER is taken for TP-SRR.
HasReportBit(first) == Bit(first, 5) = 1

RequestsReport(first) == first % 4 = 1 /\ Bit(first, 5) = 1

\* SMS-SUBMIT or SMS-DELIVER, whose first octet is at the place i.
DecodeMessage(b, i) ==
  LET submit == b[i] % 4 = 1
      vpf == (b[i] \div 8) % 4
      udhi == Bit(b[i], 6) = 1
      addr == IF submit THEN i + 2 ELSE i + 1
      pid == AddressEnd(b, addr)
      skipped == IF submit /\ vpf = 0 THEN 0 ELSE IF submit /\ vpf = 2 THEN 1 ELSE 7
      udl == pid + 2 + skipped
      ud == SubSeq(b, udl + 1, Len(b))
      udh == IF udhi THEN ud[1] + 1 ELSE 0
      concat == IF udhi THEN ParseConcatFromUdh(Span(ud, 1, udh)) ELSE <<>>
      text == UserText(CodingOf(b[pid + 1]), ud, b[udl], udh)
  IN IF ~(HasAddress(b, addr) /\ udl <= Len(b) /\ HeaderFits(ud, udhi))
       THEN DecodeError("DecodeFailure")
     ELSE IF text.ec # "Ok" THEN DecodeError(text.ec)
     ELSE [NoMessage EXCEPT
             !.service_center = ServiceCenter(b), !.peer_address = Address(b, addr),
             !.coding = b[pid + 1],
             !.request_status_report = RequestsReport(b[i]),
             !.validity = IF submit /\ vpf = 2 THEN b[pid + 2] ELSE -1,
             !.service_timestamp = IF submit THEN <<>> ELSE OctetDigits(Span(b, pid + 2, 7)),
             !.has_udh = udhi,
             !.is_concatenated = concat # <<>>,
             !.concat_ref = IF concat = <<>> THEN 0 ELSE concat[1],
             !.concat_total = IF concat = <<>> THEN 0 ELSE concat[2],
             !.concat_seq = IF concat = <<>> THEN 0 ELSE concat[3],
             !.user_data = text.out]

\* Mutant: the octet of the indicator is taken for the length of the user data.
ParametersWithoutPi(m, b, i) ==
  IF i > Len(b) THEN m
  ELSE LET text == UserText("8bit", SubSeq(b, i + 1, Len(b)), b[i], 0)
       IN IF text.ec = "Ok" THEN m ELSE DecodeError(text.ec)

\* What follows the status, as its first octet, TP-PI, announces it: TP-PID,
\* TP-DCS, user data.
DecodeParameters(m, b, i) ==
  LET has(bit) == Bit(b[i], bit) = 1
      dcs == IF has(0) THEN i + 2 ELSE i + 1
      udl == IF has(1) THEN dcs + 1 ELSE dcs
      coding == IF has(1) THEN b[dcs] ELSE m.coding
      text == UserText(CodingOf(coding), SubSeq(b, udl + 1, Len(b)), b[udl], 0)
  IN IF i > Len(b) THEN m
     ELSE IF (IF has(2) THEN udl ELSE udl - 1) > Len(b) THEN DecodeError("DecodeFailure")
     ELSE IF ~has(2) THEN [m EXCEPT !.coding = coding]
     ELSE IF text.ec # "Ok" THEN DecodeError(text.ec)
     ELSE [m EXCEPT !.coding = coding, !.user_data = text.out]

\* SMS-STATUS-REPORT: reference, recipient, two times of 7 octets, status.
DecodeStatusReport(b, i) ==
  LET at == AddressEnd(b, i + 2)
  IN IF ~(HasAddress(b, i + 2) /\ at + 14 <= Len(b)) THEN DecodeError("DecodeFailure")
     ELSE DecodeParameters(
            [NoMessage EXCEPT
               !.is_status_report = TRUE, !.service_center = ServiceCenter(b),
               !.message_reference = b[i + 1], !.peer_address = Address(b, i + 2),
               !.service_timestamp = OctetDigits(Span(b, at, 7)),
               !.discharge_time = OctetDigits(Span(b, at + 7, 7)),
               !.tp_status = b[at + 14]], b, at + 15)

Decode(hex) ==
  LET bytes == HexToBytes(hex)
      b == bytes.out
      tpdu == b[1] + 2
  IN IF bytes.ec # "Ok" THEN DecodeError(bytes.ec)
     ELSE IF b = <<>> \/ tpdu > Len(b) THEN DecodeError("DecodeFailure")
     ELSE IF b[tpdu] % 4 = 2 THEN DecodeStatusReport(b, tpdu)
     ELSE DecodeMessage(b, tpdu)
=============================================================================
