------------------------------ MODULE PduPath ------------------------------
(***************************************************************************)
(* A message's way through the C API: ct_pdu_encode_submit_segments_ex or  *)
(* ct_pdu_encode_submit_ex makes PDUs of it; the network (external) makes  *)
(* SMS-DELIVERs of the parts and status reports about them; the receiver   *)
(* decodes them one by one, or lists them with ct_modem_list.  PDUs of     *)
(* other phones arrive too, and text of a PDU may be cut off.              *)
(***************************************************************************)
EXTENDS PduCodec

CONSTANTS
  Requests,   \* arguments of the encode calls
  Phones,     \* what other phones send: udh, dcs, text and, if any, concat
  TextCap     \* octets of ct_message's user_data, 512 in the code

\* One message always fits: a septet is at most two octets of UTF-8, or three
\* with its Esc, and a unit of UTF-16 three.
ASSUME TextCapAssumption == TextCap > 2 * Capacity("gsm7", UserDataOctets)

\* Any text and numbers, of any characters: what a caller can pass.
ASSUME RequestAssumption ==
  \A a \in Requests :
    /\ a.smsc \in Seq(Nat) /\ a.destination \in Seq(Nat) /\ a.text \in Seq(0..255)
    /\ a.dcs \in Int /\ a.vp \in Int /\ a.srr \in Int /\ a.cap \in Nat

VARIABLES
  call,   \* the encode call made, its status and the lines of out_hex
  air,    \* PDUs on their way or at the receiver, with the part they carry
  read    \* the receiver's call, its status and what it filled

vars == <<call, air, read>>

NoCall == [args |-> <<>>, status |-> "none", lines |-> <<>>]
NotRead == [fn |-> "none", status |-> "none", out |-> <<>>]

Init == call = NoCall /\ air = <<>> /\ read = NotRead

-----------------------------------------------------------------------------
(***************************************************************************)
(* The sender.                                                             *)
(***************************************************************************)
MapError(ec) ==
  CASE ec = "Ok" -> "CT_OK" [] ec = "InvalidArgument" -> "CT_ERR_INVALID_ARGUMENT"
    [] ec = "EncodeFailure" -> "CT_ERR_ENCODE" [] ec = "DecodeFailure" -> "CT_ERR_DECODE"
    [] OTHER -> "CT_ERR_UNKNOWN"

\* An unknown dcs is UCS-2.
MapDcs(dcs) == IF dcs \in {0, 4} THEN dcs ELSE Ucs2

OptionsValid(a) == a.vp \in -1..255

MessageOf(a) ==
  [service_center |-> a.smsc, peer_address |-> a.destination, user_data |-> a.text,
   coding |-> MapDcs(a.dcs), concat_ref |-> 0, validity |-> a.vp,
   request_status_report |-> a.srr # 0]

\* The lines are separated by a newline and end with a NUL.
RoomFor(lines) == Sum([i \in DOMAIN lines |-> Len(lines[i]) + 1], DOMAIN lines)

EncodeInto(a, encoded) ==
  LET status ==
        IF ~OptionsValid(a) THEN "CT_ERR_INVALID_ARGUMENT"
        ELSE IF encoded.ec = "Ok" /\ RoomFor(encoded.out) > a.cap THEN "CT_ERR_ENCODE"
        ELSE MapError(encoded.ec)
  IN /\ call = NoCall /\ air = <<>>
     /\ call' = [args |-> a, status |-> status,
                 lines |-> IF status = "CT_OK" THEN encoded.out ELSE <<>>]
     /\ UNCHANGED <<air, read>>

CtPduEncodeSubmitSegmentsEx ==
  \E a \in Requests : EncodeInto(a, EncodeSegments(MessageOf(a)))

CtPduEncodeSubmitEx ==
  \E a \in Requests :
    LET pdu == Encode(MessageOf(a))
    IN EncodeInto(a, [pdu EXCEPT !.out = <<pdu.out>>])

-----------------------------------------------------------------------------
(***************************************************************************)
(* The network and other phones (external).                                *)
(***************************************************************************)
Sender == <<7, 0, 1>>
Centre == <<4, 4, 9, 9>>
Time == <<4, 2, 1, 0, 1, 1, 2, 1, 3, 4, 5, 6, 0, 8>>
Later == <<4, 2, 1, 0, 1, 2, 2, 1, 3, 4, 5, 6, 0, 8>>
Centred(tpdu) == BytesToHex(<<3, 145>> \o DigitOctets(Centre) \o tpdu)

Put(kind, part, hex) ==
  /\ air' = Append(air, [kind |-> kind, part |-> part, hex |-> hex, cut |-> FALSE])
  /\ UNCHANGED <<call, read>>

DeliverPdu(flags, dcs, user_data) ==
  Centred(<<flags, Len(Sender), 145>> \o DigitOctets(Sender) \o <<0, dcs>>
          \o DigitOctets(Time) \o user_data)

\* The network reads a submitted PDU and hands its user data on; TP-SRI, which
\* has TP-SRR's place, may be set.
Delivered(hex, sri) ==
  LET b == HexToBytes(hex).out
      first == b[b[1] + 2]
      pid == AddressEnd(b, b[1] + 4)
  IN DeliverPdu(64 * Bit(first, 6) + 32 * sri, b[pid + 1],
                SubSeq(b, pid + 2 + Bit(first, 4), Len(b)))

Fresh == read = NotRead /\ \A i \in DOMAIN air : air[i].kind = "deliver" /\ ~air[i].cut

Transfer ==
  /\ air = <<>>
  /\ \E i \in DOMAIN call.lines : Put("submit", i, call.lines[i])

Deliver ==
  /\ Fresh
  /\ \E i \in DOMAIN call.lines, sri \in {0, 1} :
       /\ \A j \in DOMAIN air : air[j].part # i
       /\ air # <<>> => sri = 0
       /\ Put("deliver", i, Delivered(call.lines[i], sri))

ReportPdu(reference, parameters) ==
  LET dest == NormalizeAddressDigits(call.args.destination)
  IN Centred(<<2, reference, Len(dest), 145>> \o DigitOctets(dest) \o DigitOctets(Time)
             \o DigitOctets(Later) \o <<48>> \o parameters)

\* A number too long for the octet of its length is nobody's.
Report ==
  /\ air = <<>>
  /\ \E i \in DOMAIN call.lines, parameters \in {<<>>, <<0>>, <<7, 0, 0, 1, 97>>} :
       /\ Len(call.args.destination) < 256
       /\ Put("report", i, ReportPdu(i, parameters))

PhoneData(p) ==
  LET udh == IF p.udh = <<>> THEN <<>> ELSE <<Len(p.udh)>> \o p.udh
      septets == Utf8ToGsm7(p.text).out
      skip == UdhSeptets(Len(udh))
      octets == IF p.dcs = Ucs2 THEN Octets(EncodeUcs2(p.text).out) ELSE p.text
  IN IF p.dcs = Gsm7Bit
       THEN <<skip + Len(septets)>> \o AppendPacked7bitAt(udh, septets, 7 * skip)
       ELSE <<Len(udh) + Len(octets)>> \o udh \o octets

PhonePdu(p) == DeliverPdu(IF p.udh = <<>> THEN 0 ELSE 64, p.dcs, PhoneData(p))

\* Phones send octets, no more than a message has.
ASSUME PhoneAssumption ==
  \A p \in Phones : /\ p.udh \in Seq(0..255) /\ p.text \in Seq(0..255) /\ p.dcs \in 0..255
                    /\ Len(p.udh) < UserDataOctets /\ PhoneData(p)[1] < 256

OtherPhone ==
  /\ call = NoCall /\ air = <<>>
  /\ \E p \in Phones : Put("phone", p, PhonePdu(p))

\* The end of a PDU is lost.
Cut ==
  /\ Len(air) = 1 /\ read = NotRead /\ ~air[1].cut
  /\ \E n \in 0..(Len(air[1].hex) - 1) :
       air' = <<[air[1] EXCEPT !.cut = TRUE, !.hex = SubSeq(@, 1, n)]>>
  /\ UNCHANGED <<call, read>>

-----------------------------------------------------------------------------
(***************************************************************************)
(* The receiver.                                                           *)
(***************************************************************************)
FieldCap == 32
CopyField(src, cap) == SubSeq(src, 1, IF Len(src) < cap THEN Len(src) ELSE cap - 1)

FillMessage(m) ==
  [dcs |-> m.coding, has_udh |-> m.has_udh, is_concatenated |-> m.is_concatenated,
   concat_ref |-> m.concat_ref, concat_total |-> m.concat_total, concat_seq |-> m.concat_seq,
   service_center |-> CopyField(m.service_center, FieldCap),
   peer_address |-> CopyField(m.peer_address, FieldCap),
   service_timestamp |-> CopyField(m.service_timestamp, FieldCap),
   user_data |-> CopyField(m.user_data, TextCap)]

FillStatusReport(m) ==
  [message_reference |-> m.message_reference, tp_status |-> m.tp_status,
   recipient_address |-> CopyField(m.peer_address, FieldCap),
   service_timestamp |-> CopyField(m.service_timestamp, FieldCap),
   discharge_time |-> CopyField(m.discharge_time, FieldCap)]

Reads(fn, status, out) ==
  /\ read = NotRead
  /\ read' = [fn |-> fn, status |-> status, out |-> out]
  /\ UNCHANGED <<call, air>>

CtPduDecode ==
  /\ Len(air) = 1
  /\ LET m == Decode(air[1].hex)
     IN Reads("decode", MapError(m.ec), IF m.ec = "Ok" THEN <<FillMessage(m)>> ELSE <<>>)

\* Mutant: whatever decodes is taken for a report.
AnyAsReport(m) == m.ec

ReportError(m) == IF m.ec = "Ok" /\ ~m.is_status_report THEN "DecodeFailure" ELSE m.ec

CtPduDecodeStatusReport ==
  /\ Len(air) = 1
  /\ LET m == Decode(air[1].hex)
         ec == ReportError(m)
     IN Reads("report", MapError(ec), IF ec = "Ok" THEN <<FillStatusReport(m)>> ELSE <<>>)

\* A decoded message as reassemble_messages looks at it, and back.
Grouped(m, i) ==
  [message |-> m, index |-> i, peer |-> m.peer_address, coding |-> m.coding,
   concat |-> m.is_concatenated, ref |-> m.concat_ref, total |-> m.concat_total,
   seq |-> m.concat_seq, data |-> m.user_data]
Ungrouped(e) == [e.message EXCEPT !.concat_seq = e.seq, !.user_data = e.data]

CtModemList ==
  /\ air # <<>> /\ \A i \in DOMAIN air : air[i].kind \in {"deliver", "phone"} /\ ~air[i].cut
  /\ LET decodes(e) == e.message.ec = "Ok"
         entries == SelectSeq([i \in DOMAIN air |-> Grouped(Decode(air[i].hex), i)], decodes)
         list == Concat!ReassembleMessages(entries)
     IN Reads("list", "CT_OK", [i \in DOMAIN list |-> FillMessage(Ungrouped(list[i]))])

Next ==
  \/ CtPduEncodeSubmitSegmentsEx \/ CtPduEncodeSubmitEx
  \/ Transfer \/ Deliver \/ Report \/ OtherPhone \/ Cut
  \/ CtPduDecode \/ CtPduDecodeStatusReport \/ CtModemList

Spec == Init /\ [][Next]_vars

-----------------------------------------------------------------------------
\* Text that is UTF-8 of characters, as the code's reading of it does not check.
IsUtf8(text) ==
  LET cps == CodePoints(text)
  IN /\ cps.ec = "Ok"
     /\ \A i \in DOMAIN cps.out : cps.out[i] \notin HighSurrogates \union LowSurrogates
     /\ FlattenSeq([i \in DOMAIN cps.out |-> Utf8(cps.out[i])]) = text

\* The lengths of the addresses fit their octets.
AddressesFit(a) == Len(a.destination) < 256 /\ Len(a.smsc) < 256

\* The arguments have a text, too.
Sound(a) == (MapDcs(a.dcs) = 4 \/ IsUtf8(a.text)) /\ AddressesFit(a)

\* What an encode call returns as PDUs are SMS-SUBMITs that decode to the call's
\* arguments, the options of every part included; several parts are numbered and
\* say how many they are.
SubmitReadsBack ==
  call.status = "CT_OK" /\ Sound(call.args) =>
    \A i \in DOMAIN call.lines :
      LET m == MessageOf(call.args)
          part == Decode(call.lines[i])
      IN /\ part.ec = "Ok"
         /\ part.peer_address = NormalizeAddressDigits(m.peer_address)
         /\ part.service_center = NormalizeAddressDigits(m.service_center)
         /\ part.coding = m.coding /\ part.validity = m.validity
         /\ part.request_status_report = m.request_status_report
         /\ <<part.concat_seq, part.concat_total>> =
              IF Len(call.lines) = 1 THEN <<0, 0>> ELSE <<i, Len(call.lines)>>

\* The texts of the parts, joined in order, are the text of the call.
TextReadsBack ==
  call.status = "CT_OK" /\ Sound(call.args) =>
    FlattenSeq([i \in DOMAIN call.lines |-> Decode(call.lines[i]).user_data]) = call.args.text

\* The length AT+CMGS announces is that of the TPDU: the PDU without the service
\* centre, whose octets the modem counts by itself.
LengthAnnounced ==
  \A i \in DOMAIN call.lines :
    Len(call.args.smsc) < 256 =>
    LET digits == Len(NormalizeAddressDigits(call.args.smsc))
    IN CmgsLength(call.lines[i]) =
         Len(call.lines[i]) \div 2 - (IF digits = 0 THEN 1 ELSE 2 + Ceil(digits, 2))

Uncut(kind, fn) == Len(air) = 1 /\ air[1].kind = kind /\ ~air[1].cut /\ read.fn = fn

\* A delivered part reads like the submitted one: the same text, header and part
\* number, now of the sender, and no request for a report whatever TP-SRI says.
DeliveredAsSubmitted ==
  Uncut("deliver", "decode") /\ Sound(call.args) =>
    LET submitted == Decode(call.lines[air[1].part])
        out == read.out[1]
    IN /\ read.status = "CT_OK" /\ ~Decode(air[1].hex).request_status_report
       /\ out = [FillMessage(submitted) EXCEPT !.service_center = Centre,
                   !.peer_address = Sender, !.service_timestamp = Time]

\* The parts of a message, listed when all have arrived in any order, are one
\* message of the sender with the text of the call, as far as it fits.
ListedIsSent ==
  read.fn = "list" /\ Len(air) = Len(call.lines) /\ Sound(call.args) =>
    /\ Len(read.out) = 1
    /\ read.out[1].peer_address = Sender
    /\ read.out[1].user_data = CopyField(call.args.text, TextCap)
    /\ read.out[1].is_concatenated = (Len(air) > 1) /\ read.out[1].concat_seq = 0

\* A header with other elements before or after the concat element, of 8 or 16
\* bits: its numbers are found, and the text begins where the header ends.
HeaderRead ==
  Uncut("phone", "decode") =>
    LET p == air[1].part
        out == read.out[1]
    IN /\ read.status = "CT_OK" /\ out.user_data = p.text
       /\ out.is_concatenated = (p.concat # <<>>)
       /\ p.concat # <<>> =>
            <<out.concat_ref, out.concat_total, out.concat_seq>> = p.concat

\* ct_pdu_decode_status_report reads a report, with or without parameters after
\* the status: the reference, the number the message was sent to, as far as it
\* fits, and the times.
ReportRead ==
  Uncut("report", "report") =>
    /\ read.status = "CT_OK"
    /\ read.out[1] = [message_reference |-> air[1].part, tp_status |-> 48,
         recipient_address |-> CopyField(NormalizeAddressDigits(call.args.destination), FieldCap),
         service_timestamp |-> Time, discharge_time |-> Later]

\* A PDU was read, cut or whole, whose addresses fit.
WasRead(cut) == /\ read.fn # "none" /\ air[1].cut = cut
                /\ air[1].kind # "phone" => AddressesFit(call.args)

\* It refuses every other PDU, as one it cannot decode.
OthersRefused ==
  WasRead(FALSE) /\ read.fn = "report" /\ air[1].kind # "report" => read.status = "CT_ERR_DECODE"

\* No PDU that lost its end is decoded, not even in part, except a report that
\* lost all its parameters and looks whole.
CutRejected ==
  WasRead(TRUE) /\ read.status = "CT_OK" =>
    air[1].kind = "report" /\ air[1].hex = ReportPdu(air[1].part, <<>>)

\* "UTF-8 text fields" (c_api.h, ct_message): a text sent as UTF-8 is UTF-8 when
\* it is read.
TextFieldsAreUtf8 ==
  \A i \in DOMAIN read.out :
    read.fn = "list" /\ Sound(call.args) /\ read.out[i].dcs # 4 => IsUtf8(read.out[i].user_data)
=============================================================================
