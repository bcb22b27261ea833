------------------------------ MODULE UrcText ------------------------------
(***************************************************************************)
(* The text a GSM modem sends, and what GsmModem looks for in it:          *)
(* unsolicited result codes (URCs) at the start of a line, complete or     *)
(* still incomplete, and the final result of a command.                    *)
(*                                                                         *)
(* Text is a sequence of tokens, cut where the code's searches could tell  *)
(* the pieces apart.  A read may return any prefix of the tokens on the    *)
(* line, so a URC or a result can arrive in several pieces.                *)
(***************************************************************************)
EXTENDS Integers, SequencesExt

(***************************************************************************)
(* Token kinds.  "nl" is a CRLF; "cds", "cmt", "cmti" and "cdsi" are the   *)
(* tags +CDS: to +CDSI:; "num" is text that begins with a digit (the       *)
(* length of a PDU), "alpha" text of a URC that does not (the ,24 of       *)
(* +CMT: ,24); "pdu" is a line of PDU text, "text" an information line;    *)
(* "ok", "error" and "cms" (+CMS ERROR: n) are the final results and "gt"  *)
(* the prompt of AT+CMGS.                                                  *)
(*                                                                         *)
(* The number "of" is a mark the model puts on a token and the code never  *)
(* sees: on "ok", "error", "cms", "text" and "gt" the command it answers,  *)
(* on "pdu" the status report it holds, 0 when it decodes to none.         *)
(***************************************************************************)
TagKinds == {"cds", "cmt", "cmti", "cdsi"}
FinalResults == {"ok", "error", "cms"}
Tokens == [kind : TagKinds \union FinalResults
                    \union {"nl", "num", "alpha", "pdu", "text", "gt"},
           of : Nat]

Mark(kind, n) == [kind |-> kind, of |-> n]
Tok(kind) == Mark(kind, 0)
NL == Tok("nl")

-----------------------------------------------------------------------------
(***************************************************************************)
(* Searching.                                                              *)
(***************************************************************************)
IsLineStart(s, i) == i = 1 \/ s[i - 1].kind = "nl"

\* Every place a URC tag stands at the start of a line.
IsUrcTag(s, i) == s[i].kind \in TagKinds /\ IsLineStart(s, i)
UrcTags(s) == {i \in DOMAIN s : IsUrcTag(s, i)}

NewlinesAfter(s, i) == {j \in DOMAIN s : j > i /\ s[j].kind = "nl"}

\* A URC of two lines, header and PDU: +CDS: or +CMT: and then a digit.  When
\* the text ends with the tag there is no digit (yet).
HasLength(s, i) == s[i].kind \in {"cds", "cmt"} /\ i < Len(s) /\ s[i + 1].kind = "num"

HeaderEnd(s, i) == Min(NewlinesAfter(s, i))
UrcEnd(s, i) == IF HasLength(s, i) THEN Min(NewlinesAfter(s, HeaderEnd(s, i)))
                                   ELSE HeaderEnd(s, i)

\* A URC can be erased once its last line has ended.
UrcComplete(s, i) ==
  /\ NewlinesAfter(s, i) # {}
  /\ HasLength(s, i) => NewlinesAfter(s, HeaderEnd(s, i)) # {}

\* The status report a complete URC at i yields: it is a +CDS whose second line
\* is a PDU that decodes to one.  0 when there is none.
ReportAt(s, i) ==
  LET p == HeaderEnd(s, i) + 1
  IN IF s[i].kind = "cds" /\ HasLength(s, i) /\ UrcEnd(s, i) = p + 1 /\ s[p].kind = "pdu"
       THEN s[p].of
       ELSE 0

IsReport(n) == n # 0

\* The reports in complete URCs of s.
ReportsIn(s) == {n \in {ReportAt(s, i) : i \in {j \in UrcTags(s) : UrcComplete(s, j)}} : IsReport(n)}

-----------------------------------------------------------------------------
(***************************************************************************)
(* One turn of demux_urcs' loop: the URC whose tag comes first is erased   *)
(* when it is complete; when it is not, the loop ends and the text stays.  *)
(***************************************************************************)
FirstUrc(s) == Min(UrcTags(s))
CanErase(s) == UrcTags(s) # {} /\ UrcComplete(s, FirstUrc(s))

\* Mutants: the text after the URC goes too; only its first line goes.
EraseToEnd(s) == SubSeq(s, 1, FirstUrc(s) - 1)
EraseOneLine(s) == SubSeq(s, 1, FirstUrc(s) - 1)
                     \o SubSeq(s, HeaderEnd(s, FirstUrc(s)) + 1, Len(s))

EraseFirst(s) == SubSeq(s, 1, FirstUrc(s) - 1)
                   \o SubSeq(s, UrcEnd(s, FirstUrc(s)) + 1, Len(s))
ErasedReports(s) ==
  LET n == ReportAt(s, FirstUrc(s)) IN IF IsReport(n) THEN <<n>> ELSE <<>>

(***************************************************************************)
(* classify_response: a framed OK anywhere, or OK ending the text, wins    *)
(* over any error; +CMS ERROR needs no framing.                            *)
(***************************************************************************)
Framed(s, kind) ==
  \E i \in DOMAIN s :
    /\ s[i].kind = kind
    /\ i < Len(s) /\ s[i + 1].kind = "nl"
    /\ (i > 1 /\ s[i - 1].kind = "nl") \/ i + 1 = Len(s)

Holds(s, kind) == \E i \in DOMAIN s : s[i].kind = kind

ClassifyResponse(s) ==
  IF Framed(s, "ok") THEN "Ok"
  ELSE IF Framed(s, "error") \/ Holds(s, "cms") THEN "Error" ELSE "Wait"
=============================================================================
