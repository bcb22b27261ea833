----------------------------- MODULE ConcatSms -----------------------------
(***************************************************************************)
(* Long messages: PduCodec::encode_segments cuts a text into parts, and    *)
(* reassemble_messages puts listed parts together again.                   *)
(*                                                                         *)
(* A text is a sequence of units: septets, UTF-16 units or octets, as the  *)
(* coding has it.  A character is one unit, or two: ESC and a code of the  *)
(* extension table, or a surrogate pair.  Where units are abstract, the    *)
(* two are "hi" and "lo".                                                  *)
(* peer is the sender of a part, as its receiver sees it.                  *)
(***************************************************************************)
EXTENDS Integers, FiniteSets, SequencesExt

CONSTANTS
  Width,        \* bits of the reference and of the part numbers, 8 in the code
  SingleLimit,  \* units of a message without UDH, for each coding
  PartLimit,    \* units of a part
  FirstHalf,    \* the units that begin a character of two, for each coding
  Value         \* what a unit adds to the checksum

Codings == {"gsm7", "ucs2", "8bit"}

ASSUME WidthAssumption == Width \in Nat \ {0}
ASSUME LimitAssumption ==
  \A c \in Codings : /\ PartLimit[c] \in Nat /\ SingleLimit[c] \in Nat
                     /\ 2 <= PartLimit[c] /\ PartLimit[c] <= SingleLimit[c]

MaxParts == 2^Width - 1

-----------------------------------------------------------------------------
(***************************************************************************)
(* Sending.                                                                *)
(***************************************************************************)
\* Mutant: a part may end between the units of a character.
ChunkEndAnywhere(coding, text, start) == Min({start + PartLimit[coding], Len(text)})

\* Where the part that begins after start units ends.  A part that is not the
\* last never ends in the first half of a character; 8-bit text has none.
ChunkEnd(coding, text, start) ==
  LET end == Min({start + PartLimit[coding], Len(text)})
  IN IF end < Len(text) /\ text[end] \in FirstHalf[coding] THEN end - 1 ELSE end

Chunks(coding, text) ==
  LET from[start \in 0..Len(text)] ==
        IF start = Len(text) THEN <<>>
        ELSE LET end == ChunkEnd(coding, text, start)
             IN <<SubSeq(text, start + 1, end)>> \o from[end]
  IN from[0]

\* make_concat_ref: the low bits of the caller's reference, or a checksum of
\* the text that is never 0.
ConcatRef(m) ==
  LET sum[n \in 0..Len(m.text)] ==
        IF n = 0 THEN 0 ELSE (sum[n - 1] + Value[m.text[n]]) % 2^Width
  IN IF m.concat_ref # 0 THEN m.concat_ref % 2^Width
     ELSE IF sum[Len(m.text)] = 0 THEN 1 ELSE sum[Len(m.text)]

\* encode_segments: the parts of a message, or none when it needs too many.
EncodeSegments(m) ==
  LET chunks == Chunks(m.coding, m.text)
  IN IF Len(m.text) <= SingleLimit[m.coding]
       THEN <<[peer |-> m.peer, coding |-> m.coding, concat |-> FALSE,
               ref |-> 0, total |-> 0, seq |-> 0, data |-> m.text]>>
     ELSE IF Len(chunks) > MaxParts THEN <<>>
     ELSE [i \in DOMAIN chunks |->
             [peer |-> m.peer, coding |-> m.coding, concat |-> TRUE,
              ref |-> ConcatRef(m), total |-> Len(chunks), seq |-> i, data |-> chunks[i]]]

-----------------------------------------------------------------------------
(***************************************************************************)
(* Receiving: decode a part's text, then join the parts of one message.    *)
(***************************************************************************)
\* Half a surrogate pair makes the part unreadable; after a lone ESC, or
\* without it, and for a lone second half, other characters appear.
Readable(coding, data) ==
  coding = "ucs2" =>
    \A i \in DOMAIN data : data[i] = "hi" => i < Len(data) /\ data[i + 1] = "lo"

DecodeText(coding, data) ==
  IF coding = "8bit" THEN data
  ELSE [i \in DOMAIN data |->
          IF \/ data[i] = "hi" /\ i = Len(data)
             \/ data[i] = "lo" /\ (i = 1 \/ data[i - 1] # "hi")
            THEN "broken" ELSE data[i]]

IsConcatSegment(m) == m.concat /\ 0 < m.seq /\ m.seq <= m.total

\* Mutant: parts of different senders fall into one group.
KeyWithoutPeer(m) == <<m.ref, m.total, m.coding>>

ConcatGroupKey(m) == <<m.peer, m.ref, m.total, m.coding>>

SameGroup(m, n) == IsConcatSegment(n) /\ ConcatGroupKey(m) = ConcatGroupKey(n)

\* The first part with its number in its group joins the group; a later one
\* with the same number stays an entry of its own.
Joins(s, i) ==
  /\ IsConcatSegment(s[i])
  /\ \A j \in 1..(i - 1) : SameGroup(s[i], s[j]) => s[j].seq # s[i].seq

Bucket(s, i) == {j \in DOMAIN s : Joins(s, j) /\ SameGroup(s[i], s[j])}
PartAt(s, i, seq) == s[CHOOSE j \in Bucket(s, i) : s[j].seq = seq]

\* The numbers the loop over the parts asks for.  Its counter has Width bits:
\* at the largest total it goes on from there to 0, which no part has.
SeqsVisited(total) == IF total = MaxParts THEN 0..total ELSE 1..total

Complete(s, i) ==
  /\ Cardinality(Bucket(s, i)) = s[i].total
  /\ \A seq \in SeqsVisited(s[i].total) : \E j \in Bucket(s, i) : s[j].seq = seq

\* Mutant: the message keeps the index of its last part.
MergeKeepingLast(s, i) ==
  LET total == s[i].total
  IN [PartAt(s, i, 1) EXCEPT
        !.seq = 0,
        !.data = FlattenSeq([seq \in 1..total |-> PartAt(s, i, seq).data]),
        !.index = PartAt(s, i, total).index]

\* merge_concat_group.  The index is the lowest of the parts'.
MergeConcatGroup(s, i) ==
  [PartAt(s, i, 1) EXCEPT
     !.seq = 0,
     !.data = FlattenSeq([seq \in 1..s[i].total |-> PartAt(s, i, seq).data]),
     !.index = Min({s[j].index : j \in Bucket(s, i)})]

\* The group of the entry i: one message, or its parts in order of number.
Group(s, i) ==
  LET parts == [seq \in 1..s[i].total |->
                  IF \E j \in Bucket(s, i) : s[j].seq = seq THEN <<PartAt(s, i, seq)>> ELSE <<>>]
  IN IF Complete(s, i) THEN <<MergeConcatGroup(s, i)>> ELSE FlattenSeq(parts)

\* Mutant: a second part with the same number is dropped.
SlotWithoutDuplicates(s, i) ==
  IF ~IsConcatSegment(s[i]) THEN <<s[i]>>
  ELSE IF Joins(s, i) /\ i = Min(Bucket(s, i)) THEN Group(s, i) ELSE <<>>

\* What the list has for the entry i: the whole group where its first part
\* was, nothing for its other parts, and the entry itself if it joins none.
Slot(s, i) ==
  IF ~Joins(s, i) THEN <<s[i]>>
  ELSE IF i = Min(Bucket(s, i)) THEN Group(s, i) ELSE <<>>

ReassembleMessages(s) == FlattenSeq([i \in DOMAIN s |-> Slot(s, i)])
=============================================================================
