---------------------------- MODULE SmsDelivery ----------------------------
(***************************************************************************)
(* Messages on their way from senders that use encode_segments to a        *)
(* receiver that lists its storage with parse_message_list.  The network   *)
(* (external) delivers the parts in any order, may lose them and may       *)
(* deliver one twice; other phones send parts with numbers of their own.   *)
(***************************************************************************)
EXTENDS ConcatSms

CONSTANTS
  Messages,   \* what may be sent: peer, coding, concat_ref and text
  MaxSent,    \* bound: messages sent
  MaxStored,  \* bound: entries of the receiver's storage
  Strays      \* parts of other phones

ASSUME BoundAssumption == MaxSent \in Nat /\ MaxStored \in Nat
ASSUME HalfAssumption ==
  \A c \in Codings : FirstHalf[c] = IF c = "8bit" THEN {} ELSE {"hi"}

\* The encoders make whole characters only.
WholeCharacters(coding, text) ==
  coding # "8bit" =>
    \A i \in DOMAIN text :
      /\ text[i] = "hi" => i < Len(text) /\ text[i + 1] = "lo"
      /\ text[i] = "lo" => i > 1 /\ text[i - 1] = "hi"

ASSUME MessageAssumption ==
  \A m \in Messages : /\ m.coding \in Codings /\ m.text \in Seq(DOMAIN Value)
                      /\ WholeCharacters(m.coding, m.text)

\* Strays alone make no whole message: what does was sent as one.
ASSUME StrayAssumption ==
  /\ \A p \in Strays : /\ p.coding \in Codings /\ p.concat \in BOOLEAN
                       /\ p.total \in 0..MaxParts /\ p.seq \in 0..MaxParts
                       /\ p.data \in Seq(DOMAIN Value)
  /\ \A p \in Strays : IsConcatSegment(p) =>
       \E seq \in 1..p.total : \A q \in Strays : SameGroup(p, q) => q.seq # seq

VARIABLES
  sent,     \* the messages sent; a message sent again has the same parts
  stored    \* the receiver's storage: the part at place i has index i

vars == <<sent, stored>>

Init == sent = {} /\ stored = <<>>

Submit ==
  /\ Cardinality(sent) < MaxSent
  /\ \E m \in Messages : EncodeSegments(m) # <<>> /\ sent' = sent \union {m}
  /\ UNCHANGED stored

Store(p) ==
  /\ Len(stored) < MaxStored
  /\ stored' = Append(stored, p)
  /\ UNCHANGED sent

Arrive == \E m \in sent : \E p \in ToSet(EncodeSegments(m)) : Store(p)

ArriveStray == \E p \in Strays : Store(p)

Next == Submit \/ Arrive \/ ArriveStray

Spec == Init /\ [][Next]_vars

-----------------------------------------------------------------------------
\* parse_message_list: decode each stored part, leave out those that fail,
\* and reassemble the rest.
Entry(i) ==
  LET p == stored[i]
  IN [peer |-> p.peer, coding |-> p.coding, concat |-> p.concat, ref |-> p.ref,
      total |-> p.total, seq |-> p.seq, index |-> i, data |-> DecodeText(p.coding, p.data)]

Entries ==
  LET Decoded(p) == Readable(p.coding, p.data)
  IN FlattenSeq([i \in DOMAIN stored |->
                   IF Decoded(stored[i]) THEN <<Entry(i)>> ELSE <<>>])

Listed == ReassembleMessages(Entries)

IsReassembled(m) == m.concat /\ m.seq = 0 /\ m.total > 0

-----------------------------------------------------------------------------
PartsStored(m) == ToSet(EncodeSegments(m)) \subseteq ToSet(stored)

\* No part of another text has come with the sender, the coding and the numbers
\* of m: nothing in such a part tells them apart.
Undisturbed(m) ==
  LET parts == EncodeSegments(m)
      alike(p) == /\ p.peer = m.peer /\ p.coding = m.coding
                  /\ p.ref = parts[1].ref /\ p.total = parts[1].total
  IN \A p \in ToSet(stored) : IsConcatSegment(p) /\ alike(p) => p \in ToSet(parts)

SameText(e, m) == e.peer = m.peer /\ e.coding = m.coding /\ e.data = m.text

\* An entry that is a whole message.  A part that arrives with the number 0 looks
\* like one: it is left out.
IsWhole(e) == IsReassembled(e) /\ stored[e.index].seq # 0

\* "Messages with complete groups merged" (pdu.hpp): when all the parts of a
\* long message have arrived, in any order and some of them twice, its group is
\* listed once as a whole, with the text as it was sent.
CompleteSetsJoined ==
  LET list == Listed
  IN \A m \in sent :
       Len(EncodeSegments(m)) > 1 /\ PartsStored(m) /\ Undisturbed(m) =>
         LET key == ConcatGroupKey(EncodeSegments(m)[1])
             whole == {i \in DOMAIN list : IsWhole(list[i]) /\ ConcatGroupKey(list[i]) = key}
         IN \E i \in DOMAIN list : whole = {i} /\ SameText(list[i], m)

\* How often a unit is in the text of a peer.
Count(s, peer, u) ==
  LET text == FlattenSeq([i \in DOMAIN s |-> IF s[i].peer = peer THEN s[i].data ELSE <<>>])
  IN Cardinality({j \in DOMAIN text : text[j] = u})

\* Nothing that was decoded is missing from the list, nothing is listed twice
\* and nothing goes to another sender: of each peer the result of
\* reassemble_messages has each unit of text as often as the entries have.
NothingDropped ==
  LET entries == Entries
      list == ReassembleMessages(entries)
  IN \A peer \in {m.peer : m \in Messages}, u \in DOMAIN Value \union {"broken"} :
       Count(list, peer, u) = Count(entries, peer, u)

\* A message that is listed as a whole was sent as a whole, unless parts of
\* another text with the same key have come to its receiver.
JoinedIsSent ==
  LET list == Listed
  IN \A i \in DOMAIN list :
       IsWhole(list[i]) /\ (\A m \in sent : Undisturbed(m)) =>
         \E m \in sent : SameText(list[i], m)

\* "order preserved for non-grouped items and for the first segment of each
\* group" (pdu.hpp): whole messages and entries that are part of none come in
\* the order of their indices, and no two have the same.
ListedInOrder ==
  LET list == Listed
  IN \A i, j \in DOMAIN list :
       i < j /\ ~IsConcatSegment(list[i]) /\ ~IsConcatSegment(list[j])
         => list[i].index < list[j].index
=============================================================================
