--------------------------- MODULE MCSmsDelivery ---------------------------
EXTENDS SmsDelivery

\* Messages without UDH have up to 3 units and parts up to 2, so that texts of
\* 2 and of 3 parts are short; 160 and 153, 70 and 67, 140 and 134 in the code.
SmallSingle == [c \in Codings |-> 3]
SmallPart == [c \in Codings |-> 2]
FirstHalves == [c \in Codings |-> IF c = "8bit" THEN {} ELSE {"hi"}]

\* The checksum of "ab" is that of "ba", as of any permutation of a text.
Values == [u \in {"a", "b", "hi", "lo"} |-> CASE u = "a" -> 1 [] u = "b" -> 2 [] OTHER -> 3]

Message(peer, coding, ref, text) ==
  [peer |-> peer, coding |-> coding, concat_ref |-> ref, text |-> text]

\* The cut of the first text falls into a character, which leaves 3 parts; two
\* senders use one reference; "abab" and "baba" have the same checksum.
SmallMessages ==
  {Message("p", "gsm7", 0, <<"a", "hi", "lo", "b">>),
   Message("p", "gsm7", 0, <<"a", "b", "a", "b">>),
   Message("p", "gsm7", 0, <<"b", "a", "b", "a">>),
   Message("q", "gsm7", 0, <<"b", "a", "b", "a">>),
   Message("p", "ucs2", 6, <<"b", "hi", "lo", "a">>),
   Message("p", "8bit", 6, <<"a", "hi", "lo", "b">>),
   Message("p", "gsm7", 0, <<"a">>)}

\* Parts nobody joins: number 0, and a number above the total.
Stray(peer, ref, total, seq, data) ==
  [peer |-> peer, coding |-> "gsm7", concat |-> TRUE, ref |-> ref,
   total |-> total, seq |-> seq, data |-> data]
SmallStrays ==
  {Stray("p", 6, 2, 0, <<"a">>), Stray("p", 6, 2, 3, <<"b">>), Stray("p", 6, 2, 1, <<"hi">>)}

\* A text of as many parts as the numbers allow when Width is 2.
LongMessages == {Message("p", "gsm7", 1, <<"a", "b", "a", "b", "a">>)}
NoStrays == {}
=============================================================================
