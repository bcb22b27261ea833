----------------------------- MODULE UrcDemux -----------------------------
(***************************************************************************)
(* demux_urcs applied again and again to one growing buffer, as            *)
(* poll_response does: a chunk is appended, then the loop erases complete  *)
(* URCs until it meets an incomplete one.  The text may be anything, well  *)
(* formed or not.                                                          *)
(***************************************************************************)
EXTENDS UrcText

CONSTANTS
  Alphabet,   \* the tokens the text is made of
  MaxLen      \* bound: its length

ASSUME AlphabetAssumption == Alphabet \subseteq Tokens /\ MaxLen \in Nat

VARIABLES
  text,   \* all that arrives
  fed,    \* how much of it has been appended to the buffer
  buf,    \* ResponseBuffer.data
  out     \* the reports decoded

vars == <<text, fed, buf, out>>

Init ==
  /\ text \in BoundedSeq(Alphabet, MaxLen)
  /\ fed = 0 /\ buf = <<>> /\ out = <<>>

Feed ==
  /\ ~CanErase(buf)
  /\ \E n \in (fed + 1)..Len(text) :
       /\ buf' = buf \o SubSeq(text, fed + 1, n)
       /\ fed' = n
  /\ UNCHANGED <<text, out>>

Erase ==
  /\ CanErase(buf)
  /\ buf' = EraseFirst(buf)
  /\ out' = out \o ErasedReports(buf)
  /\ UNCHANGED <<text, fed>>

Next == Feed \/ Erase

Spec == Init /\ [][Next]_vars

-----------------------------------------------------------------------------
\* What the loop makes of a text that arrives in one piece.
Turn(d) ==
  IF CanErase(d.buf)
    THEN [buf |-> EraseFirst(d.buf), out |-> d.out \o ErasedReports(d.buf)]
    ELSE d
AtOnce(s) ==
  LET after[k \in 0..Len(s)] ==
        IF k = 0 THEN [buf |-> s, out |-> <<>>] ELSE Turn(after[k - 1])
  IN after[Len(s)]

\* "Incomplete trailing URC fragments are left in stream" (modem.hpp), so the
\* pieces do not matter: after any series of chunks into one buffer, the
\* reports and the remaining text are those of the same text in one chunk.
ChunksDoNotMatter ==
  ~CanErase(buf) => [buf |-> buf, out |-> out] = AtOnce(SubSeq(text, 1, fed))
=============================================================================
