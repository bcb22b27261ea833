-------------------------- MODULE UrcTextProofs --------------------------
(***************************************************************************)
(* Lemmas about the operators of UrcText: one turn of the demux loop on    *)
(* any text, complete or not.                                              *)
(***************************************************************************)
EXTENDS UrcText, SequenceTheorems, WellFoundedInduction, TLAPS

-----------------------------------------------------------------------------
(***************************************************************************)
(* Sequences.                                                              *)
(***************************************************************************)
\* The elements of a concatenation, counted from its beginning or from its middle.
LEMMA ConcatElements ==
  ASSUME NEW S, NEW a \in Seq(S), NEW b \in Seq(S)
  PROVE  /\ a \o b \in Seq(S)
         /\ Len(a \o b) = Len(a) + Len(b)
         /\ \A i \in 1..Len(a) : (a \o b)[i] = a[i]
         /\ \A i \in 1..Len(b) : (a \o b)[Len(a) + i] = b[i]
         /\ \A i \in 1..(Len(a) + Len(b)) : i > Len(a) =>
              i - Len(a) \in 1..Len(b) /\ (a \o b)[i] = b[i - Len(a)]
BY ConcatProperties

\* A sequence cut in two.
LEMMA SplitSequence ==
  ASSUME NEW S, NEW s \in Seq(S), NEW n \in 0..Len(s)
  PROVE  /\ SubSeq(s, 1, n) \in Seq(S) /\ Len(SubSeq(s, 1, n)) = n
         /\ SubSeq(s, n + 1, Len(s)) \in Seq(S)
         /\ Len(SubSeq(s, n + 1, Len(s))) = Len(s) - n
         /\ SubSeq(s, 1, n) \o SubSeq(s, n + 1, Len(s)) = s
<1> DEFINE x == SubSeq(s, 1, n)
           y == SubSeq(s, n + 1, Len(s))
<1>1. n \in Nat /\ Len(s) \in Nat /\ n <= Len(s) /\ \A i \in 1..Len(s) : s[i] \in S
  BY ElementOfSeq
<1>2. x \in Seq(S) /\ Len(x) = n /\ \A i \in 1..n : x[i] = s[i]
  BY <1>1, SubSeqProperties
<1>3. y \in Seq(S) /\ Len(y) = Len(s) - n /\ \A i \in 1..(Len(s) - n) : y[i] = s[n + i]
  BY <1>1, SubSeqProperties
<1> HIDE DEF x, y
<1>4. /\ x \o y \in Seq(S) /\ Len(x \o y) = Len(x) + Len(y)
      /\ \A i \in 1..Len(x) : (x \o y)[i] = x[i]
      /\ \A i \in 1..(Len(x) + Len(y)) : i > Len(x) =>
           i - Len(x) \in 1..Len(y) /\ (x \o y)[i] = y[i - Len(x)]
  <2>1. x \in Seq(S) /\ y \in Seq(S)
    BY <1>2, <1>3
  <2> QED
    BY <2>1, ConcatElements
<1>5. \A i \in 1..Len(s) : (x \o y)[i] = s[i]
  BY <1>1, <1>2, <1>3, <1>4
<1>6. x \o y = s
  <2>1. x \o y \in Seq(S) /\ Len(x \o y) = Len(s)
    BY <1>1, <1>2, <1>3, <1>4
  <2> QED
    BY <1>5, <2>1, SeqEqual
<1> QED
  BY <1>2, <1>3, <1>6 DEF x, y

\* A sequence without the segment from i to e.
Without(b, i, e) == SubSeq(b, 1, i - 1) \o SubSeq(b, e + 1, Len(b))

\* t is s without its d elements from i on.
Spliced(t, s, i, d) ==
  /\ Len(t) = Len(s) - d
  /\ \A k \in DOMAIN t : t[k] = IF k < i THEN s[k] ELSE s[k + d]

\* Taking the segment from i to e out of a sequence b that r follows.
LEMMA RemoveSegment ==
  ASSUME NEW S, NEW b \in Seq(S), NEW r \in Seq(S),
         NEW i \in 1..Len(b), NEW e \in i..Len(b)
  PROVE  /\ Without(b, i, e) \o r \in Seq(S)
         /\ Spliced(Without(b, i, e) \o r, b \o r, i, e + 1 - i)
<1> DEFINE x == SubSeq(b, 1, i - 1)
           y == SubSeq(b, e + 1, Len(b))
           z == x \o y
           u == z \o r
           s == b \o r
           d == e + 1 - i
<1>1. Len(b) \in Nat /\ Len(r) \in Nat /\ i \in Nat /\ e \in Nat /\ i <= e /\ e <= Len(b) /\ 1 <= i
  OBVIOUS
<1>2. \A k \in 1..Len(b) : b[k] \in S
  BY ElementOfSeq
<1>3. x \in Seq(S) /\ Len(x) = i - 1 /\ \A k \in 1..(i - 1) : x[k] = b[k]
  BY <1>1, <1>2, SubSeqProperties
<1>4. y \in Seq(S) /\ Len(y) = Len(b) - e /\ \A k \in 1..(Len(b) - e) : y[k] = b[e + k]
  BY <1>1, <1>2, SubSeqProperties
<1> HIDE DEF x, y
<1>5. /\ z \in Seq(S) /\ Len(z) = Len(x) + Len(y)
      /\ \A k \in 1..Len(x) : z[k] = x[k]
      /\ \A k \in 1..Len(y) : z[Len(x) + k] = y[k]
  <2>1. x \in Seq(S) /\ y \in Seq(S)
    BY <1>3, <1>4
  <2> QED
    BY <2>1, ConcatElements
<1> HIDE DEF z
<1>7. /\ u \in Seq(S) /\ Len(u) = Len(z) + Len(r)
      /\ \A k \in 1..Len(z) : u[k] = z[k]
      /\ \A k \in 1..Len(r) : u[Len(z) + k] = r[k]
  <2>1. z \in Seq(S)
    BY <1>5
  <2> QED
    BY <2>1, ConcatElements
<1>8. /\ Len(s) = Len(b) + Len(r)
      /\ \A k \in 1..Len(b) : s[k] = b[k]
      /\ \A k \in 1..Len(r) : s[Len(b) + k] = r[k]
  BY ConcatElements
<1> HIDE DEF u, s
<1>9. Len(z) = (i - 1) + (Len(b) - e) /\ d = e + 1 - i /\ d \in Int
  BY <1>1, <1>3, <1>4, <1>5
<1> HIDE DEF d
<1>10. Len(u) = (Len(b) + Len(r)) - d
  BY <1>1, <1>7, <1>9
<1>11. ASSUME NEW k \in 1..Len(u)
       PROVE  u[k] = IF k < i THEN s[k] ELSE s[k + d]
  <2>1. CASE k < i
    <3>1. k \in 1..Len(z) /\ k \in 1..Len(x) /\ k \in 1..(i - 1) /\ k \in 1..Len(b)
      BY <1>1, <1>3, <1>9, <2>1
    <3> QED
      BY <1>3, <1>5, <1>7, <1>8, <2>1, <3>1
  <2>2. CASE i <= k /\ k <= Len(z)
    <3> DEFINE m == k - (i - 1)
    <3>1. /\ k \in 1..Len(z) /\ m \in 1..Len(y) /\ m \in 1..(Len(b) - e)
          /\ k = Len(x) + m /\ e + m = k + d /\ k + d \in 1..Len(b)
      BY <1>1, <1>3, <1>4, <1>9, <2>2
    <3> HIDE DEF m
    <3>2. u[k] = z[k] /\ z[k] = y[m] /\ y[m] = b[e + m] /\ s[k + d] = b[k + d]
      BY <1>4, <1>5, <1>7, <1>8, <3>1
    <3> QED
      BY <1>1, <2>2, <3>1, <3>2
  <2>3. CASE k > Len(z)
    <3> DEFINE m == k - Len(z)
    <3>1. m \in 1..Len(r) /\ k = Len(z) + m /\ k + d = Len(b) + m /\ ~(k < i)
      BY <1>1, <1>7, <1>9, <2>3
    <3> HIDE DEF m
    <3>2. u[k] = r[m] /\ s[k + d] = r[m]
      BY <1>7, <1>8, <3>1
    <3> QED
      BY <3>1, <3>2
  <2> QED
    BY <1>1, <1>9, <2>1, <2>2, <2>3
<1>12. DOMAIN u = 1..Len(u)
  BY <1>7
<1>13. Without(b, i, e) \o r = u
  BY DEF Without, u, z, x, y
<1>14. Spliced(u, s, i, d)
  BY <1>8, <1>10, <1>11, <1>12 DEF Spliced
<1> QED
  BY <1>7, <1>13, <1>14 DEF s, d

-----------------------------------------------------------------------------
(***************************************************************************)
(* The first URC of a text, and the text without it.                       *)
(***************************************************************************)
\* A non-empty set of naturals holds its minimum.
LEMMA MinOfNaturals ==
  ASSUME NEW S \in SUBSET Nat, S # {}
  PROVE  Min(S) \in S /\ \A y \in S : Min(S) <= y
<1>1. \E x \in S : \A y \in S : <<y, x>> \notin OpToRel(<, Nat)
  BY NatLessThanWellFounded, WFMin
<1>2. PICK x \in S : \A y \in S : <<y, x>> \notin OpToRel(<, Nat)
  BY <1>1
<1>3. \A y \in S : ~(y < x)
  BY <1>2 DEF OpToRel
<1>4. \A y \in S : x =< y
  BY <1>3
<1> QED
  BY <1>4 DEF Min

\* A complete URC ends after its tag, within the text and on a line end.
LEMMA UrcEndInText ==
  ASSUME NEW s \in Seq(Tokens), NEW i \in DOMAIN s, UrcComplete(s, i)
  PROVE  /\ HeaderEnd(s, i) \in NewlinesAfter(s, i)
         /\ UrcEnd(s, i) \in NewlinesAfter(s, i)
         /\ HeaderEnd(s, i) <= UrcEnd(s, i)
<1>1. \A k : NewlinesAfter(s, k) \in SUBSET Nat
  BY DEF NewlinesAfter
<1>2. HeaderEnd(s, i) \in NewlinesAfter(s, i)
  BY <1>1, MinOfNaturals DEF UrcComplete, HeaderEnd
<1>3. CASE HasLength(s, i)
  <2>1. UrcEnd(s, i) \in NewlinesAfter(s, HeaderEnd(s, i))
    BY <1>1, <1>3, MinOfNaturals DEF UrcComplete, UrcEnd
  <2> QED
    BY <1>2, <2>1 DEF NewlinesAfter
<1>4. CASE ~HasLength(s, i)
  BY <1>1, <1>2, <1>4 DEF UrcEnd
<1> QED
  BY <1>3, <1>4

\* The tag of the first URC stands in the text.
LEMMA FirstUrcInText ==
  ASSUME NEW s \in Seq(Tokens), CanErase(s)
  PROVE  /\ FirstUrc(s) \in DOMAIN s
         /\ FirstUrc(s) \in UrcTags(s)
         /\ UrcComplete(s, FirstUrc(s))
<1>1. UrcTags(s) \in SUBSET Nat
  BY DEF UrcTags
<1>2. FirstUrc(s) \in UrcTags(s)
  BY <1>1, MinOfNaturals DEF CanErase, FirstUrc
<1> QED
  BY <1>2 DEF UrcTags, CanErase

\* A token's mark is a number.
LEMMA MarkOfToken ==
  ASSUME NEW s \in Seq(Tokens), NEW i \in DOMAIN s
  PROVE  s[i].of \in Nat
<1>1. s[i] \in Tokens
  BY ElementOfSeq
<1> QED
  BY <1>1 DEF Tokens

\* The first URC of a text: its tag at i, its last line end at e.
LEMMA FirstUrcPlace ==
  ASSUME NEW s \in Seq(Tokens), CanErase(s)
  PROVE  /\ FirstUrc(s) \in 1..Len(s)
         /\ IsUrcTag(s, FirstUrc(s))
         /\ UrcComplete(s, FirstUrc(s))
         /\ \A j \in UrcTags(s) : FirstUrc(s) <= j
         /\ UrcEnd(s, FirstUrc(s)) \in 1..Len(s)
         /\ FirstUrc(s) < UrcEnd(s, FirstUrc(s))
         /\ s[UrcEnd(s, FirstUrc(s))].kind = "nl"
         /\ HeaderEnd(s, FirstUrc(s)) \in 1..Len(s)
         /\ FirstUrc(s) < HeaderEnd(s, FirstUrc(s))
         /\ s[HeaderEnd(s, FirstUrc(s))].kind = "nl"
<1>1. UrcTags(s) \in SUBSET Nat
  BY DEF UrcTags
<1>2. \A j \in UrcTags(s) : FirstUrc(s) <= j
  BY <1>1, MinOfNaturals DEF CanErase, FirstUrc
<1>3. FirstUrc(s) \in 1..Len(s) /\ IsUrcTag(s, FirstUrc(s)) /\ UrcComplete(s, FirstUrc(s))
  BY FirstUrcInText DEF UrcTags
<1> QED
  BY <1>2, <1>3, UrcEndInText DEF NewlinesAfter

\* What one turn of the loop leaves of a buffer and of the text that follows it.
LEMMA ErasedText ==
  ASSUME NEW s \in Seq(Tokens), NEW r \in Seq(Tokens), CanErase(s)
  PROVE  /\ EraseFirst(s) \o r \in Seq(Tokens)
         /\ Spliced(EraseFirst(s) \o r, s \o r, FirstUrc(s),
                    UrcEnd(s, FirstUrc(s)) + 1 - FirstUrc(s))
<1>1. FirstUrc(s) \in 1..Len(s) /\ UrcEnd(s, FirstUrc(s)) \in FirstUrc(s)..Len(s)
  BY FirstUrcPlace
<1>2. EraseFirst(s) = Without(s, FirstUrc(s), UrcEnd(s, FirstUrc(s)))
  BY DEF EraseFirst, Without
<1> QED
  BY <1>1, <1>2, RemoveSegment

\* Erasing a URC leaves a shorter text.
LEMMA EraseFirstShorter ==
  ASSUME NEW s \in Seq(Tokens), CanErase(s)
  PROVE  /\ EraseFirst(s) \in Seq(Tokens)
         /\ Len(EraseFirst(s)) < Len(s)
<1> DEFINE i == FirstUrc(s)
           e == UrcEnd(s, i)
<1>1. i \in 1..Len(s) /\ UrcComplete(s, i)
  BY FirstUrcInText
<1>2. e \in 1..Len(s) /\ e > i
  BY <1>1, UrcEndInText DEF NewlinesAfter
<1>3. /\ SubSeq(s, 1, i - 1) \in Seq(Tokens)
      /\ Len(SubSeq(s, 1, i - 1)) = i - 1
  BY <1>1, SubSeqProperties
<1>4. /\ SubSeq(s, e + 1, Len(s)) \in Seq(Tokens)
      /\ Len(SubSeq(s, e + 1, Len(s))) = Len(s) - e
  BY <1>2, SubSeqProperties
<1> QED
  BY <1>1, <1>2, <1>3, <1>4, ConcatProperties DEF EraseFirst

\* What a turn of the loop decodes is at most one report.
LEMMA ErasedReportsAreMarks ==
  ASSUME NEW s \in Seq(Tokens), CanErase(s)
  PROVE  ErasedReports(s) \in Seq(Nat)
<1> DEFINE i == FirstUrc(s)
           p == HeaderEnd(s, i) + 1
<1>1. i \in 1..Len(s) /\ UrcComplete(s, i)
  BY FirstUrcInText
<1>2. HeaderEnd(s, i) \in 1..Len(s) /\ UrcEnd(s, i) \in 1..Len(s)
  BY <1>1, UrcEndInText DEF NewlinesAfter
<1>3. UrcEnd(s, i) = p + 1 => p \in 1..Len(s)
  BY <1>2
<1>4. UrcEnd(s, i) = p + 1 => s[p] \in Tokens
  BY <1>3, ElementOfSeq
<1>5. \A tok \in Tokens : tok.of \in Nat
  BY DEF Tokens
<1>6. ReportAt(s, i) \in Nat
  BY <1>4, <1>5 DEF ReportAt
<1> QED
  BY <1>6, EmptySeq DEF ErasedReports

-----------------------------------------------------------------------------
(***************************************************************************)
(* The modem's URCs, each with its lines, none cut short: a tag leads a    *)
(* line and is followed by a text that ends it, or by a length and, on a   *)
(* line of its own, a PDU.                                                 *)
(***************************************************************************)
OneLine(s, i) ==
  /\ s[i].kind # "cds" /\ i + 2 <= Len(s)
  /\ s[i + 1].kind = "alpha" /\ s[i + 2].kind = "nl"
  /\ i + 3 <= Len(s) => s[i + 3].kind \in {"nl", "pdu"}

TwoLines(s, i) ==
  /\ s[i].kind \in {"cds", "cmt"} /\ i + 4 <= Len(s)
  /\ s[i + 1].kind = "num" /\ s[i + 2].kind = "nl"
  /\ s[i + 3].kind = "pdu" /\ s[i + 4].kind = "nl"
  /\ i + 5 <= Len(s) => s[i + 5].kind = "nl"

WholeUrc(s, i) == IsLineStart(s, i) /\ (OneLine(s, i) \/ TwoLines(s, i))
WholeUrcs(s) == \A i \in DOMAIN s : s[i].kind \in TagKinds => WholeUrc(s, i)

\* Whether a URC is whole depends on its tag and what follows it.
LEMMA SameUrc ==
  ASSUME NEW s \in Seq(Tokens), NEW t \in Seq(Tokens), NEW i \in Nat, NEW j \in Nat,
         s[i] = t[j],
         \A k \in 1..5 : i + k <= Len(s) <=> j + k <= Len(t),
         \A k \in 1..5 : i + k <= Len(s) => s[i + k] = t[j + k]
  PROVE  (OneLine(s, i) => OneLine(t, j)) /\ (TwoLines(s, i) => TwoLines(t, j))
<1>1. /\ i + 1 <= Len(s) => s[i + 1] = t[j + 1]
      /\ i + 2 <= Len(s) => s[i + 2] = t[j + 2] /\ j + 2 <= Len(t)
      /\ i + 3 <= Len(s) => s[i + 3] = t[j + 3]
      /\ j + 3 <= Len(t) => i + 3 <= Len(s)
  <2>1. 1 \in 1..5 /\ 2 \in 1..5 /\ 3 \in 1..5
    OBVIOUS
  <2> QED
    BY <2>1
<1>2. /\ i + 4 <= Len(s) => s[i + 4] = t[j + 4] /\ j + 4 <= Len(t)
      /\ i + 5 <= Len(s) => s[i + 5] = t[j + 5]
      /\ j + 5 <= Len(t) => i + 5 <= Len(s)
  <2>1. 4 \in 1..5 /\ 5 \in 1..5
    OBVIOUS
  <2> QED
    BY <2>1
<1>3. Len(s) \in Nat /\ Len(t) \in Nat
  OBVIOUS
<1>4. OneLine(s, i) => OneLine(t, j)
  <2> SUFFICES ASSUME OneLine(s, i) PROVE OneLine(t, j)
    OBVIOUS
  <2>1. i + 2 <= Len(s) /\ i + 1 <= Len(s)
    BY <1>3 DEF OneLine
  <2> QED
    BY <1>1, <2>1 DEF OneLine
<1>5. TwoLines(s, i) => TwoLines(t, j)
  <2> SUFFICES ASSUME TwoLines(s, i) PROVE TwoLines(t, j)
    OBVIOUS
  <2>1. i + 4 <= Len(s) /\ i + 3 <= Len(s) /\ i + 2 <= Len(s) /\ i + 1 <= Len(s)
    BY <1>3 DEF TwoLines
  <2> QED
    BY <1>1, <1>2, <2>1 DEF TwoLines
<1> QED
  BY <1>4, <1>5

\* What is left when the beginning of the text is dropped.
LEMMA WholeDrop ==
  ASSUME NEW a \in Seq(Tokens), NEW b \in Seq(Tokens), WholeUrcs(a \o b)
  PROVE  WholeUrcs(b)
<1> DEFINE s == a \o b
           n == Len(a)
<1>1. /\ Len(s) = n + Len(b) /\ n \in Nat /\ Len(b) \in Nat
      /\ DOMAIN s = 1..Len(s) /\ DOMAIN b = 1..Len(b)
      /\ \A i \in 1..Len(b) : s[n + i] = b[i]
  BY ConcatProperties
<1>2. WholeUrcs(s)
  OBVIOUS
<1> HIDE DEF s, n
<1> SUFFICES ASSUME NEW i \in 1..Len(b), b[i].kind \in TagKinds
             PROVE  WholeUrc(b, i)
  BY <1>1 DEF WholeUrcs
<1>3. n + i \in DOMAIN s /\ s[n + i] = b[i] /\ i \in Nat /\ i >= 1
  BY <1>1
<1>4. WholeUrc(s, n + i)
  BY <1>2, <1>3 DEF WholeUrcs
<1>5. IsLineStart(b, i)
  <2>1. CASE i = 1
    BY <2>1 DEF IsLineStart
  <2>2. CASE i # 1
    <3>1. i - 1 \in 1..Len(b) /\ n + i # 1 /\ (n + i) - 1 = n + (i - 1)
      BY <1>1, <1>3, <2>2
    <3>2. s[(n + i) - 1] = b[i - 1]
      BY <1>1, <3>1
    <3> QED
      BY <1>4, <3>1, <3>2 DEF WholeUrc, IsLineStart
  <2> QED
    BY <2>1, <2>2
<1>6. \A k \in 1..5 : i + k <= Len(b) => s[(n + i) + k] = b[i + k]
  <2> SUFFICES ASSUME NEW k \in 1..5, i + k <= Len(b) PROVE s[(n + i) + k] = b[i + k]
    OBVIOUS
  <2>1. i + k \in 1..Len(b) /\ (n + i) + k = n + (i + k)
    BY <1>1, <1>3
  <2> QED
    BY <1>1, <2>1
<1>7. \A k \in 1..5 : (n + i) + k <= Len(s) <=> i + k <= Len(b)
  <2>1. Len(s) = n + Len(b) /\ n \in Nat /\ i \in Nat /\ Len(b) \in Nat
    BY <1>1
  <2> QED
    BY <2>1
<1>8. (OneLine(s, n + i) => OneLine(b, i)) /\ (TwoLines(s, n + i) => TwoLines(b, i))
  <2>1. s \in Seq(Tokens) /\ n + i \in Nat /\ i \in Nat
    BY <1>1, <1>3, ConcatProperties DEF s
  <2> QED
    BY <1>3, <1>6, <1>7, <2>1, SameUrc
<1> QED
  BY <1>4, <1>5, <1>8 DEF WholeUrc

\* What it is when a text that begins with a line end is added.
LEMMA WholeAppend ==
  ASSUME NEW a \in Seq(Tokens), NEW b \in Seq(Tokens), WholeUrcs(a), WholeUrcs(b),
         b # <<>> => b[1].kind = "nl"
  PROVE  WholeUrcs(a \o b)
<1> DEFINE s == a \o b
           n == Len(a)
<1>1. /\ Len(s) = n + Len(b) /\ n \in Nat /\ Len(b) \in Nat
      /\ DOMAIN s = 1..Len(s) /\ DOMAIN a = 1..n /\ DOMAIN b = 1..Len(b)
      /\ \A i \in 1..n : s[i] = a[i]
      /\ \A i \in 1..Len(b) : s[n + i] = b[i]
  BY ConcatProperties
<1>2. Len(b) >= 1 => s[n + 1].kind = "nl"
  BY <1>1
<1> HIDE DEF s, n
<1> SUFFICES ASSUME NEW i \in 1..Len(s), s[i].kind \in TagKinds
             PROVE  WholeUrc(s, i)
  BY <1>1 DEF WholeUrcs, s
<1>3. CASE i <= n
  <2>1. i \in 1..n /\ s[i] = a[i]
    BY <1>1, <1>3
  <2>2. WholeUrc(a, i)
    BY <1>1, <2>1 DEF WholeUrcs
  <2>3. i # 1 => s[i - 1] = a[i - 1]
    BY <1>1, <2>1
  <2>4. IsLineStart(s, i)
    BY <2>2, <2>3 DEF WholeUrc, IsLineStart
  <2>5. \A k \in 1..5 : i + k <= n => s[i + k] = a[i + k]
    BY <1>1, <2>1
  <2>6. \A k \in 1..5 : i + k = n + 1 /\ i + k <= Len(s) => s[i + k].kind = "nl"
    BY <1>1, <1>2, <2>1
  <2>7. n <= Len(s) /\ n \in Nat /\ Len(s) \in Nat /\ i \in Nat
    BY <1>1
  <2>8. CASE OneLine(a, i)
    <3>1. i + 2 <= n /\ s[i + 1] = a[i + 1] /\ s[i + 2] = a[i + 2]
      BY <2>5, <2>7, <2>8 DEF OneLine, n
    <3>2. i + 3 <= Len(s) => s[i + 3].kind \in {"nl", "pdu"}
      <4>1. CASE i + 3 <= n
        <5>1. s[i + 3] = a[i + 3]
          BY <2>5, <4>1
        <5> QED
          BY <2>8, <4>1, <5>1 DEF OneLine, n
      <4>2. CASE i + 3 > n
        BY <2>6, <2>7, <3>1, <4>2
      <4> QED
        BY <2>7, <4>1, <4>2
    <3>3. OneLine(s, i)
      BY <2>1, <2>7, <2>8, <3>1, <3>2 DEF OneLine
    <3> QED
      BY <2>4, <3>3 DEF WholeUrc
  <2>9. CASE TwoLines(a, i)
    <3>1. /\ i + 4 <= n /\ s[i + 1] = a[i + 1] /\ s[i + 2] = a[i + 2]
          /\ s[i + 3] = a[i + 3] /\ s[i + 4] = a[i + 4]
      <4>1. i + 4 <= n /\ i + 3 <= n /\ i + 2 <= n /\ i + 1 <= n
        BY <2>7, <2>9 DEF TwoLines, n
      <4> QED
        BY <2>5, <4>1
    <3>2. i + 5 <= Len(s) => s[i + 5].kind = "nl"
      <4>1. CASE i + 5 <= n
        <5>1. s[i + 5] = a[i + 5]
          BY <2>5, <4>1
        <5> QED
          BY <2>9, <4>1, <5>1 DEF TwoLines, n
      <4>2. CASE i + 5 > n
        BY <2>6, <2>7, <3>1, <4>2
      <4> QED
        BY <2>7, <4>1, <4>2
    <3>3. TwoLines(s, i)
      BY <2>1, <2>7, <2>9, <3>1, <3>2 DEF TwoLines
    <3> QED
      BY <2>4, <3>3 DEF WholeUrc
  <2> QED
    BY <2>2, <2>8, <2>9 DEF WholeUrc
<1>4. CASE i > n
  <2> DEFINE j == i - n
  <2>1. j \in 1..Len(b) /\ i = n + j /\ j \in Nat /\ j >= 1
    BY <1>1, <1>4
  <2> HIDE DEF j
  <2>2. s[i] = b[j]
    BY <1>1, <2>1
  <2>3. WholeUrc(b, j)
    BY <1>1, <2>1, <2>2 DEF WholeUrcs
  <2>4. j # 1
    BY <1>2, <2>1, <2>2 DEF TagKinds
  <2>5. IsLineStart(s, i)
    <3>1. j - 1 \in 1..Len(b) /\ i - 1 = n + (j - 1)
      BY <1>1, <2>1, <2>4
    <3>2. s[i - 1] = b[j - 1]
      BY <1>1, <3>1
    <3> QED
      BY <2>3, <2>4, <3>2 DEF WholeUrc, IsLineStart
  <2>6. \A k \in 1..5 : j + k <= Len(b) => s[i + k] = b[j + k]
    <3> SUFFICES ASSUME NEW k \in 1..5, j + k <= Len(b) PROVE s[i + k] = b[j + k]
      OBVIOUS
    <3>1. j + k \in 1..Len(b) /\ i + k = n + (j + k)
      BY <1>1, <2>1
    <3> QED
      BY <1>1, <3>1
  <2>7. \A k \in 1..5 : i + k <= Len(s) <=> j + k <= Len(b)
    BY <1>1, <2>1
  <2>8. (OneLine(b, j) => OneLine(s, i)) /\ (TwoLines(b, j) => TwoLines(s, i))
    <3>1. s \in Seq(Tokens) /\ i \in Nat /\ j \in Nat
      BY <1>1, <2>1, ConcatProperties DEF s
    <3> QED
      BY <2>2, <2>6, <2>7, <3>1, SameUrc
  <2> QED
    BY <2>3, <2>5, <2>8 DEF WholeUrc
<1> QED
  BY <1>1, <1>3, <1>4

\* The loop erases a URC from its tag to its own last line end.
LEMMA ErasedUrc ==
  ASSUME NEW b \in Seq(Tokens), NEW r \in Seq(Tokens), WholeUrcs(b \o r), CanErase(b)
  PROVE  LET i == FirstUrc(b)
             e == UrcEnd(b, i)
         IN \/ OneLine(b \o r, i) /\ e = i + 2
            \/ TwoLines(b \o r, i) /\ e = i + 4
<1> DEFINE s == b \o r
           i == FirstUrc(b)
           h == HeaderEnd(b, i)
           e == UrcEnd(b, i)
<1>1. /\ Len(s) = Len(b) + Len(r) /\ DOMAIN s = 1..Len(s)
      /\ Len(b) \in Nat /\ Len(r) \in Nat /\ DOMAIN b = 1..Len(b)
      /\ \A k \in 1..Len(b) : s[k] = b[k]
  BY ConcatProperties
<1>2. /\ i \in 1..Len(b) /\ IsUrcTag(b, i) /\ UrcComplete(b, i)
      /\ h \in 1..Len(b) /\ i < h /\ b[h].kind = "nl"
      /\ e \in 1..Len(b) /\ b[e].kind = "nl"
  BY FirstUrcPlace
<1>3. \A k \in NewlinesAfter(b, i) : h <= k
  <2>1. NewlinesAfter(b, i) \in SUBSET Nat /\ NewlinesAfter(b, i) # {}
    BY <1>2 DEF NewlinesAfter, UrcComplete
  <2> QED
    BY <2>1, MinOfNaturals DEF HeaderEnd
<1>4. HasLength(b, i) => /\ e \in NewlinesAfter(b, h)
                         /\ \A k \in NewlinesAfter(b, h) : e <= k
  <2> SUFFICES ASSUME HasLength(b, i)
               PROVE  e \in NewlinesAfter(b, h) /\ \A k \in NewlinesAfter(b, h) : e <= k
    OBVIOUS
  <2>1. NewlinesAfter(b, h) \in SUBSET Nat /\ NewlinesAfter(b, h) # {}
    BY <1>2 DEF NewlinesAfter, UrcComplete
  <2> QED
    BY <2>1, MinOfNaturals DEF UrcEnd
<1>5. ~HasLength(b, i) => e = h
  BY DEF UrcEnd
<1>6. WholeUrcs(s)
  OBVIOUS
<1> HIDE DEF s, i, h, e
<1>7. s[i] = b[i] /\ i \in 1..Len(s) /\ b[i].kind \in TagKinds
  BY <1>1, <1>2 DEF IsUrcTag
<1>8. OneLine(s, i) \/ TwoLines(s, i)
  BY <1>1, <1>6, <1>7 DEF WholeUrcs, WholeUrc
<1>9. s[h] = b[h] /\ h # i + 1 /\ h >= i + 2 /\ i + 1 \in 1..Len(b) /\ i + 2 \in 1..Len(b)
  <2>1. s[h] = b[h]
    BY <1>1, <1>2
  <2>2. h # i + 1
    BY <1>2, <1>8, <2>1 DEF OneLine, TwoLines
  <2> QED
    BY <1>1, <1>2, <2>1, <2>2
<1>10. s[i + 1] = b[i + 1] /\ s[i + 2] = b[i + 2] /\ b[i + 2].kind = "nl"
  BY <1>1, <1>8, <1>9 DEF OneLine, TwoLines
<1>11. h = i + 2
  <2>1. i + 2 \in NewlinesAfter(b, i)
    BY <1>1, <1>2, <1>9, <1>10 DEF NewlinesAfter
  <2>2. h <= i + 2
    BY <1>3, <2>1
  <2> QED
    BY <1>1, <1>2, <1>9, <2>2
<1>12. CASE OneLine(s, i)
  <2>1. ~HasLength(b, i)
    BY <1>10, <1>12 DEF OneLine, HasLength
  <2>2. e = i + 2
    BY <1>5, <1>11, <2>1
  <2> QED
    BY <1>12, <2>2 DEF s, i, e
<1>13. CASE TwoLines(s, i)
  <2>1. HasLength(b, i)
    BY <1>1, <1>2, <1>7, <1>9, <1>10, <1>13 DEF TwoLines, HasLength
  <2>2. e \in NewlinesAfter(b, h) /\ \A k \in NewlinesAfter(b, h) : e <= k
    BY <1>4, <2>1
  <2>3. e \in 1..Len(b) /\ e > i + 2 /\ b[e].kind = "nl"
    BY <1>1, <1>11, <2>2 DEF NewlinesAfter
  <2>4. e # i + 3
    <3>1. s[e] = b[e]
      BY <1>1, <2>3
    <3> QED
      BY <1>13, <2>3, <3>1 DEF TwoLines
  <2>5. i + 4 \in 1..Len(b) /\ e >= i + 4
    BY <1>1, <1>2, <2>3, <2>4
  <2>6. s[i + 4] = b[i + 4] /\ i + 4 \in NewlinesAfter(b, h)
    BY <1>1, <1>2, <1>11, <1>13, <2>5 DEF TwoLines, NewlinesAfter
  <2>7. e = i + 4
    BY <1>2, <2>2, <2>3, <2>5, <2>6
  <2> QED
    BY <1>13, <2>7 DEF s, i, e
<1> QED
  BY <1>8, <1>12, <1>13

\* Where the first URC of a buffer lies in the text that it begins.
LEMMA ErasedPlace ==
  ASSUME NEW b \in Seq(Tokens), NEW r \in Seq(Tokens), CanErase(b)
  PROVE  LET s == b \o r
             i == FirstUrc(b)
             e == UrcEnd(b, i)
         IN /\ s \in Seq(Tokens) /\ i \in 1..Len(b) /\ e \in (i + 1)..Len(b)
            /\ Len(b) <= Len(s) /\ s[i].kind \in TagKinds /\ IsLineStart(s, i)
            /\ \A j \in 1..(i - 1) : s[j].kind \in TagKinds => ~IsLineStart(s, j)
<1> DEFINE s == b \o r
           i == FirstUrc(b)
           e == UrcEnd(b, i)
<1>1. /\ s \in Seq(Tokens) /\ Len(s) = Len(b) + Len(r)
      /\ Len(b) \in Nat /\ Len(r) \in Nat /\ DOMAIN b = 1..Len(b)
      /\ \A k \in 1..Len(b) : s[k] = b[k]
  BY ConcatProperties
<1>2. /\ i \in 1..Len(b) /\ IsUrcTag(b, i) /\ \A j \in UrcTags(b) : i <= j
      /\ e \in 1..Len(b) /\ i < e
  BY FirstUrcPlace
<1> HIDE DEF s, i, e
<1>3. \A j \in 1..Len(b) : IsLineStart(s, j) <=> IsLineStart(b, j)
  <2> SUFFICES ASSUME NEW j \in 1..Len(b) PROVE IsLineStart(s, j) <=> IsLineStart(b, j)
    OBVIOUS
  <2>1. j # 1 => j - 1 \in 1..Len(b)
    BY <1>1
  <2>2. j # 1 => s[j - 1] = b[j - 1]
    BY <1>1, <2>1
  <2> QED
    BY <2>2 DEF IsLineStart
<1>4. s[i].kind \in TagKinds /\ IsLineStart(s, i)
  BY <1>1, <1>2, <1>3 DEF IsUrcTag
<1>5. ASSUME NEW j \in 1..(i - 1), s[j].kind \in TagKinds, IsLineStart(s, j)
      PROVE  FALSE
  <2>1. j \in 1..Len(b) /\ j < i /\ j \in Nat /\ i \in Nat
    BY <1>1, <1>2
  <2>2. b[j].kind \in TagKinds /\ IsLineStart(b, j)
    BY <1>1, <1>3, <1>5, <2>1
  <2>3. j \in UrcTags(b)
    BY <1>1, <2>1, <2>2 DEF UrcTags, IsUrcTag
  <2> QED
    BY <1>2, <2>1, <2>3
<1>6. Len(b) <= Len(s) /\ e \in (i + 1)..Len(b)
  BY <1>1, <1>2
<1> QED
  BY <1>1, <1>2, <1>4, <1>5, <1>6 DEF s, i, e

\* Erasing a URC leaves the others whole.
LEMMA WholeErase ==
  ASSUME NEW b \in Seq(Tokens), NEW r \in Seq(Tokens), WholeUrcs(b \o r), CanErase(b)
  PROVE  WholeUrcs(EraseFirst(b) \o r)
<1> DEFINE s == b \o r
           t == EraseFirst(b) \o r
           i == FirstUrc(b)
           e == UrcEnd(b, i)
           d == e + 1 - i
<1>1. /\ s \in Seq(Tokens) /\ i \in 1..Len(b) /\ e \in (i + 1)..Len(b)
      /\ Len(b) <= Len(s) /\ IsLineStart(s, i)
      /\ \A j \in 1..(i - 1) : s[j].kind \in TagKinds => ~IsLineStart(s, j)
  BY ErasedPlace
<1>2. t \in Seq(Tokens) /\ Spliced(t, s, i, d)
  BY ErasedText
<1>3. WholeUrcs(s)
  OBVIOUS
<1> HIDE DEF s, t, i, e
<1>4. /\ Len(t) = Len(s) - d /\ DOMAIN t = 1..Len(t) /\ DOMAIN s = 1..Len(s)
      /\ \A k \in 1..Len(t) : t[k] = IF k < i THEN s[k] ELSE s[k + d]
  BY <1>1, <1>2 DEF Spliced
<1>5. Len(t) \in Nat /\ Len(s) \in Nat /\ i \in Nat /\ d \in Nat /\ 1 <= i
  BY <1>1, <1>2
<1> HIDE DEF d
<1> SUFFICES ASSUME NEW k \in 1..Len(t), t[k].kind \in TagKinds
             PROVE  WholeUrc(t, k)
  BY <1>4 DEF WholeUrcs, t
<1>6. k >= i
  <2> SUFFICES ASSUME k < i PROVE FALSE
    BY <1>5
  <2>1. k \in 1..(i - 1) /\ k \in DOMAIN s /\ t[k] = s[k]
    BY <1>4, <1>5
  <2> QED
    BY <1>1, <1>3, <2>1 DEF WholeUrcs, WholeUrc
<1>7. k + d \in 1..Len(s) /\ t[k] = s[k + d]
  BY <1>4, <1>5, <1>6
<1>8. WholeUrc(s, k + d)
  BY <1>3, <1>4, <1>7 DEF WholeUrcs
<1>9. IsLineStart(t, k)
  <2>1. CASE k = i
    <3>1. i # 1 => i - 1 \in 1..Len(t) /\ i - 1 < i
      BY <1>5, <2>1
    <3>2. i # 1 => t[i - 1] = s[i - 1]
      BY <1>4, <3>1
    <3> QED
      BY <1>1, <2>1, <3>2 DEF IsLineStart
  <2>2. CASE k > i
    <3>1. k - 1 \in 1..Len(t) /\ ~(k - 1 < i) /\ (k - 1) + d = (k + d) - 1 /\ k + d # 1
      BY <1>5, <2>2
    <3>2. t[k - 1] = s[(k + d) - 1]
      BY <1>4, <3>1
    <3> QED
      BY <1>8, <3>1, <3>2 DEF WholeUrc, IsLineStart
  <2> QED
    BY <1>5, <1>6, <2>1, <2>2
<1>10. \A m \in 1..5 : (k + d) + m <= Len(s) <=> k + m <= Len(t)
  <2>1. Len(t) = Len(s) - d
    BY <1>4
  <2> QED
    BY <1>5, <2>1
<1>11. \A m \in 1..5 : (k + d) + m <= Len(s) => s[(k + d) + m] = t[k + m]
  <2> SUFFICES ASSUME NEW m \in 1..5, (k + d) + m <= Len(s) PROVE s[(k + d) + m] = t[k + m]
    OBVIOUS
  <2>1. k + m \in 1..Len(t) /\ ~(k + m < i) /\ (k + m) + d = (k + d) + m
    BY <1>5, <1>6, <1>10
  <2> QED
    BY <1>4, <2>1
<1>12. (OneLine(s, k + d) => OneLine(t, k)) /\ (TwoLines(s, k + d) => TwoLines(t, k))
  <2>1. k + d \in Nat /\ k \in Nat
    BY <1>5
  <2> QED
    BY <1>1, <1>2, <1>7, <1>10, <1>11, <2>1, SameUrc
<1> QED
  BY <1>8, <1>9, <1>12 DEF WholeUrc

\* What the loop erases is text of URCs: everything else stays.
LEMMA ErasedIsUrc ==
  ASSUME NEW b \in Seq(Tokens), NEW r \in Seq(Tokens), WholeUrcs(b \o r), CanErase(b),
         NEW p \in FirstUrc(b)..UrcEnd(b, FirstUrc(b))
  PROVE  (b \o r)[p].kind \in TagKinds \union {"num", "alpha", "pdu", "nl"}
<1> DEFINE s == b \o r
           i == FirstUrc(b)
           e == UrcEnd(b, i)
<1>1. s[i].kind \in TagKinds /\ i \in 1..Len(b) /\ e \in (i + 1)..Len(b)
  BY ErasedPlace
<1>2. \/ OneLine(s, i) /\ e = i + 2
      \/ TwoLines(s, i) /\ e = i + 4
  BY ErasedUrc
<1>3. p \in i..e
  OBVIOUS
<1> HIDE DEF s, i, e
<1>4. CASE OneLine(s, i) /\ e = i + 2
  <2>1. p = i \/ p = i + 1 \/ p = i + 2
    BY <1>1, <1>3, <1>4
  <2> QED
    BY <1>1, <1>4, <2>1 DEF OneLine, s
<1>5. CASE TwoLines(s, i) /\ e = i + 4
  <2>1. p = i \/ p = i + 1 \/ p = i + 2 \/ p = i + 3 \/ p = i + 4
    BY <1>1, <1>3, <1>5
  <2> QED
    BY <1>1, <1>5, <2>1 DEF TwoLines, s
<1> QED
  BY <1>2, <1>4, <1>5

-----------------------------------------------------------------------------
(***************************************************************************)
(* A URC found elsewhere in another text.                                  *)
(***************************************************************************)
\* The next line end after i, when the text up to it stands c places further.
LEMMA ShiftedNewline ==
  ASSUME NEW s \in Seq(Tokens), NEW t \in Seq(Tokens), NEW c \in Int, NEW i \in 1..Len(s),
         NewlinesAfter(s, i) # {}, i + c >= 1,
         Min(NewlinesAfter(s, i)) + c <= Len(t),
         \A k \in (i + 1)..Min(NewlinesAfter(s, i)) : t[k + c] = s[k]
  PROVE  /\ NewlinesAfter(t, i + c) # {}
         /\ Min(NewlinesAfter(t, i + c)) = Min(NewlinesAfter(s, i)) + c
<1> DEFINE h == Min(NewlinesAfter(s, i))
           m == Min(NewlinesAfter(t, i + c))
<1>1. /\ NewlinesAfter(s, i) \in SUBSET Nat /\ NewlinesAfter(t, i + c) \in SUBSET Nat
      /\ Len(s) \in Nat /\ Len(t) \in Nat /\ DOMAIN s = 1..Len(s) /\ DOMAIN t = 1..Len(t)
  BY DEF NewlinesAfter
<1>2. h \in NewlinesAfter(s, i) /\ \A k \in NewlinesAfter(s, i) : h <= k
  BY <1>1, MinOfNaturals
<1>3. \A k \in (i + 1)..h : t[k + c] = s[k]
  OBVIOUS
<1>4. h + c <= Len(t)
  OBVIOUS
<1> HIDE DEF h
<1>5. h \in 1..Len(s) /\ i < h /\ s[h].kind = "nl"
  BY <1>1, <1>2 DEF NewlinesAfter
<1>6. h + c \in NewlinesAfter(t, i + c)
  <2>1. h \in (i + 1)..h /\ h + c \in 1..Len(t) /\ h + c > i + c
    BY <1>1, <1>4, <1>5
  <2>2. t[h + c] = s[h]
    BY <1>3, <2>1
  <2> QED
    BY <1>1, <1>5, <2>1, <2>2 DEF NewlinesAfter
<1>7. m \in NewlinesAfter(t, i + c) /\ m <= h + c
  BY <1>1, <1>6, MinOfNaturals
<1> HIDE DEF m
<1>8. m \in 1..Len(t) /\ i + c < m /\ t[m].kind = "nl"
  BY <1>1, <1>7 DEF NewlinesAfter
<1>9. m = h + c
  <2> SUFFICES ASSUME m < h + c PROVE FALSE
    BY <1>5, <1>7, <1>8
  <2>1. m - c \in (i + 1)..h /\ (m - c) + c = m /\ m - c \in 1..Len(s) /\ m - c < h
    BY <1>1, <1>5, <1>8
  <2>2. s[m - c].kind = "nl"
    BY <1>3, <1>8, <2>1
  <2>3. m - c \in NewlinesAfter(s, i)
    BY <1>1, <2>1, <2>2 DEF NewlinesAfter
  <2> QED
    BY <1>2, <1>5, <2>1, <2>3
<1> QED
  BY <1>6, <1>9 DEF h, m

\* A complete URC that stands c places further: it is complete there too, as
\* long, and yields the same report.
LEMMA SameReport ==
  ASSUME NEW s \in Seq(Tokens), NEW t \in Seq(Tokens), NEW c \in Int, NEW i \in 1..Len(s),
         UrcComplete(s, i), i + c >= 1, UrcEnd(s, i) + c <= Len(t),
         \A k \in i..UrcEnd(s, i) : t[k + c] = s[k]
  PROVE  /\ UrcComplete(t, i + c)
         /\ UrcEnd(t, i + c) = UrcEnd(s, i) + c
         /\ ReportAt(t, i + c) = ReportAt(s, i)
<1> DEFINE h == HeaderEnd(s, i)
           e == UrcEnd(s, i)
<1>1. /\ h \in NewlinesAfter(s, i) /\ e \in NewlinesAfter(s, i) /\ h <= e
      /\ Len(s) \in Nat /\ Len(t) \in Nat /\ DOMAIN s = 1..Len(s)
  BY UrcEndInText
<1>2. \A k \in i..e : t[k + c] = s[k]
  OBVIOUS
<1>3. e + c <= Len(t)
  OBVIOUS
<1>4. h = Min(NewlinesAfter(s, i)) /\ NewlinesAfter(s, i) # {}
  BY <1>1 DEF HeaderEnd
<1>5. HasLength(s, i) => NewlinesAfter(s, h) # {} /\ e = Min(NewlinesAfter(s, h))
  BY DEF UrcComplete, UrcEnd
<1>6. ~HasLength(s, i) => e = h
  BY DEF UrcEnd
<1> HIDE DEF h, e
<1>7. /\ h \in 1..Len(s) /\ e \in 1..Len(s) /\ i < h /\ i + 1 <= e /\ i < e
  BY <1>1 DEF NewlinesAfter
<1>8. NewlinesAfter(t, i + c) # {} /\ HeaderEnd(t, i + c) = h + c
  <2>1. h + c <= Len(t) /\ \A k \in (i + 1)..h : t[k + c] = s[k]
    BY <1>1, <1>2, <1>3, <1>7
  <2> QED
    BY <1>4, <2>1, ShiftedNewline DEF HeaderEnd
<1>9. HasLength(t, i + c) <=> HasLength(s, i)
  <2>1. t[i + c] = s[i] /\ t[(i + c) + 1] = s[i + 1]
    <3>1. i \in i..e /\ i + 1 \in i..e /\ (i + 1) + c = (i + c) + 1
      BY <1>7
    <3> QED
      BY <1>2, <3>1
  <2>2. i < Len(s) /\ i + c < Len(t)
    BY <1>1, <1>3, <1>7
  <2> QED
    BY <2>1, <2>2 DEF HasLength
<1>10. HasLength(s, i) =>
         NewlinesAfter(t, h + c) # {} /\ Min(NewlinesAfter(t, h + c)) = e + c
  <2> SUFFICES ASSUME HasLength(s, i)
               PROVE  NewlinesAfter(t, h + c) # {} /\ Min(NewlinesAfter(t, h + c)) = e + c
    OBVIOUS
  <2>1. h + c >= 1 /\ \A k \in (h + 1)..e : t[k + c] = s[k]
    BY <1>2, <1>7
  <2> QED
    BY <1>3, <1>5, <1>7, <2>1, ShiftedNewline
<1>11. UrcComplete(t, i + c) /\ UrcEnd(t, i + c) = e + c
  BY <1>6, <1>8, <1>9, <1>10 DEF UrcComplete, UrcEnd
<1>12. t[i + c] = s[i] /\ (e = h + 2 => t[(h + c) + 1] = s[h + 1])
  <2>1. i \in i..e /\ (e = h + 2 => h + 1 \in i..e) /\ (h + 1) + c = (h + c) + 1
    BY <1>7
  <2> QED
    BY <1>2, <2>1
<1>13. e + c = ((h + c) + 1) + 1 <=> e = h + 2
  BY <1>7
<1>14. e = (h + 1) + 1 <=> e = h + 2
  BY <1>7
<1>15. ReportAt(t, i + c) = ReportAt(s, i)
  BY <1>8, <1>9, <1>11, <1>12, <1>13, <1>14 DEF ReportAt, h, e
<1> QED
  BY <1>11, <1>15 DEF e

\* Text that follows changes nothing of the URCs that are complete.
LEMMA AppendKeeps ==
  ASSUME NEW a \in Seq(Tokens), NEW b \in Seq(Tokens), NEW i \in DOMAIN a, UrcComplete(a, i)
  PROVE  /\ UrcComplete(a \o b, i) /\ UrcEnd(a \o b, i) = UrcEnd(a, i)
         /\ ReportAt(a \o b, i) = ReportAt(a, i)
         /\ i \in UrcTags(a) <=> i \in UrcTags(a \o b)
<1> DEFINE s == a \o b
           e == UrcEnd(a, i)
<1>1. /\ s \in Seq(Tokens) /\ Len(s) = Len(a) + Len(b) /\ Len(a) \in Nat /\ Len(b) \in Nat
      /\ DOMAIN s = 1..Len(s) /\ \A k \in 1..Len(a) : s[k] = a[k]
  BY ConcatProperties
<1>2. e \in NewlinesAfter(a, i) /\ i \in 1..Len(a)
  BY UrcEndInText
<1> HIDE DEF s, e
<1>3. e \in 1..Len(a) /\ i < e
  BY <1>2 DEF NewlinesAfter
<1>4. i + 0 = i /\ e + 0 = e /\ e + 0 <= Len(s) /\ 0 \in Int /\ i + 0 >= 1
  BY <1>1, <1>2, <1>3
<1>5. \A k \in i..e : s[k + 0] = a[k]
  BY <1>1, <1>2, <1>3
<1>6. /\ UrcComplete(s, i + 0) /\ UrcEnd(s, i + 0) = e + 0
      /\ ReportAt(s, i + 0) = ReportAt(a, i)
  BY <1>1, <1>2, <1>4, <1>5, SameReport DEF e
<1>7. i \in UrcTags(a) <=> i \in UrcTags(s)
  <2>1. s[i] = a[i] /\ i \in DOMAIN s /\ (i # 1 => s[i - 1] = a[i - 1])
    BY <1>1, <1>2
  <2> QED
    BY <1>2, <2>1 DEF UrcTags, IsUrcTag, IsLineStart
<1> QED
  BY <1>4, <1>6, <1>7 DEF s, e
===========================================================================
