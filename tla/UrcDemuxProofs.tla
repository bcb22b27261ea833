-------------------------- MODULE UrcDemuxProofs --------------------------
(***************************************************************************)
(* Theorems about the demux loop: what it makes of a text does not depend  *)
(* on the chunks the text arrives in, whatever the text is.                *)
(***************************************************************************)
EXTENDS UrcDemux, UrcTextProofs

\* Three series of reports.
LEMMA ReportsAssociate ==
  ASSUME NEW p \in Seq(Nat), NEW q \in Seq(Nat), NEW r \in Seq(Nat)
  PROVE  (p \o q) \o r = p \o (q \o r)
BY ConcatAssociative

-----------------------------------------------------------------------------
(***************************************************************************)
(* Counting up to n, without an operator to instantiate: a set of numbers  *)
(* that has 0, and k + 1 with every k below n, has all of 0..n.            *)
(***************************************************************************)
LEMMA CountUp ==
  ASSUME NEW n \in Nat, NEW S, 0 \in S, \A k \in 0..n : k \in S /\ k < n => k + 1 \in S
  PROVE  \A k \in 0..n : k \in S
<1> DEFINE Rest == (0..n) \ S
<1> SUFFICES ASSUME Rest # {} PROVE FALSE
  OBVIOUS
<1> DEFINE m == Min(Rest)
<1>1. Rest \in SUBSET Nat
  OBVIOUS
<1>2. m \in Rest /\ \A y \in Rest : m <= y
  BY <1>1, MinOfNaturals
<1> HIDE DEF m
<1>3. m \in 0..n /\ m \notin S /\ m # 0
  BY <1>2
<1>4. m - 1 \in 0..n /\ m - 1 < n /\ (m - 1) + 1 = m /\ ~(m <= m - 1)
  BY <1>3
<1>5. m - 1 \in S
  BY <1>2, <1>4
<1> QED
  BY <1>3, <1>4, <1>5

-----------------------------------------------------------------------------
(***************************************************************************)
(* The turns of the loop on a text that arrives in one piece.              *)
(***************************************************************************)
Turns(s, n) == {g \in [0..n -> [buf : Seq(Tokens), out : Seq(Nat)]] :
                  /\ g[0] = [buf |-> s, out |-> <<>>]
                  /\ \A k \in 0..n : k < n => g[k + 1] = Turn(g[k])}

LEMMA TurnType ==
  ASSUME NEW d \in [buf : Seq(Tokens), out : Seq(Nat)]
  PROVE  Turn(d) \in [buf : Seq(Tokens), out : Seq(Nat)]
<1>1. CASE CanErase(d.buf)
  <2>1. EraseFirst(d.buf) \in Seq(Tokens)
    BY <1>1, EraseFirstShorter
  <2>2. ErasedReports(d.buf) \in Seq(Nat)
    BY <1>1, ErasedReportsAreMarks
  <2>3. d.out \o ErasedReports(d.buf) \in Seq(Nat)
    BY <2>2, ConcatProperties
  <2> QED
    BY <1>1, <2>1, <2>3 DEF Turn
<1> QED
  BY <1>1 DEF Turn

LEMMA TurnsExist ==
  ASSUME NEW s \in Seq(Tokens), NEW n \in Nat
  PROVE  Turns(s, n) # {}
<1> DEFINE States == [buf : Seq(Tokens), out : Seq(Nat)]
           S == {k \in 0..n : Turns(s, k) # {}}
<1>1. 0 \in S
  <2> DEFINE g == [k \in 0..0 |-> [buf |-> s, out |-> <<>>]]
  <2>1. <<>> \in Seq(Nat)
    BY EmptySeq
  <2>2. [buf |-> s, out |-> <<>>] \in States
    BY <2>1
  <2>3. g \in [0..0 -> States] /\ g[0] = [buf |-> s, out |-> <<>>]
    BY <2>2
  <2>4. \A k \in 0..0 : ~(k < 0)
    OBVIOUS
  <2>5. g \in Turns(s, 0)
    BY <2>3, <2>4 DEF Turns
  <2> QED
    BY <2>5
<1>2. ASSUME NEW k \in 0..n, k \in S, k < n PROVE k + 1 \in S
  <2>1. PICK g : g \in Turns(s, k)
    BY <1>2
  <2>2. /\ g \in [0..k -> States] /\ g[0] = [buf |-> s, out |-> <<>>]
        /\ \A j \in 0..k : j < k => g[j + 1] = Turn(g[j])
    BY <2>1 DEF Turns
  <2> DEFINE h == [j \in 0..(k + 1) |-> IF j <= k THEN g[j] ELSE Turn(g[k])]
  <2>3. k \in Nat /\ k + 1 \in 0..n /\ k \in 0..k
    BY <1>2
  <2>4. g[k] \in States
    BY <2>2, <2>3
  <2>5. Turn(g[k]) \in States
    BY <2>4, TurnType
  <2>6. h \in [0..(k + 1) -> States]
    BY <2>2, <2>3, <2>5
  <2>7. h[0] = [buf |-> s, out |-> <<>>]
    BY <2>2, <2>3
  <2>8. ASSUME NEW j \in 0..(k + 1), j < k + 1 PROVE h[j + 1] = Turn(h[j])
    <3>1. j \in 0..k /\ j + 1 \in 0..(k + 1) /\ h[j] = g[j]
      BY <2>3, <2>8
    <3>2. CASE j < k
      BY <2>2, <2>3, <3>1, <3>2
    <3>3. CASE j = k
      BY <2>3, <3>1, <3>3
    <3> QED
      BY <2>3, <3>1, <3>2, <3>3
  <2> HIDE DEF h
  <2>9. h \in Turns(s, k + 1)
    BY <2>6, <2>7, <2>8 DEF Turns
  <2> QED
    BY <2>3, <2>9
<1>3. n \in S
  <2> HIDE DEF S
  <2>1. \A k \in 0..n : k \in S
    BY <1>1, <1>2, CountUp
  <2> QED
    BY <2>1
<1> QED
  BY <1>3

\* AtOnce is the last of them.
LEMMA AtOnceTurns ==
  ASSUME NEW s \in Seq(Tokens)
  PROVE  \E g \in Turns(s, Len(s)) : AtOnce(s) = g[Len(s)]
<1> DEFINE States == [buf : Seq(Tokens), out : Seq(Nat)]
           n == Len(s)
           Rec(g) == g = [k \in 0..n |-> IF k = 0 THEN [buf |-> s, out |-> <<>>] ELSE Turn(g[k - 1])]
           after == CHOOSE g : Rec(g)
<1>1. n \in Nat
  OBVIOUS
<1>2. AtOnce(s) = after[n]
  BY DEF AtOnce
<1> HIDE DEF n
<1>3. PICK g : g \in Turns(s, n)
  BY <1>1, TurnsExist
<1>4. /\ g \in [0..n -> States] /\ g[0] = [buf |-> s, out |-> <<>>]
      /\ \A k \in 0..n : k < n => g[k + 1] = Turn(g[k])
  BY <1>3 DEF Turns
<1>5. Rec(g)
  <2>1. ASSUME NEW k \in 0..n, k # 0 PROVE g[k] = Turn(g[k - 1])
    <3>1. k - 1 \in 0..n /\ k - 1 < n /\ (k - 1) + 1 = k
      BY <1>1, <2>1
    <3> QED
      BY <1>4, <3>1
  <2>2. \A k \in 0..n : g[k] = IF k = 0 THEN [buf |-> s, out |-> <<>>] ELSE Turn(g[k - 1])
    BY <1>4, <2>1
  <2> QED
    BY <1>4, <2>2
<1>6. Rec(after)
  <2> HIDE DEF Rec
  <2> QED
    BY <1>5
<1> HIDE DEF after
<1>7. /\ DOMAIN after = 0..n
      /\ \A k \in 0..n : after[k] = IF k = 0 THEN [buf |-> s, out |-> <<>>] ELSE Turn(after[k - 1])
  BY <1>6
<1> DEFINE S == {k \in 0..n : after[k] = g[k]}
<1>8. 0 \in S
  BY <1>1, <1>4, <1>7
<1>9. ASSUME NEW k \in 0..n, k \in S, k < n PROVE k + 1 \in S
  <2>1. k + 1 \in 0..n /\ k + 1 # 0 /\ (k + 1) - 1 = k
    BY <1>1, <1>9
  <2>2. after[k + 1] = Turn(after[k]) /\ g[k + 1] = Turn(g[k])
    BY <1>4, <1>7, <1>9, <2>1
  <2> QED
    BY <1>9, <2>1, <2>2
<1>10. n \in S
  <2> HIDE DEF S
  <2>1. \A k \in 0..n : k \in S
    BY <1>1, <1>8, <1>9, CountUp
  <2> QED
    BY <1>1, <2>1
<1> QED
  BY <1>2, <1>3, <1>10 DEF n

LEMMA EmptyIsDone == ~CanErase(<<>>)
BY DEF CanErase, UrcTags

\* Each turn erases some text, so that they come to an end.
LEMMA TurnsEnd ==
  ASSUME NEW s \in Seq(Tokens), NEW g \in Turns(s, Len(s))
  PROVE  ~CanErase(g[Len(s)].buf)
<1> DEFINE n == Len(s)
           S == {k \in 0..n : Len(g[k].buf) <= n - k \/ ~CanErase(g[k].buf)}
<1>1. n \in Nat /\ n = Len(s)
  OBVIOUS
<1> HIDE DEF n
<1>2. /\ g \in [0..n -> [buf : Seq(Tokens), out : Seq(Nat)]] /\ g[0] = [buf |-> s, out |-> <<>>]
      /\ \A k \in 0..n : k < n => g[k + 1] = Turn(g[k])
  BY <1>1 DEF Turns
<1>3. 0 \in S
  BY <1>1, <1>2
<1>4. ASSUME NEW k \in 0..n, k \in S, k < n PROVE k + 1 \in S
  <2> DEFINE d == g[k]
             e == g[k + 1]
  <2>1. d.buf \in Seq(Tokens) /\ e = Turn(d) /\ k + 1 \in 0..n
    BY <1>1, <1>2, <1>4
  <2>2. Len(d.buf) <= n - k \/ ~CanErase(d.buf)
    BY <1>4
  <2> HIDE DEF d, e
  <2>3. CASE CanErase(d.buf)
    <3>1. e.buf = EraseFirst(d.buf)
      BY <2>1, <2>3 DEF Turn
    <3>2. Len(e.buf) < Len(d.buf) /\ Len(e.buf) \in Nat /\ Len(d.buf) \in Nat
      BY <2>1, <2>3, <3>1, EraseFirstShorter
    <3>3. Len(e.buf) <= n - (k + 1)
      BY <1>1, <2>2, <2>3, <3>2
    <3> QED
      BY <2>1, <3>3 DEF e
  <2>4. CASE ~CanErase(d.buf)
    <3>1. e = d
      BY <2>1, <2>4 DEF Turn
    <3> QED
      BY <2>1, <2>4, <3>1 DEF e
  <2> QED
    BY <2>3, <2>4
<1>5. n \in S
  <2> HIDE DEF S
  <2>1. \A k \in 0..n : k \in S
    BY <1>1, <1>3, <1>4, CountUp
  <2> QED
    BY <1>1, <2>1
<1>6. CASE Len(g[n].buf) <= n - n
  <2>1. g[n].buf \in Seq(Tokens)
    BY <1>1, <1>2
  <2>2. g[n].buf = <<>>
    BY <1>1, <1>6, <2>1, EmptySeq
  <2> QED
    BY <2>2, EmptyIsDone DEF n
<1> QED
  BY <1>5, <1>6 DEF n

LEMMA AtOnceType ==
  ASSUME NEW s \in Seq(Tokens)
  PROVE  /\ AtOnce(s) \in [buf : Seq(Tokens), out : Seq(Nat)]
         /\ ~CanErase(AtOnce(s).buf)
<1>1. PICK g \in Turns(s, Len(s)) : AtOnce(s) = g[Len(s)]
  BY AtOnceTurns
<1>2. g \in [0..Len(s) -> [buf : Seq(Tokens), out : Seq(Nat)]] /\ Len(s) \in 0..Len(s)
  BY DEF Turns
<1>3. ~CanErase(g[Len(s)].buf)
  BY TurnsEnd
<1> QED
  BY <1>1, <1>2, <1>3

\* Once there is nothing to erase the turns change nothing.
LEMMA TurnsRest ==
  ASSUME NEW s \in Seq(Tokens), NEW n \in Nat, NEW g \in Turns(s, n), NEW m \in 0..n,
         ~CanErase(g[m].buf)
  PROVE  g[n] = g[m]
<1> DEFINE S == {k \in 0..n : k <= m \/ g[k] = g[m]}
<1>1. \A k \in 0..n : k < n => g[k + 1] = Turn(g[k])
  BY DEF Turns
<1>2. 0 \in S
  OBVIOUS
<1>3. ASSUME NEW k \in 0..n, k \in S, k < n PROVE k + 1 \in S
  <2>1. k + 1 \in 0..n
    BY <1>3
  <2>2. CASE k < m
    <3>1. k + 1 <= m
      BY <2>2
    <3> QED
      BY <2>1, <3>1
  <2>3. CASE k >= m
    <3>1. g[k] = g[m]
      BY <1>3, <2>3
    <3>2. g[k + 1] = Turn(g[m])
      BY <1>1, <1>3, <3>1
    <3>3. g[k + 1] = g[m]
      BY <3>2 DEF Turn
    <3> QED
      BY <2>1, <3>3
  <2> QED
    BY <2>2, <2>3
<1>4. n \in S
  <2> HIDE DEF S
  <2>1. \A k \in 0..n : k \in S
    BY <1>2, <1>3, CountUp
  <2> QED
    BY <2>1
<1> QED
  BY <1>4

LEMMA AtOnceDone ==
  ASSUME NEW s \in Seq(Tokens), ~CanErase(s)
  PROVE  AtOnce(s) = [buf |-> s, out |-> <<>>]
<1>1. PICK g \in Turns(s, Len(s)) : AtOnce(s) = g[Len(s)]
  BY AtOnceTurns
<1>2. g[0] = [buf |-> s, out |-> <<>>] /\ 0 \in 0..Len(s) /\ Len(s) \in Nat
  BY DEF Turns
<1>3. ~CanErase(g[0].buf)
  BY <1>2
<1> QED
  BY <1>1, <1>2, <1>3, TurnsRest

\* The first turn, then the loop on what it left.
LEMMA AtOnceErase ==
  ASSUME NEW s \in Seq(Tokens), CanErase(s)
  PROVE  AtOnce(s) = [buf |-> AtOnce(EraseFirst(s)).buf,
                      out |-> ErasedReports(s) \o AtOnce(EraseFirst(s)).out]
<1> DEFINE t == EraseFirst(s)
           r == ErasedReports(s)
           n == Len(s)
           m == Len(t)
<1>1. t \in Seq(Tokens) /\ n \in Nat /\ m \in Nat /\ m < n /\ r \in Seq(Nat) /\ <<>> \in Seq(Nat)
  BY EraseFirstShorter, ErasedReportsAreMarks, EmptySeq
<1>2. Turn([buf |-> s, out |-> <<>>]) = [buf |-> t, out |-> <<>> \o r]
  BY DEF Turn
<1> HIDE DEF t, r, n, m
<1>3. PICK g \in Turns(s, n) : AtOnce(s) = g[n]
  BY AtOnceTurns DEF n
<1>4. PICK f \in Turns(t, m) : AtOnce(t) = f[m]
  BY <1>1, AtOnceTurns DEF m
<1>5. /\ g[0] = [buf |-> s, out |-> <<>>]
      /\ \A k \in 0..n : k < n => g[k + 1] = Turn(g[k])
  BY DEF Turns
<1>6. /\ f \in [0..m -> [buf : Seq(Tokens), out : Seq(Nat)]] /\ f[0] = [buf |-> t, out |-> <<>>]
      /\ \A k \in 0..m : k < m => f[k + 1] = Turn(f[k])
  BY DEF Turns
<1> DEFINE S == {k \in 0..m : g[k + 1] = [buf |-> f[k].buf, out |-> r \o f[k].out]}
<1>7. 0 \in S
  <2>1. g[0 + 1] = Turn(g[0])
    BY <1>1, <1>5
  <2>2. <<>> \o r = r /\ r \o <<>> = r
    BY <1>1, ConcatEmptySeq
  <2>3. g[0 + 1] = [buf |-> f[0].buf, out |-> r \o f[0].out]
    BY <1>2, <1>5, <1>6, <2>1, <2>2
  <2> QED
    BY <1>1, <2>3
<1>8. ASSUME NEW k \in 0..m, k \in S, k < m PROVE k + 1 \in S
  <2> DEFINE d == f[k]
             e == f[k + 1]
  <2>1. k + 1 \in 0..m /\ k + 1 \in 0..n /\ k + 1 < n
    BY <1>1, <1>8
  <2>2. d.buf \in Seq(Tokens) /\ d.out \in Seq(Nat) /\ e = Turn(d)
    BY <1>6, <1>8
  <2>3. g[k + 1] = [buf |-> d.buf, out |-> r \o d.out]
    BY <1>8
  <2>4. g[(k + 1) + 1] = Turn(g[k + 1])
    BY <1>5, <2>1
  <2> HIDE DEF d, e
  <2>5. g[(k + 1) + 1] = [buf |-> e.buf, out |-> r \o e.out]
    <3>1. CASE CanErase(d.buf)
      <4>1. e = [buf |-> EraseFirst(d.buf), out |-> d.out \o ErasedReports(d.buf)]
        BY <2>2, <3>1 DEF Turn
      <4>2. ErasedReports(d.buf) \in Seq(Nat)
        BY <2>2, <3>1, ErasedReportsAreMarks
      <4>3. (r \o d.out) \o ErasedReports(d.buf) = r \o (d.out \o ErasedReports(d.buf))
        <5> DEFINE p == d.out
                   q == ErasedReports(d.buf)
        <5>1. p \in Seq(Nat) /\ q \in Seq(Nat) /\ r \in Seq(Nat)
          BY <1>1, <2>2, <4>2
        <5> HIDE DEF p, q
        <5>2. (r \o p) \o q = r \o (p \o q)
          BY <5>1, ReportsAssociate
        <5> QED
          BY <5>2 DEF p, q
      <4>4. Turn(g[k + 1]) = [buf |-> EraseFirst(d.buf), out |-> (r \o d.out) \o ErasedReports(d.buf)]
        <5> DEFINE x == g[k + 1]
        <5>1. x.buf = d.buf /\ x.out = r \o d.out
          BY <2>3
        <5> HIDE DEF x
        <5>2. Turn(x) = [buf |-> EraseFirst(x.buf), out |-> x.out \o ErasedReports(x.buf)]
          BY <3>1, <5>1 DEF Turn
        <5> QED
          BY <5>1, <5>2 DEF x
      <4>5. e.buf = EraseFirst(d.buf) /\ e.out = d.out \o ErasedReports(d.buf)
        BY <4>1
      <4>6. r \o e.out = (r \o d.out) \o ErasedReports(d.buf)
        BY <4>3, <4>5
      <4> QED
        BY <2>4, <4>4, <4>5, <4>6
    <3>2. CASE ~CanErase(d.buf)
      <4>1. e = d
        BY <2>2, <3>2 DEF Turn
      <4>2. Turn(g[k + 1]) = g[k + 1]
        BY <2>3, <3>2 DEF Turn
      <4> QED
        BY <2>3, <2>4, <4>1, <4>2
    <3> QED
      BY <3>1, <3>2
  <2> QED
    BY <2>1, <2>5 DEF e
<1>9. m \in S
  <2> HIDE DEF S
  <2>1. \A k \in 0..m : k \in S
    BY <1>1, <1>7, <1>8, CountUp
  <2> QED
    BY <1>1, <2>1
<1>10. g[m + 1] = [buf |-> f[m].buf, out |-> r \o f[m].out]
  BY <1>9
<1>11. ~CanErase(f[m].buf)
  BY <1>1, TurnsEnd DEF m
<1>12. m + 1 \in 0..n /\ ~CanErase(g[m + 1].buf)
  BY <1>1, <1>10, <1>11
<1>13. g[n] = g[m + 1]
  BY <1>1, <1>12, TurnsRest
<1> QED
  BY <1>3, <1>4, <1>10, <1>13 DEF t, r

-----------------------------------------------------------------------------
(***************************************************************************)
(* More text behind it does not change what is erased first.               *)
(***************************************************************************)
LEMMA EraseCommutes ==
  ASSUME NEW b \in Seq(Tokens), NEW c \in Seq(Tokens), CanErase(b)
  PROVE  /\ CanErase(b \o c)
         /\ EraseFirst(b \o c) = EraseFirst(b) \o c
         /\ ErasedReports(b \o c) = ErasedReports(b)
<1> DEFINE s == b \o c
           i == FirstUrc(b)
           e == UrcEnd(b, i)
           d == e + 1 - i
<1>1. /\ s \in Seq(Tokens) /\ i \in 1..Len(b)
      /\ \A j \in 1..(i - 1) : s[j].kind \in TagKinds => ~IsLineStart(s, j)
  BY ErasedPlace
<1>2. i \in UrcTags(b) /\ UrcComplete(b, i) /\ i \in DOMAIN b
  BY FirstUrcInText
<1>3. /\ UrcComplete(s, i) /\ UrcEnd(s, i) = e /\ ReportAt(s, i) = ReportAt(b, i)
      /\ i \in UrcTags(s)
  BY <1>2, AppendKeeps
<1> HIDE DEF s, i, e
<1>4. UrcTags(s) \in SUBSET Nat
  BY <1>1 DEF UrcTags
<1>5. FirstUrc(s) = i
  <2> DEFINE f == FirstUrc(s)
  <2>1. f \in UrcTags(s) /\ f <= i
    BY <1>3, <1>4, MinOfNaturals DEF FirstUrc
  <2>2. f \in DOMAIN s /\ s[f].kind \in TagKinds /\ IsLineStart(s, f)
    BY <2>1 DEF UrcTags, IsUrcTag
  <2> HIDE DEF f
  <2>3. f \in Nat /\ f >= 1
    BY <1>1, <2>2
  <2>4. ~(f <= i - 1)
    <3> SUFFICES ASSUME f <= i - 1 PROVE FALSE
      OBVIOUS
    <3>1. f \in 1..(i - 1)
      BY <1>1, <2>3
    <3> QED
      BY <1>1, <2>2, <3>1
  <2> QED
    BY <1>1, <2>1, <2>3, <2>4 DEF f
<1>6. CanErase(s)
  BY <1>3, <1>5 DEF CanErase
<1>7. ErasedReports(s) = ErasedReports(b)
  BY <1>3, <1>5 DEF ErasedReports, i
<1> DEFINE t == EraseFirst(b) \o c
           u == EraseFirst(s)
<1>8. t \in Seq(Tokens) /\ Spliced(t, s, i, d)
  BY ErasedText DEF s, i, e
<1>9. u \in Seq(Tokens) /\ Spliced(u, s, i, d)
  <2>1. <<>> \in Seq(Tokens) /\ s \o <<>> = s /\ u \in Seq(Tokens)
    BY <1>1, <1>6, EmptySeq, ConcatEmptySeq, EraseFirstShorter
  <2>2. u \o <<>> = u
    BY <2>1, ConcatEmptySeq
  <2>3. Spliced(u \o <<>>, s \o <<>>, FirstUrc(s), UrcEnd(s, FirstUrc(s)) + 1 - FirstUrc(s))
    BY <1>1, <1>6, <2>1, ErasedText
  <2> QED
    BY <1>3, <1>5, <2>1, <2>2, <2>3
<1> HIDE DEF t, u, d
<1>10. Len(u) = Len(t)
  BY <1>8, <1>9 DEF Spliced
<1>11. \A k \in 1..Len(u) : u[k] = t[k]
  <2>1. DOMAIN u = 1..Len(u) /\ DOMAIN t = 1..Len(u)
    BY <1>8, <1>9, <1>10
  <2>2. \A k \in 1..Len(u) : u[k] = IF k < i THEN s[k] ELSE s[k + d]
    BY <1>9, <2>1 DEF Spliced
  <2>3. \A k \in 1..Len(u) : t[k] = IF k < i THEN s[k] ELSE s[k + d]
    BY <1>8, <2>1 DEF Spliced
  <2> QED
    BY <2>2, <2>3
<1>12. u = t
  BY <1>8, <1>9, <1>10, <1>11, SeqEqual
<1> QED
  BY <1>6, <1>7, <1>12 DEF s, t, u

\* A text may be demultiplexed before or after more is appended to it.
LaterIsSame(s, c) ==
  AtOnce(s \o c) = [buf |-> AtOnce(AtOnce(s).buf \o c).buf,
                    out |-> AtOnce(s).out \o AtOnce(AtOnce(s).buf \o c).out]

LEMMA FeedLater ==
  ASSUME NEW c \in Seq(Tokens), NEW n \in Nat, NEW s \in Seq(Tokens), Len(s) <= n
  PROVE  LaterIsSame(s, c)
<1> DEFINE S == {k \in Nat : \A x \in Seq(Tokens) : Len(x) <= k => LaterIsSame(x, c)}
<1>1. ASSUME NEW x \in Seq(Tokens), ~CanErase(x) PROVE LaterIsSame(x, c)
  <2>1. AtOnce(x) = [buf |-> x, out |-> <<>>]
    BY <1>1, AtOnceDone
  <2>2. x \o c \in Seq(Tokens)
    BY ConcatProperties
  <2> DEFINE a == AtOnce(x \o c)
  <2>3. a \in [buf : Seq(Tokens), out : Seq(Nat)]
    BY <2>2, AtOnceType
  <2> HIDE DEF a
  <2>4. <<>> \o a.out = a.out
    BY <2>3, ConcatEmptySeq
  <2>5. a = [buf |-> a.buf, out |-> <<>> \o a.out]
    BY <2>3, <2>4
  <2> QED
    BY <2>1, <2>5 DEF LaterIsSame, a
<1>2. ASSUME NEW x \in Seq(Tokens), CanErase(x), LaterIsSame(EraseFirst(x), c)
      PROVE  LaterIsSame(x, c)
  <2> DEFINE y == EraseFirst(x)
             r == ErasedReports(x)
             a == AtOnce(y)
             z == AtOnce(a.buf \o c)
  <2>1. y \in Seq(Tokens) /\ r \in Seq(Nat)
    BY <1>2, EraseFirstShorter, ErasedReportsAreMarks
  <2>2. CanErase(x \o c) /\ EraseFirst(x \o c) = y \o c /\ ErasedReports(x \o c) = r
    BY <1>2, EraseCommutes
  <2>3. AtOnce(x) = [buf |-> a.buf, out |-> r \o a.out]
    BY <1>2, AtOnceErase
  <2>4. AtOnce(x \o c) = [buf |-> AtOnce(y \o c).buf, out |-> r \o AtOnce(y \o c).out]
    <3>1. x \o c \in Seq(Tokens)
      BY ConcatProperties
    <3> QED
      BY <2>2, <3>1, AtOnceErase
  <2>5. AtOnce(y \o c) = [buf |-> z.buf, out |-> a.out \o z.out]
    BY <1>2 DEF LaterIsSame
  <2> HIDE DEF y, r
  <2>6. a \in [buf : Seq(Tokens), out : Seq(Nat)]
    BY <2>1, AtOnceType
  <2> HIDE DEF a
  <2>7. a.buf \o c \in Seq(Tokens)
    BY <2>6, ConcatProperties
  <2>8. z \in [buf : Seq(Tokens), out : Seq(Nat)]
    BY <2>7, AtOnceType
  <2> HIDE DEF z
  <2>9. (r \o a.out) \o z.out = r \o (a.out \o z.out)
    <3> DEFINE p == a.out
               q == z.out
    <3>1. p \in Seq(Nat) /\ q \in Seq(Nat) /\ r \in Seq(Nat)
      BY <2>1, <2>6, <2>8
    <3> HIDE DEF p, q
    <3>2. (r \o p) \o q = r \o (p \o q)
      BY <3>1, ReportsAssociate
    <3> QED
      BY <3>2 DEF p, q
  <2>10. AtOnce(x \o c) = [buf |-> z.buf, out |-> r \o (a.out \o z.out)]
    BY <2>4, <2>5
  <2>11. AtOnce(x).buf = a.buf /\ AtOnce(x).out = r \o a.out
    BY <2>3
  <2>12. AtOnce(x \o c) = [buf |-> z.buf, out |-> AtOnce(x).out \o z.out]
    BY <2>9, <2>10, <2>11
  <2>13. z = AtOnce(AtOnce(x).buf \o c)
    BY <2>11 DEF z
  <2> QED
    BY <2>12, <2>13 DEF LaterIsSame
<1>3. 0 \in S
  <2> SUFFICES ASSUME NEW x \in Seq(Tokens), Len(x) <= 0 PROVE LaterIsSame(x, c)
    OBVIOUS
  <2>1. x = <<>>
    BY EmptySeq
  <2> QED
    BY <1>1, <2>1, EmptyIsDone
<1>4. ASSUME NEW k \in 0..n, k \in S, k < n PROVE k + 1 \in S
  <2> SUFFICES ASSUME NEW x \in Seq(Tokens), Len(x) <= k + 1 PROVE LaterIsSame(x, c)
    OBVIOUS
  <2>1. CASE CanErase(x)
    <3>1. EraseFirst(x) \in Seq(Tokens) /\ Len(EraseFirst(x)) < Len(x)
      BY <2>1, EraseFirstShorter
    <3>2. Len(EraseFirst(x)) \in Nat /\ Len(x) \in Nat
      BY <3>1
    <3>3. Len(EraseFirst(x)) <= k
      BY <3>1, <3>2
    <3>4. LaterIsSame(EraseFirst(x), c)
      BY <1>4, <3>1, <3>3
    <3> QED
      BY <1>2, <2>1, <3>4
  <2> QED
    BY <1>1, <2>1
<1>5. n \in S
  <2> HIDE DEF S
  <2>1. \A k \in 0..n : k \in S
    BY <1>3, <1>4, CountUp
  <2> QED
    BY <2>1
<1> QED
  BY <1>5

-----------------------------------------------------------------------------
(***************************************************************************)
(* The inductive invariant: what was decoded, and what the loop still will *)
(* make of the buffer, together are what it makes at once of all that was  *)
(* fed.  ChunksDoNotMatter alone says nothing of a loop in mid course.     *)
(***************************************************************************)
FedText == SubSeq(text, 1, fed)

DemuxInv ==
  /\ text \in Seq(Tokens) /\ fed \in 0..Len(text) /\ buf \in Seq(Tokens) /\ out \in Seq(Nat)
  /\ AtOnce(FedText) = [buf |-> AtOnce(buf).buf, out |-> out \o AtOnce(buf).out]

LEMMA DemuxInit == Init => DemuxInv
<1> SUFFICES ASSUME Init PROVE DemuxInv
  OBVIOUS
<1>1. text \in Seq(Tokens)
  <2>1. text \in BoundedSeq(Alphabet, MaxLen)
    BY DEF Init
  <2>2. PICK m \in 0..MaxLen : text \in [1..m -> Alphabet]
    BY <2>1 DEF BoundedSeq, SeqOf
  <2>3. m \in Nat /\ Alphabet \subseteq Tokens
    BY AlphabetAssumption
  <2>4. text \in Seq(Alphabet)
    BY <2>2, <2>3, SeqDef
  <2> QED
    BY <2>3, <2>4
<1>2. fed = 0 /\ buf = <<>> /\ out = <<>> /\ fed \in 0..Len(text)
  BY <1>1 DEF Init
<1>3. <<>> \in Seq(Tokens) /\ <<>> \in Seq(Nat) /\ <<>> \o <<>> = <<>>
  BY EmptySeq, ConcatEmptySeq
<1>4. FedText = <<>>
  <2>1. FedText \in Seq(Tokens) /\ Len(FedText) = 0
    BY <1>1, <1>2, SplitSequence DEF FedText
  <2> QED
    BY <2>1, EmptySeq
<1>5. AtOnce(<<>>) = [buf |-> <<>>, out |-> <<>>]
  BY <1>3, AtOnceDone, EmptyIsDone
<1>6. AtOnce(FedText) = [buf |-> AtOnce(buf).buf, out |-> out \o AtOnce(buf).out]
  BY <1>2, <1>3, <1>4, <1>5
<1> QED
  BY <1>1, <1>2, <1>3, <1>6 DEF DemuxInv

\* Two chunks that follow each other.
LEMMA NextChunk ==
  ASSUME NEW s \in Seq(Tokens), NEW m \in 0..Len(s), NEW n \in m..Len(s)
  PROVE  /\ SubSeq(s, m + 1, n) \in Seq(Tokens)
         /\ SubSeq(s, 1, n) = SubSeq(s, 1, m) \o SubSeq(s, m + 1, n)
<1> DEFINE a == SubSeq(s, 1, m)
           b == SubSeq(s, m + 1, n)
           c == SubSeq(s, 1, n)
<1>1. Len(s) \in Nat /\ m \in Nat /\ n \in Nat /\ m <= n /\ n <= Len(s)
  OBVIOUS
<1>2. \A i \in 1..Len(s) : s[i] \in Tokens
  BY ElementOfSeq
<1>3. a \in Seq(Tokens) /\ Len(a) = m /\ \A i \in 1..m : a[i] = s[i]
  BY <1>1, <1>2, SubSeqProperties
<1>4. c \in Seq(Tokens) /\ Len(c) = n /\ \A i \in 1..n : c[i] = s[i]
  BY <1>1, <1>2, SubSeqProperties
<1>5. b \in Seq(Tokens) /\ Len(b) = n - m /\ \A i \in 1..(n - m) : b[i] = s[m + i]
  <2>1. \A i \in (m + 1)..n : s[i] \in Tokens
    BY <1>1, <1>2
  <2>2. b \in Seq(Tokens)
    BY <1>1, <2>1, SubSeqProperties
  <2>3. Len(b) = IF m + 1 <= n THEN n - (m + 1) + 1 ELSE 0
    BY <1>1, <2>1, SubSeqProperties
  <2>4. \A i \in 1..(n - (m + 1) + 1) : b[i] = s[(m + 1) + i - 1]
    BY <1>1, <2>1, SubSeqProperties
  <2>5. Len(b) = n - m
    BY <1>1, <2>3
  <2>6. ASSUME NEW i \in 1..(n - m) PROVE b[i] = s[m + i]
    <3>1. i \in 1..(n - (m + 1) + 1) /\ (m + 1) + i - 1 = m + i
      BY <1>1
    <3> QED
      BY <2>4, <3>1
  <2> QED
    BY <2>2, <2>5, <2>6
<1> HIDE DEF a, b, c
<1>6. /\ a \o b \in Seq(Tokens) /\ Len(a \o b) = m + (n - m)
      /\ \A i \in 1..m : (a \o b)[i] = a[i]
      /\ \A i \in 1..(m + (n - m)) : i > m => i - m \in 1..(n - m) /\ (a \o b)[i] = b[i - m]
  BY <1>3, <1>5, ConcatElements
<1>7. Len(a \o b) = Len(c)
  BY <1>1, <1>4, <1>6
<1>8. ASSUME NEW i \in 1..n PROVE c[i] = (a \o b)[i]
  <2> DEFINE ab == a \o b
  <2>0. c[i] = s[i]
    BY <1>4
  <2>1. CASE i <= m
    <3>1. i \in 1..m
      BY <1>1, <2>1
    <3>2. a[i] = s[i]
      BY <1>3, <3>1
    <3>3. ab[i] = a[i]
      BY <1>6, <3>1
    <3> QED
      BY <2>0, <3>2, <3>3
  <2>2. CASE i > m
    <3>1. i \in 1..(m + (n - m)) /\ m + (i - m) = i
      BY <1>1
    <3>2. i - m \in 1..(n - m) /\ (a \o b)[i] = b[i - m]
      BY <1>6, <2>2, <3>1
    <3>3. b[i - m] = s[m + (i - m)]
      BY <1>5, <3>2
    <3> QED
      BY <2>0, <3>1, <3>2, <3>3
  <2>3. i <= m \/ i > m
    BY <1>1
  <2> QED
    BY <2>1, <2>2, <2>3
<1>9. c = a \o b
  BY <1>4, <1>6, <1>7, <1>8, SeqEqual
<1> QED
  BY <1>5, <1>9 DEF a, b, c

LEMMA FeedStep ==
  ASSUME DemuxInv, Feed
  PROVE  DemuxInv'
<1>1. PICK n \in (fed + 1)..Len(text) : buf' = buf \o SubSeq(text, fed + 1, n) /\ fed' = n
  BY DEF Feed
<1>2. /\ text \in Seq(Tokens) /\ fed \in 0..Len(text) /\ buf \in Seq(Tokens) /\ out \in Seq(Nat)
      /\ AtOnce(FedText) = [buf |-> AtOnce(buf).buf, out |-> out \o AtOnce(buf).out]
  BY DEF DemuxInv
<1>3. ~CanErase(buf) /\ text' = text /\ out' = out
  BY DEF Feed
<1> DEFINE c == SubSeq(text, fed + 1, n)
<1>4. n \in fed..Len(text) /\ n \in 0..Len(text) /\ Len(text) \in Nat
  BY <1>2
<1>5. c \in Seq(Tokens) /\ SubSeq(text, 1, n) = SubSeq(text, 1, fed) \o c
  BY <1>2, <1>4, NextChunk
<1> HIDE DEF c
<1>6. FedText' = FedText \o c
  BY <1>1, <1>3, <1>5 DEF FedText
<1>7. FedText \in Seq(Tokens) /\ Len(FedText) \in Nat
  BY <1>2, SplitSequence DEF FedText
<1>8. AtOnce(buf) = [buf |-> buf, out |-> <<>>] /\ out \o <<>> = out
  BY <1>2, <1>3, AtOnceDone, ConcatEmptySeq
<1>9. AtOnce(FedText) = [buf |-> buf, out |-> out]
  BY <1>2, <1>8
<1>10. LaterIsSame(FedText, c)
  BY <1>5, <1>7, FeedLater
<1>11. AtOnce(FedText \o c) = [buf |-> AtOnce(buf \o c).buf, out |-> out \o AtOnce(buf \o c).out]
  BY <1>9, <1>10 DEF LaterIsSame
<1>12. buf' = buf \o c /\ buf \o c \in Seq(Tokens)
  BY <1>1, <1>2, <1>5, ConcatProperties DEF c
<1> QED
  BY <1>1, <1>2, <1>3, <1>4, <1>6, <1>11, <1>12 DEF DemuxInv

LEMMA EraseStep ==
  ASSUME DemuxInv, Erase
  PROVE  DemuxInv'
<1> DEFINE b == buf
           t == EraseFirst(b)
           r == ErasedReports(b)
           a == AtOnce(t)
<1>1. /\ text \in Seq(Tokens) /\ fed \in 0..Len(text) /\ b \in Seq(Tokens) /\ out \in Seq(Nat)
      /\ AtOnce(FedText) = [buf |-> AtOnce(b).buf, out |-> out \o AtOnce(b).out]
  BY DEF DemuxInv
<1>2. CanErase(b) /\ buf' = t /\ out' = out \o r /\ text' = text /\ fed' = fed
  BY DEF Erase
<1> HIDE DEF b
<1>3. t \in Seq(Tokens) /\ r \in Seq(Nat)
  BY <1>1, <1>2, EraseFirstShorter, ErasedReportsAreMarks
<1>4. AtOnce(b) = [buf |-> a.buf, out |-> r \o a.out]
  BY <1>1, <1>2, AtOnceErase
<1>5. FedText' = FedText
  BY <1>2 DEF FedText
<1> HIDE DEF t, r
<1>6. a \in [buf : Seq(Tokens), out : Seq(Nat)]
  BY <1>3, AtOnceType
<1> HIDE DEF a
<1>7. (out \o r) \o a.out = out \o (r \o a.out)
  <2> DEFINE p == a.out
  <2>1. p \in Seq(Nat) /\ r \in Seq(Nat) /\ out \in Seq(Nat)
    BY <1>1, <1>3, <1>6
  <2> HIDE DEF p
  <2>2. (out \o r) \o p = out \o (r \o p)
    BY <2>1, ReportsAssociate
  <2> QED
    BY <2>2 DEF p
<1>8. out \o r \in Seq(Nat)
  BY <1>1, <1>3, ConcatProperties
<1>9. AtOnce(FedText) = [buf |-> a.buf, out |-> (out \o r) \o a.out]
  BY <1>1, <1>4, <1>7
<1>10. AtOnce(FedText') = [buf |-> AtOnce(buf').buf, out |-> out' \o AtOnce(buf').out]
  BY <1>2, <1>5, <1>9 DEF a
<1> QED
  BY <1>1, <1>2, <1>3, <1>8, <1>10 DEF DemuxInv

(***************************************************************************)
(* The chunks do not matter: for any alphabet and any length of text, when *)
(* the loop has come to rest the reports decoded and the text left are     *)
(* those of the whole text in one chunk.                                   *)
(***************************************************************************)
THEOREM ChunksNeverMatter == Spec => []ChunksDoNotMatter
<1>1. DemuxInv /\ [Next]_vars => DemuxInv'
  <2> SUFFICES ASSUME DemuxInv, [Next]_vars PROVE DemuxInv'
    OBVIOUS
  <2>1. CASE UNCHANGED vars
    BY <2>1 DEF vars, DemuxInv, FedText
  <2> QED
    BY <2>1, FeedStep, EraseStep DEF Next
<1>2. DemuxInv => ChunksDoNotMatter
  <2> SUFFICES ASSUME DemuxInv, ~CanErase(buf)
               PROVE  [buf |-> buf, out |-> out] = AtOnce(SubSeq(text, 1, fed))
    BY DEF ChunksDoNotMatter
  <2>1. /\ buf \in Seq(Tokens) /\ out \in Seq(Nat)
        /\ AtOnce(FedText) = [buf |-> AtOnce(buf).buf, out |-> out \o AtOnce(buf).out]
    BY DEF DemuxInv
  <2>2. AtOnce(buf) = [buf |-> buf, out |-> <<>>] /\ out \o <<>> = out
    BY <2>1, AtOnceDone, ConcatEmptySeq
  <2> QED
    BY <2>1, <2>2 DEF FedText
<1> QED
  BY <1>1, <1>2, DemuxInit, PTL DEF Spec
===========================================================================
