--------------------------- MODULE SequenceLemmas ---------------------------
(***************************************************************************)
(* Lemmas about naturals, sequences and FlattenSeq, for the modules that   *)
(* prove something about conversions and lists.                            *)
(***************************************************************************)
EXTENDS Integers, SequencesExt, SequenceTheorems, FunctionTheorems, WellFoundedInduction,
        TLAPS

-----------------------------------------------------------------------------
(***************************************************************************)
(* Naturals.                                                               *)
(***************************************************************************)
\* A non-empty set of naturals holds its minimum.
LEMMA LeastOf ==
  ASSUME NEW S \in SUBSET Nat, S # {}
  PROVE  Min(S) \in S /\ \A y \in S : Min(S) <= y
<1>1. \E x \in S : \A y \in S : <<y, x>> \notin OpToRel(<, Nat)
  BY NatLessThanWellFounded, WFMin
<1>2. PICK x \in S : \A y \in S : <<y, x>> \notin OpToRel(<, Nat)
  BY <1>1
<1>3. \A y \in S : ~(y < x)
  BY <1>2 DEF OpToRel
<1>4. \A y \in S : x <= y
  BY <1>3
<1> QED
  BY <1>4 DEF Min

\* Counting up to n: a set that has 0, and k + 1 with every k below n.
LEMMA UpTo ==
  ASSUME NEW n \in Nat, NEW S, 0 \in S, \A k \in 0..n : k \in S /\ k < n => k + 1 \in S
  PROVE  \A k \in 0..n : k \in S
<1> DEFINE Rest == (0..n) \ S
<1> SUFFICES ASSUME Rest # {} PROVE FALSE
  OBVIOUS
<1> DEFINE m == Min(Rest)
<1>1. Rest \in SUBSET Nat
  OBVIOUS
<1>2. m \in Rest /\ \A y \in Rest : m <= y
  BY <1>1, LeastOf
<1> HIDE DEF m
<1>3. m \in 0..n /\ m \notin S /\ m # 0
  BY <1>2
<1>4. m - 1 \in 0..n /\ m - 1 < n /\ (m - 1) + 1 = m /\ ~(m <= m - 1)
  BY <1>3
<1>5. m - 1 \in S
  BY <1>2, <1>4
<1> QED
  BY <1>3, <1>4, <1>5

\* A function that takes n steps from a: what a recursive definition needs to
\* have a value.
Runs(D, n, a, next) ==
  {g \in [0..n -> D] : g[0] = a /\ \A k \in 0..n : k < n => g[k + 1] = next[<<k + 1, g[k]>>]}

LEMMA RunExists ==
  ASSUME NEW D, NEW n \in Nat, NEW a \in D, NEW next \in [(1..n) \X D -> D]
  PROVE  Runs(D, n, a, next) # {}
<1> DEFINE S == {k \in 0..n : Runs(D, k, a, next) # {}}
<1>1. 0 \in S
  <2> DEFINE g == [k \in 0..0 |-> a]
  <2>1. g \in [0..0 -> D] /\ g[0] = a /\ \A k \in 0..0 : ~(k < 0)
    OBVIOUS
  <2> HIDE DEF g
  <2>2. g \in Runs(D, 0, a, next)
    BY <2>1 DEF Runs
  <2> QED
    BY <2>2
<1>2. ASSUME NEW k \in 0..n, k \in S, k < n PROVE k + 1 \in S
  <2>1. PICK g : g \in Runs(D, k, a, next)
    BY <1>2
  <2>2. /\ g \in [0..k -> D] /\ g[0] = a
        /\ \A j \in 0..k : j < k => g[j + 1] = next[<<j + 1, g[j]>>]
    BY <2>1 DEF Runs
  <2> DEFINE x == next[<<k + 1, g[k]>>]
             h == [j \in 0..(k + 1) |-> IF j <= k THEN g[j] ELSE x]
  <2>3. k \in Nat /\ k + 1 \in 0..n /\ k + 1 \in 1..n /\ k \in 0..k
    BY <1>2
  <2>4. x \in D
    BY <2>2, <2>3
  <2> HIDE DEF x
  <2>5. h \in [0..(k + 1) -> D]
    BY <2>2, <2>3, <2>4
  <2>6. h[0] = a
    BY <2>2, <2>3
  <2>7. ASSUME NEW j \in 0..(k + 1), j < k + 1 PROVE h[j + 1] = next[<<j + 1, h[j]>>]
    <3>1. j \in 0..k /\ j + 1 \in 0..(k + 1) /\ h[j] = g[j]
      BY <2>3, <2>7
    <3>2. CASE j < k
      <4>1. h[j + 1] = g[j + 1]
        BY <2>3, <3>1, <3>2
      <4> QED
        BY <2>2, <3>1, <3>2, <4>1
    <3>3. CASE j = k
      <4>1. h[j + 1] = x
        BY <2>3, <3>1, <3>3
      <4> QED
        BY <3>1, <3>3, <4>1 DEF x
    <3> QED
      BY <2>3, <3>1, <3>2, <3>3
  <2> HIDE DEF h
  <2>8. h \in Runs(D, k + 1, a, next)
    BY <2>5, <2>6, <2>7 DEF Runs
  <2> QED
    BY <2>3, <2>8
<1>3. n \in S
  <2> HIDE DEF S
  <2>1. \A k \in 0..n : k \in S
    BY <1>1, <1>2, UpTo
  <2> QED
    BY <2>1
<1> QED
  BY <1>3

\* A function whose values are made of its values at places further on, from a
\* place low: what a recursive definition that runs ahead needs to have a value.
Descents(D, low, n, base, next, step) ==
  {g \in [low..n -> D] :
     /\ g[n] = base
     /\ \A start \in low..n : start # n => g[start] = step[<<start, g[next[start]]>>]}

LEMMA DescentExists ==
  ASSUME NEW D, NEW n \in Nat, NEW base \in D, NEW next, NEW step,
         \A start \in 0..n : start # n => next[start] \in (start + 1)..n,
         \A start \in 0..n, d \in D : start # n => step[<<start, d>>] \in D
  PROVE  Descents(D, 0, n, base, next, step) # {}
<1> DEFINE S == {k \in 0..n : Descents(D, n - k, n, base, next, step) # {}}
<1>2. 0 \in S
  <2> DEFINE g == [start \in (n - 0)..n |-> base]
  <2>1. /\ g \in [(n - 0)..n -> D] /\ g[n] = base
        /\ \A start \in (n - 0)..n : start = n
    OBVIOUS
  <2> HIDE DEF g
  <2>2. g \in Descents(D, n - 0, n, base, next, step)
    BY <2>1 DEF Descents
  <2> QED
    BY <2>2
<1>3. ASSUME NEW k \in 0..n, k \in S, k < n PROVE k + 1 \in S
  <2> DEFINE low == n - (k + 1)
             end == next[low]
  <2>1. /\ low \in Nat /\ low < n /\ low \in 0..n /\ low + 1 = n - k /\ k + 1 \in 0..n
        /\ n \in (low + 1)..n
    BY <1>3
  <2>2. PICK g : g \in Descents(D, low + 1, n, base, next, step)
    BY <1>3, <2>1
  <2>3. /\ g \in [(low + 1)..n -> D] /\ g[n] = base
        /\ \A start \in (low + 1)..n : start # n => g[start] = step[<<start, g[next[start]]>>]
    BY <2>2 DEF Descents
  <2> HIDE DEF low
  <2>4. ASSUME NEW start \in low..n, start # n PROVE next[start] \in (low + 1)..n
    <3>1. start \in 0..n /\ next[start] \in (start + 1)..n
      BY <2>1, <2>4
    <3> QED
      BY <2>1, <3>1
  <2> HIDE DEF end
  <2>5. end \in (low + 1)..n /\ low # n
    BY <2>1, <2>4 DEF end
  <2> DEFINE x == step[<<low, g[end]>>]
             h == [start \in low..n |-> IF start = low THEN x ELSE g[start]]
  <2>6. x \in D
    BY <2>1, <2>3, <2>5
  <2> HIDE DEF x
  <2>7. h \in [low..n -> D]
    <3>1. \A start \in low..n : start # low => start \in (low + 1)..n
      BY <2>1
    <3> QED
      BY <2>3, <2>6, <3>1
  <2>8. h[n] = base
    BY <2>1, <2>3
  <2>9. ASSUME NEW start \in low..n, start # n
        PROVE  h[start] = step[<<start, h[next[start]]>>]
    <3> DEFINE v == next[start]
    <3>1. v \in (low + 1)..n
      BY <2>4, <2>9
    <3> HIDE DEF v
    <3>2. h[v] = g[v]
      <4>1. v \in low..n /\ v # low
        BY <2>1, <3>1
      <4> QED
        BY <4>1
    <3>3. CASE start = low
      <4>1. h[start] = x
        BY <3>3
      <4> QED
        BY <3>2, <3>3, <4>1 DEF x, end, v
    <3>4. CASE start # low
      <4>1. start \in (low + 1)..n
        BY <2>1, <3>4
      <4>2. h[start] = g[start]
        BY <3>4
      <4> QED
        BY <2>3, <2>9, <3>2, <4>1, <4>2 DEF v
    <3> QED
      BY <3>3, <3>4
  <2> HIDE DEF h
  <2>10. h \in Descents(D, low, n, base, next, step)
    BY <2>7, <2>8, <2>9 DEF Descents
  <2> QED
    BY <2>1, <2>10 DEF low
<1>4. n \in S
  <2> HIDE DEF S
  <2>1. \A k \in 0..n : k \in S
    BY <1>2, <1>3, UpTo
  <2> QED
    BY <2>1
<1>5. n - n = 0
  OBVIOUS
<1> QED
  BY <1>4, <1>5

\* Counting down from n: a set that has n, and a place when it has all after it.
LEMMA DownTo ==
  ASSUME NEW n \in Nat, NEW S, n \in S,
         \A i \in 0..n : i # n /\ (\A j \in (i + 1)..n : j \in S) => i \in S
  PROVE  \A i \in 0..n : i \in S
<1> DEFINE T == {k \in 0..n : \A j \in (n - k)..n : j \in S}
<1>1. 0 \in T
  OBVIOUS
<1>2. ASSUME NEW k \in 0..n, k \in T, k < n PROVE k + 1 \in T
  <2> DEFINE i == n - (k + 1)
  <2>1. i \in 0..n /\ i # n /\ i + 1 = n - k
    BY <1>2
  <2> HIDE DEF i
  <2>2. i \in S
    BY <1>2, <2>1
  <2>3. \A j \in i..n : j = i \/ j \in (i + 1)..n
    BY <2>1
  <2>4. \A j \in i..n : j \in S
    BY <1>2, <2>1, <2>2, <2>3
  <2> QED
    BY <1>2, <2>4 DEF i
<1>3. n \in T
  <2> HIDE DEF T
  <2>1. \A k \in 0..n : k \in T
    BY <1>1, <1>2, UpTo
  <2> QED
    BY <2>1
<1> QED
  BY <1>3

\* A sequence over a set is one over a larger set.
LEMMA SeqOver ==
  ASSUME NEW S, NEW T, S \subseteq T, NEW s \in Seq(S)
  PROVE  s \in Seq(T)
<1>1. Len(s) \in Nat /\ s \in [1..Len(s) -> T]
  OBVIOUS
<1> QED
  BY <1>1

-----------------------------------------------------------------------------
(***************************************************************************)
(* FlattenSeq is what a loop makes that appends one piece after another.   *)
(***************************************************************************)
\* g[k] is what the first k pieces make.
FlatRun(E, ss, g) ==
  /\ g \in [0..Len(ss) -> Seq(E)] /\ g[0] = <<>>
  /\ \A k \in 0..Len(ss) : k < Len(ss) => g[k + 1] = g[k] \o ss[k + 1]

LEMMA FlatRunExists ==
  ASSUME NEW E, NEW ss \in Seq(Seq(E))
  PROVE  \E g : FlatRun(E, ss, g)
<1> DEFINE n == Len(ss)
           D == Seq(E)
           next == [x \in (1..n) \X D |-> x[2] \o ss[x[1]]]
<1>1. n \in Nat /\ \A i \in 1..n : ss[i] \in Seq(E)
  OBVIOUS
<1> HIDE DEF n
<1>2. <<>> \in D /\ next \in [(1..n) \X D -> D]
  <2>1. ASSUME NEW x \in (1..n) \X D PROVE x[2] \o ss[x[1]] \in D
    <3>1. x[2] \in Seq(E) /\ ss[x[1]] \in Seq(E)
      BY <1>1
    <3> QED
      BY <3>1, ConcatProperties
  <2> QED
    BY <2>1, EmptySeq
<1>3. \A k \in 1..n, d \in D : next[<<k, d>>] = d \o ss[k]
  OBVIOUS
<1> HIDE DEF next
<1>4. PICK g : g \in Runs(D, n, <<>>, next)
  BY <1>1, <1>2, RunExists
<1>5. /\ g \in [0..n -> D] /\ g[0] = <<>>
      /\ \A k \in 0..n : k < n => g[k + 1] = next[<<k + 1, g[k]>>]
  BY <1>4 DEF Runs
<1>6. ASSUME NEW k \in 0..n, k < n PROVE g[k + 1] = g[k] \o ss[k + 1]
  <2>1. k + 1 \in 1..n /\ g[k] \in D
    BY <1>1, <1>5, <1>6
  <2> QED
    BY <1>3, <1>5, <1>6, <2>1
<1> QED
  BY <1>5, <1>6 DEF FlatRun, n

LEMMA FlattenIsRun ==
  ASSUME NEW E, NEW ss \in Seq(Seq(E)), NEW g, FlatRun(E, ss, g)
  PROVE  FlattenSeq(ss) = g[Len(ss)] /\ FlattenSeq(ss) \in Seq(E)
<1> DEFINE n == Len(ss)
<1>1. n \in Nat /\ \A i \in 1..n : ss[i] \in Seq(E)
  OBVIOUS
<1>2. CASE n = 0
  <2>1. ss = <<>> /\ FlattenSeq(ss) = ss
    BY <1>2, EmptySeq DEF FlattenSeq
  <2> QED
    BY <1>2, <2>1 DEF FlatRun
<1>3. CASE n # 0
  <2> DEFINE Step(h, i) == IF i = 1 THEN ss[i] ELSE h[i - 1] \o ss[i]
             Rec(h) == h = [i \in 1..n |-> Step(h, i)]
             flat == CHOOSE h : Rec(h)
             f == [i \in 1..n |-> g[i]]
  <2>1. FlattenSeq(ss) = flat[n]
    BY <1>3 DEF FlattenSeq
  <2> HIDE DEF n
  <2>2. /\ g \in [0..n -> Seq(E)] /\ g[0] = <<>>
        /\ \A k \in 0..n : k < n => g[k + 1] = g[k] \o ss[k + 1]
    BY DEF FlatRun, n
  <2>3. ASSUME NEW i \in 1..n PROVE g[i] = Step(f, i)
    <3>1. i - 1 \in 0..n /\ i - 1 < n /\ (i - 1) + 1 = i
      BY <1>1
    <3>2. g[i] = g[i - 1] \o ss[i]
      BY <2>2, <3>1
    <3>3. CASE i = 1
      <4>1. <<>> \o ss[i] = ss[i]
        BY <1>1, ConcatEmptySeq
      <4>2. g[i - 1] = <<>>
        BY <2>2, <3>3
      <4>3. g[i] = ss[i]
        BY <3>2, <4>1, <4>2
      <4> QED
        BY <3>3, <4>3
    <3>4. CASE i # 1
      <4>1. f[i - 1] = g[i - 1]
        BY <1>1, <3>4
      <4> HIDE DEF f
      <4>2. g[i] = f[i - 1] \o ss[i]
        BY <3>2, <4>1
      <4> QED
        BY <3>4, <4>2
    <3> HIDE DEF Step
    <3> QED
      BY <3>3, <3>4
  <2>4. Rec(f)
    <3> HIDE DEF f, Step
    <3>1. f = [i \in 1..n |-> Step(f, i)]
      BY <2>3 DEF f
    <3> QED
      BY <3>1
  <2>5. Rec(flat)
    <3> HIDE DEF Rec, f
    <3> QED
      BY <2>4
  <2> HIDE DEF flat, f, Step
  <2>6. \A i \in 1..n : flat[i] = Step(flat, i)
    BY <2>5
  <2> HIDE DEF Rec
  <2> DEFINE S == {k \in 0..n : k = 0 \/ flat[k] = g[k]}
  <2>7. 0 \in S
    BY <1>1
  <2>8. ASSUME NEW k \in 0..n, k \in S, k < n PROVE k + 1 \in S
    <3>0. g[k + 1] = g[k] \o ss[k + 1]
      BY <2>2, <2>8
    <3>1. k + 1 \in 1..n /\ k + 1 \in 0..n /\ (k + 1) - 1 = k /\ g[k + 1] = g[k] \o ss[k + 1]
      <4> HIDE DEF S
      <4> QED
        BY <1>1, <2>8, <3>0
    <3>2. CASE k = 0
      <4>1. flat[k + 1] = ss[k + 1]
        BY <2>6, <3>1, <3>2 DEF Step
      <4>2. g[k + 1] = ss[k + 1]
        BY <1>1, <2>2, <3>1, <3>2, ConcatEmptySeq
      <4> QED
        BY <3>1, <4>1, <4>2
    <3>3. CASE k # 0
      <4>1. k + 1 # 1 /\ flat[k] = g[k]
        BY <1>1, <2>8, <3>3
      <4>2. flat[k + 1] = flat[k] \o ss[k + 1]
        BY <2>6, <3>1, <4>1 DEF Step
      <4> QED
        BY <3>1, <4>1, <4>2
    <3> QED
      BY <3>2, <3>3
  <2>9. n \in S
    <3> HIDE DEF S
    <3>1. \A k \in 0..n : k \in S
      BY <1>1, <2>7, <2>8, UpTo
    <3> QED
      BY <1>1, <3>1
  <2>10. flat[n] = g[n] /\ g[n] \in Seq(E)
    BY <1>1, <1>3, <2>2, <2>9
  <2> QED
    BY <2>1, <2>10 DEF n
<1> QED
  BY <1>2, <1>3

\* A flattened sequence that gets one more piece at its front.
LEMMA FlattenFront ==
  ASSUME NEW E, NEW x \in Seq(E), NEW ss \in Seq(Seq(E))
  PROVE  FlattenSeq(<<x>> \o ss) = x \o FlattenSeq(ss)
<1> DEFINE n == Len(ss)
           tt == <<x>> \o ss
<1>1. /\ n \in Nat /\ tt \in Seq(Seq(E)) /\ Len(tt) = n + 1
      /\ tt[1] = x /\ \A i \in 1..n : tt[i + 1] = ss[i] /\ ss[i] \in Seq(E)
  <2>1. <<x>> \in Seq(Seq(E)) /\ Len(<<x>>) = 1 /\ <<x>>[1] = x
    OBVIOUS
  <2>2. /\ tt \in Seq(Seq(E)) /\ Len(tt) = 1 + n
        /\ \A i \in 1..1 : tt[i] = <<x>>[i]
        /\ \A i \in 1..n : tt[1 + i] = ss[i]
    <3> HIDE DEF tt
    <3>1. /\ <<x>> \o ss \in Seq(Seq(E)) /\ Len(<<x>> \o ss) = 1 + n
          /\ \A i \in 1..(1 + n) : (<<x>> \o ss)[i] = IF i <= 1 THEN <<x>>[i] ELSE ss[i - 1]
      BY <2>1, ConcatProperties
    <3>2. n \in Nat
      OBVIOUS
    <3>3. \A i \in 1..n : 1 + i \in 1..(1 + n) /\ ~(1 + i <= 1) /\ (1 + i) - 1 = i
      BY <3>2
    <3>4. 1 \in 1..(1 + n)
      BY <3>2
    <3> HIDE DEF n
    <3> QED
      BY <3>1, <3>3, <3>4 DEF tt
  <2> QED
    BY <2>1, <2>2
<1> HIDE DEF tt
<1>2. PICK g : FlatRun(E, ss, g)
  BY FlatRunExists
<1>3. /\ g \in [0..n -> Seq(E)] /\ g[0] = <<>> /\ g[n] = FlattenSeq(ss)
      /\ \A k \in 0..n : k < n => g[k + 1] = g[k] \o ss[k + 1]
  BY <1>2, FlattenIsRun DEF FlatRun
<1> HIDE DEF n
<1> DEFINE h == [k \in 0..(n + 1) |-> IF k = 0 THEN <<>> ELSE x \o g[k - 1]]
<1>4. h \in [0..(n + 1) -> Seq(E)]
  <2>1. \A k \in 0..(n + 1) : k # 0 => k - 1 \in 0..n
    BY <1>1
  <2>2. \A k \in 0..n : x \o g[k] \in Seq(E)
    BY <1>3, ConcatProperties
  <2>3. \A k \in 0..(n + 1) : h[k] \in Seq(E)
    <3> SUFFICES ASSUME NEW k \in 0..(n + 1) PROVE h[k] \in Seq(E)
      OBVIOUS
    <3>1. CASE k = 0
      BY <3>1, EmptySeq
    <3>2. CASE k # 0
      BY <2>1, <2>2, <3>2
    <3> QED
      BY <3>1, <3>2
  <2> QED
    BY <2>3
<1>5. h[0] = <<>> /\ h[n + 1] = x \o g[n]
  BY <1>1
<1>6. ASSUME NEW k \in 0..(n + 1), k < n + 1 PROVE h[k + 1] = h[k] \o tt[k + 1]
  <2>1. k + 1 \in 0..(n + 1) /\ k + 1 # 0 /\ (k + 1) - 1 = k /\ k \in 0..n
    BY <1>1, <1>6
  <2>2. h[k + 1] = x \o g[k]
    BY <2>1
  <2>3. CASE k = 0
    <3>1. h[k] = <<>> /\ g[k] = <<>> /\ tt[k + 1] = x
      BY <1>1, <1>3, <2>1, <2>3
    <3>2. x \o <<>> = x /\ <<>> \o x = x
      BY ConcatEmptySeq
    <3> QED
      BY <2>2, <3>1, <3>2
  <2>4. CASE k # 0
    <3>1. k - 1 \in 0..n /\ k - 1 < n /\ (k - 1) + 1 = k /\ k \in 1..n
      BY <1>1, <2>1, <2>4
    <3>2. g[k] = g[k - 1] \o ss[k] /\ tt[k + 1] = ss[k] /\ ss[k] \in Seq(E) /\ g[k - 1] \in Seq(E)
      BY <1>1, <1>3, <3>1
    <3>3. h[k] = x \o g[k - 1]
      BY <2>4
    <3>4. x \o (g[k - 1] \o ss[k]) = (x \o g[k - 1]) \o ss[k]
      <4> HIDE DEF h
      <4> DEFINE y == g[k - 1]
                 z == ss[k]
      <4>1. y \in Seq(E) /\ z \in Seq(E)
        BY <3>2
      <4> HIDE DEF y, z
      <4>2. (x \o y) \o z = x \o (y \o z)
        BY <4>1, ConcatAssociative
      <4> QED
        BY <4>2 DEF y, z
    <3> QED
      BY <2>2, <3>2, <3>3, <3>4
  <2> QED
    BY <2>3, <2>4
<1> HIDE DEF h
<1>7. FlatRun(E, tt, h)
  BY <1>1, <1>4, <1>5, <1>6 DEF FlatRun
<1>8. FlattenSeq(tt) = h[n + 1]
  BY <1>1, <1>7, FlattenIsRun
<1> QED
  BY <1>3, <1>5, <1>8 DEF tt

(***************************************************************************)
(* A flattened sequence has the elements of its pieces, each once and in   *)
(* their order: f tells of each where it was.                              *)
(***************************************************************************)
Places(ss, n) == {x \in (1..n) \X Nat : x[2] \in DOMAIN ss[x[1]]}

Before(x, y) == x[1] < y[1] \/ (x[1] = y[1] /\ x[2] < y[2])

Spreads(s, ss, n) ==
  {f \in [DOMAIN s -> Places(ss, n)] :
     /\ \A i \in DOMAIN s : s[i] = ss[f[i][1]][f[i][2]]
     /\ \A i, j \in DOMAIN s : i < j => Before(f[i], f[j])
     /\ \A x \in Places(ss, n) : \E i \in DOMAIN s : f[i] = x}

LEMMA NextPiece ==
  ASSUME NEW E, NEW ss \in Seq(Seq(E)), NEW n \in Nat, n + 1 <= Len(ss),
         NEW s \in Seq(E), Spreads(s, ss, n) # {}
  PROVE  s \o ss[n + 1] \in Seq(E) /\ Spreads(s \o ss[n + 1], ss, n + 1) # {}
<1> DEFINE a == ss[n + 1]
           t == s \o a
           L == Len(s)
           P == Places(ss, n)
           Q == Places(ss, n + 1)
<1>1. n + 1 \in DOMAIN ss /\ a \in Seq(E) /\ n + 1 \in 1..(n + 1) /\ L \in Nat /\ Len(a) \in Nat
  OBVIOUS
<1>2. /\ t \in Seq(E) /\ Len(t) = L + Len(a) /\ DOMAIN t = 1..(L + Len(a)) /\ DOMAIN s = 1..L
      /\ DOMAIN a = 1..Len(a)
      /\ \A i \in 1..(L + Len(a)) : t[i] = IF i <= L THEN s[i] ELSE a[i - L]
  BY <1>1, ConcatProperties
<1>3. PICK f : f \in Spreads(s, ss, n)
  OBVIOUS
<1>4. /\ f \in [DOMAIN s -> P]
      /\ \A i \in DOMAIN s : s[i] = ss[f[i][1]][f[i][2]]
      /\ \A i, j \in DOMAIN s : i < j => Before(f[i], f[j])
      /\ \A x \in P : \E i \in DOMAIN s : f[i] = x
  BY <1>3 DEF Spreads
<1> HIDE DEF t, L
<1>5. \A x \in P : x \in Q /\ x[1] \in 1..n /\ x[2] \in Nat /\ x[1] < n + 1
  <2>1. \A p \in 1..n : p \in 1..(n + 1) /\ p < n + 1
    OBVIOUS
  <2> QED
    BY <2>1 DEF Places
<1>6. \A q \in DOMAIN a : <<n + 1, q>> \in Q
  BY <1>1, <1>2 DEF Places
<1> HIDE DEF P, Q, a
<1> DEFINE h == [i \in DOMAIN t |-> IF i <= L THEN f[i] ELSE <<n + 1, i - L>>]
<1>7. ASSUME NEW i \in DOMAIN t
      PROVE  \/ /\ i <= L /\ i \in DOMAIN s /\ h[i] = f[i] /\ h[i] \in P /\ t[i] = s[i]
             \/ /\ ~(i <= L) /\ i - L \in DOMAIN a /\ h[i] = <<n + 1, i - L>>
                /\ h[i] \in Q /\ t[i] = a[i - L]
  <2>1. CASE i <= L
    <3>1. i \in DOMAIN s
      BY <1>1, <1>2, <2>1
    <3>2. t[i] = s[i]
      BY <1>2, <2>1
    <3> QED
      BY <1>4, <2>1, <3>1, <3>2
  <2>2. CASE ~(i <= L)
    <3>1. i - L \in DOMAIN a
      BY <1>1, <1>2, <2>2
    <3>2. t[i] = a[i - L]
      BY <1>2, <2>2
    <3> QED
      BY <1>6, <2>2, <3>1, <3>2
  <2> QED
    BY <2>1, <2>2
<1>8. h \in [DOMAIN t -> Q]
  BY <1>5, <1>7
<1> HIDE DEF h
<1>9. ASSUME NEW i \in DOMAIN t PROVE t[i] = ss[h[i][1]][h[i][2]]
  <2>1. CASE i <= L
    BY <1>4, <1>7, <2>1
  <2>2. CASE ~(i <= L)
    <3>1. h[i] = <<n + 1, i - L>> /\ t[i] = a[i - L]
      BY <1>7, <2>2
    <3>2. h[i][1] = n + 1 /\ h[i][2] = i - L
      BY <3>1
    <3> QED
      BY <3>1, <3>2 DEF a
  <2> QED
    BY <2>1, <2>2
<1>10. ASSUME NEW i \in DOMAIN t, NEW j \in DOMAIN t, i < j PROVE Before(h[i], h[j])
  <2>1. CASE j <= L
    <3>1. i <= L
      BY <1>1, <1>2, <1>10, <2>1
    <3> QED
      BY <1>4, <1>7, <1>10, <2>1, <3>1
  <2>2. CASE ~(j <= L) /\ i <= L
    <3>1. h[i] \in P /\ h[j] = <<n + 1, j - L>>
      BY <1>7, <2>2
    <3>2. h[i][1] < h[j][1]
      BY <1>5, <3>1
    <3> QED
      BY <3>2 DEF Before
  <2>3. CASE ~(i <= L)
    <3>1. ~(j <= L)
      BY <1>1, <1>2, <1>10, <2>3
    <3>2. h[i] = <<n + 1, i - L>> /\ h[j] = <<n + 1, j - L>>
      BY <1>7, <2>3, <3>1
    <3>3. i - L < j - L
      BY <1>1, <1>2, <1>10
    <3> QED
      BY <3>2, <3>3 DEF Before
  <2> QED
    BY <2>1, <2>2, <2>3
<1>11. ASSUME NEW x \in Q PROVE \E i \in DOMAIN t : h[i] = x
  <2>1. x \in (1..(n + 1)) \X Nat /\ x[2] \in DOMAIN ss[x[1]] /\ x = <<x[1], x[2]>>
    BY DEF Q, Places
  <2>2. CASE x[1] \in 1..n
    <3>1. x \in P
      BY <2>1, <2>2 DEF P, Places
    <3>2. PICK i \in DOMAIN s : f[i] = x
      BY <1>4, <3>1
    <3>3. i \in DOMAIN t /\ i <= L
      BY <1>1, <1>2
    <3> QED
      BY <1>7, <3>2, <3>3
  <2>3. CASE x[1] \notin 1..n
    <3>1. x[1] = n + 1
      BY <2>1, <2>3
    <3>2. x[2] \in 1..Len(a)
      BY <1>2, <2>1, <3>1 DEF a
    <3>3. x[2] + L \in DOMAIN t /\ ~(x[2] + L <= L) /\ (x[2] + L) - L = x[2]
      BY <1>1, <1>2, <3>2
    <3>4. h[x[2] + L] = x
      BY <1>7, <2>1, <3>1, <3>3
    <3> QED
      BY <3>3, <3>4
  <2> QED
    BY <2>2, <2>3
<1>12. h \in Spreads(t, ss, n + 1)
  BY <1>8, <1>9, <1>10, <1>11 DEF Spreads, Q
<1> QED
  BY <1>2, <1>12 DEF t, a

LEMMA FlattenSpreads ==
  ASSUME NEW E, NEW ss \in Seq(Seq(E))
  PROVE  FlattenSeq(ss) \in Seq(E) /\ Spreads(FlattenSeq(ss), ss, Len(ss)) # {}
<1> DEFINE n == Len(ss)
<1>1. n \in Nat
  OBVIOUS
<1>2. PICK g : FlatRun(E, ss, g)
  BY FlatRunExists
<1>3. /\ g \in [0..n -> Seq(E)] /\ g[0] = <<>> /\ g[n] = FlattenSeq(ss)
      /\ \A k \in 0..n : k < n => g[k + 1] = g[k] \o ss[k + 1]
  BY <1>2, FlattenIsRun DEF FlatRun
<1> DEFINE S == {k \in 0..n : Spreads(g[k], ss, k) # {}}
<1>4. 0 \in S
  <2>1. Places(ss, 0) = {} /\ DOMAIN g[0] = {}
    BY <1>3 DEF Places
  <2>2. [i \in {} |-> {}] \in Spreads(g[0], ss, 0)
    BY <2>1 DEF Spreads
  <2> QED
    BY <1>1, <2>2
<1>5. ASSUME NEW k \in 0..n, k \in S, k < n PROVE k + 1 \in S
  <2>1. k \in Nat /\ k + 1 <= Len(ss) /\ k + 1 \in 0..n
    BY <1>1, <1>5
  <2>2. g[k] \in Seq(E) /\ Spreads(g[k], ss, k) # {} /\ g[k + 1] = g[k] \o ss[k + 1]
    BY <1>3, <1>5
  <2>3. Spreads(g[k + 1], ss, k + 1) # {}
    BY <2>1, <2>2, NextPiece
  <2> QED
    BY <2>1, <2>3
<1>6. n \in S
  <2> HIDE DEF S, n
  <2>1. \A k \in 0..n : k \in S
    BY <1>1, <1>4, <1>5, UpTo
  <2> QED
    BY <1>1, <2>1
<1> QED
  BY <1>1, <1>3, <1>6

\* No two elements were at one place.
LEMMA SpreadOnce ==
  ASSUME NEW E, NEW s \in Seq(E), NEW ss, NEW n \in Nat, NEW f \in Spreads(s, ss, n),
         NEW i \in DOMAIN s, NEW j \in DOMAIN s, f[i] = f[j]
  PROVE  i = j
<1>1. \A k, l \in DOMAIN s : k < l => Before(f[k], f[l])
  BY DEF Spreads
<1>2. f[i] \in Places(ss, n)
  BY DEF Spreads
<1>3. f[i][1] \in Nat /\ f[i][2] \in Nat
  BY <1>2 DEF Places
<1>4. ~Before(f[i], f[i])
  BY <1>3 DEF Before
<1>5. ~(i < j) /\ ~(j < i)
  BY <1>1, <1>4
<1>6. i \in Nat /\ j \in Nat
  OBVIOUS
<1> QED
  BY <1>5, <1>6

\* How long a flattened sequence is: f[k] is the length of the first k pieces.
LEMMA FlattenLength ==
  ASSUME NEW E, NEW ss \in Seq(Seq(E)), NEW f \in [0..Len(ss) -> Nat], f[0] = 0,
         \A k \in 0..Len(ss) : k < Len(ss) => f[k + 1] = f[k] + Len(ss[k + 1])
  PROVE  Len(FlattenSeq(ss)) = f[Len(ss)]
<1> DEFINE n == Len(ss)
<1>1. n \in Nat /\ \A k \in 1..n : ss[k] \in Seq(E)
  OBVIOUS
<1>2. PICK g : FlatRun(E, ss, g)
  BY FlatRunExists
<1>3. /\ g \in [0..n -> Seq(E)] /\ g[0] = <<>> /\ FlattenSeq(ss) = g[n]
      /\ \A k \in 0..n : k < n => g[k + 1] = g[k] \o ss[k + 1]
  BY <1>2, FlattenIsRun DEF FlatRun
<1>4. f \in [0..n -> Nat] /\ \A k \in 0..n : k < n => f[k + 1] = f[k] + Len(ss[k + 1])
  OBVIOUS
<1> HIDE DEF n
<1> DEFINE S == {k \in 0..n : Len(g[k]) = f[k]}
<1>5. 0 \in S
  BY <1>1, <1>3
<1>6. ASSUME NEW k \in 0..n, k \in S, k < n PROVE k + 1 \in S
  <2>1. k + 1 \in 1..n /\ g[k] \in Seq(E) /\ Len(g[k]) = f[k]
    BY <1>1, <1>3, <1>6
  <2>2. Len(g[k] \o ss[k + 1]) = Len(g[k]) + Len(ss[k + 1])
    <3>1. ss[k + 1] \in Seq(E)
      BY <1>1, <2>1
    <3> QED
      BY <2>1, <3>1, ConcatProperties
  <2>3. g[k + 1] = g[k] \o ss[k + 1] /\ f[k + 1] = f[k] + Len(ss[k + 1])
    BY <1>3, <1>4, <1>6
  <2>4. k + 1 \in 0..n
    BY <1>1, <2>1
  <2> QED
    BY <2>1, <2>2, <2>3, <2>4
<1> HIDE DEF S
<1>7. n \in S
  <2>1. \A k \in 0..n : k \in S
    BY <1>1, <1>5, <1>6, UpTo
  <2> QED
    BY <1>1, <2>1
<1> QED
  BY <1>3, <1>7 DEF S, n

\* When no piece has more than one element.
LEMMA FlattenShort ==
  ASSUME NEW E, NEW ss \in Seq(Seq(E)), \A k \in 1..Len(ss) : Len(ss[k]) <= 1
  PROVE  Len(FlattenSeq(ss)) \in Nat /\ Len(FlattenSeq(ss)) <= Len(ss)
<1> DEFINE n == Len(ss)
<1>1. n \in Nat /\ \A k \in 1..n : ss[k] \in Seq(E) /\ Len(ss[k]) \in Nat /\ Len(ss[k]) <= 1
  OBVIOUS
<1>2. PICK g : FlatRun(E, ss, g)
  BY FlatRunExists
<1>3. /\ g \in [0..n -> Seq(E)] /\ g[0] = <<>> /\ FlattenSeq(ss) = g[n]
      /\ \A k \in 0..n : k < n => g[k + 1] = g[k] \o ss[k + 1]
  BY <1>2, FlattenIsRun DEF FlatRun
<1> HIDE DEF n
<1> DEFINE S == {k \in 0..n : Len(g[k]) <= k}
<1>5. 0 \in S
  BY <1>1, <1>3
<1>6. ASSUME NEW k \in 0..n, k \in S, k < n PROVE k + 1 \in S
  <2>1. k + 1 \in 1..n /\ k + 1 \in 0..n /\ g[k] \in Seq(E) /\ Len(g[k]) \in Nat /\ Len(g[k]) <= k
    BY <1>1, <1>3, <1>6
  <2>2. Len(g[k] \o ss[k + 1]) = Len(g[k]) + Len(ss[k + 1])
    <3>1. ss[k + 1] \in Seq(E)
      BY <1>1, <2>1
    <3> QED
      BY <2>1, <3>1, ConcatProperties
  <2>3. g[k + 1] = g[k] \o ss[k + 1]
    BY <1>3, <1>6
  <2>4. Len(ss[k + 1]) \in Nat /\ Len(ss[k + 1]) <= 1
    BY <1>1, <2>1
  <2>5. Len(g[k + 1]) <= k + 1
    <3> DEFINE p == Len(g[k])
               r == Len(ss[k + 1])
    <3>1. p \in Nat /\ p <= k /\ r \in Nat /\ r <= 1 /\ k \in Nat
      BY <1>1, <2>1, <2>4
    <3>2. Len(g[k + 1]) = p + r
      BY <2>2, <2>3
    <3> HIDE DEF p, r
    <3> QED
      BY <3>1, <3>2
  <2> QED
    BY <2>1, <2>5
<1> HIDE DEF S
<1>7. n \in S
  <2>1. \A k \in 0..n : k \in S
    BY <1>1, <1>5, <1>6, UpTo
  <2> QED
    BY <1>1, <2>1
<1> QED
  BY <1>1, <1>3, <1>7 DEF S, n
===========================================================================
