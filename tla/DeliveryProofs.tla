--------------------------- MODULE DeliveryProofs ---------------------------
(***************************************************************************)
(* Theorems about SmsDelivery: what the receiver lists of the parts that   *)
(* have arrived.  Before them, lemmas about the operators of ConcatSms:    *)
(* what reassemble_messages makes of a list of entries, and what           *)
(* encode_segments cuts out of a text.                                     *)
(***************************************************************************)
EXTENDS SmsDelivery, SequenceLemmas, FiniteSetTheorems

-----------------------------------------------------------------------------
(***************************************************************************)
(* reassemble_messages.  Rising(s): entries as parse_message_list has      *)
(* them, each with an index above those of the entries before it.          *)
(***************************************************************************)
Rising(s) ==
  /\ \A i \in DOMAIN s : /\ "index" \in DOMAIN s[i] /\ s[i].index \in Nat
                          /\ s[i].total \in Nat /\ s[i].seq \in Nat
  /\ \A i, j \in DOMAIN s : i < j => s[i].index < s[j].index

\* All that the list may hold.
Listable(s) ==
  {s[i] : i \in DOMAIN s}
    \union {MergeConcatGroup(s, i) : i \in {j \in DOMAIN s : Joins(s, j) /\ Complete(s, j)}}

\* The group of a part that joins has it, and is a set of places.
LEMMA BucketHasIt ==
  ASSUME NEW V, NEW s \in Seq(V), NEW i \in DOMAIN s, Joins(s, i)
  PROVE  /\ Bucket(s, i) \in SUBSET (DOMAIN s) /\ i \in Bucket(s, i)
         /\ Bucket(s, i) \in SUBSET Nat
<1>1. SameGroup(s[i], s[i])
  BY DEF Joins, SameGroup
<1> QED
  BY <1>1 DEF Bucket

\* The part with a number of the group is an entry that joins it.
LEMMA PartJoins ==
  ASSUME NEW V, NEW s \in Seq(V), NEW i \in DOMAIN s, NEW seq,
         \E j \in Bucket(s, i) : s[j].seq = seq
  PROVE  \E j \in DOMAIN s : PartAt(s, i, seq) = s[j] /\ IsConcatSegment(s[j])
<1> DEFINE j == CHOOSE k \in Bucket(s, i) : s[k].seq = seq
<1>1. j \in Bucket(s, i)
  OBVIOUS
<1>2. PartAt(s, i, seq) = s[j]
  BY DEF PartAt
<1> HIDE DEF j
<1>3. j \in DOMAIN s /\ IsConcatSegment(s[j])
  BY <1>1 DEF Bucket, Joins
<1> QED
  BY <1>2, <1>3

\* A joined message has the index of the entry in whose place it is listed.
LEMMA MergedIndex ==
  ASSUME NEW V, NEW s \in Seq(V), Rising(s), NEW i \in DOMAIN s, Joins(s, i),
         i = Min(Bucket(s, i)), Complete(s, i)
  PROVE  MergeConcatGroup(s, i).index = s[i].index
<1> DEFINE B == Bucket(s, i)
           N == {s[j].index : j \in B}
<1>1. B \in SUBSET (DOMAIN s) /\ i \in B /\ B \in SUBSET Nat
  BY BucketHasIt
<1>2. \A j \in B : i <= j
  BY <1>1, LeastOf
<1> HIDE DEF B
<1>3. \A j \in B : s[j].index \in Nat /\ s[i].index <= s[j].index
  <2> SUFFICES ASSUME NEW j \in B PROVE s[j].index \in Nat /\ s[i].index <= s[j].index
    OBVIOUS
  <2>1. i \in Nat /\ j \in Nat /\ i <= j /\ j \in DOMAIN s
    BY <1>1, <1>2
  <2>2. s[i].index \in Nat /\ s[j].index \in Nat
    BY <2>1 DEF Rising
  <2>3. CASE i = j
    BY <2>2, <2>3
  <2>4. CASE i < j
    BY <2>1, <2>2, <2>4 DEF Rising
  <2> QED
    BY <2>1, <2>3, <2>4
<1>4. N \in SUBSET Nat /\ s[i].index \in N
  BY <1>1, <1>3
<1>5. Min(N) \in N /\ Min(N) <= s[i].index
  <2> HIDE DEF N
  <2> QED
    BY <1>4, LeastOf
<1>6. PICK j \in B : Min(N) = s[j].index
  BY <1>5
<1>7. Min(N) = s[i].index
  <2>1. s[j].index \in Nat /\ s[i].index \in Nat /\ s[i].index <= s[j].index
    BY <1>1, <1>3
  <2> HIDE DEF N
  <2> QED
    BY <1>5, <1>6, <2>1
<1>8. "index" \in DOMAIN PartAt(s, i, 1)
  <2>1. /\ s[i].total \in Nat /\ s[i].seq \in Nat
        /\ 0 < s[i].seq /\ s[i].seq <= s[i].total
    BY DEF Rising, Joins, IsConcatSegment
  <2>2. 1 <= s[i].total
    BY <2>1
  <2>3. 1 \in SeqsVisited(s[i].total)
    BY <2>1, <2>2 DEF SeqsVisited
  <2>4. \E k \in Bucket(s, i) : s[k].seq = 1
    BY <2>3 DEF Complete
  <2>5. PICK k \in DOMAIN s : PartAt(s, i, 1) = s[k]
    BY <2>4, PartJoins
  <2> QED
    BY <2>5 DEF Rising
<1> QED
  BY <1>7, <1>8 DEF MergeConcatGroup, N, B

\* What the list has for one entry: parts of a group that is not complete, or
\* one message with the index of the entry.
LEMMA SlotHas ==
  ASSUME NEW V, NEW s \in Seq(V), Rising(s), NEW i \in DOMAIN s
  PROVE  /\ Slot(s, i) \in Seq(Listable(s))
         /\ \/ \A q \in DOMAIN Slot(s, i) : IsConcatSegment(Slot(s, i)[q])
            \/ Len(Slot(s, i)) = 1 /\ Slot(s, i)[1].index = s[i].index
<1> DEFINE L == Listable(s)
<1>1. s[i] \in L /\ (Joins(s, i) /\ Complete(s, i) => MergeConcatGroup(s, i) \in L)
  BY DEF Listable
<1>2. CASE ~Joins(s, i)
  <2>1. Slot(s, i) = <<s[i]>>
    BY <1>2 DEF Slot
  <2> HIDE DEF L
  <2> QED
    BY <1>1, <2>1 DEF L
<1>3. CASE Joins(s, i) /\ i # Min(Bucket(s, i))
  <2>1. Slot(s, i) = <<>>
    BY <1>3 DEF Slot
  <2> QED
    BY <2>1
<1>4. CASE Joins(s, i) /\ i = Min(Bucket(s, i)) /\ Complete(s, i)
  <2>1. Slot(s, i) = <<MergeConcatGroup(s, i)>>
    BY <1>4 DEF Slot, Group
  <2>2. MergeConcatGroup(s, i).index = s[i].index
    BY <1>4, MergedIndex
  <2>3. MergeConcatGroup(s, i) \in L
    BY <1>1, <1>4
  <2> HIDE DEF L
  <2> QED
    BY <2>1, <2>2, <2>3 DEF L
<1>5. CASE Joins(s, i) /\ i = Min(Bucket(s, i)) /\ ~Complete(s, i)
  <2> DEFINE Here(seq) == \E j \in Bucket(s, i) : s[j].seq = seq
             parts == [seq \in 1..s[i].total |-> IF Here(seq) THEN <<PartAt(s, i, seq)>> ELSE <<>>]
             P == {s[j] : j \in {k \in DOMAIN s : IsConcatSegment(s[k])}}
  <2>1. Slot(s, i) = FlattenSeq(parts)
    BY <1>5 DEF Slot, Group
  <2>2. s[i].total \in Nat
    BY DEF Rising
  <2>3. \A seq : Here(seq) => PartAt(s, i, seq) \in P
    BY PartJoins
  <2>4. parts \in Seq(Seq(P))
    <3> HIDE DEF P, Here
    <3>1. \A seq \in 1..s[i].total : parts[seq] \in Seq(P)
      BY <2>3
    <3>2. parts \in [1..s[i].total -> Seq(P)]
      BY <3>1
    <3> DEFINE n == s[i].total
               R == Seq(P)
    <3>3. parts \in [1..n -> R] /\ n \in Nat
      BY <2>2, <3>2
    <3> HIDE DEF parts, n, R
    <3>4. parts \in Seq(R)
      BY <3>3
    <3> QED
      BY <3>4 DEF R
  <2> HIDE DEF parts
  <2>5. FlattenSeq(parts) \in Seq(P)
    <3> HIDE DEF P
    <3> QED
      BY <2>4, FlattenSpreads
  <2>6. P \subseteq L /\ \A x \in P : IsConcatSegment(x)
    BY DEF Listable
  <2> HIDE DEF P, L
  <2>7. Slot(s, i) \in Seq(P)
    BY <2>1, <2>5
  <2>8. Slot(s, i) \in Seq(L)
    BY <2>6, <2>7
  <2>9. \A q \in DOMAIN Slot(s, i) : Slot(s, i)[q] \in P
    BY <2>7
  <2> QED
    BY <2>6, <2>8, <2>9 DEF L
<1> QED
  BY <1>2, <1>3, <1>4, <1>5

\* What is no part of a group is listed in the order of the indices.
LEMMA ReassembledInOrder ==
  ASSUME NEW V, NEW s \in Seq(V), Rising(s),
         NEW i \in DOMAIN ReassembleMessages(s), NEW j \in DOMAIN ReassembleMessages(s), i < j,
         ~IsConcatSegment(ReassembleMessages(s)[i]), ~IsConcatSegment(ReassembleMessages(s)[j])
  PROVE  ReassembleMessages(s)[i].index < ReassembleMessages(s)[j].index
<1> DEFINE slots == [k \in DOMAIN s |-> Slot(s, k)]
           list == ReassembleMessages(s)
<1>1. DOMAIN slots = DOMAIN s /\ \A p \in DOMAIN s : slots[p] = Slot(s, p)
  OBVIOUS
<1>2. slots \in Seq(Seq(Listable(s)))
  <2>1. \A k \in DOMAIN s : Slot(s, k) \in Seq(Listable(s))
    BY SlotHas
  <2>2. DOMAIN s = 1..Len(s) /\ Len(s) \in Nat
    OBVIOUS
  <2>3. slots \in [1..Len(s) -> Seq(Listable(s))]
    BY <2>1, <2>2
  <2> HIDE DEF slots
  <2> QED
    BY <2>2, <2>3
<1>3. list = FlattenSeq(slots)
  BY DEF ReassembleMessages
<1> HIDE DEF slots, list
<1>4. PICK f : f \in Spreads(list, slots, Len(slots))
  BY <1>2, <1>3, FlattenSpreads
<1>5. /\ f \in [DOMAIN list -> Places(slots, Len(slots))]
      /\ \A k \in DOMAIN list : list[k] = slots[f[k][1]][f[k][2]]
      /\ \A k, l \in DOMAIN list : k < l => Before(f[k], f[l])
  BY <1>4 DEF Spreads
<1>6. Len(slots) = Len(s)
  BY <1>1, <1>2
<1>7. ASSUME NEW k \in DOMAIN list, ~IsConcatSegment(list[k])
      PROVE  f[k][1] \in DOMAIN s /\ f[k][2] = 1 /\ list[k].index = s[f[k][1]].index
  <2> DEFINE p == f[k][1]
             q == f[k][2]
  <2>1. p \in DOMAIN s /\ q \in DOMAIN slots[p] /\ list[k] = slots[p][q]
    <3>1. f[k] \in Places(slots, Len(slots))
      BY <1>5
    <3>2. p \in 1..Len(s) /\ q \in DOMAIN slots[p]
      BY <1>6, <3>1 DEF Places
    <3> QED
      BY <1>5, <3>2
  <2> HIDE DEF p, q
  <2>2. slots[p] = Slot(s, p)
    BY <1>1, <2>1
  <2>3. Slot(s, p) \in Seq(Listable(s)) /\ Len(Slot(s, p)) = 1 /\ Slot(s, p)[1].index = s[p].index
    BY <1>7, <2>1, <2>2, SlotHas
  <2>4. q = 1
    BY <2>1, <2>2, <2>3
  <2> QED
    BY <2>1, <2>2, <2>3, <2>4 DEF p, q
<1>8. /\ f[i][1] \in DOMAIN s /\ f[i][2] = 1 /\ list[i].index = s[f[i][1]].index
      /\ f[j][1] \in DOMAIN s /\ f[j][2] = 1 /\ list[j].index = s[f[j][1]].index
      /\ Before(f[i], f[j])
  BY <1>5, <1>7 DEF list
<1>9. f[i][1] < f[j][1]
  BY <1>8 DEF Before
<1> QED
  BY <1>8, <1>9 DEF Rising, list

-----------------------------------------------------------------------------
(***************************************************************************)
(* Units of text.  Hits(s, peer, u): where the unit u is in the data of    *)
(* peer's entries of s, as pairs of an entry and a place of its data.      *)
(***************************************************************************)
Hits(s, peer, u) ==
  {x \in (DOMAIN s) \X Nat :
     /\ s[x[1]].peer = peer
     /\ x[2] \in DOMAIN s[x[1]].data
     /\ s[x[1]].data[x[2]] = u}

LEMMA BijectionBy ==
  ASSUME NEW S, NEW T, NEW g \in [S -> T],
         \A a, b \in S : g[a] = g[b] => a = b,
         \A t \in T : \E a \in S : g[a] = t
  PROVE  ExistsBijection(S, T)
<1>1. g \in Bijection(S, T)
  BY Fun_IsBij
<1> QED
  BY <1>1 DEF ExistsBijection

\* What each piece has lies in a part of T, the parts cover T, and no two of
\* them meet: then the pieces together have what T has.
LEMMA GlueHits ==
  ASSUME NEW V, NEW ss \in Seq(Seq(V)), NEW peer, NEW u, NEW T, NEW M,
         \A p \in DOMAIN ss : M[p] \subseteq T /\ ExistsBijection(Hits(ss[p], peer, u), M[p]),
         \A p, r \in DOMAIN ss : p # r => M[p] \cap M[r] = {},
         \A t \in T : \E p \in DOMAIN ss : t \in M[p]
  PROVE  ExistsBijection(Hits(FlattenSeq(ss), peer, u), T)
<1> DEFINE flat == FlattenSeq(ss)
           n == Len(ss)
           H == Hits(flat, peer, u)
           B == [p \in DOMAIN ss |-> CHOOSE b : b \in Bijection(Hits(ss[p], peer, u), M[p])]
<1>1. n \in Nat /\ DOMAIN ss = 1..n
  OBVIOUS
<1> HIDE DEF H
<1>2. ASSUME NEW p \in DOMAIN ss
      PROVE  /\ B[p] \in [Hits(ss[p], peer, u) -> M[p]]
             /\ \A a, b \in Hits(ss[p], peer, u) : B[p][a] = B[p][b] => a = b
             /\ \A t \in M[p] : \E a \in Hits(ss[p], peer, u) : B[p][a] = t
  <2>1. \E b : b \in Bijection(Hits(ss[p], peer, u), M[p])
    BY DEF ExistsBijection
  <2> DEFINE b == B[p]
  <2>2. b \in Bijection(Hits(ss[p], peer, u), M[p])
    BY <2>1
  <2> HIDE DEF b
  <2>3. /\ b \in [Hits(ss[p], peer, u) -> M[p]]
        /\ \A x, y \in Hits(ss[p], peer, u) : b[x] = b[y] => x = y
        /\ \A t \in M[p] : \E x \in Hits(ss[p], peer, u) : b[x] = t
    BY <2>2, Fun_BijectionProperties
  <2> QED
    BY <2>3 DEF b
<1> HIDE DEF B
<1>3. flat \in Seq(V) /\ Spreads(flat, ss, n) # {}
  BY FlattenSpreads
<1> HIDE DEF flat, n
<1>4. PICK f : f \in Spreads(flat, ss, n)
  BY <1>3
<1>5. /\ f \in [DOMAIN flat -> Places(ss, n)]
      /\ \A i \in DOMAIN flat : flat[i] = ss[f[i][1]][f[i][2]]
      /\ \A x \in Places(ss, n) : \E i \in DOMAIN flat : f[i] = x
  BY <1>4 DEF Spreads
<1>6. ASSUME NEW i \in DOMAIN flat
      PROVE  /\ f[i][1] \in DOMAIN ss /\ f[i][2] \in DOMAIN ss[f[i][1]] /\ f[i] = <<f[i][1], f[i][2]>>
             /\ flat[i] = ss[f[i][1]][f[i][2]]
  <2>1. f[i] \in Places(ss, n)
    BY <1>5
  <2>2. f[i] \in (1..n) \X Nat /\ f[i][2] \in DOMAIN ss[f[i][1]]
    BY <2>1 DEF Places
  <2> QED
    BY <1>1, <1>5, <2>2
<1> DEFINE part(x) == f[x[1]][1]
           spot(x) == <<f[x[1]][2], x[2]>>
           g == [x \in H |-> B[part(x)][spot(x)]]
<1>7. ASSUME NEW x \in H
      PROVE  /\ x[1] \in DOMAIN flat /\ x[2] \in Nat /\ x = <<x[1], x[2]>>
             /\ part(x) \in DOMAIN ss /\ spot(x) \in Hits(ss[part(x)], peer, u)
  <2>1. /\ x[1] \in DOMAIN flat /\ x[2] \in Nat /\ x = <<x[1], x[2]>> /\ flat[x[1]].peer = peer
        /\ x[2] \in DOMAIN flat[x[1]].data /\ flat[x[1]].data[x[2]] = u
    BY DEF H, Hits
  <2>2. /\ part(x) \in DOMAIN ss /\ f[x[1]][2] \in DOMAIN ss[part(x)]
        /\ flat[x[1]] = ss[part(x)][f[x[1]][2]]
    BY <1>6, <2>1
  <2> QED
    BY <2>1, <2>2 DEF Hits
<1>8. ASSUME NEW x \in H PROVE g[x] = B[part(x)][spot(x)] /\ g[x] \in M[part(x)] /\ g[x] \in T
  <2>1. g[x] = B[part(x)][spot(x)]
    <3> HIDE DEF part, spot, H
    <3> QED
      OBVIOUS
  <2> DEFINE p == part(x)
             z == spot(x)
  <2>2. p \in DOMAIN ss /\ z \in Hits(ss[p], peer, u) /\ g[x] = B[p][z]
    BY <1>7, <2>1
  <2> HIDE DEF p, z, g
  <2>3. g[x] \in M[p] /\ M[p] \subseteq T
    BY <1>2, <2>2
  <2> QED
    BY <2>1, <2>3 DEF p
<1>9. g \in [H -> T]
  <2>1. \A x \in H : B[part(x)][spot(x)] \in T
    <3>1. \A x \in H : g[x] = B[part(x)][spot(x)] /\ g[x] \in T
      BY <1>8
    <3> HIDE DEF g, part, spot, H
    <3> QED
      BY <3>1
  <2> HIDE DEF part, spot, H
  <2> QED
    BY <2>1
<1> HIDE DEF g
<1>10. ASSUME NEW x \in H, NEW y \in H, g[x] = g[y] PROVE x = y
  <2> DEFINE p == part(x)
             r == part(y)
             v == spot(x)
             w == spot(y)
  <2>1. /\ p \in DOMAIN ss /\ v \in Hits(ss[p], peer, u) /\ g[x] = B[p][v] /\ g[x] \in M[p]
        /\ r \in DOMAIN ss /\ w \in Hits(ss[r], peer, u) /\ g[y] = B[r][w] /\ g[y] \in M[r]
    BY <1>7, <1>8
  <2> HIDE DEF p, r, v, w
  <2>2. p = r
    BY <1>10, <2>1
  <2>3. v = w
    BY <1>2, <1>10, <2>1, <2>2
  <2>4. f[x[1]][1] = f[y[1]][1] /\ f[x[1]][2] = f[y[1]][2] /\ x[2] = y[2]
    BY <2>2, <2>3 DEF p, r, v, w
  <2> DEFINE i == x[1]
             k == y[1]
  <2>5. i \in DOMAIN flat /\ k \in DOMAIN flat
    BY <1>7
  <2> HIDE DEF i, k, part, spot
  <2>6. f[i] = <<f[i][1], f[i][2]>> /\ f[k] = <<f[k][1], f[k][2]>>
    BY <1>6, <2>5
  <2>7. f[i] = f[k]
    BY <2>4, <2>6 DEF i, k
  <2>8. i = k
    BY <1>1, <1>3, <1>4, <2>5, <2>7, SpreadOnce
  <2> QED
    BY <1>7, <2>4, <2>8 DEF i, k
<1>11. ASSUME NEW t \in T PROVE \E x \in H : g[x] = t
  <2>1. PICK p \in DOMAIN ss : t \in M[p]
    OBVIOUS
  <2>2. PICK a \in Hits(ss[p], peer, u) : B[p][a] = t
    BY <1>2, <2>1
  <2>3. /\ a[1] \in DOMAIN ss[p] /\ a[2] \in Nat /\ a = <<a[1], a[2]>> /\ ss[p][a[1]].peer = peer
        /\ a[2] \in DOMAIN ss[p][a[1]].data /\ ss[p][a[1]].data[a[2]] = u
    BY DEF Hits
  <2>4. ss[p] \in Seq(V) /\ a[1] \in Nat
    BY <2>3
  <2>5. <<p, a[1]>> \in Places(ss, n)
    BY <1>1, <2>3, <2>4 DEF Places
  <2>6. PICK i \in DOMAIN flat : f[i] = <<p, a[1]>>
    BY <1>5, <2>5
  <2> DEFINE x == <<i, a[2]>>
  <2>7. f[i][1] = p /\ f[i][2] = a[1] /\ flat[i] = ss[p][a[1]]
    BY <1>6, <2>6
  <2>8. x[1] = i /\ x[2] = a[2]
    OBVIOUS
  <2>9. x \in H
    BY <2>3, <2>7, <2>8 DEF H, Hits
  <2>10. part(x) = p /\ spot(x) = a
    BY <2>3, <2>7, <2>8
  <2> HIDE DEF x, part, spot
  <2>11. g[x] = B[p][a]
    BY <1>8, <2>9, <2>10
  <2> QED
    BY <2>2, <2>9, <2>11
<1>12. ExistsBijection(H, T)
  BY <1>9, <1>10, <1>11, BijectionBy
<1> QED
  BY <1>12 DEF H, flat

\* What an entry has, alone and among the others.
OfEntry(s, j, peer, u) == {x \in Hits(s, peer, u) : x[1] = j}

LEMMA HitsOfOne ==
  ASSUME NEW V, NEW s \in Seq(V), NEW j \in DOMAIN s, NEW peer, NEW u
  PROVE  ExistsBijection(Hits(<<s[j]>>, peer, u), OfEntry(s, j, peer, u))
<1> DEFINE e == s[j]
           H == Hits(<<e>>, peer, u)
           T == OfEntry(s, j, peer, u)
           g == [x \in H |-> <<j, x[2]>>]
<1>1. ASSUME NEW x \in H
      PROVE  /\ x = <<1, x[2]>> /\ x[2] \in Nat /\ e.peer = peer
             /\ x[2] \in DOMAIN e.data /\ e.data[x[2]] = u
  <2> HIDE DEF e
  <2>1. DOMAIN <<e>> = {1} /\ <<e>>[1] = e
    OBVIOUS
  <2> QED
    BY <2>1 DEF Hits
<1>2. g \in [H -> T]
  <2>1. \A x \in H : <<j, x[2]>> \in T
    BY <1>1 DEF OfEntry, Hits
  <2> HIDE DEF H, T
  <2> QED
    BY <2>1
<1>3. \A x, y \in H : g[x] = g[y] => x = y
  BY <1>1
<1>4. ASSUME NEW t \in T PROVE \E x \in H : g[x] = t
  <2>1. t = <<j, t[2]>> /\ t[2] \in Nat /\ e.peer = peer /\ t[2] \in DOMAIN e.data /\ e.data[t[2]] = u
    BY DEF OfEntry, Hits
  <2>2. <<1, t[2]>> \in H
    <3> HIDE DEF e
    <3>1. 1 \in DOMAIN <<e>> /\ <<e>>[1] = e
      OBVIOUS
    <3> QED
      BY <2>1, <3>1 DEF Hits
  <2>3. g[<<1, t[2]>>] = t
    BY <2>1, <2>2
  <2> QED
    BY <2>2, <2>3
<1> HIDE DEF H, T, g
<1>5. ExistsBijection(H, T)
  BY <1>2, <1>3, <1>4, BijectionBy
<1> QED
  BY <1>5 DEF H, T, e

LEMMA HitsOfNone == ASSUME NEW peer, NEW u PROVE ExistsBijection(Hits(<<>>, peer, u), {})
<1>1. Hits(<<>>, peer, u) = {}
  BY DEF Hits
<1> QED
  BY <1>1, Fun_ExistsBijReflexive

(***************************************************************************)
(* Groups: no two parts of one have the same number, and each entry is     *)
(* listed in one place (Members).                                          *)
(***************************************************************************)
Fields == {"peer", "coding", "concat", "ref", "total", "seq", "index", "data"}

\* What parse_message_list makes of parts whose text is of U.
Typed(U, s) ==
  \A i \in DOMAIN s : /\ DOMAIN s[i] = Fields
                      /\ s[i].total \in Nat /\ s[i].seq \in Nat /\ s[i].data \in Seq(U)

LEMMA BucketAgrees ==
  ASSUME NEW s, NEW i \in DOMAIN s, NEW j \in Bucket(s, i)
  PROVE  /\ j \in DOMAIN s /\ Joins(s, j) /\ IsConcatSegment(s[j])
         /\ s[j].peer = s[i].peer /\ s[j].ref = s[i].ref
         /\ s[j].total = s[i].total /\ s[j].coding = s[i].coding
         /\ Bucket(s, j) = Bucket(s, i)
<1>1. j \in DOMAIN s /\ Joins(s, j) /\ IsConcatSegment(s[j]) /\ ConcatGroupKey(s[i]) = ConcatGroupKey(s[j])
  BY DEF Bucket, Joins, SameGroup
<1>2. /\ s[j].peer = s[i].peer /\ s[j].ref = s[i].ref
      /\ s[j].total = s[i].total /\ s[j].coding = s[i].coding
  BY <1>1 DEF ConcatGroupKey
<1>3. \A k : SameGroup(s[i], s[k]) <=> SameGroup(s[j], s[k])
  BY <1>1 DEF SameGroup
<1>4. Bucket(s, j) = Bucket(s, i)
  BY <1>3 DEF Bucket
<1> QED
  BY <1>1, <1>2, <1>4

LEMMA BucketNumbers ==
  ASSUME NEW U, NEW V, NEW s \in Seq(V), Typed(U, s), NEW i \in DOMAIN s, NEW j \in Bucket(s, i)
  PROVE  /\ s[j].seq \in 1..s[i].total
         /\ \A k \in Bucket(s, i) : s[k].seq = s[j].seq => k = j
         /\ PartAt(s, i, s[j].seq) = s[j]
<1>1. /\ j \in DOMAIN s /\ IsConcatSegment(s[j]) /\ s[j].total = s[i].total
      /\ s[j].total \in Nat /\ s[j].seq \in Nat
  BY BucketAgrees DEF Typed
<1>2. s[j].seq \in 1..s[i].total
  BY <1>1 DEF IsConcatSegment
<1>3. ASSUME NEW k \in Bucket(s, i), NEW l \in Bucket(s, i), k < l PROVE s[k].seq # s[l].seq
  <2>1. k \in DOMAIN s /\ l \in DOMAIN s
    BY <1>3, BucketAgrees
  <2>2. SameGroup(s[l], s[k])
    BY <1>3 DEF Bucket, SameGroup
  <2>3. k \in 1..(l - 1)
    BY <1>3, <2>1
  <2> QED
    BY <2>2, <2>3 DEF Bucket, Joins
<1>4. ASSUME NEW k \in Bucket(s, i), s[k].seq = s[j].seq PROVE k = j
  <2>1. ~(k < j) /\ ~(j < k)
    BY <1>3, <1>4
  <2>2. k \in Nat /\ j \in Nat
    <3>1. k \in DOMAIN s /\ j \in DOMAIN s
      BY BucketAgrees
    <3> QED
      BY <3>1
  <2> QED
    BY <2>1, <2>2
<1> DEFINE k == CHOOSE l \in Bucket(s, i) : s[l].seq = s[j].seq
<1>5. k \in Bucket(s, i) /\ s[k].seq = s[j].seq
  OBVIOUS
<1>6. PartAt(s, i, s[j].seq) = s[k]
  BY DEF PartAt
<1> HIDE DEF k
<1>7. k = j
  BY <1>4, <1>5
<1> QED
  BY <1>2, <1>4, <1>6, <1>7

\* The entries listed in the place of the entry p.
Members(s, p) ==
  IF ~Joins(s, p) THEN {p} ELSE IF p = Min(Bucket(s, p)) THEN Bucket(s, p) ELSE {}

LEMMA MembersSplit ==
  ASSUME NEW V, NEW s \in Seq(V)
  PROVE  /\ \A p \in DOMAIN s : Members(s, p) \subseteq DOMAIN s
         /\ \A p, r \in DOMAIN s : p # r => Members(s, p) \cap Members(s, r) = {}
         /\ \A j \in DOMAIN s : \E p \in DOMAIN s : j \in Members(s, p)
<1>1. \A p \in DOMAIN s : Members(s, p) \subseteq DOMAIN s
  BY BucketAgrees DEF Members
<1>2. ASSUME NEW p \in DOMAIN s, NEW r \in DOMAIN s, NEW j \in Members(s, p), j \in Members(s, r)
      PROVE  p = r
  <2>1. CASE Joins(s, j)
    <3>1. /\ p = Min(Bucket(s, p)) /\ j \in Bucket(s, p)
          /\ r = Min(Bucket(s, r)) /\ j \in Bucket(s, r)
      BY <1>2, <2>1 DEF Members
    <3>2. Bucket(s, p) = Bucket(s, r)
      BY <3>1, BucketAgrees
    <3> QED
      BY <3>1, <3>2
  <2>2. CASE ~Joins(s, j)
    <3>1. ASSUME NEW k \in DOMAIN s, j \in Members(s, k) PROVE j = k
      BY <2>2, <3>1, BucketAgrees DEF Members
    <3> QED
      BY <1>2, <3>1
  <2> QED
    BY <2>1, <2>2
<1>3. ASSUME NEW j \in DOMAIN s PROVE \E p \in DOMAIN s : j \in Members(s, p)
  <2>1. CASE Joins(s, j)
    <3> DEFINE p == Min(Bucket(s, j))
    <3>1. p \in Bucket(s, j) /\ j \in Bucket(s, j)
      BY <2>1, BucketHasIt, LeastOf
    <3>2. p \in DOMAIN s /\ Joins(s, p) /\ Bucket(s, p) = Bucket(s, j)
      <4> HIDE DEF p
      <4> QED
        BY <3>1, BucketAgrees
    <3>3. p = Min(Bucket(s, p))
      BY <3>2
    <3> HIDE DEF p
    <3> QED
      BY <3>1, <3>2, <3>3 DEF Members
  <2>2. CASE ~Joins(s, j)
    BY <2>2 DEF Members
  <2> QED
    BY <2>1, <2>2
<1> QED
  BY <1>1, <1>2, <1>3

\* The texts of a group's parts.
Pieces(s, i) == [seq \in 1..s[i].total |-> PartAt(s, i, seq).data]

\* What a complete group becomes.
LEMMA MergedHas ==
  ASSUME NEW U, NEW V, NEW s \in Seq(V), Typed(U, s), NEW i \in DOMAIN s, Joins(s, i),
         Complete(s, i)
  PROVE  /\ \A seq \in 1..s[i].total : \E j \in Bucket(s, i) : s[j].seq = seq
         /\ DOMAIN MergeConcatGroup(s, i) = Fields
         /\ MergeConcatGroup(s, i).peer = s[i].peer
         /\ MergeConcatGroup(s, i).ref = s[i].ref
         /\ MergeConcatGroup(s, i).total = s[i].total
         /\ MergeConcatGroup(s, i).coding = s[i].coding
         /\ MergeConcatGroup(s, i).seq = 0
         /\ \E j \in Bucket(s, i) : s[j].seq = 1 /\ MergeConcatGroup(s, i).concat = s[j].concat
         /\ Pieces(s, i) \in Seq(Seq(U)) /\ Len(Pieces(s, i)) = s[i].total
         /\ MergeConcatGroup(s, i).data = FlattenSeq(Pieces(s, i))
         /\ MergeConcatGroup(s, i).data \in Seq(U)
<1> DEFINE n == s[i].total
           pieces == [seq \in 1..n |-> PartAt(s, i, seq).data]
           e == MergeConcatGroup(s, i)
<1>1. n \in Nat /\ 1 <= n
  BY DEF Typed, Joins, IsConcatSegment
<1>2. \A seq \in 1..n : \E j \in Bucket(s, i) : s[j].seq = seq
  <2>1. \A seq \in 1..n : seq \in SeqsVisited(n)
    BY <1>1 DEF SeqsVisited
  <2> QED
    BY <2>1 DEF Complete
<1>3. PICK k \in Bucket(s, i) : s[k].seq = 1
  BY <1>1, <1>2
<1>4. PartAt(s, i, 1) = s[k]
  BY <1>3, BucketNumbers
<1>5. e = [s[k] EXCEPT !.seq = 0, !.data = FlattenSeq(pieces), !.index = Min({s[j].index : j \in Bucket(s, i)})]
  BY <1>4 DEF MergeConcatGroup
<1>6. /\ k \in DOMAIN s /\ DOMAIN s[k] = Fields
      /\ s[k].peer = s[i].peer /\ s[k].ref = s[i].ref
      /\ s[k].total = s[i].total /\ s[k].coding = s[i].coding
  BY BucketAgrees DEF Typed
<1>7. pieces \in Seq(Seq(U)) /\ Len(pieces) = n
  <2>1. ASSUME NEW seq \in 1..n PROVE pieces[seq] \in Seq(U)
    <3>1. PICK j \in Bucket(s, i) : s[j].seq = seq
      BY <1>2
    <3>2. j \in DOMAIN s
      BY BucketAgrees
    <3>3. s[j].data \in Seq(U)
      BY <3>2 DEF Typed
    <3>4. PartAt(s, i, seq) = s[j]
      BY <3>1, BucketNumbers
    <3> QED
      BY <3>3, <3>4
  <2> DEFINE D == Seq(U)
  <2>2. pieces \in [1..n -> D]
    BY <2>1
  <2> HIDE DEF pieces, D, n
  <2>3. pieces \in Seq(D) /\ Len(pieces) = n
    BY <1>1, <2>2
  <2> QED
    BY <2>3 DEF D
<1> HIDE DEF pieces, e, n
<1>8. FlattenSeq(pieces) \in Seq(U)
  BY <1>7, FlattenSpreads
<1>9. /\ DOMAIN e = Fields /\ e.seq = 0 /\ e.data = FlattenSeq(pieces)
      /\ e.peer = s[k].peer /\ e.ref = s[k].ref /\ e.total = s[k].total
      /\ e.coding = s[k].coding /\ e.concat = s[k].concat
  <2> DEFINE d == FlattenSeq(pieces)
             x == Min({s[j].index : j \in Bucket(s, i)})
             r == s[k]
  <2>1. e = [r EXCEPT !.seq = 0, !.data = d, !.index = x] /\ DOMAIN r = Fields
    BY <1>5, <1>6
  <2> HIDE DEF d, x, r
  <2>2. /\ DOMAIN e = Fields /\ e.seq = 0 /\ e.data = d /\ e.peer = r.peer /\ e.ref = r.ref
        /\ e.total = r.total /\ e.coding = r.coding /\ e.concat = r.concat
    BY <2>1 DEF Fields
  <2> QED
    BY <2>2 DEF d, r
<1>10. /\ \A seq \in 1..n : \E j \in Bucket(s, i) : s[j].seq = seq
       /\ DOMAIN e = Fields
       /\ e.peer = s[i].peer /\ e.ref = s[i].ref /\ e.total = s[i].total
       /\ e.coding = s[i].coding /\ e.seq = 0
       /\ \E j \in Bucket(s, i) : s[j].seq = 1 /\ e.concat = s[j].concat
       /\ pieces \in Seq(Seq(U)) /\ Len(pieces) = n
       /\ e.data = FlattenSeq(pieces) /\ e.data \in Seq(U)
  BY <1>2, <1>3, <1>6, <1>7, <1>8, <1>9
<1> QED
  BY <1>10 DEF n, e, pieces, Pieces

\* The place that an entry has in the list gets the text of its members.
LEMMA SlotHits ==
  ASSUME NEW U, NEW V, NEW s \in Seq(V), Typed(U, s), NEW p \in DOMAIN s, NEW peer, NEW u
  PROVE  ExistsBijection(Hits(Slot(s, p), peer, u),
                         {x \in Hits(s, peer, u) : x[1] \in Members(s, p)})
<1> DEFINE All == Hits(s, peer, u)
           T == {x \in All : x[1] \in Members(s, p)}
           n == s[p].total
<1>1. CASE ~Joins(s, p)
  <2>1. Slot(s, p) = <<s[p]>> /\ T = OfEntry(s, p, peer, u)
    BY <1>1 DEF Slot, Members, OfEntry
  <2> QED
    BY <2>1, HitsOfOne
<1>2. CASE Joins(s, p) /\ p # Min(Bucket(s, p))
  <2>1. Slot(s, p) = <<>> /\ T = {}
    BY <1>2 DEF Slot, Members
  <2> QED
    BY <2>1, HitsOfNone
<1>3. CASE Joins(s, p) /\ p = Min(Bucket(s, p)) /\ Complete(s, p)
  <2> DEFINE e == MergeConcatGroup(s, p)
             H == Hits(<<e>>, peer, u)
             pieces == Pieces(s, p)
  <2>1. Slot(s, p) = <<e>> /\ T = {x \in All : x[1] \in Bucket(s, p)}
    BY <1>3 DEF Slot, Group, Members
  <2>2. /\ \A seq \in 1..n : \E j \in Bucket(s, p) : s[j].seq = seq
        /\ e.peer = s[p].peer /\ e.data = FlattenSeq(pieces) /\ e.data \in Seq(U)
        /\ pieces \in Seq(Seq(U)) /\ Len(pieces) = n
    <3> HIDE DEF All, T, H
    <3> QED
      BY <1>3, MergedHas
  <2>3. \A j \in Bucket(s, p) : /\ j \in DOMAIN s /\ s[j].peer = s[p].peer /\ s[j].seq \in 1..n
                                /\ pieces[s[j].seq] = s[j].data
    BY BucketAgrees, BucketNumbers DEF Pieces
  <2>4. \A j, k \in Bucket(s, p) : s[j].seq = s[k].seq => j = k
    BY BucketNumbers
  <2> HIDE DEF pieces, e, n
  <2>5. PICK d : d \in Spreads(e.data, pieces, n)
    BY <2>2, FlattenSpreads
  <2>6. /\ d \in [DOMAIN e.data -> Places(pieces, n)]
        /\ \A q \in DOMAIN e.data : e.data[q] = pieces[d[q][1]][d[q][2]]
        /\ \A x \in Places(pieces, n) : \E q \in DOMAIN e.data : d[q] = x
    BY <2>5 DEF Spreads
  <2> DEFINE at == [seq \in 1..n |-> CHOOSE j \in Bucket(s, p) : s[j].seq = seq]
  <2>7. \A seq \in 1..n : at[seq] \in Bucket(s, p) /\ s[at[seq]].seq = seq
    BY <2>2
  <2>8. \A j \in Bucket(s, p) : at[s[j].seq] = j
    <3> SUFFICES ASSUME NEW j \in Bucket(s, p) PROVE at[s[j].seq] = j
      OBVIOUS
    <3>1. at[s[j].seq] \in Bucket(s, p) /\ s[at[s[j].seq]].seq = s[j].seq
      BY <2>3, <2>7
    <3> HIDE DEF at
    <3> QED
      BY <2>4, <3>1
  <2> HIDE DEF at
  <2>9. ASSUME NEW q \in DOMAIN e.data
        PROVE  /\ d[q] = <<d[q][1], d[q][2]>> /\ d[q][1] \in 1..n /\ d[q][2] \in Nat
               /\ d[q][2] \in DOMAIN s[at[d[q][1]]].data
               /\ e.data[q] = s[at[d[q][1]]].data[d[q][2]]
    <3>1. d[q] \in Places(pieces, n)
      BY <2>6
    <3>2. d[q] \in (1..n) \X Nat /\ d[q][2] \in DOMAIN pieces[d[q][1]]
      BY <3>1 DEF Places
    <3>3. d[q] = <<d[q][1], d[q][2]>> /\ d[q][1] \in 1..n /\ d[q][2] \in Nat
      BY <3>2
    <3>4. pieces[d[q][1]] = s[at[d[q][1]]].data
      BY <2>3, <2>7, <3>3
    <3> QED
      BY <2>6, <3>2, <3>3, <3>4
  <2>10. ASSUME NEW x \in H
         PROVE  /\ x = <<1, x[2]>> /\ x[2] \in DOMAIN e.data /\ s[p].peer = peer
                /\ e.data[x[2]] = u
    <3>1. DOMAIN <<e>> = {1} /\ <<e>>[1] = e
      OBVIOUS
    <3> QED
      BY <2>2, <3>1 DEF Hits
  <2> DEFINE g == [x \in H |-> <<at[d[x[2]][1]], d[x[2]][2]>>]
  <2> HIDE DEF H, T
  <2>11. g \in [H -> T]
    <3> SUFFICES ASSUME NEW x \in H PROVE <<at[d[x[2]][1]], d[x[2]][2]>> \in T
      OBVIOUS
    <3> DEFINE j == at[d[x[2]][1]]
               r == d[x[2]][2]
    <3>1. j \in Bucket(s, p) /\ r \in Nat /\ r \in DOMAIN s[j].data /\ s[j].data[r] = u /\ s[p].peer = peer
      BY <2>7, <2>9, <2>10
    <3> HIDE DEF j, r
    <3>2. j \in DOMAIN s /\ s[j].peer = peer
      BY <2>3, <3>1
    <3>3. <<j, r>> \in All
      BY <3>1, <3>2 DEF Hits
    <3>4. <<j, r>> \in T
      BY <2>1, <3>1, <3>3
    <3> QED
      BY <3>4 DEF j, r
  <2>12. ASSUME NEW x \in H, NEW y \in H, g[x] = g[y] PROVE x = y
    <3> DEFINE q == x[2]
               v == y[2]
    <3>1. /\ x = <<1, q>> /\ q \in DOMAIN e.data /\ y = <<1, v>> /\ v \in DOMAIN e.data
          /\ at[d[q][1]] = at[d[v][1]] /\ d[q][2] = d[v][2]
      BY <2>10, <2>12
    <3> HIDE DEF q, v, g
    <3>2. d[q][1] = d[v][1]
      <4>1. s[at[d[q][1]]].seq = d[q][1]
        BY <2>7, <2>9, <3>1
      <4>2. s[at[d[v][1]]].seq = d[v][1]
        BY <2>7, <2>9, <3>1
      <4> QED
        BY <3>1, <4>1, <4>2
    <3>3. d[q] = d[v]
      BY <2>9, <3>1, <3>2
    <3>4. n \in Nat
      BY DEF n, Typed
    <3>5. q = v
      BY <2>2, <2>5, <3>1, <3>3, <3>4, SpreadOnce
    <3> QED
      BY <3>1, <3>5
  <2>13. ASSUME NEW t \in T PROVE \E x \in H : g[x] = t
    <3>1. /\ t = <<t[1], t[2]>> /\ t[2] \in Nat /\ t[1] \in Bucket(s, p) /\ s[t[1]].peer = peer
          /\ t[2] \in DOMAIN s[t[1]].data /\ s[t[1]].data[t[2]] = u
      BY <2>1 DEF Hits
    <3> DEFINE j == t[1]
               r == t[2]
    <3>2. s[j].seq \in 1..n /\ pieces[s[j].seq] = s[j].data /\ s[p].peer = peer
      BY <2>3, <3>1
    <3> HIDE DEF j, r
    <3>3. <<s[j].seq, r>> \in Places(pieces, n)
      BY <3>1, <3>2 DEF Places, j, r
    <3>4. PICK q \in DOMAIN e.data : d[q] = <<s[j].seq, r>>
      BY <2>6, <3>3
    <3>5. d[q][1] = s[j].seq /\ d[q][2] = r /\ at[s[j].seq] = j
      BY <2>8, <3>1, <3>4 DEF j
    <3>6. e.data[q] = u
      BY <2>6, <3>1, <3>2, <3>5 DEF j, r
    <3>7. q \in Nat
      BY <2>2
    <3>8. <<1, q>> \in H
      <4>1. DOMAIN <<e>> = {1} /\ <<e>>[1] = e
        OBVIOUS
      <4> QED
        BY <2>2, <3>2, <3>6, <3>7, <4>1 DEF H, Hits
    <3>9. g[<<1, q>>] = <<j, r>>
      BY <3>5, <3>8
    <3> QED
      BY <3>1, <3>8, <3>9 DEF j, r
  <2> HIDE DEF g
  <2>14. ExistsBijection(H, T)
    BY <2>11, <2>12, <2>13, BijectionBy
  <2> QED
    BY <2>1, <2>14 DEF H, T
<1>4. CASE Joins(s, p) /\ p = Min(Bucket(s, p)) /\ ~Complete(s, p)
  <2> DEFINE Here(seq) == \E j \in Bucket(s, p) : s[j].seq = seq
             parts == [seq \in 1..n |-> IF Here(seq) THEN <<PartAt(s, p, seq)>> ELSE <<>>]
             M == [seq \in 1..n |-> {x \in T : s[x[1]].seq = seq}]
  <2>1. Slot(s, p) = FlattenSeq(parts) /\ T = {x \in All : x[1] \in Bucket(s, p)}
    BY <1>4 DEF Slot, Group, Members
  <2>2. n \in Nat
    BY DEF Typed
  <2> HIDE DEF n, T
  <2>3. ASSUME NEW seq \in 1..n, NEW j \in Bucket(s, p), s[j].seq = seq
        PROVE  j \in DOMAIN s /\ parts[seq] = <<s[j]>> /\ M[seq] = OfEntry(s, j, peer, u)
    <3>1. j \in DOMAIN s /\ PartAt(s, p, seq) = s[j] /\ \A k \in Bucket(s, p) : s[k].seq = seq => k = j
      BY <2>3, BucketNumbers, BucketAgrees
    <3>2. parts[seq] = <<s[j]>>
      BY <2>3, <3>1
    <3>3. M[seq] = {x \in T : s[x[1]].seq = seq}
      OBVIOUS
    <3>4. M[seq] = OfEntry(s, j, peer, u)
      BY <2>1, <2>3, <3>1, <3>3 DEF OfEntry
    <3> QED
      BY <3>1, <3>2, <3>4
  <2>4. ASSUME NEW seq \in 1..n, ~Here(seq) PROVE parts[seq] = <<>> /\ M[seq] = {}
    BY <2>1, <2>4
  <2>5. parts \in Seq(Seq(V)) /\ DOMAIN parts = 1..n
    <3>1. \A seq \in 1..n : parts[seq] \in Seq(V)
      <4> SUFFICES ASSUME NEW seq \in 1..n PROVE parts[seq] \in Seq(V)
        OBVIOUS
      <4>1. CASE Here(seq)
        <5>1. PICK j \in Bucket(s, p) : s[j].seq = seq
          BY <4>1
        <5>2. j \in DOMAIN s /\ parts[seq] = <<s[j]>>
          BY <2>3, <5>1
        <5>3. s[j] \in V
          BY <5>2
        <5> HIDE DEF parts
        <5> QED
          BY <5>2, <5>3
      <4>2. CASE ~Here(seq)
        <5>1. parts[seq] = <<>>
          BY <2>4, <4>2
        <5> HIDE DEF parts
        <5> QED
          BY <5>1
      <4> QED
        BY <4>1, <4>2
    <3> DEFINE D == Seq(V)
    <3>2. parts \in [1..n -> D]
      BY <3>1
    <3> HIDE DEF parts, D
    <3>3. parts \in Seq(D)
      BY <2>2, <3>2
    <3> QED
      BY <3>2, <3>3 DEF D
  <2>6. ASSUME NEW seq \in 1..n
        PROVE  M[seq] \subseteq T /\ ExistsBijection(Hits(parts[seq], peer, u), M[seq])
    <3>1. CASE Here(seq)
      <4>1. PICK j \in Bucket(s, p) : s[j].seq = seq
        BY <3>1
      <4>2. j \in DOMAIN s /\ parts[seq] = <<s[j]>> /\ M[seq] = OfEntry(s, j, peer, u)
        BY <2>3, <4>1
      <4>3. M[seq] \subseteq T
        OBVIOUS
      <4> HIDE DEF parts, M
      <4> QED
        BY <4>2, <4>3, HitsOfOne
    <3>2. CASE ~Here(seq)
      <4>1. parts[seq] = <<>> /\ M[seq] = {}
        BY <2>4, <3>2
      <4> HIDE DEF parts, M
      <4> QED
        BY <4>1, HitsOfNone
    <3> QED
      BY <3>1, <3>2
  <2>7. \A q, r \in 1..n : q # r => M[q] \cap M[r] = {}
    OBVIOUS
  <2>8. \A t \in T : \E seq \in 1..n : t \in M[seq]
    <3> SUFFICES ASSUME NEW t \in T PROVE \E seq \in 1..n : t \in M[seq]
      OBVIOUS
    <3>1. t[1] \in Bucket(s, p)
      BY <2>1
    <3>2. s[t[1]].seq \in 1..n
      BY <3>1, BucketNumbers DEF n
    <3>3. t \in M[s[t[1]].seq]
      BY <3>2
    <3> QED
      BY <3>2, <3>3
  <2> HIDE DEF parts, M
  <2>9. ExistsBijection(Hits(FlattenSeq(parts), peer, u), T)
    <3> HIDE DEF All, Here
    <3>1. \A q \in DOMAIN parts : M[q] \subseteq T /\ ExistsBijection(Hits(parts[q], peer, u), M[q])
      BY <2>5, <2>6
    <3>2. \A q, r \in DOMAIN parts : q # r => M[q] \cap M[r] = {}
      BY <2>5, <2>7
    <3>3. \A t \in T : \E q \in DOMAIN parts : t \in M[q]
      BY <2>5, <2>8
    <3> QED
      BY <2>5, <3>1, <3>2, <3>3, GlueHits
  <2> QED
    BY <2>1, <2>9 DEF T
<1> QED
  BY <1>1, <1>2, <1>3, <1>4

\* The list has each unit of a peer's text as often as the entries have.
LEMMA ListHits ==
  ASSUME NEW U, NEW V, NEW s \in Seq(V), Typed(U, s), Rising(s), NEW peer, NEW u
  PROVE  ExistsBijection(Hits(ReassembleMessages(s), peer, u), Hits(s, peer, u))
<1> DEFINE slots == [i \in DOMAIN s |-> Slot(s, i)]
           W == Listable(s)
           T == Hits(s, peer, u)
           M == [p \in DOMAIN s |-> {x \in T : x[1] \in Members(s, p)}]
<1>1. DOMAIN slots = DOMAIN s /\ \A p \in DOMAIN s : slots[p] = Slot(s, p)
  OBVIOUS
<1>2. slots \in Seq(Seq(W))
  <2>1. \A p \in DOMAIN s : slots[p] \in Seq(W)
    BY SlotHas
  <2>2. DOMAIN s = 1..Len(s) /\ Len(s) \in Nat
    OBVIOUS
  <2> DEFINE D == Seq(W)
  <2>3. slots \in [1..Len(s) -> D]
    BY <2>1, <2>2
  <2> HIDE DEF slots, D
  <2>4. slots \in Seq(D)
    BY <2>2, <2>3
  <2> QED
    BY <2>4 DEF D
<1>3. ASSUME NEW p \in DOMAIN s
      PROVE  M[p] \subseteq T /\ ExistsBijection(Hits(slots[p], peer, u), M[p])
  BY SlotHits
<1>4. \A p, r \in DOMAIN s : p # r => M[p] \cap M[r] = {}
  BY MembersSplit
<1>5. \A t \in T : \E p \in DOMAIN s : t \in M[p]
  <2> SUFFICES ASSUME NEW t \in T PROVE \E p \in DOMAIN s : t \in M[p]
    OBVIOUS
  <2>1. t[1] \in DOMAIN s
    BY DEF Hits
  <2>2. PICK p \in DOMAIN s : t[1] \in Members(s, p)
    BY <2>1, MembersSplit
  <2> QED
    BY <2>2
<1>6. ReassembleMessages(s) = FlattenSeq(slots)
  BY DEF ReassembleMessages
<1> HIDE DEF slots, W, T, M
<1>7. ExistsBijection(Hits(FlattenSeq(slots), peer, u), T)
  <2>1. \A p \in DOMAIN slots : M[p] \subseteq T /\ ExistsBijection(Hits(slots[p], peer, u), M[p])
    BY <1>1, <1>3
  <2>2. \A p, r \in DOMAIN slots : p # r => M[p] \cap M[r] = {}
    BY <1>1, <1>4
  <2>3. \A t \in T : \E p \in DOMAIN slots : t \in M[p]
    BY <1>1, <1>5
  <2> QED
    BY <1>2, <2>1, <2>2, <2>3, GlueHits
<1> QED
  BY <1>6, <1>7 DEF T

LEMMA ListIsTyped ==
  ASSUME NEW U, NEW V, NEW s \in Seq(V), Typed(U, s), Rising(s)
  PROVE  /\ ReassembleMessages(s) \in Seq(Listable(s))
         /\ \A e \in Listable(s) : DOMAIN e = Fields /\ e.data \in Seq(U)
<1> DEFINE slots == [i \in DOMAIN s |-> Slot(s, i)]
           D == Seq(Listable(s))
<1>1. \A p \in DOMAIN s : slots[p] \in D
  BY SlotHas
<1>2. DOMAIN s = 1..Len(s) /\ Len(s) \in Nat
  OBVIOUS
<1>3. slots \in [1..Len(s) -> D]
  BY <1>1, <1>2
<1>4. ReassembleMessages(s) = FlattenSeq(slots)
  BY DEF ReassembleMessages
<1> HIDE DEF slots, D
<1>5. slots \in Seq(D)
  BY <1>2, <1>3
<1>6. ReassembleMessages(s) \in Seq(Listable(s))
  BY <1>4, <1>5, FlattenSpreads DEF D
<1>7. ASSUME NEW e \in Listable(s) PROVE DOMAIN e = Fields /\ e.data \in Seq(U)
  <2>1. CASE \E i \in DOMAIN s : e = s[i]
    BY <2>1 DEF Typed
  <2>2. CASE \E i \in DOMAIN s : Joins(s, i) /\ Complete(s, i) /\ e = MergeConcatGroup(s, i)
    BY <2>2, MergedHas
  <2> QED
    BY <2>1, <2>2 DEF Listable
<1> QED
  BY <1>6, <1>7

\* What stands in the place of an entry is an entry, or the message that its
\* group became.
LEMMA SlotWhole ==
  ASSUME NEW U, NEW V, NEW s \in Seq(V), Typed(U, s), NEW p \in DOMAIN s, NEW v \in DOMAIN Slot(s, p)
  PROVE  \/ \E j \in DOMAIN s : Slot(s, p)[v] = s[j]
         \/ /\ Joins(s, p) /\ p = Min(Bucket(s, p)) /\ Complete(s, p)
            /\ v = 1 /\ Slot(s, p)[v] = MergeConcatGroup(s, p)
<1>1. CASE ~Joins(s, p)
  <2> DEFINE e == s[p]
             t == Slot(s, p)
  <2>1. t = <<e>>
    BY <1>1 DEF Slot
  <2> HIDE DEF e, t
  <2>2. \A k \in DOMAIN t : t[k] = e
    BY <2>1
  <2> QED
    BY <2>2 DEF e, t
<1>2. CASE Joins(s, p) /\ p # Min(Bucket(s, p))
  <2>1. Slot(s, p) = <<>>
    BY <1>2 DEF Slot
  <2> QED
    BY <2>1
<1>3. CASE Joins(s, p) /\ p = Min(Bucket(s, p)) /\ Complete(s, p)
  <2> DEFINE e == MergeConcatGroup(s, p)
             t == Slot(s, p)
  <2>1. t = <<e>>
    BY <1>3 DEF Slot, Group
  <2> HIDE DEF e, t
  <2>2. \A k \in DOMAIN t : k = 1 /\ t[k] = e
    BY <2>1
  <2> QED
    BY <1>3, <2>2 DEF e, t
<1>4. CASE Joins(s, p) /\ p = Min(Bucket(s, p)) /\ ~Complete(s, p)
  <2> DEFINE n == s[p].total
             Here(seq) == \E j \in Bucket(s, p) : s[j].seq = seq
             parts == [seq \in 1..n |-> IF Here(seq) THEN <<PartAt(s, p, seq)>> ELSE <<>>]
             P == {s[j] : j \in DOMAIN s}
  <2>1. Slot(s, p) = FlattenSeq(parts)
    BY <1>4 DEF Slot, Group
  <2>2. n \in Nat
    BY DEF Typed
  <2>3. \A seq : Here(seq) => PartAt(s, p, seq) \in P
    BY PartJoins
  <2> DEFINE D == Seq(P)
  <2> HIDE DEF n, Here, P
  <2>4. \A seq \in 1..n : parts[seq] \in D
    BY <2>3
  <2>5. parts \in [1..n -> D]
    BY <2>4
  <2> HIDE DEF parts, D
  <2>6. parts \in Seq(D)
    BY <2>2, <2>5
  <2>7. FlattenSeq(parts) \in Seq(P)
    BY <2>6, FlattenSpreads DEF D
  <2>8. Slot(s, p)[v] \in P
    BY <2>1, <2>7
  <2> QED
    BY <2>8 DEF P
<1> QED
  BY <1>1, <1>2, <1>3, <1>4

\* A group in which every number is found, and whose total the counter of the
\* loop over its parts holds, is complete.
LEMMA AllNumbersComplete ==
  ASSUME NEW U, NEW V, NEW s \in Seq(V), Typed(U, s), NEW i \in DOMAIN s, s[i].total # MaxParts,
         \A seq \in 1..s[i].total : \E j \in Bucket(s, i) : s[j].seq = seq
  PROVE  Complete(s, i)
<1> DEFINE n == s[i].total
           B == Bucket(s, i)
           g == [j \in B |-> s[j].seq]
<1>1. n \in Nat
  BY DEF Typed
<1>2. g \in [B -> 1..n]
  BY BucketNumbers
<1>3. \A j, k \in B : g[j] = g[k] => j = k
  BY BucketNumbers
<1>4. \A seq \in 1..n : \E j \in B : g[j] = seq
  OBVIOUS
<1> HIDE DEF g, B, n
<1>5. ExistsBijection(B, 1..n)
  <2> DEFINE N == 1..n
  <2>1. g \in [B -> N] /\ \A seq \in N : \E j \in B : g[j] = seq
    BY <1>2, <1>4
  <2> HIDE DEF N
  <2>2. ExistsBijection(B, N)
    BY <1>3, <2>1, BijectionBy
  <2> QED
    BY <2>2 DEF N
<1>6. IsFiniteSet(1..n) /\ Cardinality(1..n) = n
  BY <1>1, FS_Interval
<1>7. Cardinality(B) = n
  <2>1. ExistsBijection(1..n, B)
    BY <1>5, Fun_ExistsBijSymmetric
  <2> QED
    BY <1>6, <2>1, FS_Bijection
<1> QED
  BY <1>7 DEF Complete, SeqsVisited, B, n

\* The first of the parts with a number and a key joins their group.
LEMMA FirstJoins ==
  ASSUME NEW U, NEW V, NEW s \in Seq(V), NEW i \in DOMAIN s, IsConcatSegment(s[i])
  PROVE  \E j \in DOMAIN s : Joins(s, j) /\ SameGroup(s[i], s[j]) /\ s[j].seq = s[i].seq
<1> DEFINE S == {j \in DOMAIN s : SameGroup(s[i], s[j]) /\ s[j].seq = s[i].seq}
           j == Min(S)
<1>1. i \in S
  BY DEF SameGroup
<1>2. S \in SUBSET Nat
  OBVIOUS
<1>3. j \in S /\ \A k \in S : j <= k
  BY <1>1, <1>2, LeastOf
<1> HIDE DEF j
<1>4. j \in DOMAIN s /\ j \in Nat /\ SameGroup(s[i], s[j]) /\ s[j].seq = s[i].seq
  BY <1>3
<1>5. ASSUME NEW k \in 1..(j - 1), SameGroup(s[j], s[k]) PROVE s[k].seq # s[j].seq
  <2>1. ~(j <= k) /\ k \in DOMAIN s
    BY <1>4
  <2>2. SameGroup(s[i], s[k])
    BY <1>4, <1>5 DEF SameGroup
  <2> QED
    BY <1>3, <1>4, <2>1, <2>2
<1>6. Joins(s, j)
  BY <1>4, <1>5 DEF Joins, SameGroup
<1> QED
  BY <1>4, <1>6

-----------------------------------------------------------------------------
(***************************************************************************)
(* Sending: what encode_segments returns.                                  *)
(***************************************************************************)
\* A part begins after start units of the text and ends after it.
LEMMA ChunkEndAhead ==
  ASSUME NEW c \in Codings, NEW U, NEW text \in Seq(U), NEW start \in 0..Len(text),
         start # Len(text)
  PROVE  ChunkEnd(c, text, start) \in (start + 1)..Len(text)
<1> DEFINE N == {start + PartLimit[c], Len(text)}
<1>1. /\ start \in Nat /\ Len(text) \in Nat /\ PartLimit[c] \in Nat
      /\ start < Len(text) /\ 2 <= PartLimit[c]
  BY LimitAssumption
<1>2. N \in SUBSET Nat /\ N # {}
  BY <1>1
<1>3. Min(N) \in N /\ Min(N) <= Len(text)
  <2>1. Min(N) \in N /\ \A y \in N : Min(N) <= y
    BY <1>2, LeastOf
  <2> QED
    BY <2>1
<1>4. Min(N) \in Nat /\ start < Min(N) /\ (Min(N) < Len(text) => start < Min(N) - 1)
  BY <1>1, <1>3
<1> HIDE DEF N
<1>5. Min(N) \in (start + 1)..Len(text)
  BY <1>1, <1>3, <1>4
<1>6. Min(N) < Len(text) => Min(N) - 1 \in (start + 1)..Len(text)
  BY <1>1, <1>3, <1>4
<1> QED
  BY <1>5, <1>6 DEF ChunkEnd, N

\* The part that begins after start units.
Piece(c, text, start) == SubSeq(text, start + 1, ChunkEnd(c, text, start))

\* The parts of the text from each place on, from the place low.
Cuts(U, c, text, low) ==
  {g \in [low..Len(text) -> Seq(Seq(U))] :
     /\ g[Len(text)] = <<>>
     /\ \A start \in low..Len(text) : start # Len(text) =>
          g[start] = <<Piece(c, text, start)>> \o g[ChunkEnd(c, text, start)]}

LEMMA CutsExist ==
  ASSUME NEW c \in Codings, NEW U, NEW text \in Seq(U)
  PROVE  Cuts(U, c, text, 0) # {}
<1> DEFINE n == Len(text)
           D == Seq(Seq(U))
           next == [start \in 0..n |-> ChunkEnd(c, text, start)]
           step == [x \in (0..n) \X D |-> <<Piece(c, text, x[1])>> \o x[2]]
<1>1. n \in Nat /\ <<>> \in D
  BY EmptySeq
<1>2. ASSUME NEW start \in 0..n, start # n PROVE next[start] \in (start + 1)..n
  BY <1>2, ChunkEndAhead
<1>3. ASSUME NEW start \in 0..n, NEW d \in D, start # n PROVE step[<<start, d>>] \in D
  <2> DEFINE end == ChunkEnd(c, text, start)
  <2>1. end \in Nat /\ end <= Len(text) /\ start + 1 \in Nat /\ 1 <= start + 1
    BY <1>1, <1>2, <1>3
  <2>2. SubSeq(text, start + 1, end) \in Seq(U)
    <3> HIDE DEF end
    <3> QED
      BY <2>1, SubSeqProperties
  <2>3. <<Piece(c, text, start)>> \in D
    BY <2>2 DEF Piece
  <2>4. <<Piece(c, text, start)>> \o d \in D
    BY <2>3, ConcatProperties
  <2> QED
    BY <2>4
<1> HIDE DEF n, D
<1>4. PICK g : g \in Descents(D, 0, n, <<>>, next, step)
  <2> HIDE DEF next, step
  <2> QED
    BY <1>1, <1>2, <1>3, DescentExists
<1>5. /\ g \in [0..n -> D] /\ g[n] = <<>>
      /\ \A start \in 0..n : start # n => g[start] = step[<<start, g[next[start]]>>]
  BY <1>4 DEF Descents
<1>6. ASSUME NEW start \in 0..n, start # n
      PROVE  g[start] = <<Piece(c, text, start)>> \o g[ChunkEnd(c, text, start)]
  <2>1. g[start] = step[<<start, g[next[start]]>>]
    BY <1>5, <1>6
  <2>2. next[start] \in 0..n /\ next[start] = ChunkEnd(c, text, start)
    BY <1>1, <1>2, <1>6
  <2> HIDE DEF next
  <2>3. g[next[start]] \in D
    BY <1>5, <2>2
  <2> QED
    BY <2>1, <2>2, <2>3
<1> QED
  BY <1>5, <1>6 DEF Cuts, D, n

\* The recursion of Chunks has a value.
LEMMA ChunksRecur ==
  ASSUME NEW c \in Codings, NEW U, NEW text \in Seq(U)
  PROVE  \E from : /\ Chunks(c, text) = from[0]
                   /\ \A start \in 0..Len(text) :
                        from[start] = IF start = Len(text) THEN <<>>
                                      ELSE <<Piece(c, text, start)>> \o from[ChunkEnd(c, text, start)]
<1> DEFINE n == Len(text)
           NextParts(g, start) ==
             IF start = n THEN <<>>
             ELSE <<Piece(c, text, start)>> \o g[ChunkEnd(c, text, start)]
           Rec(g) == g = [start \in 0..n |-> NextParts(g, start)]
           from == CHOOSE g : Rec(g)
<1>1. Chunks(c, text) = from[0]
  BY DEF Chunks, Piece
<1>2. PICK g : g \in Cuts(U, c, text, 0)
  BY CutsExist
<1>3. /\ g \in [0..n -> Seq(Seq(U))] /\ g[n] = <<>>
      /\ \A start \in 0..n : start # n =>
           g[start] = <<Piece(c, text, start)>> \o g[ChunkEnd(c, text, start)]
  BY <1>2 DEF Cuts
<1>4. \A start \in 0..n : g[start] = NextParts(g, start)
  BY <1>3
<1> HIDE DEF n, NextParts
<1>5. Rec(g)
  BY <1>3, <1>4
<1>6. Rec(from)
  <2> HIDE DEF Rec
  <2> QED
    BY <1>5
<1> HIDE DEF from
<1>7. \A start \in 0..n : from[start] = NextParts(from, start)
  BY <1>6
<1> QED
  BY <1>1, <1>7 DEF NextParts, n

\* From a place of B a part ends at a place of B, and is one of G: then the
\* parts of the text are of G, and together they are the text.
LEMMA ChunksInto ==
  ASSUME NEW c \in Codings, NEW U, NEW text \in Seq(U), NEW B, NEW G \in SUBSET Seq(U), 0 \in B,
         \A start \in B : start \in 0..Len(text) /\ start # Len(text) =>
           Piece(c, text, start) \in G /\ ChunkEnd(c, text, start) \in B
  PROVE  Chunks(c, text) \in Seq(G) /\ FlattenSeq(Chunks(c, text)) = text
<1> DEFINE n == Len(text)
           Rest(start) == SubSeq(text, start + 1, n)
<1>1. n \in Nat /\ 0 \in 0..n /\ n \in 0..n
  OBVIOUS
<1>2. PICK from : /\ Chunks(c, text) = from[0]
                  /\ \A start \in 0..n :
                       from[start] = IF start = n THEN <<>>
                                     ELSE <<Piece(c, text, start)>> \o from[ChunkEnd(c, text, start)]
  BY ChunksRecur
<1> DEFINE Good(start) == from[start] \in Seq(G) /\ FlattenSeq(from[start]) = Rest(start)
           S == {k \in 0..n : \A start \in (n - k)..n : start \in B => Good(start)}
<1> HIDE DEF n
<1>3. 0 \in S
  <2>1. from[n] = <<>>
    <3>1. \A start \in 0..n : start = n => from[start] = <<>>
      BY <1>2
    <3> QED
      BY <1>1, <3>1
  <2>2. Rest(n) = <<>>
    <3>1. n \in Int /\ n + 1 \in Int /\ n < n + 1
      BY <1>1
    <3> QED
      BY <3>1, SubSeqEmpty
  <2>3. FlattenSeq(<<>>) = <<>>
    BY DEF FlattenSeq
  <2>4. <<>> \in Seq(G)
    BY EmptySeq
  <2>5. Good(n)
    BY <2>1, <2>2, <2>3, <2>4
  <2>6. \A start \in (n - 0)..n : start = n
    BY <1>1
  <2> HIDE DEF Good
  <2> QED
    BY <1>1, <2>5, <2>6
<1>4. ASSUME NEW k \in 0..n, k \in S, k < n PROVE k + 1 \in S
  <2> DEFINE low == n - (k + 1)
             end == ChunkEnd(c, text, low)
             piece == Piece(c, text, low)
  <2>1. /\ low \in 0..n /\ low # n /\ low < n /\ k + 1 \in 0..n
        /\ \A start \in low..n : start = low \/ start \in (n - k)..n
        /\ (low + 1)..n = (n - k)..n
    BY <1>1, <1>4
  <2>2. ASSUME low \in B PROVE Good(low)
    <3>1. end \in (low + 1)..n
      BY <2>1, ChunkEndAhead DEF n
    <3>2. piece \in G /\ end \in B
      BY <2>1, <2>2 DEF n
    <3>3. Good(end)
      <4> HIDE DEF Good, low, end
      <4> QED
        BY <1>4, <2>1, <3>1, <3>2
    <3>4. from[low] = <<piece>> \o from[end]
      BY <1>2, <2>1
    <3> HIDE DEF low, end, piece
    <3>5. from[low] \in Seq(G)
      <4>1. <<piece>> \in Seq(G)
        BY <3>2
      <4> QED
        BY <3>3, <3>4, <4>1, ConcatProperties
    <3>6. FlattenSeq(from[low]) = piece \o Rest(end)
      <4> DEFINE D == Seq(U)
                 z == from[end]
      <4>1. piece \in D /\ G \subseteq D /\ z \in Seq(G)
        BY <3>2, <3>3
      <4> HIDE DEF D, z
      <4>2. z \in Seq(D)
        BY <4>1
      <4>3. FlattenSeq(<<piece>> \o z) = piece \o FlattenSeq(z)
        BY <4>1, <4>2, FlattenFront DEF D
      <4> QED
        BY <3>3, <3>4, <4>3 DEF z
    <3>7. piece \o Rest(end) = Rest(low)
      <4>1. /\ n = Len(text) /\ low + 1 \in 1..(Len(text) + 1) /\ end \in ((low + 1) - 1)..Len(text)
            /\ Len(text) \in end..Len(text)
        BY <1>1, <2>1, <3>1 DEF n
      <4>2. SubSeq(text, low + 1, end) \o SubSeq(text, end + 1, Len(text)) = SubSeq(text, low + 1, Len(text))
        BY <4>1, ConcatAdjacentSubSeq
      <4> QED
        BY <4>2 DEF piece, end, Piece, n
    <3> QED
      BY <3>5, <3>6, <3>7
  <2> HIDE DEF Good
  <2>3. \A start \in low..n : start \in B => Good(start)
    BY <1>4, <2>1, <2>2
  <2> QED
    BY <2>1, <2>3
<1>5. n \in S
  <2> HIDE DEF S
  <2>1. \A k \in 0..n : k \in S
    BY <1>1, <1>3, <1>4, UpTo
  <2> QED
    BY <1>1, <2>1
<1>6. 0 \in (n - n)..n
  BY <1>1
<1>7. Good(0)
  <2> HIDE DEF Good
  <2> QED
    BY <1>5, <1>6
<1>8. Rest(0) = text
  <2>1. 0 + 1 = 1
    OBVIOUS
  <2> QED
    BY <2>1, SubSeqFull DEF n
<1> QED
  BY <1>2, <1>7, <1>8

\* A text is cut into a sequence of parts that together are the text.
LEMMA ChunksAreParts ==
  ASSUME NEW c \in Codings, NEW U, NEW text \in Seq(U)
  PROVE  Chunks(c, text) \in Seq(Seq(U)) /\ FlattenSeq(Chunks(c, text)) = text
<1> DEFINE B == 0..Len(text)
           G == Seq(U)
<1>1. 0 \in B /\ G \in SUBSET Seq(U)
  OBVIOUS
<1>2. ASSUME NEW start \in B, start # Len(text)
      PROVE  Piece(c, text, start) \in G /\ ChunkEnd(c, text, start) \in B
  <2>1. ChunkEnd(c, text, start) \in (start + 1)..Len(text)
    BY <1>2, ChunkEndAhead
  <2>2. /\ start \in Nat /\ Len(text) \in Nat /\ ChunkEnd(c, text, start) \in 0..Len(text)
        /\ start + 1 \in 1..(Len(text) + 1)
    BY <2>1
  <2>3. SubSeq(text, start + 1, ChunkEnd(c, text, start)) \in Seq(U)
    BY <2>2, SubSeqProperties
  <2> QED
    BY <2>2, <2>3 DEF Piece
<1> HIDE DEF B, G
<1>3. Chunks(c, text) \in Seq(G) /\ FlattenSeq(Chunks(c, text)) = text
  BY <1>1, <1>2, ChunksInto
<1> QED
  BY <1>3 DEF G


-----------------------------------------------------------------------------
(***************************************************************************)
(* The parts of a message.                                                 *)
(***************************************************************************)
\* The numbers of a part fit into what the receiver counts with, and its text
\* is one of its coding's.
PartTyped(p) ==
  /\ p.total \in Nat /\ p.seq \in Nat /\ p.coding \in Codings
  /\ p.data \in Seq(DOMAIN Value)

LEMMA SentTyped ==
  ASSUME NEW m \in Messages, NEW p \in ToSet(EncodeSegments(m))
  PROVE  PartTyped(p)
<1> DEFINE chunks == Chunks(m.coding, m.text)
<1>1. m.coding \in Codings /\ m.text \in Seq(DOMAIN Value) /\ chunks \in Seq(Seq(DOMAIN Value))
  BY MessageAssumption, ChunksAreParts
<1>2. /\ DOMAIN chunks \subseteq Nat /\ Len(chunks) \in Nat
      /\ \A i \in DOMAIN chunks : chunks[i] \in Seq(DOMAIN Value)
  BY <1>1
<1> HIDE DEF chunks
<1>3. PICK i \in DOMAIN EncodeSegments(m) : p = EncodeSegments(m)[i]
  BY DEF ToSet
<1>4. CASE Len(m.text) <= SingleLimit[m.coding]
  BY <1>1, <1>3, <1>4 DEF EncodeSegments, PartTyped
<1>5. CASE ~(Len(m.text) <= SingleLimit[m.coding]) /\ Len(chunks) > MaxParts
  BY <1>3, <1>5 DEF EncodeSegments, chunks
<1>6. CASE ~(Len(m.text) <= SingleLimit[m.coding]) /\ ~(Len(chunks) > MaxParts)
  <2>1. /\ i \in DOMAIN chunks /\ p.total = Len(chunks) /\ p.seq = i
        /\ p.coding = m.coding /\ p.data = chunks[i]
    BY <1>3, <1>6 DEF EncodeSegments, chunks
  <2> QED
    BY <1>1, <1>2, <2>1 DEF PartTyped
<1> QED
  BY <1>4, <1>5, <1>6

\* Decoding keeps the number of units.
LEMMA Decoded ==
  ASSUME NEW U, NEW c, NEW data \in Seq(U)
  PROVE  DecodeText(c, data) \in Seq(U \union {"broken"})
<1>1. CASE c = "8bit"
  BY <1>1 DEF DecodeText
<1>2. CASE c # "8bit"
  <2> DEFINE B(i) == \/ data[i] = "hi" /\ i = Len(data)
                     \/ data[i] = "lo" /\ (i = 1 \/ data[i - 1] # "hi")
             W == U \union {"broken"}
             d == [i \in 1..Len(data) |-> IF B(i) THEN "broken" ELSE data[i]]
  <2>1. DecodeText(c, data) = d /\ Len(data) \in Nat /\ \A i \in 1..Len(data) : data[i] \in U
    <3>1. DOMAIN data = 1..Len(data)
      OBVIOUS
    <3> QED
      BY <1>2, <3>1 DEF DecodeText
  <2> HIDE DEF B
  <2>2. d \in [1..Len(data) -> W]
    BY <2>1
  <2> HIDE DEF d, W
  <2>3. d \in Seq(W)
    BY <2>1, <2>2
  <2> QED
    BY <2>1, <2>3 DEF W
<1> QED
  BY <1>1, <1>2

-----------------------------------------------------------------------------
(***************************************************************************)
(* The invariant: what was sent are messages, and what is stored are parts *)
(* of them or strays.                                                      *)
(***************************************************************************)
Parts(S) == Strays \union UNION {ToSet(EncodeSegments(m)) : m \in S}

DeliveryInv == sent \subseteq Messages /\ stored \in Seq(Parts(sent))

LEMMA DeliveryInit == Init => DeliveryInv
BY EmptySeq DEF Init, DeliveryInv

LEMMA DeliveryStep == DeliveryInv /\ [Next]_vars => DeliveryInv'
<1> SUFFICES ASSUME DeliveryInv, [Next]_vars PROVE DeliveryInv'
  OBVIOUS
<1> USE DEF DeliveryInv
<1>1. ASSUME NEW p \in Parts(sent), Store(p) PROVE DeliveryInv'
  <2>1. sent' = sent /\ stored' = Append(stored, p)
    BY <1>1 DEF Store
  <2>2. Parts(sent') = Parts(sent)
    BY <2>1
  <2> DEFINE P == Parts(sent)
  <2>3. stored \in Seq(P) /\ p \in P
    BY <1>1
  <2> HIDE DEF P
  <2>4. Append(stored, p) \in Seq(P)
    BY <2>3
  <2> QED
    BY <2>1, <2>2, <2>4 DEF P
<1>2. CASE Submit
  <2>1. sent' \subseteq Messages /\ sent \subseteq sent' /\ stored' = stored
    BY <1>2 DEF Submit
  <2> DEFINE P == Parts(sent)
             Q == Parts(sent')
  <2>2. P \subseteq Q
    BY <2>1 DEF Parts
  <2>3. stored \in Seq(P)
    OBVIOUS
  <2> HIDE DEF P, Q
  <2>4. stored \in Seq(Q)
    BY <2>2, <2>3
  <2> QED
    BY <2>1, <2>4 DEF Q
<1>3. CASE Arrive
  <2>1. PICK m \in sent : \E p \in ToSet(EncodeSegments(m)) : Store(p)
    BY <1>3 DEF Arrive
  <2>2. PICK p \in ToSet(EncodeSegments(m)) : Store(p)
    BY <2>1
  <2>3. p \in Parts(sent)
    BY DEF Parts
  <2> QED
    BY <1>1, <2>2, <2>3
<1>4. CASE ArriveStray
  <2>1. PICK p \in Strays : Store(p)
    BY <1>4 DEF ArriveStray
  <2> QED
    BY <1>1, <2>1 DEF Parts
<1>5. CASE UNCHANGED vars
  BY <1>5 DEF vars
<1> QED
  BY <1>2, <1>3, <1>4, <1>5 DEF Next

LEMMA StoredTyped ==
  ASSUME NEW S \in SUBSET Messages, NEW p \in Parts(S)
  PROVE  PartTyped(p)
<1>1. CASE p \in Strays
  <2>1. p.total \in 0..MaxParts /\ p.seq \in 0..MaxParts /\ p.coding \in Codings /\ p.data \in Seq(DOMAIN Value)
    BY <1>1, StrayAssumption
  <2> QED
    BY <2>1 DEF PartTyped
<1>2. CASE p \notin Strays
  <2>1. PICK m \in S : p \in ToSet(EncodeSegments(m))
    BY <1>2 DEF Parts
  <2> QED
    BY <2>1, SentTyped
<1> QED
  BY <1>1, <1>2

\* What the text of an entry is made of.
Glyphs == DOMAIN Value \union {"broken"}

\* parse_message_list leaves out what it cannot decode and keeps the rest in order.
LEMMA EntriesRise ==
  ASSUME DeliveryInv
  PROVE  /\ Rising(Entries) /\ Typed(Glyphs, Entries)
         /\ Entries \in Seq({Entry(i) : i \in DOMAIN stored})
         /\ \A i \in DOMAIN stored :
              Readable(stored[i].coding, stored[i].data) => \E k \in DOMAIN Entries : Entries[k] = Entry(i)
<1> DEFINE E == {Entry(i) : i \in DOMAIN stored}
           pieces == [i \in DOMAIN stored |->
                        IF Readable(stored[i].coding, stored[i].data) THEN <<Entry(i)>> ELSE <<>>]
<1>1. Entries = FlattenSeq(pieces)
  BY DEF Entries
<1>2. stored \in Seq(Parts(sent)) /\ sent \in SUBSET Messages
  BY DEF DeliveryInv
<1>3. pieces \in Seq(Seq(E))
  <2>1. \A i \in DOMAIN stored : Entry(i) \in E
    OBVIOUS
  <2> HIDE DEF E
  <2>2. \A i \in DOMAIN stored : pieces[i] \in Seq(E)
    BY <2>1
  <2>3. DOMAIN stored = 1..Len(stored) /\ Len(stored) \in Nat
    BY <1>2
  <2>4. pieces \in [1..Len(stored) -> Seq(E)]
    BY <2>2, <2>3
  <2> HIDE DEF pieces
  <2> QED
    BY <2>3, <2>4
<1>4. ASSUME NEW p \in 1..Len(pieces), NEW q \in DOMAIN pieces[p]
      PROVE  p \in DOMAIN stored /\ q = 1 /\ pieces[p][q] = Entry(p)
  <2> DEFINE e == Entry(p)
  <2> HIDE DEF e
  <2>1. p \in DOMAIN stored
    BY <1>2, <1>3
  <2>2. pieces[p] = <<e>> \/ pieces[p] = <<>>
    BY <2>1 DEF e
  <2> HIDE DEF pieces
  <2>3. pieces[p] = <<e>> /\ q = 1
    BY <2>2
  <2> QED
    BY <2>1, <2>3 DEF e
<1>5. ASSUME NEW i \in DOMAIN stored
      PROVE  /\ "index" \in DOMAIN Entry(i) /\ Entry(i).index = i /\ i \in Nat
             /\ Entry(i).total \in Nat /\ Entry(i).seq \in Nat
             /\ DOMAIN Entry(i) = Fields /\ Entry(i).data \in Seq(Glyphs)
  <2>1. stored[i] \in Parts(sent) /\ i \in Nat
    BY <1>2
  <2>2. /\ stored[i].total \in Nat /\ stored[i].seq \in Nat
        /\ DecodeText(stored[i].coding, stored[i].data) \in Seq(Glyphs)
    BY <1>2, <2>1, StoredTyped, Decoded DEF PartTyped, Glyphs
  <2> QED
    BY <2>1, <2>2 DEF Entry, Fields
<1> HIDE DEF pieces, E
<1>6. Entries \in Seq(E) /\ Spreads(Entries, pieces, Len(pieces)) # {}
  BY <1>1, <1>3, FlattenSpreads
<1>7. ASSUME NEW i \in DOMAIN Entries
      PROVE  /\ "index" \in DOMAIN Entries[i] /\ Entries[i].index \in Nat
             /\ Entries[i].total \in Nat /\ Entries[i].seq \in Nat
             /\ DOMAIN Entries[i] = Fields /\ Entries[i].data \in Seq(Glyphs)
  <2>1. Entries[i] \in E
    BY <1>6
  <2>2. PICK k \in DOMAIN stored : Entries[i] = Entry(k)
    BY <2>1 DEF E
  <2> QED
    BY <1>5, <2>2
<1>8. ASSUME NEW i \in DOMAIN Entries, NEW j \in DOMAIN Entries, i < j
      PROVE  Entries[i].index < Entries[j].index
  <2>1. PICK f : f \in Spreads(Entries, pieces, Len(pieces))
    BY <1>6
  <2>2. /\ f \in [DOMAIN Entries -> Places(pieces, Len(pieces))]
        /\ \A k \in DOMAIN Entries : Entries[k] = pieces[f[k][1]][f[k][2]]
        /\ Before(f[i], f[j])
    BY <1>8, <2>1 DEF Spreads
  <2>3. ASSUME NEW k \in DOMAIN Entries
        PROVE  f[k][1] \in DOMAIN stored /\ f[k][2] = 1 /\ Entries[k] = Entry(f[k][1])
    <3>1. f[k] \in Places(pieces, Len(pieces))
      BY <2>2
    <3>2. f[k][1] \in 1..Len(pieces) /\ f[k][2] \in DOMAIN pieces[f[k][1]]
      BY <3>1 DEF Places
    <3> QED
      BY <1>4, <2>2, <3>2
  <2>4. f[i][1] < f[j][1]
    BY <2>2, <2>3 DEF Before
  <2>5. Entries[i].index = f[i][1] /\ Entries[j].index = f[j][1]
    BY <1>5, <2>3
  <2> QED
    BY <2>4, <2>5
<1>9. ASSUME NEW i \in DOMAIN stored, Readable(stored[i].coding, stored[i].data)
      PROVE  \E k \in DOMAIN Entries : Entries[k] = Entry(i)
  <2>1. PICK f : f \in Spreads(Entries, pieces, Len(pieces))
    BY <1>6
  <2>2. i \in 1..Len(pieces) /\ 1 \in DOMAIN pieces[i]
    <3>1. DOMAIN pieces = DOMAIN stored
      BY DEF pieces
    <3>2. pieces[i] = <<Entry(i)>>
      BY <1>9 DEF pieces
    <3>3. DOMAIN pieces = 1..Len(pieces)
      BY <1>3
    <3> QED
      BY <3>1, <3>2, <3>3
  <2>3. <<i, 1>> \in Places(pieces, Len(pieces))
    BY <2>2 DEF Places
  <2>4. PICK k \in DOMAIN Entries : f[k] = <<i, 1>> /\ Entries[k] = pieces[f[k][1]][f[k][2]]
    BY <2>1, <2>3 DEF Spreads
  <2>5. Entries[k] = pieces[i][1]
    BY <2>4
  <2> QED
    BY <1>4, <2>2, <2>5
<1> QED
  BY <1>6, <1>7, <1>8, <1>9 DEF Rising, Typed, E

(***************************************************************************)
(* Whatever arrives, in whatever order and however often: the list has its *)
(* whole messages, and the entries that are part of none, in the order of  *)
(* their indices, no two with the same (reassemble_messages).              *)
(***************************************************************************)
THEOREM ListedByIndex == Spec => []ListedInOrder
<1>1. DeliveryInv => ListedInOrder
  BY EntriesRise, ReassembledInOrder DEF ListedInOrder, Listed
<1> QED
  BY DeliveryInit, DeliveryStep, <1>1, PTL DEF Spec

-----------------------------------------------------------------------------
(***************************************************************************)
(* Count, by the places where the unit is.                                 *)
(***************************************************************************)
LEMMA CountHits ==
  ASSUME NEW U, NEW V, NEW s \in Seq(V), \A i \in DOMAIN s : s[i].data \in Seq(U),
         NEW peer, NEW u
  PROVE  IsFiniteSet(Hits(s, peer, u)) /\ Count(s, peer, u) = Cardinality(Hits(s, peer, u))
<1> DEFINE ss == [i \in DOMAIN s |-> IF s[i].peer = peer THEN s[i].data ELSE <<>>]
           text == FlattenSeq(ss)
           n == Len(ss)
           J == {j \in DOMAIN text : text[j] = u}
           H == Hits(s, peer, u)
<1>1. Count(s, peer, u) = Cardinality(J)
  BY DEF Count
<1>2. ss \in Seq(Seq(U)) /\ n \in Nat /\ 1..n = DOMAIN s
  <2>1. \A i \in DOMAIN s : ss[i] \in Seq(U)
    BY EmptySeq
  <2> DEFINE D == Seq(U)
  <2>2. DOMAIN s = 1..Len(s) /\ Len(s) \in Nat
    OBVIOUS
  <2>3. ss \in [1..Len(s) -> D]
    BY <2>1, <2>2
  <2> HIDE DEF ss, D
  <2>4. ss \in Seq(D) /\ Len(ss) = Len(s)
    BY <2>2, <2>3
  <2> QED
    BY <2>2, <2>4 DEF D
<1>3. \A i \in DOMAIN s : ss[i] = IF s[i].peer = peer THEN s[i].data ELSE <<>>
  OBVIOUS
<1> HIDE DEF ss, n
<1>4. text \in Seq(U) /\ Spreads(text, ss, n) # {}
  BY <1>2, FlattenSpreads DEF n
<1> HIDE DEF text
<1>5. PICK f : f \in Spreads(text, ss, n)
  BY <1>4
<1>6. /\ f \in [DOMAIN text -> Places(ss, n)]
      /\ \A j \in DOMAIN text : text[j] = ss[f[j][1]][f[j][2]]
      /\ \A x \in Places(ss, n) : \E j \in DOMAIN text : f[j] = x
  BY <1>5 DEF Spreads
<1> DEFINE g == [j \in J |-> f[j]]
<1>7. ASSUME NEW j \in J PROVE f[j] \in H
  <2>1. f[j] \in Places(ss, n) /\ ss[f[j][1]][f[j][2]] = u
    BY <1>6
  <2> DEFINE a == f[j][1]
             b == f[j][2]
  <2>2. f[j] = <<a, b>> /\ a \in DOMAIN s /\ b \in Nat /\ b \in DOMAIN ss[a] /\ ss[a][b] = u
    BY <1>2, <2>1 DEF Places
  <2> HIDE DEF a, b
  <2>3. s[a].peer = peer /\ ss[a] = s[a].data
    BY <1>3, <2>2
  <2>4. <<a, b>> \in H
    BY <2>2, <2>3 DEF Hits
  <2> QED
    BY <2>2, <2>4
<1> HIDE DEF H
<1>8. g \in [J -> H]
  BY <1>7
<1>9. ASSUME NEW i \in J, NEW j \in J, g[i] = g[j] PROVE i = j
  <2>1. i \in DOMAIN text /\ j \in DOMAIN text /\ f[i] = f[j]
    BY <1>9
  <2> QED
    BY <1>2, <1>4, <1>5, <2>1, SpreadOnce
<1>10. ASSUME NEW x \in H PROVE \E j \in J : g[j] = x
  <2>1. /\ x = <<x[1], x[2]>> /\ x[1] \in DOMAIN s /\ x[2] \in Nat /\ s[x[1]].peer = peer
        /\ x[2] \in DOMAIN s[x[1]].data /\ s[x[1]].data[x[2]] = u
    BY DEF H, Hits
  <2>2. ss[x[1]] = s[x[1]].data
    BY <1>3, <2>1
  <2>3. x \in Places(ss, n)
    BY <1>2, <2>1, <2>2 DEF Places
  <2>4. PICK j \in DOMAIN text : f[j] = x
    BY <1>6, <2>3
  <2>5. text[j] = u
    BY <1>6, <2>1, <2>2, <2>4
  <2> QED
    BY <2>4, <2>5
<1> HIDE DEF g
<1>11. IsFiniteSet(J)
  <2>1. J \subseteq 1..Len(text) /\ Len(text) \in Nat
    BY <1>4
  <2>2. IsFiniteSet(1..Len(text))
    BY <2>1, FS_Interval
  <2> QED
    BY <2>1, <2>2, FS_Subset
<1> HIDE DEF J
<1>12. ExistsBijection(J, H)
  BY <1>8, <1>9, <1>10, BijectionBy
<1>13. IsFiniteSet(H) /\ Cardinality(H) = Cardinality(J)
  BY <1>11, <1>12, FS_Bijection
<1> QED
  BY <1>1, <1>13 DEF H

(***************************************************************************)
(* Nothing that was decoded is missing from the list and nothing is listed *)
(* twice or for another sender: of each peer the list has each unit of     *)
(* text as often as the decoded parts have, whatever arrives, in whatever  *)
(* order and however often (reassemble_messages).                          *)
(***************************************************************************)
THEOREM NothingLost == Spec => []NothingDropped
<1>1. ASSUME DeliveryInv PROVE NothingDropped
  <2> DEFINE s == Entries
             V == {Entry(i) : i \in DOMAIN stored}
             list == ReassembleMessages(s)
  <2>1. s \in Seq(V) /\ Rising(s) /\ Typed(Glyphs, s)
    BY <1>1, EntriesRise
  <2> HIDE DEF s, V
  <2>2. /\ list \in Seq(Listable(s))
        /\ \A i \in DOMAIN list : list[i].data \in Seq(Glyphs)
    <3>1. list \in Seq(Listable(s)) /\ \A e \in Listable(s) : e.data \in Seq(Glyphs)
      BY <2>1, ListIsTyped
    <3> HIDE DEF list
    <3> QED
      BY <3>1
  <2>3. ASSUME NEW peer, NEW u PROVE Count(list, peer, u) = Count(s, peer, u)
    <3>1. ExistsBijection(Hits(list, peer, u), Hits(s, peer, u))
      BY <2>1, ListHits
    <3> HIDE DEF list
    <3>2. IsFiniteSet(Hits(list, peer, u)) /\ Count(list, peer, u) = Cardinality(Hits(list, peer, u))
      BY <2>2, CountHits
    <3>3. Count(s, peer, u) = Cardinality(Hits(s, peer, u))
      BY <2>1, CountHits DEF Typed
    <3>4. Cardinality(Hits(s, peer, u)) = Cardinality(Hits(list, peer, u))
      BY <3>1, <3>2, FS_Bijection
    <3> QED
      BY <3>2, <3>3, <3>4
  <2> QED
    BY <2>3 DEF NothingDropped, s
<1> QED
  BY DeliveryInit, DeliveryStep, <1>1, PTL DEF Spec

-----------------------------------------------------------------------------
(***************************************************************************)
(* Parts that encode_segments makes decode to the text they were cut from: *)
(* no cut goes through a character.                                        *)
(***************************************************************************)
Clean(c, data) == DecodeText(c, data) = data /\ Readable(c, data)

LEMMA WholeIsClean ==
  ASSUME NEW U, NEW c \in Codings, NEW data \in Seq(U), WholeCharacters(c, data)
  PROVE  Clean(c, data)
<1>1. CASE c = "8bit"
  BY <1>1 DEF Clean, DecodeText, Readable
<1>2. CASE c # "8bit"
  <2> DEFINE B(i) == \/ data[i] = "hi" /\ i = Len(data)
                     \/ data[i] = "lo" /\ (i = 1 \/ data[i - 1] # "hi")
             d == [i \in DOMAIN data |-> IF B(i) THEN "broken" ELSE data[i]]
  <2>1. DecodeText(c, data) = d
    BY <1>2 DEF DecodeText
  <2>2. \A i \in DOMAIN data : /\ data[i] = "hi" => i < Len(data) /\ data[i + 1] = "lo"
                               /\ data[i] = "lo" => i > 1 /\ data[i - 1] = "hi"
    BY <1>2 DEF WholeCharacters
  <2>3. \A i \in DOMAIN data : ~B(i)
    <3>1. DOMAIN data \subseteq Nat /\ Len(data) \in Nat
      OBVIOUS
    <3> QED
      BY <2>2, <3>1
  <2>4. data = [i \in DOMAIN data |-> data[i]]
    OBVIOUS
  <2> HIDE DEF B
  <2>5. d = data
    BY <2>3, <2>4
  <2>6. Readable(c, data)
    BY <2>2 DEF Readable
  <2> QED
    BY <2>1, <2>5, <2>6 DEF Clean
<1> QED
  BY <1>1, <1>2

\* Where a part may begin: not after the first half of a character.
Starts(c, text) == {start \in 0..Len(text) : start = 0 \/ c = "8bit" \/ text[start] # "hi"}

\* A part ends where the next may begin.
LEMMA ChunkEndsWhole ==
  ASSUME NEW c \in Codings, NEW U, NEW text \in Seq(U), WholeCharacters(c, text),
         NEW start \in Starts(c, text), start # Len(text)
  PROVE  ChunkEnd(c, text, start) \in Starts(c, text)
<1> DEFINE n == Len(text)
           N == {start + PartLimit[c], n}
           e == Min(N)
           end == ChunkEnd(c, text, start)
<1>1. start \in 0..n /\ n \in Nat
  BY DEF Starts
<1>2. end \in (start + 1)..n
  BY <1>1, ChunkEndAhead
<1>3. e \in Nat /\ e <= n
  <2>1. N \in SUBSET Nat /\ N # {}
    BY <1>1, LimitAssumption
  <2>2. Min(N) \in N /\ \A y \in N : Min(N) <= y
    BY <2>1, LeastOf
  <2> QED
    BY <2>1, <2>2
<1>4. end = IF e < n /\ text[e] \in FirstHalf[c] THEN e - 1 ELSE e
  BY DEF ChunkEnd
<1> HIDE DEF N, e, end
<1>5. CASE c = "8bit"
  <2>1. end \in 0..n
    BY <1>1, <1>2
  <2> QED
    BY <1>5, <2>1 DEF Starts, n, end
<1>6. CASE c # "8bit"
  <2>1. FirstHalf[c] = {"hi"}
    BY <1>6, HalfAssumption
  <2>2. \A i \in 1..n : text[i] = "hi" => i < n /\ text[i + 1] = "lo"
    <3>1. DOMAIN text = 1..n
      OBVIOUS
    <3> QED
      BY <1>6, <3>1 DEF WholeCharacters, n
  <2>3. end \in 1..n /\ end \in 0..n
    BY <1>1, <1>2
  <2> HIDE DEF n
  <2>4. text[end] # "hi"
    <3>1. CASE e < n /\ text[e] = "hi"
      <4>1. end = e - 1 /\ end + 1 = e
        BY <1>3, <1>4, <2>1, <3>1
      <4>2. "hi" # "lo"
        OBVIOUS
      <4> QED
        BY <2>2, <2>3, <3>1, <4>1, <4>2
    <3>2. CASE ~(e < n /\ text[e] = "hi")
      <4>1. end = e
        BY <1>4, <2>1, <3>2
      <4>2. e = n => ~(n < n)
        BY <1>1
      <4> QED
        BY <1>1, <1>3, <2>2, <2>3, <3>2, <4>1, <4>2
    <3> QED
      BY <3>1, <3>2
  <2> QED
    BY <2>3, <2>4 DEF Starts, n, end
<1> QED
  BY <1>5, <1>6

LEMMA PieceIsWhole ==
  ASSUME NEW c \in Codings, NEW U, NEW text \in Seq(U), WholeCharacters(c, text),
         NEW start \in Starts(c, text), start # Len(text)
  PROVE  Piece(c, text, start) \in Seq(U) /\ WholeCharacters(c, Piece(c, text, start))
<1> DEFINE n == Len(text)
           end == ChunkEnd(c, text, start)
           p == SubSeq(text, start + 1, end)
<1>1. start \in 0..n /\ n \in Nat
  BY DEF Starts
<1>2. end \in (start + 1)..n
  BY <1>1, ChunkEndAhead
<1>3. end \in Starts(c, text)
  BY ChunkEndsWhole
<1>4. Piece(c, text, start) = p
  BY DEF Piece
<1> HIDE DEF end
<1>5. start + 1 \in Int /\ end \in Int /\ \A i \in (start + 1)..end : i \in 1..n /\ text[i] \in U
  BY <1>1, <1>2
<1>6. /\ p \in Seq(U) /\ Len(p) = IF start + 1 <= end THEN end - (start + 1) + 1 ELSE 0
      /\ \A i \in 1..(end - (start + 1) + 1) : p[i] = text[start + 1 + i - 1]
  BY <1>5, SubSeqProperties
<1> HIDE DEF p, n
<1>7. /\ Len(p) = end - start /\ DOMAIN p = 1..(end - start)
      /\ \A i \in 1..(end - start) : p[i] = text[start + i]
  <2>1. start + 1 <= end /\ end - (start + 1) + 1 = end - start
    BY <1>1, <1>2
  <2>2. \A i \in 1..(end - start) : start + 1 + i - 1 = start + i
    BY <1>1
  <2>3. DOMAIN p = 1..Len(p)
    BY <1>6
  <2> QED
    BY <1>6, <2>1, <2>2, <2>3
<1>8. ASSUME c # "8bit" PROVE WholeCharacters(c, p)
  <2>1. \A i \in 1..n : /\ text[i] = "hi" => i < n /\ text[i + 1] = "lo"
                        /\ text[i] = "lo" => i > 1 /\ text[i - 1] = "hi"
    <3>1. DOMAIN text = 1..n
      BY DEF n
    <3> QED
      BY <1>8, <3>1 DEF WholeCharacters, n
  <2>2. text[end] # "hi" /\ (start = 0 \/ text[start] # "hi")
    <3>1. end # 0
      BY <1>1, <1>2
    <3> QED
      BY <1>3, <1>8, <3>1 DEF Starts
  <2>3. ASSUME NEW i \in 1..(end - start)
        PROVE  /\ p[i] = "hi" => i < end - start /\ p[i + 1] = "lo"
               /\ p[i] = "lo" => i > 1 /\ p[i - 1] = "hi"
    <3>1. start + i \in 1..n /\ p[i] = text[start + i] /\ i \in Nat
      BY <1>1, <1>2, <1>7
    <3>2. ASSUME p[i] = "hi" PROVE i < end - start /\ p[i + 1] = "lo"
      <4>1. text[start + i] = "hi" /\ text[start + i + 1] = "lo"
        BY <2>1, <3>1, <3>2
      <4>2. start + i # end
        BY <2>2, <4>1
      <4>3. i < end - start /\ i + 1 \in 1..(end - start) /\ start + (i + 1) = start + i + 1
        BY <1>1, <1>2, <4>2
      <4>4. p[i + 1] = text[start + (i + 1)]
        BY <1>7, <4>3
      <4> QED
        BY <4>1, <4>3, <4>4
    <3>3. ASSUME p[i] = "lo" PROVE i > 1 /\ p[i - 1] = "hi"
      <4>1. start + i > 1 /\ text[start + i - 1] = "hi"
        <5> DEFINE k == start + i
        <5>1. k \in 1..n /\ text[k] = "lo"
          BY <3>1, <3>3
        <5>2. k - 1 = start + i - 1
          BY <1>1, <3>1
        <5> HIDE DEF k
        <5>3. k > 1 /\ text[k - 1] = "hi"
          BY <2>1, <5>1
        <5>4. text[start + i - 1] = "hi"
          BY <5>2, <5>3
        <5> QED
          BY <5>3, <5>4 DEF k
      <4>2. i # 1
        <5> SUFFICES ASSUME i = 1 PROVE FALSE
          OBVIOUS
        <5>1. start + i - 1 = start /\ start # 0
          BY <1>1, <4>1
        <5> QED
          BY <2>2, <4>1, <5>1
      <4>3. i > 1 /\ i - 1 \in 1..(end - start) /\ start + (i - 1) = start + i - 1
        BY <1>1, <1>2, <4>2
      <4>4. p[i - 1] = text[start + (i - 1)]
        BY <1>7, <4>3
      <4> QED
        BY <4>1, <4>3, <4>4
    <3> QED
      BY <3>2, <3>3
  <2> QED
    BY <1>7, <2>3 DEF WholeCharacters
<1>9. CASE c = "8bit"
  BY <1>4, <1>6, <1>9 DEF WholeCharacters
<1> QED
  BY <1>4, <1>6, <1>8, <1>9

LEMMA ChunksClean ==
  ASSUME NEW c \in Codings, NEW U, NEW text \in Seq(U), WholeCharacters(c, text)
  PROVE  \A i \in DOMAIN Chunks(c, text) : Clean(c, Chunks(c, text)[i])
<1> DEFINE G == {d \in Seq(U) : WholeCharacters(c, d)}
           B == Starts(c, text)
<1>1. 0 \in B /\ G \in SUBSET Seq(U)
  <2>1. 0 \in 0..Len(text)
    OBVIOUS
  <2> QED
    BY <2>1 DEF Starts
<1>2. \A start \in B : start \in 0..Len(text) /\ start # Len(text) =>
        Piece(c, text, start) \in G /\ ChunkEnd(c, text, start) \in B
  BY ChunkEndsWhole, PieceIsWhole
<1> HIDE DEF B, G
<1>3. Chunks(c, text) \in Seq(G)
  BY <1>1, <1>2, ChunksInto
<1>4. \A i \in DOMAIN Chunks(c, text) : Chunks(c, text)[i] \in G
  <2> DEFINE d == Chunks(c, text)
  <2> HIDE DEF d
  <2>1. d \in Seq(G)
    BY <1>3 DEF d
  <2>2. \A i \in DOMAIN d : d[i] \in G
    BY <2>1
  <2> QED
    BY <2>2 DEF d
<1>5. \A d \in G : Clean(c, d)
  BY WholeIsClean DEF G
<1> QED
  BY <1>4, <1>5

-----------------------------------------------------------------------------
(***************************************************************************)
(* The parts of a long message.                                            *)
(***************************************************************************)
PartsOf(m) == Chunks(m.coding, m.text)

Part(m, i) ==
  [peer |-> m.peer, coding |-> m.coding, concat |-> TRUE, ref |-> ConcatRef(m),
   total |-> Len(PartsOf(m)), seq |-> i, data |-> PartsOf(m)[i]]

\* A message with a part that can be joined, or with more than one, is long.
LEMMA LongParts ==
  ASSUME NEW m \in Messages,
         \/ \E p \in ToSet(EncodeSegments(m)) : p.concat
         \/ Len(EncodeSegments(m)) > 1
  PROVE  /\ EncodeSegments(m) = [i \in DOMAIN PartsOf(m) |-> Part(m, i)]
         /\ PartsOf(m) \in Seq(Seq(DOMAIN Value)) /\ FlattenSeq(PartsOf(m)) = m.text
         /\ Len(PartsOf(m)) \in Nat /\ DOMAIN PartsOf(m) = 1..Len(PartsOf(m))
         /\ Len(EncodeSegments(m)) = Len(PartsOf(m))
         /\ \A i \in DOMAIN PartsOf(m) : Clean(m.coding, PartsOf(m)[i])
<1> DEFINE chunks == PartsOf(m)
           parts == EncodeSegments(m)
           long == [i \in DOMAIN chunks |-> Part(m, i)]
<1>1. /\ chunks \in Seq(Seq(DOMAIN Value)) /\ FlattenSeq(chunks) = m.text
      /\ \A i \in DOMAIN chunks : Clean(m.coding, chunks[i])
  BY MessageAssumption, ChunksAreParts, ChunksClean DEF PartsOf
<1>2. Len(chunks) \in Nat /\ DOMAIN chunks = 1..Len(chunks)
  BY <1>1
<1>3. \/ \E x : parts = <<x>> /\ x.concat = FALSE
      \/ parts = <<>>
      \/ parts = long
  BY DEF EncodeSegments, Part, PartsOf
<1>4. ASSUME NEW x, parts = <<x>>, x.concat = FALSE PROVE FALSE
  <2> HIDE DEF parts
  <2>1. Len(parts) = 1 /\ ToSet(parts) = {x}
    BY <1>4 DEF ToSet
  <2> QED
    BY <1>4, <2>1 DEF parts
<1>5. ASSUME parts = <<>> PROVE FALSE
  <2> HIDE DEF parts
  <2>1. Len(parts) = 0 /\ ToSet(parts) = {}
    BY <1>5 DEF ToSet
  <2> QED
    BY <2>1 DEF parts
<1>6. parts = long
  BY <1>3, <1>4, <1>5
<1>7. Len(parts) = Len(chunks)
  <2> HIDE DEF chunks, parts
  <2>1. DOMAIN parts = 1..Len(chunks)
    BY <1>2, <1>6
  <2>2. parts \in [1..Len(chunks) -> {Part(m, i) : i \in DOMAIN chunks}]
    BY <1>2, <1>6
  <2> QED
    BY <1>2, <2>2
<1> QED
  BY <1>1, <1>2, <1>6, <1>7

-----------------------------------------------------------------------------
(***************************************************************************)
(* Groups of entries and the messages whose parts they are.                *)
(***************************************************************************)
LEMMA EntryOf ==
  ASSUME NEW x \in DOMAIN stored
  PROVE  /\ Entry(x).index = x /\ Entry(x).seq = stored[x].seq /\ Entry(x).coding = stored[x].coding
         /\ Entry(x).concat = stored[x].concat
         /\ Entry(x).data = DecodeText(stored[x].coding, stored[x].data)
         /\ IsConcatSegment(Entry(x)) <=> IsConcatSegment(stored[x])
         /\ ConcatGroupKey(Entry(x)) = ConcatGroupKey(stored[x])
BY DEF Entry, IsConcatSegment, ConcatGroupKey

LEMMA EntriesAre ==
  ASSUME DeliveryInv
  PROVE  \A k \in DOMAIN Entries : \E x \in DOMAIN stored : Entries[k] = Entry(x)
<1> DEFINE E == {Entry(x) : x \in DOMAIN stored}
<1>1. Entries \in Seq(E)
  BY EntriesRise
<1> HIDE DEF E
<1>2. \A k \in DOMAIN Entries : Entries[k] \in E
  BY <1>1
<1> QED
  BY <1>2 DEF E

\* All parts of a long message have one key.
LEMMA OneKey ==
  ASSUME NEW m \in Messages, NEW p \in ToSet(EncodeSegments(m)),
         p.concat \/ Len(EncodeSegments(m)) > 1
  PROVE  /\ ConcatGroupKey(EncodeSegments(m)[1]) = <<m.peer, ConcatRef(m), Len(PartsOf(m)), m.coding>>
         /\ ConcatGroupKey(EncodeSegments(m)[1]) = ConcatGroupKey(p)
         /\ p.seq \in DOMAIN PartsOf(m) /\ p = Part(m, p.seq)
         /\ EncodeSegments(m)[1] = Part(m, 1) /\ 1 \in DOMAIN PartsOf(m)
<1>1. /\ EncodeSegments(m) = [i \in DOMAIN PartsOf(m) |-> Part(m, i)]
      /\ Len(PartsOf(m)) \in Nat /\ DOMAIN PartsOf(m) = 1..Len(PartsOf(m))
  BY LongParts
<1>2. PICK i \in DOMAIN PartsOf(m) : p = Part(m, i)
  BY <1>1 DEF ToSet
<1>3. p.seq = i
  BY <1>2 DEF Part
<1>4. 1 \in DOMAIN PartsOf(m)
  BY <1>1, <1>2
<1>5. EncodeSegments(m)[1] = Part(m, 1)
  BY <1>1, <1>4
<1>6. /\ ConcatGroupKey(Part(m, 1)) = <<m.peer, ConcatRef(m), Len(PartsOf(m)), m.coding>>
      /\ ConcatGroupKey(Part(m, i)) = <<m.peer, ConcatRef(m), Len(PartsOf(m)), m.coding>>
  BY DEF Part, ConcatGroupKey
<1> QED
  BY <1>2, <1>3, <1>4, <1>5, <1>6

\* A complete group with the key of a message that was sent, and that nothing
\* disturbs, becomes that message.
LEMMA GroupOfSent ==
  ASSUME DeliveryInv, NEW m \in sent, Undisturbed(m), NEW p \in ToSet(EncodeSegments(m)),
         p.concat \/ Len(EncodeSegments(m)) > 1,
         NEW k \in DOMAIN Entries, Joins(Entries, k), Complete(Entries, k),
         ConcatGroupKey(EncodeSegments(m)[1]) = ConcatGroupKey(Entries[k])
  PROVE  SameText(MergeConcatGroup(Entries, k), m)
<1> DEFINE s == Entries
           V == {Entry(i) : i \in DOMAIN stored}
           parts == EncodeSegments(m)
           chunks == PartsOf(m)
           n == Len(chunks)
<1>1. s \in Seq(V) /\ Rising(s) /\ Typed(Glyphs, s)
  BY EntriesRise
<1>2. m \in Messages
  BY DEF DeliveryInv
<1>3. /\ parts = [i \in DOMAIN chunks |-> Part(m, i)]
      /\ chunks \in Seq(Seq(DOMAIN Value)) /\ FlattenSeq(chunks) = m.text
      /\ n \in Nat /\ DOMAIN chunks = 1..n
      /\ \A i \in DOMAIN chunks : Clean(m.coding, chunks[i])
  BY <1>2, LongParts
<1>4. s[k].peer = m.peer /\ s[k].coding = m.coding /\ s[k].total = n
  <2>1. ConcatGroupKey(s[k]) = <<m.peer, ConcatRef(m), n, m.coding>>
    BY <1>2, OneKey
  <2> QED
    BY <2>1 DEF ConcatGroupKey
<1> HIDE DEF V
<1>5. /\ \A seq \in 1..n : \E j \in Bucket(s, k) : s[j].seq = seq
      /\ MergeConcatGroup(s, k).peer = m.peer /\ MergeConcatGroup(s, k).coding = m.coding
      /\ MergeConcatGroup(s, k).data = FlattenSeq(Pieces(s, k))
  BY <1>1, <1>4, MergedHas
<1> HIDE DEF s, chunks, n
<1>6. ASSUME NEW seq \in 1..n PROVE PartAt(s, k, seq).data = chunks[seq]
  <2>1. PICK j \in Bucket(s, k) : s[j].seq = seq
    BY <1>5
  <2>2. j \in DOMAIN s /\ IsConcatSegment(s[j]) /\ SameGroup(s[k], s[j])
    BY BucketAgrees DEF Bucket, s
  <2>3. PartAt(s, k, seq) = s[j]
    BY <1>1, <2>1, BucketNumbers DEF s
  <2>4. PICK x \in DOMAIN stored : s[j] = Entry(x)
    BY <2>2, EntriesAre DEF s
  <2>5. /\ stored[x].seq = seq /\ IsConcatSegment(stored[x])
        /\ ConcatGroupKey(stored[x]) = ConcatGroupKey(s[k])
        /\ s[j].data = DecodeText(stored[x].coding, stored[x].data)
    BY <2>1, <2>2, <2>4, EntryOf DEF SameGroup
  <2>6. /\ stored[x].peer = m.peer /\ stored[x].coding = m.coding
        /\ stored[x].ref = parts[1].ref /\ stored[x].total = parts[1].total
        /\ stored[x] \in ToSet(stored)
    BY <1>4, <2>5 DEF ConcatGroupKey, ToSet, s
  <2>7. stored[x] \in ToSet(parts)
    BY <2>5, <2>6 DEF Undisturbed
  <2>8. stored[x].concat
    BY <2>5 DEF IsConcatSegment
  <2>9. stored[x] = Part(m, seq) /\ seq \in DOMAIN chunks
    BY <1>2, <2>5, <2>7, <2>8, OneKey DEF chunks
  <2>10. stored[x].coding = m.coding /\ stored[x].data = chunks[seq]
    BY <2>9 DEF Part, chunks
  <2> QED
    BY <1>3, <2>3, <2>5, <2>9, <2>10 DEF Clean
<1>7. Pieces(s, k) = chunks
  <2>1. Pieces(s, k) = [seq \in 1..n |-> PartAt(s, k, seq).data]
    BY <1>4 DEF Pieces, s
  <2>2. chunks = [seq \in 1..n |-> chunks[seq]]
    BY <1>3
  <2> QED
    BY <1>6, <2>1, <2>2
<1> QED
  BY <1>3, <1>5, <1>7 DEF SameText, s

\* An entry that is no joined message is not whole.
LEMMA EntryNotWhole ==
  ASSUME DeliveryInv, NEW k \in DOMAIN Entries
  PROVE  ~IsWhole(Entries[k])
<1>1. PICK x \in DOMAIN stored : Entries[k] = Entry(x)
  BY EntriesAre
<1> QED
  BY <1>1, EntryOf DEF IsWhole, IsReassembled

\* A complete group has a part of a message that was sent.
LEMMA GroupHasSent ==
  ASSUME DeliveryInv, NEW k \in DOMAIN Entries, Joins(Entries, k), Complete(Entries, k)
  PROVE  \E m \in sent : \E p \in ToSet(EncodeSegments(m)) :
           p.concat /\ ConcatGroupKey(p) = ConcatGroupKey(Entries[k])
<1> DEFINE s == Entries
           V == {Entry(i) : i \in DOMAIN stored}
<1>1. s \in Seq(V) /\ Rising(s) /\ Typed(Glyphs, s)
  BY EntriesRise
<1> HIDE DEF V
<1>2. \A seq \in 1..s[k].total : \E j \in Bucket(s, k) : s[j].seq = seq
  BY <1>1, MergedHas
<1> HIDE DEF s
<1>3. ASSUME NEW j \in Bucket(s, k)
      PROVE  \E x \in DOMAIN stored :
               /\ stored[x].seq = s[j].seq /\ IsConcatSegment(stored[x])
               /\ ConcatGroupKey(stored[x]) = ConcatGroupKey(s[k])
  <2>1. j \in DOMAIN s /\ IsConcatSegment(s[j]) /\ SameGroup(s[k], s[j])
    BY BucketAgrees DEF Bucket, s
  <2>2. PICK x \in DOMAIN stored : s[j] = Entry(x)
    BY <2>1, EntriesAre DEF s
  <2> QED
    BY <2>1, <2>2, EntryOf DEF SameGroup
<1>4. \E x \in DOMAIN stored : /\ stored[x] \notin Strays /\ IsConcatSegment(stored[x])
                               /\ ConcatGroupKey(stored[x]) = ConcatGroupKey(s[k])
  <2> SUFFICES ASSUME \A x \in DOMAIN stored :
                        IsConcatSegment(stored[x]) /\ ConcatGroupKey(stored[x]) = ConcatGroupKey(s[k])
                          => stored[x] \in Strays
               PROVE  FALSE
    OBVIOUS
  <2>1. k \in Bucket(s, k)
    BY <1>1, BucketHasIt DEF s
  <2>2. PICK x \in DOMAIN stored : /\ IsConcatSegment(stored[x])
                                   /\ ConcatGroupKey(stored[x]) = ConcatGroupKey(s[k])
    BY <1>3, <2>1
  <2>3. stored[x] \in Strays /\ stored[x].total = s[k].total
    BY <2>2 DEF ConcatGroupKey
  <2>4. PICK seq \in 1..s[k].total : \A q \in Strays : SameGroup(stored[x], q) => q.seq # seq
    BY <2>2, <2>3, StrayAssumption
  <2>5. PICK j \in Bucket(s, k) : s[j].seq = seq
    BY <1>2
  <2>6. PICK y \in DOMAIN stored : /\ stored[y].seq = seq /\ IsConcatSegment(stored[y])
                                   /\ ConcatGroupKey(stored[y]) = ConcatGroupKey(s[k])
    BY <1>3, <2>5
  <2>7. SameGroup(stored[x], stored[y]) /\ stored[y] \in Strays
    BY <2>2, <2>6 DEF SameGroup
  <2> QED
    BY <2>4, <2>6, <2>7
<1>5. PICK x \in DOMAIN stored : /\ stored[x] \notin Strays /\ IsConcatSegment(stored[x])
                                 /\ ConcatGroupKey(stored[x]) = ConcatGroupKey(s[k])
  BY <1>4
<1>6. stored[x] \in Parts(sent)
  <2> DEFINE P == Parts(sent)
  <2>1. stored \in Seq(P)
    BY DEF DeliveryInv
  <2> HIDE DEF P
  <2>2. stored[x] \in P
    BY <2>1
  <2> QED
    BY <2>2 DEF P
<1>7. PICK m \in sent : stored[x] \in ToSet(EncodeSegments(m))
  BY <1>5, <1>6 DEF Parts
<1> QED
  BY <1>5, <1>7 DEF IsConcatSegment, s

(***************************************************************************)
(* A message that is listed as a whole was sent as a whole, unless parts   *)
(* of another text with its sender, coding and numbers have come: whatever *)
(* arrives, in whatever order, twice or with parts lost (merge_concat_     *)
(* group, concat_group_key).                                               *)
(***************************************************************************)
THEOREM WholeWasSent == Spec => []JoinedIsSent
<1>1. ASSUME DeliveryInv PROVE JoinedIsSent
  <2> DEFINE s == Entries
             V == {Entry(i) : i \in DOMAIN stored}
             list == ReassembleMessages(s)
  <2>1. s \in Seq(V) /\ Rising(s) /\ Typed(Glyphs, s)
    BY <1>1, EntriesRise
  <2>2. list \in Seq(Listable(s))
    <3> HIDE DEF s, V
    <3> QED
      BY <2>1, ListIsTyped
  <2> SUFFICES ASSUME NEW i \in DOMAIN list, IsWhole(list[i]), \A m \in sent : Undisturbed(m)
               PROVE  \E m \in sent : SameText(list[i], m)
    BY DEF JoinedIsSent, Listed
  <2>3. list[i] \in Listable(s)
    <3> DEFINE L == Listable(s)
    <3> HIDE DEF L, list
    <3>1. list \in Seq(L)
      BY <2>2 DEF L
    <3>2. list[i] \in L
      BY <3>1
    <3> QED
      BY <3>2 DEF L
  <2>4. PICK k \in DOMAIN s : Joins(s, k) /\ Complete(s, k) /\ list[i] = MergeConcatGroup(s, k)
    BY <1>1, <2>3, EntryNotWhole DEF Listable
  <2>5. PICK m \in sent : \E p \in ToSet(EncodeSegments(m)) :
          p.concat /\ ConcatGroupKey(p) = ConcatGroupKey(s[k])
    BY <1>1, <2>4, GroupHasSent
  <2>6. PICK p \in ToSet(EncodeSegments(m)) : p.concat /\ ConcatGroupKey(p) = ConcatGroupKey(s[k])
    BY <2>5
  <2>7. m \in Messages
    BY <1>1 DEF DeliveryInv
  <2>8. ConcatGroupKey(EncodeSegments(m)[1]) = ConcatGroupKey(s[k])
    BY <2>6, <2>7, OneKey
  <2>9. SameText(MergeConcatGroup(s, k), m)
    BY <1>1, <2>4, <2>6, <2>8, GroupOfSent
  <2> QED
    BY <2>4, <2>9
<1> QED
  BY DeliveryInit, DeliveryStep, <1>1, PTL DEF Spec

\* Each part of a long message that has arrived is an entry with its number.
LEMMA PartListed ==
  ASSUME DeliveryInv, NEW m \in sent, Len(EncodeSegments(m)) > 1, PartsStored(m),
         NEW seq \in DOMAIN PartsOf(m)
  PROVE  \E k \in DOMAIN Entries :
           /\ IsConcatSegment(Entries[k]) /\ Entries[k].seq = seq
           /\ ConcatGroupKey(Entries[k]) = ConcatGroupKey(EncodeSegments(m)[1])
<1>1. m \in Messages
  BY DEF DeliveryInv
<1>2. /\ EncodeSegments(m) = [i \in DOMAIN PartsOf(m) |-> Part(m, i)]
      /\ Len(PartsOf(m)) \in Nat /\ DOMAIN PartsOf(m) = 1..Len(PartsOf(m))
      /\ Clean(m.coding, PartsOf(m)[seq])
  BY <1>1, LongParts
<1>3. Part(m, seq) \in ToSet(EncodeSegments(m))
  BY <1>2 DEF ToSet
<1>4. PICK x \in DOMAIN stored : stored[x] = Part(m, seq)
  BY <1>3 DEF PartsStored, ToSet
<1>5. IsConcatSegment(stored[x]) /\ stored[x].seq = seq
  BY <1>2, <1>4 DEF Part, IsConcatSegment
<1>6. ConcatGroupKey(stored[x]) = ConcatGroupKey(EncodeSegments(m)[1])
  BY <1>1, <1>3, <1>4, OneKey
<1>7. Readable(stored[x].coding, stored[x].data)
  BY <1>2, <1>4 DEF Part, Clean
<1>8. PICK k \in DOMAIN Entries : Entries[k] = Entry(x)
  BY <1>7, EntriesRise
<1> QED
  BY <1>5, <1>6, <1>8, EntryOf

\* When all its parts have arrived, a message has a complete group.
LEMMA SetIsComplete ==
  ASSUME DeliveryInv, NEW m \in sent, Len(EncodeSegments(m)) > 1, PartsStored(m),
         Len(EncodeSegments(m)) < MaxParts
  PROVE  \E l \in DOMAIN Entries :
           /\ Joins(Entries, l) /\ l = Min(Bucket(Entries, l)) /\ Complete(Entries, l)
           /\ ConcatGroupKey(Entries[l]) = ConcatGroupKey(EncodeSegments(m)[1])
<1> DEFINE s == Entries
           V == {Entry(i) : i \in DOMAIN stored}
           n == Len(PartsOf(m))
           key == ConcatGroupKey(EncodeSegments(m)[1])
<1>1. s \in Seq(V) /\ Rising(s) /\ Typed(Glyphs, s)
  BY EntriesRise
<1>2. m \in Messages
  BY DEF DeliveryInv
<1>3. n \in Nat /\ n > 1 /\ n < MaxParts /\ DOMAIN PartsOf(m) = 1..n
  BY <1>2, LongParts
<1> HIDE DEF V
<1>4. ASSUME NEW seq \in 1..n
      PROVE  \E j \in DOMAIN s : Joins(s, j) /\ s[j].seq = seq /\ ConcatGroupKey(s[j]) = key
  <2>1. PICK k \in DOMAIN s : IsConcatSegment(s[k]) /\ s[k].seq = seq /\ ConcatGroupKey(s[k]) = key
    BY <1>3, PartListed
  <2>2. \E j \in DOMAIN s : Joins(s, j) /\ SameGroup(s[k], s[j]) /\ s[j].seq = s[k].seq
    <3> HIDE DEF s
    <3> QED
      BY <1>1, <2>1, FirstJoins
  <2> QED
    BY <2>1, <2>2 DEF SameGroup
<1>5. PICK a \in DOMAIN s : Joins(s, a) /\ ConcatGroupKey(s[a]) = key
  <2>1. 1 \in 1..n
    BY <1>3
  <2> QED
    BY <1>4, <2>1
<1>6. s[a].total = n
  <2>1. PICK p : p \in ToSet(EncodeSegments(m))
    <3>1. 1 \in DOMAIN EncodeSegments(m)
      BY <1>2, <1>3, LongParts
    <3> QED
      BY <3>1 DEF ToSet
  <2>2. key = <<m.peer, ConcatRef(m), n, m.coding>>
    BY <1>2, <2>1, OneKey
  <2> QED
    BY <1>5, <2>2 DEF ConcatGroupKey
<1> HIDE DEF s, key, n
<1>7. \A seq \in 1..n : \E j \in Bucket(s, a) : s[j].seq = seq
  <2> SUFFICES ASSUME NEW seq \in 1..n PROVE \E j \in Bucket(s, a) : s[j].seq = seq
    OBVIOUS
  <2>1. PICK j \in DOMAIN s : Joins(s, j) /\ s[j].seq = seq /\ ConcatGroupKey(s[j]) = key
    BY <1>4
  <2>2. j \in Bucket(s, a)
    BY <1>5, <2>1 DEF Bucket, SameGroup, Joins
  <2> QED
    BY <2>1, <2>2
<1>8. Complete(s, a)
  <2>1. s[a].total # MaxParts
    <3>1. ~(n < n)
      BY <1>3
    <3> QED
      BY <1>3, <1>6, <3>1
  <2> QED
    BY <1>1, <1>5, <1>6, <1>7, <2>1, AllNumbersComplete
<1> DEFINE l == Min(Bucket(s, a))
<1>9. l \in Bucket(s, a)
  BY <1>1, <1>5, BucketHasIt, LeastOf
<1>10. l \in DOMAIN s /\ Joins(s, l) /\ Bucket(s, l) = Bucket(s, a) /\ s[l].total = s[a].total
  <2> HIDE DEF l
  <2> QED
    BY <1>9, BucketAgrees
<1>11. l = Min(Bucket(s, l))
  BY <1>10
<1> HIDE DEF l
<1>12. Complete(s, l)
  BY <1>8, <1>10 DEF Complete
<1>13. ConcatGroupKey(s[l]) = key
  BY <1>5, <1>9 DEF Bucket, SameGroup
<1> QED
  BY <1>10, <1>11, <1>12, <1>13 DEF s, key

LEMMA MergedKey ==
  ASSUME NEW U, NEW V, NEW s \in Seq(V), Typed(U, s), NEW i \in DOMAIN s, Joins(s, i), Complete(s, i)
  PROVE  ConcatGroupKey(MergeConcatGroup(s, i)) = ConcatGroupKey(s[i])
BY MergedHas DEF ConcatGroupKey

\* A complete group is listed once, as a whole message.
LEMMA GroupListed ==
  ASSUME DeliveryInv, NEW l \in DOMAIN Entries, Joins(Entries, l), l = Min(Bucket(Entries, l)),
         Complete(Entries, l)
  PROVE  LET list == Listed
             key == ConcatGroupKey(Entries[l])
             whole == {i \in DOMAIN list : IsWhole(list[i]) /\ ConcatGroupKey(list[i]) = key}
         IN \E i \in DOMAIN list : whole = {i} /\ list[i] = MergeConcatGroup(Entries, l)
<1> DEFINE s == Entries
           V == {Entry(i) : i \in DOMAIN stored}
           list == ReassembleMessages(s)
           slots == [p \in DOMAIN s |-> Slot(s, p)]
           W == Listable(s)
           key == ConcatGroupKey(s[l])
           e == MergeConcatGroup(s, l)
<1>1. s \in Seq(V) /\ Rising(s) /\ Typed(Glyphs, s)
  BY EntriesRise
<1> HIDE DEF V
<1>2. e.index = s[l].index /\ ConcatGroupKey(e) = key
  BY <1>1, MergedIndex, MergedKey
<1>3. e.seq = 0 /\ e.total = s[l].total /\ \E j \in Bucket(s, l) : e.concat = s[j].concat
  BY <1>1, MergedHas
<1>4. IsWhole(e)
  <2>1. PICK x \in DOMAIN stored : s[l] = Entry(x)
    BY EntriesAre
  <2>2. e.index = x /\ stored[x].seq = s[l].seq
    BY <1>2, <2>1, EntryOf
  <2>3. 0 < s[l].seq /\ s[l].seq <= s[l].total /\ s[l].seq \in Nat /\ s[l].total \in Nat
    BY <1>1 DEF Typed, Joins, IsConcatSegment
  <2>4. s[l].seq # 0 /\ s[l].total > 0
    BY <2>3
  <2>5. e.concat
    BY <1>3, BucketAgrees DEF IsConcatSegment
  <2> QED
    BY <1>3, <2>2, <2>4, <2>5 DEF IsWhole, IsReassembled
<1>5. DOMAIN slots = DOMAIN s /\ \A p \in DOMAIN s : slots[p] = Slot(s, p)
  OBVIOUS
<1>6. slots \in Seq(Seq(W)) /\ Len(slots) = Len(s)
  <2>1. \A p \in DOMAIN s : slots[p] \in Seq(W)
    BY <1>1, SlotHas
  <2>2. DOMAIN s = 1..Len(s) /\ Len(s) \in Nat
    BY <1>1
  <2> DEFINE D == Seq(W)
  <2>3. slots \in [1..Len(s) -> D]
    BY <2>1, <2>2
  <2> HIDE DEF slots, D
  <2>4. slots \in Seq(D) /\ Len(slots) = Len(s)
    BY <2>2, <2>3
  <2> QED
    BY <2>4 DEF D
<1>7. list = FlattenSeq(slots)
  BY DEF ReassembleMessages
<1> HIDE DEF slots, list, W, e, key
<1>8. list \in Seq(W) /\ Spreads(list, slots, Len(slots)) # {}
  BY <1>6, <1>7, FlattenSpreads
<1>9. PICK f : f \in Spreads(list, slots, Len(slots))
  BY <1>8
<1>10. /\ f \in [DOMAIN list -> Places(slots, Len(slots))]
       /\ \A i \in DOMAIN list : list[i] = slots[f[i][1]][f[i][2]]
       /\ \A x \in Places(slots, Len(slots)) : \E i \in DOMAIN list : f[i] = x
  BY <1>9 DEF Spreads
<1>11. Slot(s, l) = <<e>>
  BY DEF Slot, Group, e
<1>12. slots[l] = <<e>> /\ l \in 1..Len(slots)
  BY <1>1, <1>5, <1>6, <1>11
<1>13. <<l, 1>> \in Places(slots, Len(slots))
  <2>1. 1 \in DOMAIN slots[l]
    BY <1>12
  <2> QED
    BY <1>12, <2>1 DEF Places
<1>14. PICK i \in DOMAIN list : f[i] = <<l, 1>>
  BY <1>10, <1>13
<1>15. list[i] = e
  <2>1. f[i][1] = l /\ f[i][2] = 1 /\ slots[l][1] = e
    BY <1>12, <1>14
  <2> QED
    BY <1>10, <2>1
<1>16. ASSUME NEW k \in DOMAIN list, IsWhole(list[k]), ConcatGroupKey(list[k]) = key
       PROVE  k = i
  <2> DEFINE p == f[k][1]
             v == f[k][2]
  <2>1. f[k] = <<p, v>> /\ p \in DOMAIN s /\ v \in DOMAIN slots[p] /\ list[k] = slots[p][v]
    <3>1. f[k] \in Places(slots, Len(slots))
      BY <1>10
    <3>2. f[k] = <<p, v>> /\ p \in 1..Len(s) /\ v \in DOMAIN slots[p]
      BY <1>6, <3>1 DEF Places
    <3>3. p \in DOMAIN s
      BY <1>1, <3>2
    <3> QED
      BY <1>10, <3>2, <3>3
  <2> HIDE DEF p, v
  <2>2. v \in DOMAIN Slot(s, p) /\ list[k] = Slot(s, p)[v]
    BY <1>5, <2>1
  <2>3. ~\E j \in DOMAIN s : list[k] = s[j]
    BY <1>16, EntryNotWhole
  <2>4. /\ Joins(s, p) /\ p = Min(Bucket(s, p)) /\ Complete(s, p)
        /\ v = 1 /\ list[k] = MergeConcatGroup(s, p)
    <3>1. \/ \E j \in DOMAIN s : Slot(s, p)[v] = s[j]
          \/ /\ Joins(s, p) /\ p = Min(Bucket(s, p)) /\ Complete(s, p)
             /\ v = 1 /\ Slot(s, p)[v] = MergeConcatGroup(s, p)
      <4> HIDE DEF s
      <4> QED
        BY <1>1, <2>1, <2>2, SlotWhole
    <3> QED
      BY <2>2, <2>3, <3>1
  <2>5. ConcatGroupKey(s[p]) = ConcatGroupKey(s[l])
    <3>1. ConcatGroupKey(list[k]) = ConcatGroupKey(s[p])
      BY <1>1, <2>1, <2>4, MergedKey
    <3> QED
      BY <1>16, <3>1 DEF key
  <2>6. Bucket(s, p) = Bucket(s, l)
    BY <2>5 DEF Bucket, SameGroup
  <2>7. p = l
    BY <2>4, <2>6
  <2>8. f[k] = f[i]
    BY <1>14, <2>1, <2>4, <2>7
  <2>9. Len(slots) \in Nat
    BY <1>6
  <2> QED
    BY <1>8, <1>9, <2>8, <2>9, SpreadOnce
<1>17. {k \in DOMAIN list : IsWhole(list[k]) /\ ConcatGroupKey(list[k]) = key} = {i}
  BY <1>2, <1>4, <1>15, <1>16
<1> QED
  BY <1>15, <1>17 DEF Listed, list, key, e

\* No message needs as many parts as their numbers allow: at that total the
\* counter of the loop over the parts wraps and the group is never complete.
ShortMessages == \A m \in Messages : Len(EncodeSegments(m)) < MaxParts

(***************************************************************************)
(* When all the parts of a long message have arrived, in any order and     *)
(* some of them twice, and no part of another text has come with their     *)
(* sender, coding and numbers, its group is listed once as a whole, with   *)
(* the text as it was sent (encode_segments, reassemble_messages).         *)
(***************************************************************************)
THEOREM SetsJoined ==
  ASSUME ShortMessages
  PROVE  Spec => []CompleteSetsJoined
<1>1. ASSUME DeliveryInv PROVE CompleteSetsJoined
  <2> DEFINE list == Listed
  <2> SUFFICES ASSUME NEW m \in sent, Len(EncodeSegments(m)) > 1, PartsStored(m), Undisturbed(m)
               PROVE  LET key == ConcatGroupKey(EncodeSegments(m)[1])
                          whole == {i \in DOMAIN list : IsWhole(list[i]) /\ ConcatGroupKey(list[i]) = key}
                      IN \E i \in DOMAIN list : whole = {i} /\ SameText(list[i], m)
    BY DEF CompleteSetsJoined
  <2>1. m \in Messages
    BY <1>1 DEF DeliveryInv
  <2>2. Len(EncodeSegments(m)) < MaxParts
    BY <2>1 DEF ShortMessages
  <2>3. PICK l \in DOMAIN Entries :
          /\ Joins(Entries, l) /\ l = Min(Bucket(Entries, l)) /\ Complete(Entries, l)
          /\ ConcatGroupKey(Entries[l]) = ConcatGroupKey(EncodeSegments(m)[1])
    BY <1>1, <2>2, SetIsComplete
  <2>4. PICK p : p \in ToSet(EncodeSegments(m))
    <3>1. 1 \in DOMAIN EncodeSegments(m)
      BY <2>1, LongParts
    <3> QED
      BY <3>1 DEF ToSet
  <2>5. SameText(MergeConcatGroup(Entries, l), m)
    BY <1>1, <2>3, <2>4, GroupOfSent
  <2> HIDE DEF list
  <2>6. \E i \in DOMAIN list :
          /\ {k \in DOMAIN list : IsWhole(list[k]) /\ ConcatGroupKey(list[k]) = ConcatGroupKey(Entries[l])} = {i}
          /\ list[i] = MergeConcatGroup(Entries, l)
    BY <1>1, <2>3, GroupListed DEF list
  <2> QED
    BY <2>3, <2>5, <2>6
<1> QED
  BY DeliveryInit, DeliveryStep, <1>1, PTL DEF Spec
===========================================================================
