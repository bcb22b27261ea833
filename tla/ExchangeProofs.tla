-------------------------- MODULE ExchangeProofs --------------------------
(***************************************************************************)
(* Theorems about the exchanges of GsmModem: each call reads the answer to *)
(* its own command, segments are submitted in order, and success is what   *)
(* the modem granted.  They hold when an answer that comes at all comes    *)
(* within the deadline, the port is not closed under a call and its reads  *)
(* do not fail, for the calls that keep the mutex throughout.              *)
(***************************************************************************)
EXTENDS GsmModemProofs, FiniteSetTheorems

Promptly ==
  /\ Timely /\ MaxCloses = 0 /\ "read" \notin Faults
  /\ \A c \in Calls : c.op \notin SplitCalls

(***************************************************************************)
(* The inductive invariant.                                                *)
(***************************************************************************)
Prompting == {"prompt", "promptDemux"}
Waiting == {"wait", "demux"}
Awaiting == Prompting \union Waiting

\* Where a call can be, by its operation.
Placed(t) ==
  /\ call[t].op \notin SplitCalls
  /\ pc[t] \in Held => portOpen
  /\ pc[t] \in {"prompt", "promptDemux", "body"} => call[t].op = "send"
  /\ pc[t] \in {"write", "wait", "demux"} => call[t].op # "status"
  /\ pc[t] \in {"drain", "drainDemux", "again"} => call[t].op = "status"
  /\ pc[t] = "promptDemux" => ~late[t]
  /\ pc[t] # "idle" => result[t] = "none"
CallPlaces == \A t \in Threads : Placed(t)

\* Final results, prompts and information lines answer a command.
ReplyKinds == FinalResults \union {"gt", "text"}
NoReply(s) == \A i \in DOMAIN s : s[i].kind \notin ReplyKinds

\* At most one token of s answers a command: id, and by one of kinds.
OneReply(s, id, kinds) ==
  /\ \A i \in DOMAIN s : s[i].kind \in ReplyKinds => s[i].of = id /\ s[i].kind \in kinds
  /\ \A i, j \in DOMAIN s : s[i].kind \in ReplyKinds /\ s[j].kind \in ReplyKinds => i = j

\* The answers t may find: OK only for what the modem granted.
Expected(t) ==
  {"error", "cms"} \union {k \in {"gt"} : pc[t] \in Prompting}
                   \union {k \in {"ok"} : pc[t] \in Waiting /\ step[t] \in Earned(t)}

\* The input t waits for an answer to.
Due(t) == IF pc[t] \in Prompting THEN "cmgs" ELSE IF call[t].op = "send" THEN "pdu" ELSE "line"

\* What the call that waits will find: the answer to its last input, or none
\* when that has not been handled yet.
Attuned(t) ==
  /\ OneReply(Ahead, cmd[t], Expected(t))
  /\ late[t] => NoReply(rx)
  /\ tx # <<>> => /\ ~late[t] /\ NoReply(Ahead)
                  /\ tx = <<InputOf(t, Due(t), cmd[t])>>
                  /\ step[t] \notin Earned(t)

\* The modem owes nothing but to the call that waits.
ReplyInv ==
  /\ \A t \in Threads : pc[t] \in Awaiting => Attuned(t)
  /\ (\A t \in Threads : pc[t] \notin Awaiting) => tx = <<>> /\ NoReply(Ahead)

\* The exchanges of a call granted before the one under way.
Base(t) ==
  IF call[t].op \in {"open", "init"} /\ step[t] > InitCommands THEN 1..InitCommands
                                                               ELSE 1..(step[t] - 1)
LastStep(t) ==
  IF call[t].op = "send" THEN call[t].n
  ELSE IF call[t].op \in {"open", "init"} THEN InitSteps ELSE 1

Accounted(t) ==
  /\ pc[t] # "idle" => /\ step[t] >= 1 /\ made[t] >= 1
                       /\ Earned(t) = Base(t) \/ Earned(t) = Base(t) \union {step[t]}
  /\ pc[t] \notin {"idle"} \union Waiting => Earned(t) = Base(t)
  /\ pc[t] = "lock" => step[t] = 1
  /\ pc[t] \in Held => step[t] <= LastStep(t) /\ (Mine(t) # {} => Len(granted) \in Mine(t))
  /\ call[t].op = "send" => \A i, j \in Mine(t) : j - i = granted[j].seg - granted[i].seg

\* The exchanges c must be granted to return OK.
Suffices(earned, c) ==
  /\ c.op = "send" => earned = 1..c.n
  /\ c.op = "at" => earned = {1}
  /\ c.op \in {"open", "init"} =>
       \E last \in earned : earned \in {1..InitCommands, 1..InitCommands \union {last}}
Deserved(t) == result[t] = "Ok" => Suffices(Earned(t), call[t])

GrantInv ==
  /\ \A i \in DOMAIN granted : granted[i].nth <= made[granted[i].by]
  /\ \A t \in Threads : Accounted(t) /\ Deserved(t)

\* An OK stands on a line of its own.
OkFramed(s) ==
  \A i \in DOMAIN s : s[i].kind = "ok" =>
    /\ i > 1 /\ s[i - 1].kind = "nl"
    /\ i < Len(s) /\ s[i + 1].kind = "nl"

\* What the modem granted it said, except that the result of a PDU may be lost;
\* the line end after it has been read when the deadline passes.
OkInv ==
  /\ WholeUrcs(Ahead) /\ OkFramed(Ahead)
  /\ \A t \in Threads : pc[t] \in Waiting =>
       /\ call[t].op # "send" /\ step[t] \in Earned(t) => Holds(Ahead, "ok")
       /\ late[t] => \A i \in DOMAIN Ahead : Ahead[i].kind = "ok" => i < Len(buf[t])

AnswerInv ==
  /\ ExchangeInv /\ BuffersOutside /\ CallPlaces
  /\ ReplyInv /\ GrantInv /\ OkInv

-----------------------------------------------------------------------------
(***************************************************************************)
(* The replies in a text that is cut, demultiplexed or appended to.        *)
(***************************************************************************)
\* short is made of tokens of s, in the same order.
Thins(short, s) ==
  \E f \in [DOMAIN short -> DOMAIN s] :
    /\ \A i, j \in DOMAIN short : i # j => f[i] # f[j]
    /\ \A i \in DOMAIN short : short[i] = s[f[i]]

LEMMA ThinReplies ==
  ASSUME NEW s, NEW short, Thins(short, s)
  PROVE  /\ NoReply(s) => NoReply(short)
         /\ \A id, kinds : OneReply(s, id, kinds) => OneReply(short, id, kinds)
<1>1. PICK f \in [DOMAIN short -> DOMAIN s] :
        /\ \A i, j \in DOMAIN short : i # j => f[i] # f[j]
        /\ \A i \in DOMAIN short : short[i] = s[f[i]]
  BY DEF Thins
<1>2. \A i \in DOMAIN short : f[i] \in DOMAIN s
  OBVIOUS
<1>3. NoReply(s) => NoReply(short)
  BY <1>1, <1>2 DEF NoReply
<1>4. \A id, kinds : OneReply(s, id, kinds) => OneReply(short, id, kinds)
  BY <1>1, <1>2 DEF OneReply
<1> QED
  BY <1>3, <1>4

LEMMA DropThins ==
  ASSUME NEW a \in Seq(Tokens), NEW b \in Seq(Tokens)
  PROVE  Thins(b, a \o b)
<1> DEFINE s == a \o b
           f == [i \in DOMAIN b |-> Len(a) + i]
<1>1. /\ Len(s) = Len(a) + Len(b) /\ Len(a) \in Nat /\ Len(b) \in Nat
      /\ DOMAIN s = 1..Len(s) /\ DOMAIN b = 1..Len(b)
      /\ \A i \in 1..Len(b) : s[Len(a) + i] = b[i]
  BY ConcatProperties
<1>2. f \in [DOMAIN b -> DOMAIN s]
  BY <1>1
<1>3. /\ \A i, j \in DOMAIN b : i # j => f[i] # f[j]
      /\ \A i \in DOMAIN b : b[i] = s[f[i]]
  BY <1>1
<1> HIDE DEF s, f
<1>4. Thins(b, s)
  BY <1>2, <1>3 DEF Thins
<1> QED
  BY <1>4 DEF s

LEMMA EraseThins ==
  ASSUME NEW b \in Seq(Tokens), NEW r \in Seq(Tokens), CanErase(b)
  PROVE  Thins(EraseFirst(b) \o r, b \o r)
<1> DEFINE s == b \o r
           t == EraseFirst(b) \o r
           i == FirstUrc(b)
           e == UrcEnd(b, i)
           d == e + 1 - i
           f == [k \in DOMAIN t |-> IF k < i THEN k ELSE k + d]
<1>1. /\ s \in Seq(Tokens) /\ i \in 1..Len(b) /\ e \in (i + 1)..Len(b)
      /\ Len(b) <= Len(s)
  BY ErasedPlace
<1>2. t \in Seq(Tokens) /\ Spliced(t, s, i, d)
  BY ErasedText
<1> HIDE DEF s, t, i, e
<1>3. /\ Len(t) = Len(s) - d /\ DOMAIN t = 1..Len(t) /\ DOMAIN s = 1..Len(s)
      /\ \A k \in 1..Len(t) : t[k] = IF k < i THEN s[k] ELSE s[k + d]
  BY <1>1, <1>2 DEF Spliced
<1>4. Len(t) \in Nat /\ Len(s) \in Nat /\ i \in Nat /\ d \in Nat /\ d >= 1
  BY <1>1, <1>2
<1> HIDE DEF d
<1>5. f \in [DOMAIN t -> DOMAIN s]
  BY <1>3, <1>4
<1>6. /\ \A j, k \in DOMAIN t : j # k => f[j] # f[k]
      /\ \A k \in DOMAIN t : t[k] = s[f[k]]
  BY <1>3, <1>4
<1> HIDE DEF f
<1>7. Thins(t, s)
  BY <1>5, <1>6 DEF Thins
<1> QED
  BY <1>7 DEF s, t

\* In a text of two parts, a reply in the first is the only one.
LEMMA ReplyInFirst ==
  ASSUME NEW a \in Seq(Tokens), NEW b \in Seq(Tokens), NEW id, NEW kinds,
         OneReply(a \o b, id, kinds)
  PROVE  /\ \A i \in DOMAIN a : a[i].kind \in ReplyKinds => a[i].of = id /\ a[i].kind \in kinds
         /\ (\E i \in DOMAIN a : a[i].kind \in ReplyKinds) => NoReply(b)
<1> DEFINE s == a \o b
<1>1. /\ Len(s) = Len(a) + Len(b) /\ Len(a) \in Nat /\ Len(b) \in Nat
      /\ DOMAIN s = 1..Len(s) /\ DOMAIN a = 1..Len(a) /\ DOMAIN b = 1..Len(b)
      /\ \A i \in 1..Len(a) : s[i] = a[i]
      /\ \A i \in 1..Len(b) : s[Len(a) + i] = b[i]
  BY ConcatProperties
<1>2. OneReply(s, id, kinds)
  OBVIOUS
<1> HIDE DEF s
<1>3. \A i \in DOMAIN a : i \in DOMAIN s /\ s[i] = a[i]
  BY <1>1
<1>4. \A i \in DOMAIN b : Len(a) + i \in DOMAIN s /\ s[Len(a) + i] = b[i]
  BY <1>1
<1>5. \A i \in DOMAIN a, j \in DOMAIN b : i # Len(a) + j
  BY <1>1
<1>6. \A i \in DOMAIN a : a[i].kind \in ReplyKinds => a[i].of = id /\ a[i].kind \in kinds
  BY <1>2, <1>3 DEF OneReply
<1>7. ASSUME NEW i \in DOMAIN a, a[i].kind \in ReplyKinds
      PROVE  NoReply(b)
  BY <1>2, <1>3, <1>4, <1>5, <1>7 DEF OneReply, NoReply
<1> QED
  BY <1>6, <1>7

LEMMA NoReplyInParts ==
  ASSUME NEW a \in Seq(Tokens), NEW b \in Seq(Tokens), NoReply(a \o b)
  PROVE  NoReply(a) /\ NoReply(b)
<1> DEFINE s == a \o b
<1>1. /\ DOMAIN a = 1..Len(a) /\ Len(s) = Len(a) + Len(b)
      /\ DOMAIN s = 1..Len(s) /\ Len(a) \in Nat /\ Len(b) \in Nat
      /\ \A i \in 1..Len(a) : s[i] = a[i]
  BY ConcatProperties
<1>2. NoReply(s)
  OBVIOUS
<1>3. NoReply(b)
  BY DropThins, ThinReplies
<1> HIDE DEF s
<1>4. \A i \in DOMAIN a : i \in DOMAIN s /\ s[i] = a[i]
  BY <1>1
<1> QED
  BY <1>2, <1>3, <1>4 DEF NoReply

\* A text that had no reply, and a message with one; a text with one, and a
\* message without.
LEMMA AppendReply ==
  ASSUME NEW s \in Seq(Tokens), NEW msg \in Seq(Tokens), NEW id, NEW kinds,
         \/ NoReply(s) /\ OneReply(msg, id, kinds)
         \/ OneReply(s, id, kinds) /\ NoReply(msg)
  PROVE  OneReply(s \o msg, id, kinds)
<1> DEFINE t == s \o msg
<1>1. /\ Len(t) = Len(s) + Len(msg) /\ Len(s) \in Nat /\ Len(msg) \in Nat
      /\ DOMAIN t = 1..Len(t) /\ DOMAIN s = 1..Len(s) /\ DOMAIN msg = 1..Len(msg)
      /\ \A i \in 1..Len(s) : t[i] = s[i]
      /\ \A i \in 1..(Len(s) + Len(msg)) : i > Len(s) =>
           i - Len(s) \in 1..Len(msg) /\ t[i] = msg[i - Len(s)]
  BY ConcatElements
<1> HIDE DEF t
<1>2. \A i \in DOMAIN t : \/ i \in DOMAIN s /\ t[i] = s[i]
                          \/ i \notin DOMAIN s /\ i - Len(s) \in DOMAIN msg
                               /\ t[i] = msg[i - Len(s)] /\ i \in Int
  BY <1>1
<1>3. \A i, j \in Int : i - Len(s) = j - Len(s) => i = j
  BY <1>1
<1>4. CASE NoReply(s) /\ OneReply(msg, id, kinds)
  <2>1. \A i \in DOMAIN t : t[i].kind \in ReplyKinds =>
          i - Len(s) \in DOMAIN msg /\ t[i] = msg[i - Len(s)] /\ i \in Int
    BY <1>2, <1>4 DEF NoReply
  <2>2. OneReply(t, id, kinds)
    BY <1>3, <1>4, <2>1 DEF OneReply
  <2> QED
    BY <2>2 DEF t
<1>5. CASE OneReply(s, id, kinds) /\ NoReply(msg)
  <2>1. \A i \in DOMAIN t : t[i].kind \in ReplyKinds => i \in DOMAIN s /\ t[i] = s[i]
    BY <1>2, <1>5 DEF NoReply
  <2>2. OneReply(t, id, kinds)
    BY <1>5, <2>1 DEF OneReply
  <2> QED
    BY <2>2 DEF t
<1> QED
  BY <1>4, <1>5

LEMMA NoReplyIsOne == \A s, id, kinds : NoReply(s) => OneReply(s, id, kinds)
BY DEF NoReply, OneReply

LEMMA MoreKinds ==
  \A s, id, few, more : OneReply(s, id, few) /\ few \subseteq more => OneReply(s, id, more)
BY DEF OneReply

\* Only a final result ends a wait, and only OK is success.
LEMMA ResultIsReply ==
  ASSUME NEW s
  PROVE  /\ ClassifyResponse(s) = "Ok" => Holds(s, "ok")
         /\ ClassifyResponse(s) # "Wait" => \E i \in DOMAIN s : s[i].kind \in FinalResults
         /\ ClassifyResponse(s) \in {"Ok", "Error", "Wait"}
BY DEF ClassifyResponse, Framed, Holds, FinalResults

\* The demux loop takes no OK, nor the line ends around one.
LEMMA EraseOk ==
  ASSUME NEW b \in Seq(Tokens), NEW r \in Seq(Tokens), CanErase(b),
         WholeUrcs(b \o r), OkFramed(b \o r)
  PROVE  /\ OkFramed(EraseFirst(b) \o r)
         /\ Holds(b \o r, "ok") => Holds(EraseFirst(b) \o r, "ok")
         /\ (\A i \in DOMAIN (b \o r) : (b \o r)[i].kind = "ok" => i < Len(b)) =>
              \A i \in DOMAIN (EraseFirst(b) \o r) :
                (EraseFirst(b) \o r)[i].kind = "ok" => i < Len(EraseFirst(b))
<1> DEFINE s == b \o r
           x == EraseFirst(b)
           t == x \o r
           i == FirstUrc(b)
           e == UrcEnd(b, i)
           d == e + 1 - i
<1>1. /\ s \in Seq(Tokens) /\ i \in 1..Len(b) /\ e \in (i + 1)..Len(b)
      /\ Len(b) <= Len(s) /\ s[i].kind \in TagKinds
  BY ErasedPlace
<1>2. t \in Seq(Tokens) /\ Spliced(t, s, i, d)
  BY ErasedText
<1>3. \A p \in i..e : s[p].kind \in TagKinds \union {"num", "alpha", "pdu", "nl"}
  BY ErasedIsUrc
<1>4. \/ OneLine(s, i) /\ e = i + 2
      \/ TwoLines(s, i) /\ e = i + 4
  BY ErasedUrc
<1>5. /\ Len(s) = Len(b) + Len(r) /\ Len(t) = Len(x) + Len(r)
      /\ Len(x) \in Nat /\ Len(r) \in Nat /\ Len(b) \in Nat
  BY EraseFirstShorter, ConcatProperties
<1>6. OkFramed(s)
  OBVIOUS
<1> HIDE DEF s, t, i, e, x
<1>7. /\ Len(t) = Len(s) - d /\ DOMAIN t = 1..Len(t) /\ DOMAIN s = 1..Len(s)
      /\ \A k \in 1..Len(t) : t[k] = IF k < i THEN s[k] ELSE s[k + d]
  BY <1>1, <1>2 DEF Spliced
<1>8. /\ Len(t) \in Nat /\ Len(s) \in Nat /\ i \in Nat /\ d \in Nat /\ d >= 1 /\ i >= 1
      /\ e \in Nat /\ e = i + d - 1 /\ e <= Len(b) /\ Len(b) \in Nat /\ Len(x) = Len(b) - d
  <2>1. i \in Nat /\ i >= 1 /\ e \in Nat /\ e >= i + 1 /\ e <= Len(b)
    BY <1>1, <1>5
  <2>2. Len(t) = Len(s) - d /\ d = e + 1 - i /\ Len(t) \in Nat /\ Len(s) \in Nat
    BY <1>1, <1>2, <1>7
  <2> QED
    BY <1>5, <2>1, <2>2
<1> HIDE DEF d
<1>9. ASSUME NEW p \in 1..Len(s), s[p].kind = "ok"
      PROVE  /\ p \in Nat /\ p > 1 /\ p < Len(s) /\ s[p - 1].kind = "nl" /\ s[p + 1].kind = "nl"
             /\ p + 1 < i \/ p - 1 > e
  <2>1. p > 1 /\ p < Len(s) /\ s[p - 1].kind = "nl" /\ s[p + 1].kind = "nl"
    BY <1>6, <1>7, <1>9 DEF OkFramed
  <2>2. p \in Nat /\ p \notin i..e
    BY <1>3, <1>9 DEF TagKinds
  <2>3. p + 1 # i
    BY <1>1, <2>1 DEF TagKinds
  <2>4. p - 1 # e
    <3> SUFFICES ASSUME p = e + 1 PROVE FALSE
      BY <1>8, <2>2
    <3>1. \/ p = i + 3 /\ OneLine(s, i)
          \/ p = i + 5 /\ TwoLines(s, i)
      BY <1>4, <1>8
    <3>2. p <= Len(s)
      BY <1>8
    <3> QED
      BY <1>9, <3>1, <3>2 DEF OneLine, TwoLines
  <2>5. p < i \/ p > e
    BY <1>8, <2>2
  <2> QED
    BY <1>8, <2>1, <2>2, <2>3, <2>4, <2>5
<1>10. ASSUME NEW k \in 1..Len(t), t[k].kind = "ok"
       PROVE  /\ k > 1 /\ t[k - 1].kind = "nl"
              /\ k < Len(t) /\ t[k + 1].kind = "nl"
              /\ \E p \in DOMAIN s : s[p].kind = "ok" /\ (p < Len(b) => k < Len(x))
  <2>1. CASE k < i
    <3>1. k \in 1..Len(s) /\ t[k] = s[k] /\ k \in Nat
      BY <1>1, <1>7, <1>8, <2>1
    <3>2. k > 1 /\ s[k - 1].kind = "nl" /\ s[k + 1].kind = "nl" /\ k + 1 < i
      BY <1>8, <1>9, <1>10, <2>1, <3>1
    <3>3. k - 1 \in 1..Len(t) /\ k + 1 \in 1..Len(t) /\ k - 1 < i /\ k < Len(t)
      BY <1>1, <1>7, <1>8, <3>1, <3>2
    <3>4. t[k - 1] = s[k - 1] /\ t[k + 1] = s[k + 1]
      BY <1>7, <3>2, <3>3
    <3>5. k < Len(x)
      BY <1>1, <1>8, <3>1, <3>2
    <3> QED
      BY <1>7, <1>10, <3>1, <3>2, <3>3, <3>4, <3>5
  <2>2. CASE k >= i
    <3> DEFINE p == k + d
    <3>1. p \in 1..Len(s) /\ t[k] = s[p] /\ k \in Nat /\ ~(k < i)
      BY <1>7, <1>8, <2>2
    <3>2. s[p - 1].kind = "nl" /\ s[p + 1].kind = "nl" /\ p < Len(s) /\ p - 1 > e
      BY <1>8, <1>9, <1>10, <2>2, <3>1
    <3>3. /\ k - 1 \in 1..Len(t) /\ k + 1 \in 1..Len(t) /\ ~(k - 1 < i) /\ ~(k + 1 < i)
          /\ k < Len(t) /\ k > 1 /\ (k - 1) + d = p - 1 /\ (k + 1) + d = p + 1
      BY <1>7, <1>8, <2>2, <3>1, <3>2
    <3>4. t[k - 1] = s[p - 1] /\ t[k + 1] = s[p + 1]
      BY <1>7, <3>3
    <3>5. p < Len(b) => k < Len(x)
      BY <1>8, <3>1
    <3> QED
      BY <1>7, <1>10, <3>1, <3>2, <3>3, <3>4, <3>5
  <2> QED
    BY <1>8, <2>1, <2>2
<1>11. OkFramed(t)
  BY <1>7, <1>10 DEF OkFramed
<1>12. ASSUME Holds(s, "ok") PROVE Holds(t, "ok")
  <2>1. PICK p \in 1..Len(s) : s[p].kind = "ok"
    BY <1>7, <1>12 DEF Holds
  <2>2. p \in Nat /\ (p + 1 < i \/ p - 1 > e)
    BY <1>9, <2>1
  <2>3. CASE p + 1 < i
    <3>1. p \in 1..Len(t) /\ p < i
      BY <1>1, <1>7, <1>8, <2>1, <2>2, <2>3
    <3> QED
      BY <1>7, <2>1, <3>1 DEF Holds
  <2>4. CASE p - 1 > e
    <3>1. p - d \in 1..Len(t) /\ ~(p - d < i) /\ (p - d) + d = p
      BY <1>7, <1>8, <2>1, <2>2, <2>4
    <3> QED
      BY <1>7, <2>1, <3>1 DEF Holds
  <2> QED
    BY <2>2, <2>3, <2>4
<1>13. ASSUME \A p \in DOMAIN s : s[p].kind = "ok" => p < Len(b)
       PROVE  \A k \in DOMAIN t : t[k].kind = "ok" => k < Len(x)
  BY <1>7, <1>10, <1>13
<1> QED
  BY <1>11, <1>12, <1>13 DEF s, t, x

LEMMA AppendOk ==
  ASSUME NEW s \in Seq(Tokens), NEW msg \in Seq(Tokens), OkFramed(s), OkFramed(msg)
  PROVE  /\ OkFramed(s \o msg)
         /\ Holds(s, "ok") \/ Holds(msg, "ok") => Holds(s \o msg, "ok")
         /\ NoReply(msg) =>
              \A i \in DOMAIN (s \o msg) : (s \o msg)[i].kind = "ok" =>
                i \in DOMAIN s /\ s[i].kind = "ok"
<1> DEFINE t == s \o msg
           n == Len(s)
<1>1. /\ Len(t) = n + Len(msg) /\ n \in Nat /\ Len(msg) \in Nat
      /\ DOMAIN t = 1..Len(t) /\ DOMAIN s = 1..n /\ DOMAIN msg = 1..Len(msg)
      /\ \A i \in 1..n : t[i] = s[i]
      /\ \A i \in 1..Len(msg) : t[n + i] = msg[i]
      /\ \A i \in 1..(n + Len(msg)) : i > n => i - n \in 1..Len(msg) /\ t[i] = msg[i - n]
  BY ConcatElements
<1> HIDE DEF t
<1>2. ASSUME NEW i \in DOMAIN t, t[i].kind = "ok"
      PROVE  /\ i > 1 /\ t[i - 1].kind = "nl"
             /\ i < Len(t) /\ t[i + 1].kind = "nl"
  <2>1. CASE i <= n
    <3>1. i \in 1..n /\ t[i] = s[i]
      BY <1>1, <2>1
    <3>2. i > 1 /\ s[i - 1].kind = "nl" /\ i < n /\ s[i + 1].kind = "nl"
      BY <1>1, <1>2, <3>1 DEF OkFramed
    <3>3. i - 1 \in 1..n /\ i + 1 \in 1..n /\ i < Len(t)
      BY <1>1, <3>1, <3>2
    <3> QED
      BY <1>1, <3>2, <3>3
  <2>2. CASE i > n
    <3> DEFINE m == i - n
    <3>1. m \in 1..Len(msg) /\ t[i] = msg[m] /\ i = n + m
      BY <1>1, <2>2
    <3> HIDE DEF m
    <3>2. m > 1 /\ msg[m - 1].kind = "nl" /\ m < Len(msg) /\ msg[m + 1].kind = "nl"
      BY <1>1, <1>2, <3>1 DEF OkFramed
    <3>3. /\ m - 1 \in 1..Len(msg) /\ m + 1 \in 1..Len(msg) /\ i < Len(t) /\ i > 1
          /\ i - 1 = n + (m - 1) /\ i + 1 = n + (m + 1)
      BY <1>1, <3>1, <3>2
    <3>4. t[i - 1] = msg[m - 1] /\ t[i + 1] = msg[m + 1]
      BY <1>1, <3>3
    <3> QED
      BY <3>2, <3>3, <3>4
  <2> QED
    BY <1>1, <2>1, <2>2
<1>3. OkFramed(t)
  BY <1>2 DEF OkFramed
<1>4. ASSUME Holds(s, "ok") \/ Holds(msg, "ok") PROVE Holds(t, "ok")
  <2>1. CASE Holds(s, "ok")
    <3>1. PICK i \in 1..n : s[i].kind = "ok"
      BY <1>1, <2>1 DEF Holds
    <3>2. i \in DOMAIN t /\ t[i] = s[i]
      BY <1>1
    <3> QED
      BY <3>1, <3>2 DEF Holds
  <2>2. CASE Holds(msg, "ok")
    <3>1. PICK i \in 1..Len(msg) : msg[i].kind = "ok"
      BY <1>1, <2>2 DEF Holds
    <3>2. n + i \in DOMAIN t /\ t[n + i] = msg[i]
      BY <1>1
    <3> QED
      BY <3>1, <3>2 DEF Holds
  <2> QED
    BY <1>4, <2>1, <2>2
<1>5. ASSUME NoReply(msg), NEW i \in DOMAIN t, t[i].kind = "ok"
      PROVE  i \in DOMAIN s /\ s[i].kind = "ok"
  <2>1. ~(i > n)
    <3> SUFFICES ASSUME i > n PROVE FALSE
      OBVIOUS
    <3>1. i - n \in DOMAIN msg /\ t[i] = msg[i - n]
      BY <1>1
    <3> QED
      BY <1>5, <3>1 DEF NoReply, ReplyKinds, FinalResults
  <2>2. i \in 1..n
    BY <1>1, <2>1
  <2> QED
    BY <1>1, <1>5, <2>2
<1> QED
  BY <1>3, <1>4, <1>5 DEF t

-----------------------------------------------------------------------------
(***************************************************************************)
(* Which thread a step concerns.                                           *)
(***************************************************************************)
Move(t) == ThreadSteps(t) \/ EraseUrc(t)

\* The rest of the program stays as it is.
LEMMA OthersStay ==
  ASSUME TypeOK, NEW t \in Threads, Move(t), NEW u \in Threads \ {t}
  PROVE  /\ pc'[u] = pc[u] /\ call'[u] = call[u] /\ step'[u] = step[u] /\ cmd'[u] = cmd[u]
         /\ buf'[u] = buf[u] /\ late'[u] = late[u] /\ result'[u] = result[u]
         /\ made'[u] = made[u]
<1> USE DEF TypeOK, Goto, SetBuf, callVars, Read
<1>1. CASE Start(t) \/ Refuse(t) \/ OpenFails(t) \/ Enter(t)
  BY <1>1 DEF Start, Refuse, OpenFails, Enter, Return
<1>2. CASE WriteCommand(t) \/ WriteCommandFails(t) \/ WaitAfterRequest(t)
  BY <1>2 DEF WriteCommand, WriteCommandFails, WaitAfterRequest, Conclude, Return
<1>3. CASE Poll(t) \/ PollAgain(t) \/ EndOfWait(t) \/ EraseUrc(t) \/ Expire(t)
  BY <1>3 DEF Poll, PollAgain, EndOfWait, EraseUrc, Expire, Conclude, Return
<1>4. CASE ReadPrompt(t) \/ ReadPromptFails(t) \/ PromptRead(t) \/ NoPrompt(t)
  BY <1>4 DEF ReadPrompt, ReadPromptFails, PromptRead, NoPrompt, Conclude, Return
<1>5. CASE WritePdu(t) \/ WritePduFails(t)
  BY <1>5 DEF WritePdu, WritePduFails, Conclude, Return
<1>6. CASE TakeQueued(t) \/ FirstDrain(t) \/ Drain(t)
  BY <1>6 DEF TakeQueued, FirstDrain, Drain, TakeReport, Return
<1>7. CASE TakeDrained(t) \/ DrainAgain(t) \/ NoReport(t)
  BY <1>7 DEF TakeDrained, DrainAgain, NoReport, TakeReport, Return
<1> QED
  BY <1>1, <1>2, <1>3, <1>4, <1>5, <1>6, <1>7 DEF Move, ThreadSteps

\* While another thread is inside, a thread can only begin a call.
LEMMA OnlyStart ==
  ASSUME ExchangeInv, NEW t \in Threads, Move(t),
         NEW u \in Threads \ {t}, pc[u] \in Held
  PROVE  Start(t)
<1>1. owner = u /\ owner # NoThread /\ pc[t] \notin Held
  BY ThreadAssumption DEF ExchangeInv, OnlyHolderInside
<1>2. pc[t] \in {"idle", "lock", "parted"}
  BY <1>1 DEF Held, ExchangeInv, TypeOK
<1> QED
  BY <1>1, <1>2 DEF Move, ThreadSteps, Refuse, OpenFails, Enter, WriteCommand,
     WriteCommandFails, WaitAfterRequest, Poll, PollAgain, EndOfWait, EraseUrc, Expire,
     ReadPrompt, ReadPromptFails, PromptRead, NoPrompt, WritePdu, WritePduFails,
     TakeQueued, FirstDrain, Drain, TakeDrained, DrainAgain, NoReport, Status, Free

\* Reads do not fail under a call, and the port is not closed.
LEMMA Connected ==
  ASSUME Promptly, ExchangeInv, CallPlaces
  PROVE  /\ ~ClosePort
         /\ \A t \in Threads : pc[t] \in Held => portOpen /\ ~ReadFails
<1>1. closes \in Nat
  BY DEF ExchangeInv, TypeOK
<1> QED
  BY <1>1 DEF Promptly, ClosePort, ReadFails, CallPlaces, Placed

-----------------------------------------------------------------------------
(***************************************************************************)
(* Where a call can be.                                                    *)
(***************************************************************************)
LEMMA ConcludePlaces ==
  ASSUME TypeOK, NEW t \in Threads, NEW code, Conclude(t, code),
         call[t].op # "status", result[t] = "none"
  PROVE  pc'[t] = "idle" \/ (pc'[t] = "write" /\ result'[t] = "none")
BY DEF Conclude, Return, Goto, TypeOK

LEMMA PlacedMove ==
  ASSUME Promptly, ExchangeInv, CallPlaces, NEW t \in Threads, Move(t)
  PROVE  Placed(t)'
<1>1. TypeOK
  BY DEF ExchangeInv
<1>2. /\ {"write", "drain", "prompt", "promptDemux", "body", "wait", "demux",
          "drainDemux", "again"} \subseteq Held
      /\ "idle" \notin Held /\ "lock" \notin Held
  BY DEF Held, Places
<1>3. /\ call[t].op \notin SplitCalls /\ call[t].op \in Ops /\ call[t].n \in Nat
      /\ pc[t] \in Held => portOpen
      /\ pc[t] \in {"prompt", "promptDemux", "body"} => call[t].op = "send"
      /\ pc[t] \in {"write", "wait", "demux"} => call[t].op # "status"
      /\ pc[t] \in {"drain", "drainDemux", "again"} => call[t].op = "status"
      /\ pc[t] = "promptDemux" => ~late[t]
      /\ pc[t] # "idle" => result[t] = "none"
  BY <1>1 DEF CallPlaces, Placed, TypeOK
<1>4. CASE Start(t)
  <2>1. pc'[t] = "lock" /\ result'[t] = "none" /\ \E c \in Calls : call'[t] = c
    BY <1>1, <1>4 DEF Start, Goto, TypeOK
  <2> QED
    BY <1>2, <1>4, <2>1 DEF Promptly, Placed
<1>5. CASE Refuse(t) \/ OpenFails(t) \/ TakeQueued(t) \/ TakeDrained(t) \/ NoReport(t)
  <2>1. pc'[t] = "idle" /\ call' = call
    BY <1>1, <1>5 DEF Refuse, OpenFails, TakeQueued, TakeDrained, NoReport, TakeReport,
                      Return, Goto, TypeOK, callVars
  <2> QED
    BY <1>2, <1>3, <2>1 DEF Placed
<1>6. CASE Enter(t) \/ FirstDrain(t)
  <2>1. /\ pc[t] = "lock" /\ Refusal(t) = "none" /\ call' = call /\ result' = result
        /\ call[t].op # "status" => pc'[t] = "write" /\ portOpen' = (portOpen \/ call[t].op = "open")
        /\ call[t].op = "status" => pc'[t] = "drain" /\ portOpen' = portOpen
    BY <1>1, <1>6 DEF Enter, FirstDrain, Status, Free, Goto, TypeOK, callVars
  <2>2. portOpen \/ call[t].op = "open"
    BY <1>3, <2>1 DEF Refusal, Ops, SplitCalls
  <2>3. portOpen' = TRUE
    BY <1>1, <2>1, <2>2 DEF TypeOK
  <2>4. CASE call[t].op = "status"
    BY <1>2, <1>3, <2>1, <2>3, <2>4 DEF Placed
  <2>5. CASE call[t].op # "status"
    BY <1>2, <1>3, <2>1, <2>3, <2>5 DEF Placed
  <2> QED
    BY <2>4, <2>5
<1>7. CASE WriteCommand(t)
  <2>1. /\ pc[t] = "write" /\ UNCHANGED <<call, portOpen, result>>
        /\ call[t].op = "send" => pc'[t] = "prompt"
        /\ call[t].op # "send" => pc'[t] = "wait"
    BY <1>1, <1>3, <1>7 DEF WriteCommand, AfterCommand, Goto, TypeOK, callVars
  <2> QED
    BY <1>2, <1>3, <2>1 DEF Placed
<1>8. CASE \/ WriteCommandFails(t) \/ EndOfWait(t) \/ ReadPromptFails(t)
           \/ NoPrompt(t) \/ WritePduFails(t)
  <2>1. /\ pc[t] \in {"write", "demux", "prompt", "promptDemux", "body"}
        /\ UNCHANGED <<call, portOpen>> /\ \E code : Conclude(t, code)
    BY <1>8 DEF WriteCommandFails, EndOfWait, ReadPromptFails, NoPrompt, WritePduFails, callVars
  <2>2. call[t].op # "status" /\ result[t] = "none"
    BY <1>3, <2>1
  <2>3. pc'[t] = "idle" \/ (pc'[t] = "write" /\ result'[t] = "none")
    BY <1>1, <2>1, <2>2, ConcludePlaces
  <2> QED
    BY <1>2, <1>3, <2>1, <2>2, <2>3 DEF Placed
<1>9. CASE Poll(t) \/ PollAgain(t)
  <2>1. /\ pc[t] \in {"wait", "demux"} /\ pc'[t] \in {"wait", "demux"}
        /\ UNCHANGED <<call, portOpen, result>>
    BY <1>1, <1>9 DEF Poll, PollAgain, Goto, TypeOK, callVars
  <2> QED
    BY <1>2, <1>3, <2>1 DEF Placed
<1>10. CASE ReadPrompt(t) \/ PromptRead(t)
  <2>1. /\ pc[t] \in {"prompt", "promptDemux"}
        /\ pc'[t] \in {"prompt", "promptDemux", "body"} /\ (pc'[t] = "promptDemux" => ~late[t])
        /\ UNCHANGED <<call, portOpen, result, late>>
    BY <1>1, <1>10 DEF ReadPrompt, PromptRead, Goto, TypeOK, callVars
  <2> QED
    BY <1>2, <1>3, <2>1 DEF Placed
<1>11. CASE WritePdu(t)
  <2>1. pc[t] = "body" /\ pc'[t] = "wait" /\ UNCHANGED <<call, portOpen, result>>
    BY <1>1, <1>11 DEF WritePdu, Goto, TypeOK, callVars
  <2> QED
    BY <1>2, <1>3, <2>1 DEF Placed
<1>12. CASE Drain(t) \/ DrainAgain(t)
  <2>1. /\ pc[t] \in {"drain", "drainDemux", "again"}
        /\ pc'[t] \in {"drainDemux", "again"} /\ UNCHANGED <<call, portOpen, result>>
    BY <1>1, <1>12 DEF Drain, DrainAgain, Goto, TypeOK, callVars
  <2> QED
    BY <1>2, <1>3, <2>1 DEF Placed
<1>13. CASE Expire(t) \/ EraseUrc(t)
  <2>1. /\ UNCHANGED <<pc, call, portOpen, result>>
        /\ pc[t] = "promptDemux" => late' = late
    BY <1>13 DEF Expire, EraseUrc, callVars
  <2> QED
    BY <1>3, <2>1 DEF Placed
<1>14. ~WaitAfterRequest(t)
  BY <1>3 DEF WaitAfterRequest, ExchangeInv, LastCommandIsHolders
<1> QED
  BY <1>4, <1>5, <1>6, <1>7, <1>8, <1>9, <1>10, <1>11, <1>12, <1>13, <1>14
     DEF Move, ThreadSteps

LEMMA PlacesMove ==
  ASSUME Promptly, ExchangeInv, CallPlaces, NEW t \in Threads, Move(t)
  PROVE  CallPlaces'
<1>1. ASSUME NEW u \in Threads \ {t} PROVE Placed(u)'
  <2>1. /\ pc'[u] = pc[u] /\ call'[u] = call[u] /\ late'[u] = late[u]
        /\ result'[u] = result[u]
    BY OthersStay DEF ExchangeInv
  <2>2. pc[u] \in Held => portOpen'
    <3>1. pc[u] \in Held => Start(t) /\ portOpen
      BY OnlyStart DEF CallPlaces, Placed
    <3> QED
      BY <3>1 DEF Start
  <2> QED
    BY <2>1, <2>2 DEF CallPlaces, Placed
<1> QED
  BY <1>1, PlacedMove DEF CallPlaces

LEMMA PlacesModem ==
  ASSUME CallPlaces, Modem
  PROVE  CallPlaces'
<1>1. UNCHANGED <<pc, call, portOpen, late, result>>
  BY DEF Modem, Answer, Submit, Swallow, SendReport, SendNotice, hostVars, callVars
<1> QED
  BY <1>1 DEF CallPlaces, Placed

-----------------------------------------------------------------------------
(***************************************************************************)
(* What the modem has granted.                                             *)
(***************************************************************************)
LEMMA SameGrants ==
  ASSUME NEW t \in Threads, granted' = granted, made'[t] = made[t]
  PROVE  Mine(t)' = Mine(t) /\ Earned(t)' = Earned(t)
BY DEF Mine, Earned

\* The step under way is not among those before it.
LEMMA BaseStep ==
  ASSUME TypeOK, NEW t \in Threads
  PROVE  /\ step[t] \notin Base(t)
         /\ call[t].op = "send" => Base(t) = 1..(step[t] - 1)
         /\ step[t] = 1 => Base(t) = {}
         /\ step[t] <= InitCommands => Base(t) = 1..(step[t] - 1)
<1>1. step[t] \in Nat
  BY DEF TypeOK
<1>2. CASE call[t].op \in {"open", "init"} /\ step[t] > InitCommands
  BY <1>1, <1>2 DEF Base, InitCommands
<1>3. CASE ~(call[t].op \in {"open", "init"} /\ step[t] > InitCommands)
  <2>1. Base(t) = 1..(step[t] - 1)
    BY <1>3 DEF Base
  <2> QED
    BY <1>1, <1>3, <2>1 DEF InitCommands
<1> QED
  BY <1>2, <1>3

\* The modem grants the exchange of t that is under way.
LEMMA GrantStep ==
  ASSUME ExchangeInv, CallPlaces, GrantInv, NEW t \in Threads, pc[t] \in Waiting,
         UNCHANGED <<made, step, call, pc, result>>,
         Earned(t) = Base(t),
         granted' = Append(granted, [by |-> t, nth |-> made[t], seg |-> step[t]])
  PROVE  /\ \A u \in Threads \ {t} : Mine(u)' = Mine(u) /\ Earned(u)' = Earned(u)
         /\ Earned(t)' = Earned(t) \union {step[t]}
         /\ GrantInv'
<1> USE DEF ExchangeInv
<1> DEFINE n == Len(granted)
<1>1. /\ granted \in Seq(Exchange) /\ n \in Nat /\ DOMAIN granted = 1..n
      /\ DOMAIN granted' = 1..(n + 1) /\ Len(granted') = n + 1
      /\ \A i \in 1..n : granted'[i] = granted[i]
      /\ granted'[n + 1] = [by |-> t, nth |-> made[t], seg |-> step[t]]
  <2>1. granted \in Seq(Exchange) /\ [by |-> t, nth |-> made[t], seg |-> step[t]] \in Exchange
    BY DEF TypeOK, Exchange
  <2> QED
    BY <2>1, AppendProperties
<1>2. \A i \in DOMAIN granted' : i \in DOMAIN granted \/ i = n + 1
  BY <1>1
<1>3. n + 1 \notin DOMAIN granted /\ DOMAIN granted \subseteq DOMAIN granted'
  BY <1>1
<1>4. ASSUME NEW u \in Threads \ {t}
      PROVE  Mine(u)' = Mine(u) /\ Earned(u)' = Earned(u)
  <2>1. Mine(u)' = Mine(u)
    BY <1>1, <1>2, <1>3 DEF Mine
  <2>2. \A i \in Mine(u) : granted'[i] = granted[i]
    BY <1>1 DEF Mine
  <2> QED
    BY <2>1, <2>2 DEF Earned
<1>5. Mine(t)' = Mine(t) \union {n + 1}
  BY <1>1, <1>2, <1>3 DEF Mine
<1>6. \A i \in Mine(t) : granted'[i] = granted[i] /\ i \in 1..n
  BY <1>1 DEF Mine
<1>7. Earned(t)' = Earned(t) \union {step[t]}
  BY <1>1, <1>5, <1>6 DEF Earned
<1> HIDE DEF n
<1>8. \A i \in DOMAIN granted' : granted'[i].nth <= made'[granted'[i].by]
  <2>1. \A i \in DOMAIN granted : granted[i].nth <= made[granted[i].by]
    BY DEF GrantInv
  <2>2. made[t] \in Nat
    BY DEF TypeOK
  <2> QED
    BY <1>1, <1>2, <2>1, <2>2
<1>9. /\ step[t] >= 1 /\ made[t] >= 1 /\ step[t] <= LastStep(t) /\ step[t] \in Nat
      /\ Mine(t) # {} => n \in Mine(t)
      /\ call[t].op = "send" => \A i, j \in Mine(t) : j - i = granted[j].seg - granted[i].seg
  BY DEF GrantInv, Accounted, Waiting, Held, Places, TypeOK, n
<1>10. \A i \in Mine(t) : granted[i].seg \in Nat /\ granted[i].seg \in Earned(t)
  <2>1. \A i \in 1..n : granted[i] \in Exchange
    BY <1>1, ElementOfSeq
  <2> QED
    BY <1>6, <2>1 DEF Earned, Exchange
<1>11. ASSUME call[t].op = "send", NEW i \in Mine(t)
       PROVE  (n + 1) - i = step[t] - granted[i].seg
  <2>1. Earned(t) = 1..(step[t] - 1)
    BY <1>11, BaseStep
  <2>2. n \in Mine(t)
    BY <1>9, <1>11
  <2>3. granted[n].seg \in 1..(step[t] - 1) /\ granted[i].seg \in 1..(step[t] - 1)
    BY <1>10, <2>1, <2>2, <1>11
  <2>4. step[t] - 1 \in Earned(t)
    BY <1>9, <2>1, <2>3
  <2>5. PICK m \in Mine(t) : granted[m].seg = step[t] - 1
    BY <2>4 DEF Earned
  <2>6. n - m = granted[n].seg - granted[m].seg /\ n - i = granted[n].seg - granted[i].seg
    BY <1>9, <1>11, <2>2
  <2>7. m \in Nat /\ i \in Nat /\ m <= n
    BY <1>1, <1>6, <1>11
  <2>8. n \in Nat /\ step[t] \in Nat
    BY <1>1, <1>9
  <2>9. granted[n].seg = step[t] - 1
    BY <2>3, <2>5, <2>6, <2>7, <2>8
  <2> QED
    BY <2>3, <2>6, <2>7, <2>8, <2>9
<1>12. call[t].op = "send" =>
         \A i, j \in Mine(t)' : j - i = granted'[j].seg - granted'[i].seg
  <2> SUFFICES ASSUME call[t].op = "send", NEW i \in Mine(t)', NEW j \in Mine(t)'
               PROVE  j - i = granted'[j].seg - granted'[i].seg
    OBVIOUS
  <2>1. CASE i \in Mine(t) /\ j \in Mine(t)
    BY <1>6, <1>9, <2>1
  <2>2. CASE i \in Mine(t) /\ j = n + 1
    BY <1>1, <1>6, <1>11, <2>2
  <2>3. CASE i = n + 1 /\ j \in Mine(t)
    <3>1. (n + 1) - j = step[t] - granted[j].seg /\ granted[j].seg \in Nat /\ j \in Nat
      BY <1>6, <1>10, <1>11, <2>3
    <3>2. n \in Nat /\ step[t] \in Nat
      BY <1>1, <1>9
    <3>3. j - (n + 1) = granted[j].seg - step[t]
      BY <3>1, <3>2
    <3>4. granted'[j].seg = granted[j].seg /\ granted'[i].seg = step[t]
      BY <1>1, <1>6, <2>3
    <3> QED
      BY <2>3, <3>3, <3>4
  <2>4. CASE i = n + 1 /\ j = n + 1
    BY <1>1, <1>9, <2>4
  <2> QED
    BY <1>5, <2>1, <2>2, <2>3, <2>4
<1>13. ASSUME NEW u \in Threads \ {t} PROVE Accounted(u)' /\ Deserved(u)'
  <2>1. /\ pc'[u] = pc[u] /\ step'[u] = step[u] /\ made'[u] = made[u] /\ call'[u] = call[u]
        /\ result'[u] = result[u] /\ Base(u)' = Base(u) /\ LastStep(u)' = LastStep(u)
    BY DEF Base, LastStep
  <2>2. pc[u] \notin Held
    BY OthersOutside DEF Waiting, Held, Places
  <2>3. \A i \in Mine(u) : granted'[i] = granted[i]
    BY <1>1 DEF Mine
  <2>4. Accounted(u) /\ Deserved(u)
    BY DEF GrantInv
  <2>5. Accounted(u)'
    BY <1>4, <2>1, <2>2, <2>3, <2>4 DEF Accounted
  <2>6. Deserved(u)'
    BY <1>4, <2>1, <2>4 DEF Deserved
  <2> QED
    BY <2>5, <2>6
<1>14. Accounted(t)'
  <2>1. /\ pc'[t] = pc[t] /\ step'[t] = step[t] /\ made'[t] = made[t] /\ call'[t] = call[t]
        /\ Base(t)' = Base(t) /\ LastStep(t)' = LastStep(t)
    BY DEF Base, LastStep
  <2>2. pc[t] # "idle" /\ pc[t] # "lock" /\ pc[t] \in {"idle"} \union Waiting
    BY DEF Waiting
  <2>3. Len(granted') \in Mine(t)'
    BY <1>1, <1>5 DEF n
  <2> QED
    BY <1>7, <1>9, <1>12, <2>1, <2>2, <2>3 DEF Accounted
<1>15. Deserved(t)'
  <2>1. result'[t] # "Ok"
    BY DEF CallPlaces, Placed, Waiting
  <2> QED
    BY <2>1 DEF Deserved
<1> QED
  BY <1>4, <1>7, <1>8, <1>13, <1>14, <1>15 DEF GrantInv

\* Nothing is granted, and nothing changes for u.
LEMMA SameAccount ==
  ASSUME NEW u \in Threads, Accounted(u), Deserved(u), granted' = granted,
         pc'[u] = pc[u], call'[u] = call[u], step'[u] = step[u], made'[u] = made[u],
         result'[u] = result[u]
  PROVE  Accounted(u)' /\ Deserved(u)'
<1>1. /\ Mine(u)' = Mine(u) /\ Earned(u)' = Earned(u)
      /\ Base(u)' = Base(u) /\ LastStep(u)' = LastStep(u)
  BY SameGrants DEF Base, LastStep
<1> QED
  BY <1>1 DEF Accounted, Deserved

\* A call goes on within an exchange.
LEMMA InsideAccount ==
  ASSUME NEW t \in Threads, Accounted(t), granted' = granted,
         UNCHANGED <<call, step, made, result>>, result[t] = "none",
         pc[t] \in Held, pc'[t] \in Held, pc[t] \in Waiting => pc'[t] \in Waiting
  PROVE  Accounted(t)' /\ Deserved(t)'
<1>1. /\ Mine(t)' = Mine(t) /\ Earned(t)' = Earned(t)
      /\ Base(t)' = Base(t) /\ LastStep(t)' = LastStep(t)
  BY SameGrants DEF Base, LastStep
<1>2. pc[t] \notin {"idle", "lock"} /\ pc'[t] \notin {"idle", "lock"}
  BY DEF Held
<1>3. Accounted(t)'
  BY <1>1, <1>2 DEF Accounted
<1>4. Deserved(t)'
  BY DEF Deserved
<1> QED
  BY <1>3, <1>4

\* A call ends without success, or asks for nothing that could be granted.
LEMMA ReturnAccount ==
  ASSUME NEW t \in Threads, Accounted(t), granted' = granted,
         UNCHANGED <<call, step, made>>, pc'[t] = "idle",
         result'[t] # "Ok" \/ call[t].op = "status"
  PROVE  Accounted(t)' /\ Deserved(t)'
<1>1. Mine(t)' = Mine(t)
  BY SameGrants
<1>2. Accounted(t)'
  BY <1>1 DEF Accounted, Held, Waiting
<1>3. Deserved(t)'
  BY DEF Deserved, Suffices
<1> QED
  BY <1>2, <1>3

\* One more step than those before.
LEMMA NextStep ==
  \A n \in Nat : n >= 1 => 1..(n - 1) \union {n} = 1..n
OBVIOUS

\* An exchange ends, and the call goes on with the next or returns.
LEMMA ConcludeAccount ==
  ASSUME ExchangeInv, CallPlaces, NEW t \in Threads, Accounted(t), pc[t] \in Held,
         call[t].op # "status", granted' = granted, UNCHANGED <<call, made>>,
         NEW code, Conclude(t, code),
         code = "Ok" => step[t] \in Earned(t),
         code # "Ok" /\ call[t].op # "send" => step[t] \notin Earned(t)
  PROVE  Accounted(t)' /\ Deserved(t)'
<1>1. /\ Mine(t)' = Mine(t) /\ Earned(t)' = Earned(t)
      /\ call[t].op \in {"open", "init", "at", "send"} /\ result[t] = "none"
      /\ step[t] \in Nat /\ call[t].n \in Nat /\ TypeOK
      /\ pc[t] \notin {"idle", "lock"}
  <2>1. call[t].op \in Ops \ SplitCalls /\ result[t] = "none" /\ pc[t] \notin {"idle", "lock"}
    BY DEF ExchangeInv, TypeOK, CallPlaces, Placed, Held
  <2> QED
    BY <2>1, SameGrants DEF Ops, SplitCalls, ExchangeInv, TypeOK
<1>2. /\ step[t] >= 1 /\ made[t] >= 1 /\ step[t] <= LastStep(t)
      /\ Earned(t) = Base(t) \/ Earned(t) = Base(t) \union {step[t]}
      /\ Mine(t) # {} => Len(granted) \in Mine(t)
      /\ call[t].op = "send" => \A i, j \in Mine(t) : j - i = granted[j].seg - granted[i].seg
  BY <1>1 DEF Accounted
<1>3. CASE GoesOn(t, code)
  <2>1. pc'[t] = "write" /\ step'[t] = step[t] + 1 /\ result'[t] = "none"
    BY <1>1, <1>3 DEF Conclude, Goto, TypeOK
  <2>2. step[t] + 1 <= LastStep(t) /\ LastStep(t)' = LastStep(t)
    BY <1>1, <1>3 DEF GoesOn, LastStep, InitCommands, InitSteps
  <2>3. Earned(t) = Base(t)'
    <3>1. CASE call[t].op = "send" \/ step[t] <= InitCommands
      <4>1. Earned(t) = 1..step[t]
        <5>1. code = "Ok"
          BY <1>1, <1>3, <3>1 DEF GoesOn
        <5>2. Base(t) = 1..(step[t] - 1)
          BY <1>1, <3>1, BaseStep
        <5>3. Earned(t) = 1..(step[t] - 1) \union {step[t]}
          BY <1>2, <5>1, <5>2
        <5> QED
          BY <1>1, <1>2, <5>3, NextStep
      <4>2. Base(t)' = 1..step[t]
        <5>1. call'[t].op = call[t].op /\ step'[t] - 1 = step[t]
          BY <1>1, <2>1
        <5>2. call[t].op = "send" => Base(t)' = 1..step[t]
          BY <5>1 DEF Base
        <5>3. CASE step[t] < InitCommands
          BY <1>1, <2>1, <5>1, <5>3 DEF Base, InitCommands
        <5>4. CASE step[t] = InitCommands
          BY <1>1, <2>1, <5>1, <5>4 DEF Base, InitCommands
        <5> QED
          BY <1>1, <3>1, <5>2, <5>3, <5>4 DEF InitCommands
      <4> QED
        BY <4>1, <4>2
    <3>2. CASE call[t].op # "send" /\ step[t] > InitCommands
      <4>1. call[t].op \in {"open", "init"} /\ code # "Ok"
        BY <1>1, <1>3, <3>2 DEF GoesOn, InitCommands
      <4>2. Earned(t) = Base(t)
        BY <1>2, <4>1
      <4>3. step[t] + 1 > InitCommands
        BY <1>1, <3>2 DEF InitCommands
      <4>4. Base(t) = 1..InitCommands /\ Base(t)' = 1..InitCommands
        BY <2>1, <3>2, <4>1, <4>3 DEF Base
      <4> QED
        BY <4>2, <4>4
    <3> QED
      BY <1>1, <3>1, <3>2 DEF InitCommands
  <2>4. Accounted(t)'
    <3>1. step'[t] >= 1
      BY <1>1, <2>1
    <3> QED
      BY <1>1, <1>2, <2>1, <2>2, <2>3, <3>1 DEF Accounted
  <2>5. Deserved(t)'
    BY <2>1 DEF Deserved
  <2> QED
    BY <2>4, <2>5
<1>4. CASE ~GoesOn(t, code)
  <2>1. pc'[t] = "idle" /\ step' = step /\ result'[t] = FinalCode(t, code)
    BY <1>1, <1>4 DEF Conclude, Return, Goto, TypeOK
  <2>2. Accounted(t)'
    <3>1. call' = call /\ granted' = granted /\ Mine(t)' = Mine(t) /\ Accounted(t)
      BY <1>1
    <3> QED
      BY <2>1, <3>1 DEF Accounted, Held, Waiting
  <2>3. CASE result'[t] # "Ok"
    BY <2>2, <2>3 DEF Deserved
  <2>4. CASE result'[t] = "Ok" /\ call[t].op = "send"
    <3>1. code = "Ok"
      BY <2>1, <2>4 DEF FinalCode
    <3>2. step[t] = call[t].n
      <4>1. ~(step[t] < call[t].n) /\ step[t] <= call[t].n
        BY <1>2, <1>4, <2>4, <3>1 DEF GoesOn, LastStep
      <4> QED
        BY <1>1, <4>1
    <3>3. Earned(t) = 1..step[t]
      <4>1. Base(t) = 1..(step[t] - 1)
        BY <1>1, <2>4, BaseStep
      <4>2. Earned(t) = 1..(step[t] - 1) \union {step[t]}
        BY <1>2, <3>1, <4>1
      <4> QED
        BY <1>1, <1>2, <4>2, NextStep
    <3>4. Suffices(Earned(t), call[t])
      BY <2>4, <3>2, <3>3 DEF Suffices
    <3> QED
      BY <1>1, <2>2, <3>4 DEF Deserved
  <2>5. CASE result'[t] = "Ok" /\ call[t].op = "at"
    <3>1. code = "Ok" /\ step[t] = 1
      <4>1. code = "Ok" /\ step[t] <= 1
        BY <1>2, <2>1, <2>5 DEF FinalCode, LastStep
      <4> QED
        BY <1>1, <1>2, <4>1
    <3>2. Base(t) = {}
      BY <1>1, <3>1, BaseStep
    <3>3. Earned(t) = {1}
      BY <1>2, <3>1, <3>2
    <3>4. Suffices(Earned(t), call[t])
      BY <2>5, <3>3 DEF Suffices
    <3> QED
      BY <1>1, <2>2, <3>4 DEF Deserved
  <2>6. CASE result'[t] = "Ok" /\ call[t].op \in {"open", "init"}
    <3>1. step[t] > InitCommands
      <4> SUFFICES ASSUME ~(step[t] > InitCommands) PROVE FALSE
        OBVIOUS
      <4>1. code = "Ok"
        BY <2>1, <2>6 DEF FinalCode
      <4>2. step[t] <= InitCommands
        BY <1>1 DEF InitCommands
      <4> QED
        BY <1>4, <2>6, <4>1, <4>2 DEF GoesOn
    <3>2. Base(t) = 1..InitCommands
      BY <2>6, <3>1 DEF Base
    <3>3. Earned(t) = 1..InitCommands \/ Earned(t) = 1..InitCommands \union {step[t]}
      BY <1>2, <3>2
    <3>4. \E last \in Earned(t) : Earned(t) \in {1..InitCommands, 1..InitCommands \union {last}}
      <4>1. 1 \in 1..InitCommands
        BY DEF InitCommands
      <4> HIDE DEF InitCommands
      <4> QED
        BY <3>3, <4>1
    <3>5. Suffices(Earned(t), call[t])
      BY <2>6, <3>4 DEF Suffices
    <3> QED
      BY <1>1, <2>2, <3>5 DEF Deserved
  <2> QED
    BY <1>1, <2>2, <2>3, <2>4, <2>5, <2>6
<1> QED
  BY <1>3, <1>4

-----------------------------------------------------------------------------
(***************************************************************************)
(* How a wait ends.                                                        *)
(***************************************************************************)
LEMMA AheadOfHolder ==
  ASSUME ExchangeInv, NEW t \in Threads, pc[t] \in Held
  PROVE  /\ owner = t /\ Ahead = buf[t] \o rx
         /\ buf[t] \in Seq(Tokens) /\ rx \in Seq(Tokens) /\ Ahead \in Seq(Tokens)
<1>1. owner = t /\ buf[t] \in Seq(Tokens) /\ rx \in Seq(Tokens)
  BY DEF ExchangeInv, OnlyHolderInside, TypeOK
<1>2. Ahead = buf[t] \o rx
  BY <1>1 DEF Ahead
<1> QED
  BY <1>1, <1>2, ConcatProperties

\* A call that has its answer, or no time left, leaves nothing behind.
LEMMA WaitOver ==
  ASSUME AnswerInv, NEW t \in Threads, pc[t] \in Awaiting,
         late[t] \/ \E i \in DOMAIN buf[t] : buf[t][i].kind \in ReplyKinds
  PROVE  tx = <<>> /\ NoReply(rx)
<1>1. Attuned(t) /\ ExchangeInv /\ pc[t] \in Held
  BY DEF AnswerInv, ReplyInv, Awaiting, Prompting, Waiting, Held, Places
<1>2. Ahead = buf[t] \o rx /\ buf[t] \in Seq(Tokens) /\ rx \in Seq(Tokens)
  BY <1>1, AheadOfHolder
<1>3. CASE late[t]
  BY <1>1, <1>3 DEF Attuned
<1>4. CASE \E i \in DOMAIN buf[t] : buf[t][i].kind \in ReplyKinds
  <2>1. OneReply(buf[t] \o rx, cmd[t], Expected(t))
    BY <1>1, <1>2 DEF Attuned
  <2>2. NoReply(rx)
    BY <1>2, <1>4, <2>1, ReplyInFirst
  <2>3. NoReply(Ahead) => NoReply(buf[t])
    BY <1>2, NoReplyInParts
  <2>4. ~NoReply(Ahead)
    BY <1>4, <2>3 DEF NoReply
  <2> QED
    BY <1>1, <2>2, <2>4 DEF Attuned
<1> QED
  BY <1>3, <1>4

\* What a wait returns is what the modem did, except that the OK to a PDU may
\* be lost.
LEMMA Verdict ==
  ASSUME AnswerInv, NEW t \in Threads, pc[t] = "demux",
         ClassifyResponse(buf[t]) = "Wait" => late[t]
  PROVE  /\ tx = <<>> /\ NoReply(rx)
         /\ ClassifyResponse(buf[t]) = "Ok" => step[t] \in Earned(t)
         /\ ClassifyResponse(buf[t]) # "Ok" /\ call[t].op # "send" => step[t] \notin Earned(t)
<1> DEFINE b == buf[t]
<1>1. /\ ExchangeInv /\ pc[t] \in Awaiting /\ pc[t] \in Waiting /\ pc[t] \in Held
      /\ pc[t] \notin Prompting
  BY DEF AnswerInv, Awaiting, Waiting, Prompting, Held, Places
<1>2. Ahead = b \o rx /\ b \in Seq(Tokens) /\ rx \in Seq(Tokens) /\ Ahead \in Seq(Tokens)
  BY <1>1, AheadOfHolder
<1>3. /\ ClassifyResponse(b) = "Ok" => Holds(b, "ok")
      /\ ClassifyResponse(b) # "Wait" => \E i \in DOMAIN b : b[i].kind \in FinalResults
      /\ ClassifyResponse(b) \in {"Ok", "Error", "Wait"}
  BY ResultIsReply
<1>4. OneReply(b \o rx, cmd[t], Expected(t)) /\ OneReply(Ahead, cmd[t], Expected(t))
  BY <1>1, <1>2 DEF AnswerInv, ReplyInv, Attuned
<1> HIDE DEF b
<1>5. \A i \in DOMAIN b : b[i].kind \in ReplyKinds => b[i].kind \in Expected(t)
  BY <1>2, <1>4, ReplyInFirst
<1>6. tx = <<>> /\ NoReply(rx)
  BY <1>1, <1>3, WaitOver DEF b, ReplyKinds
<1>7. CASE ClassifyResponse(b) = "Ok"
  <2>1. "ok" \in Expected(t)
    BY <1>3, <1>5, <1>7 DEF Holds, ReplyKinds, FinalResults
  <2>2. step[t] \in Earned(t)
    BY <1>1, <2>1 DEF Expected
  <2> QED
    BY <1>6, <1>7, <2>2 DEF b
<1>8. CASE ClassifyResponse(b) # "Ok"
  <2> SUFFICES ASSUME call[t].op # "send", step[t] \in Earned(t) PROVE FALSE
    BY <1>6, <1>8 DEF b
  <2>1. Holds(Ahead, "ok") /\ OkFramed(Ahead)
    BY <1>1 DEF AnswerInv, OkInv
  <2>2. PICK i \in DOMAIN Ahead : Ahead[i].kind = "ok"
    BY <2>1 DEF Holds
  <2>3. /\ Len(b) \in Nat /\ Len(rx) \in Nat /\ Len(Ahead) = Len(b) + Len(rx)
        /\ DOMAIN Ahead = 1..Len(Ahead) /\ DOMAIN b = 1..Len(b)
        /\ \A k \in 1..Len(b) : Ahead[k] = b[k]
    BY <1>2, ConcatElements
  <2>4. /\ i \in Nat /\ i > 1 /\ Ahead[i - 1].kind = "nl" /\ Ahead[i + 1].kind = "nl"
    BY <2>1, <2>2, <2>3 DEF OkFramed
  <2>5. CASE ClassifyResponse(b) = "Error"
    <3>1. PICK j \in DOMAIN b : b[j].kind \in {"error", "cms"}
      BY <2>5 DEF ClassifyResponse, Framed, Holds
    <3>2. j \in DOMAIN Ahead /\ Ahead[j].kind \in {"error", "cms"}
      BY <2>3, <3>1
    <3>3. i = j
      BY <1>4, <2>2, <3>2 DEF OneReply, ReplyKinds, FinalResults
    <3> QED
      BY <2>2, <3>2, <3>3
  <2>6. CASE ClassifyResponse(b) = "Wait"
    <3>1. late[t]
      BY <2>6 DEF b
    <3>2. i < Len(b)
      BY <1>1, <2>2, <3>1 DEF AnswerInv, OkInv, b
    <3>3. i \in DOMAIN b /\ i - 1 \in 1..Len(b) /\ i + 1 \in 1..Len(b)
      BY <2>3, <2>4, <3>2
    <3>4. b[i].kind = "ok" /\ b[i - 1].kind = "nl" /\ b[i + 1].kind = "nl"
      BY <2>2, <2>3, <2>4, <3>3
    <3>5. Framed(b, "ok")
      BY <2>4, <3>2, <3>3, <3>4 DEF Framed
    <3> QED
      BY <2>6, <3>5 DEF ClassifyResponse
  <2> QED
    BY <1>3, <1>8, <2>5, <2>6
<1> QED
  BY <1>7, <1>8

\* How the grants fare when a thread moves.
LEMMA AccountMove ==
  ASSUME Promptly, AnswerInv, NEW t \in Threads, Move(t)
  PROVE  granted' = granted /\ Accounted(t)' /\ Deserved(t)'
<1>1. /\ ExchangeInv /\ TypeOK /\ CallPlaces /\ Placed(t) /\ Accounted(t) /\ Deserved(t)
      /\ \A i \in DOMAIN granted : granted[i].nth <= made[granted[i].by]
  BY DEF AnswerInv, ExchangeInv, CallPlaces, GrantInv
<1>2. /\ {"write", "drain", "prompt", "promptDemux", "body", "wait", "demux",
          "drainDemux", "again"} \subseteq Held
      /\ "idle" \notin Held /\ "lock" \notin Held
  BY DEF Held, Places
<1>3. CASE Start(t)
  <2>1. /\ pc'[t] = "lock" /\ step'[t] = 1 /\ made'[t] = made[t] + 1 /\ result'[t] = "none"
        /\ granted' = granted /\ made[t] \in Nat
    BY <1>1, <1>3 DEF Start, Goto, TypeOK, modemVars
  <2>2. Mine(t)' = {}
    <3> SUFFICES ASSUME NEW i \in Mine(t)' PROVE FALSE
      OBVIOUS
    <3>1. i \in DOMAIN granted /\ granted[i].by = t /\ granted[i].nth = made[t] + 1
      BY <2>1 DEF Mine
    <3>2. granted[i].nth <= made[t]
      BY <1>1, <3>1
    <3> QED
      BY <2>1, <3>1, <3>2
  <2>3. Earned(t)' = {}
    BY <2>2 DEF Earned
  <2>4. Base(t)' = {}
    BY <2>1 DEF Base, InitCommands
  <2>5. step'[t] >= 1 /\ made'[t] >= 1
    BY <2>1
  <2>6. Accounted(t)'
    BY <1>2, <2>1, <2>2, <2>3, <2>4, <2>5 DEF Accounted
  <2> QED
    BY <2>1, <2>6 DEF Deserved
<1>4. CASE Refuse(t) \/ OpenFails(t) \/ NoReport(t)
  <2>1. /\ pc'[t] = "idle" /\ result'[t] # "Ok" /\ granted' = granted
        /\ UNCHANGED <<call, step, made>>
    BY <1>1, <1>4 DEF Refuse, OpenFails, NoReport, Return, Refusal, Goto, TypeOK,
                      callVars, modemVars
  <2> QED
    BY <1>1, <2>1, ReturnAccount
<1>5. CASE TakeQueued(t) \/ TakeDrained(t)
  <2>1. /\ pc'[t] = "idle" /\ granted' = granted
        /\ UNCHANGED <<call, step, made>>
    BY <1>1, <1>5 DEF TakeQueued, TakeDrained, TakeReport, Return, Goto, TypeOK,
                      callVars, modemVars
  <2>2. call[t].op = "status"
    BY <1>1, <1>5 DEF TakeQueued, TakeDrained, Status, Placed
  <2> QED
    BY <1>1, <2>1, <2>2, ReturnAccount
<1>6. CASE Enter(t) \/ FirstDrain(t)
  <2>1. /\ pc[t] = "lock" /\ pc'[t] \in {"write", "drain"} /\ Refusal(t) = "none"
        /\ UNCHANGED <<call, step, made, granted, result>>
    BY <1>1, <1>6 DEF Enter, FirstDrain, Status, Free, Goto, TypeOK, callVars, modemVars
  <2>2. /\ step[t] = 1 /\ made[t] >= 1 /\ Earned(t) = Base(t) /\ result[t] = "none"
    BY <1>1, <2>1 DEF Accounted, Placed, Waiting
  <2>3. Base(t) = {} /\ Mine(t)' = Mine(t) /\ Earned(t)' = Earned(t) /\ Base(t)' = Base(t)
    BY <1>1, <2>1, <2>2, BaseStep, SameGrants DEF Base
  <2>4. Mine(t)' = {}
    BY <2>2, <2>3 DEF Earned
  <2>5. 1 <= LastStep(t)'
    <3>1. call[t].op = "send" => call[t].n # 0 /\ call[t].n \in Nat
      BY <1>1, <2>1 DEF Refusal, Placed, TypeOK
    <3> QED
      BY <2>1, <3>1 DEF LastStep, InitSteps
  <2>6. Accounted(t)'
    BY <1>2, <2>1, <2>2, <2>3, <2>4, <2>5 DEF Accounted
  <2> QED
    BY <2>1, <2>2, <2>6 DEF Deserved
<1>7. CASE \/ WriteCommand(t) \/ Poll(t) \/ PollAgain(t) \/ ReadPrompt(t) \/ PromptRead(t)
           \/ WritePdu(t) \/ Drain(t) \/ DrainAgain(t) \/ Expire(t) \/ EraseUrc(t)
  <2>1. /\ granted' = granted /\ UNCHANGED <<call, step, made, result>>
        /\ pc[t] \in Held
    BY <1>2, <1>7 DEF WriteCommand, Poll, PollAgain, ReadPrompt, PromptRead, WritePdu,
         Drain, DrainAgain, Expire, EraseUrc, callVars, modemVars
  <2>2. result[t] = "none"
    BY <1>1, <1>2, <2>1 DEF Placed
  <2>3. pc'[t] \in Held /\ (pc[t] \in Waiting => pc'[t] \in Waiting)
    BY <1>1, <1>2, <1>7 DEF WriteCommand, AfterCommand, Poll, PollAgain, ReadPrompt,
         PromptRead, WritePdu, Drain, DrainAgain, Expire, EraseUrc, Goto, TypeOK, Placed,
         Waiting
  <2> QED
    BY <1>1, <2>1, <2>2, <2>3, InsideAccount
<1>8. CASE EndOfWait(t)
  <2>1. /\ pc[t] = "demux" /\ granted' = granted /\ UNCHANGED <<call, made>>
        /\ ClassifyResponse(buf[t]) = "Wait" => late[t]
        /\ Conclude(t, CodeOf(ClassifyResponse(buf[t])))
    BY <1>8 DEF EndOfWait, callVars, modemVars
  <2>2. CodeOf(ClassifyResponse(buf[t])) = "Ok" <=> ClassifyResponse(buf[t]) = "Ok"
    BY DEF CodeOf
  <2>3. /\ ClassifyResponse(buf[t]) = "Ok" => step[t] \in Earned(t)
        /\ ClassifyResponse(buf[t]) # "Ok" /\ call[t].op # "send" => step[t] \notin Earned(t)
    BY <2>1, Verdict
  <2>4. pc[t] \in Held /\ call[t].op # "status"
    BY <1>1, <1>2, <2>1 DEF Placed
  <2> QED
    BY <1>1, <2>1, <2>2, <2>3, <2>4, ConcludeAccount
<1>9. CASE WriteCommandFails(t) \/ ReadPromptFails(t) \/ NoPrompt(t) \/ WritePduFails(t)
  <2>1. PICK code \in {FaultCode, "ModemRejected"} :
          /\ pc[t] \in {"write", "prompt", "promptDemux", "body"} /\ granted' = granted
          /\ UNCHANGED <<call, made>> /\ Conclude(t, code)
    BY <1>9 DEF WriteCommandFails, ReadPromptFails, NoPrompt, WritePduFails,
                callVars, modemVars
  <2>2. code # "Ok"
    BY DEF FaultCode
  <2>3. pc[t] \in Held /\ call[t].op # "status" /\ pc[t] \notin {"idle"} \union Waiting
    BY <1>1, <1>2, <2>1 DEF Placed, Waiting
  <2>4. step[t] \notin Earned(t)
    BY <1>1, <2>3, BaseStep DEF Accounted
  <2> QED
    BY <1>1, <2>1, <2>2, <2>3, <2>4, ConcludeAccount
<1>10. ~WaitAfterRequest(t)
  BY <1>1 DEF WaitAfterRequest, ExchangeInv, LastCommandIsHolders, Placed
<1> QED
  BY <1>3, <1>4, <1>5, <1>6, <1>7, <1>8, <1>9, <1>10 DEF Move, ThreadSteps

LEMMA GrantMove ==
  ASSUME Promptly, AnswerInv, NEW t \in Threads, Move(t)
  PROVE  GrantInv'
<1>1. TypeOK /\ GrantInv
  BY DEF AnswerInv, ExchangeInv
<1>2. granted' = granted /\ Accounted(t)' /\ Deserved(t)'
  BY AccountMove
<1>3. \A u \in Threads \ {t} : Accounted(u)' /\ Deserved(u)'
  BY <1>1, <1>2, OthersStay, SameAccount DEF GrantInv
<1>4. \A u \in Threads : made'[u] \in Nat /\ made[u] <= made'[u]
  <2>0. made \in [Threads -> Nat]
    BY <1>1 DEF TypeOK
  <2>1. Start(t) => made' = [made EXCEPT ![t] = made[t] + 1]
    BY DEF Start
  <2>2. ~Start(t) => made' = made
    BY DEF Move, ThreadSteps, Refuse, OpenFails, Enter, WriteCommand,
       WriteCommandFails, WaitAfterRequest, Poll, PollAgain, EndOfWait, ReadPrompt,
       ReadPromptFails, PromptRead, NoPrompt, WritePdu, WritePduFails, TakeQueued,
       FirstDrain, Drain, TakeDrained, DrainAgain, NoReport, Expire, EraseUrc, callVars
  <2> QED
    BY <2>0, <2>1, <2>2
<1>5. ASSUME NEW i \in DOMAIN granted
      PROVE  granted[i].nth <= made'[granted[i].by]
  <2>1. granted[i] \in Exchange
    BY <1>1, ElementOfSeq DEF TypeOK
  <2>2. granted[i].nth \in Nat /\ granted[i].by \in Threads
    BY <2>1 DEF Exchange
  <2>3. made[granted[i].by] \in Nat /\ made'[granted[i].by] \in Nat
    BY <1>1, <1>4, <2>2 DEF TypeOK
  <2> QED
    BY <1>1, <1>4, <2>2, <2>3 DEF GrantInv
<1> QED
  BY <1>2, <1>3, <1>5 DEF GrantInv

-----------------------------------------------------------------------------
(***************************************************************************)
(* What is left to be read, when a thread moves.                           *)
(***************************************************************************)
\* Nobody waits, and no reply is left.
LEMMA NobodyWaits ==
  ASSUME \A u \in Threads : pc'[u] \notin Awaiting,
         tx' = <<>>, NoReply(Ahead'), WholeUrcs(Ahead')
  PROVE  ReplyInv' /\ OkInv'
<1>1. ReplyInv'
  BY DEF ReplyInv
<1>2. OkFramed(Ahead')
  BY DEF OkFramed, NoReply, ReplyKinds, FinalResults
<1>3. OkInv'
  BY <1>2 DEF OkInv, Awaiting
<1> QED
  BY <1>1, <1>3

\* While t is inside, no other thread waits.
LEMMA OthersDoNotWait ==
  ASSUME ExchangeInv, NEW t \in Threads, Move(t), owner = NoThread \/ pc[t] \in Held
  PROVE  \A u \in Threads \ {t} : pc'[u] \notin Awaiting
<1>1. \A u \in Threads \ {t} : pc[u] \notin Held /\ pc'[u] = pc[u]
  BY OthersOutside, OthersStay DEF ExchangeInv
<1>2. Awaiting \subseteq Held
  BY DEF Awaiting, Prompting, Waiting, Held, Places
<1> QED
  BY <1>1, <1>2

\* Whatever is dropped or erased, what stays is whole, and no new reply.
LEMMA MoveText ==
  ASSUME ExchangeInv, BuffersOutside, WholeUrcs(Ahead), NEW t \in Threads, Move(t)
  PROVE  /\ BuffersOutside'
         /\ Ahead' \in Seq(Tokens)
         /\ Thins(Ahead', Ahead) /\ WholeUrcs(Ahead')
         /\ EraseUrc(t) => /\ pc[t] \in Held /\ CanErase(buf[t])
                           /\ Ahead' = EraseFirst(buf[t]) \o rx /\ Ahead = buf[t] \o rx
                           /\ buf'[t] = EraseFirst(buf[t])
<1>1. TypeOK
  BY DEF ExchangeInv
<1>2. CASE ThreadSteps(t) /\ ~EraseUrc(t)
  <2>1. BuffersOutside' /\ Dropped
    BY <1>2, ThreadText
  <2>2. PICK d \in Seq(Tokens) : Ahead = d \o Ahead'
    BY <2>1 DEF Dropped
  <2>3. Ahead' \in Seq(Tokens)
    <3>1. TypeOK'
      BY <1>1, <1>2, TypeStep DEF ThreadSteps, Next, Run
    <3>2. rx' \in Seq(Tokens) /\ HolderText' \in Seq(Tokens)
      BY <3>1, EmptySeq DEF TypeOK, HolderText
    <3>3. Ahead' = HolderText' \o rx'
      BY DEF Ahead, HolderText
    <3> QED
      BY <3>2, <3>3, ConcatProperties
  <2>4. WholeUrcs(d \o Ahead')
    BY <2>2
  <2>5. Thins(Ahead', d \o Ahead') /\ WholeUrcs(Ahead')
    BY <2>3, <2>4, DropThins, WholeDrop
  <2> QED
    BY <1>2, <2>1, <2>2, <2>3, <2>5
<1>3. CASE EraseUrc(t)
  <2>1. pc[t] \in Held /\ CanErase(buf[t])
    BY <1>3 DEF EraseUrc, Held, Places
  <2>2. /\ owner = t /\ Ahead = buf[t] \o rx /\ buf[t] \in Seq(Tokens) /\ rx \in Seq(Tokens)
    BY <2>1, AheadOfHolder
  <2>3. buf' = [buf EXCEPT ![t] = EraseFirst(buf[t])] /\ UNCHANGED <<owner, pc, rx>>
    BY <1>3 DEF EraseUrc, SetBuf
  <2>4. Ahead' = EraseFirst(buf[t]) \o rx /\ buf'[t] = EraseFirst(buf[t])
    BY <1>1, <2>2, <2>3 DEF Ahead, TypeOK
  <2>5. WholeUrcs(buf[t] \o rx)
    BY <2>2
  <2>6. /\ Thins(EraseFirst(buf[t]) \o rx, buf[t] \o rx)
        /\ WholeUrcs(EraseFirst(buf[t]) \o rx)
        /\ EraseFirst(buf[t]) \o rx \in Seq(Tokens)
    BY <2>1, <2>2, <2>5, EraseThins, WholeErase, ErasedText
  <2>7. BuffersOutside'
    BY <1>1, <2>1, <2>3 DEF BuffersOutside, TypeOK
  <2> QED
    BY <2>1, <2>2, <2>4, <2>6, <2>7
<1> QED
  BY <1>2, <1>3 DEF Move

\* A step that neither begins nor ends a wait.
LEMMA OutsideReply ==
  ASSUME Promptly, AnswerInv, NEW t \in Threads, Move(t),
         pc[t] \notin Awaiting, pc'[t] \notin Awaiting, UNCHANGED <<tx, granted>>
  PROVE  ReplyInv' /\ OkInv'
<1>1. ExchangeInv /\ BuffersOutside /\ WholeUrcs(Ahead) /\ TypeOK
  BY DEF AnswerInv, OkInv, ExchangeInv
<1>2. /\ Ahead' \in Seq(Tokens) /\ Thins(Ahead', Ahead) /\ WholeUrcs(Ahead')
  BY <1>1, MoveText
<1>3. CASE \A u \in Threads : pc[u] \notin Awaiting
  <2>1. tx = <<>> /\ NoReply(Ahead)
    BY <1>3 DEF AnswerInv, ReplyInv
  <2>2. NoReply(Ahead')
    BY <1>2, <2>1, ThinReplies
  <2>3. \A u \in Threads : pc'[u] \notin Awaiting
    BY <1>1, <1>3, OthersStay
  <2> QED
    BY <1>2, <2>1, <2>2, <2>3, NobodyWaits
<1>4. CASE \E u \in Threads : pc[u] \in Awaiting
  <2>1. PICK u \in Threads : pc[u] \in Awaiting
    BY <1>4
  <2>2. u \in Threads \ {t} /\ pc[u] \in Held
    BY <2>1 DEF Awaiting, Prompting, Waiting, Held, Places
  <2>3. Start(t)
    BY <1>1, <2>2, OnlyStart
  <2>4. UNCHANGED <<owner, buf, rx, tx, granted>>
    BY <2>3 DEF Start, modemVars
  <2>5. Ahead' = Ahead
    BY <2>4 DEF Ahead
  <2>6. ASSUME NEW v \in Threads, pc'[v] \in Awaiting
        PROVE  /\ pc[v] = pc'[v] /\ call'[v] = call[v] /\ step'[v] = step[v]
               /\ cmd'[v] = cmd[v] /\ late'[v] = late[v] /\ made'[v] = made[v]
               /\ Earned(v)' = Earned(v)
    <3>1. v # t
      BY <2>6
    <3>2. /\ pc[v] = pc'[v] /\ call'[v] = call[v] /\ step'[v] = step[v]
          /\ cmd'[v] = cmd[v] /\ late'[v] = late[v] /\ made'[v] = made[v]
      BY <1>1, <3>1, OthersStay
    <3> QED
      BY <2>4, <3>2, SameGrants
  <2>7. ASSUME NEW v \in Threads, pc'[v] \in Awaiting PROVE Attuned(v)'
    <3>1. Attuned(v)
      BY <2>6, <2>7 DEF AnswerInv, ReplyInv
    <3>2. Expected(v)' = Expected(v) /\ Due(v)' = Due(v)
      BY <2>6, <2>7 DEF Expected, Due
    <3>3. InputOf(v, Due(v), cmd[v])' = InputOf(v, Due(v), cmd[v])
      BY <2>6, <2>7, <3>2 DEF InputOf
    <3> QED
      BY <2>4, <2>5, <2>6, <2>7, <3>1, <3>2, <3>3 DEF Attuned
  <2>8. ReplyInv'
    <3>1. pc'[u] = pc[u]
      BY <1>1, <2>2, OthersStay
    <3> QED
      BY <2>1, <2>7, <3>1 DEF ReplyInv
  <2>9. OkInv'
    BY <2>4, <2>5, <2>6 DEF AnswerInv, OkInv, Awaiting
  <2> QED
    BY <2>8, <2>9
<1> QED
  BY <1>3, <1>4

\* A wait ends, and the text read so far is dropped.
LEMMA LeaveReply ==
  ASSUME AnswerInv, NEW t \in Threads, Move(t), pc[t] \in Awaiting, pc'[t] \notin Awaiting,
         UNCHANGED <<tx, rx>>, owner' = NoThread \/ (owner' = t /\ buf'[t] = <<>>),
         late[t] \/ \E i \in DOMAIN buf[t] : buf[t][i].kind \in ReplyKinds
  PROVE  ReplyInv' /\ OkInv'
<1>1. ExchangeInv /\ WholeUrcs(Ahead) /\ pc[t] \in Held
  BY DEF AnswerInv, OkInv, Awaiting, Prompting, Waiting, Held, Places
<1>2. Ahead = buf[t] \o rx /\ buf[t] \in Seq(Tokens) /\ rx \in Seq(Tokens)
  BY <1>1, AheadOfHolder
<1>3. Ahead' = rx
  <2>1. Ahead' = <<>> \o rx
    BY ThreadAssumption DEF Ahead
  <2> QED
    BY <1>2, <2>1, ConcatEmptySeq
<1>4. WholeUrcs(rx)
  BY <1>1, <1>2, WholeDrop
<1>5. tx = <<>> /\ NoReply(rx)
  BY WaitOver
<1>6. \A u \in Threads : pc'[u] \notin Awaiting
  BY <1>1, OthersDoNotWait
<1> QED
  BY <1>3, <1>4, <1>5, <1>6, NobodyWaits

\* A wait goes on.
LEMMA StayReply ==
  ASSUME Promptly, AnswerInv, NEW t \in Threads, Move(t),
         \/ pc[t] \in Prompting /\ pc'[t] \in Prompting
         \/ pc[t] \in Waiting /\ pc'[t] \in Waiting,
         UNCHANGED <<call, step, cmd, made, tx, granted>>,
         NoReply(rx) => NoReply(rx'),
         late'[t] => late[t] \/ (tx = <<>> /\ NoReply(rx')),
         OkFramed(Ahead'), Holds(Ahead, "ok") => Holds(Ahead', "ok"),
         late'[t] /\ pc'[t] \in Waiting =>
           \A i \in DOMAIN Ahead' : Ahead'[i].kind = "ok" => i < Len(buf'[t])
  PROVE  ReplyInv' /\ OkInv'
<1>1. /\ ExchangeInv /\ BuffersOutside /\ WholeUrcs(Ahead)
      /\ pc[t] \in Awaiting /\ pc'[t] \in Awaiting /\ pc[t] \in Held
  BY DEF AnswerInv, OkInv, Awaiting, Prompting, Waiting, Held, Places
<1>2. Thins(Ahead', Ahead) /\ WholeUrcs(Ahead')
  BY <1>1, MoveText
<1>3. Attuned(t)
  BY <1>1 DEF AnswerInv, ReplyInv
<1>4. Earned(t)' = Earned(t)
  BY SameGrants
<1>5. Expected(t)' = Expected(t) /\ Due(t)' = Due(t)
  BY <1>4 DEF Expected, Due, Prompting, Waiting
<1>6. OneReply(Ahead', cmd'[t], Expected(t)')
  BY <1>2, <1>3, <1>5, ThinReplies DEF Attuned
<1>7. NoReply(Ahead) => NoReply(Ahead')
  BY <1>2, ThinReplies
<1>8. InputOf(t, Due(t), cmd[t])' = InputOf(t, Due(t), cmd[t])
  BY <1>5 DEF InputOf
<1>9. Attuned(t)'
  <2>1. late'[t] => NoReply(rx')
    BY <1>3 DEF Attuned
  <2>2. tx' # <<>> => /\ ~late'[t] /\ NoReply(Ahead') /\ step'[t] \notin Earned(t)'
                      /\ tx' = <<InputOf(t, Due(t), cmd[t])'>>
    BY <1>3, <1>4, <1>7, <1>8 DEF Attuned
  <2> QED
    BY <1>6, <2>1, <2>2 DEF Attuned
<1>10. \A u \in Threads \ {t} : pc'[u] \notin Awaiting
  BY <1>1, OthersDoNotWait
<1>11. ReplyInv'
  BY <1>1, <1>9, <1>10 DEF ReplyInv
<1>12. \A u \in Threads : pc'[u] \in Waiting => u = t
  BY <1>10 DEF Awaiting
<1>13. pc'[t] \in Waiting => pc[t] \in Waiting
  BY DEF Prompting, Waiting
<1>14. OkInv'
  BY <1>2, <1>4, <1>12, <1>13 DEF AnswerInv, OkInv
<1> QED
  BY <1>11, <1>14

\* An input is written, and its answer awaited.
LEMMA BeginReply ==
  ASSUME AnswerInv, NEW t \in Threads, Move(t),
         pc[t] \notin Awaiting, pc[t] \in Held, pc'[t] \in Awaiting,
         UNCHANGED <<call, step, made, granted>>, ~late'[t],
         tx' = Append(tx, InputOf(t, Due(t), cmd[t])')
  PROVE  ReplyInv' /\ OkInv'
<1>1. ExchangeInv /\ BuffersOutside /\ WholeUrcs(Ahead) /\ TypeOK /\ Accounted(t)
  BY DEF AnswerInv, OkInv, ExchangeInv, GrantInv
<1>2. \A u \in Threads \ {t} : pc[u] \notin Awaiting /\ pc'[u] \notin Awaiting
  <2>1. \A u \in Threads \ {t} : pc[u] \notin Held
    BY <1>1, OthersOutside DEF ExchangeInv
  <2> QED
    BY <1>1, <2>1, OthersDoNotWait DEF Awaiting, Prompting, Waiting, Held, Places
<1>3. tx = <<>> /\ NoReply(Ahead)
  BY <1>2 DEF AnswerInv, ReplyInv
<1>4. /\ NoReply(Ahead') /\ WholeUrcs(Ahead')
  BY <1>1, <1>3, MoveText, ThinReplies
<1>5. step[t] \notin Earned(t)
  <2>1. pc[t] \notin {"idle"} \union Waiting
    BY DEF Held, Awaiting
  <2> QED
    BY <1>1, <2>1, BaseStep DEF Accounted
<1>6. Earned(t)' = Earned(t)
  BY SameGrants
<1>7. Attuned(t)'
  BY <1>3, <1>4, <1>5, <1>6, NoReplyIsOne DEF Attuned
<1>8. ReplyInv'
  BY <1>2, <1>7 DEF ReplyInv
<1>9. OkFramed(Ahead')
  BY <1>4 DEF OkFramed, NoReply, ReplyKinds, FinalResults
<1>10. OkInv'
  <2>1. \A u \in Threads : pc'[u] \in Waiting => u = t
    BY <1>2 DEF Awaiting
  <2> QED
    BY <1>4, <1>5, <1>6, <1>9, <2>1 DEF OkInv
<1> QED
  BY <1>8, <1>10

\* A read moves the boundary between what was read and what is on the line.
LEMMA ReadReply ==
  ASSUME ExchangeInv, NEW t \in Threads, pc[t] \in Held, owner' = owner,
         NEW least \in Nat, Read(t, least)
  PROVE  /\ Ahead' = Ahead /\ Len(buf'[t]) >= Len(buf[t])
         /\ NoReply(rx) => NoReply(rx')
<1>1. /\ TypeOK /\ owner = t /\ buf[t] \in Seq(Tokens) /\ rx \in Seq(Tokens)
  BY AheadOfHolder DEF ExchangeInv
<1>2. PICK n \in least..Len(rx) :
        /\ buf' = [buf EXCEPT ![t] = buf[t] \o SubSeq(rx, 1, n)]
        /\ rx' = SubSeq(rx, n + 1, Len(rx))
  BY DEF Read, ReadSizes, SetBuf
<1> DEFINE x == SubSeq(rx, 1, n)
<1>3. /\ x \in Seq(Tokens) /\ rx' \in Seq(Tokens) /\ x \o rx' = rx
  <2>1. rx \in Seq(Tokens) /\ n \in 0..Len(rx)
    BY <1>1
  <2> QED
    BY <1>2, <2>1, SplitSequence
<1>4. buf'[t] = buf[t] \o x
  BY <1>1, <1>2 DEF TypeOK
<1> HIDE DEF x
<1>5. Len(buf'[t]) = Len(buf[t]) + Len(x) /\ Len(buf[t]) \in Nat /\ Len(x) \in Nat
  BY <1>1, <1>3, <1>4, ConcatElements
<1>6. Thins(rx', x \o rx')
  BY <1>3, DropThins
<1>7. NoReply(rx) => NoReply(rx')
  BY <1>3, <1>6, ThinReplies
<1>8. Ahead' = Ahead
  BY <1>1, ReadText
<1> QED
  BY <1>5, <1>7, <1>8

LEMMA StayMove ==
  ASSUME Promptly, AnswerInv, NEW t \in Threads, pc[t] \in Awaiting, pc'[t] \in Awaiting,
         \/ Poll(t) \/ PollAgain(t) \/ ReadPrompt(t) \/ PromptRead(t)
         \/ Expire(t) \/ EraseUrc(t)
  PROVE  ReplyInv' /\ OkInv'
<1>1. /\ ExchangeInv /\ TypeOK /\ Move(t) /\ pc[t] \in Held /\ ~ReadFails /\ CallPlaces
  BY Connected DEF AnswerInv, ExchangeInv, Move, ThreadSteps, Awaiting, Prompting, Waiting,
                   Held, Places
<1>2. /\ owner = t /\ Ahead = buf[t] \o rx
      /\ buf[t] \in Seq(Tokens) /\ rx \in Seq(Tokens) /\ Ahead \in Seq(Tokens)
  BY <1>1, AheadOfHolder
<1>3. /\ UNCHANGED <<call, step, cmd, made, tx, granted, owner>>
  BY DEF Poll, PollAgain, ReadPrompt, PromptRead, Expire, EraseUrc, callVars, modemVars
<1>4. \/ pc[t] \in Prompting /\ pc'[t] \in Prompting
      \/ pc[t] \in Waiting /\ pc'[t] \in Waiting
  BY <1>1 DEF Poll, PollAgain, ReadPrompt, PromptRead, Expire, EraseUrc, Goto, TypeOK,
              Awaiting, Prompting, Waiting
<1>5. /\ WholeUrcs(Ahead) /\ OkFramed(Ahead)
      /\ late[t] /\ pc[t] \in Waiting =>
           \A i \in DOMAIN Ahead : Ahead[i].kind = "ok" => i < Len(buf[t])
  BY DEF AnswerInv, OkInv
<1>6. pc'[t] \in Waiting => pc[t] \in Waiting
  BY <1>4 DEF Prompting, Waiting
<1>7. CASE Poll(t) \/ ReadPrompt(t)
  <2>1. PICK least \in {0, 1} : Read(t, least)
    BY <1>1, <1>7 DEF Poll, ReadPrompt
  <2>2. /\ Ahead' = Ahead /\ Len(buf'[t]) >= Len(buf[t])
        /\ NoReply(rx) => NoReply(rx')
    BY <1>1, <1>3, <2>1, ReadReply
  <2>3. late' = late
    BY <1>7 DEF Poll, ReadPrompt
  <2>4. Len(buf[t]) \in Nat /\ Len(buf'[t]) \in Nat
    <3>1. buf' \in [Threads -> Seq(Tokens)]
      BY <1>1, <2>1, ReadType
    <3> QED
      BY <1>2, <3>1
  <2>5. late'[t] /\ pc'[t] \in Waiting =>
          \A i \in DOMAIN Ahead' : Ahead'[i].kind = "ok" => i < Len(buf'[t])
    <3> SUFFICES ASSUME late'[t], pc'[t] \in Waiting, NEW i \in DOMAIN Ahead,
                        Ahead[i].kind = "ok"
                 PROVE  i < Len(buf'[t])
      BY <2>2
    <3>1. i < Len(buf[t]) /\ i \in Nat
      BY <1>2, <1>5, <1>6, <2>3
    <3> QED
      BY <2>2, <2>4, <3>1
  <2> QED
    BY <1>1, <1>3, <1>4, <1>5, <2>2, <2>3, <2>5, StayReply
<1>8. CASE PollAgain(t) \/ PromptRead(t)
  <2>1. UNCHANGED <<late, rx>>
    BY <1>8 DEF PollAgain, PromptRead
  <2>2. buf' = buf
    <3>1. PromptRead(t) => pc'[t] = "prompt" /\ pc'[t] # "body"
      BY <1>1 DEF PromptRead, Goto, TypeOK, Awaiting, Prompting, Waiting
    <3> QED
      BY <1>1, <1>8, <3>1 DEF PollAgain, PromptRead, Goto, TypeOK
  <2>3. Ahead' = Ahead
    BY <1>3, <2>1, <2>2 DEF Ahead
  <2> QED
    BY <1>1, <1>3, <1>4, <1>5, <1>6, <2>1, <2>2, <2>3, StayReply
<1>9. CASE Expire(t)
  <2>1. tx = <<>> /\ rx = <<>> /\ UNCHANGED <<rx, buf>>
    BY <1>9 DEF Expire, Promptly, Quiet, Awaiting, Prompting, Waiting
  <2>2. Ahead' = Ahead
    BY <1>3, <2>1 DEF Ahead
  <2>3. NoReply(rx')
    BY <2>1 DEF NoReply
  <2>4. Ahead = buf[t]
    BY <1>2, <2>1, ConcatEmptySeq
  <2>5. \A i \in DOMAIN Ahead' : Ahead'[i].kind = "ok" => i < Len(buf'[t])
    BY <1>5, <2>1, <2>2, <2>4 DEF OkFramed
  <2> QED
    BY <1>1, <1>3, <1>4, <1>5, <2>1, <2>2, <2>3, <2>5, StayReply
<1>10. CASE EraseUrc(t)
  <2>1. UNCHANGED <<late, rx>>
    BY <1>10 DEF EraseUrc
  <2>2. /\ CanErase(buf[t]) /\ Ahead' = EraseFirst(buf[t]) \o rx
        /\ buf'[t] = EraseFirst(buf[t])
    BY <1>1, <1>5, <1>10, MoveText DEF AnswerInv
  <2>3. WholeUrcs(buf[t] \o rx) /\ OkFramed(buf[t] \o rx)
    BY <1>2, <1>5
  <2>4. /\ OkFramed(Ahead')
        /\ Holds(Ahead, "ok") => Holds(Ahead', "ok")
        /\ (\A i \in DOMAIN Ahead : Ahead[i].kind = "ok" => i < Len(buf[t])) =>
             \A i \in DOMAIN Ahead' : Ahead'[i].kind = "ok" => i < Len(buf'[t])
    BY <1>2, <2>2, <2>3, EraseOk
  <2> QED
    BY <1>1, <1>3, <1>4, <1>5, <1>6, <2>1, <2>4, StayReply
<1> QED
  BY <1>7, <1>8, <1>9, <1>10

LEMMA ReplyMove ==
  ASSUME Promptly, AnswerInv, NEW t \in Threads, Move(t)
  PROVE  ReplyInv' /\ OkInv'
<1>1. ExchangeInv /\ TypeOK /\ CallPlaces /\ Placed(t)
  BY DEF AnswerInv, ExchangeInv, CallPlaces
<1>2. CASE \/ Start(t) \/ Refuse(t) \/ OpenFails(t) \/ Enter(t) \/ FirstDrain(t)
           \/ TakeQueued(t) \/ TakeDrained(t) \/ NoReport(t) \/ Drain(t) \/ DrainAgain(t)
  <2>1. pc[t] \notin Awaiting /\ pc'[t] \notin Awaiting /\ UNCHANGED <<tx, granted>>
    BY <1>1, <1>2 DEF Start, Refuse, OpenFails, Enter, FirstDrain, TakeQueued, TakeDrained,
       NoReport, Drain, DrainAgain, TakeReport, Return, Goto, Status, Free, TypeOK,
       Awaiting, Prompting, Waiting, modemVars
  <2> QED
    BY <2>1, OutsideReply
<1>3. CASE WriteCommandFails(t) \/ WritePduFails(t)
  <2>1. /\ pc[t] \in {"write", "body"} /\ UNCHANGED <<tx, granted>>
        /\ \E code : Conclude(t, code)
    BY <1>3 DEF WriteCommandFails, WritePduFails, modemVars
  <2>2. pc'[t] \in {"write", "idle"}
    BY <1>1, <2>1 DEF Conclude, Return, Goto, TypeOK
  <2>3. pc[t] \notin Awaiting /\ pc'[t] \notin Awaiting
    BY <2>1, <2>2 DEF Awaiting, Prompting, Waiting
  <2> QED
    BY <2>1, <2>3, OutsideReply
<1>4. CASE EndOfWait(t) \/ NoPrompt(t)
  <2>1. /\ pc[t] \in Awaiting /\ pc[t] \in Held /\ UNCHANGED <<tx, rx>>
        /\ \E code : Conclude(t, code)
    BY <1>4 DEF EndOfWait, NoPrompt, modemVars, Awaiting, Prompting, Waiting, Held, Places
  <2>2. owner = t
    BY <1>1, <2>1, AheadOfHolder
  <2>3. /\ pc'[t] \in {"write", "idle"}
        /\ owner' = NoThread \/ (owner' = t /\ buf'[t] = <<>>)
    BY <1>1, <2>1, <2>2 DEF Conclude, Return, Goto, SetBuf, TypeOK
  <2>4. pc'[t] \notin Awaiting
    BY <2>3 DEF Awaiting, Prompting, Waiting
  <2>5. late[t] \/ ClassifyResponse(buf[t]) # "Wait"
    BY <1>4 DEF EndOfWait, NoPrompt
  <2>6. late[t] \/ \E i \in DOMAIN buf[t] : buf[t][i].kind \in ReplyKinds
    BY <2>5, ResultIsReply DEF ReplyKinds
  <2> QED
    BY <2>1, <2>3, <2>4, <2>6, LeaveReply
<1>5. CASE PromptRead(t) /\ Holds(buf[t], "gt")
  <2>1. /\ pc[t] \in Awaiting /\ pc[t] \in Held /\ UNCHANGED <<tx, rx, owner>>
        /\ pc'[t] = "body" /\ buf'[t] = <<>>
    BY <1>1, <1>5 DEF PromptRead, Goto, SetBuf, TypeOK, modemVars, Awaiting, Prompting,
                      Held, Places
  <2>2. owner' = t
    BY <1>1, <2>1, AheadOfHolder
  <2>3. pc'[t] \notin Awaiting
    BY <2>1 DEF Awaiting, Prompting, Waiting
  <2>4. \E i \in DOMAIN buf[t] : buf[t][i].kind \in ReplyKinds
    BY <1>5 DEF Holds, ReplyKinds
  <2> QED
    BY <2>1, <2>2, <2>3, <2>4, LeaveReply
<1>6. CASE \/ Poll(t) \/ PollAgain(t) \/ ReadPrompt(t)
           \/ PromptRead(t) /\ ~Holds(buf[t], "gt")
           \/ (Expire(t) \/ EraseUrc(t)) /\ pc[t] \in Awaiting
  <2>1. pc[t] \in Awaiting /\ pc'[t] \in Awaiting
    BY <1>1, <1>6 DEF Poll, PollAgain, ReadPrompt, PromptRead, Expire, EraseUrc, Goto,
                      TypeOK, Awaiting, Prompting, Waiting
  <2> QED
    BY <1>6, <2>1, StayMove
<1>7. CASE (Expire(t) \/ EraseUrc(t)) /\ pc[t] \notin Awaiting
  <2>1. pc' = pc /\ UNCHANGED <<tx, granted>>
    BY <1>7 DEF Expire, EraseUrc, modemVars
  <2> QED
    BY <1>7, <2>1, OutsideReply
<1>8. CASE WriteCommand(t)
  <2>1. /\ pc[t] = "write" /\ UNCHANGED <<call, step, made, granted>>
        /\ late'[t] = FALSE /\ cmd'[t] = issued + 1
        /\ pc'[t] = AfterCommand(call[t].op)
        /\ tx' = Append(tx, InputOf(t, InputKind(call[t].op), issued + 1))
    BY <1>1, <1>8 DEF WriteCommand, Goto, TypeOK, callVars
  <2>2. /\ call[t].op = "send" => pc'[t] = "prompt"
        /\ call[t].op # "send" => pc'[t] = "wait"
    BY <1>1, <2>1 DEF AfterCommand, Placed
  <2>3. pc[t] \notin Awaiting /\ pc[t] \in Held /\ pc'[t] \in Awaiting
    BY <2>1, <2>2 DEF Awaiting, Prompting, Waiting, Held, Places
  <2>4. InputKind(call[t].op) = Due(t)'
    BY <1>1, <2>1, <2>2 DEF InputKind, Due, Prompting, Placed, SplitCalls
  <2>5. InputOf(t, InputKind(call[t].op), issued + 1) = InputOf(t, Due(t), cmd[t])'
    BY <2>1, <2>4 DEF InputOf
  <2> QED
    BY <2>1, <2>3, <2>5, BeginReply
<1>9. CASE WritePdu(t)
  <2>1. /\ pc[t] = "body" /\ UNCHANGED <<call, step, made, granted, cmd>>
        /\ late'[t] = FALSE /\ pc'[t] = "wait"
        /\ tx' = Append(tx, InputOf(t, "pdu", cmd[t]))
    BY <1>1, <1>9 DEF WritePdu, Goto, TypeOK, callVars
  <2>2. pc[t] \notin Awaiting /\ pc[t] \in Held /\ pc'[t] \in Awaiting
    BY <2>1 DEF Awaiting, Prompting, Waiting, Held, Places
  <2>3. Due(t)' = "pdu"
    BY <1>1, <2>1 DEF Due, Prompting, Placed
  <2>4. InputOf(t, "pdu", cmd[t]) = InputOf(t, Due(t), cmd[t])'
    BY <2>1, <2>3 DEF InputOf
  <2> QED
    BY <2>1, <2>2, <2>4, BeginReply
<1>10. ~WaitAfterRequest(t)
  BY <1>1 DEF WaitAfterRequest, ExchangeInv, LastCommandIsHolders, Placed
<1>11. ~ReadPromptFails(t)
  <2>1. pc[t] \in Held => ~ReadFails
    BY <1>1, Connected
  <2> QED
    BY <2>1 DEF ReadPromptFails, Held, Places
<1> QED
  BY <1>2, <1>3, <1>4, <1>5, <1>6, <1>7, <1>8, <1>9, <1>10, <1>11 DEF Move, ThreadSteps

-----------------------------------------------------------------------------
(***************************************************************************)
(* The modem answers the call that waits, and nobody else.                 *)
(***************************************************************************)
\* What the modem sends: it begins with a line end, its URCs are whole, and
\* an OK has a line of its own.
Whole(msg) ==
  /\ msg \in Seq(Tokens) /\ msg # <<>> /\ msg[1].kind = "nl"
  /\ WholeUrcs(msg) /\ OkFramed(msg)

LEMMA WholeMessages ==
  /\ \A kind \in FinalResults, k \in Nat :
       /\ Whole(<<NL, Mark(kind, k), NL>>)
       /\ OneReply(<<NL, Mark(kind, k), NL>>, k, {kind})
       /\ Holds(<<NL, Mark(kind, k), NL>>, kind)
  /\ \A k \in Nat :
       /\ Whole(<<NL, Mark("gt", k)>>) /\ OneReply(<<NL, Mark("gt", k)>>, k, {"gt"})
       /\ Whole(<<NL, Tok("cds"), Tok("num"), NL, Mark("pdu", k), NL>>)
       /\ NoReply(<<NL, Tok("cds"), Tok("num"), NL, Mark("pdu", k), NL>>)
  /\ \A kind \in {"cmt", "cmtAlpha", "cmti", "cdsi"} :
       Whole(NoticeText(kind)) /\ NoReply(NoticeText(kind))
<1> USE DEF NL, Tok, Mark
<1>1. ASSUME NEW kind \in FinalResults, NEW k \in Nat
      PROVE  /\ Whole(<<NL, Mark(kind, k), NL>>)
             /\ OneReply(<<NL, Mark(kind, k), NL>>, k, {kind})
             /\ Holds(<<NL, Mark(kind, k), NL>>, kind)
  <2> DEFINE m == <<NL, Mark(kind, k), NL>>
  <2>1. /\ m \in Seq(Tokens) /\ m # <<>> /\ Len(m) = 3 /\ DOMAIN m = {1, 2, 3}
        /\ m[1].kind = "nl" /\ m[2].kind = kind /\ m[2].of = k /\ m[3].kind = "nl"
    BY MessagesAreText
  <2> HIDE DEF m, NL, Tok, Mark
  <2>2. Whole(m)
    <3>1. WholeUrcs(m)
      BY <2>1 DEF WholeUrcs, FinalResults, TagKinds
    <3>2. OkFramed(m)
      BY <2>1 DEF OkFramed
    <3> QED
      BY <2>1, <3>1, <3>2 DEF Whole
  <2>3. OneReply(m, k, {kind}) /\ Holds(m, kind)
    BY <2>1 DEF OneReply, Holds, ReplyKinds, FinalResults
  <2> QED
    BY <2>2, <2>3 DEF m
<1>2. ASSUME NEW k \in Nat
      PROVE  Whole(<<NL, Mark("gt", k)>>) /\ OneReply(<<NL, Mark("gt", k)>>, k, {"gt"})
  <2> DEFINE m == <<NL, Mark("gt", k)>>
  <2>1. /\ m \in Seq(Tokens) /\ m # <<>> /\ Len(m) = 2 /\ DOMAIN m = {1, 2}
        /\ m[1].kind = "nl" /\ m[2].kind = "gt" /\ m[2].of = k
    BY MessagesAreText
  <2> HIDE DEF m, NL, Tok, Mark
  <2>2. Whole(m)
    <3>1. WholeUrcs(m)
      BY <2>1 DEF WholeUrcs, TagKinds
    <3>2. OkFramed(m)
      BY <2>1 DEF OkFramed
    <3> QED
      BY <2>1, <3>1, <3>2 DEF Whole
  <2>3. OneReply(m, k, {"gt"})
    BY <2>1 DEF OneReply, ReplyKinds, FinalResults
  <2> QED
    BY <2>2, <2>3 DEF m
<1>3. ASSUME NEW k \in Nat
      PROVE  /\ Whole(<<NL, Tok("cds"), Tok("num"), NL, Mark("pdu", k), NL>>)
             /\ NoReply(<<NL, Tok("cds"), Tok("num"), NL, Mark("pdu", k), NL>>)
  <2> DEFINE m == <<NL, Tok("cds"), Tok("num"), NL, Mark("pdu", k), NL>>
  <2>1. /\ m \in Seq(Tokens) /\ m # <<>> /\ Len(m) = 6 /\ DOMAIN m = {1, 2, 3, 4, 5, 6}
        /\ m[1].kind = "nl" /\ m[2].kind = "cds" /\ m[3].kind = "num"
        /\ m[4].kind = "nl" /\ m[5].kind = "pdu" /\ m[6].kind = "nl"
    BY MessagesAreText
  <2> HIDE DEF m, NL, Tok, Mark
  <2>2. WholeUrc(m, 2)
    BY <2>1 DEF WholeUrc, IsLineStart, TwoLines
  <2>3. WholeUrcs(m) /\ OkFramed(m)
    BY <2>1, <2>2 DEF WholeUrcs, OkFramed, TagKinds
  <2>4. NoReply(m)
    BY <2>1 DEF NoReply, ReplyKinds, FinalResults
  <2>5. Whole(m)
    BY <2>1, <2>3 DEF Whole
  <2> QED
    BY <2>4, <2>5 DEF m
<1>4. ASSUME NEW kind \in {"cmti", "cdsi"}
      PROVE  Whole(NoticeText(kind)) /\ NoReply(NoticeText(kind))
  <2> DEFINE m == NoticeText(kind)
  <2>1. m = <<NL, Tok(kind), Tok("alpha"), NL>>
    BY <1>4 DEF NoticeText
  <2>2. /\ m \in Seq(Tokens) /\ m # <<>> /\ Len(m) = 4 /\ DOMAIN m = {1, 2, 3, 4}
        /\ m[1].kind = "nl" /\ m[2].kind = kind /\ m[3].kind = "alpha" /\ m[4].kind = "nl"
    <3>1. m \in Seq(Tokens)
      BY <1>4, MessagesAreText
    <3> HIDE DEF m
    <3> QED
      BY <2>1, <3>1
  <2> HIDE DEF m, NL, Tok, Mark
  <2>3. WholeUrc(m, 2)
    BY <1>4, <2>2 DEF WholeUrc, IsLineStart, OneLine
  <2>4. WholeUrcs(m) /\ OkFramed(m)
    BY <1>4, <2>2, <2>3 DEF WholeUrcs, OkFramed, TagKinds
  <2>5. NoReply(m)
    BY <1>4, <2>2 DEF NoReply, ReplyKinds, FinalResults
  <2>6. Whole(m)
    BY <2>2, <2>4 DEF Whole
  <2> QED
    BY <2>5, <2>6 DEF m
<1>5. ASSUME NEW kind \in {"cmt", "cmtAlpha"}
      PROVE  Whole(NoticeText(kind)) /\ NoReply(NoticeText(kind))
  <2> DEFINE m == NoticeText(kind)
  <2>1. \/ m = <<NL, Tok("cmt"), Tok("num"), NL, Tok("pdu"), NL>>
        \/ m = <<NL, Tok("cmt"), Tok("alpha"), NL, Tok("pdu"), NL>>
    BY <1>5 DEF NoticeText
  <2>2. /\ m \in Seq(Tokens) /\ m # <<>> /\ Len(m) = 6 /\ DOMAIN m = {1, 2, 3, 4, 5, 6}
        /\ m[1].kind = "nl" /\ m[2].kind = "cmt" /\ m[3].kind \in {"num", "alpha"}
        /\ m[4].kind = "nl" /\ m[5].kind = "pdu" /\ m[6].kind = "nl"
    <3>1. m \in Seq(Tokens)
      BY <1>5, MessagesAreText
    <3> HIDE DEF m
    <3> QED
      BY <2>1, <3>1
  <2> HIDE DEF m, NL, Tok, Mark
  <2>3. WholeUrc(m, 2)
    BY <2>2 DEF WholeUrc, IsLineStart, OneLine, TwoLines
  <2>4. WholeUrcs(m) /\ OkFramed(m)
    BY <2>2, <2>3 DEF WholeUrcs, OkFramed, TagKinds
  <2>5. NoReply(m)
    BY <2>2 DEF NoReply, ReplyKinds, FinalResults
  <2>6. Whole(m)
    BY <2>2, <2>4 DEF Whole
  <2> QED
    BY <2>5, <2>6 DEF m
<1> QED
  BY <1>1, <1>2, <1>3, <1>4, <1>5

\* The text ahead after a message.
LEMMA AheadAppend ==
  ASSUME TypeOK, NEW msg \in Seq(Tokens), rx' = rx \o msg, UNCHANGED <<owner, buf>>
  PROVE  Ahead' = Ahead \o msg
<1>1. /\ rx \in Seq(Tokens) /\ HolderText \in Seq(Tokens) /\ Ahead = HolderText \o rx
  BY AheadIsText DEF TypeOK
<1>2. Ahead' = HolderText \o (rx \o msg)
  BY DEF Ahead, HolderText
<1>3. (HolderText \o rx) \o msg = HolderText \o (rx \o msg)
  BY <1>1, ConcatAssociative
<1> QED
  BY <1>1, <1>2, <1>3

\* A URC comes, which answers nobody.
LEMMA NoticeReply ==
  ASSUME AnswerInv, NEW msg, Whole(msg), NoReply(msg), rx' = rx \o msg,
         UNCHANGED <<owner, pc, call, step, cmd, buf, late, made, tx, granted>>
  PROVE  ReplyInv' /\ OkInv'
<1>1. /\ TypeOK /\ msg \in Seq(Tokens) /\ Ahead \in Seq(Tokens) /\ rx \in Seq(Tokens)
      /\ WholeUrcs(Ahead) /\ OkFramed(Ahead)
  BY AheadIsText DEF AnswerInv, ExchangeInv, OkInv, Whole, TypeOK
<1>2. Ahead' = Ahead \o msg
  BY <1>1, AheadAppend
<1>3. WholeUrcs(Ahead \o msg)
  BY <1>1, WholeAppend DEF Whole
<1>4. /\ OkFramed(Ahead \o msg)
      /\ Holds(Ahead, "ok") => Holds(Ahead \o msg, "ok")
      /\ \A i \in DOMAIN (Ahead \o msg) : (Ahead \o msg)[i].kind = "ok" =>
           i \in DOMAIN Ahead /\ Ahead[i].kind = "ok"
  BY <1>1, AppendOk DEF Whole
<1>5. \A s \in Seq(Tokens) : NoReply(s) => NoReply(s \o msg)
  <2> SUFFICES ASSUME NEW s \in Seq(Tokens), NoReply(s) PROVE NoReply(s \o msg)
    OBVIOUS
  <2>1. OneReply(s, 0, {}) /\ msg \in Seq(Tokens)
    BY <1>1, NoReplyIsOne
  <2>2. OneReply(s \o msg, 0, {})
    BY <2>1, AppendReply
  <2> QED
    BY <2>2 DEF OneReply, NoReply
<1>6. ASSUME NEW t \in Threads, pc[t] \in Awaiting PROVE Attuned(t)'
  <2>1. Attuned(t)
    BY <1>6 DEF AnswerInv, ReplyInv
  <2>2. Expected(t)' = Expected(t) /\ Earned(t)' = Earned(t)
    BY SameGrants DEF Expected
  <2>3. Due(t)' = Due(t)
    BY DEF Due
  <2>4. InputOf(t, Due(t), cmd[t])' = InputOf(t, Due(t), cmd[t])
    BY <2>3 DEF InputOf
  <2>5. OneReply(Ahead \o msg, cmd[t], Expected(t))
    <3>1. OneReply(Ahead, cmd[t], Expected(t))
      BY <2>1 DEF Attuned
    <3> QED
      BY <1>1, <3>1, AppendReply
  <2>6. late[t] => NoReply(rx')
    BY <1>1, <1>5, <2>1 DEF Attuned
  <2>7. tx # <<>> => NoReply(Ahead')
    BY <1>1, <1>2, <1>5, <2>1 DEF Attuned
  <2> QED
    BY <1>2, <2>1, <2>2, <2>4, <2>5, <2>6, <2>7 DEF Attuned
<1>7. (\A t \in Threads : pc[t] \notin Awaiting) => tx = <<>> /\ NoReply(Ahead')
  BY <1>1, <1>2, <1>5 DEF AnswerInv, ReplyInv
<1>8. ReplyInv'
  BY <1>6, <1>7 DEF ReplyInv
<1>9. ASSUME NEW t \in Threads, pc[t] \in Waiting
      PROVE  /\ call[t].op # "send" /\ step[t] \in Earned(t)' => Holds(Ahead', "ok")
             /\ late[t] => \A i \in DOMAIN Ahead' : Ahead'[i].kind = "ok" => i < Len(buf[t])
  <2>1. Earned(t)' = Earned(t)
    BY SameGrants
  <2>2. /\ call[t].op # "send" /\ step[t] \in Earned(t) => Holds(Ahead, "ok")
        /\ late[t] => \A i \in DOMAIN Ahead : Ahead[i].kind = "ok" => i < Len(buf[t])
    BY <1>9 DEF AnswerInv, OkInv
  <2> QED
    BY <1>2, <1>4, <2>1, <2>2
<1>10. OkInv'
  BY <1>2, <1>3, <1>4, <1>9 DEF OkInv
<1> QED
  BY <1>8, <1>10

\* The input t waits for an answer to is the only one.
LEMMA InputDue ==
  ASSUME AnswerInv, Handle
  PROVE  \E t \in Threads :
           /\ pc[t] \in Awaiting /\ pc[t] \in Held /\ portOpen /\ ~late[t] /\ NoReply(Ahead)
           /\ Head(tx) = InputOf(t, Due(t), cmd[t]) /\ tx' = <<>>
           /\ step[t] \notin Earned(t) /\ cmd[t] \in Nat
           /\ \A u \in Threads \ {t} : pc[u] \notin Awaiting
<1>1. PICK t \in Threads : pc[t] \in Awaiting
  BY DEF Handle, AnswerInv, ReplyInv
<1>2. Attuned(t) /\ pc[t] \in Held
  BY <1>1 DEF AnswerInv, ReplyInv, Awaiting, Prompting, Waiting, Held, Places
<1>3. /\ ~late[t] /\ NoReply(Ahead) /\ tx = <<InputOf(t, Due(t), cmd[t])>>
      /\ step[t] \notin Earned(t)
  BY <1>2 DEF Attuned, Handle
<1>4. portOpen /\ cmd[t] \in Nat
  BY <1>2 DEF AnswerInv, CallPlaces, Placed, ExchangeInv, TypeOK
<1>5. Head(tx) = InputOf(t, Due(t), cmd[t]) /\ tx' = <<>>
  BY <1>3 DEF Handle
<1>6. \A u \in Threads \ {t} : pc[u] \notin Awaiting
  BY <1>2, OthersOutside DEF AnswerInv, ExchangeInv, Awaiting, Prompting, Waiting, Held, Places
<1> QED
  BY <1>1, <1>2, <1>3, <1>4, <1>5, <1>6

\* The answer comes: of one of the kinds expected, or none.
LEMMA AnswerReply ==
  ASSUME AnswerInv, NEW t \in Threads, pc[t] \in Awaiting, ~late[t], NoReply(Ahead),
         \A u \in Threads \ {t} : pc[u] \notin Awaiting,
         UNCHANGED <<owner, pc, call, step, cmd, buf, late, made>>, tx' = <<>>,
         \/ rx' = rx
         \/ \E msg : Whole(msg) /\ OneReply(msg, cmd[t], Expected(t)') /\ rx' = rx \o msg,
         pc[t] \in Waiting /\ call[t].op # "send" /\ step[t] \in Earned(t)' =>
           \E msg : Whole(msg) /\ Holds(msg, "ok") /\ rx' = rx \o msg
  PROVE  ReplyInv' /\ OkInv'
<1>1. /\ TypeOK /\ Ahead \in Seq(Tokens)
      /\ WholeUrcs(Ahead) /\ OkFramed(Ahead)
  BY AheadIsText DEF AnswerInv, ExchangeInv, OkInv, TypeOK
<1>2. ASSUME NEW msg, Whole(msg), rx' = rx \o msg
      PROVE  /\ Ahead' = Ahead \o msg /\ msg \in Seq(Tokens)
             /\ WholeUrcs(Ahead') /\ OkFramed(Ahead')
             /\ Holds(msg, "ok") => Holds(Ahead', "ok")
  <2>1. msg \in Seq(Tokens) /\ Ahead' = Ahead \o msg
    BY <1>1, <1>2, AheadAppend DEF Whole
  <2>2. WholeUrcs(Ahead \o msg)
    BY <1>1, <1>2, WholeAppend DEF Whole
  <2>3. OkFramed(Ahead \o msg) /\ (Holds(msg, "ok") => Holds(Ahead \o msg, "ok"))
    BY <1>1, <1>2, AppendOk DEF Whole
  <2> QED
    BY <2>1, <2>2, <2>3
<1>3. OneReply(Ahead', cmd[t], Expected(t)') /\ WholeUrcs(Ahead') /\ OkFramed(Ahead')
  <2>1. CASE rx' = rx
    <3>1. Ahead' = Ahead
      BY <2>1 DEF Ahead
    <3> QED
      BY <1>1, <3>1, NoReplyIsOne
  <2>2. CASE \E msg : Whole(msg) /\ OneReply(msg, cmd[t], Expected(t)') /\ rx' = rx \o msg
    <3>1. PICK msg : Whole(msg) /\ OneReply(msg, cmd[t], Expected(t)') /\ rx' = rx \o msg
      BY <2>2
    <3>2. /\ Ahead' = Ahead \o msg /\ msg \in Seq(Tokens)
          /\ WholeUrcs(Ahead') /\ OkFramed(Ahead')
      BY <1>2, <3>1
    <3>3. OneReply(Ahead \o msg, cmd[t], Expected(t)')
      BY <1>1, <3>1, <3>2, AppendReply
    <3> QED
      BY <3>2, <3>3
  <2> QED
    BY <2>1, <2>2
<1>4. Attuned(t)'
  BY <1>3 DEF Attuned
<1>5. ReplyInv'
  BY <1>4 DEF ReplyInv
<1>6. pc[t] \in Waiting /\ call[t].op # "send" /\ step[t] \in Earned(t)' => Holds(Ahead', "ok")
  BY <1>2
<1>7. OkInv'
  <2>1. \A u \in Threads : pc'[u] \in Waiting => u = t
    BY DEF Awaiting
  <2> QED
    BY <1>3, <1>6, <2>1 DEF OkInv
<1> QED
  BY <1>5, <1>7

LEMMA NothingGranted ==
  ASSUME GrantInv, UNCHANGED <<granted, pc, call, step, made, result>>
  PROVE  GrantInv'
<1>1. \A i \in DOMAIN granted' : granted'[i].nth <= made'[granted'[i].by]
  BY DEF GrantInv
<1>2. ASSUME NEW t \in Threads
      PROVE  Accounted(t)' /\ Deserved(t)'
  <2>1. Accounted(t) /\ Deserved(t)
    BY DEF GrantInv
  <2> QED
    BY <2>1, SameAccount
<1> QED
  BY <1>1, <1>2 DEF GrantInv

\* The modem rejects or ignores what it was sent.
LEMMA Rejected ==
  ASSUME AnswerInv, Handle, UNCHANGED <<hostVars, callVars, granted>>,
         rx' = rx \/ \E kind \in {"error", "cms"} : Reply(kind, Head(tx).of)
  PROVE  ReplyInv' /\ OkInv' /\ GrantInv'
<1>1. GrantInv'
  BY NothingGranted DEF AnswerInv, hostVars, callVars
<1>2. PICK t \in Threads :
        /\ pc[t] \in Awaiting /\ portOpen /\ ~late[t] /\ NoReply(Ahead)
        /\ Head(tx) = InputOf(t, Due(t), cmd[t]) /\ tx' = <<>>
        /\ step[t] \notin Earned(t) /\ cmd[t] \in Nat
        /\ \A u \in Threads \ {t} : pc[u] \notin Awaiting
  BY InputDue
<1>3. Earned(t)' = Earned(t) /\ step[t] \notin Earned(t)'
  BY <1>2, SameGrants DEF callVars
<1>4. \/ rx' = rx
      \/ \E msg : Whole(msg) /\ OneReply(msg, cmd[t], Expected(t)') /\ rx' = rx \o msg
  <2> SUFFICES ASSUME NEW kind \in {"error", "cms"}, Reply(kind, Head(tx).of)
               PROVE  \E msg : /\ Whole(msg) /\ OneReply(msg, cmd[t], Expected(t)')
                               /\ rx' = rx \o msg
    OBVIOUS
  <2> DEFINE msg == <<NL, Mark(kind, cmd[t]), NL>>
  <2>1. Head(tx).of = cmd[t]
    BY <1>2 DEF InputOf
  <2>2. rx' = rx \o msg
    BY <1>2, <2>1 DEF Reply, Send
  <2>3. kind \in FinalResults /\ cmd[t] \in Nat
    BY <1>2 DEF FinalResults
  <2>4. Whole(msg) /\ OneReply(msg, cmd[t], {kind})
    BY <2>3, WholeMessages
  <2>5. {kind} \subseteq Expected(t)'
    BY DEF Expected
  <2> HIDE DEF msg
  <2>6. OneReply(msg, cmd[t], Expected(t)')
    BY <2>4, <2>5, MoreKinds
  <2> QED
    BY <2>2, <2>4, <2>6
<1>5. UNCHANGED <<owner, pc, call, step, cmd, buf, late, made>>
  BY DEF hostVars, callVars
<1>6. ReplyInv' /\ OkInv'
  BY <1>2, <1>3, <1>4, <1>5, AnswerReply
<1> QED
  BY <1>1, <1>6

\* The modem asks for the text of a message.
LEMMA Prompted ==
  ASSUME AnswerInv, Handle, UNCHANGED <<hostVars, callVars, granted>>,
         Head(tx).kind = "cmgs", Send(<<NL, Mark("gt", Head(tx).of)>>)
  PROVE  ReplyInv' /\ OkInv' /\ GrantInv'
<1>1. GrantInv'
  BY NothingGranted DEF AnswerInv, hostVars, callVars
<1>2. PICK t \in Threads :
        /\ pc[t] \in Awaiting /\ portOpen /\ ~late[t] /\ NoReply(Ahead)
        /\ Head(tx) = InputOf(t, Due(t), cmd[t]) /\ tx' = <<>>
        /\ step[t] \notin Earned(t) /\ cmd[t] \in Nat
        /\ \A u \in Threads \ {t} : pc[u] \notin Awaiting
  BY InputDue
<1>3. UNCHANGED <<owner, pc, call, step, cmd, buf, late, made>>
  BY DEF hostVars, callVars
<1>4. Due(t) = "cmgs" /\ Head(tx).of = cmd[t]
  BY <1>2 DEF InputOf
<1>5. pc[t] \in Prompting /\ pc[t] \notin Waiting
  BY <1>4 DEF Due, Prompting, Waiting
<1> DEFINE msg == <<NL, Mark("gt", cmd[t])>>
<1>6. rx' = rx \o msg
  BY <1>2, <1>4 DEF Send
<1>7. Whole(msg) /\ OneReply(msg, cmd[t], {"gt"})
  BY <1>2, WholeMessages
<1>8. {"gt"} \subseteq Expected(t)'
  BY <1>3, <1>5 DEF Expected
<1> HIDE DEF msg
<1>9. OneReply(msg, cmd[t], Expected(t)')
  BY <1>7, <1>8, MoreKinds
<1>10. ReplyInv' /\ OkInv'
  BY <1>2, <1>3, <1>5, <1>6, <1>7, <1>9, AnswerReply
<1> QED
  BY <1>1, <1>10

\* The modem does what it was asked, and says so; the result of a PDU may be
\* lost.
LEMMA Granted ==
  ASSUME AnswerInv, Handle, UNCHANGED <<hostVars, callVars>>,
         Head(tx).kind \in {"line", "pdu"}, Grant(Head(tx)),
         Reply("ok", Head(tx).of) \/ (Head(tx).kind = "pdu" /\ rx' = rx)
  PROVE  ReplyInv' /\ OkInv' /\ GrantInv'
<1>1. PICK t \in Threads :
        /\ pc[t] \in Awaiting /\ portOpen /\ ~late[t] /\ NoReply(Ahead)
        /\ Head(tx) = InputOf(t, Due(t), cmd[t]) /\ tx' = <<>>
        /\ step[t] \notin Earned(t) /\ cmd[t] \in Nat
        /\ \A u \in Threads \ {t} : pc[u] \notin Awaiting
  BY InputDue
<1>2. UNCHANGED <<owner, pc, call, step, cmd, buf, late, made, result>>
  BY DEF hostVars, callVars
<1>3. /\ Due(t) \in {"line", "pdu"} /\ Head(tx).of = cmd[t]
      /\ Head(tx).kind = Due(t)
      /\ granted' = Append(granted, [by |-> t, nth |-> made[t], seg |-> step[t]])
  BY <1>1 DEF InputOf, Grant
<1>4. pc[t] \in Waiting /\ (Due(t) = "pdu" => call[t].op = "send")
  BY <1>1, <1>3 DEF Due, Awaiting
<1>5. Earned(t) = Base(t)
  <2>1. Accounted(t) /\ pc[t] # "idle"
    BY <1>4 DEF AnswerInv, GrantInv, Waiting
  <2> QED
    BY <1>1, <2>1 DEF Accounted
<1>6. GrantInv' /\ Earned(t)' = Earned(t) \union {step[t]}
  <2>1. ExchangeInv /\ CallPlaces /\ GrantInv
    BY DEF AnswerInv
  <2> QED
    BY <1>2, <1>3, <1>4, <1>5, <2>1, GrantStep
<1> DEFINE msg == <<NL, Mark("ok", cmd[t]), NL>>
<1>7. rx' = rx \o msg \/ (call[t].op = "send" /\ rx' = rx)
  BY <1>1, <1>3, <1>4 DEF Reply, Send
<1>8. Whole(msg) /\ OneReply(msg, cmd[t], {"ok"}) /\ Holds(msg, "ok")
  BY <1>1, WholeMessages DEF FinalResults
<1>9. {"ok"} \subseteq Expected(t)'
  BY <1>2, <1>4, <1>6 DEF Expected
<1> HIDE DEF msg
<1>10. OneReply(msg, cmd[t], Expected(t)')
  BY <1>8, <1>9, MoreKinds
<1>11. \/ rx' = rx
       \/ \E m : Whole(m) /\ OneReply(m, cmd[t], Expected(t)') /\ rx' = rx \o m
  BY <1>7, <1>8, <1>10
<1>12. pc[t] \in Waiting /\ call[t].op # "send" /\ step[t] \in Earned(t)' =>
         \E m : Whole(m) /\ Holds(m, "ok") /\ rx' = rx \o m
  BY <1>7, <1>8
<1>13. ReplyInv' /\ OkInv'
  BY <1>1, <1>2, <1>11, <1>12, AnswerReply
<1> QED
  BY <1>6, <1>13

\* A URC that comes is whole, and answers nobody.
LEMMA NoticeSent ==
  ASSUME AnswerInv, SendReport \/ SendNotice
  PROVE  \E msg : Whole(msg) /\ NoReply(msg) /\ rx' = rx \o msg
<1>1. CASE SendReport
  <2> DEFINE k == sent.report + 1
             msg == <<NL, Tok("cds"), Tok("num"), NL, Mark("pdu", k), NL>>
  <2>1. rx' = rx \o msg
    BY <1>1 DEF SendReport, Send
  <2>2. k \in Nat
    BY DEF AnswerInv, ExchangeInv, TypeOK
  <2>3. Whole(msg) /\ NoReply(msg)
    BY <2>2, WholeMessages
  <2> QED
    BY <2>1, <2>3
<1>2. CASE SendNotice
  <2>1. PICK kind \in Notices : rx' = rx \o NoticeText(kind)
    BY <1>2 DEF SendNotice, Send
  <2>2. kind \in {"cmt", "cmtAlpha", "cmti", "cdsi"}
    BY BoundAssumption
  <2>3. Whole(NoticeText(kind)) /\ NoReply(NoticeText(kind))
    BY <2>2, WholeMessages
  <2> QED
    BY <2>1, <2>3
<1> QED
  BY <1>1, <1>2

\* A URC comes.
LEMMA Noticed ==
  ASSUME AnswerInv, SendReport \/ SendNotice
  PROVE  ReplyInv' /\ OkInv' /\ GrantInv'
<1>1. UNCHANGED <<owner, pc, call, step, cmd, buf, late, made, tx, granted, result>>
  BY DEF SendReport, SendNotice, hostVars, callVars
<1>2. GrantInv'
  BY <1>1, NothingGranted DEF AnswerInv
<1>3. \E msg : Whole(msg) /\ NoReply(msg) /\ rx' = rx \o msg
  BY NoticeSent
<1>4. ReplyInv' /\ OkInv'
  BY <1>1, <1>3, NoticeReply
<1> QED
  BY <1>2, <1>4

LEMMA ModemAnswers ==
  ASSUME AnswerInv, Modem
  PROVE  ReplyInv' /\ OkInv' /\ GrantInv'
<1>1. CASE Answer
  <2>1. Handle /\ UNCHANGED <<hostVars, callVars>> /\ Head(tx).kind # "pdu"
    BY <1>1 DEF Answer
  <2>2. Head(tx).kind # "list"
    <3>1. PICK t \in Threads : Head(tx) = InputOf(t, Due(t), cmd[t])
      BY <2>1, InputDue
    <3> QED
      BY <3>1 DEF InputOf, Due
  <2>3. \/ Head(tx).kind = "cmgs" /\ Send(<<NL, Mark("gt", Head(tx).of)>>) /\ UNCHANGED granted
        \/ Head(tx).kind = "line" /\ Reply("ok", Head(tx).of) /\ Grant(Head(tx))
        \/ /\ rx' = rx \/ \E kind \in {"error", "cms"} : Reply(kind, Head(tx).of)
           /\ UNCHANGED granted
    BY <1>1, <2>2 DEF Answer
  <2> QED
    BY <2>1, <2>3, Prompted, Granted, Rejected
<1>2. CASE Submit
  <2>1. Handle /\ UNCHANGED <<hostVars, callVars>> /\ Head(tx).kind = "pdu"
    BY <1>2 DEF Submit
  <2>2. \/ Grant(Head(tx)) /\ (Reply("ok", Head(tx).of) \/ rx' = rx)
        \/ Reply("cms", Head(tx).of) /\ UNCHANGED granted
    BY <1>2 DEF Submit
  <2> QED
    BY <2>1, <2>2, Granted, Rejected
<1>3. CASE Swallow
  <2>1. Handle /\ UNCHANGED <<hostVars, callVars, granted>> /\ rx' = rx
    BY <1>3 DEF Swallow
  <2> QED
    BY <2>1, Rejected
<1> QED
  BY <1>1, <1>2, <1>3, Noticed DEF Modem

-----------------------------------------------------------------------------
(***************************************************************************)
(* The invariant holds.                                                    *)
(***************************************************************************)
LEMMA AnswerInit == Init => AnswerInv
<1> SUFFICES ASSUME Init PROVE AnswerInv
  OBVIOUS
<1>1. ExchangeInv
  BY ExchangeInit
<1>2. /\ \A t \in Threads : /\ pc[t] = "idle" /\ buf[t] = <<>> /\ result[t] = "none"
                            /\ call[t] = [op |-> "at", n |-> 1]
      /\ tx = <<>> /\ granted = <<>>
  BY DEF Init
<1>3. BuffersOutside
  BY <1>2 DEF BuffersOutside
<1>4. CallPlaces
  BY <1>2 DEF CallPlaces, Placed, SplitCalls, Held, Places
<1>5. Ahead = <<>>
  BY ThreadAssumption, ConcatEmptySeq DEF Init, Ahead
<1>6. ReplyInv
  BY <1>2, <1>5 DEF ReplyInv, NoReply, Awaiting, Prompting, Waiting
<1>7. GrantInv
  <2>1. \A t \in Threads : Mine(t) = {} /\ Earned(t) = {}
    BY <1>2 DEF Mine, Earned
  <2> QED
    BY <1>2, <2>1 DEF GrantInv, Accounted, Deserved, Held, Places
<1>8. OkInv
  BY <1>2, <1>5 DEF OkInv, WholeUrcs, OkFramed, Waiting
<1> QED
  BY <1>1, <1>3, <1>4, <1>6, <1>7, <1>8 DEF AnswerInv

LEMMA AnswerStep ==
  ASSUME Promptly, AnswerInv, [Next]_vars
  PROVE  AnswerInv'
<1>1. ExchangeInv /\ ExchangeInv'
  BY ExchangeStep DEF AnswerInv
<1>2. CASE \E t \in Threads : Move(t)
  <2>1. PICK t \in Threads : Move(t)
    BY <1>2
  <2>2. CallPlaces'
    BY <2>1, PlacesMove DEF AnswerInv
  <2>3. GrantInv'
    BY <2>1, GrantMove
  <2>4. ReplyInv' /\ OkInv'
    BY <2>1, ReplyMove
  <2>5. BuffersOutside'
    BY <2>1, MoveText DEF AnswerInv, OkInv
  <2> QED
    BY <1>1, <2>2, <2>3, <2>4, <2>5 DEF AnswerInv
<1>3. CASE Modem
  <2>1. CallPlaces'
    BY <1>3, PlacesModem DEF AnswerInv
  <2>2. ReplyInv' /\ OkInv' /\ GrantInv'
    BY <1>3, ModemAnswers
  <2>3. UNCHANGED <<pc, buf>>
    BY <1>3 DEF Modem, Answer, Submit, Swallow, SendReport, SendNotice, hostVars
  <2>4. BuffersOutside'
    BY <2>3 DEF AnswerInv, BuffersOutside
  <2> QED
    BY <1>1, <2>1, <2>2, <2>4 DEF AnswerInv
<1>4. CASE UNCHANGED vars
  <2> USE <1>4 DEF vars
  <2>1. CallPlaces'
    BY DEF AnswerInv, CallPlaces, Placed
  <2>2. Ahead' = Ahead
    BY DEF Ahead
  <2>3. \A t \in Threads : Mine(t)' = Mine(t) /\ Earned(t)' = Earned(t)
    BY SameGrants
  <2>4. GrantInv'
    BY NothingGranted DEF AnswerInv
  <2>5. \A t \in Threads : Attuned(t)' = Attuned(t)
    BY <2>2, <2>3 DEF Attuned, Expected, Due, InputOf
  <2>6. ReplyInv'
    BY <2>2, <2>5 DEF AnswerInv, ReplyInv
  <2>7. OkInv'
    BY <2>2, <2>3 DEF AnswerInv, OkInv
  <2>8. BuffersOutside'
    BY DEF AnswerInv, BuffersOutside
  <2> QED
    BY <1>1, <2>1, <2>4, <2>6, <2>7, <2>8 DEF AnswerInv
<1>5. ~ClosePort
  BY <1>1, Connected DEF AnswerInv
<1> QED
  BY <1>2, <1>3, <1>4, <1>5 DEF Next, Run, Move, ThreadSteps, Finished

\* A call never takes the answer to another command for its own: neither to
\* another thread's nor to an earlier one of its own (expect_prompt and
\* poll_response_unlocked in modem.cpp).
THEOREM AnswersAreOwn ==
  ASSUME Promptly
  PROVE  Spec => []OwnReply
<1>1. AnswerInv => OwnReply
  <2> SUFFICES ASSUME AnswerInv, NEW t \in Threads, NEW i \in DOMAIN buf[t],
                      pc[t] \in InExchange,
                      buf[t][i].kind \in FinalResults \union {"text", "gt"}
               PROVE  buf[t][i].of = cmd[t]
    BY DEF OwnReply
  <2>1. pc[t] \in Held /\ buf[t][i].kind \in ReplyKinds
    BY DEF InExchange, Held, Places, ReplyKinds
  <2>2. owner = t /\ Ahead = buf[t] \o rx /\ buf[t] \in Seq(Tokens) /\ rx \in Seq(Tokens)
    BY <2>1, AheadOfHolder DEF AnswerInv
  <2>3. CASE pc[t] \in Awaiting
    <3>1. OneReply(buf[t] \o rx, cmd[t], Expected(t))
      BY <2>2, <2>3 DEF AnswerInv, ReplyInv, Attuned
    <3> QED
      BY <2>1, <2>2, <3>1, ReplyInFirst
  <2>4. CASE pc[t] \notin Awaiting
    <3>1. \A u \in Threads : pc[u] \notin Awaiting
      BY <2>1, <2>4, OthersOutside
         DEF AnswerInv, ExchangeInv, Awaiting, Prompting, Waiting, Held, Places
    <3>2. NoReply(buf[t] \o rx)
      BY <2>2, <3>1 DEF AnswerInv, ReplyInv
    <3>3. NoReply(buf[t])
      BY <2>2, <3>2, NoReplyInParts
    <3> QED
      BY <2>1, <3>3 DEF NoReply
  <2> QED
    BY <2>3, <2>4
<1> QED
  BY <1>1, AnswerInit, AnswerStep, PTL DEF Spec

\* send_message submits its segments in order and waits for each one to be
\* taken before the next (the loop of GsmModem::send_message).
THEOREM SegmentsSerialize ==
  ASSUME Promptly
  PROVE  Spec => []SegmentsInOrder
<1>1. AnswerInv => SegmentsInOrder
  <2> SUFFICES ASSUME AnswerInv, NEW t \in Threads, call[t].op = "send"
               PROVE  /\ \A i, j \in Mine(t) : j - i = granted[j].seg - granted[i].seg
                      /\ pc[t] # "idle" => Earned(t) \in {1..(step[t] - 1), 1..step[t]}
                      /\ pc[t] = "write" => Earned(t) = 1..(step[t] - 1)
    BY DEF SegmentsInOrder
  <2>1. TypeOK /\ Accounted(t) /\ step[t] \in Nat
    BY DEF AnswerInv, GrantInv, ExchangeInv, TypeOK
  <2>2. Base(t) = 1..(step[t] - 1)
    BY <2>1, BaseStep
  <2>3. \A i, j \in Mine(t) : j - i = granted[j].seg - granted[i].seg
    BY <2>1 DEF Accounted
  <2>4. pc[t] # "idle" => Earned(t) \in {1..(step[t] - 1), 1..step[t]}
    <3> SUFFICES ASSUME pc[t] # "idle"
                 PROVE  Earned(t) \in {1..(step[t] - 1), 1..step[t]}
      OBVIOUS
    <3>1. step[t] >= 1 /\ (Earned(t) = Base(t) \/ Earned(t) = Base(t) \union {step[t]})
      BY <2>1 DEF Accounted
    <3>2. 1..(step[t] - 1) \union {step[t]} = 1..step[t]
      BY <2>1, <3>1, NextStep
    <3> QED
      BY <2>2, <3>1, <3>2
  <2>5. pc[t] = "write" => Earned(t) = 1..(step[t] - 1)
    BY <2>1, <2>2 DEF Accounted, Waiting
  <2> QED
    BY <2>3, <2>4, <2>5
<1> QED
  BY <1>1, AnswerInit, AnswerStep, PTL DEF Spec

\* Ok is returned for what the modem did, and for nothing else: every segment
\* taken, the command answered, the three commands of initialize answered and
\* at most one CNMI candidate.
THEOREM OkIsDeserved ==
  ASSUME Promptly
  PROVE  Spec => []SuccessIsEarned
<1>1. AnswerInv => SuccessIsEarned
  <2> SUFFICES ASSUME AnswerInv, NEW t \in Threads, result[t] = "Ok"
               PROVE  /\ call[t].op = "send" => Earned(t) = 1..call[t].n
                      /\ call[t].op = "at" => Earned(t) = {1}
                      /\ call[t].op \in {"open", "init"} =>
                           /\ 1..InitCommands \subseteq Earned(t)
                           /\ Cardinality(Earned(t)) <= InitCommands + 1
    BY DEF SuccessIsEarned
  <2>1. Suffices(Earned(t), call[t])
    BY DEF AnswerInv, GrantInv, Deserved
  <2>2. ASSUME call[t].op \in {"open", "init"}
        PROVE  /\ 1..InitCommands \subseteq Earned(t)
               /\ Cardinality(Earned(t)) <= InitCommands + 1
    <3>1. PICK last \in Earned(t) : Earned(t) \in {1..InitCommands, 1..InitCommands \union {last}}
      BY <2>1, <2>2 DEF Suffices
    <3>2. IsFiniteSet(1..InitCommands) /\ Cardinality(1..InitCommands) = InitCommands
      <4>1. 1 \in Int /\ InitCommands \in Int /\ ~(1 > InitCommands)
            /\ InitCommands - 1 + 1 = InitCommands
        BY DEF InitCommands
      <4> HIDE DEF InitCommands
      <4> QED
        BY <4>1, FS_Interval
    <3>3. \/ Cardinality(1..InitCommands \union {last}) = InitCommands
          \/ Cardinality(1..InitCommands \union {last}) = InitCommands + 1
      BY <3>2, FS_AddElement
    <3>4. InitCommands \in Nat
      BY DEF InitCommands
    <3>5. Cardinality(Earned(t)) \in {InitCommands, InitCommands + 1}
      BY <3>1, <3>2, <3>3
    <3> HIDE DEF InitCommands
    <3> QED
      BY <3>1, <3>4, <3>5
  <2> QED
    BY <2>1, <2>2 DEF Suffices
<1> QED
  BY <1>1, AnswerInit, AnswerStep, PTL DEF Spec

-----------------------------------------------------------------------------
(***************************************************************************)
(* The modem enters the text of a message only for the call that is about  *)
(* to write it.  The invariant follows the prompt to the PDU: the prompt   *)
(* is on its way or read and not yet looked at, the PDU is about to be     *)
(* written, or it is on the line.                                          *)
(***************************************************************************)
Typing(t) ==
  \/ /\ pc[t] \in Prompting /\ tx = <<>> /\ ~late[t]
     /\ Holds(Ahead, "gt")
     /\ pc[t] = "prompt" => ~Holds(buf[t], "gt")
  \/ pc[t] = "body"
  \/ pc[t] \in Waiting /\ call[t].op = "send" /\ tx # <<>>

TextInv == mode = "text" => \E t \in Threads : Typing(t)

\* Demultiplexing takes no prompt and no result.
LEMMA EraseKeeps ==
  ASSUME NEW b \in Seq(Tokens), NEW r \in Seq(Tokens), CanErase(b), WholeUrcs(b \o r),
         NEW kind \in ReplyKinds, Holds(b \o r, kind)
  PROVE  Holds(EraseFirst(b) \o r, kind)
<1> DEFINE s == b \o r
           t == EraseFirst(b) \o r
           i == FirstUrc(b)
           e == UrcEnd(b, i)
           d == e + 1 - i
<1>1. /\ s \in Seq(Tokens) /\ i \in 1..Len(b) /\ e \in (i + 1)..Len(b)
      /\ Len(b) <= Len(s)
  BY ErasedPlace
<1>2. t \in Seq(Tokens) /\ Spliced(t, s, i, d)
  BY ErasedText
<1>3. \A p \in i..e : s[p].kind \in TagKinds \union {"num", "alpha", "pdu", "nl"}
  BY ErasedIsUrc
<1>4. PICK p \in DOMAIN s : s[p].kind = kind
  BY DEF Holds
<1> HIDE DEF s, t, i, e, d
<1>5. /\ Len(t) = Len(s) - d /\ DOMAIN t = 1..Len(t) /\ DOMAIN s = 1..Len(s)
      /\ \A k \in 1..Len(t) : t[k] = IF k < i THEN s[k] ELSE s[k + d]
  BY <1>1, <1>2 DEF Spliced
<1>6. /\ i \in Nat /\ e \in Nat /\ i >= 1 /\ e > i /\ e <= Len(s)
      /\ Len(s) \in Nat /\ Len(t) \in Nat /\ d \in Nat
  <2>1. Len(b) \in Nat /\ Len(s) \in Nat /\ Len(t) \in Nat
    BY <1>1, <1>2
  <2> QED
    BY <1>1, <2>1 DEF d
<1>7. p \in 1..Len(s) /\ p \notin i..e
  <2>1. kind \notin TagKinds \union {"num", "alpha", "pdu", "nl"}
    BY DEF ReplyKinds, FinalResults, TagKinds
  <2> QED
    BY <1>3, <1>4, <1>5, <2>1
<1>8. CASE p < i
  <2>1. p \in 1..Len(t) /\ t[p] = s[p]
    BY <1>5, <1>6, <1>7, <1>8 DEF d
  <2> QED
    BY <1>4, <1>5, <2>1 DEF Holds, t
<1>9. CASE p > e
  <2> DEFINE k == p - d
  <2>1. k \in 1..Len(t) /\ ~(k < i) /\ k + d = p
    BY <1>5, <1>6, <1>7, <1>9 DEF d
  <2>2. t[k] = s[p]
    BY <1>5, <2>1
  <2> HIDE DEF k
  <2> QED
    BY <1>4, <1>5, <2>1, <2>2 DEF Holds, t
<1> QED
  BY <1>6, <1>7, <1>8, <1>9

\* Two replies in what is ahead are one.
LEMMA TheReply ==
  ASSUME AnswerInv, NEW t \in Threads, pc[t] \in Awaiting,
         NEW i \in DOMAIN buf[t], buf[t][i].kind \in ReplyKinds
  PROVE  /\ tx = <<>>
         /\ \A kind \in ReplyKinds : Holds(Ahead, kind) => kind = buf[t][i].kind
<1>1. Attuned(t) /\ pc[t] \in Held
  BY DEF AnswerInv, ReplyInv, Awaiting, Prompting, Waiting, Held, Places
<1>2. Ahead = buf[t] \o rx /\ buf[t] \in Seq(Tokens) /\ rx \in Seq(Tokens)
  BY <1>1, AheadOfHolder DEF AnswerInv
<1>3. i \in DOMAIN Ahead /\ Ahead[i] = buf[t][i]
  BY <1>2, ConcatElements
<1>4. tx = <<>>
  BY <1>1, <1>3 DEF Attuned, NoReply
<1>5. \A j \in DOMAIN Ahead : Ahead[j].kind \in ReplyKinds => j = i
  BY <1>1, <1>3 DEF Attuned, OneReply
<1> QED
  BY <1>3, <1>4, <1>5 DEF Holds

LEMMA TypingMove ==
  ASSUME Promptly, "write" \notin Faults, AnswerInv,
         NEW t \in Threads, Typing(t), Move(t)
  PROVE  Typing(t)'
<1>1. /\ ExchangeInv /\ TypeOK /\ CallPlaces /\ Placed(t) /\ pc[t] \in Held /\ portOpen
      /\ ~ReadFails /\ ~WriteFails
  <2>1. ExchangeInv /\ TypeOK /\ CallPlaces /\ Placed(t)
    BY DEF AnswerInv, ExchangeInv, CallPlaces
  <2>2. pc[t] \in Held
    BY DEF Typing, Prompting, Waiting, Held, Places
  <2> QED
    BY <2>1, <2>2, Connected DEF Placed, WriteFails
<1>2. /\ owner = t /\ Ahead = buf[t] \o rx
      /\ buf[t] \in Seq(Tokens) /\ rx \in Seq(Tokens) /\ Ahead \in Seq(Tokens)
  BY <1>1, AheadOfHolder
<1>3. CASE pc[t] \in Prompting
  <2>1. tx = <<>> /\ ~late[t] /\ Holds(Ahead, "gt") /\ (pc[t] = "prompt" => ~Holds(buf[t], "gt"))
    BY <1>3 DEF Typing, Prompting, Waiting
  <2>2. \/ ReadPrompt(t) \/ PromptRead(t) \/ NoPrompt(t) \/ Expire(t) \/ EraseUrc(t)
    BY <1>1, <1>3 DEF Move, ThreadSteps, Start, Refuse, OpenFails, Enter, WriteCommand,
       WriteCommandFails, WaitAfterRequest, Poll, PollAgain, EndOfWait, ReadPromptFails,
       WritePdu, WritePduFails, TakeQueued, FirstDrain, Drain, TakeDrained, DrainAgain,
       NoReport, Status, Free, Prompting
  <2>3. CASE ReadPrompt(t)
    <3>1. pc'[t] = "promptDemux" /\ UNCHANGED <<tx, late, owner>> /\ Read(t, 1)
      BY <1>1, <2>3 DEF ReadPrompt, Goto, TypeOK, modemVars
    <3>2. Ahead' = Ahead
      BY <1>1, <3>1, ReadReply
    <3> QED
      BY <2>1, <3>1, <3>2 DEF Typing, Prompting
  <2>4. CASE PromptRead(t)
    <3>1. UNCHANGED <<tx, late, owner, rx>>
      BY <2>4 DEF PromptRead, modemVars
    <3>2. CASE Holds(buf[t], "gt")
      <4>1. pc'[t] = "body"
        BY <1>1, <2>4, <3>2 DEF PromptRead, Goto, TypeOK
      <4> QED
        BY <4>1 DEF Typing
    <3>3. CASE ~Holds(buf[t], "gt")
      <4>1. pc'[t] = "prompt" /\ buf' = buf
        BY <1>1, <2>4, <3>3 DEF PromptRead, Goto, TypeOK
      <4>2. Ahead' = Ahead
        BY <3>1, <4>1 DEF Ahead
      <4> QED
        BY <2>1, <3>1, <3>3, <4>1, <4>2 DEF Typing, Prompting
    <3> QED
      BY <3>2, <3>3
  <2>5. ~NoPrompt(t)
    <3> SUFFICES ASSUME ClassifyResponse(buf[t]) = "Error" PROVE FALSE
      BY <2>1 DEF NoPrompt
    <3>1. PICK i \in DOMAIN buf[t] : buf[t][i].kind \in FinalResults
      BY ResultIsReply
    <3>2. buf[t][i].kind \in ReplyKinds /\ "gt" \in ReplyKinds /\ buf[t][i].kind # "gt"
      BY <3>1 DEF ReplyKinds, FinalResults
    <3>3. pc[t] \in Awaiting
      BY <1>3 DEF Awaiting
    <3> QED
      BY <2>1, <3>2, <3>3, TheReply
  <2>6. ~Expire(t)
    <3> SUFFICES ASSUME Expire(t) PROVE FALSE
      OBVIOUS
    <3>1. pc[t] = "prompt" /\ rx = <<>>
      BY <1>3 DEF Expire, Promptly, Quiet, Prompting
    <3>2. Ahead = buf[t]
      BY <1>2, <3>1, ConcatEmptySeq
    <3> QED
      BY <2>1, <3>1, <3>2
  <2>7. CASE EraseUrc(t)
    <3>1. UNCHANGED <<pc, tx, late>> /\ pc[t] # "prompt"
      BY <2>7 DEF EraseUrc, modemVars
    <3>2. WholeUrcs(Ahead) /\ BuffersOutside
      BY DEF AnswerInv, OkInv
    <3>3. CanErase(buf[t]) /\ Ahead' = EraseFirst(buf[t]) \o rx
      BY <1>1, <2>7, <3>2, MoveText
    <3>4. Holds(buf[t] \o rx, "gt") /\ WholeUrcs(buf[t] \o rx) /\ "gt" \in ReplyKinds
      BY <1>2, <2>1, <3>2 DEF ReplyKinds
    <3>5. Holds(Ahead', "gt")
      BY <1>2, <3>3, <3>4, EraseKeeps
    <3> QED
      BY <1>3, <2>1, <3>1, <3>5 DEF Typing
  <2> QED
    BY <2>2, <2>3, <2>4, <2>5, <2>6, <2>7
<1>4. CASE pc[t] = "body"
  <2>1. WritePdu(t)
    BY <1>1, <1>4 DEF Move, ThreadSteps, Start, Refuse, OpenFails, Enter, WriteCommand,
       WriteCommandFails, WaitAfterRequest, Poll, PollAgain, EndOfWait, ReadPromptFails,
       WritePduFails, TakeQueued, FirstDrain, Drain, TakeDrained, DrainAgain,
       NoReport, Status, Free, ReadPrompt, PromptRead, NoPrompt, Expire, EraseUrc
  <2>2. pc'[t] = "wait" /\ call' = call /\ tx' = Append(tx, InputOf(t, "pdu", cmd[t]))
    BY <1>1, <2>1 DEF WritePdu, Goto, TypeOK, callVars
  <2>3. tx' # <<>>
    <3> DEFINE x == InputOf(t, "pdu", cmd[t])
    <3>1. tx \in Seq(Input) /\ tx' = Append(tx, x)
      BY <1>1, <2>2 DEF TypeOK
    <3> HIDE DEF x
    <3>2. Len(Append(tx, x)) = Len(tx) + 1 /\ Len(tx) \in Nat
      BY <3>1
    <3>3. Len(tx') # 0
      BY <3>1, <3>2
    <3> QED
      BY <3>3
  <2>4. call[t].op = "send"
    BY <1>1, <1>4 DEF Placed
  <2> QED
    BY <2>2, <2>3, <2>4 DEF Typing, Waiting
<1>5. CASE pc[t] \in Waiting
  <2>1. call[t].op = "send" /\ tx # <<>>
    BY <1>5 DEF Typing, Prompting, Waiting
  <2>2. Poll(t) \/ PollAgain(t) \/ EndOfWait(t) \/ Expire(t) \/ EraseUrc(t)
    BY <1>1, <1>5 DEF Move, ThreadSteps, Start, Refuse, OpenFails, Enter, WriteCommand,
       WriteCommandFails, WaitAfterRequest, ReadPrompt, ReadPromptFails, PromptRead, NoPrompt,
       WritePdu, WritePduFails, TakeQueued, FirstDrain, Drain, TakeDrained, DrainAgain,
       NoReport, Status, Free, Waiting
  <2>3. CASE Poll(t) \/ PollAgain(t) \/ EraseUrc(t)
    <3>1. pc'[t] \in Waiting /\ UNCHANGED <<call, tx>>
      BY <1>1, <1>5, <2>3 DEF Poll, PollAgain, EraseUrc, Goto, TypeOK, Waiting, callVars,
                              modemVars
    <3> QED
      BY <2>1, <3>1 DEF Typing
  <2>4. ~EndOfWait(t)
    <3> SUFFICES ASSUME EndOfWait(t) PROVE FALSE
      OBVIOUS
    <3>1. pc[t] \in Awaiting
      BY <1>5 DEF Awaiting
    <3>2. ~late[t]
      BY <2>1, <3>1 DEF AnswerInv, ReplyInv, Attuned
    <3>3. ClassifyResponse(buf[t]) # "Wait"
      BY <3>2 DEF EndOfWait
    <3>4. PICK i \in DOMAIN buf[t] : buf[t][i].kind \in ReplyKinds
      BY <3>3, ResultIsReply DEF ReplyKinds
    <3> QED
      BY <2>1, <3>1, <3>4, TheReply
  <2>5. ~Expire(t)
    BY <1>5, <2>1 DEF Expire, Promptly, Quiet, Waiting
  <2> QED
    BY <2>2, <2>3, <2>4, <2>5
<1> QED
  BY <1>3, <1>4, <1>5 DEF Typing

\* What the modem does for anybody else leaves the call where it is.
LEMMA TypingModem ==
  ASSUME AnswerInv, NEW t \in Threads, Typing(t), SendReport \/ SendNotice
  PROVE  Typing(t)'
<1>1. UNCHANGED <<owner, pc, call, buf, late, tx>>
  BY DEF SendReport, SendNotice, hostVars, callVars
<1>2. /\ TypeOK /\ Ahead \in Seq(Tokens)
  BY AheadIsText DEF AnswerInv, ExchangeInv, TypeOK
<1>3. PICK msg \in Seq(Tokens) : rx' = rx \o msg
  BY NoticeSent DEF Whole
<1>4. Ahead' = Ahead \o msg
  BY <1>1, <1>2, <1>3, AheadAppend
<1>5. Holds(Ahead, "gt") => Holds(Ahead', "gt")
  <2> SUFFICES ASSUME Holds(Ahead, "gt") PROVE Holds(Ahead \o msg, "gt")
    BY <1>4
  <2>1. PICK i \in DOMAIN Ahead : Ahead[i].kind = "gt"
    BY DEF Holds
  <2>2. i \in DOMAIN (Ahead \o msg) /\ (Ahead \o msg)[i] = Ahead[i]
    BY <1>2, ConcatElements
  <2> QED
    BY <2>1, <2>2 DEF Holds
<1> QED
  BY <1>1, <1>5 DEF Typing

LEMMA TextStep ==
  ASSUME Promptly, "write" \notin Faults, AnswerInv, TextInv, NoCommandInText, [Next]_vars
  PROVE  TextInv'
<1> SUFFICES ASSUME mode' = "text" PROVE \E t \in Threads : Typing(t)'
  BY DEF TextInv
<1>1. ExchangeInv /\ TypeOK /\ CallPlaces
  BY DEF AnswerInv, ExchangeInv
<1>2. CASE \E u \in Threads : Move(u)
  <2>1. PICK u \in Threads : Move(u)
    BY <1>2
  <2>2. mode' = mode
    BY <2>1 DEF Move, ThreadSteps, Start, Refuse, OpenFails, Enter, WriteCommand,
       WriteCommandFails, WaitAfterRequest, Poll, PollAgain, EndOfWait, EraseUrc, Expire,
       ReadPrompt, ReadPromptFails, PromptRead, NoPrompt, WritePdu, WritePduFails,
       TakeQueued, FirstDrain, Drain, TakeDrained, DrainAgain, NoReport, modemVars
  <2>3. PICK t \in Threads : Typing(t)
    BY <2>2 DEF TextInv
  <2>4. CASE u = t
    BY <2>1, <2>3, <2>4, TypingMove
  <2>5. CASE u # t
    <3>1. pc[t] \in Held
      BY <2>3 DEF Typing, Prompting, Waiting, Held, Places
    <3>2. Start(u) /\ t \in Threads \ {u}
      BY <1>1, <2>1, <2>5, <3>1, OnlyStart
    <3>3. UNCHANGED <<owner, buf, rx, tx>> /\ Ahead' = Ahead
      BY <3>2 DEF Start, modemVars, Ahead
    <3>4. pc'[t] = pc[t] /\ call'[t] = call[t] /\ late'[t] = late[t]
      BY <1>1, <2>1, <3>2, OthersStay
    <3> QED
      BY <2>3, <3>3, <3>4 DEF Typing
  <2> QED
    BY <2>4, <2>5
<1>3. CASE Answer
  <2>1. /\ Handle /\ UNCHANGED <<hostVars, callVars>>
        /\ Head(tx).kind = "cmgs" /\ Send(<<NL, Mark("gt", Head(tx).of)>>)
    BY <1>3 DEF Answer
  <2>2. PICK t \in Threads :
          /\ pc[t] \in Awaiting /\ portOpen /\ ~late[t] /\ NoReply(Ahead)
          /\ pc[t] \in Held
          /\ Head(tx) = InputOf(t, Due(t), cmd[t]) /\ tx' = <<>> /\ cmd[t] \in Nat
    BY <2>1, InputDue
  <2>3. pc[t] \in Prompting
    BY <2>1, <2>2 DEF InputOf, Due
  <2> DEFINE msg == <<NL, Mark("gt", cmd[t])>>
  <2>4. rx' = rx \o msg
    <3>1. Head(tx).of = cmd[t]
      BY <2>2 DEF InputOf
    <3> QED
      BY <2>1, <2>2, <3>1 DEF Send
  <2>5. msg \in Seq(Tokens) /\ Holds(msg, "gt")
    <3>1. Whole(msg) /\ Len(msg) = 2 /\ msg[2].kind = "gt"
      BY <2>2, WholeMessages DEF Mark
    <3> QED
      BY <3>1 DEF Whole, Holds
  <2> HIDE DEF msg
  <2>6. Ahead' = Ahead \o msg /\ Ahead \in Seq(Tokens)
    BY <1>1, <2>1, <2>4, <2>5, AheadAppend, AheadIsText DEF hostVars, TypeOK
  <2>7. Holds(Ahead \o msg, "gt")
    <3>1. PICK i \in DOMAIN msg : msg[i].kind = "gt"
      BY <2>5 DEF Holds
    <3>2. Len(Ahead) + i \in DOMAIN (Ahead \o msg) /\ (Ahead \o msg)[Len(Ahead) + i] = msg[i]
      <4>1. /\ Len(Ahead \o msg) = Len(Ahead) + Len(msg) /\ Ahead \o msg \in Seq(Tokens)
            /\ (Ahead \o msg)[Len(Ahead) + i] = msg[i]
        BY <2>5, <2>6, <3>1, ConcatElements
      <4>2. i \in 1..Len(msg) /\ Len(Ahead) \in Nat /\ Len(msg) \in Nat
        BY <2>5, <2>6, <3>1
      <4>3. Len(Ahead) + i \in 1..Len(Ahead \o msg)
        BY <4>1, <4>2
      <4> QED
        BY <4>1, <4>3
    <3> QED
      BY <3>1, <3>2 DEF Holds
  <2>8. ~Holds(buf[t], "gt")
    <3>1. Ahead = buf[t] \o rx /\ buf[t] \in Seq(Tokens) /\ rx \in Seq(Tokens)
      BY <1>1, <2>2, AheadOfHolder
    <3>2. NoReply(buf[t])
      BY <2>2, <3>1, NoReplyInParts
    <3> QED
      BY <3>2 DEF NoReply, Holds, ReplyKinds
  <2>9. UNCHANGED <<pc, late, buf>>
    BY <2>1 DEF hostVars
  <2> QED
    BY <2>2, <2>3, <2>6, <2>7, <2>8, <2>9 DEF Typing
<1>4. ~Submit
  BY DEF Submit
<1>5. ~Swallow
  <2> SUFFICES ASSUME Swallow PROVE FALSE
    OBVIOUS
  <2>1. mode = "text" /\ tx # <<>> /\ Head(tx).kind # "pdu"
    BY DEF Swallow, Handle
  <2>2. 1 \in DOMAIN tx /\ Head(tx) = tx[1]
    BY <1>1, <2>1 DEF TypeOK
  <2> QED
    BY <2>1, <2>2 DEF NoCommandInText
<1>6. CASE SendReport \/ SendNotice
  <2>1. mode' = mode
    BY <1>6 DEF SendReport, SendNotice
  <2>2. PICK t \in Threads : Typing(t)
    BY <2>1 DEF TextInv
  <2> QED
    BY <1>6, <2>2, TypingModem
<1>7. CASE UNCHANGED vars
  <2>1. Ahead' = Ahead
    BY <1>7 DEF vars, Ahead
  <2>2. PICK t \in Threads : Typing(t)
    BY <1>7 DEF TextInv, vars
  <2> QED
    BY <1>7, <2>1, <2>2 DEF Typing, vars
<1>8. ~ClosePort
  BY <1>1, Connected
<1> QED
  BY <1>2, <1>3, <1>4, <1>5, <1>6, <1>7, <1>8
     DEF Next, Run, Move, ThreadSteps, Finished, Modem

LEMMA TextOnlyPdu ==
  ASSUME AnswerInv, TextInv
  PROVE  NoCommandInText
<1> SUFFICES ASSUME mode = "text", NEW i \in DOMAIN tx PROVE tx[i].kind = "pdu"
  BY DEF NoCommandInText
<1>1. PICK t \in Threads : Typing(t)
  BY DEF TextInv
<1>2. tx # <<>>
  OBVIOUS
<1>3. CASE pc[t] \in Waiting /\ call[t].op = "send"
  <2>1. tx = <<InputOf(t, Due(t), cmd[t])>>
    BY <1>2, <1>3 DEF AnswerInv, ReplyInv, Attuned, Awaiting
  <2>2. Due(t) = "pdu"
    BY <1>3 DEF Due, Prompting, Waiting
  <2> QED
    BY <2>1, <2>2 DEF InputOf
<1>4. pc[t] # "body"
  <2> SUFFICES ASSUME pc[t] = "body" PROVE FALSE
    OBVIOUS
  <2>1. pc[t] \in Held /\ pc[t] \notin Awaiting
    BY DEF Held, Places, Awaiting, Prompting, Waiting
  <2>2. \A u \in Threads : pc[u] \notin Awaiting
    BY <2>1, OthersOutside
       DEF AnswerInv, ExchangeInv, Awaiting, Prompting, Waiting, Held, Places
  <2> QED
    BY <1>2, <2>2 DEF AnswerInv, ReplyInv
<1> QED
  BY <1>1, <1>2, <1>3, <1>4 DEF Typing

\* No command is written while the modem waits for the text of a message: a
\* call that was given the prompt writes its PDU before it lets the mutex go,
\* and one that gives up was not given it (send_encoded_pdu in modem.cpp).  A
\* write that fails after the prompt breaks this, and is left out.
THEOREM NoCommandIsText ==
  ASSUME Promptly, "write" \notin Faults
  PROVE  Spec => []NoCommandInText
<1>1. Init => AnswerInv /\ TextInv
  BY AnswerInit DEF Init, TextInv
<1>2. AnswerInv /\ TextInv /\ [Next]_vars => (AnswerInv /\ TextInv)'
  BY AnswerStep, TextStep, TextOnlyPdu
<1>3. AnswerInv /\ TextInv => NoCommandInText
  BY TextOnlyPdu
<1> QED
  BY <1>1, <1>2, <1>3, PTL DEF Spec

-----------------------------------------------------------------------------
(***************************************************************************)
(* What the calls do with the reports and the other URCs in the text they  *)
(* read: none is decoded twice or out of nothing, one is lost only with a  *)
(* fragment, and none of their text is left for a call.                    *)
(***************************************************************************)
(***************************************************************************)
(* The reports of a text when it is cut, appended to or demultiplexed.     *)
(***************************************************************************)
\* n is the report of the complete URC at i.
Yields(s, i, n) ==
  i \in UrcTags(s) /\ UrcComplete(s, i) /\ n = ReportAt(s, i) /\ n # 0

LEMMA ReportsYielded ==
  ASSUME NEW s
  PROVE  \A n : n \in ReportsIn(s) <=> \E i \in DOMAIN s : Yields(s, i, n)
BY DEF ReportsIn, Yields, UrcTags, IsReport

\* A report is decoded from the PDU behind a +CDS.
LEMMA YieldedPdu ==
  ASSUME NEW s \in Seq(Tokens), NEW i \in DOMAIN s, NEW n, Yields(s, i, n)
  PROVE  /\ s[i].kind = "cds"
         /\ \E p \in DOMAIN s : i < p /\ IsReportPdu(s[p]) /\ s[p].of = n
<1> DEFINE h == HeaderEnd(s, i)
           e == UrcEnd(s, i)
<1>1. /\ s[i].kind = "cds" /\ e = (h + 1) + 1
      /\ s[h + 1].kind = "pdu" /\ s[h + 1].of = n /\ n # 0
  BY DEF Yields, ReportAt
<1>2. h \in NewlinesAfter(s, i) /\ e \in NewlinesAfter(s, i)
  BY UrcEndInText DEF Yields
<1> HIDE DEF h, e
<1>3. h + 1 \in DOMAIN s /\ i < h + 1
  BY <1>1, <1>2 DEF NewlinesAfter
<1> QED
  BY <1>1, <1>3 DEF IsReportPdu

\* A report whose tag lies behind the beginning a is one of the rest.
LEMMA LaterReport ==
  ASSUME NEW a \in Seq(Tokens), NEW b \in Seq(Tokens), NEW i \in DOMAIN (a \o b), NEW n,
         Yields(a \o b, i, n), i > Len(a)
  PROVE  n \in ReportsIn(b)
<1> DEFINE s == a \o b
           c == 0 - Len(a)
           j == i + c
           e == UrcEnd(s, i)
<1>1. /\ s \in Seq(Tokens) /\ Len(s) = Len(a) + Len(b) /\ Len(a) \in Nat /\ Len(b) \in Nat
      /\ \A k \in 1..Len(b) : s[Len(a) + k] = b[k]
  BY ConcatElements
<1>2. Yields(s, i, n) /\ i \in 1..Len(s)
  BY <1>1
<1>3. e \in NewlinesAfter(s, i)
  BY <1>1, <1>2, UrcEndInText DEF Yields
<1> HIDE DEF s, e
<1>4. e \in 1..Len(s) /\ i < e
  BY <1>1, <1>3 DEF NewlinesAfter
<1>5. j \in 1..Len(b) /\ c \in Int /\ e + c <= Len(b)
  BY <1>1, <1>2, <1>4
<1>6. \A k \in i..e : b[k + c] = s[k]
  <2> SUFFICES ASSUME NEW k \in i..e PROVE b[k + c] = s[k]
    OBVIOUS
  <2>1. k + c \in 1..Len(b) /\ Len(a) + (k + c) = k
    BY <1>1, <1>2, <1>4
  <2> QED
    BY <1>1, <2>1
<1>7. UrcComplete(b, j) /\ ReportAt(b, j) = ReportAt(s, i)
  <2>1. UrcComplete(s, i) /\ i + c >= 1
    BY <1>2, <1>5 DEF Yields
  <2> HIDE DEF c
  <2>2. UrcComplete(b, i + c) /\ ReportAt(b, i + c) = ReportAt(s, i)
    BY <1>1, <1>2, <1>5, <1>6, <2>1, SameReport DEF e
  <2> QED
    BY <2>2
<1>8. b[j] = s[i]
  BY <1>4, <1>6
<1>9. IsLineStart(b, j)
  <2> SUFFICES ASSUME j # 1 PROVE b[j - 1].kind = "nl"
    BY DEF IsLineStart
  <2>1. j - 1 \in 1..Len(b) /\ Len(a) + (j - 1) = i - 1 /\ i # 1
    BY <1>1, <1>5
  <2>2. s[i - 1] = b[j - 1]
    BY <1>1, <2>1
  <2> QED
    BY <1>2, <2>1, <2>2 DEF Yields, UrcTags, IsUrcTag, IsLineStart
<1>10. Yields(b, j, n) /\ j \in DOMAIN b
  BY <1>2, <1>5, <1>7, <1>8, <1>9 DEF Yields, UrcTags, IsUrcTag
<1> QED
  BY <1>10, ReportsYielded

\* Dropping a beginning without URCs drops no report.
LEMMA ReportsAfterDrop ==
  ASSUME NEW a \in Seq(Tokens), NEW b \in Seq(Tokens), UrcTags(a) = {}
  PROVE  ReportsIn(a \o b) \subseteq ReportsIn(b)
<1> DEFINE s == a \o b
<1>1. /\ Len(s) = Len(a) + Len(b) /\ Len(a) \in Nat /\ Len(b) \in Nat /\ DOMAIN s = 1..Len(s)
      /\ \A k \in 1..Len(a) : s[k] = a[k]
  BY ConcatProperties
<1> SUFFICES ASSUME NEW n \in ReportsIn(s) PROVE n \in ReportsIn(b)
  BY DEF s
<1>2. PICK i \in DOMAIN s : Yields(s, i, n)
  BY ReportsYielded
<1>3. i > Len(a)
  <2> SUFFICES ASSUME i <= Len(a) PROVE FALSE
    BY <1>1
  <2>1. s[i] = a[i] /\ i \in DOMAIN a /\ (i # 1 => s[i - 1] = a[i - 1])
    BY <1>1
  <2>2. i \in UrcTags(a)
    BY <1>2, <2>1 DEF Yields, UrcTags, IsUrcTag, IsLineStart
  <2> QED
    BY <2>2
<1> QED
  BY <1>2, <1>3, LaterReport

\* Dropping any beginning adds none, when every +CDS led a line.
LEMMA DropAddsNone ==
  ASSUME NEW a \in Seq(Tokens), NEW b \in Seq(Tokens), TagsLead(a \o b)
  PROVE  ReportsIn(b) \subseteq ReportsIn(a \o b)
<1> DEFINE s == a \o b
           c == Len(a)
<1>1. /\ s \in Seq(Tokens) /\ Len(s) = c + Len(b) /\ c \in Nat /\ Len(b) \in Nat
      /\ \A k \in 1..Len(b) : s[c + k] = b[k]
  BY ConcatElements
<1>2. TagsLead(s)
  OBVIOUS
<1> SUFFICES ASSUME NEW n \in ReportsIn(b) PROVE n \in ReportsIn(s)
  BY DEF s
<1> HIDE DEF s, c
<1>3. PICK j \in DOMAIN b : Yields(b, j, n)
  BY ReportsYielded
<1> DEFINE e == UrcEnd(b, j)
<1>4. e \in NewlinesAfter(b, j) /\ b[j].kind = "cds"
  BY <1>3, UrcEndInText, YieldedPdu DEF Yields
<1> HIDE DEF e
<1>5. j \in 1..Len(b) /\ e \in 1..Len(b) /\ j < e
  BY <1>1, <1>4 DEF NewlinesAfter
<1>6. \A k \in j..e : s[k + c] = b[k]
  <2> SUFFICES ASSUME NEW k \in j..e PROVE s[k + c] = b[k]
    OBVIOUS
  <2>1. k \in 1..Len(b) /\ k + c = c + k
    BY <1>1, <1>5
  <2> QED
    BY <1>1, <2>1
<1>7. UrcComplete(s, j + c) /\ ReportAt(s, j + c) = ReportAt(b, j)
  <2>1. e + c <= Len(s) /\ j + c >= 1 /\ c \in Int
    BY <1>1, <1>5
  <2> QED
    BY <1>1, <1>3, <1>5, <1>6, <2>1, SameReport DEF Yields, e
<1>8. s[j + c] = b[j] /\ j + c \in DOMAIN s
  BY <1>1, <1>5, <1>6
<1>9. j + c \in UrcTags(s)
  BY <1>2, <1>4, <1>8 DEF UrcTags, IsUrcTag, TagKinds, TagsLead
<1>10. Yields(s, j + c, n)
  BY <1>3, <1>7, <1>9 DEF Yields
<1> QED
  BY <1>8, <1>10, ReportsYielded

LEMMA CutAddsNone ==
  ASSUME NEW a \in Seq(Tokens), NEW b \in Seq(Tokens)
  PROVE  ReportsIn(a) \subseteq ReportsIn(a \o b)
<1> SUFFICES ASSUME NEW n \in ReportsIn(a) PROVE n \in ReportsIn(a \o b)
  OBVIOUS
<1>1. PICK i \in DOMAIN a : Yields(a, i, n)
  BY ReportsYielded
<1>2. Yields(a \o b, i, n)
  BY <1>1, AppendKeeps DEF Yields
<1>3. i \in DOMAIN (a \o b)
  BY <1>2 DEF Yields, UrcTags
<1> QED
  BY <1>2, <1>3, ReportsYielded

\* A URC that is whole is complete.
LEMMA WholeIsComplete ==
  ASSUME NEW s \in Seq(Tokens), NEW i \in DOMAIN s, WholeUrc(s, i)
  PROVE  UrcComplete(s, i)
<1>1. i + 2 \in NewlinesAfter(s, i)
  BY DEF WholeUrc, OneLine, TwoLines, NewlinesAfter
<1>2. CASE OneLine(s, i)
  <2>1. ~HasLength(s, i)
    BY <1>2 DEF OneLine, HasLength
  <2> QED
    BY <1>1, <2>1 DEF UrcComplete
<1>3. CASE TwoLines(s, i)
  <2>1. NewlinesAfter(s, i) \in SUBSET Nat
    BY DEF NewlinesAfter
  <2>2. HeaderEnd(s, i) <= i + 2 /\ HeaderEnd(s, i) \in Nat
    BY <1>1, <2>1, MinOfNaturals DEF HeaderEnd
  <2>3. i + 4 \in NewlinesAfter(s, HeaderEnd(s, i))
    BY <1>3, <2>2 DEF TwoLines, NewlinesAfter
  <2> QED
    BY <1>1, <2>3 DEF UrcComplete
<1> QED
  BY <1>2, <1>3 DEF WholeUrc

\* The reports after a message was added: those before and those in it.
LEMMA ReportsAppended ==
  ASSUME NEW a \in Seq(Tokens), NEW b \in Seq(Tokens), WholeUrcs(a)
  PROVE  ReportsIn(a \o b) \subseteq ReportsIn(a) \union ReportsIn(b)
<1> DEFINE s == a \o b
<1>1. /\ Len(s) = Len(a) + Len(b) /\ Len(a) \in Nat /\ Len(b) \in Nat /\ DOMAIN s = 1..Len(s)
      /\ \A k \in 1..Len(a) : s[k] = a[k]
  BY ConcatProperties
<1> SUFFICES ASSUME NEW n \in ReportsIn(s), n \notin ReportsIn(b) PROVE n \in ReportsIn(a)
  BY DEF s
<1>2. PICK i \in DOMAIN s : Yields(s, i, n)
  BY ReportsYielded
<1>3. i \in DOMAIN a /\ s[i] = a[i]
  BY <1>1, <1>2, LaterReport
<1>4. UrcComplete(a, i)
  <2>1. a[i].kind \in TagKinds
    BY <1>2, <1>3 DEF Yields, UrcTags, IsUrcTag
  <2> QED
    BY <1>3, <2>1, WholeIsComplete DEF WholeUrcs
<1>5. Yields(a, i, n)
  BY <1>2, <1>3, <1>4, AppendKeeps DEF Yields
<1> QED
  BY <1>3, <1>5, ReportsYielded

\* What a turn of the loop decodes is the report of the first URC.
LEMMA ErasedIsFirst ==
  ASSUME NEW b \in Seq(Tokens), NEW r \in Seq(Tokens), CanErase(b)
  PROVE  /\ FirstUrc(b) \in DOMAIN (b \o r)
         /\ FirstUrc(b) \in UrcTags(b \o r)
         /\ UrcEnd(b \o r, FirstUrc(b)) = UrcEnd(b, FirstUrc(b))
         /\ \A n : n \in ToSet(ErasedReports(b)) <=> Yields(b \o r, FirstUrc(b), n)
<1> DEFINE i == FirstUrc(b)
<1>1. i \in DOMAIN b /\ i \in UrcTags(b) /\ UrcComplete(b, i)
  BY FirstUrcInText
<1>2. /\ UrcComplete(b \o r, i) /\ ReportAt(b \o r, i) = ReportAt(b, i) /\ i \in UrcTags(b \o r)
      /\ UrcEnd(b \o r, i) = UrcEnd(b, i)
  BY <1>1, AppendKeeps
<1>3. i \in DOMAIN (b \o r)
  BY <1>2 DEF UrcTags
<1>4. ErasedReports(b) = IF ReportAt(b, i) # 0 THEN <<ReportAt(b, i)>> ELSE <<>>
  BY DEF ErasedReports, IsReport
<1> HIDE DEF i
<1>5. ASSUME NEW n PROVE n \in ToSet(ErasedReports(b)) <=> n = ReportAt(b, i) /\ n # 0
  <2>1. CASE ReportAt(b, i) # 0
    <3>1. ErasedReports(b) = <<ReportAt(b, i)>>
      BY <1>4, <2>1
    <3> QED
      BY <2>1, <3>1 DEF ToSet
  <2>2. CASE ReportAt(b, i) = 0
    <3>1. ErasedReports(b) = <<>>
      BY <1>4, <2>2
    <3> QED
      BY <2>2, <3>1 DEF ToSet
  <2> QED
    BY <2>1, <2>2
<1> QED
  BY <1>2, <1>3, <1>5 DEF Yields, i

\* A turn of the loop adds no report.
LEMMA EraseAddsNone ==
  ASSUME NEW b \in Seq(Tokens), NEW r \in Seq(Tokens), CanErase(b), TagsLead(b \o r)
  PROVE  /\ ReportsIn(EraseFirst(b) \o r) \subseteq ReportsIn(b \o r)
         /\ ToSet(ErasedReports(b)) \subseteq ReportsIn(b \o r)
<1> DEFINE s == b \o r
           t == EraseFirst(b) \o r
           i == FirstUrc(b)
           d == UrcEnd(b, i) + 1 - i
<1>1. /\ s \in Seq(Tokens) /\ i \in 1..Len(b) /\ UrcEnd(b, i) \in (i + 1)..Len(b)
      /\ Len(b) <= Len(s)
      /\ \A j \in 1..(i - 1) : s[j].kind \in TagKinds => ~IsLineStart(s, j)
  BY ErasedPlace
<1>2. t \in Seq(Tokens) /\ Spliced(t, s, i, d)
  BY ErasedText
<1>3. TagsLead(s)
  OBVIOUS
<1>4. ToSet(ErasedReports(b)) \subseteq ReportsIn(s)
  BY ErasedIsFirst, ReportsYielded
<1> HIDE DEF s, t, i
<1>5. /\ Len(t) = Len(s) - d /\ DOMAIN t = 1..Len(t) /\ DOMAIN s = 1..Len(s)
      /\ \A k \in 1..Len(t) : t[k] = IF k < i THEN s[k] ELSE s[k + d]
  <2>1. t \in Seq(Tokens) /\ s \in Seq(Tokens)
    BY <1>1, <1>2
  <2>2. Spliced(t, s, i, d)
    BY <1>2
  <2> HIDE DEF d
  <2> QED
    BY <2>1, <2>2 DEF Spliced
<1>6. Len(t) \in Nat /\ Len(s) \in Nat /\ i \in Nat /\ d \in Nat /\ 1 <= i
  <2>1. i \in Nat /\ Len(b) \in Nat /\ 1 <= i
    BY <1>1
  <2>2. UrcEnd(b, i) \in Nat /\ UrcEnd(b, i) >= i + 1
    BY <1>1, <2>1
  <2>3. d \in Nat
    BY <2>1, <2>2
  <2>4. Len(t) \in Nat /\ Len(s) \in Nat
    BY <1>1, <1>2
  <2> QED
    BY <2>1, <2>3, <2>4
<1> HIDE DEF d
<1>7. ASSUME NEW n \in ReportsIn(t) PROVE n \in ReportsIn(s)
  <2>1. PICK k \in DOMAIN t : Yields(t, k, n)
    BY <1>7, ReportsYielded
  <2> DEFINE e == UrcEnd(t, k)
  <2>2. e \in NewlinesAfter(t, k) /\ t[k].kind = "cds"
    BY <1>2, <2>1, UrcEndInText, YieldedPdu DEF Yields
  <2> HIDE DEF e
  <2>3. k \in 1..Len(t) /\ e \in 1..Len(t) /\ k < e
    BY <1>5, <2>1, <2>2 DEF NewlinesAfter
  <2>4. k >= i
    <3> SUFFICES ASSUME k < i PROVE FALSE
      BY <1>6, <2>3
    <3>1. k \in 1..(i - 1) /\ k \in DOMAIN s /\ t[k] = s[k]
      BY <1>5, <1>6, <2>3
    <3> QED
      BY <1>1, <1>3, <2>2, <3>1 DEF TagsLead, TagKinds
  <2>5. \A j \in k..e : s[j + d] = t[j]
    <3> SUFFICES ASSUME NEW j \in k..e PROVE s[j + d] = t[j]
      OBVIOUS
    <3>1. j \in 1..Len(t) /\ ~(j < i)
      BY <1>6, <2>3, <2>4
    <3> QED
      BY <1>5, <3>1
  <2>6. UrcComplete(s, k + d) /\ ReportAt(s, k + d) = ReportAt(t, k)
    <3>1. e + d <= Len(s) /\ k + d >= 1 /\ d \in Int /\ UrcComplete(t, k)
      BY <1>5, <1>6, <2>1, <2>3 DEF Yields
    <3> QED
      BY <1>1, <1>2, <2>3, <2>5, <3>1, SameReport DEF e
  <2>7. s[k + d] = t[k] /\ k + d \in DOMAIN s
    BY <1>5, <1>6, <2>3, <2>5
  <2>8. k + d \in UrcTags(s)
    BY <1>3, <2>2, <2>7 DEF UrcTags, IsUrcTag, TagKinds, TagsLead
  <2>9. Yields(s, k + d, n)
    BY <2>1, <2>6, <2>8 DEF Yields
  <2> QED
    BY <2>7, <2>9, ReportsYielded
<1> QED
  BY <1>4, <1>7 DEF s, t

\* Nor does it lose one, unless a tag stands inside the URC it erases.
LEMMA EraseLosesNone ==
  ASSUME NEW b \in Seq(Tokens), NEW r \in Seq(Tokens), CanErase(b),
         \A j \in (FirstUrc(b) + 1)..UrcEnd(b, FirstUrc(b)) : (b \o r)[j].kind \notin TagKinds
  PROVE  ReportsIn(b \o r) \subseteq ReportsIn(EraseFirst(b) \o r) \union ToSet(ErasedReports(b))
<1> DEFINE s == b \o r
           t == EraseFirst(b) \o r
           i == FirstUrc(b)
           e == UrcEnd(b, i)
           d == e + 1 - i
<1>1. /\ s \in Seq(Tokens) /\ i \in 1..Len(b) /\ e \in (i + 1)..Len(b)
      /\ Len(b) <= Len(s) /\ IsLineStart(s, i)
      /\ \A j \in 1..(i - 1) : s[j].kind \in TagKinds => ~IsLineStart(s, j)
  BY ErasedPlace
<1>2. t \in Seq(Tokens) /\ Spliced(t, s, i, d)
  BY ErasedText
<1>3. \A j \in (i + 1)..e : s[j].kind \notin TagKinds
  OBVIOUS
<1>4. \A n : Yields(s, i, n) => n \in ToSet(ErasedReports(b))
  BY ErasedIsFirst
<1> HIDE DEF s, t, i, e
<1>5. /\ Len(t) = Len(s) - d /\ DOMAIN t = 1..Len(t) /\ DOMAIN s = 1..Len(s)
      /\ \A k \in 1..Len(t) : t[k] = IF k < i THEN s[k] ELSE s[k + d]
  BY <1>1, <1>2 DEF Spliced
<1>6. /\ Len(t) \in Nat /\ Len(s) \in Nat /\ i \in Nat /\ e \in Nat /\ 1 <= i
      /\ d \in Nat /\ i + d = e + 1
  <2>1. i \in Nat /\ Len(b) \in Nat /\ 1 <= i
    BY <1>1
  <2>2. e \in Nat /\ e >= i + 1
    BY <1>1, <2>1
  <2>3. d \in Nat /\ i + d = e + 1
    BY <2>1, <2>2
  <2>4. Len(t) \in Nat /\ Len(s) \in Nat
    BY <1>1, <1>2
  <2> QED
    BY <2>1, <2>2, <2>3, <2>4
<1> HIDE DEF d
<1>7. ASSUME NEW n \in ReportsIn(s), n \notin ToSet(ErasedReports(b)) PROVE n \in ReportsIn(t)
  <2>1. PICK k \in DOMAIN s : Yields(s, k, n)
    BY <1>7, ReportsYielded
  <2>2. s[k].kind \in TagKinds /\ IsLineStart(s, k) /\ UrcComplete(s, k)
    BY <2>1 DEF Yields, UrcTags, IsUrcTag
  <2>3. k \in 1..Len(s) /\ k # i
    BY <1>4, <1>5, <1>7, <2>1
  <2>4. k > e
    <3> SUFFICES ASSUME k <= e PROVE FALSE
      BY <1>6, <2>3
    <3>1. k \in 1..(i - 1) \/ k \in (i + 1)..e
      BY <1>6, <2>3
    <3> QED
      BY <1>1, <1>3, <2>2, <3>1
  <2> DEFINE c == 0 - d
             m == UrcEnd(s, k)
  <2>5. m \in NewlinesAfter(s, k)
    BY <1>1, <2>2, UrcEndInText
  <2> HIDE DEF m
  <2>6. m \in 1..Len(s) /\ k < m
    BY <1>5, <2>5 DEF NewlinesAfter
  <2>7. \A j \in k..m : t[j + c] = s[j]
    <3> SUFFICES ASSUME NEW j \in k..m PROVE t[j + c] = s[j]
      OBVIOUS
    <3>1. j + c \in 1..Len(t) /\ ~(j + c < i) /\ (j + c) + d = j
      BY <1>5, <1>6, <2>3, <2>4, <2>6
    <3> QED
      BY <1>5, <3>1
  <2>8. /\ k + c \in 1..Len(t) /\ k + c >= i /\ m + c <= Len(t) /\ c \in Int /\ (k + c) + d = k
        /\ k + c \in Nat /\ k \in Nat /\ k > 1
    BY <1>5, <1>6, <2>3, <2>4, <2>6
  <2> HIDE DEF c
  <2>9. UrcComplete(t, k + c) /\ ReportAt(t, k + c) = ReportAt(s, k)
    <3>1. k + c >= 1
      BY <2>8
    <3> QED
      BY <1>1, <1>2, <2>2, <2>3, <2>7, <2>8, <3>1, SameReport DEF m
  <2>10. t[k + c] = s[k]
    BY <2>3, <2>6, <2>7
  <2>11. IsLineStart(t, k + c)
    <3> SUFFICES ASSUME k + c # 1 PROVE t[(k + c) - 1].kind = "nl"
      BY DEF IsLineStart
    <3>1. CASE k + c = i
      <4>1. i - 1 \in 1..Len(t) /\ i - 1 < i /\ (k + c) - 1 = i - 1 /\ i # 1
        <5>1. i \in 1..Len(t) /\ i # 1
          BY <2>8, <3>1
        <5> QED
          BY <1>6, <3>1, <5>1
      <4>2. t[i - 1] = s[i - 1]
        BY <1>5, <4>1
      <4> QED
        BY <1>1, <4>1, <4>2 DEF IsLineStart
    <3>2. CASE k + c > i
      <4>1. /\ (k + c) - 1 \in 1..Len(t) /\ ~((k + c) - 1 < i)
            /\ ((k + c) - 1) + d = k - 1 /\ k # 1
        <5> DEFINE q == k + c
        <5>1. q \in 1..Len(t) /\ q > i /\ q + d = k /\ q \in Nat
          BY <2>8, <3>2
        <5> HIDE DEF q
        <5>2. q - 1 \in 1..Len(t) /\ ~(q - 1 < i) /\ (q - 1) + d = k - 1
          BY <1>6, <5>1
        <5> QED
          BY <2>8, <5>2 DEF q
      <4>2. t[(k + c) - 1] = s[k - 1]
        BY <1>5, <4>1
      <4> QED
        BY <2>2, <4>1, <4>2 DEF IsLineStart
    <3> QED
      BY <1>6, <2>8, <3>1, <3>2
  <2>12. k + c \in UrcTags(t)
    BY <1>5, <2>2, <2>8, <2>10, <2>11 DEF UrcTags, IsUrcTag
  <2>13. Yields(t, k + c, n)
    BY <2>1, <2>9, <2>12 DEF Yields
  <2> QED
    BY <1>5, <2>8, <2>13, ReportsYielded
<1> QED
  BY <1>7 DEF s, t

-----------------------------------------------------------------------------
(***************************************************************************)
(* The inductive invariant.  The URCs ahead are whole: no step cuts one    *)
(* but at the beginning, when a buffer is dropped, or at the end, when the *)
(* port is closed; then nothing is read any more.  And a text with a       *)
(* complete URC is only found where the demux loop will erase it.          *)
(***************************************************************************)
WholeLine == \E x \in Seq(Tokens) : WholeUrcs(Ahead \o x) /\ (portOpen => x = <<>>)

Demuxing == {"demux", "promptDemux", "drainDemux"}
Tidy == \A t \in Threads : CanErase(buf[t]) => pc[t] \in Demuxing

ClosedIsEmpty == ~portOpen => rx = <<>>

FlowInv == OrderInv /\ WholeLine /\ Tidy /\ ClosedIsEmpty

LEMMA NothingToErase == ~CanErase(<<>>) /\ WholeUrcs(<<>>) /\ ReportsIn(<<>>) = {}
BY DEF CanErase, UrcTags, WholeUrcs, ReportsIn

\* A thread reads into its buffer, leaves it alone or drops it, and it drops
\* no complete URC.
LEMMA ThreadShape ==
  ASSUME ExchangeInv, BuffersOutside, Tidy, NEW t \in Threads, ThreadSteps(t)
  PROVE  \/ /\ pc'[t] \in Demuxing /\ owner = t /\ owner' = owner
            /\ (buf' = buf /\ rx' = rx) \/ \E least \in {0, 1} : Read(t, least)
         \/ /\ rx' = rx /\ buf' = buf /\ ~CanErase(buf[t])
            /\ owner' = owner \/ (owner = NoThread /\ owner' = t /\ buf[t] = <<>>)
         \/ /\ rx' = rx /\ buf' = [buf EXCEPT ![t] = <<>>] /\ ~CanErase(buf[t])
            /\ owner' = owner \/ owner' = NoThread
            /\ owner = t \/ (owner = NoThread /\ buf[t] = <<>>)
<1>1. TypeOK
  BY DEF ExchangeInv
<1>2. /\ pc[t] \notin Demuxing => ~CanErase(buf[t])
      /\ pc[t] \notin Held => buf[t] = <<>>
      /\ pc[t] \in Held => owner = t
  BY DEF Tidy, BuffersOutside, ExchangeInv, OnlyHolderInside
<1>3. /\ {"write", "drain", "prompt", "promptDemux", "body", "wait", "demux",
          "drainDemux", "again"} \subseteq Held
      /\ {"idle", "lock", "parted"} \cap Held = {}
      /\ {"idle", "lock", "parted", "write", "drain", "prompt", "body", "wait", "again"}
           \cap Demuxing = {}
  BY DEF Held, Places, Demuxing
<1>4. CASE Start(t) \/ Expire(t)
  <2>1. /\ rx' = rx /\ buf' = buf /\ owner' = owner
        /\ pc[t] \in {"idle", "prompt", "wait", "again"}
    BY <1>4 DEF Start, Expire
  <2> QED
    BY <1>2, <1>3, <2>1
<1>5. CASE Refuse(t) \/ OpenFails(t) \/ TakeQueued(t)
  <2>1. /\ rx' = rx /\ buf' = [buf EXCEPT ![t] = <<>>] /\ owner' = NoThread
        /\ owner = NoThread /\ pc[t] = "lock"
    BY <1>5 DEF Refuse, OpenFails, TakeQueued, TakeReport, Return, SetBuf, Status, Free
  <2> QED
    BY <1>2, <1>3, <2>1
<1>6. CASE Enter(t) \/ FirstDrain(t) \/ WaitAfterRequest(t)
  <2>1. /\ rx' = rx /\ buf' = buf /\ owner' = t
        /\ owner = NoThread /\ pc[t] \in {"lock", "parted"}
    BY <1>6 DEF Enter, FirstDrain, WaitAfterRequest, Status, Free
  <2> QED
    BY <1>2, <1>3, <2>1
<1>7. CASE WriteCommand(t)
  <2>1. /\ rx' = rx /\ buf' = [buf EXCEPT ![t] = <<>>] /\ pc[t] = "write"
        /\ owner' = owner \/ owner' = NoThread
    BY <1>7 DEF WriteCommand, SetBuf
  <2> QED
    BY <1>2, <1>3, <2>1
<1>8. CASE \/ WriteCommandFails(t) \/ EndOfWait(t) \/ ReadPromptFails(t)
           \/ NoPrompt(t) \/ WritePduFails(t)
  <2>1. /\ rx' = rx /\ pc[t] \in {"write", "demux", "prompt", "promptDemux", "body"}
        /\ pc[t] \in Demuxing => ~CanErase(buf[t])
        /\ \E code : Conclude(t, code)
    BY <1>3, <1>8 DEF WriteCommandFails, EndOfWait, ReadPromptFails, NoPrompt, WritePduFails
  <2>2. buf' = [buf EXCEPT ![t] = <<>>] /\ (owner' = owner \/ owner' = NoThread)
    BY <2>1 DEF Conclude, Return, SetBuf
  <2> QED
    BY <1>2, <1>3, <2>1, <2>2
<1>9. CASE Poll(t) \/ ReadPrompt(t) \/ Drain(t)
  <2>1. /\ owner' = owner /\ pc[t] \in {"wait", "prompt", "drain", "again"}
        /\ (buf' = buf /\ rx' = rx) \/ \E least \in {0, 1} : Read(t, least)
    BY <1>9 DEF Poll, ReadPrompt, Drain
  <2>2. pc'[t] \in Demuxing
    BY <1>1, <1>9 DEF Poll, ReadPrompt, Drain, Goto, TypeOK, Demuxing
  <2> QED
    BY <1>2, <1>3, <2>1, <2>2
<1>10. CASE PollAgain(t) \/ WritePdu(t)
  <2>1. /\ rx' = rx /\ buf' = buf /\ owner' = owner /\ pc[t] \in {"demux", "body"}
        /\ pc[t] = "demux" => ~CanErase(buf[t])
    BY <1>10 DEF PollAgain, WritePdu
  <2> QED
    BY <1>2, <1>3, <2>1
<1>11. CASE PromptRead(t)
  <2>1. /\ rx' = rx /\ owner' = owner /\ pc[t] = "promptDemux" /\ ~CanErase(buf[t])
        /\ buf' = buf \/ buf' = [buf EXCEPT ![t] = <<>>]
    BY <1>11 DEF PromptRead, SetBuf
  <2> QED
    BY <1>2, <1>3, <2>1
<1>12. CASE DrainAgain(t)
  <2>1. /\ rx' = rx /\ owner' = owner /\ pc[t] = "drainDemux" /\ ~CanErase(buf[t])
        /\ buf' = [buf EXCEPT ![t] = <<>>]
    BY <1>12 DEF DrainAgain, SetBuf
  <2> QED
    BY <1>2, <1>3, <2>1
<1>13. CASE TakeDrained(t) \/ NoReport(t)
  <2>1. /\ rx' = rx /\ buf' = [buf EXCEPT ![t] = <<>>] /\ owner' = NoThread
        /\ pc[t] \in {"drainDemux", "again"}
        /\ pc[t] = "drainDemux" => ~CanErase(buf[t])
    BY <1>13 DEF TakeDrained, NoReport, TakeReport, Return, SetBuf
  <2> QED
    BY <1>2, <1>3, <2>1
<1> QED
  BY <1>4, <1>5, <1>6, <1>7, <1>8, <1>9, <1>10, <1>11, <1>12, <1>13 DEF ThreadSteps

\* So the text ahead stays, or the buffer at its beginning is dropped.
LEMMA ThreadAhead ==
  ASSUME ExchangeInv, BuffersOutside, Tidy, NEW t \in Threads, ThreadSteps(t)
  PROVE  \/ Ahead' = Ahead
         \/ /\ Ahead = buf[t] \o rx /\ Ahead' = rx
            /\ buf'[t] = <<>> /\ ~CanErase(buf[t])
<1>1. TypeOK /\ buf[t] \in Seq(Tokens) /\ rx \in Seq(Tokens) /\ NoThread \notin Threads
  BY ThreadAssumption DEF ExchangeInv, TypeOK
<1>2. Ahead = HolderText \o rx /\ Ahead' = HolderText' \o rx'
  BY DEF Ahead, HolderText
<1>3. CASE owner = t /\ owner' = owner /\ \E least \in {0, 1} : Read(t, least)
  BY <1>1, <1>3, ReadText
<1>4. CASE /\ rx' = rx /\ buf' = buf
           /\ owner' = owner \/ (owner = NoThread /\ owner' = t /\ buf[t] = <<>>)
  <2>1. HolderText' = HolderText
    BY <1>1, <1>4 DEF HolderText
  <2> QED
    BY <1>2, <1>4, <2>1
<1>5. CASE /\ rx' = rx /\ buf' = [buf EXCEPT ![t] = <<>>] /\ ~CanErase(buf[t])
           /\ owner' = owner \/ owner' = NoThread
           /\ owner = t \/ (owner = NoThread /\ buf[t] = <<>>)
  <2>1. buf'[t] = <<>> /\ HolderText' = <<>> /\ (owner = NoThread => HolderText = <<>>)
    BY <1>1, <1>5 DEF HolderText, TypeOK
  <2>2. <<>> \o rx = rx
    BY <1>1, ConcatEmptySeq
  <2>3. CASE owner = t
    BY <1>2, <1>5, <2>1, <2>2, <2>3 DEF HolderText
  <2>4. CASE owner = NoThread
    BY <1>2, <1>5, <2>1, <2>4
  <2> QED
    BY <1>5, <2>3, <2>4
<1> QED
  BY <1>3, <1>4, <1>5, ThreadShape

LEMMA ThreadTidy ==
  ASSUME ExchangeInv, BuffersOutside, Tidy, NEW t \in Threads, ThreadSteps(t)
  PROVE  Tidy'
<1>1. TypeOK
  BY DEF ExchangeInv
<1>2. \A u \in Threads \ {t} : pc'[u] = pc[u] /\ buf'[u] = buf[u]
  BY <1>1, OthersStay DEF Move
<1>3. CanErase(buf'[t]) => pc'[t] \in Demuxing
  <2>1. \/ pc'[t] \in Demuxing
        \/ buf' = buf /\ ~CanErase(buf[t])
        \/ buf' = [buf EXCEPT ![t] = <<>>]
    BY ThreadShape
  <2> QED
    BY <1>1, <2>1, NothingToErase DEF TypeOK
<1> QED
  BY <1>2, <1>3 DEF Tidy

\* After closing and opening the line is new.
LEMMA ThreadLine ==
  ASSUME FlowInv, NEW t \in Threads, ThreadSteps(t), TypeOK'
  PROVE  WholeLine' /\ ClosedIsEmpty'
<1>1. ExchangeInv /\ BuffersOutside /\ Tidy /\ TypeOK /\ portOpen \in BOOLEAN
  BY DEF FlowInv, OrderInv, ExchangeInv, TypeOK
<1>2. /\ Ahead \in Seq(Tokens) /\ rx \in Seq(Tokens) /\ rx' \in Seq(Tokens)
      /\ HolderText' \in Seq(Tokens) /\ Ahead' = HolderText' \o rx'
  BY <1>1, AheadIsText, EmptySeq DEF TypeOK, HolderText, Ahead
<1>3. Ahead' \in Seq(Tokens)
  BY <1>2, ConcatProperties
<1>4. portOpen' = portOpen \/ Enter(t)
  BY DEF ThreadSteps, Start, Refuse, OpenFails, WriteCommand, WriteCommandFails,
         WaitAfterRequest, Poll, PollAgain, EndOfWait, ReadPrompt, ReadPromptFails,
         PromptRead, NoPrompt, WritePdu, WritePduFails, TakeQueued, FirstDrain, Drain,
         TakeDrained, DrainAgain, NoReport, Expire
<1>5. rx' = rx \/ portOpen
  BY <1>1, ThreadShape DEF Read
<1>6. portOpen => portOpen'
  BY <1>1, <1>4 DEF Enter
<1>7. ClosedIsEmpty'
  BY <1>1, <1>5, <1>6 DEF FlowInv, ClosedIsEmpty
<1>8. CASE portOpen' = portOpen
  <2>1. PICK d \in Seq(Tokens) : Ahead = d \o Ahead'
    BY <1>1, ThreadText DEF Dropped
  <2>2. PICK x \in Seq(Tokens) : WholeUrcs(Ahead \o x) /\ (portOpen => x = <<>>)
    BY DEF FlowInv, WholeLine
  <2>3. Ahead \o x = d \o (Ahead' \o x)
    <3>1. (d \o Ahead') \o x = d \o (Ahead' \o x)
      BY <1>3, ConcatAssociative
    <3> QED
      BY <2>1, <3>1
  <2>4. WholeUrcs(d \o (Ahead' \o x)) /\ Ahead' \o x \in Seq(Tokens)
    BY <1>3, <2>2, <2>3, ConcatProperties
  <2>5. WholeUrcs(Ahead' \o x)
    BY <2>4, WholeDrop
  <2> QED
    BY <1>7, <1>8, <2>2, <2>5 DEF WholeLine
<1>9. CASE portOpen' # portOpen
  <2>1. Enter(t) /\ ~portOpen
    BY <1>1, <1>4, <1>6, <1>9
  <2>2. pc[t] = "lock" /\ owner' = t /\ UNCHANGED <<buf, rx>>
    BY <2>1 DEF Enter, Free
  <2>3. rx = <<>> /\ buf[t] = <<>>
    BY <1>1, <2>1, <2>2 DEF FlowInv, ClosedIsEmpty, BuffersOutside, Held
  <2>4. Ahead' = <<>> \o <<>>
    BY <2>2, <2>3 DEF Ahead
  <2>5. <<>> \in Seq(Tokens) /\ (<<>> \o <<>>) \o <<>> = <<>>
    BY EmptySeq, ConcatEmptySeq
  <2>6. WholeUrcs(Ahead' \o <<>>)
    BY <2>4, <2>5, NothingToErase
  <2> QED
    BY <1>7, <2>5, <2>6 DEF WholeLine
<1> QED
  BY <1>8, <1>9

\* What a turn of the loop erases, and what it leaves.
LEMMA EraseShape ==
  ASSUME ExchangeInv, NEW t \in Threads, EraseUrc(t)
  PROVE  /\ pc[t] \in Demuxing /\ CanErase(buf[t]) /\ buf[t] \in Seq(Tokens) /\ rx \in Seq(Tokens)
         /\ Ahead = buf[t] \o rx /\ Ahead' = EraseFirst(buf[t]) \o rx
         /\ EraseFirst(buf[t]) \in Seq(Tokens)
         /\ reports' = reports \o ErasedReports(buf[t])
         /\ UNCHANGED <<owner, portOpen, pc, rx, sent, delivered>>
<1>1. TypeOK /\ pc[t] \in Held /\ CanErase(buf[t]) /\ pc[t] \in Demuxing
  BY DEF ExchangeInv, EraseUrc, Held, Places, Demuxing
<1>2. owner = t /\ Ahead = buf[t] \o rx /\ buf[t] \in Seq(Tokens) /\ rx \in Seq(Tokens)
  BY <1>1, AheadOfHolder
<1>3. /\ buf' = [buf EXCEPT ![t] = EraseFirst(buf[t])]
      /\ reports' = reports \o ErasedReports(buf[t])
      /\ UNCHANGED <<owner, portOpen, pc, rx, sent, delivered>>
  BY DEF EraseUrc, SetBuf, history
<1>4. Ahead' = EraseFirst(buf[t]) \o rx
  BY <1>1, <1>2, <1>3 DEF Ahead, TypeOK
<1> QED
  BY <1>1, <1>2, <1>3, <1>4, EraseFirstShorter

LEMMA EraseLine ==
  ASSUME FlowInv, NEW t \in Threads, EraseUrc(t)
  PROVE  WholeLine' /\ ClosedIsEmpty' /\ Tidy'
<1> DEFINE b == buf[t]
<1>1. ExchangeInv /\ TypeOK
  BY DEF FlowInv, OrderInv, ExchangeInv
<1>2. /\ CanErase(b) /\ b \in Seq(Tokens) /\ rx \in Seq(Tokens)
      /\ Ahead = b \o rx /\ Ahead' = EraseFirst(b) \o rx /\ EraseFirst(b) \in Seq(Tokens)
      /\ pc[t] \in Demuxing /\ UNCHANGED <<owner, portOpen, pc, rx>>
  BY <1>1, EraseShape
<1> HIDE DEF b
<1>3. PICK x \in Seq(Tokens) : WholeUrcs(Ahead \o x) /\ (portOpen => x = <<>>)
  BY DEF FlowInv, WholeLine
<1>4. /\ (b \o rx) \o x = b \o (rx \o x) /\ rx \o x \in Seq(Tokens)
      /\ (EraseFirst(b) \o rx) \o x = EraseFirst(b) \o (rx \o x)
  <2>1. b \in Seq(Tokens) /\ rx \in Seq(Tokens) /\ EraseFirst(b) \in Seq(Tokens)
    BY <1>2
  <2>2. (b \o rx) \o x = b \o (rx \o x)
    BY <2>1, ConcatAssociative
  <2>3. (EraseFirst(b) \o rx) \o x = EraseFirst(b) \o (rx \o x)
    BY <2>1, ConcatAssociative
  <2>4. rx \o x \in Seq(Tokens)
    BY <2>1, ConcatProperties
  <2> QED
    BY <2>2, <2>3, <2>4
<1>5. WholeUrcs(b \o (rx \o x))
  BY <1>2, <1>3, <1>4
<1>6. WholeUrcs(EraseFirst(b) \o (rx \o x))
  BY <1>2, <1>4, <1>5, WholeErase
<1>7. WholeUrcs(Ahead' \o x)
  BY <1>2, <1>4, <1>6
<1>8. WholeLine' /\ ClosedIsEmpty'
  BY <1>2, <1>3, <1>7 DEF WholeLine, ClosedIsEmpty, FlowInv
<1>9. Tidy'
  <2>1. \A u \in Threads \ {t} : buf'[u] = buf[u]
    BY <1>1, OthersStay DEF Move
  <2> QED
    BY <1>2, <2>1 DEF Tidy, FlowInv
<1> QED
  BY <1>8, <1>9

-----------------------------------------------------------------------------
(***************************************************************************)
(* What the modem sends.                                                   *)
(***************************************************************************)
\* A message with whole URCs, and the reports in it.
Carries(msg, ns) ==
  /\ msg \in Seq(Tokens) /\ msg # <<>> /\ msg[1].kind = "nl"
  /\ WholeUrcs(msg) /\ ReportsIn(msg) = ns

\* Only a +CDS is a report.
LEMMA NoReportText ==
  ASSUME NEW s \in Seq(Tokens), \A i \in DOMAIN s : s[i].kind # "cds"
  PROVE  ReportsIn(s) = {}
BY ReportsYielded, YieldedPdu

LEMMA ReportMessage ==
  ASSUME NEW n \in Nat \ {0}
  PROVE  Carries(<<NL, Tok("cds"), Tok("num"), NL, Mark("pdu", n), NL>>, {n})
<1> DEFINE m == <<NL, Tok("cds"), Tok("num"), NL, Mark("pdu", n), NL>>
<1>1. /\ m \in Seq(Tokens) /\ m # <<>> /\ m[1].kind = "nl" /\ WholeUrcs(m)
  BY WholeMessages DEF Whole
<1>2. /\ Len(m) = 6 /\ DOMAIN m = 1..6
      /\ m[1].kind = "nl" /\ m[2].kind = "cds" /\ m[3].kind = "num"
      /\ m[4].kind = "nl" /\ m[5].kind = "pdu" /\ m[5].of = n /\ m[6].kind = "nl"
  BY DEF NL, Tok, Mark
<1> HIDE DEF m
<1>3. HeaderEnd(m, 2) = 4
  <2>1. NewlinesAfter(m, 2) \in SUBSET Nat /\ 4 \in NewlinesAfter(m, 2)
    BY <1>2 DEF NewlinesAfter
  <2>2. HeaderEnd(m, 2) \in NewlinesAfter(m, 2) /\ HeaderEnd(m, 2) <= 4
    BY <2>1, MinOfNaturals DEF HeaderEnd
  <2>3. HeaderEnd(m, 2) \in 3..4 /\ m[HeaderEnd(m, 2)].kind = "nl"
    BY <1>2, <2>2 DEF NewlinesAfter
  <2> QED
    BY <1>2, <2>3
<1>4. NewlinesAfter(m, 4) = {6}
  BY <1>2 DEF NewlinesAfter
<1>5. HasLength(m, 2) /\ UrcEnd(m, 2) = 6 /\ UrcComplete(m, 2)
  <2>1. HasLength(m, 2)
    BY <1>2 DEF HasLength
  <2>2. Min({6}) = 6
    <3>1. {6} \in SUBSET Nat /\ {6} # {}
      OBVIOUS
    <3> QED
      BY <3>1, MinOfNaturals
  <2>3. NewlinesAfter(m, 2) # {}
    BY <1>2 DEF NewlinesAfter
  <2> QED
    BY <1>3, <1>4, <2>1, <2>2, <2>3 DEF UrcEnd, UrcComplete
<1>6. ReportAt(m, 2) = n
  BY <1>2, <1>3, <1>5 DEF ReportAt
<1>7. Yields(m, 2, n)
  BY <1>2, <1>5, <1>6 DEF Yields, UrcTags, IsUrcTag, TagKinds, IsLineStart
<1>8. \A i \in DOMAIN m : \A k : Yields(m, i, k) => i = 2
  BY <1>1, <1>2, YieldedPdu
<1>9. ReportsIn(m) = {n}
  <2>1. \A k : k \in ReportsIn(m) <=> \E i \in DOMAIN m : Yields(m, i, k)
    BY ReportsYielded
  <2>2. \A k : Yields(m, 2, k) => k = n
    BY <1>6 DEF Yields
  <2>3. 2 \in DOMAIN m
    BY <1>2
  <2>4. n \in ReportsIn(m)
    BY <1>7, <2>1, <2>3
  <2>5. ASSUME NEW k \in ReportsIn(m) PROVE k = n
    <3>1. PICK i \in DOMAIN m : Yields(m, i, k)
      BY <2>1
    <3>2. i = 2
      BY <1>8, <3>1
    <3> QED
      BY <2>2, <3>1, <3>2
  <2> QED
    BY <2>4, <2>5
<1> QED
  BY <1>1, <1>9 DEF Carries, m

\* A message without a +CDS holds no report.
LEMMA OtherMessage ==
  ASSUME NEW m, Whole(m), \A i \in DOMAIN m : m[i].kind # "cds"
  PROVE  Carries(m, {})
BY NoReportText DEF Whole, Carries

LEMMA OtherMessages ==
  /\ \A kind \in FinalResults, n \in Nat : Carries(<<NL, Mark(kind, n), NL>>, {})
  /\ \A n \in Nat : Carries(<<NL, Mark("gt", n)>>, {})
  /\ \A n \in Nat : Carries(<<NL, Mark("text", n), NL, NL, Mark("ok", n), NL>>, {})
  /\ \A kind \in {"cmt", "cmtAlpha", "cmti", "cdsi"} : Carries(NoticeText(kind), {})
<1>1. ASSUME NEW kind \in FinalResults, NEW n \in Nat
      PROVE  Carries(<<NL, Mark(kind, n), NL>>, {})
  <2> DEFINE m == <<NL, Mark(kind, n), NL>>
  <2>1. \A i \in DOMAIN m : m[i].kind # "cds"
    BY DEF NL, Tok, Mark, FinalResults
  <2>2. Whole(m)
    BY WholeMessages
  <2> HIDE DEF m
  <2>3. Carries(m, {})
    BY <2>1, <2>2, OtherMessage
  <2> QED
    BY <2>3 DEF m
<1>2. ASSUME NEW n \in Nat PROVE Carries(<<NL, Mark("gt", n)>>, {})
  <2> DEFINE m == <<NL, Mark("gt", n)>>
  <2>1. \A i \in DOMAIN m : m[i].kind # "cds"
    BY DEF NL, Tok, Mark
  <2>2. Whole(m)
    BY WholeMessages
  <2> HIDE DEF m
  <2>3. Carries(m, {})
    BY <2>1, <2>2, OtherMessage
  <2> QED
    BY <2>3 DEF m
<1>3. ASSUME NEW n \in Nat
      PROVE  Carries(<<NL, Mark("text", n), NL, NL, Mark("ok", n), NL>>, {})
  <2> DEFINE m == <<NL, Mark("text", n), NL, NL, Mark("ok", n), NL>>
  <2>1. /\ m \in Seq(Tokens) /\ m # <<>> /\ m[1].kind = "nl"
        /\ \A i \in DOMAIN m : m[i].kind \in {"nl", "text", "ok"}
    BY MessagesAreText DEF NL, Tok, Mark
  <2> HIDE DEF m
  <2>2. WholeUrcs(m)
    BY <2>1 DEF WholeUrcs, TagKinds
  <2>3. ReportsIn(m) = {}
    BY <2>1, NoReportText
  <2> QED
    BY <2>1, <2>2, <2>3 DEF Carries, m
<1>4. ASSUME NEW kind \in {"cmt", "cmtAlpha", "cmti", "cdsi"}
      PROVE  Carries(NoticeText(kind), {})
  <2> DEFINE m == NoticeText(kind)
  <2>1. \A i \in DOMAIN m : m[i].kind # "cds"
    <3>1. CASE kind \in {"cmti", "cdsi"}
      BY <3>1 DEF NoticeText, NL, Tok, Mark
    <3>2. CASE kind = "cmt"
      BY <3>2 DEF NoticeText, NL, Tok, Mark
    <3>3. CASE kind = "cmtAlpha"
      BY <3>3 DEF NoticeText, NL, Tok, Mark
    <3> QED
      BY <3>1, <3>2, <3>3
  <2>2. Whole(m)
    BY WholeMessages
  <2> HIDE DEF m
  <2>3. Carries(m, {})
    BY <2>1, <2>2, OtherMessage
  <2> QED
    BY <2>3 DEF m
<1> QED
  BY <1>1, <1>2, <1>3, <1>4

\* A step of the modem sends a message or none, and a report in a message of
\* its own.
LEMMA ModemSends ==
  ASSUME TypeOK, Modem
  PROVE  /\ UNCHANGED <<owner, portOpen, pc, buf, reports, delivered>>
         /\ \/ rx' = rx /\ sent'.report = sent.report
            \/ /\ portOpen /\ sent'.report = sent.report
               /\ \E msg : Carries(msg, {}) /\ rx' = rx \o msg
            \/ /\ portOpen /\ sent'.report = sent.report + 1
               /\ \E msg : Carries(msg, {sent.report + 1}) /\ rx' = rx \o msg
<1>1. UNCHANGED <<owner, portOpen, pc, buf, reports, delivered>>
  BY DEF Modem, Answer, Submit, Swallow, SendReport, SendNotice, hostVars, history
<1>2. CASE SendReport
  <2>1. portOpen /\ sent'.report = sent.report + 1 /\ sent.report + 1 \in Nat \ {0}
    <3>1. sent.report \in Nat
      BY DEF TypeOK
    <3>2. sent'.report = sent.report + 1
      BY <1>2 DEF SendReport, TypeOK
    <3>3. portOpen
      BY <1>2 DEF SendReport
    <3>4. sent.report + 1 \in Nat \ {0}
      <4> DEFINE n == sent.report
      <4>1. n \in Nat
        BY <3>1
      <4> HIDE DEF n
      <4>2. n + 1 \in Nat \ {0}
        BY <4>1
      <4> QED
        BY <4>2 DEF n
    <3> QED
      BY <3>2, <3>3, <3>4
  <2>2. \E msg : Carries(msg, {sent.report + 1}) /\ rx' = rx \o msg
    BY <1>2, <2>1, ReportMessage DEF SendReport, Send
  <2> QED
    BY <1>1, <2>1, <2>2
<1>3. CASE ~SendReport
  <2>1. sent'.report = sent.report
    BY <1>3 DEF Modem, Answer, Submit, Swallow, SendNotice, history, TypeOK
  <2>2. ASSUME Handle PROVE Head(tx).of \in Nat
    <3>1. Head(tx) \in Input
      BY <2>2, HeadTailProperties DEF Handle, TypeOK
    <3> QED
      BY <3>1 DEF Input
  <2>3. rx' = rx \/ \E msg : Carries(msg, {}) /\ Send(msg)
    <3>1. CASE Answer
      BY <2>2, <3>1, OtherMessages DEF Answer, Reply, FinalResults
    <3>2. CASE Submit
      BY <2>2, <3>2, OtherMessages DEF Submit, Reply, FinalResults
    <3>3. CASE Swallow
      BY <3>3 DEF Swallow
    <3>4. CASE SendNotice
      BY <3>4, OtherMessages, BoundAssumption DEF SendNotice
    <3> QED
      BY <1>3, <3>1, <3>2, <3>3, <3>4 DEF Modem
  <2> QED
    BY <1>1, <2>1, <2>3 DEF Send
<1> QED
  BY <1>2, <1>3

\* While the port is open the whole of every URC is ahead or was dropped.
LEMMA OpenLine ==
  ASSUME FlowInv, portOpen
  PROVE  WholeUrcs(Ahead)
<1>1. WholeUrcs(Ahead \o <<>>)
  BY DEF FlowInv, WholeLine
<1>2. Ahead \in Seq(Tokens)
  BY AheadIsText DEF FlowInv, OrderInv, ExchangeInv
<1>3. Ahead \o <<>> = Ahead
  BY <1>2, ConcatEmptySeq
<1> QED
  BY <1>1, <1>3

LEMMA ModemLine ==
  ASSUME FlowInv, Modem
  PROVE  WholeLine' /\ ClosedIsEmpty' /\ Tidy'
<1>1. TypeOK /\ Ahead \in Seq(Tokens) /\ UNCHANGED <<owner, portOpen, pc, buf>>
  BY AheadIsText, ModemSends DEF FlowInv, OrderInv, ExchangeInv
<1>2. Tidy'
  BY <1>1 DEF FlowInv, Tidy
<1>3. CASE rx' = rx
  <2>1. Ahead' = Ahead
    BY <1>1, <1>3 DEF Ahead
  <2> QED
    BY <1>1, <1>2, <1>3, <2>1 DEF FlowInv, WholeLine, ClosedIsEmpty
<1>4. CASE portOpen /\ \E msg, ns : Carries(msg, ns) /\ rx' = rx \o msg
  <2>1. PICK msg, ns : Carries(msg, ns) /\ rx' = rx \o msg
    BY <1>4
  <2>2. msg \in Seq(Tokens) /\ WholeUrcs(msg) /\ (msg # <<>> => msg[1].kind = "nl")
    BY <2>1 DEF Carries
  <2>3. Ahead' = Ahead \o msg /\ Ahead \o msg \in Seq(Tokens)
    BY <1>1, <2>1, <2>2, AheadAppend, ConcatProperties
  <2>4. WholeUrcs(Ahead')
    BY <1>1, <1>4, <2>2, <2>3, OpenLine, WholeAppend
  <2>5. <<>> \in Seq(Tokens) /\ Ahead' \o <<>> = Ahead'
    BY <2>3, EmptySeq, ConcatEmptySeq
  <2>6. WholeLine'
    BY <2>4, <2>5 DEF WholeLine
  <2> QED
    BY <1>1, <1>2, <1>4, <2>6 DEF ClosedIsEmpty
<1> QED
  BY <1>1, <1>3, <1>4, ModemSends

LEMMA CloseLine ==
  ASSUME FlowInv, ClosePort
  PROVE  WholeLine' /\ ClosedIsEmpty' /\ Tidy'
<1>1. /\ TypeOK /\ portOpen /\ rx' = <<>> /\ ~portOpen' /\ UNCHANGED <<owner, pc, buf>>
  BY DEF FlowInv, OrderInv, ExchangeInv, ClosePort
<1>2. /\ HolderText \in Seq(Tokens) /\ rx \in Seq(Tokens) /\ Ahead = HolderText \o rx
      /\ Ahead' = HolderText \o <<>>
  BY <1>1, AheadIsText DEF TypeOK, Ahead, HolderText
<1>3. Ahead' = HolderText
  BY <1>2, ConcatEmptySeq
<1>4. WholeUrcs(Ahead' \o rx)
  BY <1>1, <1>2, <1>3, OpenLine
<1> QED
  BY <1>1, <1>2, <1>4 DEF WholeLine, ClosedIsEmpty, Tidy, FlowInv

LEMMA FlowInit == Init => FlowInv
<1> SUFFICES ASSUME Init PROVE FlowInv
  OBVIOUS
<1>1. OrderInv
  BY OrderInit
<1>2. rx = <<>> /\ \A t \in Threads : buf[t] = <<>>
  BY DEF Init
<1>3. Ahead = <<>>
  BY <1>2, ThreadAssumption, EmptySeq, ConcatEmptySeq DEF Init, Ahead
<1>4. <<>> \in Seq(Tokens) /\ <<>> \o <<>> = <<>>
  BY EmptySeq, ConcatEmptySeq
<1>5. WholeLine
  BY <1>3, <1>4, NothingToErase DEF WholeLine
<1>6. Tidy /\ ClosedIsEmpty
  BY <1>2, NothingToErase DEF Tidy, ClosedIsEmpty
<1> QED
  BY <1>1, <1>5, <1>6 DEF FlowInv

LEMMA FlowStep == FlowInv /\ [Next]_vars => FlowInv'
<1> SUFFICES ASSUME FlowInv, [Next]_vars PROVE FlowInv'
  OBVIOUS
<1>1. OrderInv'
  BY OrderStep DEF FlowInv
<1>2. TypeOK' /\ ExchangeInv /\ BuffersOutside /\ Tidy
  BY <1>1 DEF OrderInv, ExchangeInv, FlowInv
<1>3. ASSUME NEW t \in Threads, ThreadSteps(t) PROVE FlowInv'
  BY <1>1, <1>2, <1>3, ThreadLine, ThreadTidy DEF FlowInv
<1>4. ASSUME NEW t \in Threads, EraseUrc(t) PROVE FlowInv'
  BY <1>1, <1>4, EraseLine DEF FlowInv
<1>5. CASE ClosePort
  BY <1>1, <1>5, CloseLine DEF FlowInv
<1>6. CASE Modem
  BY <1>1, <1>6, ModemLine DEF FlowInv
<1>7. CASE Finished \/ UNCHANGED vars
  <2>1. UNCHANGED <<owner, portOpen, pc, buf, rx>>
    BY <1>7 DEF Finished, vars
  <2>2. Ahead' = Ahead
    BY <2>1 DEF Ahead
  <2> QED
    BY <1>1, <2>1, <2>2 DEF FlowInv, WholeLine, Tidy, ClosedIsEmpty
<1> QED
  BY <1>3, <1>4, <1>5, <1>6, <1>7 DEF Next, Run, ThreadSteps

LEMMA FlowAlways == Spec => []FlowInv
BY FlowInit, FlowStep, PTL DEF Spec

-----------------------------------------------------------------------------
(***************************************************************************)
(* Where a report may be lost.                                             *)
(***************************************************************************)
LEMMA ConcatSet ==
  ASSUME NEW S, NEW a \in Seq(S), NEW b \in Seq(S)
  PROVE  ToSet(a \o b) = ToSet(a) \union ToSet(b)
<1>1. /\ Len(a \o b) = Len(a) + Len(b) /\ a \o b \in Seq(S)
      /\ \A i \in 1..Len(a) : (a \o b)[i] = a[i]
      /\ \A i \in 1..Len(b) : (a \o b)[Len(a) + i] = b[i]
      /\ \A i \in 1..(Len(a) + Len(b)) : i > Len(a) =>
           i - Len(a) \in 1..Len(b) /\ (a \o b)[i] = b[i - Len(a)]
  BY ConcatElements
<1>2. /\ DOMAIN a = 1..Len(a) /\ DOMAIN b = 1..Len(b) /\ Len(a) \in Nat /\ Len(b) \in Nat
      /\ DOMAIN (a \o b) = 1..(Len(a) + Len(b))
  BY <1>1
<1>3. ASSUME NEW i \in DOMAIN (a \o b) PROVE (a \o b)[i] \in ToSet(a) \union ToSet(b)
  <2>1. CASE i <= Len(a)
    <3>1. i \in DOMAIN a /\ (a \o b)[i] = a[i]
      BY <1>1, <1>2, <2>1
    <3> QED
      BY <3>1 DEF ToSet
  <2>2. CASE i > Len(a)
    <3>1. i - Len(a) \in DOMAIN b /\ (a \o b)[i] = b[i - Len(a)]
      BY <1>1, <1>2, <2>2
    <3> QED
      BY <3>1 DEF ToSet
  <2> QED
    BY <1>2, <2>1, <2>2
<1>4. ASSUME NEW i \in DOMAIN a PROVE a[i] \in ToSet(a \o b)
  <2>1. i \in DOMAIN (a \o b) /\ (a \o b)[i] = a[i]
    BY <1>1, <1>2
  <2> QED
    BY <2>1 DEF ToSet
<1>5. ASSUME NEW i \in DOMAIN b PROVE b[i] \in ToSet(a \o b)
  <2>1. Len(a) + i \in DOMAIN (a \o b) /\ (a \o b)[Len(a) + i] = b[i]
    BY <1>1, <1>2
  <2> QED
    BY <2>1 DEF ToSet
<1> QED
  BY <1>3, <1>4, <1>5 DEF ToSet

LEMMA SafeIsSeen ==
  ASSUME TypeOK
  PROVE  Safe = ToSet(Seen) \union ReportsIn(Ahead)
<1>1. ToSet(Seen) = ToSet(delivered) \union ToSet(reports)
  BY ConcatSet DEF TypeOK, Seen
<1> QED
  BY <1>1 DEF Safe, Pending

\* What a thread drops that holds a URC holds an incomplete one.
LEMMA ThreadLoses ==
  ASSUME FlowInv, NEW t \in Threads, ThreadSteps(t), Safe' = ToSet(Seen') \union ReportsIn(Ahead')
  PROVE  Safe \subseteq Safe' \/ DropsFragment
<1>1. TypeOK /\ ExchangeInv /\ BuffersOutside /\ Tidy
  BY DEF FlowInv, OrderInv, ExchangeInv
<1>2. Seen' = Seen /\ Safe = ToSet(Seen) \union ReportsIn(Ahead)
  BY <1>1, ThreadSeen, SafeIsSeen
<1>3. CASE Ahead' = Ahead
  BY <1>2, <1>3
<1>4. CASE /\ Ahead = buf[t] \o rx /\ Ahead' = rx
           /\ buf'[t] = <<>> /\ ~CanErase(buf[t])
  <2>1. buf[t] \in Seq(Tokens) /\ rx \in Seq(Tokens)
    BY <1>1 DEF TypeOK
  <2>2. CASE UrcTags(buf[t]) = {}
    BY <1>2, <1>4, <2>1, <2>2, ReportsAfterDrop
  <2>3. CASE UrcTags(buf[t]) # {}
    <3>1. UrcTags(buf[t]) \in SUBSET Nat
      BY <2>1 DEF UrcTags
    <3>2. FirstUrc(buf[t]) \in UrcTags(buf[t])
      BY <2>3, <3>1, MinOfNaturals DEF FirstUrc
    <3>3. ~UrcComplete(buf[t], FirstUrc(buf[t]))
      BY <1>4, <2>3 DEF CanErase
    <3> QED
      BY <1>4, <3>2, <3>3 DEF DropsFragment
  <2> QED
    BY <2>2, <2>3
<1> QED
  BY <1>1, <1>3, <1>4, ThreadAhead

\* No URC begins inside the one the demux loop erases.
LEMMA ErasedIsOne ==
  ASSUME NEW b \in Seq(Tokens), NEW r \in Seq(Tokens), WholeUrcs(b \o r), CanErase(b)
  PROVE  \A j \in (FirstUrc(b) + 1)..UrcEnd(b, FirstUrc(b)) : (b \o r)[j].kind \notin TagKinds
<1> DEFINE s == b \o r
           i == FirstUrc(b)
           e == UrcEnd(b, i)
<1>1. i \in 1..Len(b)
  BY FirstUrcPlace
<1>2. \/ OneLine(s, i) /\ e = i + 2
      \/ TwoLines(s, i) /\ e = i + 4
  BY ErasedUrc
<1> HIDE DEF s, i, e
<1>3. ASSUME NEW j \in (i + 1)..e PROVE s[j].kind \notin TagKinds
  <2>1. CASE OneLine(s, i) /\ e = i + 2
    <3>1. s[i + 1].kind = "alpha" /\ s[i + 2].kind = "nl"
      BY <2>1 DEF OneLine
    <3>2. j = i + 1 \/ j = i + 2
      BY <1>1, <2>1
    <3> QED
      BY <3>1, <3>2 DEF TagKinds
  <2>2. CASE TwoLines(s, i) /\ e = i + 4
    <3>1. /\ s[i + 1].kind = "num" /\ s[i + 2].kind = "nl"
          /\ s[i + 3].kind = "pdu" /\ s[i + 4].kind = "nl"
      BY <2>2 DEF TwoLines
    <3>2. j = i + 1 \/ j = i + 2 \/ j = i + 3 \/ j = i + 4
      BY <1>1, <2>2
    <3> QED
      BY <3>1, <3>2 DEF TagKinds
  <2> QED
    BY <1>2, <2>1, <2>2
<1> QED
  BY <1>3 DEF s, i, e

LEMMA EraseLoses ==
  ASSUME FlowInv, NEW t \in Threads, EraseUrc(t)
  PROVE  Safe \subseteq Safe'
<1> DEFINE b == buf[t]
           new == ErasedReports(b)
<1>1. ExchangeInv /\ TypeOK
  BY DEF FlowInv, OrderInv, ExchangeInv
<1>2. /\ CanErase(b) /\ b \in Seq(Tokens) /\ rx \in Seq(Tokens)
      /\ Ahead = b \o rx /\ Ahead' = EraseFirst(b) \o rx
      /\ reports' = reports \o new /\ delivered' = delivered
  BY <1>1, EraseShape
<1> HIDE DEF b
<1>3. PICK x \in Seq(Tokens) : WholeUrcs(Ahead \o x)
  BY DEF FlowInv, WholeLine
<1>4. b \o (rx \o x) = Ahead \o x /\ rx \o x \in Seq(Tokens)
  <2>1. (b \o rx) \o x = b \o (rx \o x)
    BY <1>2, ConcatAssociative
  <2>2. rx \o x \in Seq(Tokens)
    BY <1>2, ConcatProperties
  <2> QED
    BY <1>2, <2>1, <2>2
<1> DEFINE i == FirstUrc(b)
           e == UrcEnd(b, i)
<1>5. \A j \in (i + 1)..e : (Ahead \o x)[j].kind \notin TagKinds
  BY <1>2, <1>3, <1>4, ErasedIsOne
<1>6. i \in 1..Len(b) /\ e \in 1..Len(b) /\ Len(b) \in Nat
  BY <1>2, FirstUrcPlace
<1> HIDE DEF i, e
<1>7. \A j \in 1..Len(b) : (Ahead \o x)[j] = (b \o rx)[j]
  <2>1. Ahead \in Seq(Tokens) /\ Len(Ahead) = Len(b) + Len(rx) /\ Len(rx) \in Nat
    BY <1>2, ConcatProperties
  <2>2. \A j \in 1..Len(Ahead) : (Ahead \o x)[j] = Ahead[j]
    BY <2>1, ConcatProperties
  <2> QED
    BY <1>2, <1>6, <2>1, <2>2
<1>8. \A j \in (i + 1)..e : (b \o rx)[j].kind \notin TagKinds
  <2>1. \A j \in (i + 1)..e : j \in 1..Len(b)
    BY <1>6
  <2> QED
    BY <1>5, <1>7, <2>1
<1>9. ReportsIn(b \o rx) \subseteq ReportsIn(EraseFirst(b) \o rx) \union ToSet(new)
  BY <1>2, <1>8, EraseLosesNone DEF i, e
<1>10. new \in Seq(Nat) /\ reports \in Seq(Nat)
  BY <1>1, <1>2, ErasedReportsAreMarks DEF TypeOK
<1> HIDE DEF new
<1>11. ToSet(reports') = ToSet(reports) \union ToSet(new)
  BY <1>2, <1>10, ConcatSet
<1> QED
  BY <1>2, <1>9, <1>11 DEF Safe, Pending

LEMMA ModemLoses ==
  ASSUME FlowInv, Modem
  PROVE  Safe \subseteq Safe'
<1>1. TypeOK /\ Ahead \in Seq(Tokens) /\ UNCHANGED <<owner, buf, reports, delivered>>
  BY AheadIsText, ModemSends DEF FlowInv, OrderInv, ExchangeInv
<1>2. CASE rx' = rx
  <2>1. Ahead' = Ahead
    BY <1>1, <1>2 DEF Ahead
  <2> QED
    BY <1>1, <2>1 DEF Safe, Pending
<1>3. CASE \E msg, ns : Carries(msg, ns) /\ rx' = rx \o msg
  <2>1. PICK msg \in Seq(Tokens) : rx' = rx \o msg
    BY <1>3 DEF Carries
  <2>2. Ahead' = Ahead \o msg
    BY <1>1, <2>1, AheadAppend
  <2>3. ReportsIn(Ahead) \subseteq ReportsIn(Ahead')
    BY <1>1, <2>2, CutAddsNone
  <2> QED
    BY <1>1, <2>3 DEF Safe, Pending
<1> QED
  BY <1>1, <1>2, <1>3, ModemSends

(***************************************************************************)
(* A report is lost in one way only, besides closing the port: a call or a *)
(* poll of poll_status_report ends while what it read holds a URC that has *)
(* not ended.  Neither the demux loop, nor the classification, nor any     *)
(* overlap of calls loses one, however reads cut the text and whatever the *)
(* modem mixes into its answers.                                           *)
(***************************************************************************)
THEOREM OnlyFragmentsAreLost == Spec => LostOnlyWithFragment
<1>1. ASSUME FlowInv, FlowInv', [Next]_vars
      PROVE  [ Safe \subseteq Safe' \/ DropsFragment \/ portOpen # portOpen' ]_vars
  <2>1. Safe' = ToSet(Seen') \union ReportsIn(Ahead')
    <3>1. delivered' \in Seq(Nat) /\ reports' \in Seq(Nat)
      BY <1>1 DEF FlowInv, OrderInv, ExchangeInv, TypeOK
    <3>2. ToSet(delivered' \o reports') = ToSet(delivered') \union ToSet(reports')
      BY <3>1, ConcatSet
    <3> QED
      BY <3>2 DEF Safe, Pending, Seen
  <2>2. ASSUME NEW t \in Threads, ThreadSteps(t) PROVE Safe \subseteq Safe' \/ DropsFragment
    BY <1>1, <2>1, <2>2, ThreadLoses
  <2>3. ASSUME NEW t \in Threads, EraseUrc(t) PROVE Safe \subseteq Safe'
    BY <1>1, <2>3, EraseLoses
  <2>4. CASE Modem
    BY <1>1, <2>4, ModemLoses
  <2>5. ASSUME ClosePort PROVE portOpen # portOpen'
    <3>1. portOpen /\ ~portOpen'
      BY <2>5 DEF ClosePort
    <3>2. ASSUME portOpen = portOpen' PROVE FALSE
      BY <3>1, <3>2
    <3> QED
      BY <3>2
  <2>6. Finished => UNCHANGED vars
    BY DEF Finished
  <2> QED
    BY <1>1, <2>2, <2>3, <2>4, <2>5, <2>6 DEF Next, Run, ThreadSteps
<1> QED
  BY <1>1, FlowAlways, PTL DEF Spec, LostOnlyWithFragment

-----------------------------------------------------------------------------
(***************************************************************************)
(* GsmModem implements ReportChannel, step by step.                        *)
(***************************************************************************)
\* A call hands out the oldest queued report, or leaves the queue alone.
LEMMA TakesOrNot ==
  ASSUME NEW t \in Threads, ThreadSteps(t)
  PROVE  /\ sent' = sent
         /\ \/ TakeReport(t) /\ reports # <<>>
            \/ delivered' = delivered /\ reports' = reports
<1>1. CASE TakeQueued(t) \/ TakeDrained(t)
  BY <1>1 DEF TakeQueued, TakeDrained
<1>2. CASE ~(TakeQueued(t) \/ TakeDrained(t))
  BY <1>2 DEF ThreadSteps, Start, Refuse, OpenFails, Enter, WriteCommand,
              WriteCommandFails, WaitAfterRequest, Poll, PollAgain, EndOfWait, ReadPrompt,
              ReadPromptFails, PromptRead, NoPrompt, WritePdu, WritePduFails, FirstDrain,
              Drain, DrainAgain, NoReport, Expire, history
<1> QED
  BY <1>1, <1>2

\* A thread only shortens the text ahead, at its beginning.
LEMMA ThreadReports ==
  ASSUME FlowInv, NEW t \in Threads, ThreadSteps(t), TypeOK'
  PROVE  ReportsIn(Ahead') \subseteq ReportsIn(Ahead)
<1>1. ExchangeInv /\ BuffersOutside /\ TagsLead(Ahead)
  BY DEF FlowInv, OrderInv, TextOrder
<1>2. PICK d \in Seq(Tokens) : Ahead = d \o Ahead'
  BY <1>1, ThreadText DEF Dropped
<1>3. Ahead' \in Seq(Tokens)
  <2>1. rx' \in Seq(Tokens) /\ HolderText' \in Seq(Tokens)
    BY EmptySeq DEF TypeOK, HolderText
  <2>2. Ahead' = HolderText' \o rx'
    BY DEF Ahead, HolderText
  <2> QED
    BY <2>1, <2>2, ConcatProperties
<1> QED
  BY <1>1, <1>2, <1>3, DropAddsNone

\* The report at the head of the queue is older than all that are pending.
LEMMA HeadIsOldest ==
  ASSUME OrderInv, reports # <<>>
  PROVE  /\ Head(reports) \in ToSet(reports) /\ Head(reports) \in Nat
         /\ \A n \in ToSet(Tail(reports)) : n \in ToSet(reports) /\ n \in Nat /\ Head(reports) < n
         /\ \A n \in ReportsIn(Ahead) : n \in Nat /\ Head(reports) < n
         /\ ToSet(reports) = {Head(reports)} \union ToSet(Tail(reports))
<1> DEFINE r == reports
           d == delivered
           h == Len(d) + 1
<1>1. TypeOK /\ Increasing(Seen) /\ Fresh(Ahead, Seen) /\ Seen \in Seq(Nat) /\ Ahead \in Seq(Tokens)
  BY SeenIsMarks, AheadIsText DEF OrderInv, ExchangeInv, TextOrder
<1>2. d \in Seq(Nat) /\ r \in Seq(Nat) /\ Len(d) \in Nat /\ Len(r) \in Nat
  BY <1>1 DEF TypeOK
<1>3. /\ Head(r) = r[1] /\ r[1] \in Nat /\ Len(r) \in Nat \ {0} /\ Tail(r) \in Seq(Nat)
      /\ Len(Tail(r)) = Len(r) - 1 /\ \A i \in 1..Len(Tail(r)) : Tail(r)[i] = r[i + 1]
  BY <1>2, EmptySeq, HeadTailProperties
<1>4. /\ Len(Seen) = Len(d) + Len(r)
      /\ \A i \in 1..Len(r) : Seen[Len(d) + i] = r[i]
  BY <1>2, ConcatElements DEF Seen
<1>5. h \in DOMAIN Seen /\ Seen[h] = Head(r)
  BY <1>1, <1>2, <1>3, <1>4
<1>6. Head(r) \in ToSet(r) /\ Head(r) \in Nat
  BY <1>3 DEF ToSet
<1>7. ASSUME NEW i \in DOMAIN Tail(r)
      PROVE  Tail(r)[i] \in ToSet(r) /\ Tail(r)[i] \in Nat /\ Head(r) < Tail(r)[i]
  <2>1. i \in 1..Len(Tail(r)) /\ i + 1 \in 1..Len(r) /\ Tail(r)[i] = r[i + 1]
    BY <1>3
  <2>2. Tail(r)[i] \in ToSet(r)
    BY <1>2, <2>1 DEF ToSet
  <2>3. Len(d) + (i + 1) \in DOMAIN Seen /\ h < Len(d) + (i + 1)
    <3>1. DOMAIN Seen = 1..(Len(d) + Len(r)) /\ Len(d) \in Nat /\ Len(r) \in Nat
      BY <1>1, <1>2, <1>4
    <3>2. i \in Nat /\ i >= 1 /\ i + 1 <= Len(r)
      BY <1>2, <1>3, <2>1
    <3> DEFINE m == Len(d)
    <3>3. DOMAIN Seen = 1..(m + Len(r)) /\ m \in Nat /\ h = m + 1
      BY <3>1
    <3> HIDE DEF m, h
    <3>4. m + (i + 1) \in 1..(m + Len(r)) /\ h < m + (i + 1)
      BY <3>1, <3>2, <3>3
    <3> QED
      BY <3>3, <3>4 DEF m
  <2>4. Seen[h] < Seen[Len(d) + (i + 1)]
    BY <1>1, <1>5, <2>3 DEF Increasing
  <2>5. Tail(r)[i] = Seen[Len(d) + (i + 1)]
    BY <1>4, <2>1
  <2>6. Tail(r)[i] \in Nat
    BY <1>1, <2>3, <2>5, ElementOfSeq
  <2> QED
    BY <1>5, <2>2, <2>4, <2>5, <2>6
<1>8. ASSUME NEW n \in ReportsIn(Ahead) PROVE n \in Nat /\ Head(r) < n
  <2>1. PICK i \in DOMAIN Ahead : Yields(Ahead, i, n)
    BY ReportsYielded
  <2>2. PICK p \in DOMAIN Ahead : i < p /\ IsReportPdu(Ahead[p]) /\ Ahead[p].of = n
    BY <1>1, <2>1, YieldedPdu
  <2>3. Ahead[i].kind = "cds"
    BY <1>1, <2>1, YieldedPdu
  <2>4. Seen[h] < Ahead[p].of
    BY <1>1, <1>5, <2>2, <2>3 DEF Fresh
  <2>5. Ahead[p].of \in Nat
    BY <1>1, MarkOfToken
  <2> QED
    BY <1>5, <2>2, <2>4, <2>5
<1>9. ASSUME NEW i \in DOMAIN r PROVE r[i] \in {Head(r)} \union ToSet(Tail(r))
  <2>1. i \in 1..Len(r)
    BY <1>2
  <2>2. CASE i = 1
    BY <1>3, <2>2
  <2>3. CASE i # 1
    <3>1. i - 1 \in 1..Len(Tail(r)) /\ (i - 1) + 1 = i
      BY <1>3, <2>1, <2>3
    <3>2. i - 1 \in DOMAIN Tail(r) /\ Tail(r)[i - 1] = r[i]
      BY <1>3, <3>1
    <3> QED
      BY <3>2 DEF ToSet
  <2> QED
    BY <2>2, <2>3
<1>10. ToSet(r) = {Head(r)} \union ToSet(Tail(r))
  BY <1>6, <1>7, <1>9 DEF ToSet
<1> QED
  BY <1>6, <1>7, <1>8, <1>10 DEF ToSet

LEMMA ThreadImplements ==
  ASSUME FlowInv, NEW t \in Threads, ThreadSteps(t), TypeOK'
  PROVE  Channel!Next
<1>1. ReportsIn(Ahead') \subseteq ReportsIn(Ahead) /\ sent' = sent
  BY ThreadReports, TakesOrNot
<1>2. CASE delivered' = delivered /\ reports' = reports
  <2>1. Pending' \in SUBSET Pending
    BY <1>1, <1>2 DEF Pending
  <2> QED
    BY <1>1, <1>2, <2>1 DEF Channel!Next, Channel!Lose
<1>3. CASE TakeReport(t) /\ reports # <<>>
  <2> DEFINE oldest == Head(reports)
  <2>1. delivered' = Append(delivered, oldest) /\ reports' = Tail(reports)
    BY <1>3 DEF TakeReport
  <2>2. /\ oldest \in ToSet(reports) /\ oldest \in Nat
        /\ \A n \in ToSet(Tail(reports)) : n \in ToSet(reports) /\ n \in Nat /\ oldest < n
        /\ \A n \in ReportsIn(Ahead) : n \in Nat /\ oldest < n
        /\ ToSet(reports) = {oldest} \union ToSet(Tail(reports))
    BY <1>3, HeadIsOldest DEF FlowInv
  <2> HIDE DEF oldest
  <2>3. oldest \in Pending
    BY <2>2 DEF Pending
  <2>4. \A n \in Pending : oldest <= n
    BY <2>2 DEF Pending
  <2>5. Pending' = ToSet(Tail(reports)) \union ReportsIn(Ahead')
    BY <2>1 DEF Pending
  <2>6. \A n \in Pending' : n \in Pending /\ n # oldest
    <3>1. ASSUME NEW n \in Pending' PROVE n \in Pending /\ n # oldest
      <4>1. n \in ToSet(Tail(reports)) \/ n \in ReportsIn(Ahead)
        BY <1>1, <2>5, <3>1
      <4>2. n \in Nat /\ oldest < n
        BY <2>2, <4>1
      <4>3. n \in Pending
        BY <2>2, <4>1 DEF Pending
      <4> QED
        BY <2>2, <4>2, <4>3
    <3> QED
      BY <3>1
  <2> QED
    BY <1>1, <2>1, <2>3, <2>4, <2>6 DEF Channel!Next, Channel!Take
<1> QED
  BY <1>2, <1>3, TakesOrNot

LEMMA EraseImplements ==
  ASSUME FlowInv, NEW t \in Threads, EraseUrc(t)
  PROVE  Channel!Next
<1> DEFINE b == buf[t]
           new == ErasedReports(b)
<1>1. ExchangeInv /\ TypeOK /\ TagsLead(Ahead)
  BY DEF FlowInv, OrderInv, ExchangeInv, TextOrder
<1>2. /\ CanErase(b) /\ b \in Seq(Tokens) /\ rx \in Seq(Tokens)
      /\ Ahead = b \o rx /\ Ahead' = EraseFirst(b) \o rx
      /\ reports' = reports \o new /\ UNCHANGED <<sent, delivered>>
  BY <1>1, EraseShape
<1>3. new \in Seq(Nat) /\ reports \in Seq(Nat)
  BY <1>1, <1>2, ErasedReportsAreMarks DEF TypeOK
<1> HIDE DEF b
<1>4. TagsLead(b \o rx)
  BY <1>1, <1>2
<1>5. ReportsIn(Ahead') \subseteq ReportsIn(Ahead) /\ ToSet(new) \subseteq ReportsIn(Ahead)
  BY <1>2, <1>4, EraseAddsNone
<1> HIDE DEF new
<1>6. ToSet(reports') = ToSet(reports) \union ToSet(new)
  BY <1>2, <1>3, ConcatSet
<1>7. Pending' \in SUBSET Pending
  BY <1>5, <1>6 DEF Pending
<1> QED
  BY <1>2, <1>7 DEF Channel!Next, Channel!Lose

LEMMA ModemImplements ==
  ASSUME FlowInv, Modem, TagsLead(Ahead')
  PROVE  Channel!Next
<1>1. TypeOK /\ Ahead \in Seq(Tokens) /\ UNCHANGED <<owner, buf, reports, delivered>>
  BY AheadIsText, ModemSends DEF FlowInv, OrderInv, ExchangeInv
<1>2. ASSUME NEW msg, NEW ns, Carries(msg, ns), rx' = rx \o msg, portOpen
      PROVE  Pending' = Pending \union ns
  <2>1. msg \in Seq(Tokens) /\ ReportsIn(msg) = ns
    BY <1>2 DEF Carries
  <2>2. Ahead' = Ahead \o msg
    BY <1>1, <1>2, <2>1, AheadAppend
  <2>3. WholeUrcs(Ahead) /\ TagsLead(Ahead \o msg)
    BY <1>2, <2>2, OpenLine
  <2>4. ReportsIn(Ahead \o msg) \subseteq ReportsIn(Ahead) \union ReportsIn(msg)
    BY <1>1, <2>1, <2>3, ReportsAppended
  <2>5. ReportsIn(Ahead) \subseteq ReportsIn(Ahead \o msg)
    BY <1>1, <2>1, CutAddsNone
  <2>6. ReportsIn(msg) \subseteq ReportsIn(Ahead \o msg)
    BY <1>1, <2>1, <2>3, DropAddsNone
  <2>7. ReportsIn(Ahead') = ReportsIn(Ahead) \union ns
    BY <2>1, <2>2, <2>4, <2>5, <2>6
  <2> QED
    BY <1>1, <2>7 DEF Pending
<1>3. CASE rx' = rx /\ sent'.report = sent.report
  <2>1. Ahead' = Ahead
    BY <1>1, <1>3 DEF Ahead
  <2>2. Pending' \in SUBSET Pending
    BY <1>1, <2>1 DEF Pending
  <2> QED
    BY <1>1, <1>3, <2>2 DEF Channel!Next, Channel!Lose
<1>4. CASE /\ portOpen /\ sent'.report = sent.report
           /\ \E msg : Carries(msg, {}) /\ rx' = rx \o msg
  <2>1. Pending' = Pending \union {}
    BY <1>2, <1>4
  <2>2. Pending' \in SUBSET Pending
    BY <2>1
  <2> QED
    BY <1>1, <1>4, <2>2 DEF Channel!Next, Channel!Lose
<1>5. CASE /\ portOpen /\ sent'.report = sent.report + 1
           /\ \E msg : Carries(msg, {sent.report + 1}) /\ rx' = rx \o msg
  <2>1. Pending' = Pending \union {sent.report + 1}
    BY <1>2, <1>5
  <2> QED
    BY <1>1, <1>5, <2>1 DEF Channel!Next, Channel!Emit
<1> QED
  BY <1>1, <1>3, <1>4, <1>5, ModemSends

LEMMA CloseImplements ==
  ASSUME FlowInv, ClosePort
  PROVE  Channel!Next
<1>1. TypeOK /\ rx' = <<>> /\ UNCHANGED <<owner, buf, reports, delivered, sent>>
  BY DEF FlowInv, OrderInv, ExchangeInv, ClosePort
<1>2. /\ HolderText \in Seq(Tokens) /\ rx \in Seq(Tokens) /\ Ahead = HolderText \o rx
      /\ Ahead' = HolderText \o <<>>
  BY <1>1, AheadIsText DEF TypeOK, Ahead, HolderText
<1>3. Ahead' = HolderText
  BY <1>2, ConcatEmptySeq
<1>4. ReportsIn(Ahead') \subseteq ReportsIn(Ahead)
  BY <1>2, <1>3, CutAddsNone
<1>5. Pending' \in SUBSET Pending
  BY <1>1, <1>4 DEF Pending
<1> QED
  BY <1>1, <1>5 DEF Channel!Next, Channel!Lose

LEMMA ChannelInit == Init => Channel!Init
<1> SUFFICES ASSUME Init PROVE Channel!Init
  OBVIOUS
<1>1. rx = <<>> /\ owner = NoThread /\ reports = <<>> /\ delivered = <<>> /\ sent.report = 0
  BY DEF Init
<1>2. Ahead = <<>>
  BY <1>1, ThreadAssumption, EmptySeq, ConcatEmptySeq DEF Ahead
<1>3. Pending = {}
  BY <1>1, <1>2, NothingToErase DEF Pending, ToSet
<1> QED
  BY <1>1, <1>3 DEF Channel!Init

(***************************************************************************)
(* The threads, the buffers, the line, the cut reads and the demux loop    *)
(* together are a channel of reports that may lose some but neither        *)
(* duplicates, reorders nor invents one.                                   *)
(***************************************************************************)
THEOREM ModemIsChannel == Spec => ImplementsChannel
<1>1. ASSUME FlowInv, FlowInv', [Next]_vars
      PROVE  [Channel!Next]_(Channel!chan)
  <2>1. TypeOK' /\ TagsLead(Ahead')
    BY <1>1 DEF FlowInv, OrderInv, ExchangeInv, TextOrder
  <2>2. ASSUME NEW t \in Threads, ThreadSteps(t) PROVE Channel!Next
    BY <1>1, <2>1, <2>2, ThreadImplements
  <2>3. ASSUME NEW t \in Threads, EraseUrc(t) PROVE Channel!Next
    BY <1>1, <2>3, EraseImplements
  <2>4. ASSUME Modem PROVE Channel!Next
    BY <1>1, <2>1, <2>4, ModemImplements
  <2>5. ASSUME ClosePort PROVE Channel!Next
    BY <1>1, <2>5, CloseImplements
  <2>6. ASSUME Finished \/ UNCHANGED vars PROVE UNCHANGED Channel!chan
    <3>1. UNCHANGED <<owner, buf, rx, reports, delivered, sent>>
      BY <2>6 DEF Finished, vars
    <3> QED
      BY <3>1 DEF Channel!chan, Pending, Ahead
  <2> QED
    BY <1>1, <2>2, <2>3, <2>4, <2>5, <2>6 DEF Next, Run, ThreadSteps
<1> QED
  BY <1>1, ChannelInit, FlowAlways, PTL DEF Spec, ImplementsChannel, Channel!Spec

-----------------------------------------------------------------------------
(***************************************************************************)
(* Nothing of a URC is left for the caller, when no read ends inside one   *)
(* and every +CMT has a length.  Then each piece of text is made of whole  *)
(* URCs, and each part of a URC has its tag before it.                     *)
(***************************************************************************)
Led(s) ==
  \A p \in DOMAIN s :
    /\ s[p].kind \in {"num", "alpha"} => p > 1 /\ s[p - 1].kind \in TagKinds
    /\ s[p].kind = "pdu" => p > 3 /\ s[p - 3].kind \in TagKinds /\ s[p - 2].kind = "num"

Parts(s) == WholeUrcs(s) /\ Led(s)

\* The beginning of a text that is whole begins with a line end.
Opens(s) == s # <<>> => s[1].kind = "nl"

LEMMA PartsAppend ==
  ASSUME NEW a \in Seq(Tokens), NEW b \in Seq(Tokens), Parts(a), Parts(b), Opens(b)
  PROVE  Parts(a \o b)
<1> DEFINE s == a \o b
           n == Len(a)
<1>1. /\ Len(s) = n + Len(b) /\ n \in Nat /\ Len(b) \in Nat
      /\ DOMAIN s = 1..(n + Len(b)) /\ DOMAIN a = 1..n /\ DOMAIN b = 1..Len(b)
      /\ \A i \in 1..n : s[i] = a[i]
      /\ \A i \in 1..Len(b) : s[n + i] = b[i]
  BY ConcatProperties
<1>2. WholeUrcs(s)
  BY WholeAppend DEF Parts, Opens
<1> HIDE DEF s, n
<1>3. ASSUME NEW p \in 1..(n + Len(b))
      PROVE  /\ s[p].kind \in {"num", "alpha"} => p > 1 /\ s[p - 1].kind \in TagKinds
             /\ s[p].kind = "pdu" => p > 3 /\ s[p - 3].kind \in TagKinds /\ s[p - 2].kind = "num"
  <2>1. CASE p <= n
    <3>1. p \in 1..n /\ s[p] = a[p]
      BY <1>1, <2>1
    <3>2. /\ a[p].kind \in {"num", "alpha"} => p > 1 /\ a[p - 1].kind \in TagKinds
          /\ a[p].kind = "pdu" => p > 3 /\ a[p - 3].kind \in TagKinds /\ a[p - 2].kind = "num"
      BY <1>1, <3>1 DEF Parts, Led
    <3>3. /\ p > 1 => p - 1 \in 1..n
          /\ p > 3 => p - 2 \in 1..n /\ p - 3 \in 1..n
      BY <3>1, <1>1
    <3> QED
      BY <1>1, <3>1, <3>2, <3>3
  <2>2. CASE p > n
    <3> DEFINE q == p - n
    <3>1. q \in 1..Len(b) /\ p = n + q
      BY <1>1, <2>2
    <3> HIDE DEF q
    <3>2. s[p] = b[q]
      BY <1>1, <3>1
    <3>3. /\ b[q].kind \in {"num", "alpha"} => q > 1 /\ b[q - 1].kind \in TagKinds
          /\ b[q].kind = "pdu" => q > 3 /\ b[q - 3].kind \in TagKinds /\ b[q - 2].kind = "num"
      BY <1>1, <3>1 DEF Parts, Led
    <3>4. q > 1 => q - 1 \in 1..Len(b) /\ p - 1 = n + (q - 1) /\ p > 1
      BY <3>1, <1>1
    <3>5. q > 3 => /\ q - 2 \in 1..Len(b) /\ p - 2 = n + (q - 2) /\ p > 3
                   /\ q - 3 \in 1..Len(b) /\ p - 3 = n + (q - 3)
      BY <3>1, <1>1
    <3>6. q > 1 => s[p - 1] = b[q - 1] /\ p > 1
      BY <1>1, <3>4
    <3>7. q > 3 => s[p - 2] = b[q - 2] /\ s[p - 3] = b[q - 3] /\ p > 3
      BY <1>1, <3>5
    <3> QED
      BY <3>2, <3>3, <3>6, <3>7
  <2> QED
    BY <1>1, <2>1, <2>2
<1> QED
  BY <1>1, <1>2, <1>3 DEF Parts, Led, s

\* A read that ends between two messages cuts no URC.
LEMMA PartsCut ==
  ASSUME NEW s \in Seq(Tokens), Parts(s), NEW n \in 1..(Len(s) - 1),
         s[n].kind \in {"nl", "gt"}, s[n + 1].kind = "nl"
  PROVE  /\ Parts(SubSeq(s, 1, n))
         /\ Parts(SubSeq(s, n + 1, Len(s))) /\ Opens(SubSeq(s, n + 1, Len(s)))
<1> DEFINE a == SubSeq(s, 1, n)
           b == SubSeq(s, n + 1, Len(s))
<1>1. /\ Len(s) \in Nat /\ n \in 0..Len(s) /\ n \in Nat /\ DOMAIN s = 1..Len(s)
  OBVIOUS
<1>2. a \in Seq(Tokens) /\ Len(a) = n /\ b \in Seq(Tokens) /\ Len(b) = Len(s) - n /\ a \o b = s
  BY <1>1, SplitSequence
<1> HIDE DEF a, b
<1>3. /\ \A i \in 1..n : s[i] = a[i]
      /\ \A i \in 1..Len(b) : s[n + i] = b[i]
      /\ DOMAIN a = 1..n /\ DOMAIN b = 1..Len(b)
  <2>1. \A i \in 1..Len(a) : (a \o b)[i] = a[i]
    BY <1>2, ConcatElements
  <2>2. \A i \in 1..Len(b) : (a \o b)[Len(a) + i] = b[i]
    <3>1. a \in Seq(Tokens) /\ b \in Seq(Tokens)
      BY <1>2
    <3> QED
      BY <3>1, ConcatElements
  <2>3. DOMAIN a = 1..n /\ DOMAIN b = 1..Len(b)
    BY <1>2
  <2> QED
    BY <1>2, <2>1, <2>2, <2>3
<1>4. Opens(b)
  <2>1. 1 \in 1..Len(b)
    BY <1>1, <1>2
  <2>2. s[n + 1] = b[1]
    BY <1>3, <2>1
  <2> QED
    BY <2>2 DEF Opens
\* Where the cut is: after the last token of every URC that begins before it.
<1>5. ASSUME NEW i \in 1..n, s[i].kind \in TagKinds
      PROVE  /\ IsLineStart(s, i)
             /\ \/ OneLine(s, i) /\ i + 2 <= n
                \/ TwoLines(s, i) /\ i + 4 <= n
  <2>1. WholeUrc(s, i)
    BY <1>1, <1>5 DEF Parts, WholeUrcs
  <2>2. n # i
    BY <1>5 DEF TagKinds
  <2>3. CASE OneLine(s, i)
    <3>1. s[i + 1].kind = "alpha"
      BY <2>3 DEF OneLine
    <3>2. n # i + 1
      BY <3>1
    <3>3. i + 2 <= n
      BY <1>1, <2>2, <3>2
    <3> QED
      BY <2>1, <2>3, <3>3 DEF WholeUrc
  <2>4. CASE TwoLines(s, i)
    <3>1. s[i + 1].kind = "num" /\ s[i + 3].kind = "pdu" /\ s[i + 2 + 1].kind = "pdu"
      BY <1>1, <2>4 DEF TwoLines
    <3>2. n # i + 1 /\ n # i + 2 /\ n # i + 3
      BY <3>1
    <3>3. i + 4 <= n
      BY <1>1, <2>2, <3>2
    <3> QED
      BY <2>1, <2>4, <3>3 DEF WholeUrc
  <2> QED
    BY <2>1, <2>3, <2>4 DEF WholeUrc
<1>6. WholeUrcs(a)
  <2> SUFFICES ASSUME NEW i \in 1..n, a[i].kind \in TagKinds PROVE WholeUrc(a, i)
    BY <1>3 DEF WholeUrcs
  <2>1. s[i] = a[i] /\ s[i].kind \in TagKinds
    BY <1>3
  <2>2. IsLineStart(a, i)
    <3>1. IsLineStart(s, i)
      BY <1>5, <2>1
    <3>2. i # 1 => i - 1 \in 1..n
      BY <1>1
    <3> QED
      BY <1>3, <3>1, <3>2 DEF IsLineStart
  <2>3. CASE OneLine(s, i) /\ i + 2 <= n
    <3>1. i + 1 \in 1..n /\ i + 2 \in 1..n
      BY <1>1, <2>3
    <3>2. a[i + 1] = s[i + 1] /\ a[i + 2] = s[i + 2]
      BY <1>3, <3>1
    <3>3. i + 3 <= n => a[i + 3] = s[i + 3] /\ i + 3 <= Len(s)
      BY <1>1, <1>3
    <3>4. OneLine(a, i)
      BY <1>2, <2>1, <2>3, <3>2, <3>3 DEF OneLine
    <3> QED
      BY <2>2, <3>4 DEF WholeUrc
  <2>4. CASE TwoLines(s, i) /\ i + 4 <= n
    <3>1. i + 1 \in 1..n /\ i + 2 \in 1..n /\ i + 3 \in 1..n /\ i + 4 \in 1..n
      BY <1>1, <2>4
    <3>2. a[i + 1] = s[i + 1] /\ a[i + 2] = s[i + 2] /\ a[i + 3] = s[i + 3] /\ a[i + 4] = s[i + 4]
      BY <1>3, <3>1
    <3>3. i + 5 <= n => a[i + 5] = s[i + 5] /\ i + 5 <= Len(s)
      BY <1>1, <1>3
    <3>4. TwoLines(a, i)
      BY <1>2, <2>1, <2>4, <3>2, <3>3 DEF TwoLines
    <3> QED
      BY <2>2, <3>4 DEF WholeUrc
  <2> QED
    BY <1>5, <2>1, <2>3, <2>4
<1>7. WholeUrcs(b)
  BY <1>2, WholeDrop DEF Parts
<1>8. Led(a)
  <2> SUFFICES ASSUME NEW p \in 1..n
               PROVE  /\ a[p].kind \in {"num", "alpha"} => p > 1 /\ a[p - 1].kind \in TagKinds
                      /\ a[p].kind = "pdu" =>
                           p > 3 /\ a[p - 3].kind \in TagKinds /\ a[p - 2].kind = "num"
    BY <1>3 DEF Led
  <2>1. a[p] = s[p] /\ p \in DOMAIN s
    BY <1>1, <1>3
  <2>2. /\ s[p].kind \in {"num", "alpha"} => p > 1 /\ s[p - 1].kind \in TagKinds
        /\ s[p].kind = "pdu" => p > 3 /\ s[p - 3].kind \in TagKinds /\ s[p - 2].kind = "num"
    BY <2>1 DEF Parts, Led
  <2>3. /\ p > 1 => p - 1 \in 1..n
        /\ p > 3 => p - 2 \in 1..n /\ p - 3 \in 1..n
    BY <1>1
  <2> QED
    BY <1>3, <2>1, <2>2, <2>3
<1>9. Led(b)
  <2> SUFFICES ASSUME NEW q \in 1..Len(b)
               PROVE  /\ b[q].kind \in {"num", "alpha"} => q > 1 /\ b[q - 1].kind \in TagKinds
                      /\ b[q].kind = "pdu" =>
                           q > 3 /\ b[q - 3].kind \in TagKinds /\ b[q - 2].kind = "num"
    BY <1>3 DEF Led
  <2> DEFINE p == n + q
  <2>1. b[q] = s[p] /\ p \in DOMAIN s /\ p - 1 = n + (q - 1) /\ p - 2 = n + (q - 2)
        /\ p - 3 = n + (q - 3) /\ p \in Nat /\ q \in Nat
    BY <1>1, <1>2, <1>3
  <2> HIDE DEF p
  <2>2. /\ s[p].kind \in {"num", "alpha"} => p > 1 /\ s[p - 1].kind \in TagKinds
        /\ s[p].kind = "pdu" => p > 3 /\ s[p - 3].kind \in TagKinds /\ s[p - 2].kind = "num"
    BY <2>1 DEF Parts, Led
  <2>3. b[q].kind \in {"num", "alpha"} => q > 1 /\ b[q - 1].kind \in TagKinds
    <3> SUFFICES ASSUME b[q].kind \in {"num", "alpha"} PROVE q > 1 /\ b[q - 1].kind \in TagKinds
      OBVIOUS
    <3>1. q # 1
      <4> SUFFICES ASSUME q = 1 PROVE FALSE
        OBVIOUS
      <4>1. b[1].kind = "nl"
        BY <1>1, <1>2, <1>3
      <4> QED
        BY <4>1
    <3>2. q > 1 /\ q - 1 \in 1..Len(b)
      BY <2>1, <3>1
    <3>3. s[n + (q - 1)] = b[q - 1]
      BY <1>3, <3>2
    <3> QED
      BY <2>1, <2>2, <3>2, <3>3
  <2>4. b[q].kind = "pdu" => q > 3 /\ b[q - 3].kind \in TagKinds /\ b[q - 2].kind = "num"
    <3> SUFFICES ASSUME b[q].kind = "pdu"
                 PROVE  q > 3 /\ b[q - 3].kind \in TagKinds /\ b[q - 2].kind = "num"
      OBVIOUS
    <3> DEFINE i == p - 3
    <3>1. i \in Nat /\ i >= 1 /\ i = n + (q - 3) /\ s[i].kind \in TagKinds /\ s[p - 2].kind = "num"
      BY <2>1, <2>2
    <3>2. i + 1 = p - 2
      BY <2>1
    <3> HIDE DEF i
    <3>3. ~(i <= n)
      <4> SUFFICES ASSUME i <= n PROVE FALSE
        OBVIOUS
      <4>1. i \in 1..n
        BY <1>1, <3>1
      <4>2. \/ OneLine(s, i) /\ i + 2 <= n
            \/ TwoLines(s, i) /\ i + 4 <= n
        BY <1>5, <3>1, <4>1
      <4>3. ~OneLine(s, i)
        BY <3>1, <3>2 DEF OneLine
      <4>4. i + 4 <= n
        BY <4>2, <4>3
      <4>5. q \in Nat /\ q >= 1 /\ n \in Nat /\ i = n + (q - 3)
        BY <1>1, <2>1, <3>1
      <4> QED
        BY <4>4, <4>5
    <3>4. q > 3 /\ q - 3 \in 1..Len(b) /\ q - 2 \in 1..Len(b)
      BY <1>1, <2>1, <3>1, <3>3
    <3>5. s[n + (q - 3)] = b[q - 3] /\ s[n + (q - 2)] = b[q - 2]
      BY <1>3, <3>4
    <3> QED
      BY <2>1, <3>1, <3>4, <3>5
  <2> QED
    BY <2>3, <2>4
<1> QED
  BY <1>4, <1>6, <1>7, <1>8, <1>9 DEF Parts, a, b

\* Neither does erasing a URC.
LEMMA PartsErase ==
  ASSUME NEW b \in Seq(Tokens), Parts(b), CanErase(b)
  PROVE  Parts(EraseFirst(b))
<1> DEFINE t == EraseFirst(b)
           i == FirstUrc(b)
           e == UrcEnd(b, i)
           d == e + 1 - i
<1>1. <<>> \in Seq(Tokens) /\ b \o <<>> = b
  BY EmptySeq, ConcatEmptySeq
<1>2. t \in Seq(Tokens) /\ t \o <<>> = t
  BY EraseFirstShorter, ConcatEmptySeq
<1>3. WholeUrcs(b \o <<>>)
  BY <1>1 DEF Parts
<1>4. WholeUrcs(t)
  <2>1. WholeUrcs(t \o <<>>)
    BY <1>1, <1>3, WholeErase
  <2> QED
    BY <1>2, <2>1
<1>5. Spliced(t, b, i, d)
  <2>1. Spliced(t \o <<>>, b \o <<>>, i, d)
    BY <1>1, ErasedText
  <2> QED
    BY <1>1, <1>2, <2>1
<1>6. i \in 1..Len(b) /\ e \in 1..Len(b) /\ b[e].kind = "nl"
  BY FirstUrcPlace
<1>7. \/ OneLine(b, i) /\ e = i + 2
      \/ TwoLines(b, i) /\ e = i + 4
  <2>1. \/ OneLine(b \o <<>>, i) /\ e = i + 2
        \/ TwoLines(b \o <<>>, i) /\ e = i + 4
    BY <1>1, <1>3, ErasedUrc
  <2> QED
    BY <1>1, <2>1
<1>8. /\ Len(t) = Len(b) - d /\ Len(b) \in Nat /\ DOMAIN b = 1..Len(b) /\ DOMAIN t = 1..Len(t)
      /\ \A k \in 1..Len(t) : t[k] = IF k < i THEN b[k] ELSE b[k + d]
  BY <1>2, <1>5 DEF Spliced
<1>9. d \in Nat /\ i \in Nat /\ e \in Nat /\ e + 1 = i + d /\ Len(t) \in Nat
  BY <1>2, <1>6, <1>7
<1> HIDE DEF t, i, e, d
<1>10. ASSUME NEW p \in 1..Len(t)
       PROVE  /\ t[p].kind \in {"num", "alpha"} => p > 1 /\ t[p - 1].kind \in TagKinds
              /\ t[p].kind = "pdu" => p > 3 /\ t[p - 3].kind \in TagKinds /\ t[p - 2].kind = "num"
  <2>1. CASE p < i
    <3>1. p \in DOMAIN b /\ t[p] = b[p]
      BY <1>6, <1>8, <1>9, <2>1
    <3>2. /\ b[p].kind \in {"num", "alpha"} => p > 1 /\ b[p - 1].kind \in TagKinds
          /\ b[p].kind = "pdu" => p > 3 /\ b[p - 3].kind \in TagKinds /\ b[p - 2].kind = "num"
      BY <3>1 DEF Parts, Led
    <3>3. /\ p > 1 => p - 1 \in 1..Len(t) /\ p - 1 < i
          /\ p > 3 => p - 2 \in 1..Len(t) /\ p - 2 < i /\ p - 3 \in 1..Len(t) /\ p - 3 < i
      BY <1>9, <2>1
    <3>4. p > 1 => t[p - 1] = b[p - 1]
      BY <1>8, <3>3
    <3>5. p > 3 => t[p - 2] = b[p - 2] /\ t[p - 3] = b[p - 3]
      BY <1>8, <3>3
    <3> QED
      BY <3>1, <3>2, <3>4, <3>5
  <2>2. CASE ~(p < i)
    <3> DEFINE q == p + d
    <3>1. q \in DOMAIN b /\ q > e /\ t[p] = b[q] /\ q = p + d /\ q \in Nat /\ p \in Nat
      BY <1>8, <1>9, <2>2
    <3> HIDE DEF q
    <3>2. /\ b[q].kind \in {"num", "alpha"} => q > 1 /\ b[q - 1].kind \in TagKinds
          /\ b[q].kind = "pdu" => q > 3 /\ b[q - 3].kind \in TagKinds /\ b[q - 2].kind = "num"
      BY <3>1 DEF Parts, Led
    <3>3. t[p].kind \in {"num", "alpha"} => p > 1 /\ t[p - 1].kind \in TagKinds
      <4> SUFFICES ASSUME t[p].kind \in {"num", "alpha"} PROVE p > 1 /\ t[p - 1].kind \in TagKinds
        OBVIOUS
      <4>1. b[q - 1].kind \in TagKinds
        BY <3>1, <3>2
      <4>2. q - 1 # e
        <5> SUFFICES ASSUME q - 1 = e PROVE FALSE
          OBVIOUS
        <5> QED
          BY <1>6, <4>1 DEF TagKinds
      <4>3. p - 1 \in 1..Len(t) /\ ~(p - 1 < i) /\ (p - 1) + d = q - 1 /\ p > 1
        BY <1>6, <1>9, <3>1, <4>2
      <4>4. t[p - 1] = b[q - 1]
        BY <1>8, <4>3
      <4> QED
        BY <4>1, <4>3, <4>4
    <3>4. t[p].kind = "pdu" => p > 3 /\ t[p - 3].kind \in TagKinds /\ t[p - 2].kind = "num"
      <4> SUFFICES ASSUME t[p].kind = "pdu"
                   PROVE  p > 3 /\ t[p - 3].kind \in TagKinds /\ t[p - 2].kind = "num"
        OBVIOUS
      <4> DEFINE c == q - 3
      <4>1. b[c].kind \in TagKinds /\ b[c + 1].kind = "num" /\ c \in Nat /\ c + 3 = q
        <5>1. q > 3 /\ b[q - 3].kind \in TagKinds /\ b[q - 2].kind = "num"
          BY <3>1, <3>2
        <5>2. c + 1 = q - 2 /\ c \in Nat /\ c + 3 = q
          BY <3>1, <5>1
        <5> QED
          BY <5>1, <5>2
      <4> HIDE DEF c
      <4>2. c # e
        BY <1>6, <4>1 DEF TagKinds
      <4>3. c > e
        <5>1. CASE OneLine(b, i) /\ e = i + 2
          <6>1. b[i + 1].kind = "alpha"
            BY <5>1 DEF OneLine
          <6>2. c # i
            BY <4>1, <6>1
          <6>3. c # i + 1
            BY <4>1, <6>1 DEF TagKinds
          <6> QED
            BY <1>9, <3>1, <4>1, <4>2, <5>1, <6>2, <6>3
        <5>2. CASE TwoLines(b, i) /\ e = i + 4
          <6>1. b[i + 2].kind = "nl" /\ b[i + 3].kind = "pdu"
            BY <5>2 DEF TwoLines
          <6>2. c # i + 2
            BY <4>1, <6>1 DEF TagKinds
          <6>3. c # i + 3
            BY <4>1, <6>1 DEF TagKinds
          <6> QED
            BY <1>9, <3>1, <4>1, <4>2, <5>2, <6>2, <6>3
        <5> QED
          BY <1>7, <5>1, <5>2
      <4>4. /\ p - 3 \in 1..Len(t) /\ ~(p - 3 < i) /\ (p - 3) + d = c /\ p > 3
            /\ p - 2 \in 1..Len(t) /\ ~(p - 2 < i) /\ (p - 2) + d = c + 1
        BY <1>6, <1>9, <3>1, <4>1, <4>3
      <4>5. t[p - 3] = b[c] /\ t[p - 2] = b[c + 1]
        BY <1>8, <4>4
      <4> QED
        BY <4>1, <4>4, <4>5
    <3> QED
      BY <3>3, <3>4
  <2> QED
    BY <1>9, <2>1, <2>2
<1> QED
  BY <1>4, <1>8, <1>10 DEF Parts, Led, t

LEMMA NoParts == Parts(<<>>) /\ Opens(<<>>)
BY NothingToErase DEF Parts, Led, Opens

\* The messages of a modem that gives every +CMT its length.
PartsOf(msg) == msg \in Seq(Tokens) /\ Parts(msg) /\ Opens(msg)

LEMMA MessageParts ==
  /\ \A kind \in FinalResults, n \in Nat : PartsOf(<<NL, Mark(kind, n), NL>>)
  /\ \A n \in Nat : PartsOf(<<NL, Mark("gt", n)>>)
  /\ \A n \in Nat : PartsOf(<<NL, Mark("text", n), NL, NL, Mark("ok", n), NL>>)
  /\ \A n \in Nat : PartsOf(<<NL, Tok("cds"), Tok("num"), NL, Mark("pdu", n), NL>>)
  /\ \A kind \in {"cmt", "cmti", "cdsi"} : PartsOf(NoticeText(kind))
<1> USE DEF Led
<1>1. ASSUME NEW kind \in FinalResults, NEW n \in Nat
      PROVE  PartsOf(<<NL, Mark(kind, n), NL>>)
  <2> DEFINE m == <<NL, Mark(kind, n), NL>>
  <2>1. Led(m)
    BY DEF NL, Tok, Mark, FinalResults
  <2>2. Whole(m)
    BY WholeMessages
  <2> HIDE DEF m
  <2>3. PartsOf(m)
    BY <2>1, <2>2 DEF Whole, PartsOf, Parts, Opens
  <2> QED
    BY <2>3 DEF m
<1>2. ASSUME NEW n \in Nat PROVE PartsOf(<<NL, Mark("gt", n)>>)
  <2> DEFINE m == <<NL, Mark("gt", n)>>
  <2>1. Led(m)
    BY DEF NL, Tok, Mark
  <2>2. Whole(m)
    BY WholeMessages
  <2> HIDE DEF m
  <2>3. PartsOf(m)
    BY <2>1, <2>2 DEF Whole, PartsOf, Parts, Opens
  <2> QED
    BY <2>3 DEF m
<1>3. ASSUME NEW n \in Nat PROVE PartsOf(<<NL, Mark("text", n), NL, NL, Mark("ok", n), NL>>)
  <2> DEFINE m == <<NL, Mark("text", n), NL, NL, Mark("ok", n), NL>>
  <2>1. Led(m) /\ WholeUrcs(m) /\ m # <<>> /\ m[1].kind = "nl"
    BY DEF NL, Tok, Mark, WholeUrcs, TagKinds
  <2>2. m \in Seq(Tokens)
    BY MessagesAreText
  <2> HIDE DEF m
  <2>3. PartsOf(m)
    BY <2>1, <2>2 DEF PartsOf, Parts, Opens
  <2> QED
    BY <2>3 DEF m
<1>4. ASSUME NEW n \in Nat
      PROVE  PartsOf(<<NL, Tok("cds"), Tok("num"), NL, Mark("pdu", n), NL>>)
  <2> DEFINE m == <<NL, Tok("cds"), Tok("num"), NL, Mark("pdu", n), NL>>
  <2>1. Led(m)
    BY DEF NL, Tok, Mark, TagKinds
  <2>2. Whole(m)
    BY WholeMessages
  <2> HIDE DEF m
  <2>3. PartsOf(m)
    BY <2>1, <2>2 DEF Whole, PartsOf, Parts, Opens
  <2> QED
    BY <2>3 DEF m
<1>5. ASSUME NEW kind \in {"cmt", "cmti", "cdsi"} PROVE PartsOf(NoticeText(kind))
  <2> DEFINE m == NoticeText(kind)
  <2>1. Led(m)
    <3>1. CASE kind \in {"cmti", "cdsi"}
      BY <3>1 DEF NoticeText, NL, Tok, Mark, TagKinds
    <3>2. CASE kind = "cmt"
      BY <3>2 DEF NoticeText, NL, Tok, Mark, TagKinds
    <3> QED
      BY <3>1, <3>2
  <2>2. Whole(m)
    BY WholeMessages
  <2> HIDE DEF m
  <2>3. PartsOf(m)
    BY <2>1, <2>2 DEF Whole, PartsOf, Parts, Opens
  <2> QED
    BY <2>3 DEF m
<1> QED
  BY <1>1, <1>2, <1>3, <1>4, <1>5

\* The hypotheses: no read ends inside a URC or a result, and the modem sends
\* no +CMT without a length.
UrcsUncut == ~CutReads /\ "cmtAlpha" \notin Notices

StripInv == FlowInv /\ PartsOf(rx) /\ \A t \in Threads : Parts(buf[t])

LEMMA ReadParts ==
  ASSUME ~CutReads, StripInv, NEW t \in Threads, NEW least \in {0, 1}, Read(t, least)
  PROVE  PartsOf(rx') /\ \A u \in Threads : Parts(buf'[u])
<1>1. /\ buf \in [Threads -> Seq(Tokens)] /\ rx \in Seq(Tokens) /\ Parts(rx) /\ Opens(rx)
      /\ \A u \in Threads : Parts(buf[u])
  BY DEF StripInv, FlowInv, OrderInv, ExchangeInv, TypeOK, PartsOf
<1>2. PICK n \in least..Len(rx) :
        /\ Boundary(rx, n)
        /\ buf' = [buf EXCEPT ![t] = buf[t] \o SubSeq(rx, 1, n)]
        /\ rx' = SubSeq(rx, n + 1, Len(rx))
  BY DEF Read, ReadSizes, SetBuf
<1> DEFINE a == SubSeq(rx, 1, n)
           b == SubSeq(rx, n + 1, Len(rx))
<1>3. n \in 0..Len(rx) /\ n \in Nat /\ Len(rx) \in Nat
  BY <1>1, <1>2
<1>4. a \in Seq(Tokens) /\ Len(a) = n /\ b \in Seq(Tokens) /\ Len(b) = Len(rx) - n /\ a \o b = rx
  BY <1>1, <1>3, SplitSequence
<1> HIDE DEF a, b
<1>5. PartsOf(a) /\ PartsOf(b)
  <2>1. CASE n = 0
    <3>1. a = <<>>
      BY <1>4, <2>1, EmptySeq
    <3>2. b = rx
      BY <1>4, <3>1, ConcatEmptySeq
    <3> QED
      BY <1>1, <1>4, <3>1, <3>2, NoParts DEF PartsOf
  <2>2. CASE n = Len(rx)
    <3>1. b = <<>>
      BY <1>3, <1>4, <2>2, EmptySeq
    <3>2. a = rx
      BY <1>4, <3>1, ConcatEmptySeq
    <3> QED
      BY <1>1, <1>4, <3>1, <3>2, NoParts DEF PartsOf
  <2>3. CASE n # 0 /\ n # Len(rx)
    <3>1. n \in 1..(Len(rx) - 1)
      BY <1>3, <2>3
    <3>2. rx[n].kind \in {"nl", "gt"} /\ rx[n + 1] = NL
      BY <1>2, <2>3 DEF Boundary
    <3>3. rx[n + 1].kind = "nl"
      BY <3>2 DEF NL, Tok, Mark
    <3>4. Parts(a) /\ Parts(b) /\ Opens(b)
      BY <1>1, <3>1, <3>2, <3>3, PartsCut DEF a, b
    <3>5. Opens(a)
      <4>1. rx # <<>> /\ rx[1].kind = "nl"
        BY <1>1, <1>3, <2>3, EmptySeq DEF Opens
      <4>2. 1 \in 1..Len(a)
        BY <1>4, <3>1
      <4>3. a[1] = rx[1]
        BY <1>4, <4>2, ConcatElements
      <4> QED
        BY <4>1, <4>3 DEF Opens
    <3> QED
      BY <1>4, <3>4, <3>5 DEF PartsOf
  <2> QED
    BY <2>1, <2>2, <2>3
<1>6. Parts(buf[t] \o a)
  BY <1>1, <1>5, PartsAppend DEF PartsOf
<1>7. \A u \in Threads : buf'[u] = IF u = t THEN buf[t] \o a ELSE buf[u]
  BY <1>1, <1>2 DEF a
<1>8. rx' = b
  BY <1>2 DEF b
<1> QED
  BY <1>1, <1>5, <1>6, <1>7, <1>8

LEMMA ThreadParts ==
  ASSUME ~CutReads, StripInv, NEW t \in Threads, ThreadSteps(t)
  PROVE  PartsOf(rx') /\ \A u \in Threads : Parts(buf'[u])
<1>1. ExchangeInv /\ BuffersOutside /\ Tidy /\ buf \in [Threads -> Seq(Tokens)]
  BY DEF StripInv, FlowInv, OrderInv, ExchangeInv, TypeOK
<1>2. PartsOf(rx) /\ \A u \in Threads : Parts(buf[u])
  BY DEF StripInv
<1>3. CASE \E least \in {0, 1} : Read(t, least)
  BY <1>3, ReadParts
<1>4. CASE buf' = buf /\ rx' = rx
  BY <1>2, <1>4
<1>5. CASE rx' = rx /\ buf' = [buf EXCEPT ![t] = <<>>]
  <2>1. \A u \in Threads : buf'[u] = IF u = t THEN <<>> ELSE buf[u]
    BY <1>1, <1>5
  <2> QED
    BY <1>2, <1>5, <2>1, NoParts
<1> QED
  BY <1>1, <1>3, <1>4, <1>5, ThreadShape

LEMMA EraseParts ==
  ASSUME StripInv, NEW t \in Threads, EraseUrc(t)
  PROVE  PartsOf(rx') /\ \A u \in Threads : Parts(buf'[u])
<1>1. buf \in [Threads -> Seq(Tokens)]
  BY DEF StripInv, FlowInv, OrderInv, ExchangeInv, TypeOK
<1>2. CanErase(buf[t]) /\ buf' = [buf EXCEPT ![t] = EraseFirst(buf[t])] /\ rx' = rx
  BY DEF EraseUrc, SetBuf
<1>3. Parts(EraseFirst(buf[t]))
  BY <1>1, <1>2, PartsErase DEF StripInv
<1>4. \A u \in Threads : buf'[u] = IF u = t THEN EraseFirst(buf[t]) ELSE buf[u]
  BY <1>1, <1>2
<1> QED
  BY <1>2, <1>3, <1>4 DEF StripInv

LEMMA ModemParts ==
  ASSUME UrcsUncut, StripInv, Modem
  PROVE  PartsOf(rx') /\ \A u \in Threads : Parts(buf'[u])
<1>1. TypeOK /\ PartsOf(rx) /\ \A u \in Threads : Parts(buf[u])
  BY DEF StripInv, FlowInv, OrderInv, ExchangeInv
<1>2. buf' = buf
  BY <1>1, ModemSends
<1>3. ASSUME Handle PROVE Head(tx).of \in Nat
  <2>1. Head(tx) \in Input
    BY <1>1, <1>3, HeadTailProperties DEF Handle, TypeOK
  <2> QED
    BY <2>1 DEF Input
<1>4. rx' = rx \/ \E msg : PartsOf(msg) /\ Send(msg)
  <2>1. CASE Answer
    BY <1>3, <2>1, MessageParts DEF Answer, Reply, FinalResults
  <2>2. CASE Submit
    BY <1>3, <2>2, MessageParts DEF Submit, Reply, FinalResults
  <2>3. CASE Swallow
    BY <2>3 DEF Swallow
  <2>4. CASE SendReport
    <3> DEFINE n == sent.report
    <3>1. n \in Nat
      BY <1>1 DEF TypeOK
    <3> HIDE DEF n
    <3>2. PartsOf(<<NL, Tok("cds"), Tok("num"), NL, Mark("pdu", n + 1), NL>>)
      BY <3>1, MessageParts
    <3> QED
      BY <2>4, <3>2 DEF SendReport, n
  <2>5. CASE SendNotice
    <3>1. PICK kind \in Notices : Send(NoticeText(kind))
      BY <2>5 DEF SendNotice
    <3>2. kind \in {"cmt", "cmti", "cdsi"}
      BY BoundAssumption DEF UrcsUncut
    <3> QED
      BY <3>1, <3>2, MessageParts
  <2> QED
    BY <2>1, <2>2, <2>3, <2>4, <2>5 DEF Modem
<1>5. CASE rx' = rx
  BY <1>1, <1>2, <1>5
<1>6. CASE \E msg : PartsOf(msg) /\ rx' = rx \o msg
  <2>1. PICK msg : PartsOf(msg) /\ rx' = rx \o msg
    BY <1>6
  <2>2. rx \in Seq(Tokens) /\ msg \in Seq(Tokens) /\ Parts(rx) /\ Parts(msg) /\ Opens(msg) /\ Opens(rx)
    BY <1>1, <2>1 DEF PartsOf
  <2>3. Parts(rx \o msg)
    BY <2>2, PartsAppend
  <2>4. Opens(rx \o msg)
    <3>1. CASE rx = <<>>
      <4>1. rx \o msg = msg
        BY <2>2, <3>1, ConcatEmptySeq
      <4> QED
        BY <2>2, <4>1
    <3>2. CASE rx # <<>>
      <4>1. 1 \in 1..Len(rx)
        BY <2>2, <3>2, EmptySeq
      <4>2. (rx \o msg)[1] = rx[1]
        BY <2>2, <4>1, ConcatElements
      <4> QED
        BY <2>2, <3>2, <4>2 DEF Opens
    <3> QED
      BY <3>1, <3>2
  <2>5. rx \o msg \in Seq(Tokens)
    BY <2>2, ConcatProperties
  <2> QED
    BY <1>1, <1>2, <2>1, <2>3, <2>4, <2>5 DEF PartsOf
<1> QED
  BY <1>4, <1>5, <1>6 DEF Send

LEMMA StripStep ==
  ASSUME UrcsUncut, StripInv, FlowInv', [Next]_vars
  PROVE  StripInv'
<1> SUFFICES PartsOf(rx') /\ \A u \in Threads : Parts(buf'[u])
  BY DEF StripInv
<1>1. ASSUME NEW t \in Threads, ThreadSteps(t)
      PROVE  PartsOf(rx') /\ \A u \in Threads : Parts(buf'[u])
  BY <1>1, ThreadParts DEF UrcsUncut
<1>2. ASSUME NEW t \in Threads, EraseUrc(t)
      PROVE  PartsOf(rx') /\ \A u \in Threads : Parts(buf'[u])
  BY <1>2, EraseParts
<1>3. CASE Modem
  BY <1>3, ModemParts
<1>4. CASE ClosePort
  BY <1>4, NoParts, EmptySeq DEF ClosePort, StripInv, PartsOf
<1>5. CASE Finished \/ UNCHANGED vars
  BY <1>5 DEF Finished, vars, StripInv
<1> QED
  BY <1>1, <1>2, <1>3, <1>4, <1>5 DEF Next, Run, ThreadSteps

\* A text of whole URCs in which the demux loop finds none holds no part of one.
LEMMA NothingLeft ==
  ASSUME NEW s \in Seq(Tokens), Parts(s), ~CanErase(s)
  PROVE  \A i \in DOMAIN s : s[i].kind \in {"nl", "text", "gt"} \union FinalResults
<1>1. \A i \in DOMAIN s : s[i].kind \notin TagKinds
  <2> SUFFICES ASSUME NEW i \in DOMAIN s, s[i].kind \in TagKinds PROVE FALSE
    OBVIOUS
  <2>1. WholeUrc(s, i)
    BY DEF Parts, WholeUrcs
  <2>2. i \in UrcTags(s)
    BY <2>1 DEF WholeUrc, UrcTags, IsUrcTag
  <2>3. UrcTags(s) \in SUBSET Nat
    BY DEF UrcTags
  <2>4. FirstUrc(s) \in UrcTags(s)
    BY <2>2, <2>3, MinOfNaturals DEF FirstUrc
  <2> DEFINE f == FirstUrc(s)
  <2>5. f \in DOMAIN s /\ s[f].kind \in TagKinds
    BY <2>4 DEF UrcTags, IsUrcTag
  <2>6. WholeUrc(s, f)
    BY <2>5 DEF Parts, WholeUrcs
  <2>7. UrcComplete(s, f)
    BY <2>5, <2>6, WholeIsComplete
  <2> QED
    BY <2>2, <2>7 DEF CanErase
<1>2. ASSUME NEW i \in DOMAIN s
      PROVE  s[i].kind \in {"nl", "text", "gt"} \union FinalResults
  <2>1. s[i] \in Tokens
    BY ElementOfSeq
  <2>2. s[i].kind \in TagKinds \union FinalResults
                      \union {"nl", "num", "alpha", "pdu", "text", "gt"}
    BY <2>1 DEF Tokens
  <2>3. s[i].kind \notin {"num", "alpha"}
    <3> SUFFICES ASSUME s[i].kind \in {"num", "alpha"} PROVE FALSE
      OBVIOUS
    <3>1. i > 1 /\ s[i - 1].kind \in TagKinds
      BY DEF Parts, Led
    <3>2. i - 1 \in DOMAIN s
      BY <3>1
    <3> QED
      BY <1>1, <3>1, <3>2
  <2>4. s[i].kind # "pdu"
    <3> SUFFICES ASSUME s[i].kind = "pdu" PROVE FALSE
      OBVIOUS
    <3>1. i > 3 /\ s[i - 3].kind \in TagKinds
      BY DEF Parts, Led
    <3>2. i - 3 \in DOMAIN s
      BY <3>1
    <3> QED
      BY <1>1, <3>1, <3>2
  <2> QED
    BY <1>1, <2>2, <2>3, <2>4
<1> QED
  BY <1>2

(***************************************************************************)
(* When no read ends inside a URC and every +CMT has its length, what a    *)
(* call keeps after the demux loop is the modem's answers alone: the loop  *)
(* stops at no URC, whichever came first, and removes the whole of each.   *)
(***************************************************************************)
THEOREM UrcsStripped ==
  ASSUME UrcsUncut
  PROVE  Spec => []UrcTextStripped
<1>1. Init => StripInv
  <2> SUFFICES ASSUME Init PROVE StripInv
    OBVIOUS
  <2>1. FlowInv /\ rx = <<>> /\ \A t \in Threads : buf[t] = <<>>
    BY FlowInit DEF Init
  <2> QED
    BY <2>1, NoParts, EmptySeq DEF StripInv, PartsOf
<1>2. StripInv /\ [Next]_vars => StripInv'
  BY UrcsUncut, FlowStep, StripStep DEF StripInv
<1>3. StripInv => UrcTextStripped
  <2> SUFFICES ASSUME StripInv, NEW t \in Threads, ~CanErase(buf[t])
               PROVE  \A i \in DOMAIN buf[t] : buf[t][i].kind \in {"nl", "text", "gt"} \union FinalResults
    BY DEF UrcTextStripped
  <2>1. buf[t] \in Seq(Tokens) /\ Parts(buf[t])
    BY DEF StripInv, FlowInv, OrderInv, ExchangeInv, TypeOK
  <2> QED
    BY <2>1, NothingLeft
<1> QED
  BY <1>1, <1>2, <1>3, PTL DEF Spec
===========================================================================
