-------------------------- MODULE GsmModemProofs --------------------------
(***************************************************************************)
(* Theorems about GsmModem, for any set of threads, any calls, any bounds  *)
(* and any faults, timely modem or not: its types, the mutex, and the      *)
(* order of the status reports, however reads cut the text and whenever    *)
(* the port is closed.                                                     *)
(***************************************************************************)
EXTENDS GsmModem, UrcTextProofs

-----------------------------------------------------------------------------
(***************************************************************************)
(* What the helpers of the actions do to the types of the variables.       *)
(***************************************************************************)
LEMMA ReturnType ==
  ASSUME TypeOK, NEW t \in Threads, NEW code \in Codes, Return(t, code)
  PROVE  /\ owner' \in Threads \union {NoThread}
         /\ pc' \in [Threads -> Places]
         /\ result' \in [Threads -> Codes]
         /\ buf' \in [Threads -> Seq(Tokens)]
<1>1. <<>> \in Seq(Tokens)
  BY EmptySeq
<1> QED
  BY <1>1 DEF TypeOK, Return, Goto, SetBuf, Places

LEMMA ConcludeType ==
  ASSUME TypeOK, NEW t \in Threads, NEW code \in Codes, Conclude(t, code)
  PROVE  /\ owner' \in Threads \union {NoThread}
         /\ pc' \in [Threads -> Places]
         /\ result' \in [Threads -> Codes]
         /\ buf' \in [Threads -> Seq(Tokens)]
         /\ step' \in [Threads -> Nat]
<1>1. CASE GoesOn(t, code)
  <2>1. <<>> \in Seq(Tokens)
    BY EmptySeq
  <2>2. /\ UNCHANGED <<owner, result>>
        /\ step' = [step EXCEPT ![t] = step[t] + 1]
        /\ pc' = [pc EXCEPT ![t] = "write"]
        /\ buf' = [buf EXCEPT ![t] = <<>>]
    BY <1>1 DEF Conclude, Goto, SetBuf
  <2>3. step' \in [Threads -> Nat]
    BY <2>2 DEF TypeOK
  <2>4. pc' \in [Threads -> Places]
    BY <2>2 DEF TypeOK, Places
  <2> QED
    BY <2>1, <2>2, <2>3, <2>4 DEF TypeOK
<1>2. CASE ~GoesOn(t, code)
  <2>1. FinalCode(t, code) \in Codes
    BY DEF FinalCode, Codes
  <2>2. Return(t, FinalCode(t, code)) /\ UNCHANGED step
    BY <1>2 DEF Conclude
  <2> QED
    BY <2>1, <2>2, ReturnType DEF TypeOK
<1> QED
  BY <1>1, <1>2

LEMMA ReadType ==
  ASSUME TypeOK, NEW t \in Threads, NEW least \in Nat, Read(t, least)
  PROVE  buf' \in [Threads -> Seq(Tokens)] /\ rx' \in Seq(Tokens)
<1>1. PICK n \in least..Len(rx) :
        /\ buf' = [buf EXCEPT ![t] = buf[t] \o SubSeq(rx, 1, n)]
        /\ rx' = SubSeq(rx, n + 1, Len(rx))
  BY DEF Read, ReadSizes, SetBuf
<1>2. rx \in Seq(Tokens) /\ Len(rx) \in Nat /\ n \in Int /\ buf[t] \in Seq(Tokens)
  BY DEF TypeOK
<1>3. \A i \in 1..Len(rx) : rx[i] \in Tokens
  BY <1>2, ElementOfSeq
<1>4. SubSeq(rx, 1, n) \in Seq(Tokens)
  BY <1>1, <1>2, <1>3, SubSeqProperties
<1>5. SubSeq(rx, n + 1, Len(rx)) \in Seq(Tokens)
  BY <1>1, <1>2, <1>3, SubSeqProperties
<1>6. buf[t] \o SubSeq(rx, 1, n) \in Seq(Tokens)
  BY <1>2, <1>4, ConcatProperties
<1> QED
  BY <1>1, <1>5, <1>6 DEF TypeOK

LEMMA TakeReportType ==
  ASSUME TypeOK, NEW t \in Threads, reports # <<>>, TakeReport(t)
  PROVE  /\ owner' \in Threads \union {NoThread}
         /\ pc' \in [Threads -> Places]
         /\ result' \in [Threads -> Codes]
         /\ buf' \in [Threads -> Seq(Tokens)]
         /\ delivered' \in Seq(Nat)
         /\ reports' \in Seq(Nat)
<1>1. Head(reports) \in Nat /\ Tail(reports) \in Seq(Nat)
  BY HeadTailProperties DEF TypeOK
<1>2. Append(delivered, Head(reports)) \in Seq(Nat)
  BY <1>1, AppendProperties DEF TypeOK
<1>3. "Ok" \in Codes
  BY DEF Codes
<1> QED
  BY <1>1, <1>2, <1>3, ReturnType DEF TakeReport

LEMMA SendType ==
  ASSUME TypeOK, NEW msg \in Seq(Tokens), Send(msg)
  PROVE  rx' \in Seq(Tokens)
<1>1. rx \o msg \in Seq(Tokens)
  BY ConcatProperties DEF TypeOK
<1> QED
  BY <1>1 DEF Send, TypeOK

\* Every message of the modem is a text.
LEMMA MessagesAreText ==
  /\ \A kind \in FinalResults, n \in Nat : <<NL, Mark(kind, n), NL>> \in Seq(Tokens)
  /\ \A n \in Nat : <<NL, Mark("gt", n)>> \in Seq(Tokens)
  /\ \A n \in Nat : <<NL, Mark("text", n), NL, NL, Mark("ok", n), NL>> \in Seq(Tokens)
  /\ \A n \in Nat : <<NL, Tok("cds"), Tok("num"), NL, Mark("pdu", n), NL>> \in Seq(Tokens)
  /\ \A kind \in {"cmt", "cmtAlpha", "cmti", "cdsi"} : NoticeText(kind) \in Seq(Tokens)
<1>1. \A kind \in TagKinds \union FinalResults
                   \union {"nl", "num", "alpha", "pdu", "text", "gt"}, n \in Nat :
        Mark(kind, n) \in Tokens
  BY DEF Mark, Tokens
<1>2. NL \in Tokens
  BY <1>1 DEF NL, Tok
<1>3. \A kind \in TagKinds \union {"num", "alpha", "pdu"} : Tok(kind) \in Tokens
  BY <1>1 DEF Tok
<1>4. \A kind \in FinalResults, n \in Nat : <<NL, Mark(kind, n), NL>> \in Seq(Tokens)
  BY <1>1, <1>2
<1>5. \A n \in Nat : <<NL, Mark("gt", n)>> \in Seq(Tokens)
  BY <1>1, <1>2
<1>6. \A n \in Nat : <<NL, Mark("text", n), NL, NL, Mark("ok", n), NL>> \in Seq(Tokens)
  BY <1>1, <1>2 DEF FinalResults
<1>7. \A n \in Nat : <<NL, Tok("cds"), Tok("num"), NL, Mark("pdu", n), NL>> \in Seq(Tokens)
  BY <1>1, <1>2, <1>3 DEF TagKinds
<1>8. \A kind \in {"cmt", "cmtAlpha", "cmti", "cdsi"} : NoticeText(kind) \in Seq(Tokens)
  BY <1>1, <1>2, <1>3 DEF TagKinds, NoticeText
<1> QED
  BY <1>4, <1>5, <1>6, <1>7, <1>8

-----------------------------------------------------------------------------
(***************************************************************************)
(* Type correctness, action by action.                                     *)
(***************************************************************************)
\* The variables the actions of the program and of the modem leave alone.
LEMMA CallType ==
  ASSUME TypeOK, NEW t \in Threads,
         Start(t) \/ Refuse(t) \/ OpenFails(t) \/ Enter(t)
  PROVE  TypeOK'
<1>1. CASE Start(t)
  <2>1. call' \in [Threads -> [op : Ops, n : Nat]]
    BY <1>1, CallAssumption DEF Start, TypeOK
  <2>2. pc' \in [Threads -> Places] /\ result' \in [Threads -> Codes]
    BY <1>1 DEF Start, TypeOK, Goto, Places, Codes
  <2>3. made' \in [Threads -> Nat]
    BY <1>1 DEF Start, TypeOK
  <2>4. step' \in [Threads -> Nat]
    BY <1>1 DEF Start, TypeOK
  <2> QED
    BY <1>1, <2>1, <2>2, <2>3, <2>4 DEF Start, TypeOK, modemVars, history
<1>2. CASE Refuse(t)
  <2>1. Refusal(t) \in Codes
    BY DEF Refusal, Codes
  <2> QED
    BY <1>2, <2>1, ReturnType DEF Refuse, TypeOK, callVars, modemVars, history
<1>3. CASE OpenFails(t)
  <2>1. "IoError" \in Codes
    BY DEF Codes
  <2> QED
    BY <1>3, <2>1, ReturnType DEF OpenFails, TypeOK, callVars, modemVars, history
<1>4. CASE Enter(t)
  BY <1>4 DEF Enter, TypeOK, Goto, Places, callVars, modemVars, history
<1> QED
  BY <1>1, <1>2, <1>3, <1>4

LEMMA FaultCodeType == FaultCode \in Codes
BY DEF FaultCode, Codes

LEMMA InputType ==
  ASSUME TypeOK, NEW t \in Threads, NEW id \in Nat,
         NEW kind \in {"line", "list", "cmgs", "pdu"}
  PROVE  Append(tx, InputOf(t, kind, id)) \in Seq(Input)
<1>1. InputOf(t, kind, id) \in Input
  BY DEF InputOf, Input, TypeOK
<1> QED
  BY <1>1, AppendProperties DEF TypeOK

LEMMA ExchangeType ==
  ASSUME TypeOK, NEW t \in Threads,
         \/ WriteCommand(t) \/ WriteCommandFails(t) \/ WaitAfterRequest(t)
         \/ Expire(t) \/ Poll(t) \/ EraseUrc(t) \/ PollAgain(t) \/ EndOfWait(t)
  PROVE  TypeOK'
<1>1. CASE WriteCommand(t)
  <2>1. issued' = issued + 1 /\ issued' \in Nat
    BY <1>1 DEF WriteCommand, TypeOK
  <2>7. cmd' \in [Threads -> Nat]
    <3>1. cmd' = [cmd EXCEPT ![t] = issued']
      BY <1>1, <2>1 DEF WriteCommand
    <3> QED
      BY <2>1, <3>1 DEF TypeOK
  <2>2. \A op : InputKind(op) \in {"line", "list", "cmgs", "pdu"}
    BY DEF InputKind
  <2>3. tx' \in Seq(Input)
    BY <1>1, <2>1, <2>2, InputType DEF WriteCommand, TypeOK
  <2>4. buf' \in [Threads -> Seq(Tokens)]
    BY <1>1, EmptySeq DEF WriteCommand, SetBuf, TypeOK
  <2>5. pc' \in [Threads -> Places]
    BY <1>1 DEF WriteCommand, AfterCommand, Goto, Places, TypeOK
  <2>6. owner' \in Threads \union {NoThread} /\ late' \in [Threads -> BOOLEAN]
    BY <1>1 DEF WriteCommand, TypeOK
  <2> QED
    BY <1>1, <2>1, <2>3, <2>4, <2>5, <2>6, <2>7 DEF WriteCommand, TypeOK, callVars, history
<1>2. CASE WriteCommandFails(t)
  BY <1>2, FaultCodeType, ConcludeType
     DEF WriteCommandFails, TypeOK, callVars, modemVars, history
<1>3. CASE WaitAfterRequest(t)
  BY <1>3 DEF WaitAfterRequest, TypeOK, Goto, Places, callVars, modemVars, history
<1>4. CASE Expire(t)
  BY <1>4 DEF Expire, TypeOK, callVars, modemVars, history
<1>5. CASE Poll(t)
  <2>1. buf' \in [Threads -> Seq(Tokens)] /\ rx' \in Seq(Tokens)
    BY <1>5, ReadType DEF Poll, TypeOK
  <2> QED
    BY <1>5, <2>1 DEF Poll, TypeOK, Goto, Places, callVars, modemVars, history
<1>6. CASE EraseUrc(t)
  <2>1. buf[t] \in Seq(Tokens) /\ CanErase(buf[t])
    BY <1>6 DEF EraseUrc, TypeOK
  <2>2. EraseFirst(buf[t]) \in Seq(Tokens)
    BY <2>1, EraseFirstShorter
  <2>3. reports \o ErasedReports(buf[t]) \in Seq(Nat)
    BY <2>1, ErasedReportsAreMarks, ConcatProperties DEF TypeOK
  <2> QED
    BY <1>6, <2>2, <2>3 DEF EraseUrc, SetBuf, TypeOK, callVars, modemVars, history
<1>7. CASE PollAgain(t)
  BY <1>7 DEF PollAgain, TypeOK, Goto, Places, callVars, modemVars, history
<1>8. CASE EndOfWait(t)
  <2>1. \A c : CodeOf(c) \in Codes
    BY DEF CodeOf, Codes
  <2> QED
    BY <1>8, <2>1, ConcludeType DEF EndOfWait, TypeOK, callVars, modemVars, history
<1> QED
  BY <1>1, <1>2, <1>3, <1>4, <1>5, <1>6, <1>7, <1>8

LEMMA PromptType ==
  ASSUME TypeOK, NEW t \in Threads,
         \/ ReadPrompt(t) \/ ReadPromptFails(t) \/ PromptRead(t) \/ NoPrompt(t)
         \/ WritePdu(t) \/ WritePduFails(t)
  PROVE  TypeOK'
<1>1. CASE ReadPrompt(t)
  BY <1>1, ReadType DEF ReadPrompt, TypeOK, Goto, Places, callVars, modemVars, history
<1>2. CASE ReadPromptFails(t)
  BY <1>2, FaultCodeType, ConcludeType
     DEF ReadPromptFails, TypeOK, callVars, modemVars, history
<1>3. CASE PromptRead(t)
  <2>1. <<>> \in Seq(Tokens)
    BY EmptySeq
  <2>2. buf' \in [Threads -> Seq(Tokens)] /\ pc' \in [Threads -> Places]
    BY <1>3, <2>1 DEF PromptRead, Goto, SetBuf, TypeOK, Places
  <2> QED
    BY <1>3, <2>2 DEF PromptRead, TypeOK, callVars, modemVars, history
<1>4. CASE NoPrompt(t)
  <2>1. "ModemRejected" \in Codes
    BY DEF Codes
  <2> QED
    BY <1>4, <2>1, ConcludeType DEF NoPrompt, TypeOK, callVars, modemVars, history
<1>5. CASE WritePdu(t)
  <2>1. cmd[t] \in Nat
    BY DEF TypeOK
  <2>2. tx' \in Seq(Input)
    BY <1>5, <2>1, InputType DEF WritePdu
  <2> QED
    BY <1>5, <2>2 DEF WritePdu, TypeOK, Goto, Places, callVars, history
<1>6. CASE WritePduFails(t)
  BY <1>6, FaultCodeType, ConcludeType
     DEF WritePduFails, TypeOK, callVars, modemVars, history
<1> QED
  BY <1>1, <1>2, <1>3, <1>4, <1>5, <1>6

LEMMA StatusType ==
  ASSUME TypeOK, NEW t \in Threads,
         \/ TakeQueued(t) \/ FirstDrain(t) \/ Drain(t) \/ TakeDrained(t)
         \/ DrainAgain(t) \/ NoReport(t)
  PROVE  TypeOK'
<1>1. CASE TakeQueued(t)
  BY <1>1, TakeReportType DEF TakeQueued, TypeOK, callVars, modemVars
<1>2. CASE FirstDrain(t)
  BY <1>2 DEF FirstDrain, TypeOK, Goto, Places, callVars, modemVars, history
<1>3. CASE Drain(t)
  <2>1. buf' \in [Threads -> Seq(Tokens)] /\ rx' \in Seq(Tokens)
    BY <1>3, ReadType DEF Drain, TypeOK
  <2> QED
    BY <1>3, <2>1 DEF Drain, TypeOK, Goto, Places, callVars, modemVars, history
<1>4. CASE TakeDrained(t)
  BY <1>4, TakeReportType DEF TakeDrained, TypeOK, callVars, modemVars
<1>5. CASE DrainAgain(t)
  <2>1. <<>> \in Seq(Tokens)
    BY EmptySeq
  <2> QED
    BY <1>5, <2>1 DEF DrainAgain, TypeOK, Goto, SetBuf, Places, callVars, modemVars, history
<1>6. CASE NoReport(t)
  <2>1. "Timeout" \in Codes
    BY DEF Codes
  <2> QED
    BY <1>6, <2>1, ReturnType DEF NoReport, TypeOK, callVars, modemVars, history
<1> QED
  BY <1>1, <1>2, <1>3, <1>4, <1>5, <1>6

LEMMA ModemType ==
  ASSUME TypeOK, ClosePort \/ Modem
  PROVE  TypeOK'
<1>1. CASE ClosePort
  <2>1. rx' \in Seq(Tokens)
    BY <1>1, EmptySeq DEF ClosePort
  <2>2. closes' = closes + 1 /\ portOpen' = FALSE
    BY <1>1 DEF ClosePort
  <2>3. closes' \in Nat
    BY <2>2 DEF TypeOK
  <2> QED
    BY <1>1, <2>1, <2>2, <2>3 DEF ClosePort, TypeOK, callVars, modemVars
<1>2. ASSUME Handle
      PROVE  /\ tx' \in Seq(Input)
             /\ Head(tx) \in Input
             /\ Head(tx).of \in Nat
             /\ Grant(Head(tx)) => granted' \in Seq(Exchange)
  <2>1. Head(tx) \in Input /\ Tail(tx) \in Seq(Input)
    BY <1>2, HeadTailProperties DEF Handle, TypeOK
  <2>2. [by |-> Head(tx).by, nth |-> Head(tx).nth, seg |-> Head(tx).seg] \in Exchange
    BY <2>1 DEF Input, Exchange
  <2>3. Grant(Head(tx)) => granted' \in Seq(Exchange)
    BY <2>2, AppendProperties DEF Grant, TypeOK
  <2> QED
    BY <1>2, <2>1, <2>3 DEF Handle, Input
<1>3. CASE Answer
  <2>1. /\ tx' \in Seq(Input)
        /\ Head(tx).of \in Nat
        /\ Grant(Head(tx)) => granted' \in Seq(Exchange)
    BY <1>2, <1>3 DEF Answer
  <2>2. rx' \in Seq(Tokens)
    BY <1>3, <2>1, SendType, MessagesAreText DEF Answer, Reply, FinalResults, TypeOK
  <2>3. mode' \in {"cmd", "text"} /\ granted' \in Seq(Exchange)
    BY <1>3, <2>1 DEF Answer, TypeOK
  <2> QED
    BY <1>3, <2>1, <2>2, <2>3 DEF Answer, TypeOK, hostVars, callVars, history
<1>4. CASE Submit
  <2>1. /\ tx' \in Seq(Input)
        /\ Head(tx).of \in Nat
        /\ Grant(Head(tx)) => granted' \in Seq(Exchange)
    BY <1>2, <1>4 DEF Submit
  <2>2. rx' \in Seq(Tokens)
    BY <1>4, <2>1, SendType, MessagesAreText DEF Submit, Reply, FinalResults, TypeOK
  <2>3. mode' \in {"cmd", "text"} /\ granted' \in Seq(Exchange)
    BY <1>4, <2>1 DEF Submit, TypeOK
  <2> QED
    BY <1>4, <2>1, <2>2, <2>3 DEF Submit, TypeOK, hostVars, callVars, history
<1>5. CASE Swallow
  <2>1. tx' \in Seq(Input)
    BY <1>2, <1>5 DEF Swallow
  <2> QED
    BY <1>5, <2>1 DEF Swallow, TypeOK, hostVars, callVars, history
<1>6. CASE SendReport
  <2>1. sent.report + 1 \in Nat
    BY DEF TypeOK
  <2>2. rx' \in Seq(Tokens)
    BY <1>6, <2>1, SendType, MessagesAreText DEF SendReport
  <2>3. sent' \in [report : Nat, notice : Nat]
    <3>1. sent' = [sent EXCEPT !.report = sent.report + 1]
      BY <1>6 DEF SendReport
    <3> QED
      BY <2>1, <3>1 DEF TypeOK
  <2> QED
    BY <1>6, <2>2, <2>3 DEF SendReport, TypeOK, hostVars, callVars
<1>7. CASE SendNotice
  <2>1. rx' \in Seq(Tokens)
    BY <1>7, SendType, MessagesAreText, BoundAssumption DEF SendNotice
  <2>2. sent' \in [report : Nat, notice : Nat]
    <3>1. sent' = [sent EXCEPT !.notice = sent.notice + 1] /\ sent.notice + 1 \in Nat
      BY <1>7 DEF SendNotice, TypeOK
    <3> QED
      BY <3>1 DEF TypeOK
  <2> QED
    BY <1>7, <2>1, <2>2 DEF SendNotice, TypeOK, hostVars, callVars
<1> QED
  BY <1>1, <1>3, <1>4, <1>5, <1>6, <1>7 DEF Modem

LEMMA StutterType ==
  ASSUME TypeOK, UNCHANGED vars
  PROVE  TypeOK'
BY DEF TypeOK, vars

LEMMA TypeInit == Init => TypeOK
<1>1. ASSUME Init PROVE call \in [Threads -> [op : Ops, n : Nat]]
  BY <1>1 DEF Init, Ops
<1>2. <<>> \in Seq(Nat) /\ <<>> \in Seq(Tokens) /\ <<>> \in Seq(Input) /\ <<>> \in Seq(Exchange)
  BY EmptySeq
<1> QED
  BY <1>1, <1>2 DEF Init, TypeOK, Places, Codes

LEMMA TypeStep == TypeOK /\ [Next]_vars => TypeOK'
<1> SUFFICES ASSUME TypeOK, [Next]_vars PROVE TypeOK'
  OBVIOUS
<1>1. CASE \E t \in Threads : Start(t) \/ Run(t) \/ Expire(t)
  BY <1>1, CallType, ExchangeType, PromptType, StatusType DEF Run
<1>2. CASE ClosePort \/ Modem
  BY <1>2, ModemType
<1>3. CASE Finished \/ UNCHANGED vars
  BY <1>3, StutterType DEF Finished
<1> QED
  BY <1>1, <1>2, <1>3 DEF Next

\* The variables always hold values of their types: no buffer, queue or
\* return code is ever anything else, whatever the threads call.
THEOREM TypeCorrect == Spec => []TypeOK
BY TypeInit, TypeStep, PTL DEF Spec

-----------------------------------------------------------------------------
(***************************************************************************)
(* Overlapping calls serialize.  ExchangeUnbroken alone is not inductive:  *)
(* a thread that writes must not be able to do so between the command and  *)
(* the wait of another, which is so because only the holder of the mutex   *)
(* is anywhere between its lock_guard and its return.                      *)
(***************************************************************************)
Held == Places \ {"idle", "lock", "parted"}

OnlyHolderInside ==
  \A t \in Threads : pc[t] \in Held => owner = t

LastCommandIsHolders ==
  \A t \in Threads : call[t].op \notin SplitCalls =>
    /\ pc[t] # "parted"
    /\ pc[t] \in InExchange => cmd[t] = issued

ExchangeInv == TypeOK /\ OnlyHolderInside /\ LastCommandIsHolders

\* While t is inside, or the mutex is free, no other thread is inside.
LEMMA OthersOutside ==
  ASSUME OnlyHolderInside, NEW t \in Threads, owner = NoThread \/ pc[t] \in Held
  PROVE  \A u \in Threads \ {t} : pc[u] \notin Held
BY ThreadAssumption DEF OnlyHolderInside

\* A step of t that leaves other threads where they are, and puts t inside
\* only as the holder, keeps everyone else out.
LEMMA OnlyHolderStep ==
  ASSUME TypeOK, OnlyHolderInside, NEW t \in Threads,
         owner = NoThread \/ pc[t] \in Held,
         NEW l \in Places, Goto(t, l),
         l \in Held => owner' = t
  PROVE  OnlyHolderInside'
<1>1. \A u \in Threads \ {t} : pc'[u] = pc[u]
  BY DEF Goto, TypeOK
<1>2. pc'[t] = l
  BY DEF Goto, TypeOK
<1> QED
  BY <1>1, <1>2, OthersOutside DEF OnlyHolderInside

\* The same for the last command: t may change its own, or write a new one.
LEMMA LastCommandStep ==
  ASSUME ExchangeInv, NEW t \in Threads,
         owner = NoThread \/ pc[t] \in Held,
         NEW l \in Places, Goto(t, l), call' = call,
         call[t].op \notin SplitCalls =>
           l # "parted" /\ (l \in InExchange => cmd'[t] = issued')
  PROVE  LastCommandIsHolders'
<1>1. \A u \in Threads \ {t} : pc'[u] = pc[u] /\ pc[u] \notin Held
  BY OthersOutside DEF ExchangeInv, Goto, TypeOK
<1>2. pc'[t] = l
  BY DEF ExchangeInv, Goto, TypeOK
<1>3. InExchange \subseteq Held
  BY DEF InExchange, Held, Places
<1> QED
  BY <1>1, <1>2, <1>3 DEF ExchangeInv, LastCommandIsHolders

LEMMA ReturnExchange ==
  ASSUME ExchangeInv, NEW t \in Threads, NEW code,
         owner = NoThread \/ pc[t] \in Held,
         Return(t, code), call' = call
  PROVE  OnlyHolderInside' /\ LastCommandIsHolders'
<1>1. "idle" \in Places /\ "idle" \notin Held /\ "idle" \notin InExchange
  BY DEF Places, Held, InExchange
<1>2. Goto(t, "idle")
  BY DEF Return
<1> QED
  BY <1>1, <1>2, OnlyHolderStep, LastCommandStep DEF ExchangeInv

LEMMA ConcludeExchange ==
  ASSUME ExchangeInv, NEW t \in Threads, NEW code, pc[t] \in Held,
         Conclude(t, code), call' = call
  PROVE  OnlyHolderInside' /\ LastCommandIsHolders'
<1>1. CASE GoesOn(t, code)
  <2>1. Goto(t, "write") /\ owner' = owner
    BY <1>1 DEF Conclude
  <2>2. "write" \in Places /\ "write" \notin InExchange
    BY DEF Places, InExchange
  <2>3. owner = t
    BY DEF ExchangeInv, OnlyHolderInside
  <2> QED
    BY <2>1, <2>2, <2>3, OnlyHolderStep, LastCommandStep DEF ExchangeInv
<1>2. CASE ~GoesOn(t, code)
  BY <1>2, ReturnExchange DEF Conclude
<1> QED
  BY <1>1, <1>2

\* A step inside t's exchange: t stays the holder, and its command the last.
LEMMA InsideExchange ==
  ASSUME ExchangeInv, NEW t \in Threads, pc[t] \in Held,
         NEW l \in Places \ {"parted"}, Goto(t, l), owner' = owner, call' = call,
         l \in InExchange => pc[t] \in InExchange,
         cmd' = cmd, issued' = issued
  PROVE  OnlyHolderInside' /\ LastCommandIsHolders'
<1>1. owner = t
  BY DEF ExchangeInv, OnlyHolderInside
<1>2. OnlyHolderInside'
  BY <1>1, OnlyHolderStep DEF ExchangeInv
<1>3. call[t].op \notin SplitCalls /\ l \in InExchange => cmd'[t] = issued'
  BY DEF ExchangeInv, LastCommandIsHolders
<1> QED
  BY <1>2, <1>3, LastCommandStep DEF ExchangeInv

\* A step that moves no thread and writes no command.
LEMMA NobodyMoves ==
  ASSUME ExchangeInv, UNCHANGED <<owner, pc, call, cmd, issued>>
  PROVE  OnlyHolderInside' /\ LastCommandIsHolders'
BY DEF ExchangeInv, OnlyHolderInside, LastCommandIsHolders

\* The actions that begin a call, or end it at once.
LEMMA BeginExchange ==
  ASSUME ExchangeInv, NEW t \in Threads,
         \/ Start(t) \/ Refuse(t) \/ OpenFails(t) \/ Enter(t)
         \/ TakeQueued(t) \/ FirstDrain(t) \/ WaitAfterRequest(t)
  PROVE  OnlyHolderInside' /\ LastCommandIsHolders'
<1>1. /\ {"write", "drain", "wait"} \subseteq Held
      /\ {"lock", "write", "drain", "wait"} \subseteq Places
      /\ {"write", "drain", "lock"} \cap InExchange = {}
      /\ "lock" \notin Held /\ "parted" \notin {"lock", "write", "drain", "wait"}
  BY DEF Held, Places, InExchange
<1>2. CASE Start(t)
  <2>1. Goto(t, "lock") /\ pc[t] = "idle"
    BY <1>2 DEF Start
  <2>2. pc' = [pc EXCEPT ![t] = "lock"] /\ UNCHANGED <<owner, cmd, issued>>
    BY <1>2 DEF Start, Goto
  <2>3. \A u \in Threads \ {t} : pc'[u] = pc[u] /\ call'[u] = call[u]
    BY <1>2, <2>2 DEF Start, ExchangeInv, TypeOK
  <2>4. pc'[t] = "lock"
    BY <2>2 DEF ExchangeInv, TypeOK
  <2> QED
    BY <1>1, <2>2, <2>3, <2>4 DEF ExchangeInv, OnlyHolderInside, LastCommandIsHolders
<1>3. CASE Refuse(t)
  BY <1>3, ReturnExchange DEF Refuse, Free, callVars
<1>4. CASE OpenFails(t)
  BY <1>4, ReturnExchange DEF OpenFails, Free, callVars
<1>5. CASE TakeQueued(t)
  BY <1>5, ReturnExchange DEF TakeQueued, TakeReport, Status, Free, callVars
<1>6. CASE Enter(t)
  <2>1. owner = NoThread /\ owner' = t /\ Goto(t, "write") /\ call' = call
    BY <1>6 DEF Enter, Free, callVars
  <2> QED
    BY <1>1, <2>1, OnlyHolderStep, LastCommandStep DEF ExchangeInv
<1>7. CASE FirstDrain(t)
  <2>1. owner = NoThread /\ owner' = t /\ Goto(t, "drain") /\ call' = call
    BY <1>7 DEF FirstDrain, Status, Free, callVars
  <2> QED
    BY <1>1, <2>1, OnlyHolderStep, LastCommandStep DEF ExchangeInv
<1>8. CASE WaitAfterRequest(t)
  <2>1. owner = NoThread /\ owner' = t /\ Goto(t, "wait") /\ call' = call
    BY <1>8 DEF WaitAfterRequest, callVars
  <2>2. call[t].op \in SplitCalls
    BY <1>8 DEF WaitAfterRequest, ExchangeInv, LastCommandIsHolders
  <2> QED
    BY <1>1, <2>1, <2>2, OnlyHolderStep, LastCommandStep DEF ExchangeInv
<1> QED
  BY <1>2, <1>3, <1>4, <1>5, <1>6, <1>7, <1>8

\* The actions that write.
LEMMA WriteExchange ==
  ASSUME ExchangeInv, NEW t \in Threads, WriteCommand(t)
  PROVE  OnlyHolderInside' /\ LastCommandIsHolders'
<1>1. pc[t] \in Held /\ owner = t
  BY DEF WriteCommand, Held, Places, ExchangeInv, OnlyHolderInside
<1>2. PICK l \in Places : /\ Goto(t, l)
                          /\ call[t].op \in SplitCalls <=> l = "parted"
  BY DEF WriteCommand, AfterCommand, SplitCalls, Places
<1>3. "parted" \notin Held
  BY DEF Held
<1>4. l \in Held => owner' = t
  BY <1>1, <1>2, <1>3 DEF WriteCommand
<1>5. cmd'[t] = issued'
  BY DEF WriteCommand, ExchangeInv, TypeOK
<1>6. call' = call
  BY DEF WriteCommand, callVars
<1> QED
  BY <1>1, <1>2, <1>4, <1>5, <1>6, OnlyHolderStep, LastCommandStep DEF ExchangeInv

\* The actions that end an exchange, or the call.
LEMMA EndExchange ==
  ASSUME ExchangeInv, NEW t \in Threads,
         \/ WriteCommandFails(t) \/ EndOfWait(t) \/ ReadPromptFails(t) \/ NoPrompt(t)
         \/ WritePduFails(t) \/ TakeDrained(t) \/ NoReport(t)
  PROVE  OnlyHolderInside' /\ LastCommandIsHolders'
<1>1. {"write", "demux", "prompt", "promptDemux", "body", "drainDemux", "again"}
        \subseteq Held
  BY DEF Held, Places
<1>2. CASE WriteCommandFails(t)
  BY <1>1, <1>2, ConcludeExchange DEF WriteCommandFails, callVars
<1>3. CASE EndOfWait(t)
  BY <1>1, <1>3, ConcludeExchange DEF EndOfWait, callVars
<1>4. CASE ReadPromptFails(t)
  BY <1>1, <1>4, ConcludeExchange DEF ReadPromptFails, callVars
<1>5. CASE NoPrompt(t)
  BY <1>1, <1>5, ConcludeExchange DEF NoPrompt, callVars
<1>6. CASE WritePduFails(t)
  BY <1>1, <1>6, ConcludeExchange DEF WritePduFails, callVars
<1>7. CASE TakeDrained(t)
  BY <1>1, <1>7, ReturnExchange DEF TakeDrained, TakeReport, callVars
<1>8. CASE NoReport(t)
  BY <1>1, <1>8, ReturnExchange DEF NoReport, callVars
<1> QED
  BY <1>2, <1>3, <1>4, <1>5, <1>6, <1>7, <1>8

\* The actions of a loop, which neither end nor begin an exchange.
LEMMA LoopExchange ==
  ASSUME ExchangeInv, NEW t \in Threads,
         \/ Poll(t) \/ PollAgain(t) \/ ReadPrompt(t) \/ PromptRead(t) \/ WritePdu(t)
         \/ Drain(t) \/ DrainAgain(t) \/ EraseUrc(t) \/ Expire(t)
  PROVE  OnlyHolderInside' /\ LastCommandIsHolders'
<1>1. /\ {"wait", "demux", "prompt", "promptDemux", "body", "drain", "drainDemux", "again"}
           \subseteq Held \cap (Places \ {"parted"})
      /\ {"wait", "demux", "prompt", "promptDemux", "body"} \subseteq InExchange
      /\ {"drain", "drainDemux", "again"} \cap InExchange = {}
  BY DEF Held, Places, InExchange
<1>2. CASE Poll(t)
  BY <1>1, <1>2, InsideExchange DEF Poll, callVars
<1>3. CASE PollAgain(t)
  BY <1>1, <1>3, InsideExchange DEF PollAgain, callVars
<1>4. CASE ReadPrompt(t)
  BY <1>1, <1>4, InsideExchange DEF ReadPrompt, callVars
<1>5. CASE PromptRead(t)
  BY <1>1, <1>5, InsideExchange DEF PromptRead, callVars
<1>6. CASE WritePdu(t)
  BY <1>1, <1>6, InsideExchange DEF WritePdu, callVars
<1>7. CASE Drain(t)
  BY <1>1, <1>7, InsideExchange DEF Drain, callVars
<1>8. CASE DrainAgain(t)
  BY <1>1, <1>8, InsideExchange DEF DrainAgain, callVars
<1>9. CASE EraseUrc(t)
  BY <1>9, NobodyMoves DEF EraseUrc, callVars
<1>10. CASE Expire(t)
  BY <1>10, NobodyMoves DEF Expire, callVars
<1> QED
  BY <1>2, <1>3, <1>4, <1>5, <1>6, <1>7, <1>8, <1>9, <1>10

LEMMA ExchangeInit == Init => ExchangeInv
<1>1. ASSUME Init PROVE OnlyHolderInside /\ LastCommandIsHolders
  BY <1>1 DEF Init, OnlyHolderInside, LastCommandIsHolders, Held, InExchange
<1> QED
  BY <1>1, TypeInit DEF ExchangeInv

LEMMA ExchangeStep == ExchangeInv /\ [Next]_vars => ExchangeInv'
<1> SUFFICES ASSUME ExchangeInv, [Next]_vars PROVE ExchangeInv'
  OBVIOUS
<1>1. TypeOK'
  BY TypeStep DEF ExchangeInv
<1>2. CASE \E t \in Threads : Start(t) \/ Run(t) \/ Expire(t)
  BY <1>1, <1>2, BeginExchange, WriteExchange, EndExchange, LoopExchange
     DEF Run, ExchangeInv
<1>3. CASE ClosePort \/ Modem \/ Finished \/ UNCHANGED vars
  <2>1. UNCHANGED <<owner, pc, call, cmd, issued>>
    BY <1>3 DEF ClosePort, Modem, Answer, Submit, Swallow, SendReport, SendNotice,
                Finished, vars, hostVars, callVars
  <2> QED
    BY <1>1, <2>1, NobodyMoves DEF ExchangeInv
<1> QED
  BY <1>2, <1>3 DEF Next

(***************************************************************************)
(* "Overlapping calls from multiple threads serialize" (modem.hpp): no     *)
(* other command is written between a call's command and the end of its    *)
(* wait, and the caller holds the mutex all that time.  This holds for any *)
(* number of threads and whatever the modem does, for every call but list  *)
(* and delete.                                                             *)
(***************************************************************************)
THEOREM ExchangesSerialize == Spec => []ExchangeUnbroken
<1>1. ExchangeInv => ExchangeUnbroken
  <2>1. InExchange \subseteq Held
    BY DEF InExchange, Held, Places
  <2> QED
    BY <2>1 DEF ExchangeInv, ExchangeUnbroken, OnlyHolderInside, LastCommandIsHolders
<1> QED
  BY <1>1, ExchangeInit, ExchangeStep, PTL DEF Spec

-----------------------------------------------------------------------------
(***************************************************************************)
(* Status reports: the order in which they are handed out.                 *)
(***************************************************************************)
(***************************************************************************)
(* The text still ahead holds more than the reports that will be decoded:  *)
(* after a fragment was dropped, the PDU of its report may still come,     *)
(* without its +CDS.  So the invariant speaks of all PDUs of reports.      *)
(***************************************************************************)
IsReportPdu(tok) == tok.kind = "pdu" /\ tok.of # 0

\* Their marks rise.
Rising(s) ==
  \A p, q \in DOMAIN s :
    p < q /\ IsReportPdu(s[p]) /\ IsReportPdu(s[q]) => s[p].of < s[q].of

\* None is a report the modem has not sent yet.
Known(s, n) == \A p \in DOMAIN s : IsReportPdu(s[p]) => s[p].of <= n

\* Those after a +CDS, which may be decoded, come after all that were.
Fresh(s, seen) ==
  \A i, p \in DOMAIN s : \A k \in DOMAIN seen :
    i < p /\ s[i].kind = "cds" /\ IsReportPdu(s[p]) => seen[k] < s[p].of

\* Every +CDS stands at the start of a line, so the demux loop sees it.
TagsLead(s) == \A i \in DOMAIN s : s[i].kind = "cds" => IsLineStart(s, i)

TextOrder(s, seen, n) ==
  Rising(s) /\ Known(s, n) /\ Fresh(s, seen) /\ TagsLead(s)

Increasing(s) == \A i, j \in DOMAIN s : i < j => s[i] < s[j]
Bounded(s, n) == \A i \in DOMAIN s : s[i] <= n

Seen == delivered \o reports

\* A thread outside the mutex has read nothing that is left.
BuffersOutside == \A t \in Threads : pc[t] \notin Held => buf[t] = <<>>

OrderInv ==
  /\ ExchangeInv /\ BuffersOutside
  /\ Increasing(Seen) /\ Bounded(Seen, sent.report)
  /\ TextOrder(Ahead, Seen, sent.report)

-----------------------------------------------------------------------------
(***************************************************************************)
(* How the order of a text fares when the text is cut, appended to or      *)
(* demultiplexed.                                                          *)
(***************************************************************************)
\* A text made of tokens of another, in the same order, keeps the order of the
\* reports in it.
LEMMA ThinnedOrder ==
  ASSUME NEW s \in Seq(Tokens), NEW short \in Seq(Tokens), NEW seen, NEW n \in Nat,
         Rising(s), Known(s, n), Fresh(s, seen),
         NEW f \in [DOMAIN short -> DOMAIN s],
         \A i, j \in DOMAIN short : i < j => f[i] < f[j],
         \A i \in DOMAIN short : short[i] = s[f[i]]
  PROVE  Rising(short) /\ Known(short, n) /\ Fresh(short, seen)
<1>1. Rising(short)
  BY DEF Rising
<1>2. Known(short, n)
  BY DEF Known
<1>3. Fresh(short, seen)
  BY DEF Fresh
<1> QED
  BY <1>1, <1>2, <1>3

\* What is left when the beginning of the text is dropped.
LEMMA DropOrder ==
  ASSUME NEW a \in Seq(Tokens), NEW b \in Seq(Tokens), NEW seen, NEW n \in Nat,
         TextOrder(a \o b, seen, n)
  PROVE  TextOrder(b, seen, n)
<1> DEFINE s == a \o b
           f == [i \in DOMAIN b |-> Len(a) + i]
<1>1. /\ s \in Seq(Tokens) /\ Len(s) = Len(a) + Len(b)
      /\ \A i \in 1..Len(b) : s[Len(a) + i] = b[i]
  BY ConcatProperties
<1>2. f \in [DOMAIN b -> DOMAIN s]
  BY <1>1
<1>3. \A i, j \in DOMAIN b : i < j => f[i] < f[j]
  BY <1>1
<1>4. \A i \in DOMAIN b : b[i] = s[f[i]]
  BY <1>1
<1>5. Rising(b) /\ Known(b, n) /\ Fresh(b, seen)
  BY <1>1, <1>2, <1>3, <1>4, ThinnedOrder DEF TextOrder
<1>6. ASSUME NEW i \in DOMAIN b, b[i].kind = "cds"
      PROVE  IsLineStart(b, i)
  <2>1. Len(a) + i \in DOMAIN s /\ s[Len(a) + i].kind = "cds"
    BY <1>1, <1>6
  <2>2. IsLineStart(s, Len(a) + i)
    BY <2>1 DEF TextOrder, TagsLead
  <2>3. CASE i = 1
    BY <2>3 DEF IsLineStart
  <2>4. CASE i # 1
    <3>1. i - 1 \in 1..Len(b) /\ Len(a) + i # 1 /\ (Len(a) + i) - 1 = Len(a) + (i - 1)
      BY <2>4, <1>6
    <3>2. s[(Len(a) + i) - 1] = b[i - 1]
      BY <1>1, <3>1
    <3> QED
      BY <2>2, <3>1, <3>2 DEF IsLineStart
  <2> QED
    BY <2>3, <2>4
<1> QED
  BY <1>5, <1>6 DEF TextOrder, TagsLead

\* What is left when its end is.
LEMMA CutOrder ==
  ASSUME NEW a \in Seq(Tokens), NEW b \in Seq(Tokens), NEW seen, NEW n \in Nat,
         TextOrder(a \o b, seen, n)
  PROVE  TextOrder(a, seen, n)
<1> DEFINE s == a \o b
           f == [i \in DOMAIN a |-> i]
<1>1. /\ s \in Seq(Tokens) /\ Len(s) = Len(a) + Len(b)
      /\ \A i \in 1..Len(a) : s[i] = a[i]
  BY ConcatProperties
<1>2. f \in [DOMAIN a -> DOMAIN s]
  BY <1>1
<1>3. \A i, j \in DOMAIN a : i < j => f[i] < f[j]
  BY <1>1
<1>4. \A i \in DOMAIN a : a[i] = s[f[i]]
  BY <1>1
<1>5. Rising(a) /\ Known(a, n) /\ Fresh(a, seen)
  BY <1>1, <1>2, <1>3, <1>4, ThinnedOrder DEF TextOrder
<1>6. ASSUME NEW i \in DOMAIN a, a[i].kind = "cds"
      PROVE  IsLineStart(a, i)
  <2>1. i \in DOMAIN s /\ s[i].kind = "cds"
    BY <1>1, <1>6
  <2>2. IsLineStart(s, i)
    BY <2>1 DEF TextOrder, TagsLead
  <2>3. i # 1 => s[i - 1] = a[i - 1]
    BY <1>1
  <2> QED
    BY <2>2, <2>3 DEF IsLineStart
<1> QED
  BY <1>5, <1>6 DEF TextOrder, TagsLead

\* What it is when a message of the modem is added: its reports are new.
LEMMA AppendOrder ==
  ASSUME NEW s \in Seq(Tokens), NEW msg \in Seq(Tokens), NEW seen \in Seq(Nat),
         NEW n \in Nat, NEW m \in Nat, n <= m,
         TextOrder(s, seen, n), Bounded(seen, n),
         msg # <<>> => msg[1].kind = "nl", TagsLead(msg), Rising(msg),
         \A p \in DOMAIN msg : IsReportPdu(msg[p]) => n < msg[p].of /\ msg[p].of <= m
  PROVE  TextOrder(s \o msg, seen, m)
<1> DEFINE t == s \o msg
<1>1. /\ t \in Seq(Tokens) /\ Len(t) = Len(s) + Len(msg)
      /\ \A i \in 1..Len(s) : t[i] = s[i]
      /\ \A i \in (Len(s) + 1)..Len(t) : i - Len(s) \in DOMAIN msg /\ t[i] = msg[i - Len(s)]
  BY ConcatProperties
<1>2. \A i \in DOMAIN t : t[i].of \in Nat
  BY <1>1, MarkOfToken
<1>3. ASSUME NEW p \in DOMAIN t, NEW q \in DOMAIN t, p < q,
             IsReportPdu(t[p]), IsReportPdu(t[q])
      PROVE  t[p].of < t[q].of
  <2>1. CASE q <= Len(s)
    <3>1. p \in DOMAIN s /\ q \in DOMAIN s /\ t[p] = s[p] /\ t[q] = s[q]
      BY <1>1, <1>3, <2>1
    <3> QED
      BY <1>3, <3>1 DEF TextOrder, Rising
  <2>2. CASE p <= Len(s) /\ q > Len(s)
    <3>1. p \in DOMAIN s /\ t[p] = s[p] /\ q - Len(s) \in DOMAIN msg /\ t[q] = msg[q - Len(s)]
      BY <1>1, <1>3, <2>2
    <3>2. t[p].of <= n /\ n < t[q].of
      BY <1>3, <3>1 DEF TextOrder, Known
    <3> QED
      BY <1>2, <3>2
  <2>3. CASE p > Len(s)
    <3>1. /\ p - Len(s) \in DOMAIN msg /\ t[p] = msg[p - Len(s)]
          /\ q - Len(s) \in DOMAIN msg /\ t[q] = msg[q - Len(s)]
          /\ p - Len(s) < q - Len(s)
      BY <1>1, <1>3, <2>3
    <3> QED
      BY <1>3, <3>1 DEF Rising
  <2> QED
    BY <1>1, <1>3, <2>1, <2>2, <2>3
<1>4. ASSUME NEW p \in DOMAIN t, IsReportPdu(t[p])
      PROVE  t[p].of <= m
  <2>1. CASE p <= Len(s)
    <3>1. t[p] = s[p] /\ p \in DOMAIN s
      BY <1>1, <2>1
    <3>2. t[p].of <= n
      BY <1>4, <3>1 DEF TextOrder, Known
    <3> QED
      BY <1>2, <3>2
  <2>2. CASE p > Len(s)
    BY <1>1, <1>4, <2>2
  <2> QED
    BY <1>1, <2>1, <2>2
<1>5. ASSUME NEW i \in DOMAIN t, NEW p \in DOMAIN t, NEW k \in DOMAIN seen,
             i < p, t[i].kind = "cds", IsReportPdu(t[p])
      PROVE  seen[k] < t[p].of
  <2>1. CASE p <= Len(s)
    <3>1. t[p] = s[p] /\ p \in DOMAIN s /\ t[i] = s[i] /\ i \in DOMAIN s
      BY <1>1, <1>5, <2>1
    <3> QED
      BY <1>5, <3>1 DEF TextOrder, Fresh
  <2>2. CASE p > Len(s)
    <3>1. seen[k] <= n /\ seen[k] \in Nat
      BY DEF Bounded
    <3>2. n < t[p].of
      BY <1>1, <1>5, <2>2
    <3> QED
      BY <1>2, <3>1, <3>2
  <2> QED
    BY <1>1, <2>1, <2>2
<1>6. ASSUME NEW i \in DOMAIN t, t[i].kind = "cds"
      PROVE  IsLineStart(t, i)
  <2>1. CASE i <= Len(s)
    <3>1. i \in DOMAIN s /\ t[i] = s[i] /\ (i # 1 => t[i - 1] = s[i - 1])
      BY <1>1, <2>1
    <3> QED
      BY <1>6, <3>1 DEF TextOrder, TagsLead, IsLineStart
  <2>2. CASE i > Len(s)
    <3>1. i - Len(s) \in DOMAIN msg /\ msg[i - Len(s)].kind = "cds"
      BY <1>1, <1>6, <2>2
    <3>2. i - Len(s) # 1
      BY <3>1
    <3>3. msg[(i - Len(s)) - 1].kind = "nl"
      BY <3>1, <3>2 DEF TagsLead, IsLineStart
    <3>4. t[i - 1] = msg[(i - Len(s)) - 1]
      BY <1>1, <3>1, <3>2
    <3> QED
      BY <3>3, <3>4 DEF IsLineStart
  <2> QED
    BY <1>1, <2>1, <2>2
<1> QED
  BY <1>3, <1>4, <1>5, <1>6 DEF TextOrder, Rising, Known, Fresh, TagsLead

(***************************************************************************)
(* One turn of the demux loop over the buffer, with rest still on the      *)
(* line: what it decodes is newer than all that was decoded before, and    *)
(* what stays is newer than that.                                          *)
(***************************************************************************)
LEMMA EraseOrder ==
  ASSUME NEW buffer \in Seq(Tokens), NEW rest \in Seq(Tokens), NEW seen \in Seq(Nat),
         NEW n \in Nat, TextOrder(buffer \o rest, seen, n), CanErase(buffer)
  PROVE  /\ TextOrder(EraseFirst(buffer) \o rest, seen \o ErasedReports(buffer), n)
         /\ \A i \in DOMAIN ErasedReports(buffer) :
              /\ ErasedReports(buffer)[i] <= n
              /\ \A k \in DOMAIN seen : seen[k] < ErasedReports(buffer)[i]
<1> DEFINE s == buffer \o rest
           i == FirstUrc(buffer)
           e == UrcEnd(buffer, i)
           h == HeaderEnd(buffer, i)
           t == EraseFirst(buffer) \o rest
           f == [k \in DOMAIN t |-> IF k < i THEN k ELSE k + (e + 1 - i)]
           new == ErasedReports(buffer)
<1>1. /\ s \in Seq(Tokens) /\ Len(s) = Len(buffer) + Len(rest)
      /\ \A k \in 1..Len(buffer) : s[k] = buffer[k]
  BY ConcatProperties
<1>2. /\ i \in 1..Len(buffer) /\ IsUrcTag(buffer, i)
      /\ \A j \in UrcTags(buffer) : i <= j
      /\ e \in 1..Len(buffer) /\ i < e /\ buffer[e].kind = "nl"
      /\ h \in 1..Len(buffer) /\ i < h
  BY FirstUrcPlace
<1>3. /\ ~IsReport(ReportAt(buffer, i)) => new = <<>>
      /\ IsReport(ReportAt(buffer, i)) =>
           /\ new = <<ReportAt(buffer, i)>>
           /\ buffer[i].kind = "cds" /\ e = h + 2 /\ buffer[h + 1].kind = "pdu"
           /\ ReportAt(buffer, i) = buffer[h + 1].of
  <2>1. h + 1 + 1 = h + 2
    BY <1>2
  <2> QED
    BY <2>1 DEF ErasedReports, ReportAt, IsReport
<1>4. /\ t \in Seq(Tokens) /\ Len(t) = Len(s) - (e + 1 - i)
      /\ \A k \in DOMAIN t : t[k] = IF k < i THEN s[k] ELSE s[k + (e + 1 - i)]
  <2>1. t \in Seq(Tokens) /\ Spliced(t, s, i, e + 1 - i)
    BY ErasedText
  <2> HIDE DEF t, s, i, e
  <2> QED
    BY <2>1 DEF Spliced
<1> HIDE DEF s, i, e, h, t, new
<1>5. /\ Len(s) \in Nat /\ i \in Nat /\ e \in Nat /\ 1 <= i /\ i < e /\ e <= Len(s)
      /\ DOMAIN t = 1..(Len(s) - (e + 1 - i)) /\ DOMAIN s = 1..Len(s)
  BY <1>1, <1>2, <1>4
<1>6. \A k \in DOMAIN t : f[k] \in DOMAIN s /\ t[k] = s[f[k]]
  BY <1>4, <1>5
<1>7. /\ f \in [DOMAIN t -> DOMAIN s]
      /\ \A j, k \in DOMAIN t : j < k => f[j] < f[k]
  BY <1>5, <1>6
<1>8. TextOrder(s, seen, n)
  BY DEF s
<1>9. Rising(t) /\ Known(t, n) /\ Fresh(t, seen)
  <2> HIDE DEF f
  <2> QED
    BY <1>1, <1>4, <1>6, <1>7, <1>8, ThinnedOrder DEF TextOrder
<1>10. TagsLead(t)
  <2> SUFFICES ASSUME NEW k \in DOMAIN t, t[k].kind = "cds"
               PROVE  k = 1 \/ t[k - 1].kind = "nl"
    BY DEF TagsLead, IsLineStart
  <2>1. f[k] = 1 \/ s[f[k] - 1].kind = "nl"
    BY <1>6, <1>8 DEF TextOrder, TagsLead, IsLineStart
  <2>2. CASE k < i
    <3>1. k # 1 => k - 1 \in DOMAIN t /\ t[k - 1] = s[k - 1]
      BY <1>4, <1>5, <2>2
    <3> QED
      BY <2>1, <2>2, <3>1
  <2>3. CASE k > i
    <3>1. k - 1 \in DOMAIN t /\ ~(k - 1 < i) /\ (k - 1) + (e + 1 - i) = (k + (e + 1 - i)) - 1
      BY <1>5, <2>3
    <3>2. t[k - 1] = s[(k + (e + 1 - i)) - 1] /\ f[k] = k + (e + 1 - i) /\ f[k] # 1
      BY <1>4, <1>5, <2>3, <3>1
    <3> QED
      BY <2>1, <3>2
  <2>4. CASE k = i
    <3>1. i = 1 \/ buffer[i - 1].kind = "nl"
      BY <1>2 DEF IsUrcTag, IsLineStart
    <3>2. i # 1 => i - 1 \in DOMAIN t /\ i - 1 \in 1..Len(buffer)
      BY <1>2, <1>5, <2>4
    <3>3. i # 1 => t[i - 1] = s[i - 1]
      <4>1. i - 1 < i
        BY <1>5
      <4> QED
        BY <1>4, <3>2, <4>1
    <3>4. i # 1 => s[i - 1] = buffer[i - 1]
      BY <1>1, <3>2
    <3> QED
      BY <1>5, <2>4, <3>1, <3>3, <3>4
  <2> QED
    BY <1>5, <2>2, <2>3, <2>4
<1>11. CASE ~IsReport(ReportAt(buffer, i))
  <2>1. new = <<>>
    BY <1>3, <1>11
  <2>2. seen \o new = seen
    BY <2>1, ConcatEmptySeq
  <2>3. TextOrder(t, seen \o new, n)
    BY <1>9, <1>10, <2>2 DEF TextOrder
  <2> QED
    BY <2>1, <2>3 DEF t, new
<1>12. CASE IsReport(ReportAt(buffer, i))
  <2> DEFINE p == h + 1
  <2>2. /\ buffer[i].kind = "cds" /\ e = p + 1 /\ buffer[p].kind = "pdu"
        /\ ReportAt(buffer, i) = buffer[p].of /\ new = <<buffer[p].of>>
    BY <1>2, <1>3, <1>12
  <2>3. /\ p \in 1..Len(buffer) /\ i < p /\ p < e
        /\ s[i] = buffer[i] /\ s[p] = buffer[p] /\ i \in DOMAIN s /\ p \in DOMAIN s
    <3> HIDE DEF f
    <3>1. p \in Nat /\ i < p /\ p < e
      BY <1>2, <1>5, <2>2
    <3>2. p \in 1..Len(buffer) /\ p \in 1..Len(s)
      BY <1>2, <1>5, <3>1
    <3>3. s[i] = buffer[i] /\ s[p] = buffer[p]
      BY <1>1, <1>2, <3>2
    <3>4. i \in DOMAIN s /\ p \in DOMAIN s
      BY <1>5, <3>2
    <3> QED
      BY <3>1, <3>2, <3>3, <3>4
  <2>4. IsReportPdu(s[p])
    BY <1>12, <2>2, <2>3 DEF IsReportPdu, IsReport
  <2>5. s[p].of <= n
    BY <1>8, <2>3, <2>4 DEF TextOrder, Known
  <2>6. \A k \in DOMAIN seen : seen[k] < s[p].of
    BY <1>8, <2>2, <2>3, <2>4 DEF TextOrder, Fresh
  <2>7. ASSUME NEW j \in DOMAIN t, NEW q \in DOMAIN t, j < q,
               t[j].kind = "cds", IsReportPdu(t[q])
        PROVE  s[p].of < t[q].of
    <3>1. j >= i
      <4> SUFFICES ASSUME j < i PROVE FALSE
        BY <1>5
      <4>0. j \in 1..Len(buffer) /\ j \in DOMAIN s
        BY <1>2, <1>5
      <4>1. t[j] = s[j] /\ s[j] = buffer[j] /\ j \in DOMAIN s /\ j \in 1..Len(buffer)
        BY <1>1, <1>4, <4>0
      <4>2. j = 1 \/ s[j - 1].kind = "nl"
        BY <1>8, <2>7, <4>1 DEF TextOrder, TagsLead, IsLineStart
      <4>3. j # 1 => s[j - 1] = buffer[j - 1]
        <5>1. j # 1 => j - 1 \in 1..Len(buffer)
          BY <4>0
        <5> QED
          BY <1>1, <5>1
      <4>4. j = 1 \/ buffer[j - 1].kind = "nl"
        BY <4>2, <4>3
      <4>5. buffer[j].kind = "cds" /\ j \in DOMAIN buffer
        BY <2>7, <4>1
      <4>6. j \in UrcTags(buffer)
        BY <4>4, <4>5 DEF UrcTags, IsUrcTag, TagKinds, IsLineStart
      <4> QED
        BY <1>2, <1>5, <4>1, <4>6
    <3>2. f[q] = q + (e + 1 - i) /\ f[q] > p
      <4>1. q >= i /\ q \in Nat
        BY <1>5, <2>7, <3>1
      <4>2. q + (e + 1 - i) > p
        BY <1>5, <2>3, <4>1
      <4> QED
        BY <1>5, <4>1, <4>2
    <3>3. f[q] \in DOMAIN s /\ t[q] = s[f[q]]
      BY <1>6
    <3> HIDE DEF f
    <3> QED
      BY <1>8, <2>3, <2>4, <2>7, <3>2, <3>3 DEF TextOrder, Rising
  <2>8. s[p].of \in Nat
    BY <1>1, <2>3, MarkOfToken
  <2>9. new \in Seq(Nat) /\ Len(new) = 1 /\ new[1] = s[p].of
    BY <2>2, <2>3, <2>8
  <2>10. \A k \in DOMAIN (seen \o new) :
           \/ k \in DOMAIN seen /\ (seen \o new)[k] = seen[k]
           \/ (seen \o new)[k] = s[p].of
    BY <2>9, ConcatProperties
  <2>11. Fresh(t, seen \o new)
    BY <1>9, <2>7, <2>10 DEF Fresh
  <2>12. TextOrder(t, seen \o new, n)
    BY <1>9, <1>10, <2>11 DEF TextOrder
  <2>13. \A k \in DOMAIN new : new[k] <= n /\ \A l \in DOMAIN seen : seen[l] < new[k]
    BY <2>5, <2>6, <2>9
  <2> QED
    BY <2>12, <2>13 DEF t, new
<1> QED
  BY <1>11, <1>12

-----------------------------------------------------------------------------
(***************************************************************************)
(* What the steps of a thread do to the text ahead: apart from the demux   *)
(* loop they only drop some of its beginning, and they forget no report.   *)
(***************************************************************************)
HolderText == IF owner \in Threads THEN buf[owner] ELSE <<>>

Dropped == \E d \in Seq(Tokens) : Ahead = d \o Ahead'

LEMMA AheadIsText ==
  ASSUME TypeOK
  PROVE  /\ HolderText \in Seq(Tokens) /\ Ahead = HolderText \o rx
         /\ Ahead \in Seq(Tokens)
<1>1. HolderText \in Seq(Tokens)
  BY EmptySeq DEF HolderText, TypeOK
<1>2. Ahead = HolderText \o rx
  BY DEF Ahead, HolderText
<1> QED
  BY <1>1, <1>2, ConcatProperties DEF TypeOK

\* The holder's text stays, or goes at once.
LEMMA DroppedText ==
  ASSUME TypeOK, rx' = rx, HolderText' = HolderText \/ HolderText' = <<>>
  PROVE  Dropped
<1>1. /\ HolderText \in Seq(Tokens) /\ rx \in Seq(Tokens)
      /\ Ahead = HolderText \o rx /\ Ahead' = HolderText' \o rx
  BY AheadIsText DEF Ahead, HolderText, TypeOK
<1>2. CASE HolderText' = HolderText
  <2>1. Ahead \in Seq(Tokens) /\ Ahead' = Ahead
    BY <1>1, <1>2, AheadIsText
  <2>2. <<>> \in Seq(Tokens) /\ <<>> \o Ahead = Ahead
    BY <2>1, EmptySeq, ConcatEmptySeq
  <2> QED
    BY <2>1, <2>2 DEF Dropped
<1>3. CASE HolderText' = <<>>
  <2>1. Ahead' = rx
    BY <1>1, <1>3, ConcatEmptySeq
  <2> QED
    BY <1>1, <2>1 DEF Dropped
<1> QED
  BY <1>2, <1>3

\* A read moves text from the line to the holder's buffer.
LEMMA ReadText ==
  ASSUME TypeOK, NEW t \in Threads, owner = t, owner' = owner,
         NEW least \in Nat, Read(t, least)
  PROVE  Ahead' = Ahead
<1>1. PICK n \in least..Len(rx) :
        /\ buf' = [buf EXCEPT ![t] = buf[t] \o SubSeq(rx, 1, n)]
        /\ rx' = SubSeq(rx, n + 1, Len(rx))
  BY DEF Read, ReadSizes, SetBuf
<1> DEFINE b == buf[t]
           x == SubSeq(rx, 1, n)
           y == SubSeq(rx, n + 1, Len(rx))
<1>2. b \in Seq(Tokens) /\ rx \in Seq(Tokens) /\ n \in 0..Len(rx)
  BY <1>1 DEF TypeOK
<1>3. /\ x \in Seq(Tokens) /\ y \in Seq(Tokens) /\ x \o y = rx
  BY <1>2, SplitSequence
<1>4. Ahead = b \o rx /\ Ahead' = (b \o x) \o y
  BY <1>1 DEF Ahead, TypeOK
<1> HIDE DEF b, x, y
<1>5. (b \o x) \o y = b \o (x \o y)
  <2>1. b \in Seq(Tokens) /\ x \in Seq(Tokens) /\ y \in Seq(Tokens)
    BY <1>2, <1>3
  <2> QED
    BY <2>1, ConcatAssociative
<1> QED
  BY <1>3, <1>4, <1>5

\* Handing out the oldest queued report.
LEMMA TakeKeepsSeen ==
  ASSUME NEW d \in Seq(Nat), NEW r \in Seq(Nat), r # <<>>
  PROVE  Append(d, Head(r)) \o Tail(r) = d \o r
<1>1. Head(r) = r[1] /\ r[1] \in Nat /\ Tail(r) \in Seq(Nat) /\ Len(r) \in Nat \ {0}
  BY EmptySeq, HeadTailProperties
<1>2. <<r[1]>> \in Seq(Nat) /\ Append(d, r[1]) = d \o <<r[1]>>
  BY <1>1, AppendIsConcat
<1>3. <<r[1]>> \o Tail(r) = r
  BY <1>1, TailIsSubSeq, SubSeqRecursiveFirst, SubSeqFull
<1>4. (d \o <<r[1]>>) \o Tail(r) = d \o (<<r[1]>> \o Tail(r))
  BY <1>1, <1>2, ConcatAssociative
<1> QED
  BY <1>1, <1>2, <1>3, <1>4

\* t moves, its own buffer at most changes, and it leaves none outside.
LEMMA BuffersStep ==
  ASSUME TypeOK, BuffersOutside, NEW t \in Threads, NEW l \in Places, Goto(t, l),
         buf' = buf \/ \E x : SetBuf(t, x),
         l \notin Held => buf'[t] = <<>>
  PROVE  BuffersOutside'
<1>1. \A u \in Threads \ {t} : pc'[u] = pc[u] /\ buf'[u] = buf[u]
  BY DEF Goto, SetBuf, TypeOK
<1>2. pc'[t] = l
  BY DEF Goto, TypeOK
<1> QED
  BY <1>1, <1>2 DEF BuffersOutside

LEMMA ReturnText ==
  ASSUME TypeOK, BuffersOutside, NEW t \in Threads, NEW code, Return(t, code), rx' = rx
  PROVE  BuffersOutside' /\ Dropped
<1>1. "idle" \in Places /\ Goto(t, "idle") /\ SetBuf(t, <<>>) /\ buf'[t] = <<>>
  BY DEF Places, Return, SetBuf, TypeOK
<1>2. HolderText' = <<>>
  BY ThreadAssumption DEF Return, HolderText
<1> QED
  BY <1>1, <1>2, BuffersStep, DroppedText

LEMMA ConcludeText ==
  ASSUME ExchangeInv, BuffersOutside, NEW t \in Threads, pc[t] \in Held,
         NEW code, Conclude(t, code), rx' = rx
  PROVE  BuffersOutside' /\ Dropped
<1>1. TypeOK /\ owner = t
  BY DEF ExchangeInv, OnlyHolderInside
<1>2. CASE GoesOn(t, code)
  <2>1. Goto(t, "write") /\ "write" \in Places /\ owner' = owner /\ SetBuf(t, <<>>)
    BY <1>2 DEF Conclude, Places
  <2>2. buf'[t] = <<>>
    BY <1>1, <2>1 DEF SetBuf, TypeOK
  <2>3. HolderText' = <<>>
    BY <1>1, <2>1, <2>2 DEF HolderText
  <2> QED
    BY <1>1, <2>1, <2>2, <2>3, BuffersStep, DroppedText
<1>3. CASE ~GoesOn(t, code)
  BY <1>1, <1>3, ReturnText DEF Conclude
<1> QED
  BY <1>2, <1>3

\* The actions that begin a call, or end it at once.
LEMMA BeginText ==
  ASSUME ExchangeInv, BuffersOutside, NEW t \in Threads,
         \/ Start(t) \/ Refuse(t) \/ OpenFails(t) \/ Enter(t)
         \/ FirstDrain(t) \/ WaitAfterRequest(t)
  PROVE  BuffersOutside' /\ Dropped
<1> USE DEF ExchangeInv
<1>1. CASE Refuse(t) \/ OpenFails(t)
  BY <1>1, ReturnText DEF Refuse, OpenFails
<1>2. CASE ~(Refuse(t) \/ OpenFails(t))
  <2>1. PICK l \in {"lock", "write", "drain", "wait"} : Goto(t, l)
    BY <1>2 DEF Start, Enter, FirstDrain, WaitAfterRequest
  <2>2. l \in Places /\ buf' = buf /\ rx' = rx
    BY <1>2, <2>1 DEF Places, Start, Enter, FirstDrain, WaitAfterRequest
  <2>3. pc[t] \in {"idle", "lock", "parted"}
    BY <1>2 DEF Start, Enter, FirstDrain, WaitAfterRequest, Status, Free
  <2>4. buf[t] = <<>>
    BY <2>3 DEF BuffersOutside, Held
  <2>5. HolderText' = HolderText
    <3>1. owner' = owner \/ (owner = NoThread /\ owner' = t)
      BY <1>2 DEF Start, Enter, FirstDrain, WaitAfterRequest, Status, Free
    <3> QED
      BY <2>2, <2>4, <3>1, ThreadAssumption DEF HolderText
  <2> QED
    BY <2>1, <2>2, <2>4, <2>5, BuffersStep, DroppedText
<1> QED
  BY <1>1, <1>2

\* The actions of a call under way that read nothing.
LEMMA InsideText ==
  ASSUME ExchangeInv, BuffersOutside, NEW t \in Threads,
         \/ WriteCommand(t) \/ PollAgain(t) \/ PromptRead(t) \/ WritePdu(t)
         \/ DrainAgain(t) \/ Expire(t)
  PROVE  BuffersOutside' /\ Dropped
<1>0. TypeOK /\ rx' = rx
  BY DEF ExchangeInv, WriteCommand, PollAgain, PromptRead, WritePdu, DrainAgain, Expire
<1>1. CASE Expire(t)
  BY <1>0, <1>1, DroppedText DEF Expire, BuffersOutside, HolderText
<1>2. CASE ~Expire(t)
  <2>1. pc[t] \in Held /\ owner = t
    BY <1>2 DEF WriteCommand, PollAgain, PromptRead, WritePdu, DrainAgain, Held, Places,
                ExchangeInv, OnlyHolderInside
  <2>2. PICK l \in Places : Goto(t, l)
    BY <1>2 DEF WriteCommand, AfterCommand, PollAgain, PromptRead, WritePdu, DrainAgain, Places
  <2>3. CASE SetBuf(t, <<>>)
    <3>1. buf'[t] = <<>> /\ (owner' = owner \/ owner' = NoThread)
      BY <1>0, <1>2, <2>3 DEF SetBuf, TypeOK, WriteCommand, PollAgain, PromptRead,
                              WritePdu, DrainAgain
    <3>2. HolderText' = <<>>
      BY <2>1, <3>1, ThreadAssumption DEF HolderText
    <3> QED
      BY <1>0, <2>2, <2>3, <3>1, <3>2, BuffersStep, DroppedText
  <2>4. CASE ~SetBuf(t, <<>>)
    <3>1. Goto(t, "wait") \/ Goto(t, "prompt")
      BY <1>2, <2>4 DEF WriteCommand, PollAgain, PromptRead, WritePdu, DrainAgain
    <3>2. {"wait", "prompt"} \subseteq Held \cap Places
      BY DEF Held, Places
    <3>3. buf' = buf /\ owner' = owner
      BY <1>2, <2>4 DEF WriteCommand, PollAgain, PromptRead, WritePdu, DrainAgain
    <3>4. HolderText' = HolderText
      BY <3>3 DEF HolderText
    <3> QED
      BY <1>0, <3>1, <3>2, <3>3, <3>4, BuffersStep, DroppedText
  <2> QED
    BY <2>3, <2>4
<1> QED
  BY <1>1, <1>2

\* The actions that read.
LEMMA ReadingText ==
  ASSUME ExchangeInv, BuffersOutside, NEW t \in Threads,
         Poll(t) \/ ReadPrompt(t) \/ Drain(t)
  PROVE  BuffersOutside' /\ Dropped
<1>1. TypeOK /\ pc[t] \in Held /\ owner = t /\ owner' = owner
  BY DEF Poll, ReadPrompt, Drain, Held, Places, ExchangeInv, OnlyHolderInside
<1>2. PICK l \in {"demux", "promptDemux", "drainDemux"} : Goto(t, l)
  BY DEF Poll, ReadPrompt, Drain
<1>3. l \in Places /\ l \in Held
  BY DEF Held, Places
<1>4. CASE UNCHANGED <<buf, rx>>
  <2>1. HolderText' = HolderText
    BY <1>1, <1>4 DEF HolderText
  <2> QED
    BY <1>1, <1>2, <1>3, <1>4, <2>1, BuffersStep, DroppedText
<1>5. CASE \E least \in {0, 1} : Read(t, least)
  <2>1. PICK least \in {0, 1} : Read(t, least)
    BY <1>5
  <2>2. Ahead' = Ahead
    BY <1>1, <2>1, ReadText
  <2>3. Ahead \in Seq(Tokens)
    BY <1>1, AheadIsText
  <2>4. <<>> \in Seq(Tokens) /\ Ahead = <<>> \o Ahead
    BY <2>3, EmptySeq, ConcatEmptySeq
  <2>5. Dropped
    BY <2>2, <2>4 DEF Dropped
  <2>6. \E x : SetBuf(t, x)
    BY <2>1 DEF Read
  <2> QED
    BY <1>1, <1>2, <1>3, <2>5, <2>6, BuffersStep
<1> QED
  BY <1>4, <1>5 DEF Poll, ReadPrompt, Drain

\* The actions that end an exchange, or the call.
LEMMA EndText ==
  ASSUME ExchangeInv, BuffersOutside, NEW t \in Threads,
         \/ WriteCommandFails(t) \/ EndOfWait(t) \/ ReadPromptFails(t) \/ NoPrompt(t)
         \/ WritePduFails(t) \/ TakeQueued(t) \/ TakeDrained(t) \/ NoReport(t)
  PROVE  BuffersOutside' /\ Dropped
<1>0. TypeOK
  BY DEF ExchangeInv
<1>1. {"write", "demux", "prompt", "promptDemux", "body"} \subseteq Held
  BY DEF Held, Places
<1>2. CASE TakeQueued(t) \/ TakeDrained(t) \/ NoReport(t)
  BY <1>0, <1>2, ReturnText DEF TakeQueued, TakeDrained, NoReport, TakeReport
<1>3. CASE WriteCommandFails(t)
  BY <1>1, <1>3, ConcludeText DEF WriteCommandFails
<1>4. CASE EndOfWait(t)
  BY <1>1, <1>4, ConcludeText DEF EndOfWait
<1>5. CASE ReadPromptFails(t)
  BY <1>1, <1>5, ConcludeText DEF ReadPromptFails
<1>6. CASE NoPrompt(t)
  BY <1>1, <1>6, ConcludeText DEF NoPrompt
<1>7. CASE WritePduFails(t)
  BY <1>1, <1>7, ConcludeText DEF WritePduFails
<1> QED
  BY <1>2, <1>3, <1>4, <1>5, <1>6, <1>7

-----------------------------------------------------------------------------
(***************************************************************************)
(* The invariant, step by step.                                            *)
(***************************************************************************)
ThreadSteps(t) ==
  \/ Start(t) \/ Refuse(t) \/ OpenFails(t) \/ Enter(t)
  \/ WriteCommand(t) \/ WriteCommandFails(t) \/ WaitAfterRequest(t)
  \/ Poll(t) \/ PollAgain(t) \/ EndOfWait(t)
  \/ ReadPrompt(t) \/ ReadPromptFails(t) \/ PromptRead(t) \/ NoPrompt(t)
  \/ WritePdu(t) \/ WritePduFails(t)
  \/ TakeQueued(t) \/ FirstDrain(t) \/ Drain(t) \/ TakeDrained(t)
  \/ DrainAgain(t) \/ NoReport(t) \/ Expire(t)

LEMMA ThreadText ==
  ASSUME ExchangeInv, BuffersOutside, NEW t \in Threads, ThreadSteps(t)
  PROVE  BuffersOutside' /\ Dropped
BY BeginText, InsideText, ReadingText, EndText DEF ThreadSteps

LEMMA ThreadSeen ==
  ASSUME TypeOK, NEW t \in Threads, ThreadSteps(t)
  PROVE  Seen' = Seen /\ sent' = sent
<1>1. CASE TakeQueued(t) \/ TakeDrained(t)
  <2>1. TakeReport(t) /\ reports # <<>> /\ sent' = sent
    BY <1>1 DEF TakeQueued, TakeDrained
  <2>2. delivered' = Append(delivered, Head(reports)) /\ reports' = Tail(reports)
    BY <2>1 DEF TakeReport
  <2>3. delivered \in Seq(Nat) /\ reports \in Seq(Nat)
    BY DEF TypeOK
  <2> QED
    BY <2>1, <2>2, <2>3, TakeKeepsSeen DEF Seen
<1>2. CASE ~(TakeQueued(t) \/ TakeDrained(t))
  <2>1. UNCHANGED <<delivered, reports, sent>>
    BY <1>2 DEF ThreadSteps, Start, Refuse, OpenFails, Enter, WriteCommand,
                WriteCommandFails, WaitAfterRequest, Poll, PollAgain, EndOfWait, ReadPrompt,
                ReadPromptFails, PromptRead, NoPrompt, WritePdu, WritePduFails, FirstDrain,
                Drain, DrainAgain, NoReport, Expire, history
  <2> QED
    BY <2>1 DEF Seen
<1> QED
  BY <1>1, <1>2

LEMMA SeenIsMarks == TypeOK => Seen \in Seq(Nat)
BY ConcatProperties DEF TypeOK, Seen

LEMMA ThreadOrder ==
  ASSUME OrderInv, NEW t \in Threads, ThreadSteps(t), ExchangeInv'
  PROVE  OrderInv'
<1>1. ExchangeInv /\ BuffersOutside /\ TypeOK /\ TypeOK'
  BY DEF OrderInv, ExchangeInv
<1>2. BuffersOutside' /\ Dropped /\ Seen' = Seen /\ sent' = sent
  BY <1>1, ThreadText, ThreadSeen
<1>3. PICK d \in Seq(Tokens) : Ahead = d \o Ahead'
  BY <1>2 DEF Dropped
<1>4. Ahead' \in Seq(Tokens) /\ sent.report \in Nat
  <2>1. rx' \in Seq(Tokens) /\ HolderText' \in Seq(Tokens)
    BY <1>1, EmptySeq DEF TypeOK, HolderText
  <2>2. Ahead' = HolderText' \o rx'
    BY DEF Ahead, HolderText
  <2> QED
    BY <1>1, <2>1, <2>2, ConcatProperties DEF TypeOK
<1>5. TextOrder(d \o Ahead', Seen, sent.report)
  BY <1>3 DEF OrderInv
<1>6. TextOrder(Ahead', Seen, sent.report)
  BY <1>4, <1>5, DropOrder
<1> QED
  BY <1>2, <1>6 DEF OrderInv

LEMMA EraseUrcOrder ==
  ASSUME OrderInv, NEW t \in Threads, EraseUrc(t), ExchangeInv'
  PROVE  OrderInv'
<1> DEFINE b == buf[t]
           new == ErasedReports(b)
           n == sent.report
<1>1. TypeOK /\ pc[t] \in Held /\ owner = t /\ CanErase(b)
  BY DEF OrderInv, ExchangeInv, EraseUrc, Held, Places, OnlyHolderInside
<1>2. /\ b \in Seq(Tokens) /\ rx \in Seq(Tokens) /\ n \in Nat
      /\ delivered \in Seq(Nat) /\ reports \in Seq(Nat) /\ Seen \in Seq(Nat)
  BY <1>1, SeenIsMarks DEF TypeOK
<1>3. new \in Seq(Nat)
  BY <1>1, <1>2, ErasedReportsAreMarks
<1>4. buf' = [buf EXCEPT ![t] = EraseFirst(b)]
  BY DEF EraseUrc, SetBuf
<1>5. reports' = reports \o new /\ UNCHANGED <<owner, pc, rx, sent, delivered>>
  BY DEF EraseUrc, history
<1> HIDE DEF new
<1>6. Ahead = b \o rx /\ Ahead' = EraseFirst(b) \o rx
  BY <1>1, <1>4, <1>5 DEF Ahead, TypeOK
<1>7. Seen' = Seen \o new
  <2>1. Seen' = delivered \o (reports \o new)
    BY <1>5 DEF Seen
  <2>2. delivered \in Seq(Nat) /\ reports \in Seq(Nat)
    BY <1>2
  <2> QED
    <3>1. (delivered \o reports) \o new = delivered \o (reports \o new)
      BY <1>3, <2>2, ConcatAssociative
    <3> QED
      BY <2>1, <3>1 DEF Seen
<1>8. TextOrder(b \o rx, Seen, n)
  BY <1>6 DEF OrderInv
<1>9. /\ TextOrder(EraseFirst(b) \o rx, Seen \o new, n)
      /\ \A i \in DOMAIN new : new[i] <= n /\ \A k \in DOMAIN Seen : Seen[k] < new[i]
  <2> HIDE DEF b, n
  <2> QED
    BY <1>1, <1>2, <1>8, EraseOrder DEF new
<1>10. Len(new) <= 1
  BY DEF new, ErasedReports
<1>11. /\ Len(Seen \o new) = Len(Seen) + Len(new)
       /\ \A i \in 1..Len(Seen) : (Seen \o new)[i] = Seen[i]
       /\ \A i \in 1..(Len(Seen) + Len(new)) : i > Len(Seen) =>
            i - Len(Seen) \in 1..Len(new) /\ (Seen \o new)[i] = new[i - Len(Seen)]
  BY <1>2, <1>3, ConcatElements
<1>12. Increasing(Seen \o new)
  <2> SUFFICES ASSUME NEW i \in DOMAIN (Seen \o new), NEW j \in DOMAIN (Seen \o new), i < j
               PROVE  (Seen \o new)[i] < (Seen \o new)[j]
    BY DEF Increasing
  <2>1. i \in 1..(Len(Seen) + Len(new)) /\ j \in 1..(Len(Seen) + Len(new))
    BY <1>2, <1>3, <1>11, ConcatProperties
  <2>2. Len(Seen) \in Nat /\ Len(new) \in Nat /\ i \in Nat /\ j \in Nat
    BY <1>2, <1>3, <2>1
  <2>3. i \in 1..Len(Seen)
    BY <1>10, <2>1, <2>2
  <2>4. CASE j <= Len(Seen)
    <3>1. j \in 1..Len(Seen)
      BY <2>1, <2>2, <2>4
    <3>2. Increasing(Seen)
      BY DEF OrderInv
    <3> QED
      BY <1>2, <1>11, <2>3, <3>1, <3>2 DEF Increasing
  <2>5. CASE j > Len(Seen)
    <3>1. j - Len(Seen) \in DOMAIN new /\ (Seen \o new)[j] = new[j - Len(Seen)]
      BY <1>3, <1>11, <2>1, <2>5
    <3> QED
      BY <1>2, <1>9, <1>11, <2>3, <3>1
  <2> QED
    BY <2>2, <2>4, <2>5
<1>13. Bounded(Seen \o new, n)
  <2> SUFFICES ASSUME NEW i \in DOMAIN (Seen \o new)
               PROVE  (Seen \o new)[i] <= n
    BY DEF Bounded
  <2>1. i \in 1..(Len(Seen) + Len(new)) /\ Len(Seen) \in Nat /\ Len(new) \in Nat
    BY <1>2, <1>3, <1>11, ConcatProperties
  <2>2. CASE i <= Len(Seen)
    <3>1. i \in 1..Len(Seen) /\ Bounded(Seen, n)
      BY <2>1, <2>2 DEF OrderInv
    <3> QED
      BY <1>2, <1>11, <3>1 DEF Bounded
  <2>3. CASE i > Len(Seen)
    BY <1>3, <1>9, <1>11, <2>1, <2>3
  <2> QED
    BY <2>1, <2>2, <2>3
<1>14. BuffersOutside'
  <2>1. \A u \in Threads \ {t} : buf'[u] = buf[u]
    BY <1>1, <1>4 DEF TypeOK
  <2> QED
    BY <1>1, <1>5, <2>1 DEF OrderInv, BuffersOutside
<1>15. sent'.report = n
  BY <1>5
<1> QED
  BY <1>6, <1>7, <1>9, <1>12, <1>13, <1>14, <1>15 DEF OrderInv

\* A message of the modem begins with a line end, its tag leads a line, and
\* its reports are those after n, up to m.
Message(msg, n, m) ==
  /\ msg \in Seq(Tokens) /\ msg # <<>> /\ msg[1].kind = "nl"
  /\ TagsLead(msg) /\ Rising(msg)
  /\ \A p \in DOMAIN msg : IsReportPdu(msg[p]) => n < msg[p].of /\ msg[p].of <= m

LEMMA MessageOrder ==
  ASSUME NEW n \in Nat
  PROVE  /\ \A kind \in FinalResults, k \in Nat : Message(<<NL, Mark(kind, k), NL>>, n, n)
         /\ \A k \in Nat : Message(<<NL, Mark("gt", k)>>, n, n)
         /\ \A k \in Nat : Message(<<NL, Mark("text", k), NL, NL, Mark("ok", k), NL>>, n, n)
         /\ Message(<<NL, Tok("cds"), Tok("num"), NL, Mark("pdu", n + 1), NL>>, n, n + 1)
         /\ \A kind \in {"cmt", "cmtAlpha", "cmti", "cdsi"} : Message(NoticeText(kind), n, n)
<1> USE DEF Message, TagsLead, Rising, IsReportPdu, IsLineStart, NL, Tok, Mark
<1>1. ASSUME NEW kind \in FinalResults, NEW k \in Nat
      PROVE  Message(<<NL, Mark(kind, k), NL>>, n, n)
  BY MessagesAreText DEF FinalResults
<1>2. ASSUME NEW k \in Nat PROVE Message(<<NL, Mark("gt", k)>>, n, n)
  BY MessagesAreText
<1>3. ASSUME NEW k \in Nat
      PROVE  Message(<<NL, Mark("text", k), NL, NL, Mark("ok", k), NL>>, n, n)
  BY MessagesAreText
<1>4. Message(<<NL, Tok("cds"), Tok("num"), NL, Mark("pdu", n + 1), NL>>, n, n + 1)
  BY MessagesAreText
<1>5. ASSUME NEW kind \in {"cmt", "cmtAlpha", "cmti", "cdsi"}
      PROVE  Message(NoticeText(kind), n, n)
  <2>1. NoticeText(kind) \in Seq(Tokens)
    BY MessagesAreText
  <2>2. CASE kind \in {"cmti", "cdsi"}
    BY <2>1, <2>2 DEF NoticeText
  <2>3. CASE kind = "cmt"
    BY <2>1, <2>3 DEF NoticeText
  <2>4. CASE kind = "cmtAlpha"
    BY <2>1, <2>4 DEF NoticeText
  <2> QED
    BY <2>2, <2>3, <2>4
<1> QED
  BY <1>1, <1>2, <1>3, <1>4, <1>5

\* The line receives a message, or the port is closed.
LEMMA SendOrder ==
  ASSUME OrderInv, ExchangeInv', NEW m \in Nat, sent.report <= m, sent'.report = m,
         UNCHANGED <<owner, pc, buf, delivered, reports>>,
         \/ rx' = rx
         \/ \E msg : Message(msg, sent.report, m) /\ rx' = rx \o msg
  PROVE  OrderInv'
<1> DEFINE n == sent.report
<1>1. /\ TypeOK /\ n \in Nat /\ rx \in Seq(Tokens) /\ HolderText \in Seq(Tokens)
      /\ Ahead = HolderText \o rx /\ Ahead \in Seq(Tokens) /\ Seen \in Seq(Nat)
  BY AheadIsText, SeenIsMarks DEF OrderInv, ExchangeInv, TypeOK
<1>2. Seen' = Seen /\ HolderText' = HolderText /\ Ahead' = HolderText \o rx'
  BY DEF Seen, HolderText, Ahead
<1>3. TextOrder(Ahead, Seen, n) /\ Bounded(Seen, n) /\ Increasing(Seen) /\ BuffersOutside'
  BY DEF OrderInv, BuffersOutside
<1>4. Bounded(Seen, m)
  BY <1>1, <1>3 DEF Bounded
<1>5. PICK msg \in Seq(Tokens) :
        /\ rx' = rx \o msg /\ (msg # <<>> => msg[1].kind = "nl")
        /\ TagsLead(msg) /\ Rising(msg)
        /\ \A p \in DOMAIN msg : IsReportPdu(msg[p]) => n < msg[p].of /\ msg[p].of <= m
  <2>1. CASE rx' = rx
    <3>1. <<>> \in Seq(Tokens) /\ rx' = rx \o <<>> /\ DOMAIN <<>> = {}
      BY <1>1, <2>1, EmptySeq, ConcatEmptySeq
    <3>2. TagsLead(<<>>) /\ Rising(<<>>)
      BY DEF TagsLead, Rising
    <3> QED
      BY <3>1, <3>2
  <2>2. CASE \E msg : Message(msg, sent.report, m) /\ rx' = rx \o msg
    BY <2>2 DEF Message
  <2> QED
    BY <2>1, <2>2
<1>6. Ahead' = Ahead \o msg
  <2>1. Ahead' = HolderText \o (rx \o msg)
    BY <1>2, <1>5
  <2>2. rx \in Seq(Tokens) /\ HolderText \in Seq(Tokens)
    BY <1>1
  <2>3. (HolderText \o rx) \o msg = HolderText \o (rx \o msg)
    BY <2>2, ConcatAssociative
  <2> QED
    BY <1>1, <2>1, <2>3
<1>7. TextOrder(Ahead \o msg, Seen, m)
  <2> HIDE DEF n
  <2> QED
    BY <1>1, <1>3, <1>5, AppendOrder DEF n
<1> QED
  BY <1>2, <1>3, <1>4, <1>6, <1>7 DEF OrderInv

LEMMA ModemOrder ==
  ASSUME OrderInv, ExchangeInv', Modem
  PROVE  OrderInv'
<1> DEFINE n == sent.report
<1>1. n \in Nat /\ TypeOK
  BY DEF OrderInv, ExchangeInv, TypeOK
<1>2. UNCHANGED <<owner, pc, buf, delivered, reports>>
  BY DEF Modem, Answer, Submit, Swallow, SendReport, SendNotice, hostVars, history
<1>3. CASE SendReport
  <2>1. sent'.report = n + 1
    BY <1>1, <1>3 DEF SendReport, TypeOK
  <2>2. \E msg : Message(msg, n, n + 1) /\ Send(msg)
    BY <1>1, <1>3, MessageOrder DEF SendReport
  <2> QED
    BY <1>1, <1>2, <2>1, <2>2, SendOrder DEF Send
<1>4. CASE ~SendReport
  <2>1. sent'.report = n
    BY <1>1, <1>4 DEF Modem, Answer, Submit, Swallow, SendNotice, history, TypeOK
  <2>2. rx' = rx \/ \E msg : Message(msg, n, n) /\ Send(msg)
    <3>1. CASE Answer
      <4>1. Head(tx).of \in Nat
        <5>1. Head(tx) \in Input
          BY <1>1, <3>1, HeadTailProperties DEF Answer, Handle, TypeOK
        <5> QED
          BY <5>1 DEF Input
      <4> QED
        BY <1>1, <3>1, <4>1, MessageOrder DEF Answer, Reply, FinalResults
    <3>2. CASE Submit
      <4>1. Head(tx).of \in Nat
        <5>1. Head(tx) \in Input
          BY <1>1, <3>2, HeadTailProperties DEF Submit, Handle, TypeOK
        <5> QED
          BY <5>1 DEF Input
      <4> QED
        BY <1>1, <3>2, <4>1, MessageOrder DEF Submit, Reply, FinalResults
    <3>3. CASE Swallow
      BY <3>3 DEF Swallow
    <3>4. CASE SendNotice
      BY <1>1, <3>4, MessageOrder, BoundAssumption DEF SendNotice
    <3> QED
      BY <1>4, <3>1, <3>2, <3>3, <3>4 DEF Modem
  <2> QED
    BY <1>1, <1>2, <2>1, <2>2, SendOrder DEF Send
<1> QED
  BY <1>3, <1>4

LEMMA CloseOrder ==
  ASSUME OrderInv, ExchangeInv', ClosePort
  PROVE  OrderInv'
<1>1. /\ TypeOK /\ rx \in Seq(Tokens) /\ HolderText \in Seq(Tokens) /\ sent.report \in Nat
      /\ Ahead = HolderText \o rx
  BY AheadIsText DEF OrderInv, ExchangeInv, TypeOK
<1>2. rx' = <<>> /\ UNCHANGED <<owner, pc, buf, delivered, reports, sent>>
  BY DEF ClosePort
<1>3. Seen' = Seen /\ Ahead' = HolderText \o <<>>
  BY <1>2 DEF Seen, HolderText, Ahead
<1>4. Ahead' = HolderText
  BY <1>1, <1>3, ConcatEmptySeq
<1>5. TextOrder(HolderText \o rx, Seen, sent.report)
  BY <1>1 DEF OrderInv
<1>6. TextOrder(HolderText, Seen, sent.report)
  BY <1>1, <1>5, CutOrder
<1> QED
  BY <1>2, <1>3, <1>4, <1>6 DEF OrderInv, BuffersOutside

LEMMA OrderInit == Init => OrderInv
<1> SUFFICES ASSUME Init PROVE OrderInv
  OBVIOUS
<1>1. ExchangeInv /\ BuffersOutside
  BY ExchangeInit DEF Init, BuffersOutside
<1>2. Ahead = <<>> /\ Seen = <<>>
  BY ThreadAssumption, EmptySeq, ConcatEmptySeq DEF Init, Ahead, Seen
<1>3. TextOrder(<<>>, <<>>, sent.report) /\ Increasing(<<>>) /\ Bounded(<<>>, sent.report)
  BY DEF TextOrder, Rising, Known, Fresh, TagsLead, Increasing, Bounded
<1> QED
  BY <1>1, <1>2, <1>3 DEF OrderInv

LEMMA OrderStep == OrderInv /\ [Next]_vars => OrderInv'
<1> SUFFICES ASSUME OrderInv, [Next]_vars PROVE OrderInv'
  OBVIOUS
<1>1. ExchangeInv'
  BY ExchangeStep DEF OrderInv
<1>2. CASE \E t \in Threads : Start(t) \/ Run(t) \/ Expire(t)
  <2>1. PICK t \in Threads : ThreadSteps(t) \/ EraseUrc(t)
    BY <1>2 DEF Run, ThreadSteps
  <2> QED
    BY <1>1, <2>1, ThreadOrder, EraseUrcOrder
<1>3. CASE ClosePort
  BY <1>1, <1>3, CloseOrder
<1>4. CASE Modem
  BY <1>1, <1>4, ModemOrder
<1>5. CASE Finished \/ UNCHANGED vars
  <2>1. UNCHANGED <<owner, pc, buf, rx, delivered, reports, sent>>
    BY <1>5 DEF Finished, vars
  <2>2. Ahead' = Ahead /\ Seen' = Seen
    BY <2>1 DEF Ahead, Seen
  <2> QED
    BY <1>1, <2>1, <2>2 DEF OrderInv, BuffersOutside
<1> QED
  BY <1>2, <1>3, <1>4, <1>5 DEF Next

(***************************************************************************)
(* Reports are handed out in the order the modem sent them, none twice:    *)
(* whatever the threads call and however they overlap, however reads cut   *)
(* the text, whatever fragments are dropped, and whenever the port is      *)
(* closed and opened again.                                                *)
(***************************************************************************)
THEOREM ReportsOrdered == Spec => []ReportsInOrder
<1>1. OrderInv => ReportsInOrder
  BY DEF OrderInv, Increasing, Seen, ReportsInOrder
<1> QED
  BY <1>1, OrderInit, OrderStep, PTL DEF Spec
=============================================================================
