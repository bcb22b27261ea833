----------------------------- MODULE GsmModem -----------------------------
(***************************************************************************)
(* GsmModem (modem.hpp, modem.cpp) as the threads of a program use it,     *)
(* together with the serial line and the modem at its far end.             *)
(*                                                                         *)
(* A thread makes one call after another.  A call takes the modem's        *)
(* mutex, runs one or more exchanges (write a command, read until a final  *)
(* result or a deadline) and returns.  Every read is followed by the       *)
(* demux loop, which moves +CDS reports out of the text it read into       *)
(* status_reports_.  The C API's list and delete are the exception: they   *)
(* write under one lock and wait under another.                            *)
(*                                                                         *)
(* The modem is external: it answers, rejects or ignores what it is sent,  *)
(* after any delay, and sends URCs of its own accord.                      *)
(***************************************************************************)
EXTENDS UrcText

CONSTANTS
  Threads,      \* the threads of the program
  NoThread,     \* the owner of a free mutex
  Calls,        \* the calls a thread may make
  MaxCalls,     \* bound: calls made by one thread
  MaxReports,   \* bound: status reports the modem sends
  MaxNotices,   \* bound: other URCs the modem sends
  Notices,      \* the kinds of those URCs
  MaxCloses,    \* bound: times the program closes the port
  Timely,       \* a deadline passes only when no answer is on its way
  CutReads,     \* a read may end in the middle of a URC or of a result
  Faults        \* what may go wrong: "silent", "write", "read", "open"

(***************************************************************************)
(* A call: [op |-> "send", n |-> k] is send_message of a message that      *)
(* encode_segments turns into k PDUs, with k = 0 when it refuses it;       *)
(* "delete" has n = 0 for a negative index.  For the others n = 1.         *)
(***************************************************************************)
Ops == {"open", "init", "at", "send", "list", "delete", "status"}

ASSUME ThreadAssumption == NoThread \notin Threads
ASSUME CallAssumption == Calls \subseteq [op : Ops, n : Nat]
ASSUME BoundAssumption ==
  /\ {MaxCalls, MaxReports, MaxNotices, MaxCloses} \subseteq Nat
  /\ Notices \subseteq {"cmt", "cmtAlpha", "cmti", "cdsi"}
  /\ {Timely, CutReads} \subseteq BOOLEAN
  /\ Faults \subseteq {"silent", "write", "read", "open"}

VARIABLES
  \* GsmModem and its port
  owner,      \* who holds mutex_, or NoThread
  reports,    \* status_reports_: the reports decoded and not yet taken
  portOpen,   \* port_->is_open()
  \* the call each thread is making
  pc,         \* where it is
  call,       \* what it called
  step,       \* which exchange of the call: init command, CNMI candidate, segment
  cmd,        \* the command of that exchange
  buf,        \* the call's ResponseBuffer
  late,       \* whether the deadline of the current wait has passed
  result,     \* what the call returned
  \* the serial line and the modem
  rx,         \* text sent by the modem and not yet read
  tx,         \* what was written and the modem has not yet handled
  mode,       \* "cmd", or "text" after a prompt, until a Ctrl-Z
  \* history
  issued,     \* commands written so far; the last one is number issued
  sent,       \* status reports and other URCs the modem has sent
  delivered,  \* reports handed to callers, in order
  granted,    \* the exchanges the modem answered OK, in order; of a PDU, when
              \* the network took it
  made,       \* calls made by each thread
  closes      \* times the port was closed

lockVars == <<owner, pc, result, step>>
callVars == <<call, made>>
modemVars == <<tx, mode, granted>>
history == <<sent, delivered, closes>>
vars == <<owner, reports, portOpen, pc, call, step, cmd, buf, late, result,
          rx, tx, mode, issued, sent, delivered, granted, made, closes>>

Places == {"idle", "lock", "write", "prompt", "promptDemux", "body", "wait", "demux",
           "parted", "drain", "drainDemux", "again"}
Codes == {"none", "Ok", "ModemRejected", "Timeout", "NotOpen", "AlreadyOpen",
          "IoError", "EncodeError", "InvalidArgument"}

Input == [kind : {"line", "list", "cmgs", "pdu"}, of : Nat, by : Threads,
          nth : Nat, seg : Nat]
Exchange == [by : Threads, nth : Nat, seg : Nat]

TypeOK ==
  /\ owner \in Threads \union {NoThread}
  /\ reports \in Seq(Nat)
  /\ portOpen \in BOOLEAN
  /\ pc \in [Threads -> Places]
  /\ call \in [Threads -> [op : Ops, n : Nat]]
  /\ step \in [Threads -> Nat]
  /\ cmd \in [Threads -> Nat]
  /\ buf \in [Threads -> Seq(Tokens)]
  /\ late \in [Threads -> BOOLEAN]
  /\ result \in [Threads -> Codes]
  /\ rx \in Seq(Tokens)
  /\ tx \in Seq(Input)
  /\ mode \in {"cmd", "text"}
  /\ issued \in Nat
  /\ sent \in [report : Nat, notice : Nat]
  /\ delivered \in Seq(Nat)
  /\ granted \in Seq(Exchange)
  /\ made \in [Threads -> Nat]
  /\ closes \in Nat

Init ==
  /\ owner = NoThread
  /\ reports = <<>>
  /\ portOpen \in BOOLEAN
  /\ pc = [t \in Threads |-> "idle"]
  /\ call \in [Threads -> {[op |-> "at", n |-> 1]}]
  /\ step = [t \in Threads |-> 1]
  /\ cmd = [t \in Threads |-> 0]
  /\ buf = [t \in Threads |-> <<>>]
  /\ late = [t \in Threads |-> FALSE]
  /\ result = [t \in Threads |-> "none"]
  /\ rx = <<>> /\ tx = <<>> /\ mode = "cmd"
  /\ issued = 0
  /\ sent = [report |-> 0, notice |-> 0]
  /\ delivered = <<>> /\ granted = <<>>
  /\ made = [t \in Threads |-> 0]
  /\ closes = 0

-----------------------------------------------------------------------------
(***************************************************************************)
(* How a call ends, and how one exchange leads to the next.                *)
(***************************************************************************)
Goto(t, l) == pc' = [pc EXCEPT ![t] = l]
SetBuf(t, s) == buf' = [buf EXCEPT ![t] = s]

\* The call returns: its buffer is gone and the lock_guard unlocks.
Return(t, code) ==
  /\ Goto(t, "idle")
  /\ result' = [result EXCEPT ![t] = code]
  /\ SetBuf(t, <<>>)
  /\ owner' = NoThread

\* The steps of initialize: AT, ATE0 and CMGF=0 must succeed, then one of
\* three CNMI candidates should.
InitCommands == 3
InitSteps == 6

\* Mutants: a rejected segment does not end send_message; initialize goes on
\* whatever the first commands return.
GoesOnAfterReject(t, code) ==
  CASE call[t].op \in {"open", "init"} ->
         IF step[t] <= InitCommands THEN code = "Ok"
                                    ELSE code # "Ok" /\ step[t] < InitSteps
    [] call[t].op = "send" -> step[t] < call[t].n
    [] OTHER -> FALSE
GoesOnUnchecked(t, code) ==
  CASE call[t].op \in {"open", "init"} ->
         step[t] <= InitCommands \/ (code # "Ok" /\ step[t] < InitSteps)
    [] call[t].op = "send" -> code = "Ok" /\ step[t] < call[t].n
    [] OTHER -> FALSE

\* Whether an exchange that ended with code is followed by another.
GoesOn(t, code) ==
  CASE call[t].op \in {"open", "init"} ->
         IF step[t] <= InitCommands THEN code = "Ok"
                                    ELSE code # "Ok" /\ step[t] < InitSteps
    [] call[t].op = "send" -> code = "Ok" /\ step[t] < call[t].n
    [] OTHER -> FALSE

\* What the call returns after its last exchange: CNMI is best effort.
FinalCode(t, code) ==
  IF call[t].op \in {"open", "init"} /\ step[t] > InitCommands THEN "Ok" ELSE code

Conclude(t, code) ==
  IF GoesOn(t, code)
    THEN /\ step' = [step EXCEPT ![t] = @ + 1]
         /\ Goto(t, "write")
         /\ SetBuf(t, <<>>)
         /\ UNCHANGED <<owner, result>>
    ELSE /\ Return(t, FinalCode(t, code))
         /\ UNCHANGED step

\* Mutants: the newest report is taken; the report stays in the queue.
TakeNewest(t) ==
  /\ delivered' = Append(delivered, Last(reports))
  /\ reports' = Front(reports)
  /\ Return(t, "Ok")
TakeWithoutPop(t) ==
  /\ delivered' = Append(delivered, Head(reports))
  /\ reports' = reports
  /\ Return(t, "Ok")

\* try_pop hands the oldest report to the caller, and the call returns.
TakeReport(t) ==
  /\ delivered' = Append(delivered, Head(reports))
  /\ reports' = Tail(reports)
  /\ Return(t, "Ok")

-----------------------------------------------------------------------------
(***************************************************************************)
(* Reading.                                                                *)
(***************************************************************************)
\* A place between two tokens that lies between two messages of the modem.
Boundary(s, n) == n = 0 \/ n = Len(s) \/ (s[n].kind \in {"nl", "gt"} /\ s[n + 1] = NL)

\* What port_->read may return now: at least least tokens of what is there.
ReadSizes(least) == {n \in least..Len(rx) : CutReads \/ Boundary(rx, n)}

Read(t, least) ==
  /\ portOpen
  /\ \E n \in ReadSizes(least) :
       /\ SetBuf(t, buf[t] \o SubSeq(rx, 1, n))
       /\ rx' = SubSeq(rx, n + 1, Len(rx))

ReadFails == ~portOpen \/ "read" \in Faults
WriteFails == ~portOpen \/ "write" \in Faults
FaultCode == IF portOpen THEN "IoError" ELSE "NotOpen"

\* No answer is on its way: nothing to handle and nothing to read.
Quiet == tx = <<>> /\ rx = <<>>

-----------------------------------------------------------------------------
(***************************************************************************)
(* A call begins, and gets the mutex.                                      *)
(***************************************************************************)
Start(t) ==
  /\ pc[t] = "idle" /\ made[t] < MaxCalls
  /\ \E c \in Calls : call' = [call EXCEPT ![t] = c]
  /\ made' = [made EXCEPT ![t] = @ + 1]
  /\ step' = [step EXCEPT ![t] = 1]
  /\ result' = [result EXCEPT ![t] = "none"]
  /\ Goto(t, "lock")
  /\ UNCHANGED <<owner, reports, portOpen, cmd, buf, late, rx, issued, modemVars, history>>

\* The checks each method makes before its first write.
Refusal(t) ==
  LET op == call[t].op
  IN CASE op = "open" /\ portOpen -> "AlreadyOpen"
       [] op \in {"init", "at", "send", "status"} /\ ~portOpen -> "NotOpen"
       [] op = "send" /\ portOpen /\ call[t].n = 0 -> "EncodeError"
       [] op = "delete" /\ call[t].n = 0 -> "InvalidArgument"
       [] OTHER -> "none"

\* Mutant: the method does not lock.
FreeWithoutLock(t) == pc[t] = "lock"

Free(t) == owner = NoThread /\ pc[t] = "lock"

Refuse(t) ==
  /\ Free(t) /\ Refusal(t) # "none"
  /\ Return(t, Refusal(t))
  /\ UNCHANGED <<reports, portOpen, step, cmd, late, rx, issued, callVars, modemVars, history>>

\* port_->open fails before anything is written.
OpenFails(t) ==
  /\ Free(t) /\ Refusal(t) = "none" /\ call[t].op = "open"
  /\ "open" \in Faults
  /\ Return(t, "IoError")
  /\ UNCHANGED <<reports, portOpen, step, cmd, late, rx, issued, callVars, modemVars, history>>

Enter(t) ==
  /\ Free(t) /\ Refusal(t) = "none" /\ call[t].op # "status"
  /\ owner' = t
  /\ portOpen' = (portOpen \/ call[t].op = "open")
  /\ Goto(t, "write")
  /\ UNCHANGED <<reports, step, cmd, buf, late, result, rx, issued, callVars,
                 modemVars, history>>

-----------------------------------------------------------------------------
(***************************************************************************)
(* One exchange: write a command, wait for its final result.               *)
(***************************************************************************)
InputKind(op) ==
  IF op = "send" THEN "cmgs" ELSE IF op = "list" THEN "list" ELSE "line"

\* What t puts on the line as the input number id.
InputOf(t, kind, id) ==
  [kind |-> kind, of |-> id, by |-> t, nth |-> made[t], seg |-> step[t]]

\* request_message_list and delete_message return here, and free the mutex.
SplitCalls == {"list", "delete"}

AfterCommand(op) ==
  IF op = "send" THEN "prompt" ELSE IF op \in SplitCalls THEN "parted" ELSE "wait"

WriteCommand(t) ==
  /\ pc[t] = "write" /\ portOpen
  /\ issued' = issued + 1
  /\ cmd' = [cmd EXCEPT ![t] = issued + 1]
  /\ tx' = Append(tx, InputOf(t, InputKind(call[t].op), issued + 1))
  /\ SetBuf(t, <<>>)
  /\ late' = [late EXCEPT ![t] = FALSE]
  /\ Goto(t, AfterCommand(call[t].op))
  /\ owner' = IF call[t].op \in SplitCalls THEN NoThread ELSE owner
  /\ UNCHANGED <<reports, portOpen, step, result, rx, mode, granted, callVars, history>>

WriteCommandFails(t) ==
  /\ pc[t] = "write" /\ WriteFails
  /\ Conclude(t, FaultCode)
  /\ UNCHANGED <<reports, portOpen, cmd, late, rx, issued, callVars, modemVars, history>>

\* ct_modem_list and ct_modem_delete go on to wait_until_ok with a new buffer.
WaitAfterRequest(t) ==
  /\ pc[t] = "parted" /\ owner = NoThread
  /\ owner' = t
  /\ late' = [late EXCEPT ![t] = FALSE]
  /\ Goto(t, "wait")
  /\ UNCHANGED <<reports, portOpen, step, cmd, buf, result, rx, issued, callVars,
                 modemVars, history>>

\* The deadline of the current loop passes.  A caller may give
\* poll_status_report no time at all, so that one may expire at any moment.
Expire(t) ==
  /\ pc[t] \in {"prompt", "wait", "again"} /\ ~late[t]
  /\ Timely /\ pc[t] # "again" => Quiet
  /\ late' = [late EXCEPT ![t] = TRUE]
  /\ UNCHANGED <<owner, reports, portOpen, pc, step, cmd, buf, result, rx, issued,
                 callVars, modemVars, history>>

\* Mutant: the deadline is computed anew in every turn of the loop.
PollNewDeadline(t) ==
  /\ pc[t] = "wait"
  /\ \/ Read(t, IF late[t] THEN 0 ELSE 1)
     \/ late[t] /\ ReadFails /\ UNCHANGED <<buf, rx>>
  /\ Goto(t, "demux")
  /\ late' = [late EXCEPT ![t] = FALSE]
  /\ UNCHANGED <<owner, reports, portOpen, step, cmd, result, issued, callVars,
                 modemVars, history>>

\* poll_response_unlocked.  A read that returns nothing or fails before the
\* deadline changes nothing and the loop sleeps; the poll after the deadline
\* is the last one, and a read error in it is not reported.
Poll(t) ==
  /\ pc[t] = "wait"
  /\ \/ Read(t, IF late[t] THEN 0 ELSE 1)
     \/ late[t] /\ ReadFails /\ UNCHANGED <<buf, rx>>
  /\ Goto(t, "demux")
  /\ UNCHANGED <<owner, reports, portOpen, step, cmd, late, result, issued, callVars,
                 modemVars, history>>

\* One turn of the loop of demux_urcs, with the push of what it decoded.
EraseUrc(t) ==
  /\ pc[t] \in {"demux", "promptDemux", "drainDemux"}
  /\ CanErase(buf[t])
  /\ reports' = reports \o ErasedReports(buf[t])
  /\ SetBuf(t, EraseFirst(buf[t]))
  /\ UNCHANGED <<owner, portOpen, pc, step, cmd, late, result, rx, issued, callVars,
                 modemVars, history>>

\* The poll found nothing final and the deadline has not passed.
PollAgain(t) ==
  /\ pc[t] = "demux" /\ ~CanErase(buf[t])
  /\ ClassifyResponse(buf[t]) = "Wait" /\ ~late[t]
  /\ Goto(t, "wait")
  /\ UNCHANGED <<owner, reports, portOpen, step, cmd, buf, late, result, rx, issued,
                 callVars, modemVars, history>>

\* Mutants: the classification is returned as it is; no final result counts
\* as success.
CodeRaw(c) == c
CodeNoTimeout(c) == IF c = "Error" THEN "ModemRejected" ELSE "Ok"

\* wait_until_ok_unlocked turns the classification into an error code.
CodeOf(c) == CASE c = "Ok" -> "Ok" [] c = "Error" -> "ModemRejected" [] OTHER -> "Timeout"

EndOfWait(t) ==
  /\ pc[t] = "demux" /\ ~CanErase(buf[t])
  /\ LET c == ClassifyResponse(buf[t])
     IN /\ c = "Wait" => late[t]
        /\ Conclude(t, CodeOf(c))
  /\ UNCHANGED <<reports, portOpen, cmd, late, rx, issued, callVars, modemVars, history>>

-----------------------------------------------------------------------------
(***************************************************************************)
(* send_encoded_pdu: the prompt, then the PDU and Ctrl-Z.                  *)
(***************************************************************************)
ReadPrompt(t) ==
  /\ pc[t] = "prompt" /\ ~late[t]
  /\ Read(t, 1)
  /\ Goto(t, "promptDemux")
  /\ UNCHANGED <<owner, reports, portOpen, step, cmd, late, result, issued, callVars,
                 modemVars, history>>

\* Unlike poll_response, expect_prompt reports a read error at once.
ReadPromptFails(t) ==
  /\ pc[t] = "prompt" /\ ~late[t] /\ ReadFails
  /\ Conclude(t, FaultCode)
  /\ UNCHANGED <<reports, portOpen, cmd, late, rx, issued, callVars, modemVars, history>>

\* An error wins over a prompt; with neither, the loop goes on.
PromptRead(t) ==
  /\ pc[t] = "promptDemux" /\ ~CanErase(buf[t])
  /\ ClassifyResponse(buf[t]) # "Error"
  /\ IF Holds(buf[t], "gt")
       THEN Goto(t, "body") /\ SetBuf(t, <<>>)
       ELSE Goto(t, "prompt") /\ UNCHANGED buf
  /\ UNCHANGED <<owner, reports, portOpen, step, cmd, late, result, rx, issued,
                 callVars, modemVars, history>>

\* Mutant: expect_prompt gives up on the first text that holds no prompt.
NoPromptAtOnce(t) ==
  /\ \/ /\ pc[t] = "promptDemux" /\ ~CanErase(buf[t])
        /\ ~Holds(buf[t], "gt")
     \/ pc[t] = "prompt" /\ late[t]
  /\ Conclude(t, "ModemRejected")
  /\ UNCHANGED <<reports, portOpen, cmd, late, rx, issued, callVars, modemVars, history>>

\* No prompt: an error, or the deadline, which is reported the same way.
NoPrompt(t) ==
  /\ \/ /\ pc[t] = "promptDemux" /\ ~CanErase(buf[t])
        /\ ClassifyResponse(buf[t]) = "Error"
     \/ pc[t] = "prompt" /\ late[t]
  /\ Conclude(t, "ModemRejected")
  /\ UNCHANGED <<reports, portOpen, cmd, late, rx, issued, callVars, modemVars, history>>

WritePdu(t) ==
  /\ pc[t] = "body" /\ portOpen
  /\ tx' = Append(tx, InputOf(t, "pdu", cmd[t]))
  /\ late' = [late EXCEPT ![t] = FALSE]
  /\ Goto(t, "wait")
  /\ UNCHANGED <<owner, reports, portOpen, step, cmd, buf, result, rx, mode, issued,
                 granted, callVars, history>>

WritePduFails(t) ==
  /\ pc[t] = "body" /\ WriteFails
  /\ Conclude(t, FaultCode)
  /\ UNCHANGED <<reports, portOpen, cmd, late, rx, issued, callVars, modemVars, history>>

-----------------------------------------------------------------------------
(***************************************************************************)
(* poll_status_report: take a queued report; if there is none, drain the   *)
(* port once, then again until the deadline.                               *)
(***************************************************************************)
Status(t) == Free(t) /\ Refusal(t) = "none" /\ call[t].op = "status"

TakeQueued(t) ==
  /\ Status(t) /\ reports # <<>>
  /\ TakeReport(t)
  /\ UNCHANGED <<portOpen, step, cmd, late, rx, issued, sent, closes, callVars, modemVars>>

FirstDrain(t) ==
  /\ Status(t) /\ reports = <<>>
  /\ owner' = t
  /\ late' = [late EXCEPT ![t] = FALSE]
  /\ Goto(t, "drain")
  /\ UNCHANGED <<reports, portOpen, step, cmd, buf, result, rx, issued, callVars,
                 modemVars, history>>

\* A read error is not reported here either.
Drain(t) ==
  /\ pc[t] \in {"drain", "again"}
  /\ pc[t] = "again" => ~late[t]
  /\ \/ Read(t, IF pc[t] = "again" THEN 1 ELSE 0)
     \/ pc[t] = "drain" /\ ReadFails /\ UNCHANGED <<buf, rx>>
  /\ Goto(t, "drainDemux")
  /\ UNCHANGED <<owner, reports, portOpen, step, cmd, late, result, issued, callVars,
                 modemVars, history>>

TakeDrained(t) ==
  /\ pc[t] = "drainDemux" /\ ~CanErase(buf[t]) /\ reports # <<>>
  /\ TakeReport(t)
  /\ UNCHANGED <<portOpen, step, cmd, late, rx, issued, sent, closes, callVars, modemVars>>

\* drain.data.clear(): what the last poll left is dropped.
DrainAgain(t) ==
  /\ pc[t] = "drainDemux" /\ ~CanErase(buf[t]) /\ reports = <<>>
  /\ SetBuf(t, <<>>)
  /\ Goto(t, "again")
  /\ UNCHANGED <<owner, reports, portOpen, step, cmd, late, result, rx, issued, callVars,
                 modemVars, history>>

NoReport(t) ==
  /\ pc[t] = "again" /\ late[t]
  /\ Return(t, "Timeout")
  /\ UNCHANGED <<reports, portOpen, step, cmd, late, rx, issued, callVars, modemVars, history>>

-----------------------------------------------------------------------------
(***************************************************************************)
(* The program may close the port at any time: port() hands it out, and    *)
(* close takes no lock of GsmModem.  What was not read is gone.            *)
(***************************************************************************)
ClosePort ==
  /\ portOpen /\ closes < MaxCloses
  /\ portOpen' = FALSE
  /\ rx' = <<>>
  /\ closes' = closes + 1
  /\ UNCHANGED <<owner, reports, pc, step, cmd, buf, late, result, issued, sent, delivered,
                 callVars, modemVars>>

-----------------------------------------------------------------------------
(***************************************************************************)
(* The modem.  Every message it sends begins and ends with a line end,     *)
(* except the prompt.  A reply sent to a closed port is lost, and a URC    *)
(* sent to one is nothing the program could know of.                       *)
(***************************************************************************)
Send(msg) == rx' = IF portOpen THEN rx \o msg ELSE rx
Reply(kind, n) == Send(<<NL, Mark(kind, n), NL>>)

hostVars == <<owner, reports, portOpen, pc, step, cmd, buf, late, result, issued>>

\* It takes the next input off the line, and may answer it OK.
Handle == tx # <<>> /\ tx' = Tail(tx)
Grant(in) == granted' = Append(granted, [by |-> in.by, nth |-> in.nth, seg |-> in.seg])

\* A command line, in command mode.
Answer ==
  /\ mode = "cmd" /\ Handle /\ Head(tx).kind # "pdu"
  /\ LET in == Head(tx)
     IN \/ /\ in.kind = "cmgs"
           /\ Send(<<NL, Mark("gt", in.of)>>)
           /\ mode' = "text" /\ UNCHANGED granted
        \/ /\ in.kind = "list"
           /\ Send(<<NL, Mark("text", in.of), NL, NL, Mark("ok", in.of), NL>>)
           /\ Grant(in) /\ UNCHANGED mode
        \/ /\ in.kind = "line"
           /\ Reply("ok", in.of)
           /\ Grant(in) /\ UNCHANGED mode
        \/ /\ Reply(IF in.kind = "line" THEN "error" ELSE "cms", in.of)
           /\ UNCHANGED <<mode, granted>>
        \/ "silent" \in Faults /\ UNCHANGED <<rx, mode, granted>>
  /\ UNCHANGED <<hostVars, callVars, history>>

\* The PDU a prompt asked for; the network takes it or does not.
Submit ==
  /\ mode = "text" /\ Handle /\ Head(tx).kind = "pdu"
  /\ mode' = "cmd"
  /\ \/ /\ Grant(Head(tx))
        /\ Reply("ok", Head(tx).of) \/ ("silent" \in Faults /\ UNCHANGED rx)
     \/ Reply("cms", Head(tx).of) /\ UNCHANGED granted
  /\ UNCHANGED <<hostVars, callVars, history>>

\* After a prompt a command line is text of the message being entered, and
\* without a prompt a PDU is a line the modem makes nothing of.
Swallow ==
  /\ Handle
  /\ (mode = "text") # (Head(tx).kind = "pdu")
  /\ UNCHANGED <<rx, mode, granted, hostVars, callVars, history>>

SendReport ==
  /\ portOpen /\ sent.report < MaxReports
  /\ Send(<<NL, Tok("cds"), Tok("num"), NL, Mark("pdu", sent.report + 1), NL>>)
  /\ sent' = [sent EXCEPT !.report = @ + 1]
  /\ UNCHANGED <<tx, mode, granted, hostVars, callVars, delivered, closes>>

\* Other URCs: +CMTI and +CDSI on one line, +CMT with a PDU line; "cmtAlpha" is
\* the +CMT: ,24 of a modem that leaves a field before the length.
NoticeText(kind) ==
  CASE kind \in {"cmti", "cdsi"} -> <<NL, Tok(kind), Tok("alpha"), NL>>
    [] kind = "cmt" -> <<NL, Tok("cmt"), Tok("num"), NL, Tok("pdu"), NL>>
    [] kind = "cmtAlpha" -> <<NL, Tok("cmt"), Tok("alpha"), NL, Tok("pdu"), NL>>

SendNotice ==
  /\ portOpen /\ sent.notice < MaxNotices
  /\ \E kind \in Notices : Send(NoticeText(kind))
  /\ sent' = [sent EXCEPT !.notice = @ + 1]
  /\ UNCHANGED <<tx, mode, granted, hostVars, callVars, delivered, closes>>

-----------------------------------------------------------------------------
\* What a thread does once it has made its call.
Run(t) ==
  \/ Refuse(t) \/ OpenFails(t) \/ Enter(t)
  \/ WriteCommand(t) \/ WriteCommandFails(t) \/ WaitAfterRequest(t)
  \/ Poll(t) \/ EraseUrc(t) \/ PollAgain(t) \/ EndOfWait(t)
  \/ ReadPrompt(t) \/ ReadPromptFails(t) \/ PromptRead(t) \/ NoPrompt(t)
  \/ WritePdu(t) \/ WritePduFails(t)
  \/ TakeQueued(t) \/ FirstDrain(t) \/ Drain(t) \/ TakeDrained(t)
  \/ DrainAgain(t) \/ NoReport(t)

Modem == Answer \/ Submit \/ Swallow \/ SendReport \/ SendNotice

\* Every thread has made its calls and the modem has handled everything.
Finished ==
  /\ \A t \in Threads : pc[t] = "idle" /\ made[t] = MaxCalls
  /\ tx = <<>>
  /\ UNCHANGED vars

Next ==
  \/ \E t \in Threads : Start(t) \/ Run(t) \/ Expire(t)
  \/ ClosePort
  \/ Modem
  \/ Finished

Spec == Init /\ [][Next]_vars

(***************************************************************************)
(* A thread inside a call keeps running, and its deadline, which           *)
(* steady_clock measures, passes at last.  Nothing is assumed of the modem *)
(* or of who gets a free mutex.                                            *)
(***************************************************************************)
FairSpec ==
  Spec /\ \A t \in Threads : WF_vars(Run(t)) /\ WF_vars(Expire(t))

-----------------------------------------------------------------------------
(***************************************************************************)
(* Properties of the exchanges.                                            *)
(***************************************************************************)
InExchange == {"prompt", "promptDemux", "body", "wait", "demux"}

\* "Overlapping calls from multiple threads serialize" (modem.hpp): between
\* a call's command and the end of its wait no other command is written, so
\* the thread that waits is the one that wrote last.  For the calls that
\* keep the mutex throughout; list and delete give it up in between.
ExchangeUnbroken ==
  \A t \in Threads :
    pc[t] \in InExchange /\ call[t].op \notin SplitCalls
      => owner = t /\ cmd[t] = issued

\* The text a call collects answers that call's own command: no information
\* line, final result or prompt of an earlier command, or of another
\* thread's, is taken for its own.
OwnReply ==
  \A t \in Threads : \A i \in DOMAIN buf[t] :
    pc[t] \in InExchange /\ buf[t][i].kind \in FinalResults \union {"text", "gt"}
      => buf[t][i].of = cmd[t]

\* The exchanges of t's last call that the modem has answered OK.
Mine(t) == {i \in DOMAIN granted : granted[i].by = t /\ granted[i].nth = made[t]}
Earned(t) == {granted[i].seg : i \in Mine(t)}

\* send_message submits its segments in order, each once, and the next one
\* only after the network took the one before; the segments of two messages
\* never alternate, so a receiver meets the parts of one message together.
SegmentsInOrder ==
  \A t \in Threads : call[t].op = "send" /\ made[t] > 0 =>
    /\ \A i, j \in Mine(t) : j - i = granted[j].seg - granted[i].seg
    /\ pc[t] # "idle" => Earned(t) \in {1..(step[t] - 1), 1..step[t]}
    /\ pc[t] = "write" => Earned(t) = 1..(step[t] - 1)

\* A call that keeps the mutex returns success only for what the modem did:
\* every segment of the message taken, the command answered OK, and for
\* initialize AT, ATE0 and CMGF=0 answered OK and at most one CNMI candidate.
\* It takes answers within the deadline and a port that stays open: after a
\* close and an open, the answer to the call before may still come.
SuccessIsEarned ==
  \A t \in Threads : result[t] = "Ok" =>
    /\ call[t].op = "send" => Earned(t) = 1..call[t].n
    /\ call[t].op = "at" => Earned(t) = {1}
    /\ call[t].op \in {"open", "init"} =>
         /\ 1..InitCommands \subseteq Earned(t)
         /\ Cardinality(Earned(t)) <= InitCommands + 1

\* A command is never written while the modem waits for the text of a
\* message: a call that fails half way leaves the modem in command mode.
NoCommandInText ==
  mode = "text" => \A i \in DOMAIN tx : tx[i].kind = "pdu"

-----------------------------------------------------------------------------
(***************************************************************************)
(* Properties of the status reports.                                       *)
(***************************************************************************)
\* Reports are handed out in the order the modem sent them, none twice.
ReportsInOrder ==
  LET seen == delivered \o reports
  IN \A i, j \in DOMAIN seen : i < j => seen[i] < seen[j]

\* The text from which reports may still be decoded: what the holder of the
\* mutex has read, then what is left on the line.
Ahead == (IF owner \in Threads THEN buf[owner] ELSE <<>>) \o rx

\* The reports that are not lost: queued or still to be decoded, or handed out.
Pending == ToSet(reports) \union ReportsIn(Ahead)
Safe == ToSet(delivered) \union Pending

\* A call drops its buffer while a URC in it is incomplete.
DropsFragment ==
  \E t \in Threads : /\ \E i \in UrcTags(buf[t]) : ~UrcComplete(buf[t], i)
                     /\ buf'[t] = <<>>

\* A report is lost in one way only: the read that ended inside it was the
\* last of its call, or of a poll of poll_status_report.  (Closing the port
\* loses what was not read.)
LostOnlyWithFragment ==
  [][ Safe \subseteq Safe' \/ DropsFragment \/ portOpen # portOpen' ]_vars

\* What a call has read, once demultiplexed, holds nothing of a URC: neither
\* an indication nor the PDU line of a +CMT or +CDS is left for the caller.
\* (When reads do not end inside a URC.)
UrcTextStripped ==
  \A t \in Threads : pc[t] \in {"demux", "promptDemux", "drainDemux"} /\ ~CanErase(buf[t]) =>
    \A i \in DOMAIN buf[t] : buf[t][i].kind \in {"nl", "text", "gt"} \union FinalResults

\* "URCs such as +CDS are demultiplexed out of command responses into an
\* internal Status Report queue" (modem.hpp): every report the modem sent is
\* queued or handed out sooner or later, none is dropped.
NoReportLost == 1..sent.report \subseteq Safe

(***************************************************************************)
(* GsmModem implements ReportChannel.  What is pending there is here in    *)
(* the queue, in the text that was read, or still on the line.             *)
(***************************************************************************)
Channel == INSTANCE ReportChannel WITH produced <- sent.report, pending <- Pending

ImplementsChannel == Channel!Spec

-----------------------------------------------------------------------------
\* Every call gives the mutex back, whatever the modem does: all its loops
\* are bounded by their deadlines.
HolderReturns == \A t \in Threads : owner = t ~> owner # t
=============================================================================
