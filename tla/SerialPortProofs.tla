-------------------------- MODULE SerialPortProofs --------------------------
(***************************************************************************)
(* Theorems about SerialPort, for any number of threads, handles and       *)
(* bytes, and for both builds.                                             *)
(***************************************************************************)
EXTENDS SerialPort, SequenceTheorems, TLAPS

Results == {"none", "Ok", "AlreadyOpen", "InvalidArgument", "Unsupported", "NotOpen", "SystemError"}

Calls == [op : {"none", "open", "open_memory", "close", "write", "read"}, at : Nat,
          data : Seq(Byte), handle : Handles \union {NoHandle}, result : Results]

MemoryStates == [enabled : BOOLEAN, rx_queue : Seq(Byte), tx_log : Seq(Byte),
                 responder : {"none", "echo"}]

TypeOK ==
  /\ platform \in {"posix", "win32"}
  /\ handle \in Handles \union {NoHandle}
  /\ memory \in MemoryStates
  /\ call \in [Threads -> Calls]
  /\ handed \in Seq(Byte)

\* Only the owner opens and closes, and while it does nothing else is open: its
\* check of is_open still holds when it keeps a handle or enables the memory.
OwnerAlone ==
  /\ \A t \in Threads : call[t].op \in {"open", "open_memory", "close"} => t = Owner
  /\ call[Owner].op \in {"open", "open_memory"} /\ call[Owner].at > 0 => ~IsOpen
  /\ call[Owner].op = "close" /\ call[Owner].at > 0 => handle = NoHandle
  /\ call[Owner].op = "open" => (call[Owner].handle = NoHandle <=> call[Owner].at < 2)

\* A port that is not in memory has nothing there.
ClosedIsEmpty ==
  /\ memory.enabled => handle = NoHandle
  /\ ~memory.enabled => memory = IdleMemory /\ handed = <<>>
  /\ \A t \in Threads : call[t].op = "write" => call[t].data \in Pipe!Strings(1)

IInv == TypeOK /\ OwnerAlone /\ ClosedIsEmpty /\ HandlesOwned

-----------------------------------------------------------------------------
(***************************************************************************)
(* What the helpers of the actions do to the calls.                        *)
(***************************************************************************)
LEMMA IdleIsCall ==
  ASSUME NEW result \in Results
  PROVE  Idle(result) \in Calls
BY EmptySeq DEF Idle, Calls, Results

LEMMA ReturnCalls ==
  ASSUME TypeOK, NEW t \in Threads, NEW result \in Results, Return(t, result)
  PROVE  call' \in [Threads -> Calls] /\ call'[t] = Idle(result)
           /\ \A u \in Threads \ {t} : call'[u] = call[u]
BY IdleIsCall DEF TypeOK, Return

LEMMA GoOnCalls ==
  ASSUME TypeOK, NEW t \in Threads, GoOn(t)
  PROVE  call' \in [Threads -> Calls] /\ call'[t] = [call[t] EXCEPT !.at = @ + 1]
           /\ \A u \in Threads \ {t} : call'[u] = call[u]
<1>1. call[t] \in Calls
  BY DEF TypeOK
<1>2. [call[t] EXCEPT !.at = call[t].at + 1] \in Calls
  BY <1>1 DEF Calls
<1> QED
  BY <1>2 DEF TypeOK, GoOn

LEMMA BeginCalls ==
  ASSUME TypeOK, NEW t \in Threads, NEW op \in {"open", "open_memory", "close", "write", "read"},
         NEW data \in Seq(Byte), Begin(t, op, data)
  PROVE  call' \in [Threads -> Calls]
           /\ call'[t] = [op |-> op, at |-> 0, data |-> data, handle |-> NoHandle, result |-> "none"]
           /\ \A u \in Threads \ {t} : call'[u] = call[u]
<1>1. [op |-> op, at |-> 0, data |-> data, handle |-> NoHandle, result |-> "none"] \in Calls
  BY DEF Calls, Results
<1> QED
  BY <1>1 DEF TypeOK, Begin, Idle

\* Only the owner's open calls hold a handle.
LEMMA HoldingOfOwner ==
  ASSUME OwnerAlone
  PROVE  Holding = IF call[Owner].op = "open" THEN {call[Owner].handle} ELSE {}
BY OwnerAssumption DEF OwnerAlone, Holding

LEMMA InitInv == Init => IInv
<1> SUFFICES ASSUME Init PROVE IInv
  OBVIOUS
<1>1. Idle("Ok") \in Calls
  BY IdleIsCall DEF Results
<1>2. TypeOK
  BY <1>1, EmptySeq DEF Init, TypeOK, MemoryStates, IdleMemory
<1>3. OwnerAlone /\ ClosedIsEmpty /\ HandlesOwned
  BY OwnerAssumption DEF Init, OwnerAlone, ClosedIsEmpty, HandlesOwned, Holding, Idle, IdleMemory
<1> QED
  BY <1>2, <1>3 DEF IInv

-----------------------------------------------------------------------------
(***************************************************************************)
(* Each step keeps the invariant.                                          *)
(***************************************************************************)
LEMMA StartInv ==
  ASSUME IInv, NEW t \in Threads, Start(t)
  PROVE  IInv'
<1>1. PICK op \in {"open", "open_memory", "close", "write", "read"}, data \in Pipe!Strings(1) :
        /\ Begin(t, op, data)
        /\ op \in {"open", "open_memory", "close"} => t = Owner
  <2>1. \A b \in Byte : <<b>> \in Pipe!Strings(1)
    BY DEF Pipe!Strings
  <2>2. <<>> \in Pipe!Strings(1)
    BY DEF Pipe!Strings
  <2> QED
    BY <2>1, <2>2 DEF Start
<1>2. data \in Seq(Byte)
  <2>1. PICK k \in 0..1 : data \in [1..k -> Byte]
    BY DEF Pipe!Strings
  <2> QED
    BY <2>1, SeqDef
<1>3. /\ call' \in [Threads -> Calls]
      /\ call'[t] = [op |-> op, at |-> 0, data |-> data, handle |-> NoHandle, result |-> "none"]
      /\ \A u \in Threads \ {t} : call'[u] = call[u]
      /\ UNCHANGED <<platform, handle, memory, open, handed>>
  BY <1>1, <1>2, BeginCalls DEF IInv, Begin
<1>4. TypeOK'
  BY <1>3 DEF IInv, TypeOK
<1>5. OwnerAlone'
  BY <1>1, <1>3, OwnerAssumption DEF IInv, OwnerAlone, IsOpen
<1>6. ClosedIsEmpty'
  BY <1>1, <1>3 DEF IInv, ClosedIsEmpty
<1>7. Holding' \ {NoHandle} = Holding \ {NoHandle}
  <2>1. call[t].op = "none"
    BY <1>1 DEF Begin
  <2> QED
    BY <1>3, <2>1, OwnerAssumption DEF Holding
<1> QED
  BY <1>3, <1>4, <1>5, <1>6, <1>7 DEF IInv, HandlesOwned

\* A call that returns, having changed neither what is open nor the memory.
LEMMA ReturnInv ==
  ASSUME IInv, NEW t \in Threads, NEW result \in Results, Return(t, result),
         UNCHANGED <<platform, handle, memory, handed>>,
         open' = IF call[t].op = "open" THEN open \ ({call[t].handle} \ {handle}) ELSE open
  PROVE  IInv'
<1>1. /\ call' \in [Threads -> Calls] /\ call'[t] = Idle(result)
      /\ \A u \in Threads \ {t} : call'[u] = call[u]
  BY ReturnCalls DEF IInv
<1>2. TypeOK'
  BY <1>1 DEF IInv, TypeOK
<1>3. OwnerAlone'
  BY <1>1, OwnerAssumption DEF IInv, OwnerAlone, Idle, IsOpen
<1>4. ClosedIsEmpty'
  BY <1>1 DEF IInv, ClosedIsEmpty, Idle
<1>5. CASE call[t].op = "open"
  <2>1. t = Owner /\ call'[Owner].op = "none" /\ Holding = {call[Owner].handle}
    BY <1>1, <1>5, HoldingOfOwner DEF IInv, OwnerAlone, Idle
  <2>2. Holding' = {}
    BY <1>1, <2>1 DEF IInv, OwnerAlone, Holding
  <2>3. open = {handle, call[Owner].handle} \ {NoHandle}
    BY <2>1 DEF IInv, HandlesOwned
  <2>4. open' = {handle} \ {NoHandle}
    BY <1>5, <2>1, <2>3
  <2> QED
    BY <1>2, <1>3, <1>4, <2>2, <2>4 DEF IInv, HandlesOwned
<1>6. CASE call[t].op # "open"
  <2>1. Holding' = Holding
    BY <1>1, <1>6 DEF Holding, Idle
  <2> QED
    BY <1>2, <1>3, <1>4, <1>6, <2>1 DEF IInv, HandlesOwned
<1> QED
  BY <1>5, <1>6

\* A call that goes on, having changed nothing else.
LEMMA GoOnInv ==
  ASSUME IInv, NEW t \in Threads, GoOn(t), UNCHANGED <<platform, handle, memory, open, handed>>,
         call[t].op \in {"open", "open_memory"} => call[t].at # 1 /\ ~IsOpen,
         call[t].op = "close" => handle = NoHandle
  PROVE  IInv'
<1>1. /\ call' \in [Threads -> Calls] /\ call'[t] = [call[t] EXCEPT !.at = @ + 1]
      /\ \A u \in Threads \ {t} : call'[u] = call[u]
  BY GoOnCalls DEF IInv
<1>2. call[t] \in Calls
  BY DEF IInv, TypeOK
<1>3. /\ call'[t].op = call[t].op /\ call'[t].data = call[t].data
      /\ call'[t].handle = call[t].handle /\ call'[t].at = call[t].at + 1
  BY <1>1, <1>2 DEF Calls
<1>4. TypeOK'
  BY <1>1 DEF IInv, TypeOK
<1>5. OwnerAlone'
  <2>1. IsOpen' = IsOpen
    BY DEF IsOpen
  <2>2. CASE t = Owner
    <3>1. \A u \in Threads : call'[u].op = call[u].op
      BY <1>1, <1>3
    <3>2. call[Owner].at \in Nat /\ call'[Owner].at = call[Owner].at + 1
      BY <1>2, <1>3, <2>2 DEF Calls
    <3> QED
      BY <1>3, <2>1, <2>2, <3>1, <3>2 DEF IInv, OwnerAlone
  <2>3. CASE t # Owner
    <3>1. call'[Owner] = call[Owner] /\ \A u \in Threads : call'[u].op = call[u].op
      BY <1>1, <1>3, <2>3, OwnerAssumption
    <3> QED
      BY <2>1, <3>1 DEF IInv, OwnerAlone
  <2> QED
    BY <2>2, <2>3
<1>6. ClosedIsEmpty'
  BY <1>1, <1>3 DEF IInv, ClosedIsEmpty
<1>7. Holding' = Holding
  <2>1. \A u \in Threads : call'[u].op = call[u].op /\ call'[u].handle = call[u].handle
    BY <1>1, <1>3
  <2> QED
    BY <2>1 DEF Holding
<1> QED
  BY <1>4, <1>5, <1>6, <1>7 DEF IInv, HandlesOwned

LEMMA OpenInv ==
  ASSUME IInv, NEW t \in Threads,
         Check(t) \/ SystemOpen(t) \/ Configure(t) \/ ConfigureFails(t) \/ Keep(t)
  PROVE  IInv'
<1> USE DEF In
<1>1. ASSUME Check(t) PROVE IInv'
  <2>1. CASE \E result \in Results : Return(t, result)
    <3>1. PICK result \in Results : Return(t, result)
      BY <2>1
    <3>2. t = Owner /\ call[t].op = "open" /\ call[t].handle = NoHandle
      BY <1>1 DEF Check, IInv, OwnerAlone
    <3>3. open = open \ ({call[t].handle} \ {handle})
      BY <3>2 DEF IInv, HandlesOwned
    <3> QED
      BY <1>1, <3>1, <3>2, <3>3, ReturnInv DEF Check
  <2>2. CASE ~IsOpen /\ GoOn(t)
    BY <1>1, <2>2, GoOnInv DEF Check
  <2> QED
    BY <1>1, <2>1, <2>2 DEF Check, Refusals, Results
<1>2. ASSUME SystemOpen(t), NEW h \in Handles \ open, open' = open \union {h},
             call' = [call EXCEPT ![t].at = 2, ![t].handle = h]
      PROVE  IInv'
  <2>1. call[t] \in Calls /\ t = Owner /\ h # NoHandle
    BY <1>2, OwnerAssumption DEF SystemOpen, IInv, TypeOK, OwnerAlone
  <2>2. call' = [call EXCEPT ![t] = [call[t] EXCEPT !.at = 2, !.handle = h]]
    BY <1>2
  <2>3. [call[t] EXCEPT !.at = 2, !.handle = h] \in Calls
    BY <1>2, <2>1 DEF Calls
  <2> DEFINE c == [call[t] EXCEPT !.at = 2, !.handle = h]
  <2>11. call' = [call EXCEPT ![t] = c] /\ c \in Calls
    BY <2>2, <2>3
  <2>10. c.op = "open" /\ c.at = 2 /\ c.handle = h
    BY <1>2, <2>1 DEF SystemOpen, Calls
  <2>4. /\ call' \in [Threads -> Calls] /\ UNCHANGED <<platform, handle, memory, handed>>
        /\ \A u \in Threads \ {t} : call'[u] = call[u]
        /\ call'[t].op = "open" /\ call'[t].at = 2 /\ call'[t].handle = h
    <3> HIDE DEF c
    <3>1. call \in [Threads -> Calls] /\ UNCHANGED <<platform, handle, memory, handed>>
      BY <1>2 DEF SystemOpen, IInv, TypeOK
    <3>2. call'[t] = c /\ call' \in [Threads -> Calls] /\ \A u \in Threads \ {t} : call'[u] = call[u]
      BY <2>11, <3>1
    <3> QED
      BY <2>10, <3>1, <3>2
  <2>5. TypeOK'
    BY <2>4 DEF IInv, TypeOK
  <2>6. ~IsOpen /\ call[Owner].handle = NoHandle
    BY <1>2, <2>1 DEF SystemOpen, IInv, OwnerAlone
  <2>7. OwnerAlone'
    <3>1. IsOpen' = IsOpen /\ \A u \in Threads : call'[u].op = call[u].op
      BY <1>2, <2>4 DEF SystemOpen, IsOpen
    <3> QED
      BY <2>1, <2>4, <2>6, <3>1 DEF IInv, OwnerAlone
  <2>8. ClosedIsEmpty'
    BY <1>2, <2>4 DEF SystemOpen, IInv, ClosedIsEmpty
  <2>9. Holding = {NoHandle} /\ Holding' = {h}
    <3>1. call[Owner].op = "open" /\ call'[Owner].op = "open" /\ call'[Owner].handle = h
      BY <1>2, <2>1, <2>4 DEF SystemOpen
    <3>2. Holding' = {h}
      BY <2>7, <3>1, OwnerAssumption DEF Holding, OwnerAlone
    <3> QED
      BY <2>6, <3>1, <3>2, HoldingOfOwner DEF IInv
  <2> QED
    BY <1>2, <2>1, <2>4, <2>5, <2>6, <2>7, <2>8, <2>9 DEF IInv, HandlesOwned, IsOpen
<1>3. ASSUME SystemOpen(t), Return(t, "SystemError"), UNCHANGED open PROVE IInv'
  BY <1>3, ReturnInv, OwnerAssumption DEF SystemOpen, IInv, OwnerAlone, HandlesOwned, TypeOK, Results
<1>4. ASSUME Configure(t) PROVE IInv'
  BY <1>4, GoOnInv DEF Configure, IInv, OwnerAlone
<1>5. ASSUME ConfigureFails(t) PROVE IInv'
  BY <1>5, ReturnInv, OwnerAssumption DEF ConfigureFails, IInv, OwnerAlone, IsOpen, Results
<1>6. ASSUME Keep(t) PROVE IInv'
  <2>1. t = Owner /\ ~IsOpen /\ call[t].handle \in Handles /\ call[t].op = "open"
    BY <1>6, OwnerAssumption DEF Keep, ConfigSteps, IInv, OwnerAlone, TypeOK, Calls
  <2>2. /\ call' \in [Threads -> Calls] /\ call'[t] = Idle("Ok")
        /\ \A u \in Threads \ {t} : call'[u] = call[u]
    BY <1>6, ReturnCalls DEF Keep, IInv, Results
  <2>3. handle' = call[t].handle /\ UNCHANGED <<platform, memory, open, handed>>
    BY <1>6 DEF Keep
  <2>4. TypeOK'
    BY <2>1, <2>2, <2>3 DEF IInv, TypeOK
  <2>5. OwnerAlone'
    BY <2>1, <2>2, <2>3 DEF IInv, OwnerAlone, Idle
  <2>6. ClosedIsEmpty'
    BY <2>1, <2>2, <2>3 DEF IInv, ClosedIsEmpty, Idle, IsOpen
  <2>7. Holding = {call[t].handle} /\ Holding' = {}
    BY <2>1, <2>2, HoldingOfOwner DEF IInv, OwnerAlone, Holding, Idle
  <2> QED
    BY <2>1, <2>3, <2>4, <2>5, <2>6, <2>7 DEF IInv, HandlesOwned, IsOpen
<1> QED
  BY <1>1, <1>2, <1>3, <1>4, <1>5, <1>6 DEF SystemOpen

LEMMA OpenMemoryInv ==
  ASSUME IInv, NEW t \in Threads, OpenMemory(t)
  PROVE  IInv'
<1> USE DEF In
<1>1. ASSUME call[t].op = "open_memory", IsOpen, Return(t, "AlreadyOpen"),
             UNCHANGED <<platform, handle, memory, open, handed>>
      PROVE  IInv'
  BY <1>1, ReturnInv DEF Results
<1>2. ASSUME call[t].op = "open_memory", call[t].at = 0, ~IsOpen, GoOn(t),
             UNCHANGED <<platform, handle, memory, open, handed>>
      PROVE  IInv'
  BY <1>2, GoOnInv
<1>3. ASSUME call[t].op = "open_memory", call[t].at = 1, Return(t, "Ok"),
             NEW r \in {"none", "echo"}, memory' = [IdleMemory EXCEPT !.enabled = TRUE, !.responder = r],
             UNCHANGED <<platform, handle, open, handed>>
      PROVE  IInv'
  <2>1. t = Owner /\ ~IsOpen
    BY <1>3 DEF IInv, OwnerAlone
  <2>2. /\ call' \in [Threads -> Calls] /\ call'[t] = Idle("Ok")
        /\ \A u \in Threads \ {t} : call'[u] = call[u]
    BY <1>3, ReturnCalls DEF IInv, Results
  <2>3. memory' = [enabled |-> TRUE, rx_queue |-> <<>>, tx_log |-> <<>>, responder |-> r]
    BY <1>3 DEF IdleMemory
  <2>4. memory' \in MemoryStates /\ memory'.enabled
    BY <2>3, EmptySeq DEF MemoryStates
  <2>5. TypeOK'
    BY <1>3, <2>2, <2>4 DEF IInv, TypeOK
  <2>6. OwnerAlone'
    BY <2>1, <2>2 DEF IInv, OwnerAlone, Idle
  <2>7. ClosedIsEmpty'
    BY <1>3, <2>1, <2>2, <2>4 DEF IInv, ClosedIsEmpty, Idle, IsOpen
  <2>8. Holding' = Holding
    BY <1>3, <2>2 DEF Holding, Idle
  <2> QED
    BY <1>3, <2>5, <2>6, <2>7, <2>8 DEF IInv, HandlesOwned
<1> QED
  BY <1>1, <1>2, <1>3 DEF OpenMemory

LEMMA CloseInv ==
  ASSUME IInv, NEW t \in Threads, Close(t)
  PROVE  IInv'
<1> USE DEF In
<1>1. t = Owner /\ call[Owner].op = "close" /\ Holding = {}
  BY HoldingOfOwner DEF Close, IInv, OwnerAlone
<1>2. ASSUME call[t].at = 0, open' = open \ {handle}, handle' = NoHandle, GoOn(t),
             UNCHANGED <<platform, memory, handed>>
      PROVE  IInv'
  <2>1. /\ call' \in [Threads -> Calls] /\ call'[t] = [call[t] EXCEPT !.at = @ + 1]
        /\ \A u \in Threads \ {t} : call'[u] = call[u]
    BY <1>2, GoOnCalls DEF IInv
  <2>2. call'[t].op = "close" /\ \A u \in Threads : call'[u].op = call[u].op /\ call'[u].data = call[u].data
    BY <1>1, <2>1 DEF IInv, TypeOK, Calls
  <2>3. TypeOK' /\ OwnerAlone'
    BY <1>1, <1>2, <2>1, <2>2 DEF IInv, TypeOK, OwnerAlone
  <2>4. ClosedIsEmpty'
    BY <1>2, <2>2 DEF IInv, ClosedIsEmpty
  <2>5. Holding' = {}
    BY <1>1, <2>2, <2>3, OwnerAssumption DEF Holding, OwnerAlone
  <2> QED
    BY <1>1, <1>2, <2>3, <2>4, <2>5 DEF IInv, HandlesOwned
<1>3. ASSUME call[t].at = 1, memory' = IdleMemory, handed' = <<>>, Return(t, "Ok"),
             UNCHANGED <<platform, handle, open>>
      PROVE  IInv'
  <2>1. /\ call' \in [Threads -> Calls] /\ call'[t] = Idle("Ok")
        /\ \A u \in Threads \ {t} : call'[u] = call[u]
    BY <1>3, ReturnCalls DEF IInv, Results
  <2>2. IdleMemory \in MemoryStates /\ ~IdleMemory.enabled /\ <<>> \in Seq(Byte)
    BY EmptySeq DEF IdleMemory, MemoryStates
  <2>3. TypeOK'
    BY <1>3, <2>1, <2>2 DEF IInv, TypeOK
  <2>4. OwnerAlone'
    BY <1>1, <2>1 DEF IInv, OwnerAlone, Idle
  <2>5. ClosedIsEmpty'
    BY <1>3, <2>1, <2>2 DEF IInv, ClosedIsEmpty, Idle
  <2>6. Holding' = Holding
    BY <1>1, <2>1 DEF Holding, Idle
  <2> QED
    BY <1>3, <2>3, <2>4, <2>5, <2>6 DEF IInv, HandlesOwned
<1> QED
  BY <1>2, <1>3 DEF Close

\* A step that changes the queues of a memory in use, and lets a transfer return.
LEMMA MemoryInv ==
  ASSUME IInv, memory.enabled, memory'.enabled, memory' \in MemoryStates, handed' \in Seq(Byte),
         UNCHANGED <<platform, handle, open>>, call' \in [Threads -> Calls],
         \A u \in Threads : call'[u] = call[u] \/ (call'[u].op = "none" /\ call[u].op \in Transfers)
  PROVE  IInv'
<1>1. TypeOK'
  BY DEF IInv, TypeOK
<1>2. OwnerAlone'
  BY OwnerAssumption DEF IInv, OwnerAlone, IsOpen, Transfers
<1>3. ClosedIsEmpty'
  BY DEF IInv, ClosedIsEmpty
<1>4. Holding' = Holding
  BY DEF Holding, Transfers
<1> QED
  BY <1>1, <1>2, <1>3, <1>4 DEF IInv, HandlesOwned

LEMMA TransferInv ==
  ASSUME IInv, NEW t \in Threads,
         CheckOpen(t) \/ MemoryRefuses(t) \/ SystemTransfer(t)
  PROVE  IInv'
<1> USE DEF In
<1>1. ASSUME NEW result \in Results, Return(t, result), call[t].op \in Transfers,
             UNCHANGED <<platform, handle, memory, open, handed>>
      PROVE  IInv'
  BY <1>1, ReturnInv DEF Transfers
<1>2. ASSUME GoOn(t), call[t].op \in Transfers, UNCHANGED <<platform, handle, memory, open, handed>>
      PROVE  IInv'
  BY <1>2, GoOnInv DEF Transfers
<1>3. ASSUME MemoryRefuses(t) PROVE IInv'
  <2> DEFINE c == [call[t] EXCEPT !.at = 2, !.handle = handle]
  <2>1. call[t] \in Calls /\ handle \in Handles \union {NoHandle} /\ call[t].op \in Transfers
    BY <1>3 DEF MemoryRefuses, IInv, TypeOK
  <2>2. c \in Calls /\ c.op = call[t].op /\ c.data = call[t].data
    BY <2>1 DEF Calls
  <2>3. call' = [call EXCEPT ![t] = c]
    BY <1>3 DEF MemoryRefuses
  <2> HIDE DEF c
  <2>4. call' \in [Threads -> Calls] /\ call'[t] = c /\ \A u \in Threads \ {t} : call'[u] = call[u]
    BY <2>2, <2>3 DEF IInv, TypeOK
  <2>5. \A u \in Threads : call'[u].op = call[u].op /\ call'[u].data = call[u].data
    BY <2>2, <2>4
  <2>6. \A u \in Threads : call[u].op \notin Transfers => call'[u] = call[u]
    BY <2>1, <2>4
  <2>7. UNCHANGED <<platform, handle, memory, open, handed>>
    BY <1>3 DEF MemoryRefuses
  <2>8. TypeOK' /\ ClosedIsEmpty'
    BY <2>4, <2>5, <2>7 DEF IInv, TypeOK, ClosedIsEmpty
  <2>9. OwnerAlone'
    BY <2>5, <2>6, <2>7, OwnerAssumption DEF IInv, OwnerAlone, IsOpen, Transfers
  <2>10. Holding' = Holding
    BY <2>5, <2>6 DEF Holding, Transfers
  <2> QED
    BY <2>7, <2>8, <2>9, <2>10 DEF IInv, HandlesOwned
<1> QED
  BY <1>1, <1>2, <1>3 DEF CheckOpen, SystemTransfer, Results

\* The oldest n bytes of a queue, and the rest.
LEMMA QueueParts ==
  ASSUME NEW s \in Seq(Byte), NEW n \in 0..Len(s)
  PROVE  SubSeq(s, 1, n) \in Seq(Byte) /\ SubSeq(s, n + 1, Len(s)) \in Seq(Byte)
<1>1. \A i \in 1..Len(s) : s[i] \in Byte
  OBVIOUS
<1> QED
  BY <1>1, SubSeqProperties

LEMMA QueuesChanged ==
  ASSUME NEW m \in MemoryStates, NEW rx \in Seq(Byte), NEW tx \in Seq(Byte)
  PROVE  LET n == [m EXCEPT !.tx_log = tx, !.rx_queue = rx]
         IN /\ n \in MemoryStates /\ n.enabled = m.enabled
            /\ [m EXCEPT !.rx_queue = rx] \in MemoryStates
            /\ [m EXCEPT !.rx_queue = rx].enabled = m.enabled
            /\ [m EXCEPT !.tx_log = tx] \in MemoryStates
            /\ [m EXCEPT !.tx_log = tx].enabled = m.enabled
BY DEF MemoryStates

LEMMA MemoryTransferInv ==
  ASSUME IInv, NEW t \in Threads, MemoryWrite(t) \/ MemoryRead(t)
  PROVE  IInv'
<1> USE DEF In
<1>0. memory \in MemoryStates /\ call \in [Threads -> Calls] /\ call[t] \in Calls /\ handed \in Seq(Byte)
  BY DEF IInv, TypeOK
<1>1. ASSUME MemoryWrite(t) PROVE IInv'
  <2>1. call[t].data \in Seq(Byte) /\ Response(call[t].data) \in Seq(Byte)
    BY <1>0, EmptySeq DEF Calls, Response
  <2>2. memory' \in MemoryStates /\ memory'.enabled
    <3> DEFINE rx == memory.rx_queue \o Response(call[t].data)
               tx == memory.tx_log \o call[t].data
    <3>1. rx \in Seq(Byte) /\ tx \in Seq(Byte)
      BY <1>0, <2>1 DEF MemoryStates
    <3>2. memory' = [memory EXCEPT !.tx_log = tx, !.rx_queue = rx] /\ memory.enabled
      BY <1>1 DEF MemoryWrite
    <3> HIDE DEF rx, tx
    <3> QED
      BY <1>0, <3>1, <3>2, QueuesChanged
  <2>3. call' \in [Threads -> Calls] /\ call'[t] = Idle("Ok") /\ \A u \in Threads \ {t} : call'[u] = call[u]
    BY <1>1, ReturnCalls DEF MemoryWrite, IInv, Results
  <2> QED
    <3>1. \A u \in Threads : call'[u] = call[u] \/ (call'[u].op = "none" /\ call[u].op \in Transfers)
      BY <1>1, <2>3 DEF MemoryWrite, Idle, Transfers
    <3>2. memory.enabled /\ UNCHANGED <<platform, handle, open>> /\ handed' \in Seq(Byte)
      BY <1>0, <1>1 DEF MemoryWrite
    <3> QED
      BY <2>2, <2>3, <3>1, <3>2, MemoryInv
<1>2. ASSUME MemoryRead(t) PROVE IInv'
  <2>1. PICK n \in 0..Len(memory.rx_queue) : TakeRx(t, n)
    BY <1>0, <1>2, BoundAssumption DEF MemoryRead, MemoryStates
  <2>2. SubSeq(memory.rx_queue, 1, n) \in Seq(Byte) /\ SubSeq(memory.rx_queue, n + 1, Len(memory.rx_queue)) \in Seq(Byte)
    BY <1>0, QueueParts DEF MemoryStates
  <2>3. memory' \in MemoryStates /\ memory'.enabled
    BY <1>0, <1>2, <2>1, <2>2, EmptySeq, QueuesChanged DEF TakeRx, MemoryRead
  <2>4. [Idle("Ok") EXCEPT !.data = SubSeq(memory.rx_queue, 1, n)] \in Calls
    BY <2>2, IdleIsCall DEF Calls, Idle, Results
  <2>5. /\ call' \in [Threads -> Calls]
        /\ call'[t] = [Idle("Ok") EXCEPT !.data = SubSeq(memory.rx_queue, 1, n)]
        /\ \A u \in Threads \ {t} : call'[u] = call[u]
    BY <1>0, <2>1, <2>4 DEF TakeRx
  <2>6. call'[t].op = "none" /\ call'[t].data = SubSeq(memory.rx_queue, 1, n)
    BY <2>5 DEF Idle
  <2>7. handed' \in Seq(Byte)
    BY <1>0, <1>2, <2>2, <2>6 DEF MemoryRead
  <2> QED
    <3>1. \A u \in Threads : call'[u] = call[u] \/ (call'[u].op = "none" /\ call[u].op \in Transfers)
      BY <1>2, <2>5, <2>6 DEF MemoryRead, Transfers
    <3>2. memory.enabled /\ UNCHANGED <<platform, handle, open>>
      BY <1>2 DEF MemoryRead
    <3> QED
      BY <2>3, <2>5, <2>7, <3>1, <3>2, MemoryInv
<1> QED
  BY <1>1, <1>2

LEMMA OtherEndInv ==
  ASSUME IInv, PushRx \/ TakeTx
  PROVE  IInv'
<1>0. memory \in MemoryStates /\ call \in [Threads -> Calls] /\ handed \in Seq(Byte)
  BY DEF IInv, TypeOK
<1>1. memory.enabled
  BY DEF PushRx, TakeTx, IInv, ClosedIsEmpty, IdleMemory
<1>2. memory' \in MemoryStates /\ memory'.enabled
  <2>1. CASE PushRx
    <3>1. PICK b \in Byte : memory' = [memory EXCEPT !.rx_queue = Append(memory.rx_queue, b)]
      BY <2>1 DEF PushRx
    <3>2. Append(memory.rx_queue, b) \in Seq(Byte)
      BY <1>0 DEF MemoryStates
    <3> QED
      BY <1>0, <1>1, <3>1, <3>2, EmptySeq, QueuesChanged
  <2>2. CASE TakeTx
    BY <1>0, <1>1, <2>2, EmptySeq, QueuesChanged DEF TakeTx
  <2> QED
    BY <2>1, <2>2
<1> QED
  <2>1. UNCHANGED <<platform, handle, open, call, handed>>
    BY DEF PushRx, TakeTx
  <2>2. \A u \in Threads : call'[u] = call[u]
    BY <2>1
  <2> QED
    BY <1>0, <1>1, <1>2, <2>1, <2>2, MemoryInv

LEMMA Invariant == Spec => []IInv
<1>1. Init => IInv
  BY InitInv
<1>2. IInv /\ [Next]_vars => IInv'
  <2> SUFFICES ASSUME IInv, [Next]_vars PROVE IInv'
    OBVIOUS
  <2>1. CASE UNCHANGED vars
    BY <2>1 DEF vars, IInv, TypeOK, OwnerAlone, ClosedIsEmpty, HandlesOwned, Holding, IsOpen
  <2>2. CASE Next
    BY <2>2, StartInv, OpenInv, OpenMemoryInv, CloseInv, TransferInv, MemoryTransferInv, OtherEndInv
      DEF Next
  <2> QED
    BY <2>1, <2>2
<1> QED
  BY <1>1, <1>2, PTL DEF Spec

\* Whatever fails in open, and whoever uses the port meanwhile, the process has
\* no handle open that no port holds, and none is closed that is still held.
THEOREM HandlesNeverLeak == Spec => []HandlesOwned
<1>1. IInv => HandlesOwned
  BY DEF IInv
<1> QED
  BY <1>1, Invariant, PTL

-----------------------------------------------------------------------------
(***************************************************************************)
(* Refinement: each step is a step of the pipe, or leaves it as it was.    *)
(***************************************************************************)
Stutters == UNCHANGED <<handle, memory, handed>>

LEMMA StutterRefines ==
  ASSUME Stutters
  PROVE  UNCHANGED Pipe!vars
BY DEF Stutters, Pipe!vars

LEMMA OpenRefines ==
  ASSUME IInv, NEW t \in Threads, Keep(t) \/ OpenMemory(t)
  PROVE  Pipe!Open \/ Stutters
<1> USE DEF In
<1>1. ASSUME Keep(t) PROVE Pipe!Open
  <2>1. ~memory.enabled /\ handle = NoHandle /\ call[t].handle \in Handles
    BY <1>1 DEF Keep, ConfigSteps, IInv, OwnerAlone, IsOpen, TypeOK, Calls
  <2> QED
    BY <1>1, <2>1, OwnerAssumption DEF Keep, Pipe!Open
<1>2. ASSUME OpenMemory(t), call[t].at = 1 PROVE Pipe!Open
  <2>1. ~memory.enabled /\ handle = NoHandle /\ memory = IdleMemory
    BY <1>2 DEF OpenMemory, IInv, OwnerAlone, IsOpen, ClosedIsEmpty
  <2>2. PICK r \in {"none", "echo"} : memory' = [IdleMemory EXCEPT !.enabled = TRUE, !.responder = r]
    BY <1>2 DEF OpenMemory
  <2>3. memory'.enabled /\ memory'.rx_queue = memory.rx_queue /\ memory'.tx_log = memory.tx_log
    BY <2>1, <2>2 DEF IdleMemory
  <2> QED
    BY <1>2, <2>1, <2>3 DEF OpenMemory, Pipe!Open
<1>3. ASSUME OpenMemory(t), call[t].at # 1 PROVE Stutters
  BY <1>3 DEF OpenMemory, Stutters
<1> QED
  BY <1>1, <1>2, <1>3

LEMMA CloseRefines ==
  ASSUME IInv, NEW t \in Threads, Close(t)
  PROVE  Pipe!Close \/ Stutters
<1> USE DEF In
<1>1. ASSUME call[t].at = 0, handle = NoHandle PROVE Stutters
  BY <1>1 DEF Close, Stutters
<1>2. ASSUME call[t].at = 0, handle # NoHandle PROVE Pipe!Close
  <2>1. memory = IdleMemory /\ ~memory.enabled /\ handed = <<>>
    BY <1>2 DEF IInv, ClosedIsEmpty
  <2>2. handle' = NoHandle /\ UNCHANGED <<memory, handed>>
    BY <1>2 DEF Close
  <2> QED
    BY <2>1, <2>2 DEF Pipe!Close, IdleMemory
<1>3. ASSUME call[t].at # 0 PROVE Pipe!Close
  <2>1. memory' = IdleMemory /\ handed' = <<>> /\ handle' = NoHandle
    BY <1>3 DEF Close, IInv, OwnerAlone
  <2> QED
    BY <2>1 DEF Pipe!Close, IdleMemory
<1> QED
  BY <1>1, <1>2, <1>3

LEMMA MemoryTransferRefines ==
  ASSUME IInv, NEW t \in Threads, MemoryWrite(t) \/ MemoryRead(t)
  PROVE  \/ \E d, r \in Pipe!Strings(1) : Pipe!Write(d, r)
         \/ \E n \in 1..Len(memory.rx_queue) : Pipe!Read(n)
         \/ Stutters
<1> USE DEF In
<1>1. memory \in MemoryStates /\ memory.rx_queue \in Seq(Byte) /\ handed \in Seq(Byte)
  BY DEF IInv, TypeOK, MemoryStates
<1>2. ASSUME MemoryWrite(t)
      PROVE  Pipe!Write(call[t].data, Response(call[t].data))
               /\ {call[t].data, Response(call[t].data)} \subseteq Pipe!Strings(1)
  <2>1. call[t].data \in Pipe!Strings(1)
    BY <1>2 DEF MemoryWrite, IInv, ClosedIsEmpty
  <2>2. <<>> \in Pipe!Strings(1)
    BY DEF Pipe!Strings
  <2>3. Response(call[t].data) \in Pipe!Strings(1)
    BY <2>1, <2>2 DEF Response
  <2>4. memory'.enabled /\ memory'.tx_log = memory.tx_log \o call[t].data
          /\ memory'.rx_queue = memory.rx_queue \o Response(call[t].data)
    BY <1>1, <1>2 DEF MemoryWrite, MemoryStates
  <2> QED
    BY <1>2, <2>1, <2>3, <2>4 DEF MemoryWrite, Pipe!Write
<1>3. ASSUME MemoryRead(t)
      PROVE  Stutters \/ \E n \in 1..Len(memory.rx_queue) : Pipe!Read(n)
  <2>1. PICK n \in 0..Len(memory.rx_queue) : TakeRx(t, n)
    BY <1>1, <1>3, BoundAssumption DEF MemoryRead
  <2>2. call'[t].data = SubSeq(memory.rx_queue, 1, n)
    BY <2>1 DEF TakeRx, Idle, IInv, TypeOK
  <2>3. handed' = handed \o SubSeq(memory.rx_queue, 1, n) /\ UNCHANGED handle /\ memory.enabled
    BY <1>3, <2>2 DEF MemoryRead
  <2>4. memory' = [memory EXCEPT !.rx_queue = SubSeq(memory.rx_queue, n + 1, Len(memory.rx_queue))]
    BY <2>1 DEF TakeRx
  <2>5. memory'.enabled /\ memory'.rx_queue = SubSeq(memory.rx_queue, n + 1, Len(memory.rx_queue))
          /\ memory'.tx_log = memory.tx_log
    BY <1>1, <2>3, <2>4 DEF MemoryStates
  <2>6. CASE n = 0
    <3>1. SubSeq(memory.rx_queue, 1, 0) = <<>> /\ SubSeq(memory.rx_queue, 1, Len(memory.rx_queue)) = memory.rx_queue
      BY <1>1, SubSeqEmpty, SubSeqFull
    <3>2. memory' = memory
      BY <1>1, <2>4, <2>6, <3>1 DEF MemoryStates
    <3>3. handed' = handed
      BY <1>1, <2>3, <2>6, <3>1, ConcatEmptySeq
    <3> QED
      BY <2>3, <3>2, <3>3 DEF Stutters
  <2>7. CASE n # 0
    <3>1. Pipe!Read(n)
      BY <2>3, <2>5 DEF Pipe!Read
    <3> QED
      BY <2>1, <2>7, <3>1
  <2> QED
    BY <2>6, <2>7
<1> QED
  BY <1>2, <1>3

LEMMA OtherEndRefines ==
  ASSUME IInv, PushRx \/ TakeTx
  PROVE  Pipe!Take \/ \E d, r \in Pipe!Strings(1) : Pipe!Write(d, r)
<1>1. memory \in MemoryStates /\ memory.rx_queue \in Seq(Byte) /\ memory.tx_log \in Seq(Byte)
  BY DEF IInv, TypeOK, MemoryStates
<1>2. memory.enabled
  BY DEF PushRx, TakeTx, IInv, ClosedIsEmpty, IdleMemory
<1>3. ASSUME TakeTx PROVE Pipe!Take
  BY <1>1, <1>2, <1>3 DEF TakeTx, Pipe!Take, MemoryStates
<1>4. ASSUME PushRx PROVE \E d, r \in Pipe!Strings(1) : Pipe!Write(d, r)
  <2>1. PICK b \in Byte : memory' = [memory EXCEPT !.rx_queue = Append(memory.rx_queue, b)]
    BY <1>4 DEF PushRx
  <2>2. memory'.enabled /\ memory'.tx_log = memory.tx_log /\ memory'.rx_queue = Append(memory.rx_queue, b)
    BY <1>1, <1>2, <2>1 DEF MemoryStates
  <2>3. memory'.tx_log = memory.tx_log \o <<>> /\ memory'.rx_queue = memory.rx_queue \o <<b>>
    BY <1>1, <2>2, ConcatEmptySeq, AppendIsConcat
  <2>4. Pipe!Write(<<>>, <<b>>)
    BY <1>2, <1>4, <2>2, <2>3 DEF PushRx, Pipe!Write
  <2>5. <<>> \in Pipe!Strings(1) /\ <<b>> \in Pipe!Strings(1)
    BY DEF Pipe!Strings
  <2> QED
    BY <2>4, <2>5
<1> QED
  BY <1>3, <1>4

\* The POSIX, Win32 and memory ports implement the pipe of serial.hpp, whatever
\* the threads do at once and whichever call of the system fails.
THEOREM PortIsPipe == Spec => ImplementsPipe
<1>1. Init => Pipe!Init
  BY DEF Init, IdleMemory, Pipe!Init
<1>2. IInv /\ [Next]_vars => [Pipe!Next]_Pipe!vars
  <2> SUFFICES ASSUME IInv, [Next]_vars PROVE [Pipe!Next]_Pipe!vars
    OBVIOUS
  <2>1. CASE UNCHANGED vars
    BY <2>1, StutterRefines DEF vars, Stutters
  <2>2. ASSUME NEW t \in Threads,
               \/ Start(t) \/ Check(t) \/ SystemOpen(t) \/ Configure(t) \/ ConfigureFails(t)
               \/ CheckOpen(t) \/ MemoryRefuses(t) \/ SystemTransfer(t)
        PROVE  Stutters
    BY <2>2 DEF Stutters, Start, Begin, Check, SystemOpen, Configure, ConfigureFails,
                CheckOpen, MemoryRefuses, SystemTransfer
  <2>3. ASSUME NEW t \in Threads,
               Keep(t) \/ OpenMemory(t) \/ Close(t) \/ MemoryWrite(t) \/ MemoryRead(t)
        PROVE  Pipe!Next \/ Stutters
    BY <2>3, OpenRefines, CloseRefines, MemoryTransferRefines DEF Pipe!Next
  <2>4. ASSUME PushRx \/ TakeTx PROVE Pipe!Next
    BY <2>4, OtherEndRefines DEF Pipe!Next
  <2> QED
    BY <2>1, <2>2, <2>3, <2>4, StutterRefines DEF Next
<1> QED
  BY <1>1, <1>2, Invariant, PTL DEF Spec, ImplementsPipe, Pipe!Spec
=============================================================================
