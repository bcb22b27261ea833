----------------------------- MODULE SerialPort -----------------------------
(***************************************************************************)
(* SerialPort over its three backends: a POSIX descriptor, a Win32 handle, *)
(* and the memory port.  A step is one check, one system call, or one      *)
(* function of serial_memory.hpp, which runs under the memory's mutex.     *)
(*                                                                         *)
(* One thread opens and closes the port; any thread writes and reads, and  *)
(* feeds the memory port, while it does.                                   *)
(***************************************************************************)
EXTENDS Integers, FiniteSets, Sequences

CONSTANTS
  Threads, Owner,   \* the threads, and the one that opens and closes
  NoHandle,         \* -1, or INVALID_HANDLE_VALUE
  Handles,          \* handles the system gives out
  Byte,             \* what is written and pushed
  MaxBytes          \* bound: bytes given to the port, and bytes in its log

ASSUME OwnerAssumption == Owner \in Threads /\ NoHandle \notin Handles
ASSUME BoundAssumption == MaxBytes \in Nat

VARIABLES
  platform,   \* the build: "posix" or "win32"
  handle,     \* impl_->fd, or impl_->handle
  memory,     \* impl_->memory: enabled, rx_queue, tx_log, responder
  open,       \* the system's: the handles this process has open
  call,       \* the call each thread is in, and the result of its last one
  handed      \* history: what reads returned since the port was last closed

vars == <<platform, handle, memory, open, call, handed>>

IdleMemory == [enabled |-> FALSE, rx_queue |-> <<>>, tx_log |-> <<>>, responder |-> "none"]

\* A call: what it does, its next step, its bytes and the handle it works with.
Idle(result) == [op |-> "none", at |-> 0, data |-> <<>>, handle |-> NoHandle, result |-> result]

Init ==
  /\ platform \in {"posix", "win32"}
  /\ handle = NoHandle /\ memory = IdleMemory /\ open = {} /\ handed = <<>>
  /\ call = [t \in Threads |-> Idle("Ok")]

\* is_open, which takes no lock.
IsOpen == memory.enabled \/ handle # NoHandle

-----------------------------------------------------------------------------
Begin(t, op, data) ==
  /\ call[t].op = "none"
  /\ call' = [call EXCEPT ![t] = [Idle("none") EXCEPT !.op = op, !.data = data]]
  /\ UNCHANGED <<platform, handle, memory, open, handed>>

In(t, op, at) == call[t].op = op /\ call[t].at = at
GoOn(t) == call' = [call EXCEPT ![t].at = @ + 1]
Return(t, result) == call' = [call EXCEPT ![t] = Idle(result)]

\* Bound, for PushRx and the calls to write that begin.
Room == Len(memory.rx_queue \o handed) < MaxBytes

\* Any call of the interface; a write of nothing is one too.
Start(t) ==
  \/ t = Owner /\ \E op \in {"open", "open_memory", "close"} : Begin(t, op, <<>>)
  \/ /\ Room /\ Len(memory.tx_log) < MaxBytes
     /\ \E d \in {<<>>} \union {<<b>> : b \in Byte} : Begin(t, "write", d)
  \/ Begin(t, "read", <<>>)

-----------------------------------------------------------------------------
(***************************************************************************)
(* open: the arguments are checked, the device is opened, and configured   *)
(* with a few system calls, each of which can fail; then the handle is     *)
(* kept.  POSIX refuses baud rates it has no constant for.                 *)
(***************************************************************************)
\* What the arguments can be refused with.
Refusals == {"InvalidArgument"} \union IF platform = "posix" THEN {"Unsupported"} ELSE {}

\* The system calls of the configuration that open checks.
ConfigSteps ==
  IF platform = "posix" THEN <<"tcgetattr", "tcsetattr">>
  ELSE <<"GetCommState", "SetCommState", "SetupComm", "SetCommTimeouts">>

Check(t) ==
  /\ In(t, "open", 0)
  /\ IF IsOpen THEN Return(t, "AlreadyOpen")
     ELSE GoOn(t) \/ \E code \in Refusals : Return(t, code)
  /\ UNCHANGED <<platform, handle, memory, open, handed>>

\* ::open or CreateFileA.
SystemOpen(t) ==
  /\ In(t, "open", 1)
  /\ \/ /\ \E h \in Handles \ open :
             /\ call' = [call EXCEPT ![t].at = 2, ![t].handle = h]
             /\ open' = open \union {h}
     \/ Return(t, "SystemError") /\ UNCHANGED open
  /\ UNCHANGED <<platform, handle, memory, handed>>

Configure(t) ==
  /\ call[t].op = "open" /\ call[t].at \in 2..(Len(ConfigSteps) + 1)
  /\ GoOn(t)
  /\ UNCHANGED <<platform, handle, memory, open, handed>>

\* Mutant: a failed step returns without closing what was opened.
GiveUpOpen(t) ==
  /\ call[t].op = "open" /\ call[t].at \in 2..(Len(ConfigSteps) + 1)
  /\ Return(t, "SystemError")
  /\ UNCHANGED <<platform, handle, memory, open, handed>>

\* A failed step closes what was opened.
ConfigureFails(t) ==
  /\ call[t].op = "open" /\ call[t].at \in 2..(Len(ConfigSteps) + 1)
  /\ open' = open \ {call[t].handle}
  /\ Return(t, "SystemError")
  /\ UNCHANGED <<platform, handle, memory, handed>>

Keep(t) ==
  /\ In(t, "open", Len(ConfigSteps) + 2)
  /\ handle' = call[t].handle
  /\ Return(t, "Ok")
  /\ UNCHANGED <<platform, memory, open, handed>>

\* open_memory: is_open without the mutex, then memory_enable.
OpenMemory(t) ==
  \/ /\ In(t, "open_memory", 0)
     /\ IF IsOpen THEN Return(t, "AlreadyOpen") ELSE GoOn(t)
     /\ UNCHANGED <<platform, handle, memory, open, handed>>
  \/ /\ In(t, "open_memory", 1)
     /\ \E r \in {"none", "echo"} :
          memory' = [IdleMemory EXCEPT !.enabled = TRUE, !.responder = r]
     /\ Return(t, "Ok")
     /\ UNCHANGED <<platform, handle, open, handed>>

\* close: the device first, if there is one, then the memory.
Close(t) ==
  \/ /\ In(t, "close", 0)
     /\ open' = open \ {handle} /\ handle' = NoHandle
     /\ GoOn(t)
     /\ UNCHANGED <<platform, memory, handed>>
  \/ /\ In(t, "close", 1)
     /\ memory' = IdleMemory /\ handed' = <<>>
     /\ Return(t, "Ok")
     /\ UNCHANGED <<platform, handle, open>>

-----------------------------------------------------------------------------
(***************************************************************************)
(* write and read: is_open, then the memory, which refuses when it is not  *)
(* enabled (any more), then the system, which may take or give less than   *)
(* asked for and may fail.                                                 *)
(***************************************************************************)
Transfers == {"write", "read"}

CheckOpen(t) ==
  /\ call[t].op \in Transfers /\ call[t].at = 0
  /\ IF ~IsOpen THEN Return(t, "NotOpen")
     ELSE IF call[t].op = "write" /\ call[t].data = <<>> THEN Return(t, "Ok")
     ELSE GoOn(t)
  /\ UNCHANGED <<platform, handle, memory, open, handed>>

\* The responder of the tests answers, or there is none.
Response(data) == IF memory.responder = "echo" THEN data ELSE <<>>

MemoryWrite(t) ==
  /\ In(t, "write", 1) /\ memory.enabled
  /\ memory' = [memory EXCEPT !.tx_log = @ \o call[t].data,
                              !.rx_queue = @ \o Response(call[t].data)]
  /\ Return(t, "Ok")
  /\ UNCHANGED <<platform, handle, open, handed>>

\* Mutant: what is read stays in the queue.
CopyRx(t, n) ==
  call' = [call EXCEPT ![t] = [Idle("Ok") EXCEPT !.data = SubSeq(memory.rx_queue, 1, n)]]
    /\ UNCHANGED memory

\* The oldest bytes, as many as there is room for, leave the queue.
TakeRx(t, n) ==
  /\ call' = [call EXCEPT ![t] = [Idle("Ok") EXCEPT !.data = SubSeq(memory.rx_queue, 1, n)]]
  /\ memory' = [memory EXCEPT !.rx_queue = SubSeq(@, n + 1, Len(@))]

MemoryRead(t) ==
  /\ In(t, "read", 1) /\ memory.enabled
  /\ \E size \in 1..MaxBytes :
       TakeRx(t, IF size < Len(memory.rx_queue) THEN size ELSE Len(memory.rx_queue))
  /\ handed' = handed \o call'[t].data
  /\ UNCHANGED <<platform, handle, open>>

\* The memory is not enabled, or not any more: on to the system, with the handle
\* there is.
MemoryRefuses(t) ==
  /\ call[t].op \in Transfers /\ call[t].at = 1 /\ ~memory.enabled
  /\ call' = [call EXCEPT ![t].at = 2, ![t].handle = handle]
  /\ UNCHANGED <<platform, handle, memory, open, handed>>

\* The system call is made with the handle found; it fails when that is none.
SystemTransfer(t) ==
  /\ call[t].op \in Transfers /\ call[t].at = 2
  /\ \/ call[t].handle # NoHandle /\ Return(t, "Ok")
     \/ Return(t, "SystemError")
  /\ UNCHANGED <<platform, handle, memory, open, handed>>

\* memory_push_rx and memory_take_tx: one locked step.
PushRx ==
  /\ memory.enabled /\ Room
  /\ \E b \in Byte : memory' = [memory EXCEPT !.rx_queue = Append(@, b)]
  /\ UNCHANGED <<platform, handle, open, call, handed>>

TakeTx ==
  /\ memory.tx_log # <<>>
  /\ memory' = [memory EXCEPT !.tx_log = <<>>]
  /\ UNCHANGED <<platform, handle, open, call, handed>>

Next ==
  \/ \E t \in Threads :
       \/ Start(t) \/ Check(t) \/ SystemOpen(t) \/ Configure(t) \/ ConfigureFails(t) \/ Keep(t)
       \/ OpenMemory(t) \/ Close(t)
       \/ CheckOpen(t) \/ MemoryWrite(t) \/ MemoryRead(t) \/ MemoryRefuses(t) \/ SystemTransfer(t)
  \/ PushRx \/ TakeTx

Spec == Init /\ [][Next]_vars

-----------------------------------------------------------------------------
(***************************************************************************)
(* What the process has open is what a port holds: the handle it keeps,    *)
(* and the one an open call has not kept or given back yet.  Whatever      *)
(* fails in open, and at whatever step, leaks no handle.                   *)
(***************************************************************************)
Holding == {call[t].handle : t \in {u \in Threads : call[u].op = "open"}}

HandlesOwned == open = ({handle} \union Holding) \ {NoHandle}

(***************************************************************************)
(* The three backends implement the pipe that serial.hpp describes.  In    *)
(* memory, every byte pushed or answered is read once, in order, whichever *)
(* threads read; a write is logged whole or not at all when the port is    *)
(* closed under it; and a port opened after a close finds nothing of what  *)
(* was before, even if a call of the earlier session is still under way.   *)
(***************************************************************************)
Pipe == INSTANCE BytePipe WITH
  mode <- IF memory.enabled THEN "memory" ELSE IF handle # NoHandle THEN "device" ELSE "closed",
  readable <- memory.rx_queue, written <- memory.tx_log

ImplementsPipe == Pipe!Spec
=============================================================================
