------------------------------ MODULE BytePipe ------------------------------
(***************************************************************************)
(* What SerialPort promises: a port is closed, or open in one of two ways. *)
(* In memory it keeps what was written until it is taken, and hands out    *)
(* what was given to it once and in order; closing forgets both.           *)
(***************************************************************************)
EXTENDS Sequences, Naturals

CONSTANT Byte

VARIABLES mode, readable, handed, written

vars == <<mode, readable, handed, written>>

Init == mode = "closed" /\ readable = <<>> /\ handed = <<>> /\ written = <<>>

Open ==
  /\ mode = "closed" /\ mode' \in {"memory", "device"}
  /\ UNCHANGED <<readable, handed, written>>

Close == mode' = "closed" /\ readable' = <<>> /\ handed' = <<>> /\ written' = <<>>

\* The next three are calls on a port in memory.  Write is answered with r; the
\* other end giving r is a Write of nothing.
Write(d, r) ==
  /\ mode = "memory"
  /\ written' = written \o d /\ readable' = readable \o r
  /\ UNCHANGED <<mode, handed>>

Read(n) ==
  /\ mode = "memory"
  /\ handed' = handed \o SubSeq(readable, 1, n)
  /\ readable' = SubSeq(readable, n + 1, Len(readable))
  /\ UNCHANGED <<mode, written>>

Take == mode = "memory" /\ written' = <<>> /\ UNCHANGED <<mode, readable, handed>>

Strings(n) == UNION {[1..k -> Byte] : k \in 0..n}

Next ==
  \/ Open \/ Close \/ Take
  \/ \E d, r \in Strings(1) : Write(d, r)
  \/ \E n \in 1..Len(readable) : Read(n)

Spec == Init /\ [][Next]_vars
=============================================================================
