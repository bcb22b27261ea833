--------------------------- MODULE ReportChannel ---------------------------
(***************************************************************************)
(* What GsmModem promises about status reports, whatever the threads do,   *)
(* however the text is cut into reads and whatever is lost: each report    *)
(* is handed out at most once, and in the order the modem sent them.       *)
(***************************************************************************)
EXTENDS Integers, Sequences

VARIABLES
  produced,   \* reports sent so far: they are numbered 1, 2, ...
  pending,    \* those that may still be handed out
  delivered   \* those handed out

chan == <<produced, pending, delivered>>

Init == produced = 0 /\ pending = {} /\ delivered = <<>>

Emit ==
  /\ produced' = produced + 1
  /\ pending' = pending \union {produced + 1}
  /\ UNCHANGED delivered

Lose ==
  /\ pending' \in SUBSET pending
  /\ UNCHANGED <<produced, delivered>>

\* The oldest is handed out; others may be lost with it.
Take ==
  /\ \E oldest \in pending :
       /\ \A n \in pending : oldest <= n
       /\ delivered' = Append(delivered, oldest)
       /\ pending' \in SUBSET (pending \ {oldest})
  /\ UNCHANGED produced

Next == Emit \/ Lose \/ Take

Spec == Init /\ [][Next]_chan
=============================================================================
