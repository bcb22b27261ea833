---------------------------- MODULE MCGsmModem ----------------------------
EXTENDS GsmModem

CONSTANTS t1, t2

Call(op, n) == [op |-> op, n |-> n]

ThreadPair == {t1, t2}
OneThread == {t1}
Symmetry == Permutations(Threads)

AtAndSend == {Call("at", 1), Call("send", 2)}
AtAndStatus == {Call("at", 1), Call("status", 1)}
AtAndDelete == {Call("at", 1), Call("delete", 1)}
InitCalls == {Call("open", 1), Call("init", 1), Call("at", 1)}
AllCalls == InitCalls \union {Call("send", 0), Call("send", 1), Call("list", 1),
                           Call("delete", 0), Call("delete", 1), Call("status", 1)}
SendAndStatus == {Call("send", 1), Call("status", 1)}
InitAndSend == InitCalls \union SendAndStatus
=============================================================================
