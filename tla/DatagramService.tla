--------------------------- MODULE DatagramService ---------------------------
(***************************************************************************)
(* What IP expects of the adaptation layer below it: packets may be lost,  *)
(* but what arrives is a packet that was sent, whole and unmixed, at most  *)
(* once, and those of one sender arrive in the order they were sent in.    *)
(***************************************************************************)
EXTENDS Naturals

CONSTANT Senders

VARIABLES
    sent,      \* how many packets each sender has begun to send
    arrived    \* the number of the last one that arrived from it

vars == <<sent, arrived>>

Init == sent = [s \in Senders |-> 0] /\ arrived = [s \in Senders |-> 0]

Send(s) == sent' = [sent EXCEPT ![s] = @ + 1] /\ UNCHANGED arrived

Arrive(s) ==
    /\ \E k \in arrived[s] + 1 .. sent[s] : arrived' = [arrived EXCEPT ![s] = k]
    /\ UNCHANGED sent

Next == \E s \in Senders : Send(s) \/ Arrive(s)

Spec == Init /\ [][Next]_vars
=============================================================================
