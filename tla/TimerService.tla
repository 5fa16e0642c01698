--------------------------- MODULE TimerService ----------------------------
(***************************************************************************)
(* What the event timers promise their clients, without clocks, lists and  *)
(* polls.  A timer is idle, armed or due.  Only a due timer fires; it      *)
(* fires once per arming, by putting one event for the process that armed  *)
(* it last into the mail; a timer that was cancelled does not fire.        *)
(* EventTimer implements this.                                             *)
(***************************************************************************)
EXTENDS Naturals, Sequences

CONSTANTS Timer, Process, None, Capacity

VARIABLES
    timer,     \* "idle", "armed" or "due"
    client,    \* the process that armed it, None for an idle timer
    mail       \* the events on their way: <<receiver, timer or None>>

vars == <<timer, client, mail>>

Init ==
    /\ timer = [t \in Timer |-> "idle"]
    /\ client = [t \in Timer |-> None]
    /\ mail = <<>>

(* A timer is armed, or armed anew; a zero interval makes it due at once.  *)
Arm(t, p) ==
    /\ \E s \in {"armed", "due"} : timer' = [timer EXCEPT ![t] = s]
    /\ client' = [client EXCEPT ![t] = p]
    /\ UNCHANGED mail

Cancel(S) ==
    /\ timer' = [t \in Timer |-> IF t \in S THEN "idle" ELSE timer[t]]
    /\ client' = [t \in Timer |-> IF t \in S THEN None ELSE client[t]]
    /\ UNCHANGED mail

(* Time passes: armed timers become due. *)
Elapse(S) ==
    /\ \A t \in S : timer[t] = "armed"
    /\ timer' = [t \in Timer |-> IF t \in S THEN "due" ELSE timer[t]]
    /\ UNCHANGED <<client, mail>>

Fire(t) ==
    /\ timer[t] = "due"
    /\ Len(mail) < Capacity
    /\ mail' = Append(mail, <<client[t], t>>)
    /\ timer' = [timer EXCEPT ![t] = "idle"]
    /\ client' = [client EXCEPT ![t] = None]

PostOther(p) ==
    /\ Len(mail) < Capacity
    /\ mail' = Append(mail, <<p, None>>)
    /\ UNCHANGED <<timer, client>>

Receive ==
    /\ mail # <<>>
    /\ mail' = Tail(mail)
    /\ UNCHANGED <<timer, client>>

Next ==
    \/ \E t \in Timer : Fire(t) \/ \E p \in Process : Arm(t, p)
    \/ \E S \in SUBSET Timer : Cancel(S) \/ Elapse(S)
    \/ \E p \in Process : PostOther(p)
    \/ Receive

Spec == Init /\ [][Next]_vars

=============================================================================
