-------------------------- MODULE CallbackService --------------------------
(***************************************************************************)
(* What callback timers promise, without timers, events and processes      *)
(* being scheduled: a callback runs only for a timer that was set and not  *)
(* stopped since, once for each time it was set, one callback at a time,   *)
(* and as if run by the process that set it.  CallbackTimer implements it. *)
(***************************************************************************)
EXTENDS Naturals

CONSTANTS CTimer, Process, None

VARIABLES
    pending,   \* the timers whose callback is to come
    user,      \* the process that set a timer last
    running    \* <<timer, process>>: the callback that runs and as whom

vars == <<pending, user, running>>

Init ==
    /\ pending = {}
    /\ user = [c \in CTimer |-> None]
    /\ running = None

Set(c, p) ==
    /\ pending' = pending \cup {c}
    /\ user' = [user EXCEPT ![c] = p]
    /\ UNCHANGED running

Again(c) ==
    /\ user[c] # None
    /\ pending' = pending \cup {c}
    /\ UNCHANGED <<user, running>>

Stop(c) ==
    /\ pending' = pending \ {c}
    /\ UNCHANGED <<user, running>>

Call(c) ==
    /\ running = None
    /\ c \in pending
    /\ pending' = pending \ {c}
    /\ running' = <<c, user[c]>>
    /\ UNCHANGED user

Return ==
    /\ running' = None
    /\ UNCHANGED <<pending, user>>

Next == \/ \E c \in CTimer : \/ \E p \in Process : Set(c, p)
                             \/ Again(c) \/ Stop(c) \/ Call(c)
        \/ Return

Spec == Init /\ [][Next]_vars

=============================================================================
