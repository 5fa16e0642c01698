--------------------------- MODULE CallbackTimer ---------------------------
(***************************************************************************)
(* The callback timers of Contiki, sys/ctimer.c, and their users.  Each    *)
(* struct ctimer contains an etimer, set on behalf of ctimer_process; its  *)
(* PROCESS_EVENT_TIMER waits in the event queue until ctimer_process is    *)
(* called, and by then the timer may have been stopped or set anew.        *)
(*                                                                         *)
(* The etimers are taken at the word of TimerService, which EventTimer     *)
(* implements.  Time passes between any two steps.  main calls ctimer_init *)
(* before anything sets a ctimer, so that initialized is always 1 here.    *)
(***************************************************************************)
EXTENDS Naturals, Sequences

CONSTANTS
    CTimer,          \* the struct ctimer objects
    User,            \* the processes that set them
    ctimer_process,
    None,
    Capacity         \* places in the event queue

ASSUME NameAssumption ==
    /\ ctimer_process \notin User
    /\ None \notin User \cup {ctimer_process} \cup CTimer
    /\ Capacity \in Nat \ {0}

VARIABLES
    timer,           \* what TimerService says of the etimer of each ctimer
    client,
    mail,            \* the event queue: <<receiver, timer or None>>
    ctimer_list,
    p,               \* the process that set each ctimer
    process_current, \* None while the kernel is between two calls
    calling          \* the ctimer whose callback runs

etimers == <<timer, client, mail>>
vars == <<etimers, ctimer_list, p, process_current, calling>>

Process == User \cup {ctimer_process}

Etimer == INSTANCE TimerService WITH Timer <- CTimer

TypeOK ==
    /\ timer \in [CTimer -> {"idle", "armed", "due"}]
    /\ client \in [CTimer -> {ctimer_process, None}]
    /\ mail \in Seq(Process \X (CTimer \cup {None}))
    /\ Len(mail) <= Capacity
    /\ ctimer_list \in SUBSET CTimer
    /\ p \in [CTimer -> User \cup {None}]
    /\ process_current \in Process \cup {None}
    /\ calling \in CTimer \cup {None}

Init ==
    /\ Etimer!Init
    /\ ctimer_list = {}
    /\ p = [c \in CTimer |-> None]
    /\ process_current = None
    /\ calling = None

-----------------------------------------------------------------------------
(* The clock and the kernel. *)

elapse(S) ==
    /\ S # {}
    /\ Etimer!Elapse(S)
    /\ UNCHANGED <<ctimer_list, p, process_current, calling>>

fire(c) ==
    /\ process_current = None
    /\ Etimer!Fire(c)
    /\ UNCHANGED <<ctimer_list, p, process_current, calling>>

(* A user is called for an event of its own, or polled. *)
deliver(u) ==
    /\ process_current = None
    /\ mail # <<>> /\ Head(mail)[1] = u
    /\ Etimer!Receive
    /\ process_current' = u
    /\ UNCHANGED <<ctimer_list, p, calling>>

poll(u) ==
    /\ process_current = None
    /\ process_current' = u
    /\ UNCHANGED <<etimers, ctimer_list, p, calling>>

process_return ==
    /\ process_current # None
    /\ calling = None
    /\ process_current' = None
    /\ UNCHANGED <<etimers, ctimer_list, p, calling>>

(* An event that is no timer's, for some user. *)
post(u) ==
    /\ process_current \in User
    /\ Etimer!PostOther(u)
    /\ UNCHANGED <<ctimer_list, p, process_current, calling>>

-----------------------------------------------------------------------------
(* ctimer_process gets PROCESS_EVENT_TIMER: it looks the timer up on its   *)
(* list, and calls back as the process that set it.                        *)

(* Mutant of timer_event: the timer stays on the list.                     *)
timer_event_keeps(c) ==
    /\ process_current = None
    /\ mail # <<>> /\ Head(mail) = <<ctimer_process, c>>
    /\ c \in ctimer_list
    /\ Etimer!Receive
    /\ process_current' = p[c]
    /\ calling' = c
    /\ UNCHANGED <<ctimer_list, p>>

timer_event(c) ==
    /\ process_current = None
    /\ mail # <<>> /\ Head(mail) = <<ctimer_process, c>>
    /\ c \in ctimer_list
    /\ Etimer!Receive
    /\ ctimer_list' = ctimer_list \ {c}
    /\ process_current' = p[c]
    /\ calling' = c
    /\ UNCHANGED p

timer_event_unlisted(c) ==
    /\ process_current = None
    /\ mail # <<>> /\ Head(mail) = <<ctimer_process, c>>
    /\ c \notin ctimer_list
    /\ Etimer!Receive
    /\ process_current' = ctimer_process
    /\ UNCHANGED <<ctimer_list, p, calling>>

callback_return ==
    /\ calling # None
    /\ process_current' = ctimer_process
    /\ calling' = None
    /\ UNCHANGED <<etimers, ctimer_list, p>>

-----------------------------------------------------------------------------
(* What users call, from their handlers and from callbacks.  The etimer is *)
(* set as ctimer_process and the caller is process_current again after.    *)

(* Mutant of ctimer_set: the caller is read after the change of context.   *)
ctimer_set_late_p(c) ==
    /\ process_current \in User
    /\ p' = [p EXCEPT ![c] = ctimer_process]
    /\ Etimer!Arm(c, ctimer_process)
    /\ ctimer_list' = ctimer_list \cup {c}
    /\ UNCHANGED <<process_current, calling>>

ctimer_set(c) ==
    /\ process_current \in User
    /\ p' = [p EXCEPT ![c] = process_current]
    /\ Etimer!Arm(c, ctimer_process)
    /\ ctimer_list' = ctimer_list \cup {c}
    /\ UNCHANGED <<process_current, calling>>

(* ctimer_reset and ctimer_restart of a timer that was set before; they    *)
(* differ in the start of the interval only.                               *)
ctimer_restart(c) ==
    /\ process_current \in User
    /\ p[c] # None
    /\ Etimer!Arm(c, ctimer_process)
    /\ ctimer_list' = ctimer_list \cup {c}
    /\ UNCHANGED <<p, process_current, calling>>

(* Mutant of ctimer_stop: the timer stays on the list.                     *)
ctimer_stop_keeps(c) ==
    /\ process_current \in User
    /\ Etimer!Cancel({c})
    /\ UNCHANGED <<ctimer_list, p, process_current, calling>>

ctimer_stop(c) ==
    /\ process_current \in User
    /\ Etimer!Cancel({c})
    /\ ctimer_list' = ctimer_list \ {c}
    /\ UNCHANGED <<p, process_current, calling>>

-----------------------------------------------------------------------------
Deliver == \/ \E u \in User : deliver(u)
           \/ \E c \in CTimer : timer_event(c) \/ timer_event_unlisted(c)
Return  == process_return \/ callback_return

Call == \/ \E c \in CTimer : ctimer_set(c) \/ ctimer_restart(c) \/ ctimer_stop(c)
        \/ \E u \in User : post(u)

Next == \/ \E S \in SUBSET CTimer : elapse(S)
        \/ \E c \in CTimer : fire(c)
        \/ Deliver \/ Return
        \/ \E u \in User : poll(u)
        \/ Call

Spec == Init /\ [][Next]_vars

(* Handlers and callbacks return, each round of process_run delivers an    *)
(* event, time passes, and a due timer that finds room in the queue again  *)
(* and again is posted: OverdueIsAnswered of EventTimer, which needs the   *)
(* queue to be found empty now and then, as CallbackComes says.            *)
Fairness ==
    /\ WF_vars(Return) /\ SF_vars(Deliver)
    /\ \A c \in CTimer : WF_vars(elapse({c})) /\ SF_vars(fire(c))

LiveSpec == Spec /\ Fairness

-----------------------------------------------------------------------------
(***************************************************************************)
(* A callback that is to come is not forgotten: a ctimer on the list has   *)
(* its etimer running, or the event of its etimer waits for ctimer_process *)
(* although stale events of earlier settings are taken for it.             *)
(***************************************************************************)
InMail(c) == \E i \in DOMAIN mail : mail[i] = <<ctimer_process, c>>

NeverForgotten == \A c \in ctimer_list : timer[c] # "idle" \/ InMail(c)

Service == INSTANCE CallbackService WITH
    pending <- ctimer_list, user <- p,
    running <- IF calling = None THEN None ELSE <<calling, process_current>>

(***************************************************************************)
(* ctimer.c keeps the promise of CallbackService: one callback for each    *)
(* time a timer was set, none for a timer that was stopped even when its   *)
(* event is already in the queue, and each in the context of the process   *)
(* that set the timer.                                                     *)
(***************************************************************************)
IsCallbackService == Service!Spec

(***************************************************************************)
(* A timer that is not set again and again is called back or stopped, if   *)
(* the main loop finds the event queue empty again and again.              *)
(***************************************************************************)
CallbackComes ==
    []<>(process_current = None /\ mail = <<>>) =>
        \A c \in CTimer :
            \/ []<><<ctimer_set(c) \/ ctimer_restart(c)>>_vars
            \/ (c \in ctimer_list) ~> (c \notin ctimer_list)

(***************************************************************************)
(* ctimer.h:108, of ctimer_set: "This function is used to set a callback   *)
(* timer for a time sometime in the future. When the callback timer        *)
(* expires, the callback function f will be called".  When ctimer_process  *)
(* finds the timer of an event on its list, the etimer has expired.        *)
(***************************************************************************)
CallbackIsDue ==
    \A c \in ctimer_list :
        process_current = None /\ mail # <<>> /\ Head(mail) = <<ctimer_process, c>>
            => timer[c] = "idle"

=============================================================================
