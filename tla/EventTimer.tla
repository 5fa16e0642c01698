---------------------------- MODULE EventTimer -----------------------------
(***************************************************************************)
(* The event timers of Contiki: sys/etimer.c with the struct timer of      *)
(* sys/timer.c, the SysTick interrupt of MiddleWare/contiki/               *)
(* contiki_clock.c that wakes them, and as much of the process kernel as   *)
(* carries their events (ProcessKernel has the rest).                      *)
(*                                                                         *)
(* One thread runs everything but the interrupt.  Its place in the code is *)
(* pc; the interrupt (OS_CPU_SysTickHandler) may come between any two      *)
(* steps, and the steps are cut where the thread reads or writes what the  *)
(* interrupt shares with it: the clock, next_expiration, the list being    *)
(* empty or not, and the poll flag of the etimer process.                  *)
(*                                                                         *)
(* The timer list is a set: update_time takes a minimum over it and the    *)
(* scan of the etimer process may meet its members in any order.           *)
(***************************************************************************)
EXTENDS Integers, Sequences, FiniteSets

CONSTANTS
    Timer,         \* the struct etimer objects
    Process,       \* the processes that use them
    None,          \* PROCESS_NONE, and no timer
    CLOCK,         \* clock_time_t counts modulo CLOCK
    Interval,      \* the intervals timers are set to
    Adjustment,    \* the time differences etimer_adjust is called with
    NUMEVENTS,     \* places in the event queue
    MayExit,       \* the processes that may exit
    OtherEvents,   \* whether handlers also post events that are no timer's
    ClockMayWrap,  \* whether the clock may pass CLOCK - 1
    MaxLate        \* bound: ticks a listed timer may wait for its scan

ASSUME ClockAssumption ==
    /\ CLOCK \in Nat \ {0}
    /\ ClockMayWrap \in BOOLEAN
    /\ MaxLate \in Nat
    /\ MaxLate + 1 < CLOCK

(* No interval comes near the range of the clock, so that a timer that is  *)
(* served at most MaxLate ticks late has not seen the clock go round.      *)
ASSUME IntervalAssumption ==
    /\ Interval \subseteq Nat
    /\ \A i \in Interval : i + MaxLate + 1 < CLOCK

ASSUME NameAssumption ==
    /\ None \notin Process
    /\ None \notin Timer
    /\ MayExit \subseteq Process
    /\ NUMEVENTS \in Nat \ {0}
    /\ OtherEvents \in BOOLEAN
    /\ Adjustment \subseteq (1 - CLOCK) .. (CLOCK - 1)

VARIABLES
    clock,            \* current_clock
    start, interval,  \* struct timer of each etimer
    owner,            \* its p
    timerlist,        \* the timers on the list
    next_expiration,
    needspoll,        \* etimer_process.needspoll
    queue,            \* the event queue: <<receiver, timer or None>>
    alive,            \* the processes on the process list
    pc,               \* what the thread does next
    self,             \* process_current while a handler runs
    subject,          \* the timer add_timer is working on
    target,           \* now + tdist, computed and not yet stored
    visited           \* the timers the scan has passed over

timers  == <<start, interval, owner, timerlist>>
machine == <<pc, self, subject, target, visited>>
vars    == <<clock, timers, next_expiration, needspoll, queue, alive, machine>>

(* "add": add_timer is due; "now": update_time is due; "store": its last   *)
(* assignment is due.  The suffix 2 is update_time called from the scan.   *)
Place == {"run", "scan", "event", "handler", "add", "now", "store", "now2", "store2"}

Time == 0 .. (CLOCK - 1)

(* Mutant of Plus: the sum does not wrap. *)
Plus_no_wrap(a, b) == a + b

(* clock_time_t arithmetic, unsigned *)
Plus(a, b)  == IF a + b < CLOCK THEN a + b ELSE a + b - CLOCK
Minus(a, b) == IF b <= a THEN a - b ELSE a - b + CLOCK

Elapsed(t)  == Minus(clock, start[t])
Deadline(t) == Plus(start[t], interval[t])

(* Mutant of timer_expired: a timer expires one tick early. *)
timer_expired_early(t) == interval[t] <= Plus(Elapsed(t), 1)

(* timer_expired: interval < (elapsed + 1 as a clock_time_t) *)
timer_expired(t) == interval[t] < Plus(Elapsed(t), 1)

(* What timer_expired is meant to say. *)
Overdue(t) == interval[t] <= Elapsed(t)

TypeOK ==
    /\ clock \in Time
    /\ start \in [Timer -> Time]
    /\ interval \in [Timer -> Interval \cup {0}]
    /\ owner \in [Timer -> Process \cup {None}]
    /\ timerlist \in SUBSET Timer
    /\ next_expiration \in Time
    /\ needspoll \in BOOLEAN
    /\ queue \in Seq(Process \X (Timer \cup {None}))
    /\ Len(queue) <= NUMEVENTS
    /\ alive \in SUBSET Process
    /\ pc \in Place
    /\ self \in Process \cup {None}
    /\ subject \in Timer \cup {None}
    /\ target \in Time
    /\ visited \in SUBSET Timer

(* etimer_process has run its first statement and no timer was ever set;   *)
(* the fields of a timer that was never set are zero.                      *)
Init ==
    /\ clock = 0
    /\ start = [t \in Timer |-> 0]
    /\ interval = [t \in Timer |-> 0]
    /\ owner = [t \in Timer |-> None]
    /\ timerlist = {}
    /\ next_expiration = 0
    /\ needspoll = FALSE
    /\ queue = <<>>
    /\ alive = Process
    /\ pc = "run"
    /\ self = None
    /\ subject = None
    /\ target = 0
    /\ visited = {}

-----------------------------------------------------------------------------
(* The SysTick interrupt.  The comparison of OS_CPU_SysTickHandler is not  *)
(* modular.  Time stands still while some timer is MaxLate ticks overdue:  *)
(* the bound on how late the main loop comes round.                        *)

InUse == timerlist \cup {t \in Timer : t = subject}

(* Mutant of clock_tick: the interrupt compares with < instead of <=. *)
clock_tick_strict ==
    /\ ClockMayWrap \/ clock + 1 < CLOCK
    /\ \A t \in InUse : Elapsed(t) < interval[t] + MaxLate
    /\ clock' = Plus(clock, 1)
    /\ needspoll' = (needspoll \/ (timerlist # {} /\ next_expiration < clock'))
    /\ UNCHANGED <<timers, next_expiration, queue, alive, machine>>

clock_tick ==
    /\ ClockMayWrap \/ clock + 1 < CLOCK
    /\ \A t \in InUse : Elapsed(t) < interval[t] + MaxLate
    /\ clock' = Plus(clock, 1)
    /\ needspoll' = (needspoll \/ (timerlist # {} /\ next_expiration <= clock'))
    /\ UNCHANGED <<timers, next_expiration, queue, alive, machine>>

-----------------------------------------------------------------------------
(* The main loop of the kernel, as far as timers need it: process_run      *)
(* clears the poll flag before it calls the etimer process, then delivers  *)
(* at most one event; another process may run for another reason.          *)

process_run ==
    /\ pc = "run"
    /\ pc' = IF needspoll THEN "scan" ELSE "event"
    /\ needspoll' = FALSE
    /\ UNCHANGED <<clock, timers, next_expiration, queue, alive, self, subject, target, visited>>

do_event ==
    /\ pc = "event"
    /\ IF queue # <<>> /\ Head(queue)[1] \in alive
         THEN pc' = "handler" /\ self' = Head(queue)[1]
         ELSE pc' = "run" /\ UNCHANGED self
    /\ queue' = IF queue = <<>> THEN queue ELSE Tail(queue)
    /\ UNCHANGED <<clock, timers, next_expiration, needspoll, alive, subject, target, visited>>

run_other(p) ==
    /\ pc = "run"
    /\ p \in alive
    /\ pc' = "handler"
    /\ self' = p
    /\ UNCHANGED <<clock, timers, next_expiration, needspoll, queue, alive, subject, target, visited>>

-----------------------------------------------------------------------------
(* The scan of etimer_process, one list element at a time. *)

etimer_post(t) ==
    /\ pc = "scan"
    /\ t \in timerlist \ visited
    /\ timer_expired(t)
    /\ Len(queue) < NUMEVENTS
    /\ queue' = Append(queue, <<owner[t], t>>)
    /\ owner' = [owner EXCEPT ![t] = None]
    /\ timerlist' = timerlist \ {t}
    /\ visited' = {}
    /\ pc' = "now2"
    /\ UNCHANGED <<clock, start, interval, next_expiration, needspoll, alive, self, subject, target>>

(* Mutant of etimer_queue_full: no new poll is requested. *)
etimer_queue_full_no_poll(t) ==
    /\ pc = "scan"
    /\ t \in timerlist \ visited
    /\ timer_expired(t)
    /\ Len(queue) = NUMEVENTS
    /\ visited' = visited \cup {t}
    /\ UNCHANGED <<clock, timers, next_expiration, needspoll, queue, alive, pc, self, subject, target>>

etimer_queue_full(t) ==
    /\ pc = "scan"
    /\ t \in timerlist \ visited
    /\ timer_expired(t)
    /\ Len(queue) = NUMEVENTS
    /\ needspoll' = TRUE
    /\ visited' = visited \cup {t}
    /\ UNCHANGED <<clock, timers, next_expiration, queue, alive, pc, self, subject, target>>

etimer_not_yet(t) ==
    /\ pc = "scan"
    /\ t \in timerlist \ visited
    /\ ~timer_expired(t)
    /\ visited' = visited \cup {t}
    /\ UNCHANGED <<clock, timers, next_expiration, needspoll, queue, alive, pc, self, subject, target>>

(* Mutant of etimer_scanned: the poll flag is cleared after the scan. *)
etimer_scanned_clears_poll ==
    /\ pc = "scan"
    /\ timerlist \subseteq visited
    /\ visited' = {}
    /\ pc' = "event"
    /\ needspoll' = FALSE
    /\ UNCHANGED <<clock, timers, next_expiration, queue, alive, self, subject, target>>

etimer_scanned ==
    /\ pc = "scan"
    /\ timerlist \subseteq visited
    /\ visited' = {}
    /\ pc' = "event"
    /\ UNCHANGED <<clock, timers, next_expiration, needspoll, queue, alive, self, subject, target>>

-----------------------------------------------------------------------------
(* update_time: the clock is read, the least distance is taken, and the    *)
(* result is stored; the interrupt may come in between.                    *)

Distance(t) == Minus(Deadline(t), clock)
Return == IF pc \in {"now", "store"} THEN "run" ELSE "scan"

update_time_empty ==
    /\ pc \in {"now", "now2"}
    /\ timerlist = {}
    /\ next_expiration' = 0
    /\ pc' = Return
    /\ UNCHANGED <<clock, timers, needspoll, queue, alive, self, subject, target, visited>>

update_time_read ==
    /\ pc \in {"now", "now2"}
    /\ \E t \in timerlist :
        /\ \A u \in timerlist : Distance(t) <= Distance(u)
        /\ target' = Plus(clock, Distance(t))
    /\ pc' = IF pc = "now" THEN "store" ELSE "store2"
    /\ UNCHANGED <<clock, timers, next_expiration, needspoll, queue, alive, self, subject, visited>>

update_time_store ==
    /\ pc \in {"store", "store2"}
    /\ next_expiration' = target
    /\ target' = 0
    /\ pc' = Return
    /\ UNCHANGED <<clock, timers, needspoll, queue, alive, self, subject, visited>>

-----------------------------------------------------------------------------
(* What a handler calls.  A handler makes at most one call and returns:    *)
(* run_other gives it the next one without a scan in between.              *)

StartTimer(t, from, i) ==
    /\ pc = "handler"
    /\ start' = [start EXCEPT ![t] = from]
    /\ interval' = [interval EXCEPT ![t] = i]
    /\ subject' = t
    /\ pc' = "add"
    /\ UNCHANGED <<clock, owner, timerlist, next_expiration, needspoll, queue, alive, self, target, visited>>

etimer_set(t, i)  == StartTimer(t, clock, i)
etimer_restart(t) == StartTimer(t, clock, interval[t])

(* As its callers do, only after the timer expired, and no later than      *)
(* MaxLate ticks after.                                                    *)
etimer_reset(t) ==
    /\ t \notin timerlist
    /\ Overdue(t)
    /\ Elapsed(t) <= interval[t] + MaxLate
    /\ StartTimer(t, Plus(start[t], interval[t]), interval[t])

(* add_timer: a timer whose p is not PROCESS_NONE is looked for on the     *)
(* list, any other is linked without a look.                               *)
add_timer ==
    /\ pc = "add"
    /\ needspoll' = TRUE
    /\ owner' = [owner EXCEPT ![subject] = self]
    /\ timerlist' = timerlist \cup {subject}
    /\ subject' = None
    /\ self' = None
    /\ pc' = "now"
    /\ UNCHANGED <<clock, start, interval, next_expiration, queue, alive, target, visited>>

etimer_stop(t) ==
    /\ pc = "handler"
    /\ timerlist' = timerlist \ {t}
    /\ owner' = [owner EXCEPT ![t] = None]
    /\ self' = None
    /\ pc' = IF t \in timerlist THEN "now" ELSE "run"
    /\ UNCHANGED <<clock, start, interval, next_expiration, needspoll, queue, alive, subject, target, visited>>

etimer_adjust(t, timediff) ==
    /\ pc = "handler"
    /\ start' = [start EXCEPT ![t] = IF timediff >= 0 THEN Plus(@, timediff)
                                                      ELSE Minus(@, -timediff)]
    /\ self' = None
    /\ pc' = "now"
    /\ UNCHANGED <<clock, interval, owner, timerlist, next_expiration, needspoll, queue, alive, subject, target, visited>>

(* process_post of an event that is no timer's; a full queue refuses it.   *)
process_post(p) ==
    /\ OtherEvents
    /\ pc = "handler"
    /\ Len(queue) < NUMEVENTS
    /\ queue' = Append(queue, <<p, None>>)
    /\ self' = None
    /\ pc' = "run"
    /\ UNCHANGED <<clock, timers, next_expiration, needspoll, alive, subject, target, visited>>

(* Mutant of process_exit: etimer_process ignores the EXITED notice. *)
process_exit_unnoticed ==
    /\ pc = "handler"
    /\ self \in MayExit
    /\ alive' = alive \ {self}
    /\ self' = None
    /\ pc' = "run"
    /\ UNCHANGED <<clock, timers, next_expiration, needspoll, queue, subject, target, visited>>

(* The running process exits; etimer_process gets the EXITED notice and    *)
(* unlinks the timers of the process, leaving their p and next_expiration. *)
process_exit ==
    /\ pc = "handler"
    /\ self \in MayExit
    /\ alive' = alive \ {self}
    /\ timerlist' = {t \in timerlist : owner[t] # self}
    /\ self' = None
    /\ pc' = "run"
    /\ UNCHANGED <<clock, start, interval, owner, next_expiration, needspoll, queue, subject, target, visited>>

handler_return ==
    /\ pc = "handler"
    /\ self' = None
    /\ pc' = "run"
    /\ UNCHANGED <<clock, timers, next_expiration, needspoll, queue, alive, subject, target, visited>>

-----------------------------------------------------------------------------
Scan == (\E t \in Timer : etimer_post(t) \/ etimer_queue_full(t) \/ etimer_not_yet(t))
          \/ etimer_scanned
UpdateTime == update_time_empty \/ update_time_read \/ update_time_store

Call ==
    \/ \E t \in Timer :
        \/ \E i \in Interval : etimer_set(t, i)
        \/ etimer_restart(t) \/ etimer_reset(t) \/ etimer_stop(t)
        \/ \E d \in Adjustment : etimer_adjust(t, d)
    \/ \E p \in Process : process_post(p)
    \/ process_exit

Kernel == process_run \/ do_event \/ handler_return
Main == Kernel \/ Scan \/ UpdateTime \/ add_timer

Next == clock_tick \/ Main \/ Call \/ \E p \in Process : run_other(p)

Spec == Init /\ [][Next]_vars

-----------------------------------------------------------------------------
(* Fairness: the thread never stops, a handler returns, and the main loop  *)
(* comes round, now and then with nothing queued if that is ever the case. *)
Fairness == WF_vars(Main) /\ SF_vars(process_run) /\ SF_vars(process_run /\ queue = <<>>)

LiveSpec == Spec /\ Fairness

-----------------------------------------------------------------------------
(* Something is going to look at the list: the poll flag is set or about   *)
(* to be set by add_timer, or the scan is on and has not passed over every *)
(* overdue timer.                                                          *)
Noticed ==
    \/ needspoll
    \/ pc = "add"
    \/ pc \in {"now2", "store2"}
    \/ pc = "scan" /\ \E t \in timerlist \ visited : Overdue(t)

(***************************************************************************)
(* No expiry is lost: whenever a timer on the list is overdue, a scan of   *)
(* the list is pending, although the interrupt compares two clock values   *)
(* without regard to wrapping, update_time leaves overdue timers out of    *)
(* next_expiration, and the clock moves between its read and its store.    *)
(***************************************************************************)
NoLostExpiry == (\E t \in timerlist : Overdue(t)) => Noticed

(***************************************************************************)
(* A timer on the list belongs to a process that has not exited.  Its p is *)
(* then not PROCESS_NONE, which is why add_timer may link a timer without  *)
(* looking for it, and its event never goes to a process that is gone.     *)
(***************************************************************************)
ListedOwnersAlive == \A t \in timerlist : owner[t] \in alive

(* What a client can tell of a timer. *)
Due == {t \in timerlist : Overdue(t)}
Status == [t \in Timer |-> IF t \notin timerlist THEN "idle"
                           ELSE IF t \in Due THEN "due" ELSE "armed"]
Client == [t \in Timer |-> IF t \in timerlist THEN owner[t] ELSE None]

Service == INSTANCE TimerService WITH
    Capacity <- NUMEVENTS, timer <- Status, client <- Client, mail <- queue

(***************************************************************************)
(* The event timers keep the promise of TimerService: an event is posted   *)
(* only when the timer is due, once for each time it was set, and to the   *)
(* process that set it last; none is posted for a timer that was stopped.  *)
(***************************************************************************)
IsTimerService == Service!Spec

(***************************************************************************)
(* Every overdue timer is answered: if the main loop finds the event queue *)
(* empty again and again, a timer that is overdue leaves the list or is    *)
(* set anew, also when its event met a full queue (etimer_request_poll in  *)
(* the else branch of the scan).                                           *)
(***************************************************************************)
OverdueIsAnswered ==
    []<>(pc = "run" /\ queue = <<>>) =>
        \A t \in Timer : (t \in timerlist /\ Overdue(t)) ~> ~(t \in timerlist /\ Overdue(t))

-----------------------------------------------------------------------------
(* Who works on what: ListedOwnersAlive is inductive together with this. *)
Roles ==
    /\ pc = "add" <=> subject # None
    /\ pc \in {"handler", "add"} => self \in alive
    /\ pc # "scan" => visited = {}

(* The inductive strengthening of NoLostExpiry, for a system in which no   *)
(* owner of a timer exits and no timer is adjusted.                        *)

AnyOverdue == \E t \in timerlist : Overdue(t)
Left(t) == interval[t] - Elapsed(t)

(* x is the deadline that comes first, none having passed. *)
Earliest(x) ==
    \E v \in timerlist : /\ Minus(x, clock) = Left(v)
                         /\ \A u \in timerlist : Left(v) <= Left(u)

(* No timer in use is so late that the clock has gone round. *)
OnTime == \A t \in InUse : Elapsed(t) <= interval[t] + MaxLate

(* Outside add_timer and update_time, next_expiration is exact. *)
ExactWhenIdle ==
    pc \in {"run", "scan", "event", "handler"} /\ timerlist # {} =>
        AnyOverdue \/ Earliest(next_expiration)

(* While a call updates the time, the old next_expiration still serves, or *)
(* a poll is on its way.                                                   *)
OldStillServes ==
    pc \in {"now", "store"} =>
        \/ needspoll
        \/ \A u \in timerlist : /\ 0 < Minus(next_expiration, clock)
                                /\ Minus(next_expiration, clock) <= Left(u)

(* What update_time is about to store has not been overtaken unnoticed. *)
TargetIsExact ==
    pc \in {"store", "store2"} =>
        timerlist # {} /\ (AnyOverdue \/ Earliest(target))

IInv ==
    /\ OnTime
    /\ ExactWhenIdle
    /\ OldStillServes
    /\ TargetIsExact
    /\ NoLostExpiry

=============================================================================
