-------------------------- MODULE EventTimerProofs --------------------------
(***************************************************************************)
(* Proofs about the event timers for every set of timers and processes,    *)
(* every clock range and every set of intervals within the assumptions of  *)
(* EventTimer.                                                             *)
(***************************************************************************)
EXTENDS EventTimer, SequenceTheorems, TLAPS

-----------------------------------------------------------------------------
(* clock_time_t arithmetic, for instants of the clock. *)

LEMMA PlusMinusType ==
    ASSUME NEW a \in Time, NEW b \in Time
    PROVE  Plus(a, b) \in Time /\ Minus(a, b) \in Time
BY ClockAssumption DEF Time, Plus, Minus

(* An interval, or the zero of a timer that was never set, is an instant   *)
(* that leaves MaxLate ticks before the clock goes round.                  *)
LEMMA IntervalBound ==
    ASSUME NEW i \in Interval \cup {0}
    PROVE  i \in Nat /\ i \in Time /\ i + MaxLate + 1 < CLOCK
BY IntervalAssumption, ClockAssumption DEF Time

(* After a tick every instant lies one tick further back ... *)
LEMMA TickElapsed ==
    ASSUME NEW c \in Time, NEW s \in Time, Minus(c, s) + 1 < CLOCK
    PROVE  Minus(Plus(c, 1), s) = Minus(c, s) + 1
BY ClockAssumption DEF Time, Plus, Minus

(* ... and every instant that is not now is one tick nearer. *)
LEMMA TickDistance ==
    ASSUME NEW c \in Time, NEW d \in Time, 0 < Minus(d, c)
    PROVE  Minus(d, Plus(c, 1)) = Minus(d, c) - 1
BY ClockAssumption DEF Time, Plus, Minus

(* The distance to a deadline that has not passed is what is left of the   *)
(* interval.                                                               *)
LEMMA DistanceIsLeft ==
    ASSUME NEW c \in Time, NEW s \in Time, NEW i \in Time, Minus(c, s) < i
    PROVE  Minus(Plus(s, i), c) = i - Minus(c, s)
BY ClockAssumption DEF Time, Plus, Minus

(* now + tdist lies tdist ahead of now. *)
LEMMA AheadOfNow ==
    ASSUME NEW c \in Time, NEW d \in Time
    PROVE  Minus(Plus(c, d), c) = d
BY ClockAssumption DEF Time, Plus, Minus

(* timer_reset moves the start forward by the interval. *)
LEMMA ResetElapsed ==
    ASSUME NEW c \in Time, NEW s \in Time, NEW i \in Time, i <= Minus(c, s)
    PROVE  Minus(c, Plus(s, i)) = Minus(c, s) - i
BY ClockAssumption DEF Time, Plus, Minus

-----------------------------------------------------------------------------
(* Types, roles and owners. *)

Base == TypeOK /\ Roles /\ ListedOwnersAlive

LEMMA InitBase == Init => Base
<1> SUFFICES ASSUME Init PROVE Base
  OBVIOUS
<1>1. 0 \in Time
  BY ClockAssumption DEF Time
<1>2. queue \in Seq(Process \X (Timer \cup {None})) /\ Len(queue) <= NUMEVENTS
  BY EmptySeq, NameAssumption DEF Init
<1> QED
  BY <1>1, <1>2, NameAssumption
     DEF Init, Base, TypeOK, Roles, ListedOwnersAlive, Place

(* The queue after a post with room and after a delivery. *)
LEMMA QueueGrows ==
    ASSUME TypeOK, Len(queue) < NUMEVENTS,
           NEW p \in Process, NEW t \in Timer \cup {None}
    PROVE  /\ Append(queue, <<p, t>>) \in Seq(Process \X (Timer \cup {None}))
           /\ Len(Append(queue, <<p, t>>)) <= NUMEVENTS
<1>1. <<p, t>> \in Process \X (Timer \cup {None})
  OBVIOUS
<1>2. queue \in Seq(Process \X (Timer \cup {None}))
  BY DEF TypeOK
<1> QED BY <1>1, <1>2, AppendProperties, NameAssumption

LEMMA QueueShrinks ==
    ASSUME TypeOK, queue # <<>>
    PROVE  /\ Tail(queue) \in Seq(Process \X (Timer \cup {None}))
           /\ Len(Tail(queue)) <= NUMEVENTS
<1>1. queue \in Seq(Process \X (Timer \cup {None})) /\ Len(queue) <= NUMEVENTS
  BY DEF TypeOK
<1> QED BY <1>1, HeadTailProperties, LenProperties, NameAssumption

LEMMA NextBase == Base /\ [Next]_vars => Base'
<1> SUFFICES ASSUME Base, [Next]_vars PROVE Base'
  OBVIOUS
<1> USE DEF Base, TypeOK, Roles, ListedOwnersAlive, Place, timers, machine
<1>1. CASE clock_tick
  <2>1. 1 \in Time
    BY ClockAssumption DEF Time
  <2> QED BY <1>1, <2>1, PlusMinusType DEF clock_tick
<1>2. CASE process_run
  BY <1>2, NameAssumption DEF process_run
<1>3. CASE do_event
  <2>1. queue' \in Seq(Process \X (Timer \cup {None})) /\ Len(queue') <= NUMEVENTS
    BY <1>3, QueueShrinks DEF do_event
  <2> QED BY <1>3, <2>1, NameAssumption DEF do_event
<1>4. CASE handler_return
  BY <1>4, NameAssumption DEF handler_return
<1>5. ASSUME NEW t \in Timer, etimer_post(t) PROVE Base'
  <2>1. owner[t] \in Process
    BY <1>5 DEF etimer_post
  <2>2. queue' \in Seq(Process \X (Timer \cup {None})) /\ Len(queue') <= NUMEVENTS
    BY <1>5, <2>1, QueueGrows DEF etimer_post
  <2> QED BY <1>5, <2>2 DEF etimer_post
<1>6. ASSUME NEW t \in Timer, etimer_queue_full(t) PROVE Base'
  BY <1>6 DEF etimer_queue_full
<1>7. ASSUME NEW t \in Timer, etimer_not_yet(t) PROVE Base'
  BY <1>7 DEF etimer_not_yet
<1>8. CASE etimer_scanned
  BY <1>8 DEF etimer_scanned
<1>9. CASE update_time_empty
  BY <1>9, ClockAssumption DEF update_time_empty, Return, Time
<1>10. CASE update_time_read
  <2>1. target' \in Time
    BY <1>10, PlusMinusType, IntervalBound DEF update_time_read, Distance, Deadline
  <2> QED BY <1>10, <2>1 DEF update_time_read
<1>11. CASE update_time_store
  BY <1>11, ClockAssumption DEF update_time_store, Return, Time
<1>12. CASE add_timer
  BY <1>12, NameAssumption DEF add_timer
<1>13. ASSUME NEW t \in Timer, NEW from \in Time, NEW i \in Interval \cup {0},
              StartTimer(t, from, i)
       PROVE  Base'
  BY <1>13, NameAssumption DEF StartTimer
<1>14. ASSUME NEW t \in Timer, NEW i \in Interval, etimer_set(t, i) PROVE Base'
  BY <1>13, <1>14 DEF etimer_set
<1>15. ASSUME NEW t \in Timer, etimer_restart(t) PROVE Base'
  BY <1>13, <1>15 DEF etimer_restart
<1>16. ASSUME NEW t \in Timer, etimer_reset(t) PROVE Base'
  <2>1. Plus(start[t], interval[t]) \in Time
    BY PlusMinusType, IntervalBound
  <2> QED BY <1>13, <1>16, <2>1 DEF etimer_reset
<1>17. ASSUME NEW t \in Timer, etimer_stop(t) PROVE Base'
  BY <1>17, NameAssumption DEF etimer_stop
<1>18. ASSUME NEW t \in Timer, NEW d \in Adjustment, etimer_adjust(t, d) PROVE Base'
  <2> DEFINE moved == IF d >= 0 THEN Plus(start[t], d) ELSE Minus(start[t], -d)
  <2>1. start' \in [Timer -> Time]
    <3>1. d \in Int /\ (d >= 0 => d \in Time) /\ (~(d >= 0) => -d \in Time)
      BY NameAssumption, ClockAssumption DEF Time
    <3>2. moved \in Time
      BY <3>1, PlusMinusType
    <3>3. start' = [start EXCEPT ![t] = moved]
      BY <1>18 DEF etimer_adjust
    <3> HIDE DEF moved
    <3> QED BY <3>2, <3>3
  <2> QED BY <1>18, <2>1, NameAssumption DEF etimer_adjust
<1>19. ASSUME NEW p \in Process, process_post(p) PROVE Base'
  <2>1. queue' \in Seq(Process \X (Timer \cup {None})) /\ Len(queue') <= NUMEVENTS
    BY <1>19, QueueGrows DEF process_post
  <2> QED BY <1>19, <2>1, NameAssumption DEF process_post
<1>20. CASE process_exit
  BY <1>20, NameAssumption DEF process_exit
<1>21. ASSUME NEW p \in Process, run_other(p) PROVE Base'
  BY <1>21, NameAssumption DEF run_other
<1>22. CASE UNCHANGED vars
  BY <1>22 DEF vars
<1> QED
  BY <1>1, <1>2, <1>3, <1>4, <1>5, <1>6, <1>7, <1>8, <1>9, <1>10, <1>11, <1>12,
     <1>14, <1>15, <1>16, <1>17, <1>18, <1>19, <1>20, <1>21, <1>22
     DEF Next, Main, Kernel, Scan, UpdateTime, Call

LEMMA BaseInvariant == Spec => []Base
BY InitBase, NextBase, PTL DEF Spec

(* The types of the event timers, however clients use them. *)
THEOREM TypeCorrect == Spec => []TypeOK
<1>1. Base => TypeOK
  BY DEF Base
<1> QED BY <1>1, BaseInvariant, PTL

(* A timer on the list belongs to a live process, although etimer_process  *)
(* is told of an exit only by the EXITED notice and leaves p as it is:     *)
(* add_timer's shortcut for p = PROCESS_NONE never links a timer twice.    *)
THEOREM OwnersStayAlive == Spec => []ListedOwnersAlive
<1>1. Base => ListedOwnersAlive
  BY DEF Base
<1> QED BY <1>1, BaseInvariant, PTL

-----------------------------------------------------------------------------
(* No expiry is lost. *)

Idle == {"run", "scan", "event", "handler"}

LEMMA InitIInv == Init => IInv
BY NameAssumption DEF Init, IInv, OnTime, InUse, ExactWhenIdle, OldStillServes, TargetIsExact,
       NoLostExpiry

(* The arithmetic types of a listed timer. *)
LEMMA VisibleTypes ==
    ASSUME TypeOK, NEW t \in timerlist
    PROVE  interval[t] \in Nat /\ Elapsed(t) \in Nat
<1>1. /\ t \in Timer /\ start[t] \in Time /\ clock \in Time
      /\ interval[t] \in Interval \cup {0}
  BY DEF TypeOK
<1>2. interval[t] \in Nat
  BY <1>1, IntervalBound
<1>3. Elapsed(t) \in Time
  BY <1>1, PlusMinusType DEF Elapsed
<1> QED BY <1>2, <1>3, ClockAssumption DEF Time

(* A timer in use is never so late that its elapsed time wraps, so that    *)
(* timer_expired says what it should.                                      *)
LEMMA ExpiredIsOverdue ==
    ASSUME TypeOK, OnTime, NEW t \in timerlist
    PROVE  /\ Elapsed(t) \in Time
           /\ Elapsed(t) + 1 < CLOCK
           /\ timer_expired(t) <=> Overdue(t)
<1>1. t \in Timer /\ t \in InUse /\ start[t] \in Time /\ clock \in Time
  BY DEF TypeOK, InUse
<1>2. Elapsed(t) \in Time
  BY <1>1, PlusMinusType DEF Elapsed
<1>3. interval[t] \in Nat /\ interval[t] + MaxLate + 1 < CLOCK
  BY <1>1, IntervalBound DEF TypeOK
<1>4. Elapsed(t) <= interval[t] + MaxLate
  BY <1>1 DEF OnTime
<1> QED
  BY <1>2, <1>3, <1>4, ClockAssumption DEF timer_expired, Overdue, Plus, Time

(* Steps that leave the clock, the timers and next_expiration alone and    *)
(* stay outside add_timer and update_time.                                 *)
LEMMA IdleStep ==
    ASSUME Base, IInv, pc \in Idle, pc' \in Idle,
           UNCHANGED <<clock, start, interval, timerlist, subject, next_expiration>>,
           AnyOverdue => Noticed'
    PROVE  IInv'
<1>1. OnTime'
  BY DEF IInv, OnTime, InUse, Elapsed
<1>2. AnyOverdue' <=> AnyOverdue
  BY DEF AnyOverdue, Overdue, Elapsed
<1>3. Earliest(next_expiration)' <=> Earliest(next_expiration)
  BY DEF Earliest, Left, Elapsed
<1>4. ExactWhenIdle'
  BY <1>2, <1>3 DEF IInv, ExactWhenIdle, Idle
<1>5. OldStillServes' /\ TargetIsExact'
  BY DEF OldStillServes, TargetIsExact, Idle
<1>6. NoLostExpiry'
  BY <1>2 DEF NoLostExpiry, AnyOverdue
<1> QED BY <1>1, <1>4, <1>5, <1>6 DEF IInv

(* The interrupt: if a tick makes the first timer overdue, it is the tick  *)
(* that reaches next_expiration, and the interrupt requests the poll.      *)
LEMMA TickStep ==
    ASSUME Base, Base', IInv, clock_tick
    PROVE  IInv'
<1> DEFINE now1 == Plus(clock, 1)
<1>1. /\ clock \in Time /\ clock' \in Time /\ clock' = Plus(clock, 1)
      /\ next_expiration \in Time /\ target \in Time
      /\ UNCHANGED <<start, interval, timerlist, next_expiration, subject, target, pc, visited>>
      /\ InUse' = InUse
      /\ timerlist \subseteq InUse /\ InUse \subseteq Timer
  BY DEF Base, TypeOK, clock_tick, timers, machine, InUse
<1>2. ASSUME NEW t \in InUse
      PROVE  /\ Elapsed(t)' = Elapsed(t) + 1
             /\ Left(t)' = Left(t) - 1
             /\ Elapsed(t) < interval[t] + MaxLate
             /\ Left(t) \in Int /\ Elapsed(t) \in Nat /\ interval[t] \in Nat
  <2>1. t \in Timer /\ start[t] \in Time /\ interval[t] \in Interval \cup {0}
    BY <1>1, <1>2 DEF Base, TypeOK
  <2>2. Elapsed(t) < interval[t] + MaxLate
    BY <1>2 DEF clock_tick
  <2>3. Elapsed(t) \in Time /\ interval[t] \in Nat /\ interval[t] + MaxLate + 1 < CLOCK
    BY <1>1, <2>1, PlusMinusType, IntervalBound DEF Elapsed
  <2>4. Elapsed(t)' = Elapsed(t) + 1
    BY <1>1, <2>1, <2>2, <2>3, TickElapsed, ClockAssumption DEF Elapsed, Time
  <2> QED BY <1>1, <2>2, <2>3, <2>4 DEF Left, Time
<1>3. ASSUME NEW x \in Time, 0 < Minus(x, clock)
      PROVE  Minus(x, clock') = Minus(x, clock) - 1 /\ Minus(x, clock) \in Nat
  <2>1. Minus(x, clock) \in Nat
    BY <1>1, PlusMinusType DEF Time
  <2> QED BY <1>1, <1>3, <2>1, TickDistance
<1>4. OnTime'
  BY <1>1, <1>2, ClockAssumption DEF OnTime
<1>5. AnyOverdue => AnyOverdue'
  BY <1>1, <1>2 DEF AnyOverdue, Overdue
<1>6. ASSUME NEW x \in Time, x' = x, Earliest(x), ~AnyOverdue'
      PROVE  Earliest(x)'
  <2>1. PICK v \in timerlist : /\ Minus(x, clock) = Left(v)
                               /\ \A u \in timerlist : Left(v) <= Left(u)
    BY <1>6 DEF Earliest
  <2>2. 0 < Left(v)
    BY <1>1, <1>2, <1>6, <2>1 DEF AnyOverdue, Overdue, Left
  <2>3. Minus(x, clock)' = Left(v)'
    BY <1>1, <1>2, <1>3, <1>6, <2>1, <2>2
  <2>4. \A u \in timerlist' : Left(v)' <= Left(u)'
    BY <1>1, <1>2, <2>1
  <2> QED BY <1>1, <2>3, <2>4 DEF Earliest
<1>7. ExactWhenIdle'
  BY <1>1, <1>5, <1>6 DEF IInv, ExactWhenIdle
<1>8. TargetIsExact'
  BY <1>1, <1>5, <1>6 DEF IInv, TargetIsExact
(* The tick that reaches next_expiration requests a poll. *)
<1>9. ASSUME timerlist # {}, Minus(next_expiration, clock) = 1
      PROVE  needspoll'
  <2>1. next_expiration = clock'
    BY <1>1, <1>9, ClockAssumption DEF Minus, Plus, Time
  <2>2. next_expiration <= clock'
    BY <1>1, <2>1 DEF Time
  <2>3. needspoll' = (needspoll \/ (timerlist # {} /\ next_expiration <= clock'))
    BY DEF clock_tick
  <2> QED BY <1>9, <2>2, <2>3, Zenon
<1>10. OldStillServes'
  <2> SUFFICES ASSUME pc \in {"now", "store"}, ~needspoll', NEW u \in timerlist
               PROVE  /\ 0 < Minus(next_expiration, clock')
                      /\ Minus(next_expiration, clock') <= Left(u)'
    BY <1>1 DEF OldStillServes
  <2>1. ~needspoll
    BY DEF clock_tick
  <2>2. 0 < Minus(next_expiration, clock) /\ Minus(next_expiration, clock) <= Left(u)
    BY <2>1 DEF IInv, OldStillServes
  <2>3. Minus(next_expiration, clock) # 1
    BY <1>9
  <2> QED BY <1>1, <1>2, <1>3, <2>2, <2>3
<1>11. NoLostExpiry'
  <2> SUFFICES ASSUME NEW t \in timerlist, Overdue(t)', ~Noticed' PROVE FALSE
    BY <1>1 DEF NoLostExpiry
  <2>1. ~AnyOverdue
    <3> SUFFICES ASSUME AnyOverdue PROVE FALSE
      OBVIOUS
    <3>1. Noticed
      BY DEF IInv, NoLostExpiry, AnyOverdue
    <3>2. \A u \in timerlist : Overdue(u) => Overdue(u)'
      BY <1>1, <1>2 DEF Overdue
    <3> QED BY <1>1, <3>1, <3>2 DEF Noticed, clock_tick
  <2>2. Left(t) = 1
    BY <1>1, <1>2, <2>1 DEF AnyOverdue, Overdue, Left
  <2>3. \A u \in timerlist : 1 <= Left(u)
    BY <1>1, <1>2, <2>1 DEF AnyOverdue, Overdue, Left
  <2>4. ~needspoll /\ ~needspoll' /\ pc \in {"run", "scan", "event", "handler", "now", "store"}
    BY <1>1 DEF Noticed, clock_tick, Base, TypeOK, Place
  <2>5. CASE pc \in {"now", "store"}
    <3>1. 0 < Minus(next_expiration, clock) /\ Minus(next_expiration, clock) <= 1
      BY <2>2, <2>4, <2>5 DEF IInv, OldStillServes
    <3>2. Minus(next_expiration, clock) \in Nat
      BY <1>1, PlusMinusType DEF Time
    <3> QED BY <1>9, <2>4, <3>1, <3>2
  <2>6. CASE pc \in {"run", "scan", "event", "handler"}
    <3>1. Earliest(next_expiration)
      BY <2>1, <2>6 DEF IInv, ExactWhenIdle
    <3>2. Minus(next_expiration, clock) = 1
      BY <1>1, <1>2, <2>2, <2>3, <3>1 DEF Earliest
    <3> QED BY <1>9, <2>4, <3>2
  <2> QED BY <2>4, <2>5, <2>6
<1> QED BY <1>4, <1>7, <1>8, <1>10, <1>11 DEF IInv

(* update_time reads the clock and takes the least distance: if no timer   *)
(* is overdue, that is the deadline that comes first.                      *)
LEMMA ReadStep ==
    ASSUME Base, Base', IInv, update_time_read
    PROVE  IInv'
<1>1. /\ UNCHANGED <<clock, start, interval, timerlist, next_expiration, needspoll, subject>>
      /\ (pc = "now" /\ pc' = "store") \/ (pc = "now2" /\ pc' = "store2")
      /\ timerlist # {}
  BY DEF update_time_read, timers
<1>2. /\ OnTime'
      /\ AnyOverdue' <=> AnyOverdue
      /\ \A u \in timerlist : Left(u)' = Left(u)
      /\ Earliest(target)' <=>
            \E v \in timerlist : /\ Minus(target', clock) = Left(v)
                                 /\ \A u \in timerlist : Left(v) <= Left(u)
  BY <1>1 DEF IInv, OnTime, InUse, AnyOverdue, Overdue, Earliest, Left, Elapsed
<1>3. ASSUME ~AnyOverdue, NEW t \in timerlist
      PROVE  Distance(t) = Left(t) /\ Distance(t) \in Time
  <2>1. t \in Timer /\ start[t] \in Time /\ interval[t] \in Time /\ clock \in Time
    BY IntervalBound DEF Base, TypeOK
  <2>2. Elapsed(t) \in Time
    BY <2>1, PlusMinusType DEF Elapsed
  <2>3. Elapsed(t) < interval[t]
    BY <1>3, <2>1, <2>2 DEF AnyOverdue, Overdue, Time
  <2>4. Distance(t) = Left(t)
    BY <2>1, <2>3, DistanceIsLeft DEF Distance, Deadline, Left, Elapsed
  <2>5. Distance(t) \in Time
    BY <2>1, PlusMinusType DEF Distance, Deadline
  <2> QED BY <2>4, <2>5
<1>4. AnyOverdue \/ Earliest(target)'
  <2> SUFFICES ASSUME ~AnyOverdue PROVE Earliest(target)'
    OBVIOUS
  <2>1. PICK v \in timerlist : /\ \A u \in timerlist : Distance(v) <= Distance(u)
                               /\ target' = Plus(clock, Distance(v))
    BY DEF update_time_read
  <2>2. Minus(target', clock) = Left(v)
    BY <1>3, <2>1, AheadOfNow DEF Base, TypeOK
  <2>3. \A u \in timerlist : Left(v) <= Left(u)
    BY <1>3, <2>1
  <2> QED BY <1>2, <2>2, <2>3
<1>5. TargetIsExact'
  BY <1>1, <1>2, <1>4 DEF TargetIsExact
<1>6. ExactWhenIdle'
  BY <1>1 DEF ExactWhenIdle
<1>7. OldStillServes'
  BY <1>1, <1>2 DEF IInv, OldStillServes
<1>8. NoLostExpiry'
  BY <1>1, <1>2 DEF IInv, NoLostExpiry, AnyOverdue, Noticed
<1> QED BY <1>2, <1>5, <1>6, <1>7, <1>8 DEF IInv

(* The store makes next_expiration exact; when the scan called update_time *)
(* it starts over.                                                         *)
LEMMA StoreStep ==
    ASSUME Base, Base', IInv, update_time_store
    PROVE  IInv'
<1>1. /\ UNCHANGED <<clock, start, interval, timerlist, needspoll, subject>>
      /\ next_expiration' = target
      /\ (pc = "store" /\ pc' = "run") \/ (pc = "store2" /\ pc' = "scan")
      /\ visited' = {}
  BY DEF update_time_store, timers, Return, Base, Roles
<1>2. /\ OnTime'
      /\ AnyOverdue' <=> AnyOverdue
      /\ Earliest(next_expiration)' <=> Earliest(target)
  BY <1>1 DEF IInv, OnTime, InUse, AnyOverdue, Overdue, Earliest, Left, Elapsed
<1>3. ExactWhenIdle'
  BY <1>1, <1>2 DEF IInv, TargetIsExact, ExactWhenIdle
<1>4. OldStillServes' /\ TargetIsExact'
  BY <1>1 DEF OldStillServes, TargetIsExact
<1>5. NoLostExpiry'
  BY <1>1, <1>2 DEF IInv, NoLostExpiry, AnyOverdue, Noticed
<1> QED BY <1>2, <1>3, <1>4, <1>5 DEF IInv

LEMMA EmptyStep ==
    ASSUME Base, Base', IInv, update_time_empty
    PROVE  IInv'
<1>1. /\ UNCHANGED <<clock, start, interval, timerlist, subject>>
      /\ timerlist = {}
      /\ pc' \in {"run", "scan"}
  BY DEF update_time_empty, timers, Return
<1> QED
  BY <1>1 DEF IInv, OnTime, InUse, Elapsed, ExactWhenIdle, OldStillServes,
              TargetIsExact, NoLostExpiry

(* A posted timer leaves the list and update_time is called from the scan. *)
LEMMA PostStep ==
    ASSUME Base, Base', IInv, NEW t \in Timer, etimer_post(t)
    PROVE  IInv'
<1>1. /\ UNCHANGED <<clock, start, interval, subject>>
      /\ timerlist' = timerlist \ {t}
      /\ pc' = "now2"
  BY DEF etimer_post
<1> QED
  BY <1>1 DEF IInv, OnTime, InUse, Elapsed, ExactWhenIdle, OldStillServes,
              TargetIsExact, NoLostExpiry, Noticed

(* timer_set, timer_restart, timer_reset: add_timer follows. *)
LEMMA StartStep ==
    ASSUME Base, Base', IInv, NEW t \in Timer, NEW from \in Time,
           NEW i \in Interval \cup {0},
           Minus(clock, from) <= i + MaxLate, StartTimer(t, from, i)
    PROVE  IInv'
<1>1. /\ UNCHANGED <<clock, timerlist>>
      /\ start' = [start EXCEPT ![t] = from]
      /\ interval' = [interval EXCEPT ![t] = i]
      /\ subject' = t
      /\ pc' = "add"
  BY DEF StartTimer
<1>2. ASSUME NEW u \in InUse' PROVE Elapsed(u)' <= interval'[u] + MaxLate
  <2>1. u \in Timer /\ start \in [Timer -> Time]
        /\ interval \in [Timer -> Interval \cup {0}]
    BY <1>1 DEF InUse, Base, TypeOK
  <2>2. CASE u = t
    BY <1>1, <2>1, <2>2 DEF Elapsed
  <2>3. CASE u # t
    <3>1. u \in InUse
      BY <1>1, <2>3 DEF InUse
    <3> QED BY <1>1, <2>1, <2>3, <3>1 DEF IInv, OnTime, Elapsed
  <2> QED BY <2>2, <2>3
<1>3. OnTime'
  BY <1>2 DEF OnTime
<1> QED
  BY <1>1, <1>3 DEF IInv, ExactWhenIdle, OldStillServes, TargetIsExact,
                    NoLostExpiry, Noticed

(* add_timer requests a poll before anything else. *)
LEMMA AddStep ==
    ASSUME Base, Base', IInv, add_timer
    PROVE  IInv'
<1>1. /\ UNCHANGED <<clock, start, interval>>
      /\ timerlist' = timerlist \cup {subject}
      /\ subject \in Timer /\ subject' = None
      /\ needspoll'
      /\ pc' = "now"
  BY DEF add_timer, Base, Roles, TypeOK
<1>2. InUse' = InUse
  BY <1>1, NameAssumption DEF InUse
<1>3. OnTime'
  BY <1>1, <1>2 DEF IInv, OnTime, Elapsed
<1> QED
  BY <1>1, <1>3 DEF IInv, ExactWhenIdle, OldStillServes, TargetIsExact,
                    NoLostExpiry, Noticed

(* A timer that is stopped may have been the first one, or the overdue one *)
(* for which a poll was requested.                                         *)
LEMMA StopStep ==
    ASSUME Base, Base', IInv, NEW t \in Timer, etimer_stop(t)
    PROVE  IInv'
<1>1. CASE t \notin timerlist
  <2>1. /\ pc \in Idle /\ pc' \in Idle
        /\ UNCHANGED <<clock, start, interval, timerlist, subject, next_expiration>>
        /\ needspoll' = needspoll
    BY <1>1 DEF etimer_stop, Idle
  <2>2. AnyOverdue => needspoll
    BY DEF etimer_stop, IInv, NoLostExpiry, AnyOverdue, Noticed
  <2> QED BY <2>1, <2>2, IdleStep DEF Noticed
<1>2. CASE t \in timerlist
  <2>1. /\ UNCHANGED <<clock, start, interval, subject, next_expiration, needspoll>>
        /\ timerlist' = timerlist \ {t}
        /\ pc = "handler" /\ pc' = "now"
    BY <1>2 DEF etimer_stop
  <2>2. AnyOverdue => needspoll
    BY <2>1 DEF IInv, NoLostExpiry, AnyOverdue, Noticed
  <2>3. ASSUME ~needspoll, NEW u \in timerlist
        PROVE  /\ 0 < Minus(next_expiration, clock)
               /\ Minus(next_expiration, clock) <= Left(u)
    <3>1. PICK v \in timerlist : /\ Minus(next_expiration, clock) = Left(v)
                                 /\ \A w \in timerlist : Left(v) <= Left(w)
      BY <2>1, <2>2, <2>3 DEF IInv, ExactWhenIdle, Earliest
    <3>2. ~Overdue(v)
      BY <2>2, <2>3 DEF AnyOverdue
    <3>3. interval[v] \in Nat /\ Elapsed(v) \in Nat
      BY VisibleTypes DEF Base
    <3> QED BY <3>1, <3>2, <3>3 DEF Overdue, Left
  <2>4. OnTime'
    BY <2>1 DEF IInv, OnTime, InUse, Elapsed
  <2>5. OldStillServes'
    BY <2>1, <2>3 DEF OldStillServes, Left, Elapsed
  <2>6. NoLostExpiry'
    BY <2>1, <2>2 DEF NoLostExpiry, AnyOverdue, Noticed, Overdue, Elapsed
  <2> QED BY <2>1, <2>4, <2>5, <2>6 DEF IInv, ExactWhenIdle, TargetIsExact
<1> QED BY <1>1, <1>2

LEMMA NextIInv ==
    ASSUME MayExit = {}, Adjustment = {}
    PROVE  Base /\ Base' /\ IInv /\ [Next]_vars => IInv'
<1> SUFFICES ASSUME Base, Base', IInv, [Next]_vars PROVE IInv'
  OBVIOUS
<1>1. CASE clock_tick
  BY <1>1, TickStep
<1>2. CASE process_run
  <2>1. /\ UNCHANGED <<clock, start, interval, timerlist, subject, next_expiration>>
        /\ pc \in Idle /\ pc' \in Idle
        /\ pc = "run" /\ visited' = {} /\ (needspoll => pc' = "scan")
    BY <1>2 DEF process_run, timers, Idle, Base, Roles
  <2>2. AnyOverdue => Noticed'
    BY <2>1 DEF IInv, NoLostExpiry, AnyOverdue, Noticed, Overdue, Elapsed
  <2> QED BY <2>1, <2>2, IdleStep
<1>3. CASE do_event \/ handler_return \/ \E p \in Process : process_post(p) \/ run_other(p)
  <2>1. /\ UNCHANGED <<clock, start, interval, timerlist, subject, next_expiration, needspoll>>
        /\ pc \in Idle \ {"scan"} /\ pc' \in Idle
    BY <1>3 DEF do_event, handler_return, process_post, run_other, timers, Idle
  <2>2. AnyOverdue => Noticed'
    BY <2>1 DEF IInv, NoLostExpiry, AnyOverdue, Noticed, Idle
  <2> QED BY <2>1, <2>2, IdleStep
<1>4. ASSUME NEW t \in Timer, etimer_post(t) PROVE IInv'
  BY <1>4, PostStep
<1>5. ASSUME NEW t \in Timer, etimer_queue_full(t) PROVE IInv'
  <2>1. /\ UNCHANGED <<clock, start, interval, timerlist, subject, next_expiration>>
        /\ pc \in Idle /\ pc' \in Idle
        /\ needspoll'
    BY <1>5 DEF etimer_queue_full, timers, Idle
  <2> QED BY <2>1, IdleStep DEF Noticed
<1>6. ASSUME NEW t \in Timer, etimer_not_yet(t) PROVE IInv'
  <2>1. /\ UNCHANGED <<clock, start, interval, timerlist, subject, next_expiration, needspoll>>
        /\ pc = "scan" /\ pc' = "scan" /\ pc \in Idle
        /\ visited' = visited \cup {t}
        /\ t \in timerlist /\ ~timer_expired(t)
    BY <1>6 DEF etimer_not_yet, timers, Idle
  <2>2. ~Overdue(t)
    BY <2>1, ExpiredIsOverdue DEF Base, IInv
  <2>3. AnyOverdue => Noticed'
    BY <2>1, <2>2 DEF IInv, NoLostExpiry, AnyOverdue, Noticed, Overdue, Elapsed
  <2> QED BY <2>1, <2>3, IdleStep
<1>7. CASE etimer_scanned
  <2>1. /\ UNCHANGED <<clock, start, interval, timerlist, subject, next_expiration, needspoll>>
        /\ pc = "scan" /\ pc \in Idle /\ pc' \in Idle
        /\ timerlist \subseteq visited
    BY <1>7 DEF etimer_scanned, timers, Idle
  <2>2. AnyOverdue => Noticed'
    BY <2>1 DEF IInv, NoLostExpiry, AnyOverdue, Noticed
  <2> QED BY <2>1, <2>2, IdleStep
<1>8. CASE update_time_empty
  BY <1>8, EmptyStep
<1>9. CASE update_time_read
  BY <1>9, ReadStep
<1>10. CASE update_time_store
  BY <1>10, StoreStep
<1>11. CASE add_timer
  BY <1>11, AddStep
<1>12. ASSUME NEW t \in Timer,
              (\E i \in Interval : etimer_set(t, i)) \/ etimer_restart(t)
       PROVE  IInv'
  <2>1. PICK i \in Interval \cup {0} : StartTimer(t, clock, i)
    BY <1>12 DEF etimer_set, etimer_restart, Base, TypeOK
  <2>2. clock \in Time /\ Minus(clock, clock) <= i + MaxLate
    BY IntervalBound, ClockAssumption DEF Base, TypeOK, Time, Minus
  <2> QED BY <2>1, <2>2, StartStep
<1>13. ASSUME NEW t \in Timer, etimer_reset(t) PROVE IInv'
  <2> DEFINE i == interval[t]
             from == Plus(start[t], i)
  <2>1. /\ clock \in Time /\ start[t] \in Time /\ i \in Interval \cup {0}
        /\ i \in Time /\ from \in Time /\ i \in Nat /\ MaxLate \in Nat
    BY IntervalBound, PlusMinusType, ClockAssumption DEF Base, TypeOK
  <2>2. /\ i <= Minus(clock, start[t])
        /\ Minus(clock, start[t]) <= i + MaxLate
        /\ StartTimer(t, from, i)
    BY <1>13 DEF etimer_reset, Overdue, Elapsed
  <2>3. Minus(clock, from) = Minus(clock, start[t]) - i
    BY <2>1, <2>2, ResetElapsed
  <2>4. Minus(clock, start[t]) \in Nat
    <3>1. Minus(clock, start[t]) \in Time
      BY <2>1, PlusMinusType
    <3> QED BY <3>1, ClockAssumption DEF Time
  <2>5. Minus(clock, from) <= i + MaxLate
    BY <2>1, <2>2, <2>3, <2>4
  <2> QED BY <2>1, <2>2, <2>5, StartStep
<1>14. ASSUME NEW t \in Timer, etimer_stop(t) PROVE IInv'
  BY <1>14, StopStep
<1>15. CASE UNCHANGED vars
  BY <1>15 DEF vars, timers, machine, IInv, OnTime, InUse, ExactWhenIdle,
     OldStillServes, TargetIsExact, NoLostExpiry, Noticed, AnyOverdue, Earliest,
     Overdue, Left, Elapsed
<1>16. ~process_exit /\ ~\E t \in Timer, d \in Adjustment : etimer_adjust(t, d)
  BY DEF process_exit
<1> QED
  BY <1>1, <1>2, <1>3, <1>4, <1>5, <1>6, <1>7, <1>8, <1>9, <1>10, <1>11,
     <1>12, <1>13, <1>14, <1>15, <1>16
     DEF Next, Main, Kernel, Scan, UpdateTime, Call

(* No expiry is lost, for every number of timers and every range of the    *)
(* clock, wherever the clock wraps and the interrupt comes: as long as no  *)
(* process that owns timers exits and etimer_adjust is not used.           *)
THEOREM ExpiryIsNotLost ==
    ASSUME MayExit = {}, Adjustment = {}
    PROVE  Spec => []NoLostExpiry
<1>1. Init => IInv
  BY InitIInv
<1>2. Base /\ Base' /\ IInv /\ [Next]_vars => IInv'
  BY NextIInv
<1>3. IInv => NoLostExpiry
  BY DEF IInv
<1> QED BY <1>1, <1>2, <1>3, BaseInvariant, PTL DEF Spec

-----------------------------------------------------------------------------
(* The event timers implement TimerService. *)

(* Nothing a client can see changes. *)
LEMMA Unseen ==
    ASSUME UNCHANGED <<clock, start, interval, owner, timerlist, queue>>
    PROVE  UNCHANGED Service!vars
BY DEF Service!vars, Status, Client, Due, Overdue, Elapsed

(* A tick makes timers due, and never the other way: the clock waits for a *)
(* timer before its elapsed time wraps.                                    *)
LEMMA TickElapses ==
    ASSUME TypeOK, TypeOK', clock_tick
    PROVE  \E S \in SUBSET Timer : Service!Elapse(S)
<1>1. UNCHANGED <<start, interval, owner, timerlist, queue>> /\ clock' = Plus(clock, 1)
  BY DEF clock_tick, timers
<1>2. ASSUME NEW t \in Due PROVE t \in Due'
  <2>1. /\ t \in Timer /\ start[t] \in Time /\ clock \in Time /\ t \in timerlist
        /\ interval[t] \in Nat /\ interval[t] + MaxLate + 1 < CLOCK
    BY IntervalBound DEF TypeOK, Due
  <2>2. Elapsed(t) < interval[t] + MaxLate
    BY <2>1 DEF clock_tick, InUse
  <2>3. Elapsed(t) \in Time
    BY <2>1, PlusMinusType DEF Elapsed
  <2>4. Elapsed(t)' = Elapsed(t) + 1
    BY <1>1, <2>1, <2>2, <2>3, TickElapsed, ClockAssumption DEF Elapsed, Time
  <2>5. interval[t] <= Elapsed(t)
    BY DEF Due, Overdue
  <2> QED BY <1>1, <2>1, <2>3, <2>4, <2>5, ClockAssumption DEF Due, Overdue, Time
<1> DEFINE S == Due' \ Due
<1>3. S \in SUBSET Timer /\ S \subseteq timerlist
  BY <1>1 DEF TypeOK, Due
<1>4. \A t \in S : Status[t] = "armed"
  BY <1>3 DEF Status
<1>5. Status' = [t \in Timer |-> IF t \in S THEN "due" ELSE Status[t]]
  BY <1>1, <1>2, <1>3 DEF Status
<1>6. Client' = Client /\ queue' = queue
  BY <1>1 DEF Client
<1> HIDE DEF S
<1> QED BY <1>3, <1>4, <1>5, <1>6 DEF Service!Elapse

(* The scan posts only timers that are due. *)
LEMMA PostFires ==
    ASSUME TypeOK, NEW t \in Timer, etimer_post(t)
    PROVE  Service!Fire(t)
<1>1. /\ UNCHANGED <<clock, start, interval>>
      /\ timerlist' = timerlist \ {t} /\ t \in timerlist
      /\ owner' = [owner EXCEPT ![t] = None]
      /\ queue' = Append(queue, <<owner[t], t>>)
      /\ Len(queue) < NUMEVENTS
      /\ timer_expired(t)
  BY DEF etimer_post
<1>2. t \in Due
  <2>1. Elapsed(t) \in Time /\ interval[t] \in Nat
    BY IntervalBound, PlusMinusType DEF TypeOK, Elapsed
  <2>2. interval[t] <= Elapsed(t)
    BY <1>1, <2>1, ClockAssumption DEF timer_expired, Plus, Time
  <2> QED BY <1>1, <2>2 DEF Due, Overdue
<1>3. Due' = Due \ {t}
  BY <1>1 DEF Due, Overdue, Elapsed
<1>4. Status[t] = "due" /\ Client[t] = owner[t]
  BY <1>1, <1>2 DEF Status, Client
<1>5. Status' = [Status EXCEPT ![t] = "idle"]
  BY <1>1, <1>3 DEF Status
<1>6. Client' = [Client EXCEPT ![t] = None]
  BY <1>1 DEF Client, TypeOK
<1> QED BY <1>1, <1>4, <1>5, <1>6 DEF Service!Fire

(* Moving the start or the interval of a listed timer arms it anew, moving *)
(* those of an unlisted one is not seen.                                   *)
LEMMA RestartArms ==
    ASSUME Base, NEW t \in Timer,
           \A u \in Timer \ {t} : start'[u] = start[u] /\ interval'[u] = interval[u],
           UNCHANGED <<clock, owner, timerlist, queue>>
    PROVE  UNCHANGED Service!vars \/ \E p \in Process : Service!Arm(t, p)
<1>1. Due' \ {t} = Due \ {t} /\ Due' \subseteq timerlist /\ timerlist \subseteq Timer
  BY DEF Due, Overdue, Elapsed, Base, TypeOK
<1>2. Client' = Client
  BY DEF Client
<1>3. CASE t \notin timerlist
  <2>1. Status' = Status
    BY <1>1, <1>3 DEF Status, Due
  <2> QED BY <1>2, <2>1 DEF Service!vars
<1>4. CASE t \in timerlist
  <2>1. owner[t] \in Process /\ Client[t] = owner[t]
    BY <1>4 DEF Base, TypeOK, ListedOwnersAlive, Client
  <2>2. Status' = [Status EXCEPT ![t] = IF t \in Due' THEN "due" ELSE "armed"]
    BY <1>1, <1>4 DEF Status
  <2>3. Client' = [Client EXCEPT ![t] = owner[t]]
    BY <1>2, <2>1 DEF Client
  <2>4. \E s \in {"armed", "due"} : Status' = [Status EXCEPT ![t] = s]
    BY <2>2
  <2> QED BY <2>1, <2>3, <2>4 DEF Service!Arm
<1> QED BY <1>3, <1>4

LEMMA AddArms ==
    ASSUME Base, add_timer
    PROVE  \E t \in Timer, p \in Process : Service!Arm(t, p)
<1>1. /\ subject \in Timer /\ self \in Process
      /\ UNCHANGED <<clock, start, interval, queue>>
      /\ timerlist' = timerlist \cup {subject}
      /\ owner' = [owner EXCEPT ![subject] = self]
  BY DEF add_timer, Base, Roles, TypeOK
<1>2. Due' \ {subject} = Due \ {subject}
  BY <1>1 DEF Due, Overdue, Elapsed
<1>3. Status' = [Status EXCEPT ![subject] = IF subject \in Due' THEN "due" ELSE "armed"]
  BY <1>1, <1>2 DEF Status
<1>4. Client' = [Client EXCEPT ![subject] = self]
  BY <1>1 DEF Client, Base, TypeOK
<1>5. \E s \in {"armed", "due"} : Status' = [Status EXCEPT ![subject] = s]
  BY <1>3
<1> QED BY <1>1, <1>4, <1>5 DEF Service!Arm

(* Taking timers off the list without posting cancels them. *)
LEMMA UnlinkCancels ==
    ASSUME NEW S \in SUBSET Timer,
           timerlist' = timerlist \ S,
           \A t \in timerlist' : owner'[t] = owner[t],
           UNCHANGED <<clock, start, interval, queue>>
    PROVE  Service!Cancel(S)
<1>1. Due' = Due \ S
  BY DEF Due, Overdue, Elapsed
<1>2. Status' = [t \in Timer |-> IF t \in S THEN "idle" ELSE Status[t]]
  BY <1>1 DEF Status
<1>3. Client' = [t \in Timer |-> IF t \in S THEN None ELSE Client[t]]
  BY DEF Client
<1> QED BY <1>2, <1>3 DEF Service!Cancel

LEMMA QueueSteps ==
    ASSUME UNCHANGED <<clock, start, interval, owner, timerlist>>
    PROVE  Status' = Status /\ Client' = Client
BY DEF Status, Client, Due, Overdue, Elapsed

LEMMA StepIsServiceStep ==
    Base /\ Base' /\ [Next]_vars => [Service!Next]_(Service!vars)
<1> SUFFICES ASSUME Base, Base', [Next]_vars
             PROVE  Service!Next \/ UNCHANGED Service!vars
  OBVIOUS
<1> USE DEF Service!Next
<1>1. CASE clock_tick
  BY <1>1, TickElapses DEF Base
<1>2. ASSUME NEW t \in Timer, etimer_post(t) PROVE Service!Next
  BY <1>2, PostFires DEF Base
<1>3. CASE \/ process_run \/ handler_return \/ etimer_scanned \/ UpdateTime
           \/ UNCHANGED vars
           \/ \E t \in Timer : etimer_queue_full(t) \/ etimer_not_yet(t)
           \/ \E p \in Process : run_other(p)
  <2>1. UNCHANGED <<clock, start, interval, owner, timerlist, queue>>
    BY <1>3 DEF process_run, handler_return, etimer_scanned, UpdateTime,
       update_time_empty, update_time_read, update_time_store, vars, timers,
       etimer_queue_full, etimer_not_yet, run_other
  <2> QED BY <2>1, Unseen
<1>4. CASE do_event
  <2>1. Status' = Status /\ Client' = Client
    BY <1>4, QueueSteps DEF do_event, timers
  <2>2. (queue # <<>> /\ queue' = Tail(queue)) \/ queue' = queue
    BY <1>4 DEF do_event
  <2> QED BY <2>1, <2>2 DEF Service!Receive, Service!vars
<1>5. CASE add_timer
  BY <1>5, AddArms
<1>6. ASSUME NEW t \in Timer, NEW from, NEW i, StartTimer(t, from, i)
      PROVE  Service!Next \/ UNCHANGED Service!vars
  <2>1. /\ \A u \in Timer \ {t} : start'[u] = start[u] /\ interval'[u] = interval[u]
        /\ UNCHANGED <<clock, owner, timerlist, queue>>
    BY <1>6 DEF StartTimer, Base, TypeOK
  <2> QED BY <2>1, RestartArms
<1>7. ASSUME NEW t \in Timer,
             \/ \E i \in Interval : etimer_set(t, i)
             \/ etimer_restart(t) \/ etimer_reset(t)
      PROVE  Service!Next \/ UNCHANGED Service!vars
  BY <1>6, <1>7 DEF etimer_set, etimer_restart, etimer_reset
<1>8. ASSUME NEW t \in Timer, NEW d \in Adjustment, etimer_adjust(t, d)
      PROVE  Service!Next \/ UNCHANGED Service!vars
  <2>1. /\ \A u \in Timer \ {t} : start'[u] = start[u] /\ interval'[u] = interval[u]
        /\ UNCHANGED <<clock, owner, timerlist, queue>>
    BY <1>8 DEF etimer_adjust, Base, TypeOK
  <2> QED BY <2>1, RestartArms
<1>9. ASSUME NEW t \in Timer, etimer_stop(t) PROVE Service!Next
  <2>1. /\ {t} \in SUBSET Timer
        /\ timerlist' = timerlist \ {t}
        /\ \A u \in timerlist' : owner'[u] = owner[u]
        /\ UNCHANGED <<clock, start, interval, queue>>
    BY <1>9 DEF etimer_stop, Base, TypeOK
  <2> QED BY <2>1, UnlinkCancels
<1>10. CASE process_exit
  <2> DEFINE S == {t \in timerlist : owner[t] = self}
  <2>1. /\ S \in SUBSET Timer
        /\ timerlist' = timerlist \ S
        /\ \A u \in timerlist' : owner'[u] = owner[u]
        /\ UNCHANGED <<clock, start, interval, queue>>
    BY <1>10 DEF process_exit, Base, TypeOK
  <2> HIDE DEF S
  <2> QED BY <2>1, UnlinkCancels
<1>11. ASSUME NEW p \in Process, process_post(p) PROVE Service!Next
  <2>1. Status' = Status /\ Client' = Client
    BY <1>11, QueueSteps DEF process_post, timers
  <2> QED BY <1>11, <2>1 DEF process_post, Service!PostOther
<1> QED
  BY <1>1, <1>2, <1>3, <1>4, <1>5, <1>7, <1>8, <1>9, <1>10, <1>11
     DEF Next, Main, Kernel, Scan, Call

(* The event timers of Contiki implement TimerService, also when processes *)
(* exit and timers are adjusted: an event is posted only for a timer that  *)
(* is due, once per arming and to the process that armed it.               *)
THEOREM ImplementsTimerService == Spec => IsTimerService
<1>1. Init => Service!Init
  BY DEF Init, Service!Init, Status, Client, Due
<1>2. Base /\ Base' /\ [Next]_vars => [Service!Next]_(Service!vars)
  BY StepIsServiceStep
<1> QED BY <1>1, <1>2, BaseInvariant, PTL DEF Spec, IsTimerService, Service!Spec

=============================================================================
