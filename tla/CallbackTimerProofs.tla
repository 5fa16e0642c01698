------------------------ MODULE CallbackTimerProofs ------------------------
(***************************************************************************)
(* Theorems about CallbackTimer, for any number of timers, users and       *)
(* places in the event queue: no callback is forgotten, and ctimer.c       *)
(* implements CallbackService.  The invariant says who runs: during a      *)
(* callback the user that set the timer, and only listed timers have one.  *)
(***************************************************************************)
EXTENDS CallbackTimer, SequenceTheorems, TLAPS

(* A listed timer was set by somebody, a callback runs as a user, and the  *)
(* etimers that run do so for ctimer_process.                              *)
Settled ==
    /\ \A c \in ctimer_list : p[c] \in User
    /\ \A c \in CTimer : timer[c] # "idle" => client[c] = ctimer_process
    /\ calling # None => process_current \in User

BaseInv == TypeOK /\ Settled

(* Taking the head of the queue leaves the events behind it in place.      *)
LEMMA TailKeeps ==
    ASSUME NEW E, NEW q \in Seq(E), q # <<>>, NEW e, e # Head(q),
           \E i \in DOMAIN q : q[i] = e
    PROVE  \E i \in DOMAIN Tail(q) : Tail(q)[i] = e
<1>1. PICK i \in 1 .. Len(q) : q[i] = e
  OBVIOUS
<1>2. i # 1
  BY <1>1
<1>3. i - 1 \in DOMAIN Tail(q) /\ Tail(q)[i - 1] = q[i]
  BY <1>2
<1> QED
  BY <1>1, <1>3

(* Appending to the queue leaves what waits in place.                      *)
LEMMA AppendKeeps ==
    ASSUME NEW E, NEW q \in Seq(E), NEW x \in E, NEW e,
           (\E i \in DOMAIN q : q[i] = e) \/ x = e
    PROVE  \E i \in DOMAIN Append(q, x) : Append(q, x)[i] = e
<1>1. CASE x = e
  <2>1. Len(q) + 1 \in DOMAIN Append(q, x) /\ Append(q, x)[Len(q) + 1] = x
    OBVIOUS
  <2> QED
    BY <1>1, <2>1
<1>2. CASE \E i \in DOMAIN q : q[i] = e
  <2>1. PICK i \in 1 .. Len(q) : q[i] = e
    BY <1>2
  <2>2. i \in DOMAIN Append(q, x) /\ Append(q, x)[i] = q[i]
    BY <2>1
  <2> QED
    BY <2>1, <2>2
<1> QED
  BY <1>1, <1>2

-----------------------------------------------------------------------------
(* The steps of TimerService keep the types of its variables.              *)
EtimerOK ==
    /\ timer \in [CTimer -> {"idle", "armed", "due"}]
    /\ client \in [CTimer -> {ctimer_process, None}]
    /\ mail \in Seq(Process \X (CTimer \cup {None}))
    /\ Len(mail) <= Capacity

LEMMA ElapseOK ==
    ASSUME EtimerOK, NEW S \in SUBSET CTimer, Etimer!Elapse(S)
    PROVE  EtimerOK'
BY DEF EtimerOK, Etimer!Elapse

LEMMA FireOK ==
    ASSUME EtimerOK, NEW c \in CTimer, Etimer!Fire(c), client[c] = ctimer_process
    PROVE  EtimerOK'
<1>1. <<client[c], c>> \in Process \X (CTimer \cup {None})
  BY DEF Process
<1>2. timer' \in [CTimer -> {"idle", "armed", "due"}] /\ client' \in [CTimer -> {ctimer_process, None}]
  BY DEF EtimerOK, Etimer!Fire
<1> QED
  BY <1>1, <1>2, NameAssumption DEF EtimerOK, Etimer!Fire

LEMMA ReceiveOK ==
    ASSUME EtimerOK, Etimer!Receive
    PROVE  EtimerOK'
<1>1. mail' \in Seq(Process \X (CTimer \cup {None})) /\ Len(mail') <= Capacity
  BY NameAssumption DEF EtimerOK, Etimer!Receive
<1> QED
  BY <1>1 DEF EtimerOK, Etimer!Receive

LEMMA PostOtherOK ==
    ASSUME EtimerOK, NEW u \in User, Etimer!PostOther(u)
    PROVE  EtimerOK'
<1>1. <<u, None>> \in Process \X (CTimer \cup {None})
  BY DEF Process
<1> QED
  BY <1>1, NameAssumption DEF EtimerOK, Etimer!PostOther

LEMMA ArmOK ==
    ASSUME EtimerOK, NEW c \in CTimer, Etimer!Arm(c, ctimer_process)
    PROVE  EtimerOK'
BY DEF EtimerOK, Etimer!Arm

LEMMA CancelOK ==
    ASSUME EtimerOK, NEW c \in CTimer, Etimer!Cancel({c})
    PROVE  EtimerOK'
BY DEF EtimerOK, Etimer!Cancel

-----------------------------------------------------------------------------
(* Every state is of the right type, and callbacks run as their users: the *)
(* invariant on which the other theorems rest.                             *)
LEMMA BaseInvariant == Spec => []BaseInv
<1>1. Init => BaseInv
  BY NameAssumption DEF Init, Etimer!Init, BaseInv, TypeOK, Settled, Process
<1>2. BaseInv /\ [Next]_vars => BaseInv'
  <2> SUFFICES ASSUME BaseInv, [Next]_vars PROVE BaseInv'
    OBVIOUS
  <2> USE NameAssumption
  <2>0. EtimerOK
    BY DEF BaseInv, TypeOK, EtimerOK
  <2>a. EtimerOK' /\ (TypeOK => /\ ctimer_list' \in SUBSET CTimer
                               /\ p' \in [CTimer -> User \cup {None}]
                               /\ process_current' \in Process \cup {None}
                               /\ calling' \in CTimer \cup {None})
          => TypeOK'
    BY DEF BaseInv, TypeOK, EtimerOK
  <2>1. ASSUME NEW S \in SUBSET CTimer, elapse(S) PROVE BaseInv'
    <3>1. EtimerOK'
      BY <2>0, <2>1, ElapseOK DEF elapse
    <3>2. TypeOK'
      BY <2>1, <2>a, <3>1 DEF elapse, BaseInv, TypeOK
    <3>3. Settled'
      BY <2>1 DEF elapse, Etimer!Elapse, BaseInv, TypeOK, Settled
    <3> QED
      BY <3>2, <3>3 DEF BaseInv
  <2>2. ASSUME NEW c \in CTimer, fire(c) PROVE BaseInv'
    <3>1. EtimerOK'
      BY <2>0, <2>2, FireOK DEF fire, Etimer!Fire, BaseInv, Settled
    <3>2. TypeOK'
      BY <2>2, <2>a, <3>1 DEF fire, BaseInv, TypeOK
    <3>3. Settled'
      BY <2>2 DEF fire, Etimer!Fire, BaseInv, TypeOK, Settled
    <3> QED
      BY <3>2, <3>3 DEF BaseInv
  <2>3. ASSUME NEW u \in User, deliver(u) PROVE BaseInv'
    <3>1. EtimerOK'
      BY <2>0, <2>3, ReceiveOK DEF deliver
    <3>2. TypeOK'
      BY <2>3, <2>a, <3>1 DEF deliver, BaseInv, TypeOK, Process
    <3>3. Settled'
      BY <2>3 DEF deliver, Etimer!Receive, BaseInv, TypeOK, Settled
    <3> QED
      BY <3>2, <3>3 DEF BaseInv
  <2>4. ASSUME NEW u \in User, poll(u) PROVE BaseInv'
    BY <2>4 DEF poll, BaseInv, TypeOK, Settled, Process, etimers
  <2>5. CASE process_return
    BY <2>5 DEF process_return, BaseInv, TypeOK, Settled, etimers
  <2>6. ASSUME NEW u \in User, post(u) PROVE BaseInv'
    <3>1. EtimerOK'
      BY <2>0, <2>6, PostOtherOK DEF post
    <3>2. TypeOK'
      BY <2>6, <2>a, <3>1 DEF post, BaseInv, TypeOK
    <3>3. Settled'
      BY <2>6 DEF post, Etimer!PostOther, BaseInv, TypeOK, Settled
    <3> QED
      BY <3>2, <3>3 DEF BaseInv
  <2>7. ASSUME NEW c \in CTimer, timer_event(c) PROVE BaseInv'
    <3>1. EtimerOK'
      BY <2>0, <2>7, ReceiveOK DEF timer_event
    <3>2. TypeOK'
      BY <2>7, <2>a, <3>1 DEF timer_event, BaseInv, TypeOK, Process
    <3>3. Settled'
      BY <2>7 DEF timer_event, Etimer!Receive, BaseInv, TypeOK, Settled
    <3> QED
      BY <3>2, <3>3 DEF BaseInv
  <2>8. ASSUME NEW c \in CTimer, timer_event_unlisted(c) PROVE BaseInv'
    <3>1. EtimerOK'
      BY <2>0, <2>8, ReceiveOK DEF timer_event_unlisted
    <3>2. TypeOK'
      BY <2>8, <2>a, <3>1 DEF timer_event_unlisted, BaseInv, TypeOK, Process
    <3>3. Settled'
      BY <2>8 DEF timer_event_unlisted, Etimer!Receive, BaseInv, TypeOK, Settled
    <3> QED
      BY <3>2, <3>3 DEF BaseInv
  <2>9. CASE callback_return
    BY <2>9 DEF callback_return, BaseInv, TypeOK, Settled, Process, etimers
  <2>10. ASSUME NEW c \in CTimer, ctimer_set(c) PROVE BaseInv'
    <3>1. EtimerOK'
      BY <2>0, <2>10, ArmOK DEF ctimer_set
    <3>2. TypeOK'
      BY <2>10, <2>a, <3>1 DEF ctimer_set, BaseInv, TypeOK
    <3>3. Settled'
      BY <2>10 DEF ctimer_set, Etimer!Arm, BaseInv, TypeOK, Settled
    <3> QED
      BY <3>2, <3>3 DEF BaseInv
  <2>11. ASSUME NEW c \in CTimer, ctimer_restart(c) PROVE BaseInv'
    <3>1. EtimerOK'
      BY <2>0, <2>11, ArmOK DEF ctimer_restart
    <3>2. TypeOK'
      BY <2>11, <2>a, <3>1 DEF ctimer_restart, BaseInv, TypeOK
    <3>3. Settled'
      BY <2>11 DEF ctimer_restart, Etimer!Arm, BaseInv, TypeOK, Settled
    <3> QED
      BY <3>2, <3>3 DEF BaseInv
  <2>12. ASSUME NEW c \in CTimer, ctimer_stop(c) PROVE BaseInv'
    <3>1. EtimerOK'
      BY <2>0, <2>12, CancelOK DEF ctimer_stop
    <3>2. TypeOK'
      BY <2>12, <2>a, <3>1 DEF ctimer_stop, BaseInv, TypeOK
    <3>3. Settled'
      BY <2>12 DEF ctimer_stop, Etimer!Cancel, BaseInv, TypeOK, Settled
    <3> QED
      BY <3>2, <3>3 DEF BaseInv
  <2>13. CASE UNCHANGED vars
    BY <2>13 DEF vars, etimers, BaseInv, TypeOK, Settled
  <2> QED
    BY <2>1, <2>2, <2>3, <2>4, <2>5, <2>6, <2>7, <2>8, <2>9, <2>10, <2>11, <2>12, <2>13
       DEF Next, Deliver, Return, Call
<1> QED
  BY <1>1, <1>2, PTL DEF Spec

(***************************************************************************)
(* The state of ctimer.c and of the event queue keeps its types; above all *)
(* the p of a ctimer is the process that set it, never ctimer_process.     *)
(***************************************************************************)
THEOREM TypeCorrect == Spec => []TypeOK
BY BaseInvariant, PTL DEF BaseInv

-----------------------------------------------------------------------------
(* An event that waits and is not taken still waits after a Receive.       *)
LEMMA StillInMail ==
    ASSUME EtimerOK, NEW c, InMail(c), Etimer!Receive, Head(mail) # <<ctimer_process, c>>
    PROVE  InMail(c)'
BY TailKeeps DEF EtimerOK, InMail, Etimer!Receive

(* An event that waits still waits after another one is appended.          *)
LEMMA AppendedInMail ==
    ASSUME EtimerOK, NEW c, NEW x \in Process \X (CTimer \cup {None}),
           mail' = Append(mail, x), InMail(c) \/ x = <<ctimer_process, c>>
    PROVE  InMail(c)'
<1> DEFINE E == Process \X (CTimer \cup {None})
           e == <<ctimer_process, c>>
<1>1. mail \in Seq(E) /\ x \in E
  BY DEF EtimerOK
<1>2. (\E i \in DOMAIN mail : mail[i] = e) \/ x = e
  BY DEF InMail
<1> HIDE DEF E, e
<1>3. \E i \in DOMAIN Append(mail, x) : Append(mail, x)[i] = e
  BY <1>1, <1>2, AppendKeeps
<1> QED
  BY <1>3 DEF InMail, e

(***************************************************************************)
(* A callback that is to come is not forgotten, for any number of timers   *)
(* and any queue.                                                          *)
(***************************************************************************)
THEOREM CallbacksAreNotForgotten == Spec => []NeverForgotten
<1>1. Init => NeverForgotten
  BY DEF Init, NeverForgotten
<1>2. BaseInv /\ NeverForgotten /\ [Next]_vars => NeverForgotten'
  <2> SUFFICES ASSUME BaseInv, NeverForgotten, [Next]_vars PROVE NeverForgotten'
    OBVIOUS
  <2> USE NameAssumption
  <2>0. EtimerOK /\ ctimer_list \in SUBSET CTimer
    BY DEF BaseInv, TypeOK, EtimerOK
  <2>1. ASSUME NEW S \in SUBSET CTimer, elapse(S) PROVE NeverForgotten'
    BY <2>0, <2>1 DEF elapse, Etimer!Elapse, NeverForgotten, InMail
  <2>2. ASSUME NEW c \in CTimer, fire(c) PROVE NeverForgotten'
    <3>1. mail' = Append(mail, <<ctimer_process, c>>)
      BY <2>2 DEF fire, Etimer!Fire, BaseInv, Settled
    <3>2. <<ctimer_process, c>> \in Process \X (CTimer \cup {None})
      BY DEF Process
    <3>3. ASSUME NEW d \in ctimer_list, d # c PROVE timer'[d] = timer[d]
      BY <2>0, <2>2, <3>3 DEF fire, Etimer!Fire, EtimerOK
    <3>4. ASSUME NEW d \in ctimer_list PROVE timer'[d] # "idle" \/ InMail(d)'
      <4>1. CASE d = c
        BY <2>0, <3>1, <3>2, <4>1, AppendedInMail
      <4>2. CASE d # c /\ InMail(d)
        BY <2>0, <3>1, <3>2, <4>2, AppendedInMail
      <4>3. CASE d # c /\ ~InMail(d)
        BY <3>3, <4>3 DEF NeverForgotten
      <4> QED
        BY <4>1, <4>2, <4>3
    <3> QED
      BY <2>2, <3>4 DEF fire, NeverForgotten
  <2>3. ASSUME NEW u \in User, deliver(u) PROVE NeverForgotten'
    <3>1. \A c : Head(mail) # <<ctimer_process, c>>
      BY <2>3 DEF deliver
    <3> QED
      BY <2>0, <2>3, <3>1, StillInMail DEF deliver, Etimer!Receive, NeverForgotten
  <2>4. ASSUME NEW u \in User, poll(u) PROVE NeverForgotten'
    BY <2>4 DEF poll, etimers, NeverForgotten, InMail
  <2>5. CASE process_return
    BY <2>5 DEF process_return, etimers, NeverForgotten, InMail
  <2>6. ASSUME NEW u \in User, post(u) PROVE NeverForgotten'
    <3>1. <<u, None>> \in Process \X (CTimer \cup {None})
      BY DEF Process
    <3>2. mail' = Append(mail, <<u, None>>) /\ timer' = timer /\ ctimer_list' = ctimer_list
      BY <2>6 DEF post, Etimer!PostOther
    <3>3. \A c \in ctimer_list : InMail(c) => InMail(c)'
      BY <2>0, <3>1, <3>2, AppendedInMail
    <3> QED
      BY <3>2, <3>3 DEF NeverForgotten
  <2>7. ASSUME NEW c \in CTimer, timer_event(c) PROVE NeverForgotten'
    <3>1. \A d \in ctimer_list' : d \in ctimer_list /\ Head(mail) # <<ctimer_process, d>>
      BY <2>7 DEF timer_event
    <3> QED
      BY <2>0, <2>7, <3>1, StillInMail DEF timer_event, Etimer!Receive, NeverForgotten
  <2>8. ASSUME NEW c \in CTimer, timer_event_unlisted(c) PROVE NeverForgotten'
    <3>1. \A d \in ctimer_list : Head(mail) # <<ctimer_process, d>>
      BY <2>8 DEF timer_event_unlisted
    <3> QED
      BY <2>0, <2>8, <3>1, StillInMail DEF timer_event_unlisted, Etimer!Receive, NeverForgotten
  <2>9. CASE callback_return
    BY <2>9 DEF callback_return, etimers, NeverForgotten, InMail
  <2>10. ASSUME NEW c \in CTimer, ctimer_set(c) \/ ctimer_restart(c) PROVE NeverForgotten'
    BY <2>0, <2>10 DEF ctimer_set, ctimer_restart, Etimer!Arm, EtimerOK, NeverForgotten, InMail
  <2>11. ASSUME NEW c \in CTimer, ctimer_stop(c) PROVE NeverForgotten'
    BY <2>0, <2>11 DEF ctimer_stop, Etimer!Cancel, NeverForgotten, InMail
  <2>12. CASE UNCHANGED vars
    BY <2>12 DEF vars, etimers, NeverForgotten, InMail
  <2> QED
    BY <2>1, <2>2, <2>3, <2>4, <2>5, <2>6, <2>7, <2>8, <2>9, <2>10, <2>11, <2>12
       DEF Next, Deliver, Return, Call
<1> QED
  BY <1>1, <1>2, BaseInvariant, PTL DEF Spec

-----------------------------------------------------------------------------
(***************************************************************************)
(* ctimer.c implements CallbackService: every step is a Set, Again, Stop,  *)
(* Call or Return of the callbacks, or does not concern them.              *)
(***************************************************************************)
THEOREM ImplementsCallbackService == Spec => IsCallbackService
<1> DEFINE Running == IF calling = None THEN None ELSE <<calling, process_current>>
<1>1. Init => Service!Init
  BY DEF Init, Service!Init
<1>2. BaseInv /\ [Next]_vars => [Service!Next]_(Service!vars)
  <2> SUFFICES ASSUME BaseInv, [Next]_vars PROVE [Service!Next]_(Service!vars)
    OBVIOUS
  <2> USE NameAssumption
  <2>0. /\ calling \in CTimer \cup {None}
        /\ calling # None => process_current # None
        /\ \A c \in CTimer : p[c] \in User \cup {None}
    BY DEF BaseInv, TypeOK, Settled
  <2>1. ASSUME ctimer_list' = ctimer_list, p' = p, Running' = Running
        PROVE  UNCHANGED Service!vars
    BY <2>1 DEF Service!vars
  <2>2. ASSUME NEW S \in SUBSET CTimer, elapse(S) PROVE UNCHANGED Service!vars
    BY <2>2, <2>1 DEF elapse
  <2>3. ASSUME NEW c \in CTimer, fire(c) PROVE UNCHANGED Service!vars
    BY <2>3, <2>1 DEF fire
  <2>4. ASSUME NEW u \in User, deliver(u) \/ poll(u) PROVE UNCHANGED Service!vars
    BY <2>0, <2>4, <2>1 DEF deliver, poll
  <2>5. ASSUME process_return PROVE UNCHANGED Service!vars
    BY <2>5, <2>1 DEF process_return
  <2>6. ASSUME NEW u \in User, post(u) PROVE UNCHANGED Service!vars
    BY <2>6, <2>1 DEF post
  <2>7. ASSUME NEW c \in CTimer, timer_event(c) PROVE Service!Call(c)
    BY <2>0, <2>7 DEF timer_event, Service!Call
  <2>8. ASSUME NEW c \in CTimer, timer_event_unlisted(c) PROVE UNCHANGED Service!vars
    BY <2>0, <2>8, <2>1 DEF timer_event_unlisted
  <2>9. ASSUME callback_return PROVE Service!Return
    BY <2>9 DEF callback_return, Service!Return
  <2>10. ASSUME NEW c \in CTimer, ctimer_set(c) PROVE Service!Set(c, process_current)
    BY <2>10 DEF ctimer_set, Service!Set
  <2>11. ASSUME NEW c \in CTimer, ctimer_restart(c) PROVE Service!Again(c)
    BY <2>11 DEF ctimer_restart, Service!Again
  <2>12. ASSUME NEW c \in CTimer, ctimer_stop(c) PROVE Service!Stop(c)
    BY <2>12 DEF ctimer_stop, Service!Stop
  <2>13. ASSUME UNCHANGED vars PROVE UNCHANGED Service!vars
    BY <2>13, <2>1 DEF vars
  <2>14. ASSUME NEW c \in CTimer, ctimer_set(c) PROVE process_current \in Process
    BY <2>14 DEF ctimer_set, Process
  <2> QED
    BY <2>2, <2>3, <2>4, <2>5, <2>6, <2>7, <2>8, <2>9, <2>10, <2>11, <2>12, <2>13, <2>14
       DEF Next, Deliver, Return, Call, Service!Next
<1> QED
  BY <1>1, <1>2, BaseInvariant, PTL DEF Spec, IsCallbackService, Service!Spec

=============================================================================
