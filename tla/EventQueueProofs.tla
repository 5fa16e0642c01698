-------------------------- MODULE EventQueueProofs --------------------------
(***************************************************************************)
(* Proofs about the event queue of process.c for every number of slots,    *)
(* every width of its counter type that satisfies WidthAssumption, and     *)
(* every set of events: the ring is a first-in first-out queue.            *)
(***************************************************************************)
EXTENDS EventQueue, SequenceTheorems, TLAPS

Contents == Event \cup {NoEvent}

-----------------------------------------------------------------------------
(* Below two rounds a remainder is the number itself or one round less:    *)
(* what the index arithmetic of process_post and do_event relies on.       *)
LEMMA ModTwoRounds ==
    ASSUME NEW n \in Nat \ {0}, NEW x \in 0 .. (2 * n - 1)
    PROVE  x % n = IF x < n THEN x ELSE x - n
<1>1. /\ x % n \in 0 .. (n - 1)
      /\ x = n * (x \div n) + (x % n)
      /\ x \div n \in Nat
  BY SMT
<1>2. ASSUME x \div n >= 2 PROVE FALSE
  BY <1>1, <1>2, SMT
<1> QED BY <1>1, <1>2, SMT

(* The same for the number of slots, as an equation to rewrite with.       *)
LEMMA WrapSlot ==
    \A y \in 0 .. (2 * NUMEVENTS - 1) :
        y % NUMEVENTS = IF y < NUMEVENTS THEN y ELSE y - NUMEVENTS
BY ModTwoRounds, NumEventsAssumption, Zenon

(* The cast to the counter type never changes the index of a post.         *)
LEMMA CastIsHarmless ==
    ASSUME TypeOK, nevents # NUMEVENTS
    PROVE  snum = IF fevent + nevents < NUMEVENTS
                    THEN fevent + nevents ELSE fevent + nevents - NUMEVENTS
<1> DEFINE x == fevent + nevents
<1>1. /\ x \in 0 .. (2 * NUMEVENTS - 1)
      /\ x < NumEventsMod
      /\ NumEventsMod \in Nat \ {0}
      /\ x \in 0 .. (2 * NumEventsMod - 1)
  BY NumEventsAssumption, WidthAssumption DEF TypeOK, Slots
<1> HIDE DEF x
<1>2. x % NumEventsMod = x
  BY <1>1, ModTwoRounds, Zenon
<1>3. x % NUMEVENTS = IF x < NUMEVENTS THEN x ELSE x - NUMEVENTS
  BY <1>1, WrapSlot
<1>4. snum = (x % NumEventsMod) % NUMEVENTS
  BY DEF snum, x
<1>5. snum = IF x < NUMEVENTS THEN x ELSE x - NUMEVENTS
  BY <1>2, <1>3, <1>4
<1> QED BY <1>5, NumEventsAssumption DEF x, TypeOK, Slots

(* The read index after one event is taken.                                *)
LEMMA NextSlot ==
    ASSUME NEW f \in Slots
    PROVE  (f + 1) % NUMEVENTS = IF f + 1 < NUMEVENTS THEN f + 1 ELSE 0
<1> DEFINE x == f + 1
<1>1. x \in 0 .. (2 * NUMEVENTS - 1)
  BY NumEventsAssumption DEF Slots
<1>2. x % NUMEVENTS = IF x < NUMEVENTS THEN x ELSE x - NUMEVENTS
  <2> HIDE DEF x
  <2> QED BY <1>1, WrapSlot
<1> QED BY <1>2, NumEventsAssumption DEF Slots

(* The events in n slots from slot f on, as a sequence, and the slot of    *)
(* each of them without a remainder.                                       *)
LEMMA RingContents ==
    ASSUME NEW slots \in [Slots -> Contents],
           NEW n \in 0 .. NUMEVENTS,
           NEW f \in Slots,
           NEW w, w = [i \in 1 .. n |-> slots[(f + i - 1) % NUMEVENTS]]
    PROVE  /\ w \in Seq(Contents)
           /\ Len(w) = n
           /\ \A i \in 1 .. n :
                w[i] = slots[IF f + i - 1 < NUMEVENTS
                               THEN f + i - 1 ELSE f + i - 1 - NUMEVENTS]
<1>1. ASSUME NEW i \in 1 .. n
      PROVE  (f + i - 1) % NUMEVENTS =
               IF f + i - 1 < NUMEVENTS THEN f + i - 1 ELSE f + i - 1 - NUMEVENTS
  <2> DEFINE x == f + i - 1
  <2>1. x \in 0 .. (2 * NUMEVENTS - 1)
    BY NumEventsAssumption DEF Slots
  <2> HIDE DEF x
  <2>2. x % NUMEVENTS = IF x < NUMEVENTS THEN x ELSE x - NUMEVENTS
    BY <2>1, WrapSlot
  <2> QED BY <2>1, <2>2, NumEventsAssumption DEF x, Slots
<1>2. \A i \in 1 .. n : (f + i - 1) % NUMEVENTS \in Slots
  BY <1>1, NumEventsAssumption DEF Slots
<1>3. w \in [1 .. n -> Contents]
  BY <1>2
<1>4. n \in Nat
  BY NumEventsAssumption
<1>5. w \in Seq(Contents) /\ Len(w) = n
  BY <1>3, <1>4, SeqDef, LenProperties
<1> QED BY <1>1, <1>5

(* The slot of the i-th oldest event, before and after a step.             *)
LEMMA WaitingSlots ==
    ASSUME TypeOK
    PROVE  /\ Waiting \in Seq(Contents)
           /\ Len(Waiting) = nevents
           /\ \A i \in 1 .. nevents :
                Waiting[i] = events[IF fevent + i - 1 < NUMEVENTS
                                      THEN fevent + i - 1
                                      ELSE fevent + i - 1 - NUMEVENTS]
BY RingContents DEF TypeOK, Contents, Waiting

LEMMA WaitingSlotsPrimed ==
    ASSUME TypeOK'
    PROVE  /\ Waiting' \in Seq(Contents)
           /\ Len(Waiting') = nevents'
           /\ \A i \in 1 .. nevents' :
                Waiting'[i] = events'[IF fevent' + i - 1 < NUMEVENTS
                                        THEN fevent' + i - 1
                                        ELSE fevent' + i - 1 - NUMEVENTS]
BY RingContents DEF TypeOK, Contents, Waiting

-----------------------------------------------------------------------------
(* process_init leaves a well-formed empty queue. *)
LEMMA InitTypeOK == Init => TypeOK
<1>1. 0 \in Slots /\ 0 \in 0 .. NUMEVENTS
  BY NumEventsAssumption DEF Slots
<1> QED BY <1>1 DEF Init, TypeOK

(* The counters and the slots keep their types: fevent stays a slot and    *)
(* nevents never passes the number of slots.                               *)
THEOREM TypeCorrect == Spec => []TypeOK
<1>1. Init => TypeOK
  BY InitTypeOK
<1>2. TypeOK /\ [Next]_vars => TypeOK'
  <2> SUFFICES ASSUME TypeOK, [Next]_vars PROVE TypeOK'
    OBVIOUS
  <2>1. ASSUME NEW e \in Event, process_post(e) PROVE TypeOK'
    <3>1. snum \in Slots
      BY <2>1, CastIsHarmless, NumEventsAssumption DEF TypeOK, Slots, process_post
    <3>2. events' \in [Slots -> Event \cup {NoEvent}]
      BY <2>1, <3>1 DEF TypeOK, process_post
    <3>3. nevents' \in 0 .. NUMEVENTS
      BY <2>1, NumEventsAssumption DEF TypeOK, process_post
    <3> QED
      BY <2>1, <3>2, <3>3 DEF TypeOK, process_post
  <2>2. CASE process_post_full
    BY <2>2 DEF TypeOK, process_post_full
  <2>3. CASE do_event
    <3>1. (fevent + 1) % NUMEVENTS \in Slots
      BY NumEventsAssumption DEF TypeOK, Slots
    <3> QED
      BY <2>3, <3>1, NumEventsAssumption DEF TypeOK, Slots, do_event
  <2>4. CASE UNCHANGED vars
    BY <2>4 DEF TypeOK, vars
  <2> QED BY <2>1, <2>2, <2>3, <2>4 DEF Next
<1> QED BY <1>1, <1>2, PTL DEF Spec

-----------------------------------------------------------------------------
(* A post appends to the abstract queue. *)
LEMMA PostAppends ==
    ASSUME TypeOK, TypeOK', NEW e \in Event, process_post(e)
    PROVE  Fifo!Accept(e)
<1> DEFINE w == Append(Waiting, e)
<1>1. /\ Waiting \in Seq(Contents)
      /\ Len(Waiting) = nevents
      /\ nevents < NUMEVENTS
      /\ nevents' = nevents + 1
  BY WaitingSlots, NumEventsAssumption DEF process_post, TypeOK
<1>2. /\ Waiting' \in Seq(Contents)
      /\ Len(Waiting') = nevents'
      /\ \A i \in 1 .. nevents' :
            Waiting'[i] = events'[IF fevent' + i - 1 < NUMEVENTS
                                    THEN fevent' + i - 1
                                    ELSE fevent' + i - 1 - NUMEVENTS]
  BY WaitingSlotsPrimed
<1>3. /\ w \in Seq(Contents)
      /\ Len(w) = nevents + 1
      /\ \A i \in 1 .. nevents : w[i] = Waiting[i]
      /\ w[nevents + 1] = e
  BY <1>1, AppendProperties DEF Contents
<1>4. ASSUME NEW i \in 1 .. nevents' PROVE Waiting'[i] = w[i]
  <2>1. CASE i = nevents'
    BY <1>1, <1>2, <1>3, <2>1, CastIsHarmless, NumEventsAssumption
       DEF process_post, TypeOK, Slots
  <2>2. CASE i # nevents'
    <3>1. i \in 1 .. nevents
      BY <1>1, <2>2 DEF TypeOK
    <3> QED
      BY <1>1, <1>2, <1>3, <3>1, CastIsHarmless, WaitingSlots, NumEventsAssumption
         DEF process_post, TypeOK, Slots
  <2> QED BY <2>1, <2>2
<1>5. Waiting' = w
  BY <1>1, <1>2, <1>3, <1>4, SeqEqual
<1> QED BY <1>1, <1>5 DEF Fifo!Accept, process_post

(* do_event takes the head of the abstract queue. *)
LEMMA TakeRemovesHead ==
    ASSUME TypeOK, TypeOK', do_event
    PROVE  Fifo!Take
<1>1. /\ Waiting \in Seq(Contents)
      /\ Len(Waiting) = nevents
      /\ nevents > 0
      /\ nevents' = nevents - 1
      /\ Waiting # <<>>
  BY WaitingSlots, EmptySeq, NumEventsAssumption DEF do_event, TypeOK
<1>1a. ASSUME NEW i \in 1 .. nevents
      PROVE  Waiting[i] = events[IF fevent + i - 1 < NUMEVENTS
                                   THEN fevent + i - 1
                                   ELSE fevent + i - 1 - NUMEVENTS]
  BY WaitingSlots
<1>2. /\ Waiting' \in Seq(Contents)
      /\ Len(Waiting') = nevents'
      /\ \A i \in 1 .. nevents' :
            Waiting'[i] = events'[IF fevent' + i - 1 < NUMEVENTS
                                    THEN fevent' + i - 1
                                    ELSE fevent' + i - 1 - NUMEVENTS]
  BY WaitingSlotsPrimed
<1>3. /\ Tail(Waiting) \in Seq(Contents)
      /\ Len(Tail(Waiting)) = nevents - 1
      /\ \A i \in 1 .. nevents - 1 : Tail(Waiting)[i] = Waiting[i + 1]
  BY <1>1, HeadTailProperties
<1>4. fevent' = IF fevent + 1 < NUMEVENTS THEN fevent + 1 ELSE 0
  BY NextSlot DEF do_event, TypeOK
<1>5. ASSUME NEW i \in 1 .. nevents' PROVE Waiting'[i] = Tail(Waiting)[i]
  <2>1. i \in 1 .. nevents - 1 /\ i + 1 \in 1 .. nevents
    BY <1>1 DEF TypeOK
  <2> PICK j \in 1 .. nevents : j = i + 1
    BY <2>1
  <2>2. Tail(Waiting)[i] = Waiting[j]
    BY <1>3, <2>1
  <2>3. events' = events
    BY DEF do_event
  <2>4. CASE fevent + i < NUMEVENTS
    <3>1. Waiting[j] = events[fevent + i]
      BY <2>1, <2>4, <1>1a, NumEventsAssumption DEF TypeOK, Slots
    <3>2. Waiting'[i] = events[fevent + i]
      BY <1>2, <1>4, <2>1, <2>3, <2>4, NumEventsAssumption DEF TypeOK, Slots
    <3> QED BY <2>2, <3>1, <3>2
  <2>5. CASE ~(fevent + i < NUMEVENTS)
    <3>1. Waiting[j] = events[fevent + i - NUMEVENTS]
      BY <2>1, <2>5, <1>1a, NumEventsAssumption DEF TypeOK, Slots
    <3>2. Waiting'[i] = events[fevent + i - NUMEVENTS]
      BY <1>2, <1>4, <2>1, <2>3, <2>5, NumEventsAssumption DEF TypeOK, Slots
    <3> QED BY <2>2, <3>1, <3>2
  <2> QED BY <2>4, <2>5
<1>6. Waiting' = Tail(Waiting)
  BY <1>1, <1>2, <1>3, <1>5, SeqEqual
<1>7. Head(Waiting) = events[fevent]
  BY <1>1, WaitingSlots, NumEventsAssumption DEF TypeOK, Slots
<1> QED BY <1>1, <1>6, <1>7 DEF Fifo!Take, do_event

(* The event queue of process.c is a first-in first-out queue of           *)
(* PROCESS_CONF_NUMEVENTS places: accepted events are delivered once and   *)
(* in order, and a post fails only when the queue is full.                 *)
THEOREM RingIsFifo == Spec => IsFifo
<1>1. Init => Fifo!Init
  <2> SUFFICES ASSUME Init PROVE Fifo!Init
    OBVIOUS
  <2>1. TypeOK
    BY InitTypeOK
  <2>2. Waiting = <<>>
    BY <2>1, WaitingSlots, EmptySeq DEF Init
  <2> QED BY <2>2 DEF Init, Fifo!Init
<1>2. TypeOK /\ TypeOK' /\ [Next]_vars => [Fifo!Next]_(Fifo!vars)
  <2> SUFFICES ASSUME TypeOK, TypeOK', [Next]_vars PROVE [Fifo!Next]_(Fifo!vars)
    OBVIOUS
  <2>1. ASSUME NEW e \in Event, process_post(e) PROVE Fifo!Next
    BY <2>1, PostAppends DEF Fifo!Next
  <2>2. CASE process_post_full
    <3>1. Len(Waiting) = NUMEVENTS /\ Waiting' = Waiting
      BY <2>2, WaitingSlots DEF process_post_full, Waiting
    <3> QED BY <2>2, <3>1 DEF process_post_full, Fifo!Next, Fifo!Refuse
  <2>3. CASE do_event
    BY <2>3, TakeRemovesHead DEF Fifo!Next
  <2>4. CASE UNCHANGED vars
    BY <2>4 DEF vars, Fifo!vars, Waiting
  <2> QED BY <2>1, <2>2, <2>3, <2>4 DEF Next
<1> QED BY <1>1, <1>2, TypeCorrect, PTL DEF Spec, IsFifo, Fifo!Spec

=============================================================================
