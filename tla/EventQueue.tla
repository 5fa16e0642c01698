---------------------------- MODULE EventQueue -----------------------------
(***************************************************************************)
(* The event queue of the Contiki process kernel, sys/process.c: a ring of *)
(* PROCESS_CONF_NUMEVENTS slots addressed by two counters of the type      *)
(* process_num_events_t, an unsigned char.  process_post writes behind the *)
(* last waiting event, do_event copies the oldest one to its static        *)
(* variables.  The slot index of a post is reduced twice, first to the     *)
(* width of the type and then modulo the number of slots; the two agree    *)
(* with one reduction only while the sum of the counters fits the type.    *)
(***************************************************************************)
EXTENDS Naturals, Sequences

CONSTANTS
    Event,        \* event, data and receiver of a post, as one value
    NoEvent,      \* the contents of a slot that was never written
    NUMEVENTS,    \* PROCESS_CONF_NUMEVENTS
    NumEventsMod  \* 2^(bits of process_num_events_t)

ASSUME NumEventsAssumption == NUMEVENTS \in Nat \ {0}

(* The width the build relies on: 32 slots and an 8-bit counter satisfy it. *)
ASSUME WidthAssumption ==
    NumEventsMod \in Nat \ {0} /\ 2 * NUMEVENTS <= NumEventsMod + 1

ASSUME NoEventAssumption == NoEvent \notin Event

VARIABLES
    events,       \* the slots
    nevents,      \* how many events wait
    fevent,       \* the slot of the oldest one
    current,      \* static ev, data, receiver of do_event
    full          \* whether the last process_post returned PROCESS_ERR_FULL

vars == <<events, nevents, fevent, current, full>>

Slots == 0 .. (NUMEVENTS - 1)

TypeOK ==
    /\ events \in [Slots -> Event \cup {NoEvent}]
    /\ nevents \in 0 .. NUMEVENTS
    /\ fevent \in Slots
    /\ current \in Event \cup {NoEvent}
    /\ full \in BOOLEAN

(* process_init *)
Init ==
    /\ events = [s \in Slots |-> NoEvent]
    /\ nevents = 0
    /\ fevent = 0
    /\ current = NoEvent
    /\ full = FALSE

(* Mutant of snum: the index counts from slot 0, not from the oldest event. *)
snum_from_zero == nevents % NUMEVENTS

(* snum: (process_num_events_t)(fevent + nevents) % PROCESS_CONF_NUMEVENTS *)
snum == ((fevent + nevents) % NumEventsMod) % NUMEVENTS

(* process_post on a queue with room *)
process_post(e) ==
    /\ nevents # NUMEVENTS
    /\ events' = [events EXCEPT ![snum] = e]
    /\ nevents' = nevents + 1
    /\ full' = FALSE
    /\ UNCHANGED <<fevent, current>>

(* process_post's early return *)
process_post_full ==
    /\ nevents = NUMEVENTS
    /\ full' = TRUE
    /\ UNCHANGED <<events, nevents, fevent, current>>

(* Mutant of do_event: the read index runs off the end of the array. *)
do_event_no_wrap ==
    /\ nevents > 0
    /\ current' = events[fevent]
    /\ fevent' = fevent + 1
    /\ nevents' = nevents - 1
    /\ UNCHANGED <<events, full>>

(* the head of do_event, up to the delivery *)
do_event ==
    /\ nevents > 0
    /\ current' = events[fevent]
    /\ fevent' = (fevent + 1) % NUMEVENTS
    /\ nevents' = nevents - 1
    /\ UNCHANGED <<events, full>>

Next == (\E e \in Event : process_post(e)) \/ process_post_full \/ do_event

Spec == Init /\ [][Next]_vars

-----------------------------------------------------------------------------
(* The i-th oldest waiting event lies i - 1 slots after fevent, wrapping. *)
Waiting == [i \in 1 .. nevents |-> events[(fevent + i - 1) % NUMEVENTS]]

Fifo == INSTANCE BoundedFifo WITH
            Element <- Event, Capacity <- NUMEVENTS, NoElement <- NoEvent,
            fifo <- Waiting, taken <- current, refused <- full

(***************************************************************************)
(* The ring of process.c is a first-in first-out queue: every event that   *)
(* process_post accepted is handed to do_event once, in the order of the   *)
(* posts, and PROCESS_ERR_FULL is returned only with NUMEVENTS events      *)
(* waiting, however often the two counters have gone round.                *)
(***************************************************************************)
IsFifo == Fifo!Spec

=============================================================================
