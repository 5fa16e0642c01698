---------------------------- MODULE BoundedFifo ----------------------------
(***************************************************************************)
(* What a bounded queue promises, whatever array it is kept in: elements   *)
(* leave in the order in which they were accepted, none is lost, doubled   *)
(* or overwritten, and an element is refused only when Capacity elements   *)
(* are waiting.  The event queue of Contiki's process.c implements it      *)
(* (EventQueue).                                                           *)
(***************************************************************************)
EXTENDS Naturals, Sequences

CONSTANTS
    Element,      \* what is queued
    Capacity,     \* how many elements fit
    NoElement     \* what the consumer holds before it took anything

VARIABLES
    fifo,         \* the waiting elements, the oldest first
    taken,        \* the element the consumer took last
    refused       \* whether the last offered element was turned down

vars == <<fifo, taken, refused>>

Init ==
    /\ fifo = <<>>
    /\ taken = NoElement
    /\ refused = FALSE

Accept(e) ==
    /\ Len(fifo) < Capacity
    /\ fifo' = Append(fifo, e)
    /\ refused' = FALSE
    /\ UNCHANGED taken

Refuse ==
    /\ Len(fifo) = Capacity
    /\ refused' = TRUE
    /\ UNCHANGED <<fifo, taken>>

Take ==
    /\ fifo # <<>>
    /\ taken' = Head(fifo)
    /\ fifo' = Tail(fifo)
    /\ UNCHANGED refused

Next == (\E e \in Element : Accept(e)) \/ Refuse \/ Take

Spec == Init /\ [][Next]_vars

=============================================================================
