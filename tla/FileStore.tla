----------------------------- MODULE FileStore -----------------------------
(***************************************************************************)
(* What the users of cfs.h expect of a file system: a map from names to    *)
(* contents.  A call changes the file it names and no other; a restart     *)
(* between two calls changes nothing.  A restart in the middle of a call   *)
(* is allowed to change the store: how far is stated in module Coffee.     *)
(***************************************************************************)
EXTENDS Naturals, Sequences

CONSTANTS
    Names,    \* file names
    Values,   \* blocks that hold something
    Zero,     \* the block that was never written
    MaxLength,  \* bound: no write beyond this many blocks
    Absent    \* in place of the contents of a name without a file

VARIABLES
    store,    \* the contents of every name
    busy      \* a call has not reached the medium completely

vars == <<store, busy>>

Init == store = [n \in Names |-> Absent] /\ busy = FALSE

(* A file of n appears, empty. *)
Create(n) ==
    /\ ~busy
    /\ store[n] = Absent
    /\ store' = [store EXCEPT ![n] = <<>>]
    /\ busy' \in BOOLEAN

(* Block k + 1 of n becomes v; a gap before it reads as zeros. *)
Put(c, k, v) ==
    [i \in 1 .. (IF Len(c) > k THEN Len(c) ELSE k + 1) |->
        IF i = k + 1 THEN v ELSE IF i <= Len(c) THEN c[i] ELSE Zero]

Write(n) ==
    /\ ~busy
    /\ store[n] # Absent
    /\ \E k \in 0 .. MaxLength - 1, v \in Values :
          store' = [store EXCEPT ![n] = Put(store[n], k, v)]
    /\ busy' \in BOOLEAN

Remove(n) ==
    /\ ~busy
    /\ store[n] # Absent
    /\ store' = [store EXCEPT ![n] = Absent]
    /\ busy' \in BOOLEAN

Format ==
    /\ ~busy
    /\ store' = [n \in Names |-> Absent]
    /\ busy' \in BOOLEAN

(* The medium has caught up with the call, or a call without effect began. *)
Settle == store' = store /\ busy' \in BOOLEAN

(* A restart in the middle of a call. *)
Interrupted ==
    /\ busy
    /\ ~busy'
    /\ DOMAIN store' = Names

Next ==
    \/ \E n \in Names : Create(n) \/ Write(n) \/ Remove(n)
    \/ Format
    \/ Settle
    \/ Interrupted

Spec == Init /\ [][Next]_vars
=============================================================================
