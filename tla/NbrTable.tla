------------------------------ MODULE NbrTable ------------------------------
(***************************************************************************)
(* The neighbour table, core/net/nbr-table.c: one list of keys, that hold  *)
(* a link-layer address each, shared by the tables that are registered     *)
(* (ds6_neighbors, nbr_routes and rpl_parents).  A slot is known by its    *)
(* index in neighbor_addr_mem; zero stands for NULL.  The operators work   *)
(* on a state s with the fields                                            *)
(*   keys    indices in nbr_table_keys, oldest first                       *)
(*   lladdr  the address of each key                                       *)
(*   ds6, lists, parents   the item of each slot in the three tables, Null *)
(*           when the slot's bit in used_map is not set for that table     *)
(*   locked  the slots that rpl_parents locks.                             *)
(***************************************************************************)
EXTENDS Naturals, Sequences, FiniteSets, SequencesExt

CONSTANTS
    Null,                       \* no item; as an address, linkaddr_null
    NBR_TABLE_MAX_NEIGHBORS

ASSUME NbrTableAssumption == NBR_TABLE_MAX_NEIGHBORS \in Nat \ {0}

Indices == 1 .. NBR_TABLE_MAX_NEIGHBORS

(* The elements of a sequence that are in Q, in their order *)
Only(seq, Q) ==
    LET only[k \in 0 .. Len(seq)] ==
            IF k = 0 THEN <<>>
            ELSE IF seq[k] \in Q THEN Append(only[k - 1], seq[k]) ELSE only[k - 1]
    IN  only[Len(seq)]

(* The oldest key in Q, or zero *)
FirstKey(s, Q) ==
    LET found == {k \in DOMAIN s.keys : s.keys[k] \in Q}
    IN  IF found = {} THEN 0 ELSE s.keys[Min(found)]

index_from_lladdr(s, l) == FirstKey(s, {i \in Indices : s.lladdr[i] = l})

UsedCount(s, i) == Cardinality({t \in {"ds6", "lists", "parents"} : s[t][i] # Null})

(* Only rpl_parents locks items, in s.locked. *)
Locked(s, i) == i \in s.locked

(* The slot that a new neighbour gets when all are taken: not locked, used  *)
(* by the fewest tables, the oldest of these; zero when all are locked.     *)
LeastUsed(s) ==
    FirstKey(s, {i \in Indices :
        /\ ~Locked(s, i)
        /\ \A j \in Indices : Locked(s, j) \/ UsedCount(s, i) <= UsedCount(s, j)})

(* memb_alloc gives out the slots in order, and no slot is ever freed. *)
HasSpace(s) == Len(s.keys) < NBR_TABLE_MAX_NEIGHBORS

(* The key moves to the end of the list, with a new address. *)
Rekeyed(s, i, l) ==
    [s EXCEPT !.keys = Append(Only(@, Indices \ {i}), i), !.lladdr[i] = l]
=============================================================================
