----------------------------- MODULE RplRouter -----------------------------
(***************************************************************************)
(* Neighbours, routes and RPL of one node that is not a root: the          *)
(* neighbour cache (uip-ds6-nbr.c, uip-nd6.c), the routing table and the   *)
(* default routers (uip-ds6-route.c), the parents and the rank             *)
(* (rpl-dag.c, rpl-mrhof.c), and the handlers that change them.  All three *)
(* tables share the slots of NbrTable, so adding to one may remove from    *)
(* the others through the callbacks of the tables.                         *)
(*                                                                         *)
(* Each handler runs to its end in tcpip_process or a callback timer, so   *)
(* a step is a whole handler.  The functions of the code are operators     *)
(* that map the state before the call to the state after it.               *)
(***************************************************************************)
EXTENDS NbrTable

CONSTANTS
    Routers,            \* neighbours that send DIOs and DAOs
    Hosts,              \* neighbours that packets are sent to as they are on the link
    Targets,            \* destinations that DAOs announce
    UIP_DS6_ROUTE_NB,
    UIP_DS6_DEFRT_NB,
    ROOT_RANK,
    INFINITE_RANK,
    MAX_RANKINC,        \* instance->max_rankinc; zero for no limit
    INIT_LINK_METRIC,
    LinkMetrics,        \* what the transmissions to a neighbour may measure
    MAX_PATH_COST,
    MIN_DIFF,           \* the hysteresis of MRHOF
    DioRanks            \* ranks that parents announce

Nodes == Routers \cup Hosts

Ranks == 0 .. INFINITE_RANK

(* The items of the tables *)
Neighbour == [ip : Nodes, state : {"INCOMPLETE", "RESOLVED"}, link_metric : Nat]
Parent == [rank : Ranks, updated : BOOLEAN]
Route == [dest : Targets, index : Indices, via : Nodes]
Router == [block : 1 .. UIP_DS6_DEFRT_NB, ip : Nodes]

ASSUME RplAssumption ==
    /\ {UIP_DS6_ROUTE_NB, UIP_DS6_DEFRT_NB, ROOT_RANK, INIT_LINK_METRIC} \subseteq Nat \ {0}
    /\ {MAX_RANKINC, MAX_PATH_COST, MIN_DIFF, INFINITE_RANK} \subseteq Nat
    /\ DioRanks \subseteq ROOT_RANK .. INFINITE_RANK
    /\ LinkMetrics \subseteq Nat \ {0}
    /\ Null \notin Nodes \cup Neighbour \cup Parent
    /\ \A T \in SUBSET Targets : Null # T

VARIABLE
    node                \* the tables and the DAG

NodeState == [
    keys : Seq(Indices),
    lladdr : [Indices -> Nodes \cup {Null}],
    ds6 : [Indices -> Neighbour \cup {Null}],
    lists : [Indices -> (SUBSET Targets) \cup {Null}],
    parents : [Indices -> Parent \cup {Null}],
    locked : SUBSET Indices,
    routes : Seq(Route),
    joined : BOOLEAN,
    preferred : {0} \cup Indices,
    rank : Ranks,
    min_rank : Ranks,
    defrt : Seq(Router),
    def_route : 0 .. UIP_DS6_DEFRT_NB]

TypeOK ==
    /\ node \in NodeState
    /\ IsInjective(node.keys)
    /\ Len(node.routes) <= UIP_DS6_ROUTE_NB

Init ==
    node = [keys |-> <<>>, lladdr |-> [i \in Indices |-> Null],
            ds6 |-> [i \in Indices |-> Null], lists |-> [i \in Indices |-> Null],
            parents |-> [i \in Indices |-> Null], locked |-> {}, routes |-> <<>>,
            joined |-> FALSE, preferred |-> 0, rank |-> INFINITE_RANK,
            min_rank |-> INFINITE_RANK, defrt |-> <<>>, def_route |-> 0]

-----------------------------------------------------------------------------
(* Lookups *)

uip_ds6_nbr_lookup(s, ip) ==
    FirstKey(s, {i \in Indices : s.ds6[i] # Null /\ s.ds6[i].ip = ip})

Used(table, i) == IF i = 0 \/ table[i] = Null THEN 0 ELSE i

uip_ds6_nbr_ll_lookup(s, l) == Used(s.ds6, index_from_lladdr(s, l))

(* The IP address behind slot i: the key's address is looked up again. *)
IpOf(s, i) ==
    LET n == uip_ds6_nbr_ll_lookup(s, s.lladdr[i]) IN IF n = 0 THEN Null ELSE s.ds6[n].ip

uip_ds6_route_nexthop(s, route) == IpOf(s, route.index)

(* An address that is not known is looked up as linkaddr_null. *)
rpl_find_parent(s, ip) ==
    LET n == uip_ds6_nbr_lookup(s, ip)
        l == IF n = 0 THEN Null ELSE s.lladdr[n]
    IN  Used(s.parents, index_from_lladdr(s, l))

RoutesTo(s, d) == {r \in Range(s.routes) : r.dest = d}
HasRoute(s, d) == RoutesTo(s, d) # {}

(* A route that is found moves to the head of the list. *)
uip_ds6_route_lookup(s, d) ==
    [s EXCEPT !.routes = Only(@, RoutesTo(s, d)) \o Only(@, Range(@) \ RoutesTo(s, d))]

-----------------------------------------------------------------------------
(* Routes and default routers *)

(* Mutant of uip_ds6_route_rm: the neighbour keeps a list that is empty. *)
uip_ds6_route_rm_listed(s, route) ==
    [s EXCEPT !.routes = Only(@, Range(@) \ {route}),
              !.lists[route.index] = @ \ {route.dest}]

(* The list of a neighbour whose last route goes is given up. *)
uip_ds6_route_rm(s, route) ==
    LET rest == s.lists[route.index] \ {route.dest} IN
    [s EXCEPT !.routes = Only(@, Range(@) \ {route}),
              !.lists[route.index] = IF rest = {} THEN Null ELSE rest]

rm_routelist(s, i) ==
    [s EXCEPT !.routes = Only(@, {r \in Range(@) : r.dest \notin s.lists[i]}),
              !.lists[i] = Null]

(* A new route takes the head of the list and of its neighbour's list. *)
RouteAdded(s, d, i, nexthop) ==
    [s EXCEPT !.routes = <<[dest |-> d, index |-> i, via |-> nexthop]>> \o @,
              !.lists[i] = (IF @ = Null THEN {} ELSE @) \cup {d}]

(* Mutant of RoomForRoute: no route makes room. *)
RoomForRoute_none(s) == s

(* The least recently used route goes when there is no room for another. *)
RoomForRoute(s) ==
    IF Len(s.routes) = UIP_DS6_ROUTE_NB THEN uip_ds6_route_rm(s, Last(s.routes)) ELSE s

(* A route to d was found, at the head of the list: it stays or is replaced. *)
RouteReplaced(s, d, i, nexthop) ==
    IF uip_ds6_route_nexthop(s, s.routes[1]) = nexthop THEN s
    ELSE RouteAdded(RoomForRoute(uip_ds6_route_rm(s, s.routes[1])), d, i, nexthop)

(* The route to d goes through the neighbour that has the address nexthop,  *)
(* resolved or not, and is not made for one that is not in the cache.       *)
uip_ds6_route_add(s, d, nexthop) ==
    LET n == uip_ds6_nbr_lookup(s, nexthop)
        i == index_from_lladdr(s, s.lladdr[n])
    IN
    IF n = 0 THEN s
    ELSE IF HasRoute(s, d) THEN RouteReplaced(uip_ds6_route_lookup(s, d), d, i, nexthop)
    ELSE RouteAdded(RoomForRoute(s), d, i, nexthop)

uip_ds6_defrt_rm(s, block) ==
    [s EXCEPT !.defrt = Only(@, {r \in Range(@) : r.block # block})]

(* The block of the default router ip, or zero. *)
uip_ds6_defrt_lookup(s, ip) ==
    LET found == {k \in DOMAIN s.defrt : s.defrt[k].ip = ip}
    IN  IF found = {} THEN 0 ELSE s.defrt[Min(found)].block

FreeBlocks(s) == 1 .. UIP_DS6_DEFRT_NB \ {s.defrt[k].block : k \in DOMAIN s.defrt}

uip_ds6_defrt_add(s, ip) ==
    IF uip_ds6_defrt_lookup(s, ip) # 0 \/ FreeBlocks(s) = {} THEN s
    ELSE [s EXCEPT !.defrt = <<[block |-> Min(FreeBlocks(s)), ip |-> ip]>> \o @]

(* The first router whose link-layer address is known, else the last one. *)
uip_ds6_defrt_choose(s) ==
    LET Resolved(r) == LET n == uip_ds6_nbr_lookup(s, r.ip)
                       IN  n # 0 /\ s.ds6[n].state # "INCOMPLETE"
        good == {k \in DOMAIN s.defrt : Resolved(s.defrt[k])}
    IN  IF s.defrt = <<>> THEN Null
        ELSE IF good # {} THEN s.defrt[Min(good)].ip ELSE Last(s.defrt).ip

-----------------------------------------------------------------------------
(* Parents and rank *)

(* Mutant of rpl_set_preferred_parent: the parent is not locked. *)
rpl_set_preferred_parent_unlocked(s, p) ==
    [s EXCEPT !.locked = @ \ {s.preferred}, !.preferred = p]

rpl_set_preferred_parent(s, p) ==
    IF s.preferred = p THEN s
    ELSE [s EXCEPT !.locked = (@ \ {s.preferred}) \cup ({p} \ {0}), !.preferred = p]

rpl_set_default_route(s, ip) ==
    LET removed == [uip_ds6_defrt_rm(s, s.def_route) EXCEPT !.def_route = 0]
        Pointed(t) == [t EXCEPT !.def_route = uip_ds6_defrt_lookup(t, ip)]
    IN  IF ip = Null THEN removed ELSE Pointed(uip_ds6_defrt_add(removed, ip))

(* Mutant of rpl_nullify_parent: the default route stays. *)
rpl_nullify_parent_routed(s, p) ==
    IF s.preferred \notin {0, p} THEN s
    ELSE rpl_set_preferred_parent([s EXCEPT !.rank = INFINITE_RANK], 0)

(* Also called while there is no preferred parent. *)
rpl_nullify_parent(s, p) ==
    IF s.preferred \notin {0, p} THEN s
    ELSE rpl_set_preferred_parent(
             [rpl_set_default_route(s, Null) EXCEPT !.rank = INFINITE_RANK], 0)

rpl_remove_parent(s, p) ==
    [rpl_nullify_parent(s, p) EXCEPT !.parents[p] = Null, !.locked = @ \ {p}]

(* Op is applied to each parent in turn, in the order of the keys. *)
EachParent(s, Op(_, _)) ==
    LET Visited(t, p) == IF t.parents[p] = Null THEN t ELSE Op(t, p)
        after[k \in 0 .. Len(s.keys)] ==
            IF k = 0 THEN s ELSE Visited(after[k - 1], s.keys[k])
    IN  after[Len(s.keys)]

remove_parents(s) == EachParent(s, rpl_remove_parent)

rpl_local_repair(s) ==
    EachParent([s EXCEPT !.rank = INFINITE_RANK], rpl_nullify_parent)

(* The item of ds6_neighbors that belongs to parent p, or zero *)
rpl_get_nbr(s, p) == uip_ds6_nbr_ll_lookup(s, s.lladdr[p])

calculate_path_metric(s, p) ==
    LET n == rpl_get_nbr(s, p)
    IN  IF n = 0 THEN MAX_PATH_COST ELSE s.parents[p].rank + s.ds6[n].link_metric

(* The objective function: the lower cost, the preferred parent if similar. *)
of_best_parent(s, p1, p2) ==
    LET Better(m1, m2) ==
            IF s.preferred \in {p1, p2} /\ m1 < m2 + MIN_DIFF /\ m2 < m1 + MIN_DIFF
            THEN s.preferred
            ELSE IF m1 < m2 THEN p1 ELSE p2
    IN  Better(calculate_path_metric(s, p1), calculate_path_metric(s, p2))

best_parent(s) ==
    LET Candidate(p) == s.parents[p] # Null /\ s.parents[p].rank # INFINITE_RANK
        Better(b, p) == IF ~Candidate(p) THEN b
                        ELSE IF b = 0 THEN p ELSE of_best_parent(s, b, p)
        best[k \in 0 .. Len(s.keys)] ==
            IF k = 0 THEN 0 ELSE Better(best[k - 1], s.keys[k])
    IN  best[Len(s.keys)]

calculate_rank(s, p) ==
    LET Increased(n) ==
            IF n = 0 \/ INFINITE_RANK - s.parents[p].rank < s.ds6[n].link_metric
            THEN INFINITE_RANK ELSE s.parents[p].rank + s.ds6[n].link_metric
    IN  IF p = 0 THEN INFINITE_RANK ELSE Increased(rpl_get_nbr(s, p))

acceptable_rank(s, r) ==
    r # INFINITE_RANK /\ (MAX_RANKINC = 0 \/ r <= s.min_rank + MAX_RANKINC)

(* The rank and the default route that follow from the parent that was      *)
(* chosen; old was the preferred parent before.                             *)
Ranked(s, old, rank) ==
    LET lowest == old = 0 \/ rank < s.min_rank
        ranked == [s EXCEPT !.rank = rank, !.min_rank = IF lowest THEN rank ELSE @]
    IN
    IF ~lowest /\ ~acceptable_rank(s, rank)
    THEN rpl_local_repair(rpl_set_preferred_parent(ranked, 0))
    ELSE IF s.preferred # old THEN rpl_set_default_route(ranked, IpOf(s, s.preferred))
    ELSE ranked

rpl_select_parent(s, best) ==
    LET Chosen(t) == Ranked(t, s.preferred, calculate_rank(t, t.preferred))
    IN  IF best = 0 THEN rpl_local_repair(s) ELSE Chosen(rpl_set_preferred_parent(s, best))

(* A node with the rank of a root keeps the parent it has; without one that *)
(* can be chosen the parents are given up.                                  *)
rpl_select_dag(s) ==
    IF s.rank = ROOT_RANK THEN Ranked(s, s.preferred, calculate_rank(s, s.preferred))
    ELSE rpl_select_parent(s, best_parent(s))

(* A parent that is not acceptable is nullified, and no other one chosen.  *)
rpl_process_parent_event(s, p) ==
    IF acceptable_rank(s, s.parents[p].rank) THEN rpl_select_dag(s)
    ELSE rpl_nullify_parent(s, p)

rpl_recalculate_ranks(s) ==
    EachParent(s, LAMBDA t, p :
        IF t.parents[p].updated
        THEN rpl_process_parent_event([t EXCEPT !.parents[p].updated = FALSE], p)
        ELSE t)

-----------------------------------------------------------------------------
(* Neighbours *)

(* RPL learns of each neighbour that is added or removed: a parent at its   *)
(* address has an infinite rank until it is heard of again.                 *)
rpl_ipv6_neighbor_callback(s, n) ==
    LET p == rpl_find_parent(s, s.ds6[n].ip)
    IN  IF ~s.joined \/ p = 0 THEN s
        ELSE [s EXCEPT !.parents[p].rank = INFINITE_RANK, !.parents[p].updated = TRUE]

uip_ds6_nbr_rm(s, n) == [rpl_ipv6_neighbor_callback(s, n) EXCEPT !.ds6[n] = Null]

(* The callbacks of the three tables, for a slot that they use *)
Forget(s, i) == IF s.ds6[i] = Null THEN s ELSE uip_ds6_nbr_rm(s, i)
ForgetRoutes(s, i) == IF s.lists[i] = Null THEN s ELSE rm_routelist(s, i)
ForgetParent(s, i) == IF s.parents[i] = Null THEN s ELSE rpl_remove_parent(s, i)

(* Mutant of Evict: nbr_routes has no callback. *)
Evict_routed(s, i) == ForgetParent(Forget(s, i), i)

(* The tables give up slot i in the order of their registration. *)
Evict(s, i) == ForgetParent(ForgetRoutes(Forget(s, i), i), i)

(* A slot for address l: the one it has, a free one or the least used one; *)
(* slot is zero when there is none.                                         *)
nbr_table_add_lladdr(s, l) ==
    LET i == index_from_lladdr(s, l)
        Given(v) == [slot |-> v, state |-> IF v = 0 THEN s ELSE Rekeyed(Evict(s, v), v, l)]
    IN  IF i # 0 THEN [slot |-> i, state |-> s]
        ELSE IF HasSpace(s) THEN [slot |-> Len(s.keys) + 1, state |-> Rekeyed(s, Len(s.keys) + 1, l)]
        ELSE Given(LeastUsed(s))

(* The neighbour ip is new in the cache; what the slot held is overwritten. *)
uip_ds6_nbr_add(s, ip, l, state) ==
    LET entry == [ip |-> ip, state |-> state, link_metric |-> 0]
        Filled(a) == IF a.slot = 0 THEN a.state
                     ELSE rpl_ipv6_neighbor_callback([a.state EXCEPT !.ds6[a.slot] = entry], a.slot)
    IN  Filled(nbr_table_add_lladdr(s, l))

(* The sender x of a DIO or DAO is known by the frame that carried it. *)
Heard(s, x) ==
    IF uip_ds6_nbr_lookup(s, x) # 0 THEN s ELSE uip_ds6_nbr_add(s, x, x, "RESOLVED")

-----------------------------------------------------------------------------
(* RPL messages *)

(* ds6_neighbors must know the address x.  A neighbour without a link       *)
(* metric gets the initial one.                                             *)
rpl_add_parent(s, x, rank) ==
    LET p == index_from_lladdr(s, s.lladdr[uip_ds6_nbr_lookup(s, x)])
        n == rpl_get_nbr(s, p)
        added == [s EXCEPT !.parents[p] = [rank |-> rank, updated |-> FALSE]]
    IN  [state |-> IF n # 0 /\ s.ds6[n].link_metric = 0
                   THEN [added EXCEPT !.ds6[n].link_metric = INIT_LINK_METRIC] ELSE added,
         parent |-> p]

rpl_join_instance(s, x, rank) ==
    LET Chosen(a) == rpl_set_preferred_parent([a.state EXCEPT !.joined = TRUE], a.parent)
        Joined(t) == LET own == calculate_rank(t, t.preferred)
                     IN  [t EXCEPT !.rank = own, !.min_rank = own]
    IN  rpl_set_default_route(Joined(Chosen(rpl_add_parent(s, x, rank))), x)

global_repair(s, x, rank) ==
    LET Restarted(t, p, own) ==
            rpl_process_parent_event([t EXCEPT !.rank = own, !.min_rank = own], p)
        Repaired(a) == Restarted(a.state, a.parent, calculate_rank(a.state, a.parent))
    IN  Repaired(rpl_add_parent([remove_parents(s) EXCEPT !.min_rank = INFINITE_RANK], x, rank))

(* The default route gets a new lifetime when the preferred parent speaks. *)
rpl_process_dio(s, x, rank) ==
    LET Refreshed(t, p) == IF t.preferred = p THEN uip_ds6_defrt_add(t, x) ELSE t
        Processed(t, p) == Refreshed(rpl_process_parent_event(t, p), p)
        Known(p) == IF p = 0 THEN rpl_add_parent(s, x, rank)
                    ELSE [state |-> [s EXCEPT !.parents[p].rank = rank], parent |-> p]
        Done(a) == Processed(a.state, a.parent)
    IN  Done(Known(rpl_find_parent(s, x)))

(* What a DIO does once its sender x is in the neighbour cache, if it is. *)
DioProcessed(s, x, rank, version) ==
    IF uip_ds6_nbr_lookup(s, x) = 0 THEN s
    ELSE IF ~s.joined THEN rpl_join_instance(s, x, rank)
    ELSE IF s.rank = ROOT_RANK \/ version = "older" THEN s
    ELSE IF version = "newer" THEN global_repair(s, x, rank)
    ELSE rpl_process_dio(s, x, rank)

(* A DIO of router x, of an older, the same or a newer version of the DAG *)
dio_input(x, rank, version) == node' = DioProcessed(Heard(node, x), x, rank, version)

Loop(p) == p # 0 /\ (node.parents[p].rank < node.rank \/ p = node.preferred)

(* A DAO from a node that is closer to the root shows a loop. *)
dao_input_loop(x) ==
    LET p == rpl_find_parent(node, x) IN
    /\ node.joined
    /\ Loop(p)
    /\ node' = [node EXCEPT !.parents[p].rank = INFINITE_RANK, !.parents[p].updated = TRUE]

(* A no-path DAO lets the route expire: purge_routes may remove it. *)
dao_input_no_path(x, d) ==
    /\ node.joined
    /\ ~Loop(rpl_find_parent(node, x))
    /\ node' = uip_ds6_route_lookup(node, d)

(* A parent that sends a DAO is locked. *)
dao_input(x, d) ==
    LET p == rpl_find_parent(node, x)
        Routed(s) == IF uip_ds6_nbr_lookup(s, x) = 0 THEN s
                     ELSE uip_ds6_route_add([s EXCEPT !.locked = @ \cup ({p} \ {0})], d, x)
    IN
    /\ node.joined
    /\ ~Loop(p)
    /\ node' = Routed(Heard(uip_ds6_route_lookup(node, d), x))

(* A packet came back that could not be forwarded. *)
rpl_verify_header_error(d) ==
    LET s == uip_ds6_route_lookup(node, d) IN
    /\ node.joined
    /\ HasRoute(node, d)
    /\ node' = uip_ds6_route_rm(s, s.routes[1])

(* Each second: at most one of the routes that expired goes; then the ranks *)
(* of the parents that were flagged are worked out.                         *)
handle_periodic_timer ==
    \/ node' = rpl_recalculate_ranks(node)
    \/ \E k \in DOMAIN node.routes :
          node' = rpl_recalculate_ranks(uip_ds6_route_rm(node, node.routes[k]))

(* A transmission to x was measured. *)
rpl_link_neighbor_callback(x, metric) ==
    LET p == rpl_find_parent(node, x) IN
    /\ node.joined
    /\ p # 0
    /\ LET n == rpl_get_nbr(node, p)
           flagged == [node EXCEPT !.parents[p].updated = TRUE]
       IN  node' = IF n = 0 THEN flagged ELSE [flagged EXCEPT !.ds6[n].link_metric = metric]

-----------------------------------------------------------------------------
(* Packets and neighbour discovery *)

(* A packet for nexthop makes a neighbour that is not known yet incomplete, *)
(* at linkaddr_null, until it answers the solicitation.                     *)
SendTo(s, nexthop) ==
    IF uip_ds6_nbr_lookup(s, nexthop) # 0 THEN s
    ELSE uip_ds6_nbr_add(s, nexthop, Null, "INCOMPLETE")

output_on_link(x) == node' = SendTo(node, x)

(* A route whose next hop is dead goes, and the packet with it. *)
output_routed(d) ==
    LET Sent(s, nexthop) == IF nexthop = Null THEN uip_ds6_route_rm(s, s.routes[1])
                            ELSE SendTo(s, nexthop)
        Found(s) == Sent(s, uip_ds6_route_nexthop(s, s.routes[1]))
    IN
    /\ HasRoute(node, d)
    /\ node' = Found(uip_ds6_route_lookup(node, d))

output_default ==
    LET nexthop == uip_ds6_defrt_choose(node) IN
    /\ nexthop # Null
    /\ node' = SendTo(node, nexthop)

(* The address that x tells replaces the one in the key. *)
Resolved(n, x) ==
    [node EXCEPT !.lladdr[n] = x, !.ds6[n].state = "RESOLVED"]

na_input(x) ==
    LET n == uip_ds6_nbr_lookup(node, x) IN
    /\ n # 0
    /\ node' = Resolved(n, x)

ns_input(x) ==
    LET n == uip_ds6_nbr_lookup(node, x) IN
    node' = IF n = 0 THEN uip_ds6_nbr_add(node, x, x, "RESOLVED") ELSE Resolved(n, x)

(* The solicitations of neighbour n stay unanswered; the default router of  *)
(* its address goes with one that was probed.                               *)
uip_ds6_neighbor_periodic(n) ==
    LET ip == node.ds6[n].ip
        block == IF node.ds6[n].state = "INCOMPLETE" THEN 0 ELSE uip_ds6_defrt_lookup(node, ip)
    IN
    /\ node.ds6[n] # Null
    /\ node' = uip_ds6_nbr_rm(uip_ds6_defrt_rm(node, block), n)

uip_ds6_defrt_periodic ==
    \E k \in DOMAIN node.defrt : node' = uip_ds6_defrt_rm(node, node.defrt[k].block)

-----------------------------------------------------------------------------
Next ==
    \/ \E x \in Routers :
          \/ \E rank \in DioRanks, version \in {"older", "same", "newer"} :
                dio_input(x, rank, version)
          \/ dao_input_loop(x)
          \/ \E d \in Targets : dao_input(x, d) \/ dao_input_no_path(x, d)
          \/ \E metric \in LinkMetrics : rpl_link_neighbor_callback(x, metric)
    \/ \E x \in Nodes : na_input(x) \/ ns_input(x)
    \/ \E x \in Hosts : output_on_link(x)
    \/ \E d \in Targets : output_routed(d) \/ rpl_verify_header_error(d)
    \/ output_default
    \/ \E n \in Indices : uip_ds6_neighbor_periodic(n)
    \/ uip_ds6_defrt_periodic
    \/ handle_periodic_timer

Spec == Init /\ [][Next]_node

-----------------------------------------------------------------------------
(* The routing table and the lists of routes of the neighbours mirror each  *)
(* other, and a neighbour has a list while a route goes through it: routes  *)
(* are reached from both sides (uip-ds6-route.c:441 and 478), and a slot    *)
(* that is reused under a route would turn it to another neighbour.         *)
RoutesConsistent ==
    /\ IsInjective([k \in DOMAIN node.routes |-> node.routes[k].dest])
    /\ \A i \in Indices :
          LET through == {r.dest : r \in {node.routes[k] : k \in
                            {j \in DOMAIN node.routes : node.routes[j].index = i}}}
          IN  node.lists[i] = IF through = {} THEN Null ELSE through

(* "Always keep the preferred parent locked, so it remains in the neighbor  *)
(* table" (rpl-dag.c:165): its slot is not given to another neighbour while *)
(* the node sends its packets there, however full the table is.             *)
PreferredStays ==
    [][node.preferred # 0 /\ node'.preferred = node.preferred =>
          node'.lladdr[node.preferred] = node.lladdr[node.preferred]]_node

(* A default router is the preferred parent, and the neighbour cache knows  *)
(* it: the router list, the cache and the choice of parents are changed by  *)
(* different handlers, and def_route may dangle (rpl-dag.c:440).            *)
DefaultIsParent ==
    \A k \in DOMAIN node.defrt :
        /\ node.preferred # 0
        /\ node.defrt[k].ip = IpOf(node, node.preferred)

(* A route leads to the neighbour whose DAO announced it, or to none (each  *)
(* route entry belongs to a specific neighbor, uip-ds6-route.h:113).        *)
RoutesLead ==
    \A k \in DOMAIN node.routes :
        {node.lladdr[node.routes[k].index], uip_ds6_route_nexthop(node, node.routes[k])}
            \subseteq {node.routes[k].via, Null}

(* ROOT_RANK is the "rank of a root node" (rpl-private.h:132), and the code *)
(* takes a node that has it for a root: it ignores DIOs and chooses no      *)
(* parent.  The node modelled is not a root, so its rank must not become    *)
(* that, whatever it hears and forgets.                                     *)
RankIsNoRoots == node.rank # ROOT_RANK
=============================================================================
