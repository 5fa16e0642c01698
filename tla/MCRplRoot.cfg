SPECIFICATION Spec
CONSTANTS
    Null = Null
    Routers = {a, b}
    Hosts = {h}
    Targets = {t1, t2, t3}
    NBR_TABLE_MAX_NEIGHBORS = 2
    UIP_DS6_ROUTE_NB = 2
    UIP_DS6_DEFRT_NB = 2
    ROOT_RANK = 1
    INFINITE_RANK = 4
    MAX_RANKINC = 1
    INIT_LINK_METRIC = 1
    LinkMetrics = {2}
    MAX_PATH_COST = 9
    MIN_DIFF = 1
    DioRanks = {1, 4}
SYMMETRY TargetSymmetry
INVARIANT RankIsNoRoots
