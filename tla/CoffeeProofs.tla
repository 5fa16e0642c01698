---------------------------- MODULE CoffeeProofs ----------------------------
(***************************************************************************)
(* Theorems about the Coffee file system, for every geometry of the flash, *)
(* size of the cache and number of torn flash operations.  What they ask   *)
(* is Disciplined of module Coffee, of the calls and never of the          *)
(* constants: no seek leaves the pages there are for data, the cache has   *)
(* room when a call begins, and no obsolete extent then reaches out of the *)
(* sectors that its header shares with active files.  Under it extents     *)
(* stay apart, what is cached agrees with the medium, and Coffee           *)
(* implements FileStore.                                                   *)
(*                                                                         *)
(* The invariant CoffeeInv looks at the medium in two ways.  The flash     *)
(* operations still to come lead from it to the Image, and after each of   *)
(* them, also a torn one, it is Laid: no header lies in the extent of      *)
(* another.  And the Image, with the cache, is a memory that the functions *)
(* of the code may start from: while the medium is Mountable a search      *)
(* stands only on pages that no extent goes over, whatever data says.      *)
(* Each function has one lemma for what it does to the Active extents and  *)
(* to the memory.                                                          *)
(***************************************************************************)
EXTENDS Coffee, FiniteSetTheorems, SequenceTheorems, TLAPS

-----------------------------------------------------------------------------
(* Arithmetic of sectors *)

LEMMA Sizes0 ==
  /\ PAGES_PER_SECTOR \in Nat /\ PAGES_PER_SECTOR > 0
  /\ SECTOR_COUNT \in Nat /\ SECTOR_COUNT > 0
  /\ MAX_OPEN_FILES \in Nat /\ MAX_OPEN_FILES > 0
  /\ FD_SET_SIZE \in Nat /\ FD_SET_SIZE > 0
  /\ DYN_PAGES \in Nat /\ DYN_PAGES > 0
  BY CoffeeAssumption DEF CoffeeAssumption

LEMMA Products ==
  ASSUME NEW K \in Nat, K > 0, NEW x \in Nat, NEW y \in Nat
  PROVE  /\ x * K \in Nat /\ (x + y) * K = x * K + y * K
         /\ (x + 1) * K = x * K + K
         /\ x < y => x * K + K <= y * K
  <1>1. x * K \in Nat /\ (x + 1) * K = x * K + K /\ (x + y) * K = x * K + y * K
    OBVIOUS
  <1>2. ASSUME x < y PROVE x * K + K <= y * K
    <2>1. PICK d \in Nat : y = (x + 1) + d
      <3>1. y - (x + 1) \in Nat /\ y = (x + 1) + (y - (x + 1))
        BY <1>2
      <3> QED BY <3>1
    <2>2. y * K = (x + 1) * K + d * K
      BY <2>1
    <2>3. d * K \in Nat
      OBVIOUS
    <2> QED BY <1>1, <2>2, <2>3
  <1> QED BY <1>1, <1>2

LEMMA PageFacts ==
  /\ PAGE_COUNT \in Nat /\ PAGE_COUNT > 0
  /\ PAGE_COUNT = SECTOR_COUNT * PAGES_PER_SECTOR
  /\ \A p : p \in Pages <=> p \in Nat /\ p < PAGE_COUNT
  /\ Pages \subseteq Nat
  <1>1. /\ SECTOR_COUNT \in Nat /\ PAGES_PER_SECTOR \in Nat /\ 0 < SECTOR_COUNT
        /\ PAGES_PER_SECTOR > 0
    BY Sizes0
  <1>2. PAGE_COUNT = SECTOR_COUNT * PAGES_PER_SECTOR
    BY DEF PAGE_COUNT
  <1>3. PAGE_COUNT \in Nat
    BY <1>1, <1>2, Products
  <1>4. 0 * PAGES_PER_SECTOR + PAGES_PER_SECTOR <= PAGE_COUNT
    BY <1>1, <1>2, Products
  <1> QED BY <1>1, <1>2, <1>3, <1>4 DEF Pages

LEMMA SectorFacts ==
  ASSUME NEW p \in Nat
  PROVE  /\ Sector(p) \in Nat
         /\ Sector(p) * PAGES_PER_SECTOR \in Nat
         /\ Sector(p) * PAGES_PER_SECTOR <= p
         /\ p < Sector(p) * PAGES_PER_SECTOR + PAGES_PER_SECTOR
         /\ (Sector(p) + 1) * PAGES_PER_SECTOR
               = Sector(p) * PAGES_PER_SECTOR + PAGES_PER_SECTOR
         /\ \A x \in Nat : Sector(p) = x <=>
               x * PAGES_PER_SECTOR <= p /\ p < x * PAGES_PER_SECTOR + PAGES_PER_SECTOR
         /\ \A x \in Nat : Sector(p) < x <=> p < x * PAGES_PER_SECTOR
         /\ p \in Pages => Sector(p) \in 0 .. SECTOR_COUNT - 1
  <1> DEFINE K == PAGES_PER_SECTOR
  <1>1. K \in Nat /\ K > 0 /\ SECTOR_COUNT \in Nat
    BY Sizes0
  <1>2. Sector(p) = p \div K
    BY DEF Sector
  <1>3. p \in Pages => p < SECTOR_COUNT * K
    BY PageFacts
  <1> HIDE DEF K
  <1>5. PICK x \in Nat : x = p \div K
    BY <1>1
  <1>6. x * K <= p /\ p < x * K + K
    <2>1. p = K * x + (p % K) /\ p % K \in 0 .. K - 1
      BY <1>1, <1>5
    <2>2. K * x = x * K /\ x * K \in Nat
      BY <1>1
    <2> QED BY <1>1, <2>1, <2>2
  <1>7. (x + 1) * K = x * K + K /\ x * K \in Nat
    BY <1>1, Products
  <1>8. ASSUME NEW y \in Nat
        PROVE  /\ x < y <=> p < y * K
               /\ y < x => y * K + K <= p
               /\ y * K \in Nat
    <2>1. y * K \in Nat
      BY <1>1
    <2>2. x < y => x * K + K <= y * K
      BY <1>1, Products
    <2>3. y < x => y * K + K <= x * K
      BY <1>1, Products
    <2>4. y = x => y * K = x * K
      OBVIOUS
    <2>5. x < y \/ y < x \/ x = y
      OBVIOUS
    <2> QED BY <1>1, <1>6, <1>7, <2>1, <2>2, <2>3, <2>4, <2>5
  <1>9. ASSUME NEW y \in Nat PROVE x = y <=> y * K <= p /\ p < y * K + K
    <2>1. x < y \/ y < x \/ x = y
      OBVIOUS
    <2> QED BY <1>1, <1>6, <1>7, <1>8, <2>1
  <1>10. ASSUME p \in Pages PROVE x \in 0 .. SECTOR_COUNT - 1
    BY <1>1, <1>3, <1>8, <1>10
  <1> QED BY <1>2, <1>5, <1>6, <1>7, <1>8, <1>9, <1>10 DEF K

LEMMA SectorOrder ==
  ASSUME NEW p \in Nat, NEW q \in Nat, p <= q
  PROVE  Sector(p) <= Sector(q)
  <1>1. Sector(q) < Sector(p) <=> q < Sector(p) * PAGES_PER_SECTOR
    BY SectorFacts
  <1>2. Sector(p) * PAGES_PER_SECTOR <= p
    BY SectorFacts
  <1> QED BY <1>1, <1>2, SectorFacts

(* The pages of a sector *)
LEMMA SectorBounds ==
  ASSUME NEW x \in 0 .. SECTOR_COUNT - 1
  PROVE  /\ x * PAGES_PER_SECTOR \in Nat
         /\ (x + 1) * PAGES_PER_SECTOR = x * PAGES_PER_SECTOR + PAGES_PER_SECTOR
         /\ x * PAGES_PER_SECTOR + PAGES_PER_SECTOR <= PAGE_COUNT
         /\ x * PAGES_PER_SECTOR \in Pages
         /\ Sector(x * PAGES_PER_SECTOR) = x
         /\ \A q \in Nat : Sector(q) = x <=>
               x * PAGES_PER_SECTOR <= q /\ q < x * PAGES_PER_SECTOR + PAGES_PER_SECTOR
         /\ \A q \in Nat : q < x * PAGES_PER_SECTOR <=> Sector(q) < x
         /\ \A q : q \in SectorPages(x) <=> q \in Pages /\ Sector(q) = x
  <1>1. /\ x \in Nat /\ x < SECTOR_COUNT /\ SECTOR_COUNT \in Nat
        /\ PAGES_PER_SECTOR \in Nat /\ PAGES_PER_SECTOR > 0
    BY Sizes0
  <1>2. /\ x * PAGES_PER_SECTOR \in Nat
        /\ (x + 1) * PAGES_PER_SECTOR = x * PAGES_PER_SECTOR + PAGES_PER_SECTOR
        /\ x * PAGES_PER_SECTOR + PAGES_PER_SECTOR <= PAGE_COUNT
    BY <1>1, Products, PageFacts
  <1>3. x * PAGES_PER_SECTOR < PAGE_COUNT
    BY <1>1, <1>2, PageFacts
  <1>4. \A q \in Nat : Sector(q) = x <=>
           x * PAGES_PER_SECTOR <= q /\ q < x * PAGES_PER_SECTOR + PAGES_PER_SECTOR
    BY <1>1, SectorFacts
  <1>5. Sector(x * PAGES_PER_SECTOR) = x
    BY <1>1, <1>2, <1>4
  <1>6. \A q \in Nat : q < x * PAGES_PER_SECTOR <=> Sector(q) < x
    BY <1>1, SectorFacts
  <1> QED BY <1>2, <1>3, <1>4, <1>5, <1>6, PageFacts DEF SectorPages

-----------------------------------------------------------------------------
(* Sets of naturals *)

Less == {p \in Nat \X Nat : p[1] < p[2]}

(* A set of naturals that is not empty has a least element. *)
LEMMA LeastElement ==
  ASSUME NEW T \in SUBSET Nat, T # {}
  PROVE  Min(T) \in T /\ \A y \in T : Min(T) <= y
  <1>1. IsWellFoundedOn(OpToRel(<, Nat), Nat)
    BY NatLessThanWellFounded, Zenon
  <1>2. Less = OpToRel(<, Nat)
    BY DEF Less, OpToRel
  <1>3. IsWellFoundedOn(Less, Nat)
    BY <1>1, <1>2, Zenon
  <1>4. PICK x \in T : \A y \in T : <<y, x>> \notin Less
    BY <1>3, WFMin
  <1>5. \A y \in T : x <= y
    <2> SUFFICES ASSUME NEW y \in T, ~(x <= y) PROVE FALSE
      OBVIOUS
    <2>1. y < x /\ y \in Nat /\ x \in Nat
      OBVIOUS
    <2> QED BY <1>4, <2>1 DEF Less
  <1>6. \E z \in T : \A y \in T : z =< y
    BY <1>5
  <1> QED BY <1>6 DEF Min

LEMMA SetInduction ==
  ASSUME NEW S, 0 \in S, \A n \in Nat : n \in S => n + 1 \in S
  PROVE  Nat \subseteq S
  <1> SUFFICES ASSUME Nat \ S # {} PROVE FALSE
    OBVIOUS
  <1>1. PICK T : T = Nat \ S
    OBVIOUS
  <1>2. T \in SUBSET Nat /\ T # {}
    BY <1>1
  <1>3. PICK x \in T : \A y \in T : x <= y
    BY <1>2, LeastElement
  <1>4. x # 0 /\ x - 1 \in Nat /\ (x - 1) + 1 = x
    BY <1>1
  <1>5. x - 1 \in S
    BY <1>1, <1>3, <1>4
  <1> QED BY <1>1, <1>4, <1>5

(* What holds at the start of 0 .. n and is kept by each step holds at n.  *)
LEMMA WalkInduction ==
  ASSUME NEW n \in Nat, NEW S, 0 \in S, \A k \in 1 .. n : k - 1 \in S => k \in S
  PROVE  0 .. n \subseteq S
  <1>1. PICK T : T = {k \in Nat : k <= n => k \in S}
    OBVIOUS
  <1>2. 0 \in T
    BY <1>1
  <1>3. \A k \in Nat : k \in T => k + 1 \in T
    <2> SUFFICES ASSUME NEW k \in Nat, k \in T, k + 1 <= n PROVE k + 1 \in S
      BY <1>1
    <2>1. k + 1 \in 1 .. n /\ (k + 1) - 1 = k /\ k \in S
      BY <1>1
    <2> QED BY <2>1
  <1>4. Nat \subseteq T
    BY <1>2, <1>3, SetInduction
  <1> QED BY <1>1, <1>4

(* A set of naturals with an upper bound has a greatest element. *)
LEMMA GreatestElement ==
  ASSUME NEW T \in SUBSET Nat, T # {}, NEW b \in Nat, \A y \in T : y <= b
  PROVE  Max(T) \in T /\ \A y \in T : y <= Max(T)
  <1>1. PICK R : R = {b - y : y \in T}
    OBVIOUS
  <1>2. R \in SUBSET Nat /\ R # {}
    <2>1. \A y \in T : y \in Nat /\ y <= b
      OBVIOUS
    <2>2. \A y \in T : b - y \in Nat
      BY <2>1
    <2>3. \A z \in R : z \in Nat
      BY <1>1, <2>2
    <2>4. PICK y \in T : TRUE
      OBVIOUS
    <2>5. b - y \in R
      BY <1>1
    <2> QED BY <2>3, <2>5
  <1>3. PICK r \in R : \A z \in R : r <= z
    BY <1>2, LeastElement
  <1>4. PICK x \in T : r = b - x
    BY <1>1
  <1>5. \A y \in T : x >= y
    BY <1>1, <1>3, <1>4
  <1>6. \E z \in T : \A y \in T : z >= y
    BY <1>5
  <1>7. Max(T) \in T /\ \A y \in T : Max(T) >= y
    BY <1>6 DEF Max
  <1> QED BY <1>7

LEMMA Extrema ==
  /\ \A x, y \in Int : Max({x, y}) = (IF x >= y THEN x ELSE y)
  /\ \A x, y \in Int : Min({x, y}) = (IF x <= y THEN x ELSE y)
  /\ \A x \in Int : Max({x}) = x /\ Min({x}) = x
  <1>1. ASSUME NEW x \in Int, NEW y \in Int
        PROVE  Max({x, y}) = (IF x >= y THEN x ELSE y)
    <2>1. \E z \in {x, y} : \A w \in {x, y} : z >= w
      OBVIOUS
    <2>2. Max({x, y}) \in {x, y} /\ \A w \in {x, y} : Max({x, y}) >= w
      BY <2>1 DEF Max
    <2> QED BY <2>2
  <1>2. ASSUME NEW x \in Int, NEW y \in Int
        PROVE  Min({x, y}) = (IF x <= y THEN x ELSE y)
    <2>1. \E z \in {x, y} : \A w \in {x, y} : z =< w
      OBVIOUS
    <2>2. Min({x, y}) \in {x, y} /\ \A w \in {x, y} : Min({x, y}) =< w
      BY <2>1 DEF Min
    <2> QED BY <2>2
  <1>3. ASSUME NEW x \in Int PROVE Max({x}) = x /\ Min({x}) = x
    <2>1. \E z \in {x} : \A w \in {x} : z >= w
      OBVIOUS
    <2>2. \E z \in {x} : \A w \in {x} : z =< w
      OBVIOUS
    <2>3. Max({x}) \in {x} /\ Min({x}) \in {x}
      BY <2>1, <2>2 DEF Max, Min
    <2> QED BY <2>3
  <1> QED BY <1>1, <1>2, <1>3

-----------------------------------------------------------------------------
(* Walks that end *)

LEMMA WalkExists ==
  ASSUME NEW to \in Nat, NEW nx \in [Nat -> Nat]
  PROVE  \E V : V = [p \in Nat |-> IF p >= to THEN {} ELSE {p} \cup V[nx[p]]]
  <1> DEFINE Closed(S) == \A x \in S : x < to => nx[x] \in S
             In(p, q) == q < to /\ \A S \in SUBSET Nat : p \in S /\ Closed(S) => q \in S
  <1>1. PICK V : V = [p \in Nat |-> {q \in Nat : In(p, q)}]
    OBVIOUS
  <1>2. ASSUME NEW p \in Nat, p >= to PROVE V[p] = {}
    <2> SUFFICES ASSUME NEW q \in Nat, In(p, q) PROVE FALSE
      BY <1>1
    <2>1. p \in {p} /\ Closed({p}) /\ {p} \in SUBSET Nat
      BY <1>2
    <2>2. q \in {p} /\ q < to
      BY <2>1
    <2> QED BY <1>2, <2>2
  <1>3. ASSUME NEW p \in Nat, p < to PROVE V[p] = {p} \cup V[nx[p]]
    <2>0. nx[p] \in Nat
      OBVIOUS
    <2>1. V[p] = {q \in Nat : In(p, q)} /\ V[nx[p]] = {q \in Nat : In(nx[p], q)}
      BY <1>1, <2>0
    <2>2. In(p, p)
      BY <1>3
    <2>3. ASSUME NEW q \in Nat, In(nx[p], q) PROVE In(p, q)
      <3>1. ASSUME NEW S \in SUBSET Nat, p \in S, Closed(S) PROVE q \in S
        <4>1. nx[p] \in S
          BY <1>3, <3>1
        <4> QED BY <2>3, <3>1, <4>1
      <3> QED BY <2>3, <3>1
    <2>4. ASSUME NEW q \in Nat, In(p, q), q # p PROVE In(nx[p], q)
      <3>1. ASSUME NEW S \in SUBSET Nat, nx[p] \in S, Closed(S) PROVE q \in S
        <4>1. PICK R : R = S \cup {p}
          OBVIOUS
        <4>2. R \in SUBSET Nat /\ p \in R /\ Closed(R)
          BY <3>1, <4>1
        <4>3. q \in R
          BY <2>4, <4>2
        <4> QED BY <2>4, <4>1, <4>3
      <3> QED BY <2>4, <3>1
    <2> HIDE DEF In
    <2> QED BY <2>1, <2>2, <2>3, <2>4
  <1>4. ASSUME NEW p \in Nat PROVE V[p] = IF p >= to THEN {} ELSE {p} \cup V[nx[p]]
    <2>1. CASE p >= to
      BY <1>2, <2>1
    <2>2. CASE p < to
      <3>1. ~(p >= to)
        BY <2>2
      <3>2. V[p] = {p} \cup V[nx[p]]
        BY <1>3, <2>2
      <3> QED BY <3>1, <3>2
    <2> QED BY <2>1, <2>2
  <1> HIDE DEF In
  <1>5. V = [p \in Nat |-> IF p >= to THEN {} ELSE {p} \cup V[nx[p]]]
    BY <1>1, <1>4
  <1> QED BY <1>5

-----------------------------------------------------------------------------
(* The layout of the medium *)

PageType == [kind : {"free", "active", "obsolete", "isolated", "data"},
             name : Names \cup {Absent},
             max_pages : 0 .. PAGE_COUNT, value : Values \cup {Zero}]
Media == [Pages -> PageType]

IsHeader(page) == page.kind \in {"active", "obsolete"}

(* The extent of the header at h goes over page p. *)
Covers(fl, h, p) == IsHeader(fl[h]) /\ h < p /\ p < h + fl[h].max_pages

(* A page in no extent, or the first of one. *)
Uncovered(fl, p) == \A h \in Pages : ~Covers(fl, h, p)

GoodHeader(fl, p) ==
    /\ fl[p].max_pages > 0
    /\ p + fl[p].max_pages < PAGE_COUNT
    /\ fl[p].name \in Names

(* No header lies in the extent of another. *)
Laid(fl) ==
    /\ fl \in Media
    /\ \A p \in Pages : fl[p].kind = "free" => fl[p] = Free
    /\ \A p \in Pages : IsHeader(fl[p]) => GoodHeader(fl, p)
    /\ \A h, p \in Pages : Covers(fl, h, p) => ~IsHeader(fl[p])

(* A search may stand on p: what it takes for a header is one, and what it *)
(* skips as free is free.                                                  *)
FreeRest(fl, p) == \A q \in Pages : p <= q /\ Sector(q) = Sector(p) => fl[q] = Free
Clear(fl, p) == fl[p].kind # "data" /\ (fl[p].kind = "free" => FreeRest(fl, p))

Searchable(fl) == \A p \in Pages : Uncovered(fl, p) => Clear(fl, p)

LEMMA MediumPage ==
  ASSUME NEW fl, fl \in Media, NEW p \in Pages
  PROVE  /\ fl[p] \in PageType
         /\ fl[p].kind \in {"free", "active", "obsolete", "isolated", "data"}
         /\ fl[p].max_pages \in Nat
         /\ fl[p].name \in Names \cup {Absent}
         /\ fl[p].value \in Values \cup {Zero}
  <1>1. fl[p] \in PageType /\ PAGE_COUNT \in Nat
    BY PageFacts DEF Media
  <1> QED BY <1>1 DEF PageType

LEMMA NextIs ==
  ASSUME NEW fl, fl \in Media, NEW p \in Pages
  PROVE  /\ next_file(fl, p) \in Nat
         /\ fl[p].kind \in {"free", "data"} =>
               next_file(fl, p) = Sector(p) * PAGES_PER_SECTOR + PAGES_PER_SECTOR
         /\ fl[p].kind = "isolated" => next_file(fl, p) = p + 1
         /\ IsHeader(fl[p]) => next_file(fl, p) = p + fl[p].max_pages
  <1>1. /\ p \in Nat /\ PAGES_PER_SECTOR \in Nat
        /\ Sector(p) * PAGES_PER_SECTOR \in Nat
        /\ (Sector(p) + 1) * PAGES_PER_SECTOR = Sector(p) * PAGES_PER_SECTOR + PAGES_PER_SECTOR
    BY PageFacts, Sizes0, SectorFacts
  <1>2. /\ fl[p].kind \in {"free", "active", "obsolete", "isolated", "data"}
        /\ fl[p].max_pages \in Nat
    BY MediumPage
  <1>3. CASE fl[p].kind \in {"free", "data"}
    BY <1>1, <1>3 DEF next_file, IsHeader
  <1>4. CASE fl[p].kind = "isolated"
    BY <1>1, <1>4 DEF next_file, IsHeader
  <1>5. CASE IsHeader(fl[p])
    BY <1>1, <1>2, <1>5 DEF next_file, IsHeader
  <1> QED BY <1>2, <1>3, <1>4, <1>5 DEF IsHeader

LEMMA HeaderFacts ==
  ASSUME NEW fl, Laid(fl), NEW p \in Pages, IsHeader(fl[p])
  PROVE  /\ Uncovered(fl, p)
         /\ p \in Nat /\ fl[p].max_pages \in Nat /\ fl[p].max_pages > 0
         /\ p + fl[p].max_pages < PAGE_COUNT
         /\ fl[p].name \in Names
         /\ \A k \in 0 .. fl[p].max_pages - 1 : p + k \in Pages
  <1>1. GoodHeader(fl, p) /\ fl \in Media /\ \A h \in Pages : ~Covers(fl, h, p)
    BY DEF Laid
  <1>2. /\ fl[p].max_pages > 0 /\ p + fl[p].max_pages < PAGE_COUNT /\ fl[p].name \in Names
        /\ p \in Nat /\ fl[p].max_pages \in Nat
    BY <1>1, MediumPage, PageFacts DEF GoodHeader
  <1>3. \A k \in 0 .. fl[p].max_pages - 1 : p + k \in Pages
    BY <1>2, PageFacts
  <1> QED BY <1>1, <1>2, <1>3 DEF Uncovered

(* Two extents lie behind each other. *)
LEMMA HeadersApart ==
  ASSUME NEW fl, Laid(fl), NEW p \in Pages, NEW q \in Pages,
         IsHeader(fl[p]), IsHeader(fl[q]), p < q
  PROVE  p + fl[p].max_pages <= q
  <1>1. ~Covers(fl, p, q)
    BY DEF Laid
  <1>2. p \in Nat /\ q \in Nat /\ fl[p].max_pages \in Nat
    BY HeaderFacts
  <1> QED BY <1>1, <1>2 DEF Covers

(* A search goes from an uncovered page to one. *)
LEMMA NextUncovered ==
  ASSUME NEW fl, Laid(fl), NEW p \in Pages, Uncovered(fl, p), Clear(fl, p),
         NEW n, n = next_file(fl, p)
  PROVE  /\ n \in Nat /\ p < n /\ n <= PAGE_COUNT
         /\ Uncovered(fl, n)
         /\ \A q \in Pages : p < q /\ q < n =>
               Covers(fl, p, q) \/ (fl[p].kind = "free" /\ FreeRest(fl, q))
  <1>1. /\ p \in Nat /\ p < PAGE_COUNT /\ PAGE_COUNT \in Nat /\ fl \in Media
        /\ PAGES_PER_SECTOR \in Nat /\ PAGES_PER_SECTOR > 0
    BY PageFacts, Sizes0 DEF Laid
  <1>2. fl[p].kind # "data" /\ fl[p].kind \in {"free", "active", "obsolete", "isolated", "data"}
    BY <1>1, MediumPage DEF Clear
  <1>3. \A h \in Pages : h \in Nat /\ (IsHeader(fl[h]) => fl[h].max_pages \in Nat)
    BY HeaderFacts, PageFacts
  <1>4. ASSUME p < n, NEW h \in Pages, Covers(fl, h, n), n \in Nat PROVE h = p \/ p < h
    <2>0. IsHeader(fl[h]) /\ h < n /\ n < h + fl[h].max_pages /\ h \in Nat
          /\ fl[h].max_pages \in Nat
      BY <1>3, <1>4 DEF Covers
    <2>1. h < p => Covers(fl, h, p)
      BY <1>1, <1>4, <2>0 DEF Covers
    <2> QED BY <1>1, <1>3, <2>1 DEF Uncovered
  <1>5. CASE IsHeader(fl[p])
    <2>1. /\ fl[p].max_pages \in Nat /\ fl[p].max_pages > 0 /\ p + fl[p].max_pages < PAGE_COUNT
          /\ n = p + fl[p].max_pages
      BY <1>1, <1>5, HeaderFacts, NextIs
    <2>2. n \in Nat /\ p < n /\ n <= PAGE_COUNT
      BY <1>1, <2>1
    <2>3. \A q \in Pages : p < q /\ q < n => Covers(fl, p, q)
      BY <1>5, <2>1 DEF Covers
    <2>4. ASSUME NEW h \in Pages, Covers(fl, h, n) PROVE FALSE
      <3>1. h # p
        BY <2>1, <2>2, <2>4, <1>1 DEF Covers
      <3>2. p < h /\ h < n /\ IsHeader(fl[h])
        BY <1>4, <2>2, <2>4, <3>1 DEF Covers
      <3> QED BY <2>3, <3>2 DEF Laid
    <2> QED BY <2>2, <2>3, <2>4 DEF Uncovered
  <1>6. CASE fl[p].kind = "isolated"
    <2>1. n = p + 1 /\ ~IsHeader(fl[p])
      BY <1>1, <1>6, NextIs DEF IsHeader
    <2>2. n \in Nat /\ p < n /\ n <= PAGE_COUNT
      BY <1>1, <2>1
    <2>3. \A q \in Pages : ~(p < q /\ q < n)
      BY <1>1, <1>3, <2>1
    <2>4. ASSUME NEW h \in Pages, Covers(fl, h, n) PROVE FALSE
      <3>1. h # p /\ h < n
        BY <2>1, <2>4 DEF Covers
      <3> QED BY <1>4, <2>2, <2>3, <2>4, <3>1
    <2> QED BY <2>2, <2>3, <2>4 DEF Uncovered
  <1>7. CASE fl[p].kind = "free"
    <2>1. FreeRest(fl, p) /\ ~IsHeader(fl[p])
      BY <1>7 DEF Clear, IsHeader
    <2>2. n = Sector(p) * PAGES_PER_SECTOR + PAGES_PER_SECTOR
      BY <1>1, <1>7, NextIs
    <2>3. Sector(p) \in 0 .. SECTOR_COUNT - 1
      BY <1>1, SectorFacts
    <2>4. n \in Nat /\ p < n /\ n <= PAGE_COUNT
      <3>1. /\ Sector(p) * PAGES_PER_SECTOR \in Nat
            /\ p < Sector(p) * PAGES_PER_SECTOR + PAGES_PER_SECTOR
        BY <1>1, SectorFacts
      <3>2. Sector(p) * PAGES_PER_SECTOR + PAGES_PER_SECTOR <= PAGE_COUNT
        BY <2>3, SectorBounds
      <3> QED BY <1>1, <2>2, <3>1, <3>2
    <2>5. ASSUME NEW q \in Pages, p < q, q < n PROVE FreeRest(fl, q) /\ fl[q] = Free
      <3>1. q \in Nat /\ Sector(p) * PAGES_PER_SECTOR <= p
        BY <1>1, PageFacts, SectorFacts
      <3>2. Sector(p) * PAGES_PER_SECTOR <= q
        BY <1>1, <2>3, <2>5, <3>1, SectorBounds
      <3>3. Sector(q) = Sector(p)
        BY <2>2, <2>3, <2>5, <3>1, <3>2, SectorBounds
      <3>4. \A r \in Pages : q <= r => p <= r
        BY <1>1, <1>3, <2>5, <3>1
      <3> QED BY <1>1, <2>1, <2>5, <3>1, <3>3, <3>4 DEF FreeRest
    <2>6. ASSUME NEW h \in Pages, Covers(fl, h, n) PROVE FALSE
      <3>1. h < n /\ IsHeader(fl[h])
        BY <2>6 DEF Covers
      <3>2. h # p
        BY <2>1, <3>1
      <3>3. p < h
        BY <1>4, <2>4, <2>6, <3>2
      <3>4. fl[h] = Free
        BY <2>5, <3>1, <3>3
      <3> QED BY <3>1, <3>4 DEF IsHeader, Free, Page
    <2> QED BY <1>7, <2>4, <2>5, <2>6 DEF Uncovered
  <1> QED BY <1>2, <1>5, <1>6, <1>7 DEF IsHeader

(* The chain of a page is the page and the chain of the next one. *)
LEMMA ChainUnfold ==
  ASSUME NEW fl, \A p \in Pages : next_file(fl, p) \in Nat,
         NEW to \in Nat, to <= PAGE_COUNT
  PROVE  \A p \in Nat : Chain(fl, p, to) =
            IF p >= to THEN {} ELSE {p} \cup Chain(fl, next_file(fl, p), to)
  <1> DEFINE Eq(V) == V = [p \in Nat |-> IF p >= to THEN {} ELSE {p} \cup V[next_file(fl, p)]]
  <1>1. PICK nx : nx = [p \in Nat |-> IF p < to THEN next_file(fl, p) ELSE 0]
    OBVIOUS
  <1>2. ASSUME NEW p \in Nat, p < to
        PROVE  p \in Pages /\ nx[p] = next_file(fl, p) /\ next_file(fl, p) \in Nat
    <2>1. p \in Pages
      BY <1>2, PageFacts
    <2> QED BY <1>1, <1>2, <2>1
  <1>3. nx \in [Nat -> Nat]
    <2>1. ASSUME NEW p \in Nat PROVE (IF p < to THEN next_file(fl, p) ELSE 0) \in Nat
      BY <1>2
    <2> QED BY <1>1, <2>1
  <1>4. PICK V : V = [p \in Nat |-> IF p >= to THEN {} ELSE {p} \cup V[nx[p]]]
    BY <1>3, WalkExists
  <1>5. ASSUME NEW p \in Nat
        PROVE  (IF p >= to THEN {} ELSE {p} \cup V[nx[p]])
                  = IF p >= to THEN {} ELSE {p} \cup V[next_file(fl, p)]
    <2>1. CASE p >= to
      BY <2>1
    <2>2. CASE p < to
      BY <1>2, <2>2
    <2> QED BY <2>1, <2>2
  <1>6. Eq(V)
    BY <1>4, <1>5, Zenon
  <1>7. PICK W : Eq(W) /\ \A p : Chain(fl, p, to) = W[p]
    <2>1. \E W : Eq(W)
      BY <1>6
    <2>2. Eq(CHOOSE W : Eq(W))
      BY <2>1
    <2>3. \A p : Chain(fl, p, to) = (CHOOSE W : Eq(W))[p]
      BY DEF Chain
    <2> QED BY <2>2, <2>3
  <1>8. ASSUME NEW p \in Nat
        PROVE  W[p] = IF p >= to THEN {} ELSE {p} \cup W[next_file(fl, p)]
    BY <1>7
  <1> QED BY <1>7, <1>8

(* A search that starts where no extent goes over, and stands on headers    *)
(* and free pages only, meets each of them once and skips the rest.         *)
Meets(fl, C, from, to) ==
    /\ \A p \in C : p \in Pages /\ from <= p /\ p < to /\ Uncovered(fl, p) /\ Clear(fl, p)
    /\ \A p \in C : next_file(fl, p) \in C \/ next_file(fl, p) >= to
    /\ \A p, q \in C : ~(p < q /\ q < next_file(fl, p))
    /\ \A q \in Pages : from <= q /\ q < to =>
          \E p \in C : p <= q /\ q < next_file(fl, p)

LEMMA ChainMeets ==
  ASSUME NEW fl, Laid(fl), NEW to \in Nat, to <= PAGE_COUNT,
         NEW from \in Nat, Uncovered(fl, from),
         \A p \in Pages : p \in Chain(fl, from, to) /\ from <= p /\ p < to /\ Uncovered(fl, p)
            => Clear(fl, p)
  PROVE  Meets(fl, Chain(fl, from, to), from, to)
  <1>1. PAGE_COUNT \in Nat /\ fl \in Media
    BY PageFacts DEF Laid
  <1>2. \A p \in Nat : Chain(fl, p, to) =
            IF p >= to THEN {} ELSE {p} \cup Chain(fl, next_file(fl, p), to)
    BY <1>1, ChainUnfold, NextIs
  <1> DEFINE Good(p) == /\ Uncovered(fl, p)
                        /\ \A q \in Pages : q \in Chain(fl, p, to) /\ p <= q /\ q < to
                              /\ Uncovered(fl, q) => Clear(fl, q)
  <1>3. PICK T : T = {d \in Nat : \A p \in Nat : Good(p) /\ to <= p + d
                                     => Meets(fl, Chain(fl, p, to), p, to)}
    OBVIOUS
  <1>4. ASSUME NEW p \in Nat, p >= to PROVE Meets(fl, Chain(fl, p, to), p, to)
    <2>1. Chain(fl, p, to) = {}
      BY <1>2, <1>4
    <2>2. \A q \in Pages : ~(p <= q /\ q < to)
      BY <1>4, PageFacts
    <2> QED BY <2>1, <2>2 DEF Meets
  <1>5. 0 \in T
    BY <1>3, <1>4
  <1>6. ASSUME NEW d \in Nat, d \in T PROVE d + 1 \in T
    <2> SUFFICES ASSUME NEW p \in Nat, Good(p), to <= p + (d + 1), p < to
                 PROVE  Meets(fl, Chain(fl, p, to), p, to)
      <3>1. \A p \in Nat : p < to \/ p >= to
        OBVIOUS
      <3> QED BY <1>3, <1>4, <3>1
    <2>1. p \in Pages /\ p <= p
      BY <1>1, PageFacts
    <2>2. PICK n : n = next_file(fl, p)
      OBVIOUS
    <2>3. PICK C : C = Chain(fl, n, to)
      OBVIOUS
    <2>4. PICK D : D = Chain(fl, p, to)
      OBVIOUS
    <2>5. D = {p} \cup C
      <3>1. ~(p >= to)
        OBVIOUS
      <3> QED BY <1>2, <2>2, <2>3, <2>4, <3>1
    <2>6. Uncovered(fl, p) /\ Clear(fl, p)
      BY <2>1, <2>4, <2>5
    <2>7. /\ n \in Nat /\ p < n /\ n <= PAGE_COUNT /\ Uncovered(fl, n)
      BY <2>1, <2>2, <2>6, NextUncovered
    <2>8. Good(n)
      <3>1. ASSUME NEW q \in Pages, q \in C, n <= q, q < to, Uncovered(fl, q)
            PROVE  Clear(fl, q)
        <4>1. q \in Nat /\ p <= q
          BY <2>7, <3>1, PageFacts
        <4> QED BY <2>4, <2>5, <3>1, <4>1
      <3> QED BY <2>3, <2>7, <3>1
    <2>9. to <= n + d
      BY <2>7
    <2> HIDE DEF Good
    <2>10. Meets(fl, C, n, to)
      BY <1>3, <1>6, <2>3, <2>7, <2>8, <2>9
    <2>11. \A q \in C : q \in Pages /\ q \in Nat /\ n <= q /\ q < to /\ Uncovered(fl, q) /\ Clear(fl, q)
      BY <2>10, PageFacts DEF Meets
    <2>12. \A q \in D : q \in Pages /\ p <= q /\ q < to /\ Uncovered(fl, q) /\ Clear(fl, q)
      BY <2>1, <2>5, <2>6, <2>7, <2>11
    <2>13. \A q \in D : next_file(fl, q) \in D \/ next_file(fl, q) >= to
      <3>1. n \in C \/ n >= to
        <4>1. ASSUME ~(n >= to) PROVE n \in C
          BY <1>2, <2>3, <2>7, <4>1
        <4> QED BY <4>1
      <3> QED BY <2>2, <2>5, <2>10, <3>1 DEF Meets
    <2>14. \A q, r \in D : ~(q < r /\ r < next_file(fl, q))
      <3> SUFFICES ASSUME NEW q \in D, NEW r \in D, q < r, r < next_file(fl, q) PROVE FALSE
        OBVIOUS
      <3>1. CASE q = p
        BY <2>2, <2>5, <2>7, <2>11, <3>1
      <3>2. CASE q # p
        <4>1. q \in C /\ r # p
          BY <2>5, <2>7, <2>11, <3>2
        <4>2. r \in C
          BY <2>5, <4>1
        <4> QED BY <2>10, <4>1, <4>2 DEF Meets
      <3> QED BY <3>1, <3>2
    <2>15. ASSUME NEW q \in Pages, p <= q, q < to
           PROVE  \E r \in D : r <= q /\ q < next_file(fl, r)
      <3>1. q \in Nat
        BY PageFacts
      <3>2. CASE q < n
        BY <2>2, <2>5, <2>15, <3>2
      <3>3. CASE n <= q
        BY <2>5, <2>10, <2>15, <3>3 DEF Meets
      <3> QED BY <2>7, <3>1, <3>2, <3>3
    <2> QED BY <2>4, <2>12, <2>13, <2>14, <2>15 DEF Meets
  <1>7. Nat \subseteq T
    BY <1>5, <1>6, SetInduction
  <1>8. to \in T /\ to <= from + to
    BY <1>7
  <1> QED BY <1>3, <1>8

(* What a search does not meet is covered or free. *)
LEMMA MeetsAll ==
  ASSUME NEW fl, Laid(fl), NEW to, NEW from, NEW C, Meets(fl, C, from, to),
         NEW q \in Pages, from <= q, q < to, Uncovered(fl, q)
  PROVE  q \in C \/ FreeRest(fl, q)
  <1>1. PICK p \in C : p <= q /\ q < next_file(fl, p)
    BY DEF Meets
  <1>2. p \in Pages /\ p \in Nat /\ q \in Nat /\ Uncovered(fl, p) /\ Clear(fl, p)
    BY PageFacts DEF Meets
  <1>3. CASE p = q
    BY <1>3
  <1>4. CASE p < q
    <2>1. Covers(fl, p, q) \/ FreeRest(fl, q)
      BY <1>1, <1>2, <1>4, NextUncovered
    <2> QED BY <1>2, <2>1 DEF Uncovered
  <1> QED BY <1>1, <1>2, <1>3, <1>4

LEMMA FreeFirst ==
  ASSUME NEW fl, NEW q \in Pages, FreeRest(fl, q)
  PROVE  fl[q] = Free /\ fl[q].kind = "free" /\ Clear(fl, q)
  <1>1. q <= q
    BY PageFacts
  <1>2. fl[q] = Free
    BY <1>1 DEF FreeRest
  <1> QED BY <1>2 DEF Clear, Free, Page

LEMMA SearchMeets ==
  ASSUME NEW fl, Laid(fl), Searchable(fl), NEW to \in Nat, to <= PAGE_COUNT,
         NEW from \in Nat, Uncovered(fl, from)
  PROVE  Meets(fl, Chain(fl, from, to), from, to)
  BY ChainMeets DEF Searchable

LEMMA ZeroUncovered ==
  ASSUME NEW fl
  PROVE  Uncovered(fl, 0) /\ 0 \in Pages
  <1>1. \A h \in Pages : ~(h < 0)
    BY PageFacts
  <1> QED BY <1>1, PageFacts DEF Uncovered, Covers

-----------------------------------------------------------------------------
(* Extents and what they hold *)

Active(fl) == {p \in Pages : fl[p].kind = "active"}

Unique(fl) == \A p, q \in Active(fl) : fl[p].name = fl[q].name => p = q

DataOf(fl, p) == [k \in 1 .. file_end(fl, p) |-> fl[p + k].value]

(* A page in the extent of a header holds none. *)
LEMMA CoveredPage ==
  ASSUME NEW fl, Laid(fl), NEW p \in Pages, IsHeader(fl[p]),
         NEW k \in 1 .. fl[p].max_pages - 1
  PROVE  /\ p + k \in Pages /\ Covers(fl, p, p + k)
         /\ ~IsHeader(fl[p + k])
         /\ fl[p + k].kind = "free" => fl[p + k] = Free
  <1>1. p + k \in Pages /\ p \in Nat /\ fl[p].max_pages \in Nat
    <2>1. k \in 0 .. fl[p].max_pages - 1
      BY HeaderFacts
    <2> QED BY <2>1, HeaderFacts
  <1>2. Covers(fl, p, p + k)
    BY <1>1 DEF Covers
  <1>3. ~IsHeader(fl[p + k])
    BY <1>1, <1>2 DEF Laid
  <1>5. fl[p + k].kind = "free" => fl[p + k] = Free
    BY <1>1 DEF Laid
  <1> QED BY <1>1, <1>2, <1>3, <1>5

(* A header is no free page. *)
LEMMA HeaderMet ==
  ASSUME NEW fl, Laid(fl), NEW to, NEW from, NEW C, Meets(fl, C, from, to),
         NEW q \in Pages, from <= q, q < to, IsHeader(fl[q])
  PROVE  q \in C
  <1>1. Uncovered(fl, q)
    BY HeaderFacts
  <1>2. FreeRest(fl, q) => fl[q].kind = "free"
    BY FreeFirst
  <1> QED BY <1>1, <1>2, MeetsAll DEF IsHeader

LEMMA MeetsExtents ==
  ASSUME NEW fl, Laid(fl), Meets(fl, Chain(fl, 0, PAGE_COUNT), 0, PAGE_COUNT)
  PROVE  /\ Extents(fl) = Active(fl)
         /\ \A n : Named(fl, n) = {p \in Active(fl) : fl[p].name = n}
  <1>1. PICK C : C = Chain(fl, 0, PAGE_COUNT)
    OBVIOUS
  <1>2. Meets(fl, C, 0, PAGE_COUNT)
    BY <1>1
  <1>3. \A p \in C : p \in Pages
    BY <1>2 DEF Meets
  <1>4. ASSUME NEW p \in Pages, fl[p].kind = "active" PROVE p \in C
    <2>1. 0 <= p /\ p < PAGE_COUNT /\ IsHeader(fl[p])
      BY <1>4, PageFacts DEF IsHeader
    <2> QED BY <1>2, <2>1, HeaderMet
  <1>5. Extents(fl) = Active(fl)
    BY <1>1, <1>3, <1>4 DEF Extents, Active
  <1> QED BY <1>5 DEF Named

LEMMA ExtentsActive ==
  ASSUME NEW fl, Laid(fl), Searchable(fl)
  PROVE  /\ Extents(fl) = Active(fl)
         /\ \A n : Named(fl, n) = {p \in Active(fl) : fl[p].name = n}
  <1>1. PAGE_COUNT <= PAGE_COUNT /\ PAGE_COUNT \in Nat /\ Uncovered(fl, 0)
    BY PageFacts, ZeroUncovered
  <1> QED BY <1>1, SearchMeets, MeetsExtents

(* A search that meets headers only and skips free pages only tells what   *)
(* the whole medium is like.                                               *)
LEMMA SearchableIf ==
  ASSUME NEW fl, Laid(fl), HeadersOnly(fl), FreeToTheEnd(fl)
  PROVE  Searchable(fl)
  <1>1. PICK C : C = Chain(fl, 0, PAGE_COUNT)
    OBVIOUS
  <1>2. ASSUME NEW p \in Pages, p \in C PROVE Clear(fl, p)
    <2>1. fl[p].kind # "data"
      BY <1>1, <1>2 DEF HeadersOnly
    <2>2. ASSUME fl[p].kind = "free" PROVE FreeRest(fl, p)
      <3>1. \A q \in SectorPages(Sector(p)) : q > p => fl[q] = Free
        BY <1>1, <1>2, <2>2 DEF FreeToTheEnd
      <3>2. fl[p] = Free
        BY <2>2 DEF Laid
      <3>3. ASSUME NEW q \in Pages, p <= q, Sector(q) = Sector(p) PROVE fl[q] = Free
        <4>1. q \in SectorPages(Sector(p))
          BY <3>3 DEF SectorPages
        <4>2. q = p \/ q > p
          BY <3>3, PageFacts
        <4> QED BY <3>1, <3>2, <4>1, <4>2
      <3> QED BY <3>3 DEF FreeRest
    <2> QED BY <2>1, <2>2 DEF Clear
  <1>3. PAGE_COUNT <= PAGE_COUNT /\ PAGE_COUNT \in Nat /\ Uncovered(fl, 0)
    BY PageFacts, ZeroUncovered
  <1>4. Meets(fl, C, 0, PAGE_COUNT)
    BY <1>1, <1>2, <1>3, ChainMeets
  <1>5. ASSUME NEW q \in Pages, Uncovered(fl, q) PROVE Clear(fl, q)
    <2>1. 0 <= q /\ q < PAGE_COUNT
      BY PageFacts
    <2>2. q \in C \/ FreeRest(fl, q)
      BY <1>4, <1>5, <2>1, MeetsAll
    <2> QED BY <1>2, <2>2, FreeFirst
  <1> QED BY <1>5 DEF Searchable

-----------------------------------------------------------------------------
(* The end of a file *)

LEMMA FileEnd ==
  ASSUME NEW fl, NEW p, fl[p].max_pages \in Nat, fl[p].max_pages > 0
  PROVE  /\ file_end(fl, p) \in 0 .. fl[p].max_pages - 1
         /\ \A k \in 1 .. fl[p].max_pages - 1 : fl[p + k] # Free => k <= file_end(fl, p)
         /\ file_end(fl, p) # 0 => fl[p + file_end(fl, p)] # Free
  <1>1. PICK m \in Nat : m = fl[p].max_pages
    OBVIOUS
  <1>2. PICK T : T = {0} \cup {k \in 1 .. m - 1 : fl[p + k] # Free}
    OBVIOUS
  <1>3. file_end(fl, p) = Max(T)
    BY <1>1, <1>2 DEF file_end
  <1>4. T \in SUBSET Nat /\ T # {} /\ \A y \in T : y <= m
    BY <1>1, <1>2
  <1>5. Max(T) \in T /\ \A y \in T : y <= Max(T)
    BY <1>4, GreatestElement
  <1> QED BY <1>1, <1>2, <1>3, <1>5

LEMMA FileEndIs ==
  ASSUME NEW fl, NEW p, fl[p].max_pages \in Nat, fl[p].max_pages > 0,
         NEW e \in 0 .. fl[p].max_pages - 1,
         e = 0 \/ fl[p + e] # Free,
         \A k \in 1 .. fl[p].max_pages - 1 : fl[p + k] # Free => k <= e
  PROVE  file_end(fl, p) = e
  <1>1. PICK g : g = file_end(fl, p)
    OBVIOUS
  <1>2. /\ g \in 0 .. fl[p].max_pages - 1
        /\ \A k \in 1 .. fl[p].max_pages - 1 : fl[p + k] # Free => k <= g
        /\ g # 0 => fl[p + g] # Free
    BY <1>1, FileEnd
  <1>3. g <= e
    BY <1>2
  <1>4. e <= g
    BY <1>2
  <1> QED BY <1>1, <1>2, <1>3, <1>4

(* Two extents with the same pages, up to free pages at the end of one. *)
LEMMA SameFile ==
  ASSUME NEW fl, NEW p, NEW gl, NEW q,
         fl[p].max_pages \in Nat, fl[p].max_pages > 0,
         gl[q].max_pages \in Nat, fl[p].max_pages <= gl[q].max_pages,
         \A k \in 1 .. fl[p].max_pages - 1 : gl[q + k] = fl[p + k],
         \A k \in fl[p].max_pages .. gl[q].max_pages - 1 : gl[q + k] = Free
  PROVE  file_end(gl, q) = file_end(fl, p) /\ DataOf(gl, q) = DataOf(fl, p)
  <1>1. PICK e : e = file_end(fl, p)
    OBVIOUS
  <1>2. /\ e \in 0 .. fl[p].max_pages - 1
        /\ \A k \in 1 .. fl[p].max_pages - 1 : fl[p + k] # Free => k <= e
        /\ e # 0 => fl[p + e] # Free
    BY <1>1, FileEnd
  <1>3. gl[q].max_pages > 0 /\ e \in 0 .. gl[q].max_pages - 1
    BY <1>2
  <1>4. e = 0 \/ gl[q + e] # Free
    BY <1>2
  <1>5. ASSUME NEW k \in 1 .. gl[q].max_pages - 1, gl[q + k] # Free PROVE k <= e
    <2>1. k < fl[p].max_pages
      BY <1>5
    <2> QED BY <1>2, <1>5, <2>1
  <1>6. file_end(gl, q) = e
    BY <1>3, <1>4, <1>5, FileEndIs
  <1>7. \A k \in 1 .. e : gl[q + k].value = fl[p + k].value
    BY <1>2
  <1> QED BY <1>1, <1>6, <1>7 DEF DataOf

-----------------------------------------------------------------------------
(* What a program that starts now finds *)

LEMMA ContentsFacts ==
  ASSUME NEW fl, Laid(fl), Searchable(fl), Unique(fl)
  PROVE  /\ Contents(fl) = [n \in Names |-> Contents(fl)[n]]
         /\ \A n \in Names : (\A p \in Active(fl) : fl[p].name # n) => Contents(fl)[n] = Absent
         /\ \A p \in Active(fl) : Contents(fl)[fl[p].name] = DataOf(fl, p)
  <1>1. Extents(fl) = Active(fl)
    BY ExtentsActive
  <1>2. Contents(fl) = [n \in Names |->
            IF \E p \in Active(fl) : fl[p].name = n
            THEN DataOf(fl, Min({p \in Active(fl) : fl[p].name = n})) ELSE Absent]
    BY <1>1 DEF Contents, DataOf
  <1>3. ASSUME NEW p \in Active(fl)
        PROVE  fl[p].name \in Names /\ Min({q \in Active(fl) : fl[q].name = fl[p].name}) = p
    <2>1. p \in Pages /\ IsHeader(fl[p])
      BY DEF Active, IsHeader
    <2>2. {q \in Active(fl) : fl[q].name = fl[p].name} = {p}
      BY DEF Unique
    <2>3. p \in Int
      BY <2>1, PageFacts
    <2> QED BY <2>1, <2>2, <2>3, HeaderFacts, Extrema
  <1> QED BY <1>2, <1>3

(* A name has the same contents on two media. *)
LEMMA ContentsAt ==
  ASSUME NEW fl, Laid(fl), Searchable(fl), Unique(fl), NEW gl, Laid(gl), Searchable(gl), Unique(gl), NEW n \in Names,
         \A p \in Active(fl) : fl[p].name = n =>
            \E q \in Active(gl) : gl[q].name = n /\ DataOf(gl, q) = DataOf(fl, p),
         \A q \in Active(gl) : gl[q].name = n => \E p \in Active(fl) : fl[p].name = n
  PROVE  Contents(gl)[n] = Contents(fl)[n]
  <1>1. CASE \E p \in Active(fl) : fl[p].name = n
    <2>1. PICK p \in Active(fl) : fl[p].name = n
      BY <1>1
    <2>2. PICK q \in Active(gl) : gl[q].name = n /\ DataOf(gl, q) = DataOf(fl, p)
      BY <2>1
    <2>3. Contents(fl)[fl[p].name] = DataOf(fl, p)
      BY ContentsFacts
    <2>4. Contents(gl)[gl[q].name] = DataOf(gl, q)
      BY ContentsFacts
    <2> QED BY <2>1, <2>2, <2>3, <2>4
  <1>2. CASE ~\E p \in Active(fl) : fl[p].name = n
    <2>1. \A q \in Active(gl) : gl[q].name # n
      BY <1>2
    <2>2. Contents(gl)[n] = Absent
      BY <2>1, ContentsFacts
    <2>3. Contents(fl)[n] = Absent
      BY <1>2, ContentsFacts
    <2> QED BY <2>2, <2>3
  <1> QED BY <1>1, <1>2

LEMMA ContentsSame ==
  ASSUME NEW fl, Laid(fl), Searchable(fl), Unique(fl), NEW gl, Laid(gl), Searchable(gl), Unique(gl),
         \A n \in Names : Contents(gl)[n] = Contents(fl)[n]
  PROVE  Contents(gl) = Contents(fl)
  <1>1. Contents(fl) = [n \in Names |-> Contents(fl)[n]]
    BY ContentsFacts
  <1>2. Contents(gl) = [n \in Names |-> Contents(gl)[n]]
    BY ContentsFacts
  <1> QED BY <1>1, <1>2

-----------------------------------------------------------------------------
(* Flash operations *)

OpType == [sector : 0 .. SECTOR_COUNT - 1, new : UNION {[D -> PageType] : D \in SUBSET Pages}]
GoodOps == {op \in OpType : DOMAIN op.new \subseteq SectorPages(op.sector)}

LEMMA PageTypes ==
  /\ Free \in PageType /\ Free.kind = "free" /\ ~IsHeader(Free)
  /\ Isolated \in PageType /\ Isolated.kind = "isolated" /\ ~IsHeader(Isolated)
  /\ Isolated # Free
  /\ \A n \in Names, m \in 0 .. PAGE_COUNT, kind \in {"active", "obsolete"} :
        /\ Header(kind, n, m) \in PageType /\ IsHeader(Header(kind, n, m))
        /\ Header(kind, n, m).kind = kind /\ Header(kind, n, m).name = n
        /\ Header(kind, n, m).max_pages = m
  <1>1. 0 \in 0 .. PAGE_COUNT
    BY PageFacts
  <1> QED BY <1>1 DEF Free, Isolated, Header, Page, PageType, IsHeader

LEMMA ApplyProgram ==
  ASSUME NEW fl, fl \in Media, NEW p \in Pages, NEW page \in PageType
  PROVE  /\ Program(p, page) \in GoodOps
         /\ Apply(fl, Program(p, page)) = [fl EXCEPT ![p] = page]
         /\ [fl EXCEPT ![p] = page] \in Media
  <1>1. PICK new : new = [q \in {p} |-> page]
    OBVIOUS
  <1>2. Program(p, page) = [sector |-> Sector(p), new |-> new]
    BY <1>1 DEF Program
  <1>3. new \in [{p} -> PageType] /\ {p} \in SUBSET Pages
    BY <1>1
  <1>4. new \in UNION {[D -> PageType] : D \in SUBSET Pages}
    BY <1>3
  <1>5. Sector(p) \in 0 .. SECTOR_COUNT - 1
    BY PageFacts, SectorFacts
  <1>6. Program(p, page) \in OpType
    BY <1>2, <1>4, <1>5 DEF OpType
  <1>7. DOMAIN new \subseteq SectorPages(Sector(p))
    BY <1>1 DEF SectorPages
  <1>8. Apply(fl, Program(p, page))
           = [q \in Pages |-> IF q \in DOMAIN new THEN new[q] ELSE fl[q]]
    BY <1>2 DEF Apply
  <1>10. fl = [q \in Pages |-> fl[q]] /\ DOMAIN new = {p} /\ new[p] = page
    BY <1>1 DEF Media
  <1>11. Apply(fl, Program(p, page)) = [fl EXCEPT ![p] = page]
    BY <1>8, <1>10
  <1>12. [fl EXCEPT ![p] = page] \in Media
    BY DEF Media
  <1> QED BY <1>2, <1>6, <1>7, <1>11, <1>12 DEF GoodOps

LEMMA ApplyErase ==
  ASSUME NEW fl, fl \in Media, NEW x \in 0 .. SECTOR_COUNT - 1
  PROVE  /\ Erase(x) \in GoodOps
         /\ Apply(fl, Erase(x)) = [q \in Pages |-> IF Sector(q) = x THEN Free ELSE fl[q]]
         /\ Apply(fl, Erase(x)) \in Media
  <1>1. PICK new : new = [q \in SectorPages(x) |-> Free]
    OBVIOUS
  <1>2. Erase(x) = [sector |-> x, new |-> new]
    BY <1>1 DEF Erase
  <1>3. new \in [SectorPages(x) -> PageType] /\ SectorPages(x) \in SUBSET Pages
    BY <1>1, PageTypes DEF SectorPages
  <1>4. new \in UNION {[D -> PageType] : D \in SUBSET Pages}
    BY <1>3
  <1>5. Erase(x) \in OpType
    BY <1>2, <1>4 DEF OpType
  <1>6. DOMAIN new \subseteq SectorPages(x)
    BY <1>1
  <1>7. Apply(fl, Erase(x)) = [q \in Pages |-> IF q \in DOMAIN new THEN new[q] ELSE fl[q]]
    BY <1>2 DEF Apply
  <1>11. \A q \in Pages : q \in DOMAIN new <=> Sector(q) = x
    BY <1>1 DEF SectorPages
  <1>12. \A q \in Pages : (IF q \in DOMAIN new THEN new[q] ELSE fl[q])
                             = IF Sector(q) = x THEN Free ELSE fl[q]
    <2> SUFFICES ASSUME NEW q \in Pages
                 PROVE  (IF q \in DOMAIN new THEN new[q] ELSE fl[q])
                           = IF Sector(q) = x THEN Free ELSE fl[q]
      OBVIOUS
    <2>1. CASE Sector(q) = x
      <3>1. q \in SectorPages(x) /\ q \in DOMAIN new
        BY <1>11, <2>1 DEF SectorPages
      <3>2. new[q] = Free
        BY <1>1, <3>1
      <3> QED BY <2>1, <3>1, <3>2
    <2>2. CASE Sector(q) # x
      BY <1>11, <2>2
    <2> QED BY <2>1, <2>2
  <1>13. Apply(fl, Erase(x)) = [q \in Pages |-> IF Sector(q) = x THEN Free ELSE fl[q]]
    BY <1>7, <1>12
  <1>14. \A q \in Pages : (IF Sector(q) = x THEN Free ELSE fl[q]) \in PageType
    BY PageTypes DEF Media
  <1>15. [q \in Pages |-> IF Sector(q) = x THEN Free ELSE fl[q]] \in Media
    BY <1>14 DEF Media
  <1> QED BY <1>2, <1>5, <1>6, <1>13, <1>15 DEF GoodOps

(* An operation changes its own sector only. *)
LEMMA ApplyLocal ==
  ASSUME NEW fl, fl \in Media, NEW op \in GoodOps, NEW p \in Pages, Sector(p) # op.sector
  PROVE  Apply(fl, op)[p] = fl[p]
  <1>1. p \notin DOMAIN op.new
    BY DEF GoodOps, SectorPages
  <1>2. Apply(fl, op) = [q \in Pages |-> IF q \in DOMAIN op.new THEN op.new[q] ELSE fl[q]]
    BY DEF Apply
  <1> QED BY <1>1, <1>2

(* The operations ops lead from a medium to another, over laid media. *)
Leads(m, ops, fl) ==
    /\ ops \in Seq(GoodOps)
    /\ \E f : /\ f = [k \in 0 .. Len(ops) |-> f[k]]
              /\ f[0] = m /\ f[Len(ops)] = fl
              /\ \A k \in 0 .. Len(ops) : Laid(f[k])
              /\ \A k \in 1 .. Len(ops) : f[k] = Apply(f[k - 1], ops[k])

LEMMA LeadsBy ==
  ASSUME NEW m, NEW ops \in Seq(GoodOps), NEW fl, NEW n, n = Len(ops),
         NEW f, f = [k \in 0 .. n |-> f[k]], f[0] = m, f[n] = fl,
         \A k \in 0 .. n : Laid(f[k]),
         \A k \in 1 .. n : f[k] = Apply(f[k - 1], ops[k])
  PROVE  Leads(m, ops, fl)
  BY Zenon DEF Leads

LEMMA LeadsNothing ==
  ASSUME NEW m, Laid(m)
  PROVE  Leads(m, <<>>, m)
  <1>1. PICK f : f = [k \in 0 .. 0 |-> m]
    OBVIOUS
  <1>2. f = [k \in 0 .. 0 |-> f[k]] /\ f[0] = m
    BY <1>1
  <1>3. <<>> \in Seq(GoodOps) /\ Len(<<>>) = 0
    OBVIOUS
  <1>4. \A k \in 0 .. 0 : Laid(f[k])
    BY <1>1
  <1> QED BY <1>2, <1>3, <1>4 DEF Leads

LEMMA LeadsEnds ==
  ASSUME NEW m, NEW ops, NEW fl, Leads(m, ops, fl)
  PROVE  /\ Laid(m) /\ Laid(fl) /\ ops \in Seq(GoodOps)
         /\ ops = <<>> => fl = m
  <1>1. Len(ops) \in Nat
    BY DEF Leads
  <1>2. 0 \in 0 .. Len(ops) /\ Len(ops) \in 0 .. Len(ops)
    BY <1>1
  <1> QED BY <1>2 DEF Leads

LEMMA LeadsPut ==
  ASSUME NEW m, NEW ops, NEW fl, Leads(m, ops, fl), NEW op \in GoodOps, Laid(Apply(fl, op))
  PROVE  Leads(m, Append(ops, op), Apply(fl, op))
  <1>1. PICK n \in Nat : n = Len(ops)
    BY DEF Leads
  <1>2. PICK f : /\ f = [k \in 0 .. n |-> f[k]]
                 /\ f[0] = m /\ f[n] = fl
                 /\ \A k \in 0 .. n : Laid(f[k])
                 /\ \A k \in 1 .. n : f[k] = Apply(f[k - 1], ops[k])
    BY <1>1 DEF Leads
  <1>3. PICK all : all = Append(ops, op)
    OBVIOUS
  <1>4. /\ all \in Seq(GoodOps) /\ Len(all) = n + 1 /\ all[n + 1] = op
        /\ \A k \in 1 .. n : all[k] = ops[k]
    BY <1>1, <1>3 DEF Leads
  <1>5. PICK g : g = [k \in 0 .. n + 1 |-> IF k = n + 1 THEN Apply(fl, op) ELSE f[k]]
    OBVIOUS
  <1>6. g = [k \in 0 .. n + 1 |-> g[k]]
    BY <1>5
  <1>7. g[n + 1] = Apply(fl, op) /\ \A k \in 0 .. n : g[k] = f[k]
    BY <1>5
  <1>8. g[0] = m
    BY <1>2, <1>7
  <1>9. \A k \in 0 .. n + 1 : Laid(g[k])
    <2> SUFFICES ASSUME NEW k \in 0 .. n + 1 PROVE Laid(g[k])
      OBVIOUS
    <2>1. k = n + 1 \/ k \in 0 .. n
      OBVIOUS
    <2> QED BY <1>2, <1>7, <2>1
  <1>10. \A k \in 1 .. n + 1 : g[k] = Apply(g[k - 1], all[k])
    <2> SUFFICES ASSUME NEW k \in 1 .. n + 1 PROVE g[k] = Apply(g[k - 1], all[k])
      OBVIOUS
    <2>1. CASE k = n + 1
      <3>1. k - 1 = n /\ n \in 0 .. n
        BY <2>1
      <3>2. g[k - 1] = fl
        BY <1>2, <1>7, <3>1
      <3> QED BY <1>4, <1>7, <2>1, <3>2
    <2>2. CASE k # n + 1
      <3>1. k \in 1 .. n /\ k - 1 \in 0 .. n /\ k \in 0 .. n
        BY <2>2
      <3> QED BY <1>2, <1>4, <1>7, <3>1
    <2> QED BY <2>1, <2>2
  <1>11. g[n + 1] = Apply(fl, op)
    BY <1>7
  <1>12. Leads(m, all, Apply(fl, op))
    BY ONLY <1>4, <1>6, <1>8, <1>9, <1>10, <1>11, LeadsBy
  <1> QED BY <1>3, <1>12

LEMMA LeadsStep ==
  ASSUME NEW m, NEW ops, NEW fl, Leads(m, ops, fl), ops # <<>>
  PROVE  /\ Head(ops) \in GoodOps
         /\ Leads(Apply(m, Head(ops)), Tail(ops), fl)
  <1>1. PICK n \in Nat : n = Len(ops)
    BY DEF Leads
  <1>2. PICK f : /\ f = [k \in 0 .. n |-> f[k]]
                 /\ f[0] = m /\ f[n] = fl
                 /\ \A k \in 0 .. n : Laid(f[k])
                 /\ \A k \in 1 .. n : f[k] = Apply(f[k - 1], ops[k])
    BY <1>1 DEF Leads
  <1>3. n > 0 /\ Head(ops) = ops[1] /\ ops[1] \in GoodOps
    BY <1>1 DEF Leads
  <1>4. PICK rest : rest = Tail(ops)
    OBVIOUS
  <1>5. /\ rest \in Seq(GoodOps) /\ Len(rest) = n - 1
        /\ \A k \in 1 .. n - 1 : rest[k] = ops[k + 1]
    BY <1>1, <1>3, <1>4 DEF Leads
  <1>6. PICK r \in Nat : r = n - 1
    BY <1>3
  <1>7. PICK g : g = [k \in 0 .. r |-> f[k + 1]]
    OBVIOUS
  <1>8. g = [k \in 0 .. r |-> g[k]]
    BY <1>7
  <1>9. \A k \in 0 .. r : g[k] = f[k + 1] /\ k + 1 \in 0 .. n /\ k + 1 \in 1 .. n
    BY <1>6, <1>7
  <1>10. g[0] = Apply(m, ops[1]) /\ g[r] = fl
    <2>1. 0 \in 0 .. r /\ r \in 0 .. r /\ r + 1 = n /\ 0 + 1 = 1 /\ 1 \in 1 .. n /\ 1 - 1 = 0
      BY <1>3, <1>6
    <2> QED BY <1>2, <1>9, <2>1
  <1>11. \A k \in 1 .. r : g[k] = Apply(g[k - 1], rest[k])
    <2> SUFFICES ASSUME NEW k \in 1 .. r PROVE g[k] = Apply(g[k - 1], rest[k])
      OBVIOUS
    <2>1. /\ k \in 0 .. r /\ k - 1 \in 0 .. r /\ k \in 1 .. n - 1 /\ (k - 1) + 1 = k
          /\ (k + 1) - 1 = k
      BY <1>6
    <2>2. g[k] = f[k + 1] /\ g[k - 1] = f[k] /\ k + 1 \in 1 .. n
      BY <1>9, <2>1
    <2>3. f[k + 1] = Apply(f[k], ops[k + 1])
      BY <1>2, <2>1, <2>2
    <2> QED BY <1>5, <2>1, <2>2, <2>3
  <1>12. \A k \in 0 .. r : Laid(g[k])
    BY <1>2, <1>9
  <1>13. Leads(Apply(m, ops[1]), rest, fl)
    <2>1. g[0] = Apply(m, ops[1]) /\ g[r] = fl /\ rest \in Seq(GoodOps) /\ r = Len(rest)
      BY <1>5, <1>6, <1>10
    <2> QED BY ONLY <1>8, <1>11, <1>12, <2>1, LeadsBy
  <1> QED BY <1>3, <1>4, <1>13

(* The medium m after ops *)
ImageOf(m, ops) ==
    LET image[k \in 0 .. Len(ops)] ==
            IF k = 0 THEN m ELSE Apply(image[k - 1], ops[k])
    IN  image[Len(ops)]

(* What the operations to come lead to is the image. *)
LEMMA LeadsImage ==
  ASSUME NEW m, NEW ops, NEW fl, Leads(m, ops, fl)
  PROVE  ImageOf(m, ops) = fl
  <1> DEFINE Eq(h) == h = [k \in 0 .. Len(ops) |->
                             IF k = 0 THEN m ELSE Apply(h[k - 1], ops[k])]
  <1>1. PICK n \in Nat : n = Len(ops)
    BY DEF Leads
  <1>2. PICK f : /\ f = [k \in 0 .. n |-> f[k]]
                 /\ f[0] = m /\ f[n] = fl
                 /\ \A k \in 1 .. n : f[k] = Apply(f[k - 1], ops[k])
    BY <1>1 DEF Leads
  <1>3. \A k \in 0 .. n : f[k] = IF k = 0 THEN m ELSE Apply(f[k - 1], ops[k])
    <2> SUFFICES ASSUME NEW k \in 0 .. n, k # 0 PROVE f[k] = Apply(f[k - 1], ops[k])
      BY <1>2
    <2>1. k \in 1 .. n
      OBVIOUS
    <2> QED BY <1>2, <2>1
  <1>4. Eq(f)
    BY <1>1, <1>2, <1>3
  <1>5. PICK h : Eq(h) /\ ImageOf(m, ops) = h[n]
    <2>1. Eq(CHOOSE h : Eq(h))
      BY <1>4
    <2>2. ImageOf(m, ops) = (CHOOSE h : Eq(h))[n]
      BY <1>1 DEF ImageOf
    <2> QED BY <2>1, <2>2
  <1>6. PICK T : T = {k \in 0 .. n : h[k] = f[k]}
    OBVIOUS
  <1>7. h[0] = m
    BY <1>1, <1>5
  <1>8. \A k \in 1 .. n : h[k] = Apply(h[k - 1], ops[k])
    BY <1>1, <1>5
  <1>9. 0 \in T
    BY <1>2, <1>6, <1>7
  <1>10. ASSUME NEW k \in 1 .. n, k - 1 \in T PROVE k \in T
    <2>1. h[k - 1] = f[k - 1] /\ k \in 0 .. n
      BY <1>6, <1>10
    <2> QED BY <1>2, <1>6, <1>8, <2>1
  <1>11. 0 .. n \subseteq T
    BY <1>9, <1>10, WalkInduction
  <1>12. h[n] = f[n]
    BY <1>6, <1>11
  <1> QED BY <1>2, <1>5, <1>12

-----------------------------------------------------------------------------
(* What an operation does to the layout *)

(* No header appears. *)
LEMMA LaidKept ==
  ASSUME NEW fl, Laid(fl), NEW gl, gl \in Media,
         \A p \in Pages : gl[p].kind = "free" => gl[p] = Free,
         \A p \in Pages : IsHeader(gl[p]) =>
            /\ IsHeader(fl[p]) /\ gl[p].max_pages = fl[p].max_pages
            /\ gl[p].name = fl[p].name
  PROVE  /\ Laid(gl)
         /\ \A p : Uncovered(fl, p) => Uncovered(gl, p)
  <1>1. ASSUME NEW h \in Pages, NEW p, Covers(gl, h, p) PROVE Covers(fl, h, p)
    BY <1>1 DEF Covers
  <1>2. ASSUME NEW p \in Pages, IsHeader(gl[p]) PROVE GoodHeader(gl, p)
    <2>1. GoodHeader(fl, p)
      BY <1>2 DEF Laid
    <2> QED BY <1>2, <2>1 DEF GoodHeader
  <1>3. ASSUME NEW h \in Pages, NEW p \in Pages, Covers(gl, h, p), IsHeader(gl[p])
        PROVE  FALSE
    <2>1. Covers(fl, h, p) /\ IsHeader(fl[p])
      BY <1>1, <1>3
    <2> QED BY <2>1 DEF Laid
  <1>4. Laid(gl)
    BY <1>2, <1>3 DEF Laid
  <1>5. \A p : Uncovered(fl, p) => Uncovered(gl, p)
    BY <1>1 DEF Uncovered
  <1> QED BY <1>4, <1>5

(* No header disappears. *)
LEMMA UncoveredKept ==
  ASSUME NEW fl, NEW gl,
         \A p \in Pages : IsHeader(fl[p]) =>
            IsHeader(gl[p]) /\ gl[p].max_pages = fl[p].max_pages
  PROVE  \A p : Uncovered(gl, p) => Uncovered(fl, p)
  <1>1. ASSUME NEW h \in Pages, NEW p, Covers(fl, h, p) PROVE Covers(gl, h, p)
    BY <1>1 DEF Covers
  <1> QED BY <1>1 DEF Uncovered

(* A header is written over free pages. *)
(* What is searchable stays so when pages turn that no search stands on. *)
LEMMA SearchableKept ==
  ASSUME NEW fl, Searchable(fl), NEW gl, \A q : Uncovered(gl, q) => Uncovered(fl, q),
         \A q \in Pages : Uncovered(gl, q) =>
            \/ gl[q].kind \notin {"free", "data"}
            \/ /\ gl[q] = fl[q]
               /\ FreeRest(fl, q) => FreeRest(gl, q)
  PROVE  Searchable(gl)
  <1>1. ASSUME NEW q \in Pages, Uncovered(gl, q) PROVE Clear(gl, q)
    <2>1. Clear(fl, q)
      BY <1>1 DEF Searchable
    <2> QED BY <1>1, <2>1 DEF Clear
  <1> QED BY <1>1 DEF Searchable

(* No free page that a search may stand on precedes p in its sector. *)
FirstFree(fl, p) ==
    \A q \in Pages : q < p /\ Sector(q) = Sector(p) /\ Uncovered(fl, q)
       => fl[q].kind # "free"

(* A header is written over free pages. *)
LEMMA LaidNew ==
  ASSUME NEW fl, Laid(fl), NEW p \in Pages, Uncovered(fl, p), FirstFree(fl, p),
         NEW m \in Nat, m > 0, p + m < PAGE_COUNT, NEW n \in Names,
         \A q \in Pages : p <= q /\ q < p + m => fl[q] = Free,
         NEW gl, gl = [fl EXCEPT ![p] = Header("active", n, m)]
  PROVE  /\ Laid(gl)
         /\ \A q : Uncovered(gl, q) <=> Uncovered(fl, q) /\ ~(p < q /\ q < p + m)
         /\ Searchable(fl) => Searchable(gl)
         /\ Header("active", n, m) \in PageType
  <1>1. p \in Nat /\ PAGE_COUNT \in Nat
    BY PageFacts
  <1>2. m \in 0 .. PAGE_COUNT
    BY <1>1
  <1>3. PICK hdr : hdr = Header("active", n, m)
    OBVIOUS
  <1>4. /\ hdr \in PageType /\ IsHeader(hdr) /\ hdr.kind = "active"
        /\ hdr.name = n /\ hdr.max_pages = m
    BY <1>2, <1>3, PageTypes
  <1>5. gl = [fl EXCEPT ![p] = hdr] /\ DOMAIN fl = Pages /\ fl \in Media
    BY <1>3 DEF Laid, Media
  <1>6. gl[p] = hdr /\ (\A q \in Pages : q # p => gl[q] = fl[q]) /\ gl \in Media
    BY <1>4, <1>5 DEF Media
  <1>7. fl[p] = Free /\ ~IsHeader(fl[p])
    BY <1>1, PageTypes
  <1>8. ASSUME NEW h \in Pages, NEW q
        PROVE  Covers(gl, h, q) <=> Covers(fl, h, q) \/ (h = p /\ p < q /\ q < p + m)
    BY <1>4, <1>6, <1>7 DEF Covers
  <1>9. ASSUME NEW q
        PROVE  Uncovered(gl, q) <=> Uncovered(fl, q) /\ ~(p < q /\ q < p + m)
    BY <1>8 DEF Uncovered
  <1>10. ASSUME NEW q \in Pages, IsHeader(gl[q]) PROVE GoodHeader(gl, q)
    <2>1. CASE q = p
      BY <1>1, <1>4, <1>6, <2>1 DEF GoodHeader
    <2>2. CASE q # p
      <3>1. gl[q] = fl[q]
        BY <1>6, <2>2
      <3>2. GoodHeader(fl, q)
        BY <1>10, <3>1 DEF Laid
      <3> QED BY <3>1, <3>2 DEF GoodHeader
    <2> QED BY <2>1, <2>2
  <1>11. ASSUME NEW h \in Pages, NEW q \in Pages, Covers(gl, h, q), IsHeader(gl[q])
         PROVE  FALSE
    <2>1. CASE h = p /\ p < q /\ q < p + m
      <3>1. q # p /\ gl[q] = fl[q] /\ fl[q] = Free
        BY <1>1, <1>6, <2>1
      <3> QED BY <1>11, <3>1, PageTypes
    <2>2. CASE Covers(fl, h, q)
      <3>1. q # p
        BY <2>2 DEF Uncovered
      <3>2. IsHeader(fl[q])
        BY <1>6, <1>11, <3>1
      <3> QED BY <2>2, <3>2 DEF Laid
    <2> QED BY <1>8, <1>11, <2>1, <2>2
  <1>12. \A q \in Pages : gl[q].kind = "free" => gl[q] = Free
    BY <1>4, <1>6 DEF Laid
  <1>13. Laid(gl)
    BY <1>6, <1>10, <1>11, <1>12 DEF Laid
  <1>14. ASSUME NEW q \in Pages, Uncovered(gl, q)
         PROVE  \/ gl[q].kind \notin {"free", "data"}
                \/ gl[q] = fl[q] /\ (FreeRest(fl, q) => FreeRest(gl, q))
    <2>1. CASE q = p
      BY <1>4, <1>6, <2>1
    <2>2. CASE q # p
      <3>1. gl[q] = fl[q] /\ Uncovered(fl, q)
        BY <1>6, <1>9, <1>14, <2>2
      <3>2. ASSUME FreeRest(fl, q) PROVE FreeRest(gl, q)
        <4>1. fl[q].kind = "free" /\ q \in Nat
          BY <3>2, FreeFirst, PageFacts
        <4>2. ~(q < p /\ Sector(q) = Sector(p))
          BY <3>1, <4>1 DEF FirstFree
        <4>3. ASSUME NEW r \in Pages, q <= r, Sector(r) = Sector(q) PROVE gl[r] = Free
          <5>1. r # p
            BY <1>1, <2>2, <4>1, <4>2, <4>3
          <5> QED BY <1>6, <3>2, <4>3, <5>1 DEF FreeRest
        <4> QED BY <4>3 DEF FreeRest
      <3> QED BY <3>1, <3>2
    <2> QED BY <2>1, <2>2
  <1>15. Searchable(fl) => Searchable(gl)
    BY <1>9, <1>14, SearchableKept
  <1> QED BY <1>3, <1>4, <1>9, <1>13, <1>15

(* A header is changed to say that its extent is obsolete. *)
LEMMA LaidObsolete ==
  ASSUME NEW fl, Laid(fl), NEW p \in Pages, IsHeader(fl[p]),
         NEW gl, gl = [fl EXCEPT ![p] = Header("obsolete", fl[p].name, fl[p].max_pages)]
  PROVE  /\ Laid(gl)
         /\ \A q : Uncovered(gl, q) <=> Uncovered(fl, q)
         /\ Searchable(fl) => Searchable(gl)
         /\ Header("obsolete", fl[p].name, fl[p].max_pages) \in PageType
  <1>1. PICK hdr : hdr = Header("obsolete", fl[p].name, fl[p].max_pages)
    OBVIOUS
  <1>2. fl[p].name \in Names /\ fl[p].max_pages \in 0 .. PAGE_COUNT
    BY HeaderFacts, PageFacts
  <1>3. /\ hdr \in PageType /\ IsHeader(hdr) /\ hdr.kind = "obsolete"
        /\ hdr.name = fl[p].name /\ hdr.max_pages = fl[p].max_pages
    BY <1>1, <1>2, PageTypes
  <1>4. fl \in Media /\ DOMAIN fl = Pages
    BY DEF Laid, Media
  <1>5. gl[p] = hdr /\ (\A q \in Pages : q # p => gl[q] = fl[q]) /\ gl \in Media
    BY <1>1, <1>3, <1>4 DEF Media
  <1>6. \A q \in Pages : IsHeader(gl[q]) =>
            /\ IsHeader(fl[q]) /\ gl[q].max_pages = fl[q].max_pages
            /\ gl[q].name = fl[q].name
    BY <1>3, <1>5
  <1>7. \A q \in Pages : IsHeader(fl[q]) =>
            IsHeader(gl[q]) /\ gl[q].max_pages = fl[q].max_pages
    BY <1>3, <1>5
  <1>8. \A q \in Pages : gl[q].kind = "free" => gl[q] = Free
    BY <1>3, <1>5 DEF Laid
  <1>9. Laid(gl) /\ \A q : Uncovered(gl, q) <=> Uncovered(fl, q)
    <2>1. gl \in Media
      BY <1>5
    <2>2. Laid(gl) /\ \A q : Uncovered(fl, q) => Uncovered(gl, q)
      BY ONLY Laid(fl), <2>1, <1>6, <1>8, LaidKept
    <2>3. \A q : Uncovered(gl, q) => Uncovered(fl, q)
      BY ONLY <1>7, UncoveredKept
    <2> QED BY <2>2, <2>3
  <1>10. ASSUME NEW q \in Pages, Uncovered(gl, q)
         PROVE  \/ gl[q].kind \notin {"free", "data"}
                \/ gl[q] = fl[q] /\ (FreeRest(fl, q) => FreeRest(gl, q))
    <2>1. CASE q = p
      BY <1>3, <1>5, <2>1
    <2>2. CASE q # p
      <3>1. ASSUME FreeRest(fl, q), NEW r \in Pages, q <= r, Sector(r) = Sector(q)
            PROVE  gl[r] = Free
        <4>1. fl[r] = Free
          BY <3>1 DEF FreeRest
        <4>2. r # p
          BY <4>1, PageTypes
        <4> QED BY <1>5, <4>1, <4>2
      <3> QED BY <1>5, <2>2, <3>1 DEF FreeRest
    <2> QED BY <2>1, <2>2
  <1>11. Searchable(fl) => Searchable(gl)
    BY <1>9, <1>10, SearchableKept
  <1> QED BY <1>1, <1>3, <1>9, <1>11

(* A page that is no header is written in the extent at p. *)
LEMMA LaidData ==
  ASSUME NEW fl, Laid(fl), NEW p \in Pages, IsHeader(fl[p]),
         NEW k \in 1 .. fl[p].max_pages - 1, NEW page \in PageType,
         ~IsHeader(page), page.kind = "free" => page = Free,
         NEW gl \in Media, gl[p + k] = page,
         \A q \in Pages : q # p + k => gl[q] = fl[q]
  PROVE  /\ Laid(gl)
         /\ \A q : Uncovered(gl, q) <=> Uncovered(fl, q)
         /\ Searchable(fl) => Searchable(gl)
         /\ \A q \in Pages : IsHeader(fl[q]) => gl[q] = fl[q]
         /\ \A q \in Pages : IsHeader(gl[q]) => gl[q] = fl[q]
  <1>1. /\ p + k \in Pages /\ Covers(fl, p, p + k) /\ ~IsHeader(fl[p + k])
    BY CoveredPage
  <1>2. PICK d \in Pages : d = p + k
    BY <1>1
  <1>4. gl[d] = page /\ (\A q \in Pages : q # d => gl[q] = fl[q]) /\ gl \in Media
    BY <1>2
  <1>6. /\ \A q \in Pages : IsHeader(fl[q]) => gl[q] = fl[q]
        /\ \A q \in Pages : IsHeader(gl[q]) => gl[q] = fl[q]
    BY <1>1, <1>2, <1>4
  <1>7. \A q \in Pages : gl[q].kind = "free" => gl[q] = Free
    BY <1>4 DEF Laid
  <1>8. Laid(gl) /\ \A q : Uncovered(gl, q) <=> Uncovered(fl, q)
    <2>1. gl \in Media
      BY <1>4
    <2>2. \A q \in Pages : IsHeader(gl[q]) =>
            /\ IsHeader(fl[q]) /\ gl[q].max_pages = fl[q].max_pages
            /\ gl[q].name = fl[q].name
      BY <1>6
    <2>3. \A q \in Pages : IsHeader(fl[q]) =>
            IsHeader(gl[q]) /\ gl[q].max_pages = fl[q].max_pages
      BY <1>6
    <2>4. Laid(gl) /\ \A q : Uncovered(fl, q) => Uncovered(gl, q)
      BY <2>1, <2>2, <1>7, LaidKept
    <2>5. \A q : Uncovered(gl, q) => Uncovered(fl, q)
      BY <2>3, UncoveredKept
    <2> QED BY <2>4, <2>5
  <1>9. p \in Nat /\ d \in Nat /\ p < d /\ d < p + fl[p].max_pages /\ fl[p].max_pages \in Nat
    BY <1>1, <1>2, HeaderFacts, PageFacts DEF Covers
  <1>10. ASSUME NEW q \in Pages, Uncovered(gl, q)
         PROVE  gl[q] = fl[q] /\ (FreeRest(fl, q) => FreeRest(gl, q))
    <2>1. Uncovered(fl, q) /\ q \in Nat
      BY <1>8, <1>10, PageFacts
    <2>2. q # d
      BY <1>1, <1>2, <2>1 DEF Uncovered
    <2>3. ASSUME FreeRest(fl, q), NEW r \in Pages, q <= r, Sector(r) = Sector(q)
          PROVE  gl[r] = Free
      <3>1. fl[r] = Free
        BY <2>3 DEF FreeRest
      <3>2. r # d
        <4> SUFFICES ASSUME r = d PROVE FALSE
          OBVIOUS
        <4>1. ~(p < q)
          <5>1. p < q => Covers(fl, p, q)
            BY <1>9, <2>1, <2>3 DEF Covers
          <5> QED BY <2>1, <5>1 DEF Uncovered
        <4>2. q <= p /\ p <= d
          BY <1>9, <2>1, <4>1
        <4>3. Sector(q) <= Sector(p) /\ Sector(p) <= Sector(d)
          BY <1>9, <2>1, <4>2, SectorOrder
        <4>4. Sector(p) = Sector(q)
          <5>1. Sector(p) \in Nat /\ Sector(q) \in Nat /\ Sector(d) = Sector(q)
            BY <1>9, <2>1, <2>3, SectorFacts
          <5> QED BY <4>3, <5>1
        <4>5. fl[p] = Free
          BY <2>3, <4>2, <4>4 DEF FreeRest
        <4> QED BY <4>5, PageTypes
      <3> QED BY <1>4, <3>1, <3>2
    <2> QED BY <1>4, <2>2, <2>3 DEF FreeRest
  <1>11. Searchable(fl) => Searchable(gl)
    BY <1>8, <1>10, SearchableKept
  <1> QED BY <1>6, <1>8, <1>11

(* A sector is cleared. *)
LEMMA LaidErase ==
  ASSUME NEW fl, Laid(fl), NEW x \in 0 .. SECTOR_COUNT - 1
  PROVE  Laid(Apply(fl, Erase(x)))
  <1>1. PICK gl : gl = Apply(fl, Erase(x))
    OBVIOUS
  <1>2. gl = [q \in Pages |-> IF Sector(q) = x THEN Free ELSE fl[q]] /\ gl \in Media
    BY <1>1, ApplyErase DEF Laid
  <1>3. \A q \in Pages : gl[q] = Free \/ gl[q] = fl[q]
    BY <1>2
  <1>4. \A q \in Pages : gl[q].kind = "free" => gl[q] = Free
    BY <1>3 DEF Laid
  <1>5. \A q \in Pages : IsHeader(gl[q]) =>
            /\ IsHeader(fl[q]) /\ gl[q].max_pages = fl[q].max_pages
            /\ gl[q].name = fl[q].name
    BY <1>3, PageTypes
  <1> QED BY <1>1, <1>2, <1>4, <1>5, LaidKept

-----------------------------------------------------------------------------
(* The state of a call *)

(* Pages turn isolated. *)
LEMMA LaidIsolate ==
  ASSUME NEW fl, Laid(fl), NEW gl, gl = [q \in Pages |-> gl[q]],
         \A q \in Pages : gl[q] = fl[q] \/ gl[q] = Isolated
  PROVE  Laid(gl) /\ \A q : Uncovered(fl, q) => Uncovered(gl, q)
  <1>1. fl \in [Pages -> PageType]
    BY DEF Laid, Media
  <1>2. \A q \in Pages : gl[q] \in PageType
    BY <1>1, PageTypes
  <1>3. gl \in Media
    BY <1>2 DEF Media
  <1>4. \A q \in Pages : gl[q].kind = "free" => gl[q] = Free
    BY PageTypes DEF Laid
  <1>5. \A q \in Pages : IsHeader(gl[q]) =>
            /\ IsHeader(fl[q]) /\ gl[q].max_pages = fl[q].max_pages
            /\ gl[q].name = fl[q].name
    BY PageTypes
  <1> QED BY <1>3, <1>4, <1>5, LaidKept

LEMMA LaidTorn ==
  ASSUME NEW fl, Laid(fl), NEW op \in GoodOps, Laid(Apply(fl, op)), NEW last
  PROVE  Laid(Torn(fl, op, last))
  <1>1. PICK gl : gl = Apply(fl, op)
    OBVIOUS
  <1>2. PICK tl : tl = Torn(fl, op, last)
    OBVIOUS
  <1>3. tl = [q \in Pages |-> IF q \notin SectorPages(op.sector) THEN fl[q]
                              ELSE IF q < last THEN gl[q] ELSE Isolated]
    BY <1>1, <1>2 DEF Torn
  <1>4. ASSUME NEW q \in Pages PROVE tl[q] = gl[q] \/ tl[q] = Isolated
    <2>1. CASE q \notin SectorPages(op.sector)
      <3>1. Sector(q) # op.sector
        BY <2>1 DEF SectorPages
      <3>2. gl[q] = fl[q]
        BY <1>1, <3>1, ApplyLocal DEF Laid
      <3> QED BY <1>3, <2>1, <3>2
    <2>2. CASE q \in SectorPages(op.sector)
      BY <1>3, <2>2
    <2> QED BY <2>1, <2>2
  <1>5. tl = [q \in Pages |-> tl[q]]
    BY <1>3
  <1> QED BY <1>1, <1>2, <1>4, <1>5, LaidIsolate

-----------------------------------------------------------------------------
(* The state of a call *)

FileType == [page : Pages \cup {INVALID_PAGE}, max_pages : 0 .. PAGE_COUNT,
             end : Nat \cup {UNKNOWN_OFFSET}, references : Nat]
FdType == [flags : SUBSET {"READ", "WRITE", "APPEND"}, file : Slots \cup {NoSlot},
           offset : Nat]
StateType == [flash : Media, files : [Slots -> FileType], fds : [Fds -> FdType],
              next_free : Nat, gc_wait : BOOLEAN, ops : Seq(GoodOps)]

Sectors == 0 .. SECTOR_COUNT - 1

(* Something in sector x may go: pages of an obsolete extent, or pages that *)
(* were marked.                                                             *)
StaleIn(fl, x) ==
    \/ Holds(fl, "obsolete", x)
    \/ \E q \in Pages : Sector(q) = x /\ fl[q].kind = "isolated" /\ Uncovered(fl, q)

(* A collection would erase nothing. *)
Useless(fl) == \A x \in Sectors : StaleIn(fl, x) => Holds(fl, "active", x)

(* No free page lies before next_free; while gc_wait holds, a collection is *)
(* useless.                                                                 *)
HintsGood(s) ==
    /\ Uncovered(s.flash, s.next_free) /\ s.next_free <= PAGE_COUNT
    /\ \A p \in Pages : Uncovered(s.flash, p) /\ p < s.next_free => s.flash[p].kind # "free"
    /\ s.gc_wait => Useless(s.flash)

(* Headers that stay with what they say keep the extents of their kind. *)
LEMMA HoldsKept ==
  ASSUME NEW fl, NEW gl, NEW kind, NEW x, Holds(fl, kind, x),
         \A h \in Pages : fl[h].kind = kind =>
            gl[h].kind = kind /\ gl[h].max_pages = fl[h].max_pages
  PROVE  Holds(gl, kind, x)
  BY DEF Holds, ExtentOf

LEMMA UselessKept ==
  ASSUME NEW fl, Useless(fl), NEW gl,
         \A h \in Pages : gl[h].kind = "obsolete" =>
            fl[h].kind = "obsolete" /\ fl[h].max_pages = gl[h].max_pages,
         \A h \in Pages : fl[h].kind = "active" =>
            gl[h].kind = "active" /\ gl[h].max_pages = fl[h].max_pages,
         \A q \in Pages : gl[q].kind = "isolated" /\ Uncovered(gl, q) =>
            fl[q].kind = "isolated" /\ Uncovered(fl, q)
  PROVE  Useless(gl)
  <1> SUFFICES ASSUME NEW x \in Sectors, StaleIn(gl, x) PROVE Holds(gl, "active", x)
    BY DEF Useless
  <1>1. Holds(gl, "obsolete", x) => Holds(fl, "obsolete", x)
    BY HoldsKept
  <1>2. StaleIn(fl, x)
    BY <1>1 DEF StaleIn
  <1>3. Holds(fl, "active", x)
    BY <1>2 DEF Useless
  <1> QED BY <1>3, HoldsKept

(* What holds of the flash all along a call that began on the medium m. *)
Base(m, s) ==
    /\ s \in StateType
    /\ Leads(m, s.ops, s.flash)
    /\ Searchable(s.flash)
    /\ HintsGood(s)

LEMMA BaseFacts ==
  ASSUME NEW m, NEW s, Base(m, s)
  PROVE  /\ s \in StateType /\ Laid(s.flash) /\ s.flash \in Media /\ Laid(m)
         /\ Searchable(s.flash) /\ HintsGood(s)
         /\ s.ops \in Seq(GoodOps) /\ s.next_free \in Nat /\ s.gc_wait \in BOOLEAN
         /\ s.files \in [Slots -> FileType] /\ s.fds \in [Fds -> FdType]
  <1>1. s \in StateType /\ Leads(m, s.ops, s.flash) /\ Searchable(s.flash) /\ HintsGood(s)
    BY DEF Base
  <1>2. Laid(s.flash) /\ Laid(m)
    BY <1>1, LeadsEnds
  <1>3. s.flash \in Media
    BY <1>2 DEF Laid
  <1> QED BY <1>1, <1>2, <1>3 DEF StateType

LEMMA PutFacts ==
  ASSUME NEW s, s \in StateType, NEW op \in GoodOps, Apply(s.flash, op) \in Media
  PROVE  /\ Put(s, op) \in StateType
         /\ Put(s, op).flash = Apply(s.flash, op)
         /\ Put(s, op).ops = Append(s.ops, op)
         /\ Put(s, op).files = s.files /\ Put(s, op).fds = s.fds
         /\ Put(s, op).next_free = s.next_free /\ Put(s, op).gc_wait = s.gc_wait
  <1>1. PICK gl \in Media : gl = Apply(s.flash, op)
    OBVIOUS
  <1>2. PICK more : more = Append(s.ops, op)
    OBVIOUS
  <1>3. more \in Seq(GoodOps)
    BY <1>2 DEF StateType
  <1>4. Put(s, op) = [s EXCEPT !.flash = gl, !.ops = more]
    BY <1>1, <1>2 DEF Put
  <1> QED BY <1>1, <1>2, <1>3, <1>4 DEF StateType

LEMMA PutLeads ==
  ASSUME NEW m, NEW s, Base(m, s), NEW op \in GoodOps, Laid(Apply(s.flash, op))
  PROVE  Leads(m, Put(s, op).ops, Put(s, op).flash)
  <1>1. Apply(s.flash, op) \in Media
    BY DEF Laid
  <1>2. /\ Put(s, op).flash = Apply(s.flash, op) /\ Put(s, op).ops = Append(s.ops, op)
    BY <1>1, PutFacts, BaseFacts
  <1>3. Leads(m, s.ops, s.flash)
    BY DEF Base
  <1> QED BY <1>2, <1>3, LeadsPut

(* The fields of a state that a write leaves alone *)
SameBut(t, s) ==
    /\ t.files = s.files /\ t.fds = s.fds
    /\ t.next_free = s.next_free /\ t.gc_wait = s.gc_wait

(* A page of the extent at p is written. *)
LEMMA PutData ==
  ASSUME NEW m, NEW s, Base(m, s), NEW p \in Pages, IsHeader(s.flash[p]),
         NEW k \in 1 .. s.flash[p].max_pages - 1, NEW page \in PageType,
         ~IsHeader(page), page.kind = "free" => page = Free,
         NEW t, t = Put(s, Program(p + k, page))
  PROVE  /\ Base(m, t) /\ SameBut(t, s)
         /\ \A q \in Pages : IsHeader(s.flash[q]) => t.flash[q] = s.flash[q]
         /\ \A q \in Pages : IsHeader(t.flash[q]) => t.flash[q] = s.flash[q]
         /\ \A q \in Pages : q # p + k => t.flash[q] = s.flash[q]
         /\ t.flash[p + k] = page
  <1>1. PICK d \in Pages : d = p + k
    BY CoveredPage, BaseFacts
  <1>2. PICK op : op = Program(d, page)
    OBVIOUS
  <1>3. PICK fl : fl = s.flash
    OBVIOUS
  <1>4. Laid(fl) /\ fl \in Media /\ s \in StateType /\ Searchable(fl)
    BY <1>3, BaseFacts
  <1>5. PICK gl : gl = [fl EXCEPT ![d] = page]
    OBVIOUS
  <1>6. op \in GoodOps /\ Apply(fl, op) = gl /\ gl \in Media
    BY <1>2, <1>4, <1>5, ApplyProgram
  <1>7. /\ Laid(gl)
        /\ \A q : Uncovered(gl, q) <=> Uncovered(fl, q)
        /\ Searchable(fl) => Searchable(gl)
        /\ \A q \in Pages : IsHeader(fl[q]) => gl[q] = fl[q]
        /\ \A q \in Pages : IsHeader(gl[q]) => gl[q] = fl[q]
    <2>1. k \in 1 .. fl[p].max_pages - 1 /\ IsHeader(fl[p])
      BY <1>3
    <2>2. gl \in Media /\ gl[p + k] = page /\ \A q \in Pages : q # p + k => gl[q] = fl[q]
      BY <1>1, <1>4, <1>5, <1>6 DEF Media
    <2> QED BY <1>4, <2>1, <2>2, LaidData
  <1>8. t = Put(s, op)
    BY <1>1, <1>2
  <1>9. t \in StateType /\ t.flash = gl /\ SameBut(t, s)
    BY <1>3, <1>4, <1>6, <1>8, PutFacts DEF SameBut
  <1>10. Leads(m, t.ops, t.flash)
    BY <1>3, <1>6, <1>7, <1>8, PutLeads
  <1>11. gl[d] = page /\ \A q \in Pages : q # d => gl[q] = fl[q]
    BY <1>4, <1>5 DEF Media
  <1>12. HintsGood(t)
    <2>1. HintsGood(s)
      BY BaseFacts
    <2>2. t.next_free = s.next_free /\ t.gc_wait = s.gc_wait
      BY <1>9 DEF SameBut
    <2>3. Uncovered(gl, t.next_free) /\ t.next_free <= PAGE_COUNT
      BY <1>3, <1>7, <2>1, <2>2 DEF HintsGood
    <2>4. Covers(fl, p, d)
      BY <1>1, <1>3, <1>4, CoveredPage
    <2>5. ASSUME NEW q \in Pages, Uncovered(gl, q), q < t.next_free
          PROVE  gl[q].kind # "free"
      <3>1. Uncovered(fl, q)
        BY <1>7, <2>5
      <3>2. q # d
        BY <2>4, <3>1 DEF Uncovered
      <3>3. fl[q].kind # "free"
        BY <1>3, <2>1, <2>2, <2>5, <3>1 DEF HintsGood
      <3> QED BY <1>11, <3>2, <3>3
    <2>6. ASSUME t.gc_wait PROVE Useless(gl)
      <3>1. Useless(fl)
        BY <1>3, <2>1, <2>2, <2>6 DEF HintsGood
      <3>2. \A h \in Pages : gl[h].kind = "obsolete" => gl[h] = fl[h]
        BY <1>7 DEF IsHeader
      <3>3. \A h \in Pages : fl[h].kind = "active" => gl[h] = fl[h]
        BY <1>7 DEF IsHeader
      <3>4. ASSUME NEW q \in Pages, gl[q].kind = "isolated", Uncovered(gl, q)
            PROVE  fl[q].kind = "isolated" /\ Uncovered(fl, q)
        <4>1. Uncovered(fl, q)
          BY <1>7, <3>4
        <4>2. q # d
          BY <2>4, <4>1 DEF Uncovered
        <4> QED BY <1>11, <3>4, <4>1, <4>2
      <3> QED BY <3>1, <3>2, <3>3, <3>4, UselessKept
    <2> QED BY <1>9, <2>3, <2>5, <2>6 DEF HintsGood
  <1>13. Base(m, t)
    BY <1>4, <1>7, <1>9, <1>10, <1>12 DEF Base
  <1> QED BY <1>1, <1>3, <1>5, <1>7, <1>9, <1>11, <1>13

(* A page is written as it was. *)
LEMMA PutSame ==
  ASSUME NEW m, NEW s, Base(m, s), NEW p \in Pages,
         NEW t, t = Put(s, Program(p, s.flash[p]))
  PROVE  Base(m, t) /\ SameBut(t, s) /\ t.flash = s.flash
  <1>1. PICK op : op = Program(p, s.flash[p])
    OBVIOUS
  <1>2. s.flash[p] \in PageType /\ s.flash \in Media /\ s \in StateType
    BY BaseFacts, MediumPage
  <1>3. op \in GoodOps /\ Apply(s.flash, op) = [s.flash EXCEPT ![p] = s.flash[p]]
    BY <1>1, <1>2, ApplyProgram
  <1>4. Apply(s.flash, op) = s.flash
    BY <1>2, <1>3 DEF Media
  <1>5. t \in StateType /\ t.flash = s.flash /\ SameBut(t, s)
    BY <1>1, <1>2, <1>3, <1>4, PutFacts DEF SameBut
  <1>6. Leads(m, t.ops, t.flash)
    BY <1>1, <1>3, <1>4, PutLeads, BaseFacts
  <1>7. HintsGood(t)
    BY <1>5, BaseFacts DEF HintsGood, SameBut
  <1> QED BY <1>5, <1>6, <1>7, BaseFacts DEF Base

(* The state when the extent at p has become obsolete *)
Outdated(s, p) ==
    [Put(s, Program(p, Header("obsolete", s.flash[p].name, s.flash[p].max_pages)))
       EXCEPT !.gc_wait = FALSE]

LEMMA PutObsolete ==
  ASSUME NEW m, NEW s, Base(m, s), NEW p \in Pages, IsHeader(s.flash[p]),
         NEW t, t = Outdated(s, p)
  PROVE  /\ Base(m, t)
         /\ t.files = s.files /\ t.fds = s.fds
         /\ t.next_free = s.next_free
         /\ t.flash[p].kind = "obsolete"
         /\ t.flash[p].max_pages = s.flash[p].max_pages
         /\ \A q \in Pages : q # p => t.flash[q] = s.flash[q]
  <1>1. PICK hdr : hdr = Header("obsolete", s.flash[p].name, s.flash[p].max_pages)
    OBVIOUS
  <1>2. PICK fl : fl = s.flash
    OBVIOUS
  <1>3. Laid(fl) /\ fl \in Media /\ s \in StateType /\ Searchable(fl) /\ HintsGood(s)
    BY <1>2, BaseFacts
  <1>4. PICK gl : gl = [fl EXCEPT ![p] = hdr]
    OBVIOUS
  <1>5. /\ Laid(gl) /\ hdr \in PageType
        /\ \A q : Uncovered(gl, q) <=> Uncovered(fl, q)
        /\ Searchable(fl) => Searchable(gl)
    BY <1>1, <1>2, <1>3, <1>4, LaidObsolete
  <1>6. PICK op : op = Program(p, hdr)
    OBVIOUS
  <1>7. op \in GoodOps /\ Apply(fl, op) = gl /\ gl \in Media
    BY <1>3, <1>4, <1>5, <1>6, ApplyProgram
  <1>8. PICK u : u = Put(s, op)
    OBVIOUS
  <1>9. /\ u \in StateType /\ u.flash = gl /\ u.files = s.files /\ u.fds = s.fds
        /\ u.next_free = s.next_free
    BY <1>2, <1>3, <1>7, <1>8, PutFacts
  <1>10. Leads(m, u.ops, u.flash)
    BY <1>2, <1>5, <1>7, <1>8, PutLeads
  <1>11. t = [u EXCEPT !.gc_wait = FALSE]
    BY <1>1, <1>6, <1>8 DEF Outdated
  <1>12. /\ t \in StateType /\ t.flash = gl /\ t.ops = u.ops /\ t.files = s.files
         /\ t.fds = s.fds /\ t.next_free = s.next_free /\ t.gc_wait = FALSE
    BY <1>9, <1>11 DEF StateType
  <1>13. gl[p] = hdr /\ \A q \in Pages : q # p => gl[q] = fl[q]
    BY <1>3, <1>4 DEF Media
  <1>14. hdr.kind = "obsolete" /\ hdr.max_pages = fl[p].max_pages
    BY <1>1, <1>2 DEF Header, Page
  <1>15. HintsGood(t)
    <2>1. ASSUME NEW q \in Pages, Uncovered(gl, q), q < t.next_free
          PROVE  gl[q].kind # "free"
      <3>1. fl[q].kind # "free"
        BY <1>2, <1>3, <1>5, <1>12, <2>1 DEF HintsGood
      <3> QED BY <1>13, <1>14, <3>1
    <2>2. Uncovered(gl, t.next_free) /\ t.next_free <= PAGE_COUNT
      BY <1>2, <1>3, <1>5, <1>12 DEF HintsGood
    <2> QED BY <1>12, <2>1, <2>2 DEF HintsGood
  <1>16. Base(m, t)
    BY <1>3, <1>5, <1>9, <1>10, <1>12, <1>15 DEF Base
  <1> QED BY <1>2, <1>12, <1>13, <1>14, <1>16

-----------------------------------------------------------------------------
(* What a sector is to the collector *)

(* At most one extent is at a page. *)
LEMMA OneExtent ==
  ASSUME NEW fl, Laid(fl), NEW g \in Pages, NEW h \in Pages, NEW q \in Pages,
         IsHeader(fl[g]), IsHeader(fl[h]),
         g <= q, q < g + fl[g].max_pages, h <= q, q < h + fl[h].max_pages
  PROVE  g = h
  <1>1. /\ g \in Nat /\ h \in Nat /\ q \in Nat
        /\ fl[g].max_pages \in Nat /\ fl[h].max_pages \in Nat
    BY HeaderFacts, PageFacts
  <1>2. CASE g < h
    BY <1>1, <1>2, HeadersApart
  <1>3. CASE h < g
    BY <1>1, <1>3, HeadersApart
  <1> QED BY <1>1, <1>2, <1>3

(* A page of an extent is a page. *)
LEMMA ExtentPage ==
  ASSUME NEW fl, Laid(fl), NEW h \in Pages, IsHeader(fl[h])
  PROVE  /\ \A q : q \in ExtentOf(fl, h) <=>
               q \in Pages /\ h <= q /\ q < h + fl[h].max_pages
         /\ h \in ExtentOf(fl, h)
         /\ \A q \in Pages : Uncovered(fl, q) => ~(h < q /\ q < h + fl[h].max_pages)
  <1>1. /\ h \in Nat /\ fl[h].max_pages \in Nat /\ fl[h].max_pages > 0
        /\ h + fl[h].max_pages < PAGE_COUNT
    BY HeaderFacts
  <1>2. \A q : q \in ExtentOf(fl, h) <=> q \in Nat /\ h <= q /\ q < h + fl[h].max_pages
    BY <1>1 DEF ExtentOf
  <1>3. \A q \in Nat : q < h + fl[h].max_pages => q \in Pages
    BY <1>1, PageFacts
  <1> QED BY <1>1, <1>2, <1>3, PageFacts DEF Uncovered, Covers

(* The header of an extent that reaches page e from before page a *)
Over(m, h, a, e) == h \in Pages /\ IsHeader(m[h]) /\ h < a /\ h + m[h].max_pages = e

(* A search stands skip pages behind the beginning of sector x.  The pages *)
(* it has skipped are those of an extent, which is active or not.          *)
At(m, x, skip, last) ==
    LET a == x * PAGES_PER_SECTOR
    IN  /\ skip \in Nat /\ last \in BOOLEAN
        /\ a + skip <= PAGE_COUNT
        /\ Uncovered(m, a + skip)
        /\ skip > 0 => \E h \in Pages : /\ Over(m, h, a, a + skip)
                                        /\ last <=> m[h].kind = "active"

(* Only an extent that reaches into the sector has pages before the search. *)
LEMMA AtHolds ==
  ASSUME NEW m, Laid(m), NEW x \in Sectors, NEW skip, NEW last, At(m, x, skip, last),
         NEW a, a = x * PAGES_PER_SECTOR,
         NEW g \in Pages, IsHeader(m[g]), g < a + skip,
         NEW q \in ExtentOf(m, g), Sector(q) = x
  PROVE  skip > 0 /\ (last <=> m[g].kind = "active") /\ Over(m, g, a, a + skip)
  <1>1. a \in Nat /\ skip \in Nat /\ x \in 0 .. SECTOR_COUNT - 1
    BY SectorBounds DEF At, Sectors
  <1>2. /\ q \in Pages /\ q \in Nat /\ g <= q /\ q < g + m[g].max_pages /\ g \in Nat
        /\ m[g].max_pages \in Nat
    BY ExtentPage, HeaderFacts, PageFacts
  <1>3. a <= q
    BY <1>1, <1>2, SectorBounds
  <1>4. ~Covers(m, g, a + skip)
    BY DEF At, Uncovered
  <1>5. g + m[g].max_pages <= a + skip
    BY <1>1, <1>2, <1>4 DEF Covers
  <1>6. q < a + skip /\ skip > 0
    BY <1>1, <1>2, <1>3, <1>5
  <1>7. PICK h \in Pages : Over(m, h, a, a + skip) /\ (last <=> m[h].kind = "active")
    BY <1>6 DEF At
  <1>8. h <= q /\ q < h + m[h].max_pages /\ IsHeader(m[h])
    BY <1>1, <1>2, <1>3, <1>6, <1>7, PageFacts DEF Over
  <1>9. h = g
    BY <1>2, <1>8, OneExtent
  <1> QED BY <1>6, <1>7, <1>9

(* Headers and marks behind a page are there for a search from it. *)
LEMMA SameBehind ==
  ASSUME NEW m, Laid(m), Searchable(m), NEW e \in Nat, Uncovered(m, e),
         NEW fl, Laid(fl), \A q \in Pages : e <= q => fl[q] = m[q],
         \A q \in Pages : IsHeader(fl[q]) => fl[q] = m[q],
         NEW to \in Nat, to <= PAGE_COUNT
  PROVE  /\ Meets(fl, Chain(fl, e, to), e, to)
         /\ \A q \in Nat : e <= q => (Uncovered(fl, q) <=> Uncovered(m, q))
         /\ \A q \in Pages : e <= q => next_file(fl, q) = next_file(m, q)
  <1>1. ASSUME NEW q \in Nat, e <= q PROVE Uncovered(fl, q) <=> Uncovered(m, q)
    <2>1. ASSUME NEW h \in Pages, Covers(fl, h, q) PROVE Covers(m, h, q)
      BY <2>1 DEF Covers
    <2>2. ASSUME NEW h \in Pages, Covers(m, h, q) PROVE Covers(fl, h, q)
      <3>1. /\ IsHeader(m[h]) /\ h \in Nat /\ m[h].max_pages \in Nat
            /\ h < q /\ q < h + m[h].max_pages
        BY <2>2, HeaderFacts DEF Covers
      <3>2. h < e => Covers(m, h, e)
        BY <1>1, <3>1 DEF Covers
      <3>3. e <= h
        BY <3>1, <3>2 DEF Uncovered
      <3>4. fl[h] = m[h]
        BY <3>3
      <3> QED BY <2>2, <3>4 DEF Covers
    <2> QED BY <2>1, <2>2 DEF Uncovered
  <1>2. ASSUME NEW p \in Pages, e <= p, Uncovered(fl, p) PROVE Clear(fl, p)
    <2>1. p \in Nat /\ Uncovered(m, p)
      BY <1>1, <1>2, PageFacts
    <2>2. Clear(m, p) /\ fl[p] = m[p]
      BY <1>2, <2>1 DEF Searchable
    <2>3. ASSUME FreeRest(m, p) PROVE FreeRest(fl, p)
      <3>1. ASSUME NEW q \in Pages, p <= q, Sector(q) = Sector(p) PROVE fl[q] = Free
        <4>1. m[q] = Free /\ q \in Nat
          BY <2>3, <3>1, PageFacts DEF FreeRest
        <4>2. e <= q
          BY <1>2, <2>1, <3>1, <4>1
        <4> QED BY <4>1, <4>2
      <3> QED BY <3>1 DEF FreeRest
    <2> QED BY <2>2, <2>3 DEF Clear
  <1>3. Uncovered(fl, e)
    BY <1>1
  <1>4. \A q \in Pages : e <= q => next_file(fl, q) = next_file(m, q)
    BY DEF next_file
  <1> QED BY <1>1, <1>2, <1>3, <1>4, ChainMeets

-----------------------------------------------------------------------------
(* The status of a sector *)

Dead(m, x) == StaleIn(m, x) /\ ~Holds(m, "active", x)

(* The status says what the sector has, and where the search stands next. *)
Says(m, x, st) ==
    /\ st.active <=> Holds(m, "active", x)
    /\ st.obsolete <=> StaleIn(m, x)
    /\ At(m, x + 1, st.skip, st.last_active)
    /\ Dead(m, x) => st.isolate = IF st.skip < PAGES_PER_SECTOR THEN st.skip ELSE 0

(* The extents of a kind in a sector: the one that reaches into it, and    *)
(* those whose headers the search meets.                                   *)
LEMMA HoldsWithin ==
  ASSUME NEW m, Laid(m), NEW x \in Sectors, NEW skip, NEW last, At(m, x, skip, last),
         NEW a, a = x * PAGES_PER_SECTOR, NEW V,
         \A q \in V : q \in Pages /\ Sector(q) = x,
         \A q \in Pages : Sector(q) = x /\ a + skip <= q /\ IsHeader(m[q]) => q \in V,
         NEW kind \in {"active", "obsolete"}
  PROVE  Holds(m, kind, x) <=> \/ \E q \in V : m[q].kind = kind
                               \/ skip > 0 /\ (last <=> kind = "active")
  <1>1. a \in Nat /\ a \in Pages /\ Sector(a) = x /\ skip \in Nat /\ x \in 0 .. SECTOR_COUNT - 1
    BY SectorBounds DEF At, Sectors
  <1>2. ASSUME NEW q \in V, m[q].kind = kind PROVE Holds(m, kind, x)
    <2>1. IsHeader(m[q]) /\ q \in Pages
      BY <1>2 DEF IsHeader
    <2>2. q \in ExtentOf(m, q)
      BY <2>1, ExtentPage
    <2> QED BY <1>2, <2>1, <2>2 DEF Holds
  <1>3. ASSUME skip > 0, last <=> kind = "active" PROVE Holds(m, kind, x)
    <2>1. PICK h \in Pages : Over(m, h, a, a + skip) /\ (last <=> m[h].kind = "active")
      BY <1>3 DEF At
    <2>2. h <= a /\ a < h + m[h].max_pages /\ IsHeader(m[h])
      BY <1>1, <1>3, <2>1, PageFacts DEF Over
    <2>3. a \in ExtentOf(m, h)
      BY <1>1, <2>2, ExtentPage
    <2>4. m[h].kind = kind
      BY <1>3, <2>1, <2>2 DEF IsHeader
    <2> QED BY <1>1, <2>3, <2>4 DEF Holds
  <1>4. ASSUME Holds(m, kind, x)
        PROVE  (\E q \in V : m[q].kind = kind) \/ (skip > 0 /\ (last <=> kind = "active"))
    <2>1. PICK h \in Pages : m[h].kind = kind /\ \E q \in ExtentOf(m, h) : Sector(q) = x
      BY <1>4 DEF Holds
    <2>2. PICK q \in ExtentOf(m, h) : Sector(q) = x
      BY <2>1
    <2>3. IsHeader(m[h]) /\ h \in Nat
      BY <2>1, PageFacts DEF IsHeader
    <2>4. CASE h < a + skip
      <3>1. skip > 0 /\ (last <=> m[h].kind = "active")
        BY <2>2, <2>3, <2>4, AtHolds
      <3> QED BY <2>1, <3>1
    <2>5. CASE a + skip <= h
      <3>1. q \in Pages /\ h <= q /\ q \in Nat
        BY <2>3, ExtentPage, PageFacts
      <3>2. a <= h
        BY <1>1, <2>3, <2>5
      <3>3. x <= Sector(h) /\ Sector(h) <= x
        BY <1>1, <2>2, <2>3, <3>1, <3>2, SectorOrder
      <3>4. Sector(h) = x
        BY <1>1, <2>3, <3>3, SectorFacts
      <3> QED BY <2>1, <2>3, <2>5, <3>4
    <2> QED BY <1>1, <2>3, <2>4, <2>5
  <1> QED BY <1>2, <1>3, <1>4

(* The search stands in the sector. *)
LEMMA StatusWithin ==
  ASSUME NEW m, Laid(m), Searchable(m), NEW x \in Sectors,
         NEW skip, NEW last, At(m, x, skip, last), skip < PAGES_PER_SECTOR,
         NEW a, a = x * PAGES_PER_SECTOR,
         NEW fl, Laid(fl), \A q \in Pages : a + skip <= q => fl[q] = m[q],
         \A q \in Pages : IsHeader(fl[q]) => fl[q] = m[q],
         NEW st, st = CountSector(fl, x, skip, last)
  PROVE  Says(m, x, st)
  <1> DEFINE K == PAGES_PER_SECTOR
  <1>1. /\ K \in Nat /\ K > 0 /\ a \in Nat /\ a \in Pages /\ skip \in Nat
        /\ last \in BOOLEAN /\ x \in 0 .. SECTOR_COUNT - 1 /\ x \in Nat
        /\ a + K <= PAGE_COUNT /\ PAGE_COUNT \in Nat /\ (x + 1) * K = a + K
    BY Sizes0, SectorBounds, PageFacts DEF At, Sectors
  <1>2. PICK e \in Nat : e = a + skip
    BY <1>1
  <1>3. PICK to \in Nat : to = a + K
    BY <1>1
  <1>4. a <= e /\ e < to /\ to <= PAGE_COUNT /\ Uncovered(m, e) /\ e \in Pages
    BY <1>1, <1>2, <1>3, PageFacts DEF At
  <1>5. PICK V : V = Chain(fl, e, to)
    OBVIOUS
  <1>6. /\ Meets(fl, V, e, to)
        /\ \A q \in Nat : e <= q => (Uncovered(fl, q) <=> Uncovered(m, q))
        /\ \A q \in Pages : e <= q => next_file(fl, q) = next_file(m, q)
    BY <1>2, <1>4, <1>5, SameBehind
  <1>7. \A q \in V : q \in Pages /\ q \in Nat /\ e <= q /\ q < to /\ Uncovered(m, q)
                     /\ fl[q] = m[q] /\ next_file(fl, q) = next_file(m, q) /\ Clear(m, q)
    <2> SUFFICES ASSUME NEW q \in V
                 PROVE  q \in Pages /\ q \in Nat /\ e <= q /\ q < to /\ Uncovered(m, q)
                        /\ fl[q] = m[q] /\ next_file(fl, q) = next_file(m, q) /\ Clear(m, q)
      OBVIOUS
    <2>1. q \in Pages /\ e <= q /\ q < to /\ Uncovered(fl, q) /\ q \in Nat
      BY <1>6, PageFacts DEF Meets
    <2> QED BY <1>2, <1>6, <2>1 DEF Searchable
  <1>8. \A q \in Nat : Sector(q) = x <=> a <= q /\ q < to
    BY <1>1, <1>3, SectorBounds
  <1>9. \A q \in V : q \in Pages /\ Sector(q) = x
    BY <1>1, <1>4, <1>7, <1>8
  <1>10. \A q \in Pages : Sector(q) = x /\ e <= q /\ Uncovered(m, q) =>
             q \in V \/ m[q].kind = "free"
    <2> SUFFICES ASSUME NEW q \in Pages, Sector(q) = x, e <= q, Uncovered(m, q)
                 PROVE  q \in V \/ m[q].kind = "free"
      OBVIOUS
    <2>1. q \in Nat /\ q < to /\ Uncovered(fl, q) /\ fl[q] = m[q]
      BY <1>2, <1>6, <1>8, PageFacts
    <2> QED BY <1>6, <2>1, MeetsAll, FreeFirst
  <1>11. \A q \in Pages : Sector(q) = x /\ e <= q /\ IsHeader(m[q]) => q \in V
    BY <1>10, HeaderFacts DEF IsHeader
  <1>12. V # {} /\ V \in SUBSET Nat /\ \A q \in V : q <= to
    <2>1. e <= e
      BY <1>1
    <2>2. PICK p \in V : p <= e
      BY <1>4, <1>6, <2>1 DEF Meets
    <2> QED BY <1>7, <2>2
  <1>13. PICK l \in V : l = Max(V) /\ \A q \in V : q <= l
    BY <1>12, GreatestElement
  <1>14. PICK n \in Nat : n = next_file(fl, l) /\ l < n /\ n <= PAGE_COUNT /\ Uncovered(m, n)
    <2>1. l \in Pages /\ Uncovered(m, l) /\ Clear(m, l) /\ next_file(fl, l) = next_file(m, l)
      BY <1>7
    <2> QED BY <2>1, NextUncovered
  <1>15. n >= to
    <2>1. n \in V \/ n >= to
      BY <1>6, <1>14 DEF Meets
    <2>2. n \in V => n <= l
      BY <1>13
    <2> QED BY <1>7, <1>14, <2>1, <2>2
  <1>16. PICK over \in Nat : over = n - to
    BY <1>15
  <1>17. Max({0, next_file(fl, Max(V)) - a - K}) = over
    <2>1. next_file(fl, Max(V)) - a - K = over
      BY <1>1, <1>3, <1>13, <1>14, <1>16
    <2> QED BY <2>1, Extrema
  <1>18. ASSUME over > 0 PROVE IsHeader(m[l]) /\ l + m[l].max_pages = n
    <2>1. l \in Pages /\ l \in Nat /\ l < to /\ Clear(m, l) /\ n = next_file(m, l) /\ m \in Media
      BY <1>7, <1>14 DEF Laid
    <2>2. m[l].kind # "data" /\ m[l].kind \in {"free", "active", "obsolete", "isolated", "data"}
      BY <2>1, MediumPage DEF Clear
    <2>3. m[l].kind # "isolated"
      <3>1. m[l].kind = "isolated" => n = l + 1
        BY <2>1, NextIs
      <3> QED BY <1>16, <1>18, <2>1, <3>1
    <2>4. m[l].kind # "free"
      <3>1. m[l].kind = "free" => n = Sector(l) * K + K
        BY <2>1, NextIs
      <3>2. Sector(l) * K + K = to
        BY <1>3, <1>9
      <3> QED BY <1>16, <1>18, <3>1, <3>2
    <2>5. IsHeader(m[l])
      BY <2>2, <2>3, <2>4 DEF IsHeader
    <2> QED BY <2>1, <2>5, NextIs
  <1>19. PICK kinds : kinds = {fl[p].kind : p \in V}
    OBVIOUS
  <1>20. PICK act \in BOOLEAN : act = (fl[l].kind = "active")
    OBVIOUS
  <1>21. /\ st.active <=> "active" \in kinds \/ (last /\ skip > 0)
         /\ st.obsolete <=> kinds \cap {"isolated", "obsolete"} # {} \/ (~last /\ skip > 0)
         /\ st.skip = over /\ st.last_active = act
         /\ st.isolate = IF act \/ over >= K THEN 0 ELSE over
    <2>1. PICK some \in BOOLEAN : some = ("active" \in kinds \/ (last /\ skip > 0))
      OBVIOUS
    <2>2. PICK stale \in BOOLEAN :
            stale = (kinds \cap {"isolated", "obsolete"} # {} \/ (~last /\ skip > 0))
      OBVIOUS
    <2>3. V = Chain(fl, x * K + skip, x * K + K)
      BY <1>2, <1>3, <1>5
    <2>4. st = [active |-> some, obsolete |-> stale, skip |-> over, last_active |-> act,
                isolate |-> IF act \/ over >= K THEN 0 ELSE over]
      BY <1>13, <1>17, <1>19, <1>20, <2>1, <2>2, <2>3 DEF CountSector
    <2>5. /\ st.active = some /\ st.obsolete = stale /\ st.skip = over
          /\ st.last_active = act
          /\ st.isolate = IF act \/ over >= K THEN 0 ELSE over
      BY <2>4
    <2> QED BY <2>1, <2>2, <2>5, Zenon
  <1>22. \A kind : kind \in kinds <=> \E q \in V : m[q].kind = kind
    BY <1>7, <1>19
  <1>23. \A kind \in {"active", "obsolete"} :
            Holds(m, kind, x) <=> \/ kind \in kinds
                                  \/ skip > 0 /\ (last <=> kind = "active")
    BY <1>2, <1>9, <1>11, <1>22, HoldsWithin
  <1>24. st.active <=> Holds(m, "active", x)
    BY <1>1, <1>21, <1>23
  <1>25. st.obsolete <=> StaleIn(m, x)
    <2>1. Holds(m, "obsolete", x) <=> "obsolete" \in kinds \/ (skip > 0 /\ ~last)
      BY <1>1, <1>23
    <2>2. ASSUME "isolated" \in kinds PROVE StaleIn(m, x)
      BY <1>7, <1>9, <1>22, <2>2 DEF StaleIn
    <2>3. ASSUME NEW q \in Pages, Sector(q) = x, m[q].kind = "isolated", Uncovered(m, q)
          PROVE  "isolated" \in kinds
      <3>1. q \in Nat /\ a <= q
        BY <1>8, <2>3, PageFacts
      <3>2. e <= q
        <4> SUFFICES ASSUME q < e PROVE FALSE
          BY <3>1
        <4>1. skip > 0
          BY <1>1, <1>2, <3>1
        <4>2. PICK h \in Pages : Over(m, h, a, e)
          BY <1>2, <4>1 DEF At
        <4>3. Covers(m, h, q)
          BY <1>1, <3>1, <4>2, PageFacts DEF Over, Covers
        <4> QED BY <2>3, <4>3 DEF Uncovered
      <3>3. q \in V
        BY <1>10, <2>3, <3>2
      <3> QED BY <1>22, <2>3, <3>3
    <2> QED BY <1>21, <2>1, <2>2, <2>3 DEF StaleIn
  <1>26. At(m, x + 1, st.skip, st.last_active)
    <2>1. to + over = n
      BY <1>15, <1>16
    <2>2. ASSUME over > 0 PROVE Over(m, l, to, to + over) /\ (act <=> m[l].kind = "active")
      BY <1>7, <1>18, <1>20, <2>1, <2>2 DEF Over
    <2>3. l \in Pages
      BY <1>7
    <2>4. (x + 1) * PAGES_PER_SECTOR = to
      BY <1>1, <1>3
    <2> QED BY <1>14, <1>21, <2>1, <2>2, <2>3, <2>4 DEF At
  <1>27. ASSUME Dead(m, x) PROVE st.isolate = IF st.skip < K THEN st.skip ELSE 0
    <2>1. ~act
      <3>1. act => "active" \in kinds
        BY <1>20, <1>19
      <3> QED BY <1>23, <1>27, <3>1 DEF Dead
    <2> QED BY <1>1, <1>21, <2>1
  <1> QED BY <1>24, <1>25, <1>26, <1>27 DEF Says

-----------------------------------------------------------------------------

(* The search stands behind the sector. *)
LEMMA StatusCovered ==
  ASSUME NEW m, Laid(m), NEW x \in Sectors,
         NEW skip, NEW last, At(m, x, skip, last), skip >= PAGES_PER_SECTOR,
         NEW left, left = skip - PAGES_PER_SECTOR, NEW st,
         st = [active |-> last, obsolete |-> ~last, skip |-> left, last_active |-> last,
               isolate |-> IF last \/ left >= PAGES_PER_SECTOR THEN 0 ELSE left]
  PROVE  Says(m, x, st)
  <1> DEFINE K == PAGES_PER_SECTOR
             a == x * PAGES_PER_SECTOR
  <1>1. /\ K \in Nat /\ K > 0 /\ a \in Nat /\ skip \in Nat /\ left \in Nat
        /\ last \in BOOLEAN /\ x \in 0 .. SECTOR_COUNT - 1
        /\ (x + 1) * K = a + K
    BY Sizes0, SectorBounds, PageFacts DEF At, Sectors
  <1>2. a + skip <= PAGE_COUNT /\ Uncovered(m, a + skip) /\ skip > 0
    BY <1>1 DEF At
  <1>3. PICK h \in Pages : Over(m, h, a, a + skip) /\ (last <=> m[h].kind = "active")
    BY <1>2 DEF At
  <1>4. \A q \in Nat : Sector(q) = x => q < a + skip
    BY <1>1, SectorBounds
  <1>5. \A kind \in {"active", "obsolete"} : Holds(m, kind, x) <=> (last <=> kind = "active")
    <2>0. PICK V : V = {}
      OBVIOUS
    <2>1. \A q \in V : q \in Pages /\ Sector(q) = x
      BY <2>0
    <2>2. \A q \in Pages : Sector(q) = x /\ a + skip <= q /\ IsHeader(m[q]) => q \in V
      BY <1>1, <1>4, PageFacts
    <2> HIDE DEF a
    <2>3. a = x * PAGES_PER_SECTOR
      BY DEF a
    <2>4. \A kind \in {"active", "obsolete"} :
             Holds(m, kind, x) <=> \/ \E q \in V : m[q].kind = kind
                                   \/ skip > 0 /\ (last <=> kind = "active")
      BY <2>1, <2>2, <2>3, HoldsWithin
    <2> QED BY <1>2, <2>0, <2>4
  <1>6. Holds(m, "active", x) <=> last
    BY <1>5
  <1>7. Holds(m, "obsolete", x) <=> ~last
    <2>1. Holds(m, "obsolete", x) <=> (last <=> "obsolete" = "active")
      BY <1>5
    <2> QED BY <2>1
  <1>8. ASSUME NEW q \in Pages, Sector(q) = x PROVE ~Uncovered(m, q)
    <2>1. a <= q /\ q < a + skip
      BY <1>1, <1>4, <1>8, SectorBounds, PageFacts
    <2>2. Covers(m, h, q)
      BY <1>1, <1>3, <2>1, PageFacts DEF Over, Covers
    <2> QED BY <2>2 DEF Uncovered
  <1>9. StaleIn(m, x) <=> ~last
    BY <1>7, <1>8 DEF StaleIn
  <1>10. At(m, x + 1, left, last)
    <2>1. (x + 1) * PAGES_PER_SECTOR + left = a + skip
      BY <1>1
    <2>2. Over(m, h, (x + 1) * PAGES_PER_SECTOR, a + skip)
      BY <1>1, <1>3, PageFacts DEF Over
    <2> QED BY <1>1, <1>2, <1>3, <2>1, <2>2 DEF At
  <1>11. /\ st.active = last /\ st.obsolete = ~last /\ st.skip = left /\ st.last_active = last
         /\ st.isolate = IF last \/ left >= K THEN 0 ELSE left
    OBVIOUS
  <1>12. Dead(m, x) => st.isolate = IF st.skip < K THEN st.skip ELSE 0
    BY <1>1, <1>6, <1>11 DEF Dead
  <1> QED BY <1>1, <1>6, <1>9, <1>10, <1>11, <1>12 DEF Says

LEMMA Status ==
  ASSUME NEW m, Laid(m), Searchable(m), NEW x \in Sectors,
         NEW skip, NEW last, At(m, x, skip, last),
         NEW fl, Laid(fl), \A q \in Pages : x * PAGES_PER_SECTOR + skip <= q => fl[q] = m[q],
         \A q \in Pages : IsHeader(fl[q]) => fl[q] = m[q],
         NEW st, st = get_sector_status(fl, x, skip, last)
  PROVE  Says(m, x, st)
  <1>1. PAGES_PER_SECTOR \in Nat /\ skip \in Nat /\ last \in BOOLEAN
    BY Sizes0 DEF At
  <1>2. PICK a : a = x * PAGES_PER_SECTOR
    OBVIOUS
  <1>3. CASE skip < PAGES_PER_SECTOR
    <2>1. st = CountSector(fl, x, skip, last)
      BY <1>1, <1>3 DEF get_sector_status
    <2> QED BY <1>2, <1>3, <2>1, StatusWithin
  <1>4. CASE skip >= PAGES_PER_SECTOR
    <2>1. PICK left : left = skip - PAGES_PER_SECTOR
      OBVIOUS
    <2>2. ~(left < 0)
      BY <1>1, <1>4, <2>1
    <2>3. st = [active |-> last, obsolete |-> ~last, skip |-> left, last_active |-> last,
                isolate |-> IF last \/ left >= PAGES_PER_SECTOR THEN 0 ELSE left]
      BY <2>1, <2>2 DEF get_sector_status
    <2> QED BY <1>4, <2>1, <2>3, StatusCovered
  <1> QED BY <1>1, <1>3, <1>4

-----------------------------------------------------------------------------
(* The medium half way through a collection *)

(* A page of an extent whose header is erased *)
Orphan(m, q) ==
    \E h \in Pages : m[h].kind = "obsolete" /\ Dead(m, Sector(h)) /\ q \in ExtentOf(m, h)

(* The sectors before x have been seen; of what their extents leave in the *)
(* next one, the pages before b are marked.                                *)
Stage(m, x, b) ==
    [q \in Pages |-> IF Sector(q) < x /\ Dead(m, Sector(q)) THEN Free
                     ELSE IF q < b /\ Orphan(m, q) THEN Isolated ELSE m[q]]

Mark(x, skip) ==
    x * PAGES_PER_SECTOR + (IF skip < PAGES_PER_SECTOR THEN skip ELSE 0)

LEMMA StageFacts ==
  ASSUME NEW m, Laid(m), NEW x \in Nat, NEW b,
         NEW fl, fl = Stage(m, x, b)
  PROVE  /\ Laid(fl) /\ fl \in Media
         /\ \A q : Uncovered(m, q) => Uncovered(fl, q)
         /\ \A q \in Pages : IsHeader(fl[q]) => fl[q] = m[q]
         /\ \A q \in Pages :
              fl[q] = IF Sector(q) < x /\ Dead(m, Sector(q)) THEN Free
                      ELSE IF q < b /\ Orphan(m, q) THEN Isolated ELSE m[q]
  <1>1. m \in Media /\ \A p \in Pages : m[p].kind = "free" => m[p] = Free
    BY DEF Laid
  <1>2. \A q \in Pages :
              fl[q] = IF Sector(q) < x /\ Dead(m, Sector(q)) THEN Free
                      ELSE IF q < b /\ Orphan(m, q) THEN Isolated ELSE m[q]
    BY DEF Stage
  <1>3. \A q \in Pages : fl[q] \in {Free, Isolated, m[q]}
    BY <1>2
  <1>4. \A q \in Pages : fl[q] \in PageType
    BY <1>1, <1>3, PageTypes, MediumPage
  <1>5. fl = [q \in Pages |-> fl[q]]
    BY DEF Stage
  <1>6. fl \in Media
    BY <1>4, <1>5 DEF Media
  <1>7. \A q \in Pages : IsHeader(fl[q]) => fl[q] = m[q]
    BY <1>3, PageTypes
  <1>8. \A q \in Pages : fl[q].kind = "free" => fl[q] = Free
    BY <1>1, <1>3, PageTypes
  <1>9. Laid(fl) /\ \A q : Uncovered(m, q) => Uncovered(fl, q)
    BY <1>6, <1>7, <1>8, LaidKept
  <1> QED BY <1>2, <1>6, <1>7, <1>9

(* What a search from sector x will stand on is as on the medium. *)
LEMMA StageBehind ==
  ASSUME NEW m, Laid(m), NEW x \in Nat, NEW skip \in Nat,
         NEW fl, fl = Stage(m, x, Mark(x, skip)),
         NEW q \in Pages, x * PAGES_PER_SECTOR + skip <= q
  PROVE  fl[q] = m[q]
  <1>1. /\ PAGES_PER_SECTOR \in Nat /\ PAGES_PER_SECTOR > 0 /\ q \in Nat
        /\ x * PAGES_PER_SECTOR \in Nat
    BY Sizes0, PageFacts, Products
  <1>2. ~(q < Mark(x, skip))
    BY <1>1 DEF Mark
  <1>3. Sector(q) \in Nat /\ ~(Sector(q) < x)
    BY <1>1, SectorFacts
  <1> QED BY <1>2, <1>3, StageFacts

(* No active extent lies in a sector that another extent goes over. *)
LEMMA OverActive ==
  ASSUME NEW m, Laid(m), NEW x \in Sectors, NEW h \in Pages, IsHeader(m[h]),
         NEW a, a = x * PAGES_PER_SECTOR, h < a + 1,
         a + PAGES_PER_SECTOR <= h + m[h].max_pages
  PROVE  /\ \A q \in Pages : Sector(q) = x => q \in ExtentOf(m, h)
         /\ Holds(m, "active", x) <=> m[h].kind = "active"
  <1>1. /\ PAGES_PER_SECTOR \in Nat /\ PAGES_PER_SECTOR > 0 /\ a \in Nat /\ a \in Pages
        /\ Sector(a) = x /\ h \in Nat /\ m[h].max_pages \in Nat /\ x \in 0 .. SECTOR_COUNT - 1
    BY Sizes0, SectorBounds, HeaderFacts DEF Sectors
  <1>2. ASSUME NEW q \in Pages, Sector(q) = x PROVE q \in ExtentOf(m, h)
    <2>1. a <= q /\ q < a + PAGES_PER_SECTOR /\ q \in Nat
      BY <1>1, <1>2, SectorBounds, PageFacts
    <2> QED BY <1>1, <2>1, ExtentPage
  <1>3. ASSUME Holds(m, "active", x) PROVE m[h].kind = "active"
    <2>1. PICK g \in Pages : m[g].kind = "active" /\ \E q \in ExtentOf(m, g) : Sector(q) = x
      BY <1>3 DEF Holds
    <2>2. PICK q \in ExtentOf(m, g) : Sector(q) = x
      BY <2>1
    <2>3. IsHeader(m[g])
      BY <2>1 DEF IsHeader
    <2>4. q \in Pages /\ g <= q /\ q < g + m[g].max_pages
      BY <2>3, ExtentPage
    <2>5. h <= q /\ q < h + m[h].max_pages
      BY <1>2, <2>2, <2>4, ExtentPage
    <2>6. g = h
      BY <2>3, <2>4, <2>5, OneExtent
    <2> QED BY <2>1, <2>6
  <1>4. ASSUME m[h].kind = "active" PROVE Holds(m, "active", x)
    BY <1>1, <1>2, <1>4 DEF Holds
  <1> QED BY <1>2, <1>3, <1>4

(* A sector that is kept adds no orphan. *)
LEMMA NoOrphan ==
  ASSUME NEW m, Laid(m), NEW x \in Sectors, ~Dead(m, x),
         NEW skip, NEW last, At(m, x, skip, last),
         NEW over, NEW next, At(m, x + 1, over, next),
         NEW q \in Pages, Mark(x, skip) <= q, q < Mark(x + 1, over)
  PROVE  ~Orphan(m, q)
  <1> DEFINE K == PAGES_PER_SECTOR
  <1>1. PICK a : a = x * K
    OBVIOUS
  <1>2. /\ K \in Nat /\ K > 0 /\ a \in Nat /\ skip \in Nat /\ over \in Nat
        /\ x \in 0 .. SECTOR_COUNT - 1 /\ x \in Nat /\ (x + 1) * K = a + K
        /\ a \in Pages /\ Sector(a) = x /\ q \in Nat
    BY <1>1, Sizes0, SectorBounds, PageFacts DEF At, Sectors
  <1> SUFFICES ASSUME Orphan(m, q) PROVE FALSE
    OBVIOUS
  <1>3. PICK h \in Pages : m[h].kind = "obsolete" /\ Dead(m, Sector(h)) /\ q \in ExtentOf(m, h)
    BY DEF Orphan
  <1>4. IsHeader(m[h]) /\ h \in Nat /\ m[h].max_pages \in Nat /\ h <= q /\ q < h + m[h].max_pages
    BY <1>3, HeaderFacts, ExtentPage, PageFacts DEF IsHeader
  <1>5. /\ a <= q /\ q < a + K + (IF over < K THEN over ELSE 0)
        /\ skip < K => a + skip <= q
    BY <1>1, <1>2 DEF Mark
  <1>6. Sector(h) \in Nat /\ Sector(h) # x
    BY <1>3, <1>4, SectorFacts
  <1>7. h < a \/ a + K <= h
    <2>1. ~(a <= h /\ h < a + K)
      BY <1>1, <1>2, <1>4, <1>6, SectorBounds
    <2> QED BY <1>2, <1>4, <2>1
  <1>8. h < a
    <2> SUFFICES ASSUME a + K <= h PROVE FALSE
      BY <1>7
    <2>1. over > 0
      BY <1>2, <1>4, <1>5
    <2>2. (x + 1) * PAGES_PER_SECTOR = a + K
      BY <1>2
    <2>3. PICK g \in Pages : Over(m, g, a + K, a + K + over)
      BY <2>1, <2>2 DEF At
    <2>4. Covers(m, g, h)
      BY <1>2, <1>4, <1>5, <2>3, PageFacts DEF Over, Covers
    <2> QED BY <1>4, <2>4 DEF Laid
  <1>9. ASSUME a + K <= h + m[h].max_pages PROVE FALSE
    <2>1. h < a + 1
      BY <1>2, <1>4, <1>8
    <2>2. ~Holds(m, "active", x) /\ a \in ExtentOf(m, h)
      <3>1. "obsolete" # "active"
        OBVIOUS
      <3> QED BY <1>1, <1>2, <1>3, <1>4, <1>9, <2>1, <3>1, OverActive
    <2>3. Holds(m, "obsolete", x)
      BY <1>2, <1>3, <2>2 DEF Holds
    <2> QED BY <2>2, <2>3 DEF Dead, StaleIn
  <1>10. q < a + K /\ h + m[h].max_pages < a + K
    BY <1>2, <1>4, <1>9
  <1>11. CASE skip < K
    <2>1. a + skip <= q
      BY <1>5, <1>11
    <2>2. Covers(m, h, a + skip)
      BY <1>2, <1>4, <1>8, <2>1 DEF Covers
    <2>3. Uncovered(m, a + skip)
      BY <1>1 DEF At
    <2> QED BY <2>2, <2>3 DEF Uncovered
  <1>12. CASE skip >= K
    <2>1. skip > 0
      BY <1>2, <1>12
    <2>2. PICK g \in Pages : Over(m, g, a, a + skip)
      BY <1>1, <2>1 DEF At
    <2>3. /\ IsHeader(m[g]) /\ g \in Nat /\ g < a /\ g + m[g].max_pages = a + skip
      BY <2>2, PageFacts DEF Over
    <2>4. g <= q /\ q < g + m[g].max_pages
      BY <1>2, <1>5, <1>10, <1>12, <2>3
    <2>5. g = h
      BY <1>4, <2>3, <2>4, OneExtent
    <2> QED BY <1>2, <1>4, <1>10, <1>12, <2>3, <2>5
  <1> QED BY <1>2, <1>11, <1>12

(* What a sector that is erased leaves in the next one are orphans. *)
LEMMA Orphaned ==
  ASSUME NEW m, Laid(m), NoOverhang(m), NEW x \in Sectors, Dead(m, x),
         NEW over, NEW next, At(m, x + 1, over, next),
         NEW q \in Pages, (x + 1) * PAGES_PER_SECTOR <= q, q < Mark(x + 1, over)
  PROVE  Orphan(m, q)
  <1> DEFINE K == PAGES_PER_SECTOR
  <1>1. PICK a : a = x * K
    OBVIOUS
  <1>2. /\ K \in Nat /\ K > 0 /\ a \in Nat /\ over \in Nat
        /\ x \in 0 .. SECTOR_COUNT - 1 /\ x \in Nat /\ (x + 1) * K = a + K
        /\ a \in Pages /\ Sector(a) = x /\ q \in Nat
    BY <1>1, Sizes0, SectorBounds, PageFacts DEF At, Sectors
  <1>3. over > 0 /\ q < a + K + over
    BY <1>2 DEF Mark
  <1>4. PICK g \in Pages : Over(m, g, a + K, a + K + over)
    <2>1. (x + 1) * PAGES_PER_SECTOR = a + K
      BY <1>2
    <2> QED BY <1>3, <2>1 DEF At
  <1>5. /\ IsHeader(m[g]) /\ g \in Nat /\ g < a + K /\ g + m[g].max_pages = a + K + over
        /\ g \in ExtentOf(m, g)
    BY <1>4, ExtentPage, PageFacts DEF Over
  <1>6. q \in ExtentOf(m, g)
    BY <1>2, <1>3, <1>5, ExtentPage
  <1>7. PICK r \in Pages : r \in ExtentOf(m, g) /\ Sector(r) = x
    <2>1. CASE g < a
      <3>1. a \in ExtentOf(m, g)
        BY <1>2, <1>5, <2>1, ExtentPage
      <3> QED BY <1>2, <3>1
    <2>2. CASE a <= g
      <3>1. Sector(g) = x
        BY <1>1, <1>2, <1>5, <2>2, SectorBounds
      <3> QED BY <1>5, <3>1
    <2> QED BY <1>2, <1>5, <2>1, <2>2
  <1>8. m[g].kind = "obsolete"
    <2>1. m[g].kind # "active"
      BY <1>7 DEF Dead, Holds
    <2> QED BY <1>5, <2>1 DEF IsHeader
  <1>9. ~Holds(m, "active", Sector(g))
    BY <1>7, <1>8 DEF NoOverhang, Dead
  <1>10. Holds(m, "obsolete", Sector(g))
    BY <1>5, <1>8 DEF Holds
  <1>11. Dead(m, Sector(g))
    BY <1>9, <1>10 DEF Dead, StaleIn
  <1> QED BY <1>6, <1>8, <1>11 DEF Orphan

LEMMA StageKept ==
  ASSUME NEW m, Laid(m), NEW x \in Sectors, ~Dead(m, x),
         NEW skip, NEW last, At(m, x, skip, last),
         NEW over, NEW next, At(m, x + 1, over, next)
  PROVE  Stage(m, x + 1, Mark(x + 1, over)) = Stage(m, x, Mark(x, skip))
  <1>1. /\ PAGES_PER_SECTOR \in Nat /\ PAGES_PER_SECTOR > 0 /\ x * PAGES_PER_SECTOR \in Nat
        /\ skip \in Nat /\ over \in Nat /\ x \in Nat
        /\ (x + 1) * PAGES_PER_SECTOR = x * PAGES_PER_SECTOR + PAGES_PER_SECTOR
    BY Sizes0, SectorBounds, PageFacts DEF At, Sectors
  <1>2. PICK b \in Nat : b = Mark(x, skip)
    BY <1>1 DEF Mark
  <1>3. PICK c \in Nat : c = Mark(x + 1, over)
    BY <1>1 DEF Mark
  <1>4. b <= c
    BY <1>1, <1>2, <1>3 DEF Mark
  <1>5. \A q \in Pages : b <= q /\ q < c => ~Orphan(m, q)
    BY <1>2, <1>3, NoOrphan
  <1>6. ASSUME NEW q \in Pages
        PROVE  (IF Sector(q) < x + 1 /\ Dead(m, Sector(q)) THEN Free
                ELSE IF q < c /\ Orphan(m, q) THEN Isolated ELSE m[q])
               = (IF Sector(q) < x /\ Dead(m, Sector(q)) THEN Free
                  ELSE IF q < b /\ Orphan(m, q) THEN Isolated ELSE m[q])
    <2>1. q \in Nat /\ Sector(q) \in Nat
      BY PageFacts, SectorFacts
    <2>2. Sector(q) < x + 1 /\ Dead(m, Sector(q)) <=> Sector(q) < x /\ Dead(m, Sector(q))
      BY <1>1, <2>1
    <2>3. q < c /\ Orphan(m, q) <=> q < b /\ Orphan(m, q)
      BY <1>4, <1>5, <2>1
    <2> QED BY <2>2, <2>3, Zenon
  <1> QED BY <1>2, <1>3, <1>6, Zenon DEF Stage

LEMMA StageErased ==
  ASSUME NEW m, Laid(m), NoOverhang(m), NEW x \in Sectors, Dead(m, x),
         NEW skip, NEW last, At(m, x, skip, last),
         NEW over, NEW next, At(m, x + 1, over, next),
         NEW fl, fl = Stage(m, x, Mark(x, skip))
  PROVE  Stage(m, x + 1, Mark(x + 1, over)) =
           [q \in Pages |->
              IF Sector(q) = x THEN Free
              ELSE IF (x + 1) * PAGES_PER_SECTOR <= q /\ q < Mark(x + 1, over)
                   THEN Isolated ELSE fl[q]]
  <1>1. /\ PAGES_PER_SECTOR \in Nat /\ PAGES_PER_SECTOR > 0 /\ x * PAGES_PER_SECTOR \in Nat
        /\ skip \in Nat /\ over \in Nat /\ x \in Nat /\ x \in 0 .. SECTOR_COUNT - 1
        /\ (x + 1) * PAGES_PER_SECTOR = x * PAGES_PER_SECTOR + PAGES_PER_SECTOR
    BY Sizes0, SectorBounds, PageFacts DEF At, Sectors
  <1>2. PICK b \in Nat : b = Mark(x, skip)
    BY <1>1 DEF Mark
  <1>3. PICK c \in Nat : c = Mark(x + 1, over)
    BY <1>1 DEF Mark
  <1>4. PICK a \in Nat : a = x * PAGES_PER_SECTOR
    BY <1>1
  <1>5. PICK e \in Nat : e = (x + 1) * PAGES_PER_SECTOR /\ e = a + PAGES_PER_SECTOR
    BY <1>1, <1>4
  <1>6. a <= b /\ b <= e /\ e <= c
    BY <1>1, <1>2, <1>3, <1>4, <1>5 DEF Mark
  <1>7. \A q \in Pages : e <= q /\ q < c => Orphan(m, q)
    BY <1>3, <1>5, Orphaned
  <1>8. ASSUME NEW q \in Pages
        PROVE  (IF Sector(q) < x + 1 /\ Dead(m, Sector(q)) THEN Free
                ELSE IF q < c /\ Orphan(m, q) THEN Isolated ELSE m[q])
               = (IF Sector(q) = x THEN Free
                  ELSE IF e <= q /\ q < c THEN Isolated ELSE fl[q])
    <2>1. q \in Nat /\ Sector(q) \in Nat
      BY PageFacts, SectorFacts
    <2>2. fl[q] = IF Sector(q) < x /\ Dead(m, Sector(q)) THEN Free
                  ELSE IF q < b /\ Orphan(m, q) THEN Isolated ELSE m[q]
      BY <1>1, <1>2, StageFacts
    <2>3. CASE Sector(q) = x
      BY <1>1, <2>3
    <2>4. CASE Sector(q) < x
      <3>1. q < a
        BY <1>1, <1>4, <2>1, <2>4, SectorBounds
      <3>2. q < b /\ q < c /\ ~(e <= q) /\ Sector(q) < x + 1 /\ Sector(q) # x
        BY <1>1, <1>6, <2>1, <2>4, <3>1
      <3> QED BY <2>2, <2>4, <3>2
    <2>5. CASE Sector(q) > x
      <3>1. e <= q
        <4>1. ~(q < a) /\ ~(a <= q /\ q < a + PAGES_PER_SECTOR)
          BY <1>1, <1>4, <2>1, <2>5, SectorBounds
        <4> QED BY <1>1, <1>5, <2>1, <4>1
      <3>2. ~(q < b) /\ ~(Sector(q) < x + 1) /\ ~(Sector(q) < x) /\ Sector(q) # x
        BY <1>1, <1>6, <2>1, <2>5, <3>1
      <3> QED BY <1>7, <2>2, <3>1, <3>2
    <2> QED BY <1>1, <2>1, <2>3, <2>4, <2>5
  <1>9. Stage(m, x + 1, c) = [q \in Pages |-> IF Sector(q) = x THEN Free
                  ELSE IF e <= q /\ q < c THEN Isolated ELSE fl[q]]
    BY <1>8, Zenon DEF Stage
  <1> QED BY <1>3, <1>5, <1>9

-----------------------------------------------------------------------------
(* One sector of a collection *)

(* A state of a call, half way through something *)
Partial(m, s) == s \in StateType /\ Leads(m, s.ops, s.flash)

LEMMA PartialPut ==
  ASSUME NEW m, NEW s, Partial(m, s), NEW op \in GoodOps, Laid(Apply(s.flash, op)),
         NEW t, t = Put(s, op)
  PROVE  Partial(m, t) /\ SameBut(t, s) /\ t.flash = Apply(s.flash, op)
  <1>1. s \in StateType /\ Leads(m, s.ops, s.flash) /\ Apply(s.flash, op) \in Media
    BY DEF Partial, Laid
  <1>2. /\ t \in StateType /\ t.flash = Apply(s.flash, op) /\ t.ops = Append(s.ops, op)
        /\ SameBut(t, s)
    BY <1>1, PutFacts DEF SameBut
  <1>3. Leads(m, t.ops, t.flash)
    BY <1>1, <1>2, LeadsPut
  <1> QED BY <1>2, <1>3 DEF Partial

LEMMA PartialFacts ==
  ASSUME NEW m, NEW s, Partial(m, s)
  PROVE  s \in StateType /\ Laid(s.flash) /\ s.flash \in Media
         /\ Leads(m, s.ops, s.flash) /\ s.next_free \in Nat
  BY LeadsEnds DEF Partial, StateType

(* Pages are marked one after the other. *)
MarkedTo(m, s, start, i, t) ==
    /\ Partial(m, t) /\ SameBut(t, s)
    /\ \A q \in Pages : t.flash[q] = IF start <= q /\ q < start + i THEN Isolated
                                     ELSE s.flash[q]

LEMMA MarkStep ==
  ASSUME NEW m, NEW s, NEW start \in Nat, NEW i \in Nat, start + i < PAGE_COUNT,
         NEW t, MarkedTo(m, s, start, i, t), NEW u,
         u = write_header(t, start + i, Isolated)
  PROVE  MarkedTo(m, s, start, i + 1, u)
  <1>1. Partial(m, t) /\ SameBut(t, s)
    BY DEF MarkedTo
  <1>2. t \in StateType /\ Laid(t.flash) /\ t.flash \in Media
    BY <1>1, PartialFacts
  <1>3. PICK p \in Pages : p = start + i
    BY PageFacts
  <1>4. PICK op : op = Program(p, Isolated)
    OBVIOUS
  <1>5. /\ op \in GoodOps /\ Apply(t.flash, op) = [t.flash EXCEPT ![p] = Isolated]
        /\ Apply(t.flash, op) \in Media
    BY <1>2, <1>4, ApplyProgram, PageTypes
  <1>6. PICK gl \in Media : gl = Apply(t.flash, op)
    BY <1>5
  <1>7. \A q \in Pages : gl[q] = IF q = p THEN Isolated ELSE t.flash[q]
    BY <1>2, <1>5, <1>6 DEF Media
  <1>8. Laid(gl)
    <2>1. \A q \in Pages : gl[q] = t.flash[q] \/ gl[q] = Isolated
      BY <1>7
    <2>2. gl = [q \in Pages |-> gl[q]]
      BY <1>6 DEF Media
    <2> QED BY <1>2, <2>1, <2>2, LaidIsolate
  <1>9. u = Put(t, op)
    BY <1>3, <1>4 DEF write_header
  <1>10. Partial(m, u) /\ SameBut(u, t) /\ u.flash = gl
    BY <1>1, <1>5, <1>6, <1>8, <1>9, PartialPut
  <1>11. SameBut(u, s)
    BY <1>1, <1>10 DEF SameBut
  <1>12. ASSUME NEW q \in Pages
         PROVE  u.flash[q] = IF start <= q /\ q < start + (i + 1) THEN Isolated ELSE s.flash[q]
    <2>1. q \in Nat
      BY PageFacts
    <2>2. u.flash[q] = IF q = p THEN Isolated ELSE t.flash[q]
      BY <1>7, <1>10
    <2>3. t.flash[q] = IF start <= q /\ q < start + i THEN Isolated ELSE s.flash[q]
      BY DEF MarkedTo
    <2>4. start <= q /\ q < start + (i + 1) <=> q = p \/ (start <= q /\ q < start + i)
      BY <1>3, <2>1
    <2> QED BY <2>2, <2>3, <2>4, Zenon
  <1> QED BY <1>10, <1>11, <1>12 DEF MarkedTo

LEMMA MarkedPages ==
  ASSUME NEW m, NEW s, Partial(m, s), NEW start \in Nat, NEW count \in Nat,
         start + count <= PAGE_COUNT
  PROVE  /\ MarkedTo(m, s, start, count, isolate_pages(s, start, count))
         /\ count = 0 => isolate_pages(s, start, count) = s
  <1> DEFINE mark(t, i) == write_header(t, start + i - 1, Isolated)
             Eq(n, f) == f = [i \in 0 .. n |-> IF i = 0 THEN s ELSE mark(f[i - 1], i)]
  <1>1. isolate_pages(s, start, count) = (CHOOSE f : Eq(count, f))[count]
    BY DEF isolate_pages
  <1> HIDE DEF mark
  <1>2. PICK T : T = {n \in Nat : \E f : Eq(n, f)}
    OBVIOUS
  <1>3. 0 \in T
    <2>1. PICK f : f = [i \in 0 .. 0 |-> s]
      OBVIOUS
    <2>2. \A i \in 0 .. 0 : i = 0
      OBVIOUS
    <2>3. Eq(0, f)
      BY <2>1, <2>2
    <2> QED BY <1>2, <2>3
  <1>4. ASSUME NEW n \in Nat, n \in T PROVE n + 1 \in T
    <2>1. PICK f : Eq(n, f)
      BY <1>2, <1>4
    <2>2. PICK g : g = [i \in 0 .. n + 1 |-> IF i = n + 1 THEN mark(f[n], n + 1) ELSE f[i]]
      OBVIOUS
    <2>3. ASSUME NEW i \in 0 .. n + 1
          PROVE  g[i] = IF i = 0 THEN s ELSE mark(g[i - 1], i)
      <3>1. CASE i = n + 1
        <4>1. i # 0 /\ i - 1 = n /\ n \in 0 .. n + 1 /\ n # n + 1
          BY <3>1
        <4>2. g[i] = mark(f[n], n + 1) /\ g[n] = f[n]
          BY <2>2, <3>1, <4>1
        <4> QED BY <3>1, <4>1, <4>2
      <3>2. CASE i # n + 1
        <4>1. i \in 0 .. n /\ g[i] = f[i]
          BY <2>2, <3>2
        <4>2. f[i] = IF i = 0 THEN s ELSE mark(f[i - 1], i)
          BY <2>1, <4>1
        <4>3. CASE i = 0
          BY <4>1, <4>2, <4>3
        <4>4. CASE i # 0
          <5>1. i - 1 \in 0 .. n + 1 /\ i - 1 # n + 1
            BY <4>1, <4>4
          <5>2. g[i - 1] = f[i - 1]
            BY <2>2, <5>1
          <5> QED BY <4>1, <4>2, <4>4, <5>2
        <4> QED BY <4>3, <4>4
      <3> QED BY <3>1, <3>2
    <2>4. g = [i \in 0 .. n + 1 |-> g[i]]
      BY <2>2
    <2>5. Eq(n + 1, g)
      BY <2>3, <2>4
    <2> QED BY <1>2, <2>5
  <1>5. count \in T
    BY <1>2, <1>3, <1>4, SetInduction
  <1>6. PICK f : Eq(count, f) /\ isolate_pages(s, start, count) = f[count]
    <2>1. \E f : Eq(count, f)
      BY <1>2, <1>5
    <2>2. Eq(count, CHOOSE f : Eq(count, f))
      BY <2>1
    <2> QED BY <1>1, <2>2
  <1>7. f[0] = s
    <2>1. 0 \in 0 .. count
      OBVIOUS
    <2> QED BY <1>6, <2>1
  <1>8. \A i \in 1 .. count : f[i] = mark(f[i - 1], i)
    <2> SUFFICES ASSUME NEW i \in 1 .. count PROVE f[i] = mark(f[i - 1], i)
      OBVIOUS
    <2>1. i \in 0 .. count /\ i # 0
      OBVIOUS
    <2> QED BY <1>6, <2>1
  <1>9. PICK V : V = {i \in 0 .. count : MarkedTo(m, s, start, i, f[i])}
    OBVIOUS
  <1>10. 0 \in V
    <2>1. \A q \in Pages : ~(start <= q /\ q < start + 0)
      BY PageFacts
    <2>2. MarkedTo(m, s, start, 0, s)
      BY <2>1 DEF MarkedTo, SameBut
    <2> QED BY <1>7, <1>9, <2>2
  <1>11. ASSUME NEW i \in 1 .. count, i - 1 \in V PROVE i \in V
    <2>1. PICK j \in Nat : j = i - 1 /\ i = j + 1 /\ start + j < PAGE_COUNT
      BY PageFacts
    <2>2. MarkedTo(m, s, start, j, f[j])
      BY <1>9, <1>11, <2>1
    <2>3. start + i - 1 = start + j
      BY <2>1
    <2>4. mark(f[j], i) = write_header(f[j], start + j, Isolated)
      BY <2>3 DEF mark
    <2>5. MarkedTo(m, s, start, j + 1, mark(f[j], i))
      BY <2>1, <2>2, <2>4, MarkStep
    <2> QED BY <1>8, <1>9, <2>1, <2>5
  <1>12. 0 .. count \subseteq V
    BY <1>10, <1>11, WalkInduction
  <1>13. MarkedTo(m, s, start, count, f[count])
    BY <1>9, <1>12
  <1> QED BY <1>6, <1>7, <1>13

(* What a collection has done when it comes to sector x *)
CollectedTo(m, s, x, c) ==
    /\ At(s.flash, x, c.skip, c.last_active)
    /\ Partial(m, c.s)
    /\ c.s.flash = Stage(s.flash, x, Mark(x, c.skip))
    /\ c.s.files = s.files /\ c.s.fds = s.fds /\ c.s.gc_wait = s.gc_wait
    /\ c.s.next_free <= s.next_free
    /\ \/ c.s.next_free = s.next_free
       \/ \E y \in Sectors : Dead(s.flash, y) /\ c.s.next_free = y * PAGES_PER_SECTOR
    /\ \A y \in Sectors : y < x /\ Dead(s.flash, y) => c.s.next_free <= y * PAGES_PER_SECTOR
    /\ (\A y \in Sectors : y < x => ~Dead(s.flash, y)) => c.s = s

(* A sector is cleared behind the marks. *)
Swept(s, x, count) ==
    [Put(isolate_pages(s, (x + 1) * PAGES_PER_SECTOR, count), Erase(x))
       EXCEPT !.next_free = Min({@, x * PAGES_PER_SECTOR})]

LEMMA SweptFacts ==
  ASSUME NEW m, NEW s, Partial(m, s), NEW x \in Sectors, NEW count \in Nat,
         NEW e, e = (x + 1) * PAGES_PER_SECTOR, e + count <= PAGE_COUNT,
         NEW u, u = Swept(s, x, count)
  PROVE  /\ Partial(m, u)
         /\ u.flash = [q \in Pages |-> IF Sector(q) = x THEN Free
                          ELSE IF e <= q /\ q < e + count THEN Isolated ELSE s.flash[q]]
         /\ u.files = s.files /\ u.fds = s.fds /\ u.gc_wait = s.gc_wait
         /\ u.next_free = IF s.next_free <= x * PAGES_PER_SECTOR THEN s.next_free
                          ELSE x * PAGES_PER_SECTOR
  <1>1. PICK first \in Nat : first = x * PAGES_PER_SECTOR
    BY SectorBounds DEF Sectors
  <1>2. e \in Nat /\ x \in 0 .. SECTOR_COUNT - 1
    BY Sizes0, SectorBounds DEF Sectors
  <1>3. PICK t : t = isolate_pages(s, e, count)
    OBVIOUS
  <1>4. MarkedTo(m, s, e, count, t)
    BY <1>2, <1>3, MarkedPages
  <1>5. Partial(m, t) /\ SameBut(t, s)
    BY <1>4 DEF MarkedTo
  <1>6. Laid(t.flash) /\ t.flash \in Media /\ t \in StateType
    BY <1>5, PartialFacts
  <1>7. PICK op : op = Erase(x)
    OBVIOUS
  <1>8. /\ op \in GoodOps /\ Laid(Apply(t.flash, op))
        /\ Apply(t.flash, op) = [q \in Pages |-> IF Sector(q) = x THEN Free ELSE t.flash[q]]
    BY <1>2, <1>6, <1>7, ApplyErase, LaidErase
  <1>9. PICK v : v = Put(t, op)
    OBVIOUS
  <1>10. Partial(m, v) /\ SameBut(v, t) /\ v.flash = Apply(t.flash, op)
    BY <1>5, <1>8, <1>9, PartialPut
  <1>11. v \in StateType /\ v.next_free = s.next_free /\ v.next_free \in Nat
    BY <1>5, <1>10, PartialFacts DEF SameBut
  <1>12. PICK k \in Nat : k = (IF s.next_free <= first THEN s.next_free ELSE first)
    BY <1>11
  <1>13. Min({v.next_free, first}) = k
    BY <1>11, <1>12, Extrema
  <1>14. u = [v EXCEPT !.next_free = k]
    BY <1>1, <1>3, <1>7, <1>9, <1>13 DEF Swept
  <1>15. /\ u \in StateType /\ u.next_free = k /\ u.flash = v.flash /\ u.ops = v.ops
         /\ u.files = v.files /\ u.fds = v.fds /\ u.gc_wait = v.gc_wait
    BY <1>11, <1>14 DEF StateType
  <1>16. Partial(m, u)
    BY <1>10, <1>15 DEF Partial
  <1>17. ASSUME NEW q \in Pages
         PROVE  (IF Sector(q) = x THEN Free ELSE t.flash[q])
                 = (IF Sector(q) = x THEN Free
                    ELSE IF e <= q /\ q < e + count THEN Isolated ELSE s.flash[q])
    BY <1>4 DEF MarkedTo
  <1>18. u.flash = [q \in Pages |-> IF Sector(q) = x THEN Free
                       ELSE IF e <= q /\ q < e + count THEN Isolated ELSE s.flash[q]]
    BY <1>8, <1>10, <1>15, <1>17
  <1> QED BY <1>1, <1>5, <1>10, <1>12, <1>15, <1>16, <1>18 DEF SameBut

LEMMA CollectStep ==
  ASSUME NEW m, NEW s, Base(m, s), NoOverhang(s.flash), NEW x \in Sectors,
         NEW c, CollectedTo(m, s, x, c), NEW d,
         d = Collect(c, x, get_sector_status(c.s.flash, x, c.skip, c.last_active))
  PROVE  CollectedTo(m, s, x + 1, d)
  <1>1. PICK w : w = s.flash /\ Laid(w) /\ Searchable(w)
    BY BaseFacts
  <1>2. PICK st : st = get_sector_status(c.s.flash, x, c.skip, c.last_active)
    OBVIOUS
  <1>3. /\ At(w, x, c.skip, c.last_active) /\ Partial(m, c.s) /\ c.skip \in Nat
        /\ c.s.flash = Stage(w, x, Mark(x, c.skip))
        /\ c.s.files = s.files /\ c.s.fds = s.fds /\ c.s.gc_wait = s.gc_wait
        /\ c.s.next_free <= s.next_free
        /\ \/ c.s.next_free = s.next_free
           \/ \E y \in Sectors : Dead(w, y) /\ c.s.next_free = y * PAGES_PER_SECTOR
        /\ \A y \in Sectors : y < x /\ Dead(w, y) => c.s.next_free <= y * PAGES_PER_SECTOR
        /\ (\A y \in Sectors : y < x => ~Dead(w, y)) => c.s = s
    BY <1>1 DEF CollectedTo, At
  <1>4. x \in Nat /\ x * PAGES_PER_SECTOR \in Nat /\ s.next_free \in Nat /\ c.s.next_free \in Nat
    BY <1>3, BaseFacts, PartialFacts, SectorBounds, Sizes0 DEF Sectors
  <1>5. Says(w, x, st)
    <2>1. /\ Laid(c.s.flash)
          /\ \A q \in Pages : IsHeader(c.s.flash[q]) => c.s.flash[q] = w[q]
          /\ \A q \in Pages : x * PAGES_PER_SECTOR + c.skip <= q => c.s.flash[q] = w[q]
      BY <1>1, <1>3, <1>4, StageFacts, StageBehind
    <2> QED BY <1>1, <1>2, <1>3, <2>1, Status
  <1>6. /\ st.active <=> Holds(w, "active", x)
        /\ st.obsolete <=> StaleIn(w, x)
        /\ At(w, x + 1, st.skip, st.last_active)
        /\ Dead(w, x) => st.isolate = IF st.skip < PAGES_PER_SECTOR THEN st.skip ELSE 0
    BY <1>5 DEF Says
  <1>7. PICK first \in Nat : first = x * PAGES_PER_SECTOR
    BY <1>4
  <1>8. PICK u : u = Swept(c.s, x, st.isolate)
    OBVIOUS
  <1>10. st.obsolete /\ ~st.active <=> Dead(w, x)
    BY <1>6, Zenon DEF Dead
  <1>11. d = [skip |-> st.skip, last_active |-> st.last_active,
              s |-> IF st.obsolete /\ ~st.active THEN u ELSE c.s]
    BY <1>2, <1>8 DEF Collect, Swept
  <1>12. /\ d.skip = st.skip /\ d.last_active = st.last_active
         /\ Dead(w, x) => d.s = u
         /\ ~Dead(w, x) => d.s = c.s
    <2>1. d.skip = st.skip /\ d.last_active = st.last_active
          /\ d.s = IF st.obsolete /\ ~st.active THEN u ELSE c.s
      BY <1>11
    <2> QED BY <1>10, <2>1, Zenon
  <1>13. At(w, x + 1, d.skip, d.last_active)
    BY <1>6, <1>12
  <1>14. \A y \in Sectors : y < x + 1 <=> y < x \/ y = x
    BY <1>4 DEF Sectors
  <1>15. CASE ~Dead(w, x)
    <2>1. d.s.flash = Stage(w, x + 1, Mark(x + 1, d.skip))
      BY <1>1, <1>3, <1>12, <1>13, <1>15, StageKept
    <2>2. \A y \in Sectors : y < x + 1 /\ Dead(w, y) => c.s.next_free <= y * PAGES_PER_SECTOR
      BY <1>3, <1>14, <1>15
    <2>3. (\A y \in Sectors : y < x + 1 => ~Dead(w, y)) => c.s = s
      BY <1>3, <1>14
    <2> QED BY <1>1, <1>3, <1>12, <1>13, <1>15, <2>1, <2>2, <2>3 DEF CollectedTo
  <1>16. CASE Dead(w, x)
    <2>1. PICK count \in Nat : count = IF st.skip < PAGES_PER_SECTOR THEN st.skip ELSE 0
      BY <1>6 DEF At
    <2>2. u = Swept(c.s, x, count)
      BY <1>6, <1>8, <1>16, <2>1
    <2>3. /\ Partial(m, u) /\ u.flash = Stage(w, x + 1, Mark(x + 1, st.skip))
          /\ u.files = c.s.files /\ u.fds = c.s.fds /\ u.gc_wait = c.s.gc_wait
          /\ u.next_free = IF c.s.next_free <= first THEN c.s.next_free ELSE first
      <3>1. PICK e \in Nat : e = (x + 1) * PAGES_PER_SECTOR
        BY Sizes0, SectorBounds DEF Sectors
      <3>2. Mark(x + 1, st.skip) = e + count
        BY <2>1, <3>1 DEF Mark
      <3>3. e + count <= PAGE_COUNT
        <4>1. e + st.skip <= PAGE_COUNT /\ st.skip \in Nat
          BY <1>6, <3>1 DEF At
        <4>2. count <= st.skip
          BY <2>1, <4>1, Sizes0
        <4> QED BY <2>1, <3>1, <4>1, <4>2, PageFacts
      <3>4. /\ Partial(m, u)
            /\ u.flash = [q \in Pages |-> IF Sector(q) = x THEN Free
                             ELSE IF e <= q /\ q < e + count THEN Isolated ELSE c.s.flash[q]]
            /\ u.files = c.s.files /\ u.fds = c.s.fds /\ u.gc_wait = c.s.gc_wait
            /\ u.next_free = IF c.s.next_free <= first THEN c.s.next_free ELSE first
        BY <1>3, <1>7, <2>1, <2>2, <3>1, <3>3, SweptFacts
      <3>5. Stage(w, x + 1, Mark(x + 1, st.skip)) =
              [q \in Pages |-> IF Sector(q) = x THEN Free
                 ELSE IF (x + 1) * PAGES_PER_SECTOR <= q /\ q < Mark(x + 1, st.skip)
                      THEN Isolated ELSE c.s.flash[q]]
        BY <1>1, <1>3, <1>6, <1>16, StageErased
      <3> QED BY <3>1, <3>2, <3>4, <3>5
    <2>4. d.s = u
      BY <1>12, <1>16
    <2>5. d.s.next_free <= s.next_free
      BY <1>3, <1>4, <2>3, <2>4
    <2>6. \/ d.s.next_free = s.next_free
          \/ \E y \in Sectors : Dead(w, y) /\ d.s.next_free = y * PAGES_PER_SECTOR
      <3>1. CASE c.s.next_free <= first
        BY <1>3, <2>3, <2>4, <3>1
      <3>2. CASE ~(c.s.next_free <= first)
        BY <1>7, <1>16, <2>3, <2>4, <3>2
      <3> QED BY <3>1, <3>2
    <2>7. ASSUME NEW y \in Sectors, y < x + 1, Dead(w, y)
          PROVE  d.s.next_free <= y * PAGES_PER_SECTOR
      <3>1. d.s.next_free <= c.s.next_free /\ d.s.next_free <= first
        BY <1>4, <2>3, <2>4
      <3>2. y * PAGES_PER_SECTOR \in Nat
        BY SectorBounds DEF Sectors
      <3>3. CASE y < x
        <4>1. c.s.next_free <= y * PAGES_PER_SECTOR
          BY <1>3, <2>7, <3>3
        <4> HIDE DEF Sectors
        <4> QED BY <1>4, <2>3, <2>4, <3>1, <3>2, <4>1
      <3>4. CASE y = x
        BY <1>7, <3>1, <3>4
      <3> QED BY <1>14, <2>7, <3>3, <3>4
    <2>8. ~(\A y \in Sectors : y < x + 1 => ~Dead(w, y))
      BY <1>14, <1>16
    <2> QED BY <1>1, <1>3, <1>12, <1>13, <2>3, <2>4, <2>5, <2>6, <2>7, <2>8 DEF CollectedTo
  <1> QED BY <1>15, <1>16

-----------------------------------------------------------------------------
(* A whole collection *)

LEMMA CollectAll ==
  ASSUME NEW m, NEW s, Base(m, s), NoOverhang(s.flash)
  PROVE  \E c : CollectedTo(m, s, SECTOR_COUNT, c) /\ collect_garbage(s) = c.s
  <1> DEFINE collect(c, x) == Collect(c, x, get_sector_status(c.s.flash, x, c.skip,
                                                              c.last_active))
             none == [s |-> s, skip |-> 0, last_active |-> FALSE]
             Eq(n, f) == f = [x \in 0 .. n |-> IF x = 0 THEN none ELSE collect(f[x - 1], x - 1)]
  <1>1. SECTOR_COUNT \in Nat
    BY Sizes0
  <1>2. PICK start : start = none
    OBVIOUS
  <1>3. start.s = s /\ start.skip = 0 /\ start.last_active = FALSE
    BY <1>2
  <1>4. collect_garbage(s) = (CHOOSE f : Eq(SECTOR_COUNT, f))[SECTOR_COUNT].s
    BY DEF collect_garbage
  <1> HIDE DEF collect, none
  <1>5. PICK T : T = {n \in Nat : \E f : Eq(n, f)}
    OBVIOUS
  <1>6. 0 \in T
    <2>1. PICK f : f = [x \in 0 .. 0 |-> none]
      OBVIOUS
    <2>2. \A x \in 0 .. 0 : x = 0
      OBVIOUS
    <2>3. Eq(0, f)
      BY <2>1, <2>2
    <2> QED BY <1>5, <2>3
  <1>7. ASSUME NEW n \in Nat, n \in T PROVE n + 1 \in T
    <2>1. PICK f : Eq(n, f)
      BY <1>5, <1>7
    <2>2. PICK g : g = [x \in 0 .. n + 1 |-> IF x = n + 1 THEN collect(f[n], n) ELSE f[x]]
      OBVIOUS
    <2>3. ASSUME NEW x \in 0 .. n + 1
          PROVE  g[x] = IF x = 0 THEN none ELSE collect(g[x - 1], x - 1)
      <3>1. CASE x = n + 1
        <4>1. x # 0 /\ x - 1 = n /\ n \in 0 .. n + 1 /\ n # n + 1
          BY <3>1
        <4>2. g[x] = collect(f[n], n) /\ g[n] = f[n]
          BY <2>2, <3>1, <4>1
        <4> QED BY <4>1, <4>2
      <3>2. CASE x # n + 1
        <4>1. x \in 0 .. n /\ g[x] = f[x]
          BY <2>2, <3>2
        <4>2. f[x] = IF x = 0 THEN none ELSE collect(f[x - 1], x - 1)
          BY <2>1, <4>1
        <4>3. CASE x = 0
          BY <4>1, <4>2, <4>3
        <4>4. CASE x # 0
          <5>1. x - 1 \in 0 .. n + 1 /\ x - 1 # n + 1
            BY <4>1, <4>4
          <5>2. g[x - 1] = f[x - 1]
            BY <2>2, <5>1
          <5> QED BY <4>1, <4>2, <4>4, <5>2
        <4> QED BY <4>3, <4>4
      <3> QED BY <3>1, <3>2
    <2>4. g = [x \in 0 .. n + 1 |-> g[x]]
      BY <2>2
    <2>5. Eq(n + 1, g)
      BY <2>3, <2>4
    <2> QED BY <1>5, <2>5
  <1>8. SECTOR_COUNT \in T
    BY <1>1, <1>5, <1>6, <1>7, SetInduction
  <1>9. PICK f : Eq(SECTOR_COUNT, f) /\ collect_garbage(s) = f[SECTOR_COUNT].s
    <2>1. \E f : Eq(SECTOR_COUNT, f)
      BY <1>5, <1>8
    <2>2. Eq(SECTOR_COUNT, CHOOSE f : Eq(SECTOR_COUNT, f))
      BY <2>1
    <2> QED BY <1>4, <2>2
  <1>10. f[0] = start
    <2>1. 0 \in 0 .. SECTOR_COUNT
      BY <1>1
    <2>2. f[0] = none
      BY <1>9, <2>1
    <2> QED BY <1>2, <2>2
  <1>11. \A x \in 1 .. SECTOR_COUNT : f[x] = collect(f[x - 1], x - 1)
    <2> SUFFICES ASSUME NEW x \in 1 .. SECTOR_COUNT PROVE f[x] = collect(f[x - 1], x - 1)
      OBVIOUS
    <2>1. x \in 0 .. SECTOR_COUNT /\ x # 0
      BY <1>1
    <2> QED BY <1>9, <2>1
  <1>12. PICK V : V = {x \in 0 .. SECTOR_COUNT : CollectedTo(m, s, x, f[x])}
    OBVIOUS
  <1>13. 0 \in V
    <2>1. 0 * PAGES_PER_SECTOR = 0 /\ 0 \in 0 .. SECTOR_COUNT /\ 0 <= PAGE_COUNT
      BY <1>1, Sizes0, PageFacts
    <2>2. Uncovered(s.flash, 0)
      BY ZeroUncovered
    <2>3. s.flash = Stage(s.flash, 0, Mark(0, 0))
      <3>1. s.flash \in Media /\ Mark(0, 0) = 0
        BY <2>1, BaseFacts, Sizes0 DEF Mark
      <3>2. \A q \in Pages : ~(q < 0) /\ ~(Sector(q) < 0)
        BY PageFacts, SectorFacts
      <3> QED BY <3>1, <3>2 DEF Stage, Media
    <2>4. s.next_free <= s.next_free /\ Partial(m, s)
      <3>1. s.next_free \in Nat
        BY BaseFacts
      <3> QED BY <3>1 DEF Partial, Base
    <2>5. \A y \in Sectors : ~(y < 0)
      BY Sizes0 DEF Sectors
    <2>6. At(s.flash, 0, 0, FALSE)
      BY <2>1, <2>2 DEF At
    <2>7. CollectedTo(m, s, 0, start)
      BY <1>3, <2>3, <2>4, <2>5, <2>6 DEF CollectedTo
    <2> QED BY <1>10, <1>12, <2>1, <2>7
  <1>14. ASSUME NEW x \in 1 .. SECTOR_COUNT, x - 1 \in V PROVE x \in V
    <2>1. x - 1 \in Sectors /\ x \in 0 .. SECTOR_COUNT /\ (x - 1) + 1 = x
      BY <1>1 DEF Sectors
    <2>2. CollectedTo(m, s, x - 1, f[x - 1])
      BY <1>12, <1>14
    <2>3. CollectedTo(m, s, (x - 1) + 1, collect(f[x - 1], x - 1))
      BY <2>1, <2>2, CollectStep DEF collect
    <2> QED BY <1>11, <1>12, <2>1, <2>3
  <1>15. 0 .. SECTOR_COUNT \subseteq V
    BY <1>1, <1>13, <1>14, WalkInduction
  <1>16. CollectedTo(m, s, SECTOR_COUNT, f[SECTOR_COUNT])
    BY <1>1, <1>12, <1>15
  <1> QED BY <1>9, <1>16

(* What is left of the medium w: dead sectors are free, and what their      *)
(* extents left elsewhere is marked.                                        *)
Final(w, gl) ==
    \A q \in Pages : gl[q] = IF Dead(w, Sector(q)) THEN Free
                             ELSE IF Orphan(w, q) THEN Isolated ELSE w[q]

LEMMA FinalActive ==
  ASSUME NEW w, Laid(w), NEW gl, Final(w, gl), NEW p \in Pages, w[p].kind = "active"
  PROVE  \A q \in ExtentOf(w, p) : q \in Pages /\ gl[q] = w[q]
  <1> SUFFICES ASSUME NEW q \in ExtentOf(w, p) PROVE q \in Pages /\ gl[q] = w[q]
    OBVIOUS
  <1>1. IsHeader(w[p])
    BY DEF IsHeader
  <1>2. q \in Pages /\ p <= q /\ q < p + w[p].max_pages
    BY <1>1, ExtentPage
  <1>3. ~Dead(w, Sector(q))
    BY DEF Dead, Holds
  <1>4. ~Orphan(w, q)
    <2> SUFFICES ASSUME NEW h \in Pages, w[h].kind = "obsolete", q \in ExtentOf(w, h)
                 PROVE  FALSE
      BY DEF Orphan
    <2>1. IsHeader(w[h])
      BY DEF IsHeader
    <2>2. h <= q /\ q < h + w[h].max_pages
      BY <2>1, ExtentPage
    <2> QED BY <1>1, <1>2, <2>1, <2>2, OneExtent
  <1> QED BY <1>2, <1>3, <1>4 DEF Final

(* A header that stays lies in a sector with an active extent, or is active. *)
LEMMA FinalHeader ==
  ASSUME NEW w, Laid(w), NEW gl, Final(w, gl), NEW h \in Pages, IsHeader(gl[h])
  PROVE  gl[h] = w[h] /\ ~Dead(w, Sector(h))
  <1>1. gl[h] # Free /\ gl[h] # Isolated
    BY PageTypes
  <1> QED BY <1>1 DEF Final

(* A page that no extent covers any more is an orphan. *)
LEMMA FinalUncovered ==
  ASSUME NEW w, Laid(w), NEW gl, Final(w, gl), NEW q \in Pages,
         Uncovered(gl, q), ~Uncovered(w, q)
  PROVE  Orphan(w, q)
  <1>1. PICK h \in Pages : Covers(w, h, q)
    BY DEF Uncovered
  <1>2. /\ IsHeader(w[h]) /\ q \in ExtentOf(w, h)
        /\ h \in Nat /\ q \in Nat /\ w[h].max_pages \in Nat /\ h \in ExtentOf(w, h)
    BY <1>1, HeaderFacts, ExtentPage, PageFacts DEF Covers
  <1>3. gl[h] # w[h]
    BY <1>1 DEF Uncovered, Covers
  <1>4. w[h].kind = "obsolete"
    BY <1>2, <1>3, FinalActive DEF IsHeader
  <1>5. Dead(w, Sector(h))
    <2>1. ASSUME Orphan(w, h) PROVE Dead(w, Sector(h))
      <3>1. PICK g \in Pages : /\ w[g].kind = "obsolete" /\ Dead(w, Sector(g))
                               /\ h \in ExtentOf(w, g)
        BY <2>1 DEF Orphan
      <3>2. IsHeader(w[g])
        BY <3>1 DEF IsHeader
      <3>3. g <= h /\ h < g + w[g].max_pages /\ h <= h /\ h < h + w[h].max_pages
        BY <1>2, <3>1, <3>2, ExtentPage
      <3>4. g = h
        BY <1>2, <3>2, <3>3, OneExtent
      <3> QED BY <3>1, <3>4
    <2> QED BY <1>3, <2>1 DEF Final
  <1> QED BY <1>2, <1>4, <1>5 DEF Orphan

(* No extent that stays has a page in a dead sector. *)
LEMMA FinalDead ==
  ASSUME NEW w, Laid(w), NoOverhang(w), NEW gl, Final(w, gl), NEW q \in Pages,
         Dead(w, Sector(q)), NEW h \in Pages, IsHeader(gl[h]), q \in ExtentOf(w, h)
  PROVE  FALSE
  <1>1. gl[h] = w[h] /\ ~Dead(w, Sector(h)) /\ IsHeader(w[h])
    BY FinalHeader
  <1>2. w[h].kind = "obsolete"
    BY <1>1 DEF IsHeader, Dead, Holds
  <1>3. Holds(w, "obsolete", Sector(h))
    BY <1>1, <1>2, ExtentPage DEF Holds
  <1>4. Holds(w, "active", Sector(h))
    BY <1>1, <1>3 DEF Dead, StaleIn
  <1>5. Holds(w, "active", Sector(q))
    BY <1>2, <1>4 DEF NoOverhang
  <1> QED BY <1>5 DEF Dead

LEMMA FinalSearchable ==
  ASSUME NEW w, Laid(w), Searchable(w), NEW gl, Final(w, gl)
  PROVE  Searchable(gl)
  <1> SUFFICES ASSUME NEW q \in Pages, Uncovered(gl, q) PROVE Clear(gl, q)
    BY DEF Searchable
  <1>1. q \in Nat /\ Sector(q) \in Nat
    BY PageFacts, SectorFacts
  <1>2. CASE Dead(w, Sector(q))
    <2>1. \A r \in Pages : Sector(r) = Sector(q) => gl[r] = Free
      BY <1>2 DEF Final
    <2>2. FreeRest(gl, q)
      BY <2>1 DEF FreeRest
    <2> QED BY <2>2, FreeFirst
  <1>3. CASE ~Dead(w, Sector(q)) /\ Orphan(w, q)
    <2>1. gl[q] = Isolated
      BY <1>3 DEF Final
    <2> QED BY <2>1, PageTypes DEF Clear
  <1>4. CASE ~Dead(w, Sector(q)) /\ ~Orphan(w, q)
    <2>1. gl[q] = w[q] /\ Uncovered(w, q)
      BY <1>4, FinalUncovered DEF Final
    <2>2. Clear(w, q)
      BY <2>1 DEF Searchable
    <2>3. ASSUME w[q].kind = "free", NEW r \in Pages, q <= r, Sector(r) = Sector(q)
          PROVE  gl[r] = Free
      <3>1. w[r] = Free /\ r \in Nat
        BY <2>2, <2>3, PageFacts DEF Clear, FreeRest
      <3>2. ~Orphan(w, r)
        <4> SUFFICES ASSUME NEW h \in Pages, w[h].kind = "obsolete", Dead(w, Sector(h)),
                            r \in ExtentOf(w, h)
                     PROVE  FALSE
          BY DEF Orphan
        <4>1. IsHeader(w[h])
          BY DEF IsHeader
        <4>2. h <= r /\ r < h + w[h].max_pages /\ h \in Nat /\ w[h].max_pages \in Nat
          BY <4>1, HeaderFacts, ExtentPage
        <4>3. Sector(h) # Sector(q)
          BY <1>4
        <4>4. h < q
          <5> SUFFICES ASSUME q <= h PROVE FALSE
            BY <1>1, <4>2
          <5>1. Sector(q) <= Sector(h) /\ Sector(h) <= Sector(r) /\ Sector(h) \in Nat
            BY <1>1, <3>1, <4>2, SectorOrder, SectorFacts
          <5> QED BY <1>1, <2>3, <4>3, <5>1
        <4>5. Covers(w, h, q)
          BY <1>1, <2>3, <3>1, <4>1, <4>2, <4>4 DEF Covers
        <4> QED BY <2>1, <4>5 DEF Uncovered
      <3> QED BY <1>4, <2>3, <3>1, <3>2 DEF Final
    <2> QED BY <2>1, <2>2, <2>3 DEF Clear, FreeRest
  <1> QED BY <1>2, <1>3, <1>4

LEMMA FinalUseless ==
  ASSUME NEW w, Laid(w), NoOverhang(w), NEW gl, Final(w, gl)
  PROVE  Useless(gl)
  <1> SUFFICES ASSUME NEW x \in Sectors, StaleIn(gl, x) PROVE Holds(gl, "active", x)
    BY DEF Useless
  <1>1. ASSUME NEW h \in Pages, w[h].kind = "active" PROVE gl[h] = w[h]
    BY <1>1, FinalActive, ExtentPage DEF IsHeader
  <1>2. SUFFICES Holds(w, "active", x)
    BY <1>1, HoldsKept
  <1>3. ASSUME StaleIn(w, x), ~Dead(w, x) PROVE Holds(w, "active", x)
    BY <1>3 DEF Dead
  <1>4. CASE Holds(gl, "obsolete", x)
    <2>1. PICK h \in Pages : gl[h].kind = "obsolete" /\ \E q \in ExtentOf(gl, h) : Sector(q) = x
      BY <1>4 DEF Holds
    <2>2. PICK q \in ExtentOf(gl, h) : Sector(q) = x
      BY <2>1
    <2>3. IsHeader(gl[h])
      BY <2>1 DEF IsHeader
    <2>4. gl[h] = w[h] /\ q \in ExtentOf(w, h) /\ q \in Pages /\ w[h].kind = "obsolete"
      <3>1. gl[h] = w[h] /\ IsHeader(w[h])
        BY <2>3, FinalHeader
      <3>2. q \in ExtentOf(w, h)
        BY <2>2, <3>1 DEF ExtentOf
      <3> QED BY <2>1, <3>1, <3>2, ExtentPage
    <2>5. ~Dead(w, x)
      BY <2>2, <2>3, <2>4, FinalDead
    <2>6. StaleIn(w, x)
      BY <2>2, <2>4 DEF StaleIn, Holds
    <2> QED BY <1>3, <2>5, <2>6
  <1>5. CASE \E q \in Pages : Sector(q) = x /\ gl[q].kind = "isolated" /\ Uncovered(gl, q)
    <2>1. PICK q \in Pages : Sector(q) = x /\ gl[q].kind = "isolated" /\ Uncovered(gl, q)
      BY <1>5
    <2>2. ~Dead(w, x)
      BY <2>1, PageTypes DEF Final
    <2>3. CASE Orphan(w, q)
      <3>1. Holds(w, "obsolete", x)
        BY <2>1, <2>3 DEF Orphan, Holds
      <3> QED BY <1>3, <2>2, <3>1 DEF StaleIn
    <2>4. CASE ~Orphan(w, q)
      <3>1. gl[q] = w[q] /\ Uncovered(w, q)
        BY <2>1, <2>2, <2>4, FinalUncovered DEF Final
      <3> QED BY <1>3, <2>1, <2>2, <3>1 DEF StaleIn
    <2> QED BY <2>3, <2>4
  <1> QED BY <1>4, <1>5 DEF StaleIn

LEMMA UselessNoOverhang ==
  ASSUME NEW w, Laid(w), Useless(w)
  PROVE  NoOverhang(w) /\ \A y \in Sectors : ~Dead(w, y)
  <1>1. \A y \in Sectors : ~Dead(w, y)
    BY DEF Dead, Useless
  <1>2. ASSUME NEW h \in Pages, w[h].kind = "obsolete", NEW q \in ExtentOf(w, h)
        PROVE  Holds(w, "active", Sector(q))
    <2>1. q \in Pages
      BY <1>2, ExtentPage DEF IsHeader
    <2>2. Sector(q) \in Sectors
      BY <2>1, PageFacts, SectorFacts DEF Sectors
    <2>3. StaleIn(w, Sector(q))
      BY <1>2 DEF StaleIn, Holds
    <2> QED BY <2>2, <2>3 DEF Useless
  <1> QED BY <1>1, <1>2 DEF NoOverhang

(* A collection frees the sectors without active extents, keeps the others *)
(* and leaves nothing to be collected.                                      *)
LEMMA Collected ==
  ASSUME NEW m, NEW s, Base(m, s), NoOverhang(s.flash), NEW t, t = collect_garbage(s)
  PROVE  /\ Base(m, t)
         /\ t.files = s.files /\ t.fds = s.fds /\ t.gc_wait = s.gc_wait
         /\ Useless(t.flash)
         /\ Active(t.flash) = Active(s.flash)
         /\ \A p \in Active(s.flash) : \A k \in 0 .. s.flash[p].max_pages - 1 :
               t.flash[p + k] = s.flash[p + k]
         /\ Useless(s.flash) => t = s
  <1>1. PICK c : CollectedTo(m, s, SECTOR_COUNT, c) /\ t = c.s
    BY CollectAll
  <1>2. PICK w : w = s.flash
    OBVIOUS
  <1>3. PICK gl : gl = t.flash
    OBVIOUS
  <1>4. /\ Laid(w) /\ Searchable(w) /\ HintsGood(s) /\ s \in StateType /\ NoOverhang(w)
        /\ s.next_free \in Nat
    BY <1>2, BaseFacts
  <1>5. /\ PAGES_PER_SECTOR \in Nat /\ PAGES_PER_SECTOR > 0 /\ SECTOR_COUNT \in Nat
        /\ PAGE_COUNT \in Nat /\ PAGE_COUNT = SECTOR_COUNT * PAGES_PER_SECTOR
    BY Sizes0, PageFacts
  <1>6. /\ At(w, SECTOR_COUNT, c.skip, c.last_active)
        /\ Partial(m, t)
        /\ gl = Stage(w, SECTOR_COUNT, Mark(SECTOR_COUNT, c.skip))
        /\ t.files = s.files /\ t.fds = s.fds /\ t.gc_wait = s.gc_wait
        /\ t.next_free <= s.next_free
        /\ \/ t.next_free = s.next_free
           \/ \E y \in Sectors : Dead(w, y) /\ t.next_free = y * PAGES_PER_SECTOR
        /\ \A y \in Sectors : y < SECTOR_COUNT /\ Dead(w, y)
              => t.next_free <= y * PAGES_PER_SECTOR
        /\ (\A y \in Sectors : y < SECTOR_COUNT => ~Dead(w, y)) => t = s
    BY <1>1, <1>2, <1>3 DEF CollectedTo
  <1>7. Mark(SECTOR_COUNT, c.skip) = PAGE_COUNT
    <2>1. c.skip \in Nat /\ PAGE_COUNT + c.skip <= PAGE_COUNT
      BY <1>5, <1>6 DEF At
    <2>2. c.skip = 0
      BY <1>5, <2>1
    <2> QED BY <1>5, <2>2 DEF Mark
  <1>8. \A y \in Sectors : y < SECTOR_COUNT
    BY <1>5 DEF Sectors
  <1>9. Final(w, gl)
    <2>1. \A q \in Pages : Sector(q) < SECTOR_COUNT /\ q < PAGE_COUNT
      BY <1>5, PageFacts, SectorFacts
    <2> QED BY <1>4, <1>5, <1>6, <1>7, <2>1, StageFacts DEF Final
  <1>10. /\ Laid(gl) /\ \A q : Uncovered(w, q) => Uncovered(gl, q)
         /\ t \in StateType /\ t.next_free \in Nat /\ Leads(m, t.ops, gl)
    <2>1. Laid(gl) /\ \A q : Uncovered(w, q) => Uncovered(gl, q)
      <3>1. Laid(w) /\ SECTOR_COUNT \in Nat
        BY <1>4, <1>5
      <3>2. PICK b : gl = Stage(w, SECTOR_COUNT, b)
        BY <1>6
      <3> QED BY <3>1, <3>2, StageFacts
    <2>2. t \in StateType /\ t.next_free \in Nat /\ Leads(m, t.ops, t.flash)
      BY <1>6, PartialFacts
    <2> QED BY <1>3, <2>1, <2>2
  <1>11. Searchable(gl) /\ Useless(gl)
    BY <1>4, <1>9, FinalSearchable, FinalUseless
  <1>12. Uncovered(gl, t.next_free)
    <2>1. CASE t.next_free = s.next_free
      BY <1>2, <1>4, <1>10, <2>1 DEF HintsGood
    <2>2. ASSUME NEW y \in Sectors, Dead(w, y), t.next_free = y * PAGES_PER_SECTOR
          PROVE  Uncovered(gl, t.next_free)
      <3>1. PICK q \in Pages : q = t.next_free /\ Sector(q) = y /\ q \in Nat
        BY <2>2, SectorBounds, PageFacts DEF Sectors
      <3>2. ASSUME NEW h \in Pages, Covers(gl, h, q) PROVE FALSE
        <4>1. IsHeader(gl[h]) /\ gl[h] = w[h]
          BY <1>4, <1>9, <3>2, FinalHeader DEF Covers
        <4>2. h < q /\ q < h + w[h].max_pages /\ h \in Nat /\ w[h].max_pages \in Nat
          BY <1>4, <3>2, <4>1, HeaderFacts DEF Covers
        <4>3. q \in ExtentOf(w, h)
          BY <1>4, <3>1, <4>1, <4>2, ExtentPage
        <4> QED BY <1>4, <1>9, <2>2, <3>1, <4>1, <4>3, FinalDead
      <3> QED BY <3>1, <3>2 DEF Uncovered
    <2> QED BY <1>6, <2>1, <2>2
  <1>13. ASSUME NEW p \in Pages, Uncovered(gl, p), p < t.next_free
         PROVE  gl[p].kind # "free"
    <2>1. p \in Nat /\ Sector(p) \in Sectors /\ Sector(p) * PAGES_PER_SECTOR <= p
          /\ Sector(p) * PAGES_PER_SECTOR \in Nat
      BY PageFacts, SectorFacts DEF Sectors
    <2>2. ~Dead(w, Sector(p))
      <3>1. Dead(w, Sector(p)) => t.next_free <= Sector(p) * PAGES_PER_SECTOR
        BY <1>6, <1>8, <2>1
      <3> HIDE DEF Sectors
      <3> QED BY <1>10, <1>13, <2>1, <3>1
    <2>3. CASE Orphan(w, p)
      BY <1>9, <2>2, <2>3, PageTypes DEF Final
    <2>4. CASE ~Orphan(w, p)
      <3>1. gl[p] = w[p] /\ Uncovered(w, p)
        BY <1>4, <1>9, <1>13, <2>2, <2>4, FinalUncovered DEF Final
      <3>2. p < s.next_free
        BY <1>4, <1>6, <1>10, <1>13, <2>1
      <3> QED BY <1>2, <1>4, <3>1, <3>2 DEF HintsGood
    <2> QED BY <2>3, <2>4
  <1>14. HintsGood(t)
    <2>1. t.next_free <= PAGE_COUNT
      BY <1>4, <1>5, <1>6, <1>10 DEF HintsGood
    <2> QED BY <1>3, <1>11, <1>12, <1>13, <2>1 DEF HintsGood
  <1>15. Base(m, t)
    BY <1>3, <1>10, <1>11, <1>14 DEF Base
  <1>16. \A p \in Active(w) : \A q \in ExtentOf(w, p) : q \in Pages /\ gl[q] = w[q]
    BY <1>4, <1>9, FinalActive DEF Active
  <1>17. Active(gl) = Active(w)
    <2>1. ASSUME NEW p \in Pages, w[p].kind = "active" PROVE gl[p].kind = "active"
      BY <1>4, <1>16, <2>1, ExtentPage DEF Active, IsHeader
    <2>2. ASSUME NEW p \in Pages, gl[p].kind = "active" PROVE w[p].kind = "active"
      BY <1>4, <1>9, <2>2, FinalHeader DEF IsHeader
    <2> QED BY <2>1, <2>2 DEF Active
  <1>18. ASSUME NEW p \in Active(w), NEW k \in 0 .. w[p].max_pages - 1
         PROVE  gl[p + k] = w[p + k]
    <2>1. p \in Pages /\ IsHeader(w[p])
      BY DEF Active, IsHeader
    <2>2. p \in Nat /\ w[p].max_pages \in Nat /\ p + k \in Pages
      BY <1>4, <2>1, HeaderFacts
    <2>3. p + k \in ExtentOf(w, p)
      BY <1>4, <2>1, <2>2, ExtentPage
    <2> QED BY <1>16, <2>3
  <1>19. Useless(w) => t = s
    BY <1>4, <1>6, UselessNoOverhang
  <1> QED BY <1>2, <1>3, <1>6, <1>11, <1>15, <1>17, <1>18, <1>19

-----------------------------------------------------------------------------
(* Allocating an extent *)

(* The pages handed out are free, all of them. *)
LEMMA FoundPages ==
  ASSUME NEW m, NEW s, Base(m, s), NEW amount \in Nat, amount > 0,
         NEW p, p = find_contiguous_pages(s, amount), p # INVALID_PAGE
  PROVE  /\ p \in Pages /\ Uncovered(s.flash, p) /\ s.next_free <= p
         /\ FirstFree(s.flash, p)
         /\ p + amount < PAGE_COUNT
         /\ \A q \in Pages : p <= q /\ q < p + amount => s.flash[q] = Free
  <1>1. PICK fl : fl = s.flash
    OBVIOUS
  <1>2. Laid(fl) /\ Searchable(fl) /\ HintsGood(s) /\ s.next_free \in Nat /\ fl \in Media
    BY <1>1, BaseFacts
  <1>3. PICK from \in Nat : from = s.next_free
    BY <1>2
  <1>4. PICK to \in Nat : to = PAGE_COUNT
    BY PageFacts
  <1>5. Uncovered(fl, from)
    BY <1>1, <1>2, <1>3 DEF HintsGood
  <1>6. PICK C : C = Chain(fl, from, to)
    OBVIOUS
  <1>7. Meets(fl, C, from, to)
    BY <1>2, <1>4, <1>5, <1>6, SearchMeets
  <1>8. PICK free : free = {q \in C : fl[q].kind = "free"}
    OBVIOUS
  <1>9. PICK starts : starts = {q \in free :
            /\ \A r \in free : next_file(fl, r) # q
            /\ q + amount < PAGE_COUNT
            /\ \A r \in C : r \in q .. q + amount - 1 => r \in free}
    OBVIOUS
  <1>10. p = IF starts = {} THEN INVALID_PAGE ELSE Min(starts)
    BY <1>1, <1>3, <1>4, <1>6, <1>8, <1>9 DEF find_contiguous_pages
  <1>11. \A q \in C : q \in Pages /\ q \in Nat /\ from <= q /\ Uncovered(fl, q) /\ Clear(fl, q)
    BY <1>7, PageFacts DEF Meets
  <1>12. p \in starts
    <2>1. starts # {} /\ p = Min(starts)
      BY <1>10
    <2>2. starts \in SUBSET Nat
      BY <1>8, <1>9, <1>11
    <2> QED BY <2>1, <2>2, LeastElement
  <1>13. /\ p \in free /\ p + amount < PAGE_COUNT
         /\ \A r \in C : r \in p .. p + amount - 1 => r \in free
    BY <1>9, <1>12
  <1>14. p \in C /\ p \in Pages /\ p \in Nat /\ from <= p /\ Uncovered(fl, p)
    BY <1>8, <1>11, <1>13
  <1>15. /\ \A q, r \in C : ~(q < r /\ r < next_file(fl, q))
         /\ \A q \in Pages : from <= q /\ q < to => \E r \in C : r <= q /\ q < next_file(fl, r)
    BY <1>7 DEF Meets
  <1>16. ASSUME NEW r \in C, fl[r].kind = "free"
         PROVE  /\ FreeRest(fl, r)
                /\ \A q \in Pages : r <= q /\ q < next_file(fl, r) => Sector(q) = Sector(r)
                /\ \A q \in Pages : r <= q /\ Sector(q) = Sector(r) => q < next_file(fl, r)
    <2>1. r \in Pages /\ r \in Nat /\ FreeRest(fl, r)
      BY <1>11, <1>16 DEF Clear
    <2>2. next_file(fl, r) = Sector(r) * PAGES_PER_SECTOR + PAGES_PER_SECTOR
      BY <1>2, <1>16, <2>1, NextIs
    <2>3. Sector(r) \in Nat /\ Sector(r) * PAGES_PER_SECTOR <= r
          /\ Sector(r) * PAGES_PER_SECTOR \in Nat /\ PAGES_PER_SECTOR \in Nat
      BY <2>1, SectorFacts, Sizes0
    <2>4. \A q \in Nat : Sector(q) = Sector(r) <=>
             Sector(r) * PAGES_PER_SECTOR <= q
             /\ q < Sector(r) * PAGES_PER_SECTOR + PAGES_PER_SECTOR
      BY <2>3, SectorFacts
    <2>5. \A q \in Pages : q \in Nat
      BY PageFacts
    <2> QED BY <2>1, <2>2, <2>3, <2>4, <2>5
  <1>17. ASSUME NEW q \in Pages, p <= q, q < p + amount PROVE fl[q] = Free
    <2>1. q \in Nat /\ from <= q /\ q < to
      BY <1>4, <1>14, <1>17, PageFacts
    <2>2. PICK r \in C : r <= q /\ q < next_file(fl, r)
      BY <1>15, <2>1
    <2>3. r \in Nat /\ r \in Pages /\ next_file(fl, r) \in Nat
      BY <1>2, <1>11, NextIs
    <2>4. p <= r
      <3>1. r < p => p < next_file(fl, r)
        BY <1>14, <1>17, <2>1, <2>2, <2>3
      <3>2. ~(r < p)
        BY <1>14, <1>15, <3>1
      <3> QED BY <1>14, <2>3, <3>2
    <2>5. r \in p .. p + amount - 1
      BY <1>14, <1>17, <2>1, <2>2, <2>3, <2>4
    <2>6. fl[r].kind = "free"
      BY <1>8, <1>13, <2>5
    <2> QED BY <1>16, <2>2, <2>6 DEF FreeRest
  <1>18. FirstFree(fl, p)
    <2> SUFFICES ASSUME NEW q \in Pages, q < p, Sector(q) = Sector(p), Uncovered(fl, q),
                        fl[q].kind = "free"
                 PROVE  FALSE
      BY DEF FirstFree
    <2>1. q \in Nat /\ q < to /\ from <= q
      <3>1. q \in Nat /\ q < to
        BY <1>4, PageFacts
      <3>2. ~(q < from)
        BY <1>1, <1>2, <1>3 DEF HintsGood
      <3> QED BY <3>1, <3>2
    <2>2. PICK r \in C : r <= q /\ q < next_file(fl, r)
      BY <1>15, <2>1
    <2>3. r \in Nat /\ r \in Pages /\ Uncovered(fl, r) /\ Clear(fl, r)
      BY <1>11
    <2>4. fl[r].kind = "free"
      <3>1. CASE r = q
        BY <3>1
      <3>2. CASE r < q
        <4>1. Covers(fl, r, q) \/ fl[r].kind = "free"
          BY <1>2, <2>2, <2>3, <3>2, NextUncovered
        <4> QED BY <2>3, <4>1 DEF Uncovered
      <3> QED BY <2>1, <2>2, <2>3, <3>1, <3>2
    <2>5. r <= p /\ r < p /\ Sector(p) = Sector(r)
      <3>1. Sector(q) = Sector(r)
        BY <1>16, <2>2, <2>4
      <3> QED BY <1>14, <2>1, <2>2, <2>3, <3>1
    <2>6. p < next_file(fl, r)
      BY <1>14, <1>16, <2>4, <2>5
    <2> QED BY <1>14, <1>15, <2>5, <2>6
  <1> QED BY <1>1, <1>3, <1>13, <1>14, <1>17, <1>18

(* The header of a new extent is written. *)
LEMMA PutNew ==
  ASSUME NEW m, NEW s, Base(m, s), NEW n \in Names, NEW amount \in Nat, amount > 0,
         NEW p \in Pages, Uncovered(s.flash, p), FirstFree(s.flash, p), s.next_free <= p,
         p + amount < PAGE_COUNT,
         \A q \in Pages : p <= q /\ q < p + amount => s.flash[q] = Free,
         NEW t, t = write_header(Taken(s, p, amount), p, Header("active", n, amount))
  PROVE  /\ Base(m, t)
         /\ t.files = s.files /\ t.fds = s.fds /\ t.gc_wait = s.gc_wait
         /\ t.flash[p].kind = "active" /\ t.flash[p].name = n
         /\ t.flash[p].max_pages = amount
         /\ \A q \in Pages : q # p => t.flash[q] = s.flash[q]
         /\ s.flash[p] = Free
  <1>1. PICK fl : fl = s.flash
    OBVIOUS
  <1>2. Laid(fl) /\ Searchable(fl) /\ HintsGood(s) /\ s \in StateType /\ fl \in Media
        /\ s.next_free \in Nat /\ Leads(m, s.ops, fl)
    BY <1>1, BaseFacts DEF Base
  <1>3. p \in Nat /\ PAGE_COUNT \in Nat
    BY PageFacts
  <1>4. PICK hdr : hdr = Header("active", n, amount)
    OBVIOUS
  <1>5. PICK gl : gl = [fl EXCEPT ![p] = hdr]
    OBVIOUS
  <1>6. /\ Laid(gl) /\ hdr \in PageType
        /\ \A q : Uncovered(gl, q) <=> Uncovered(fl, q) /\ ~(p < q /\ q < p + amount)
        /\ Searchable(gl)
    <2>1. /\ Uncovered(fl, p) /\ FirstFree(fl, p)
          /\ \A q \in Pages : p <= q /\ q < p + amount => fl[q] = Free
      BY <1>1
    <2> QED BY <1>2, <1>4, <1>5, <2>1, LaidNew, Zenon
  <1>7. gl[p] = hdr /\ \A q \in Pages : q # p => gl[q] = fl[q]
    BY <1>2, <1>5 DEF Media
  <1>8. hdr.kind = "active" /\ hdr.name = n /\ hdr.max_pages = amount
    BY <1>4 DEF Header, Page
  <1>9. fl[p] = Free
    BY <1>1, <1>3
  <1>10. PICK hint : hint = IF p = s.next_free THEN p + amount ELSE s.next_free
    OBVIOUS
  <1>11. hint \in Nat
    BY <1>2, <1>3, <1>10
  <1>12. PICK v : v = Taken(s, p, amount)
    OBVIOUS
  <1>13. /\ v \in StateType /\ v.flash = fl /\ v.ops = s.ops /\ v.files = s.files
         /\ v.fds = s.fds /\ v.gc_wait = s.gc_wait /\ v.next_free = hint
    <2>1. CASE p = s.next_free
      <3>1. v = [s EXCEPT !.next_free = hint]
        BY <1>10, <1>12, <2>1 DEF Taken
      <3> QED BY <1>1, <1>2, <1>11, <3>1 DEF StateType
    <2>2. CASE p # s.next_free
      <3>1. v = s
        BY <1>12, <2>2 DEF Taken
      <3> QED BY <1>1, <1>2, <1>10, <2>2, <3>1
    <2> QED BY <2>1, <2>2
  <1>14. PICK op : op = Program(p, hdr)
    OBVIOUS
  <1>15. op \in GoodOps /\ Apply(fl, op) = gl /\ gl \in Media
    BY <1>2, <1>5, <1>6, <1>14, ApplyProgram
  <1>16. t = Put(v, op)
    BY <1>4, <1>12, <1>14 DEF write_header
  <1>17. /\ t \in StateType /\ t.flash = gl /\ t.ops = Append(s.ops, op)
         /\ t.files = s.files /\ t.fds = s.fds /\ t.gc_wait = s.gc_wait
         /\ t.next_free = hint
    BY <1>13, <1>15, <1>16, PutFacts
  <1>18. Leads(m, t.ops, t.flash)
    <2>1. Laid(Apply(fl, op))
      BY <1>6, <1>15
    <2>2. Leads(m, Append(s.ops, op), Apply(fl, op))
      BY <1>2, <1>15, <2>1, LeadsPut
    <2> QED BY <1>15, <1>17, <2>2
  <1>19. HintsGood(t)
    <2>1. /\ Uncovered(fl, s.next_free) /\ s.next_free <= PAGE_COUNT
          /\ \A q \in Pages : Uncovered(fl, q) /\ q < s.next_free => fl[q].kind # "free"
          /\ s.gc_wait => Useless(fl)
      BY <1>1, <1>2 DEF HintsGood
    <2>2. ASSUME t.gc_wait PROVE Useless(gl)
      <3>1. Useless(fl)
        BY <1>17, <2>1, <2>2
      <3>2. fl[p].kind # "active" /\ gl[p].kind # "obsolete" /\ gl[p].kind # "isolated"
        BY <1>7, <1>8, <1>9, PageTypes
      <3>3. \A q \in Pages : gl[q].kind = "isolated" /\ Uncovered(gl, q) =>
               fl[q].kind = "isolated" /\ Uncovered(fl, q)
        BY <1>6, <1>7, <3>2
      <3>4. \A q \in Pages : gl[q].kind = "obsolete" =>
               fl[q].kind = "obsolete" /\ fl[q].max_pages = gl[q].max_pages
        BY <1>7, <3>2
      <3>5. \A q \in Pages : fl[q].kind = "active" =>
               gl[q].kind = "active" /\ gl[q].max_pages = fl[q].max_pages
        BY <1>7, <3>2
      <3> QED BY <3>1, <3>3, <3>4, <3>5, UselessKept
    <2>3. CASE p = s.next_free
      <3>1. hint = p + amount
        BY <1>10, <2>3
      <3>2. Uncovered(gl, hint)
        <4>1. next_file(gl, p) = hint
          BY <1>7, <1>8, <3>1 DEF next_file
        <4>2. Uncovered(gl, p)
          <5>1. Uncovered(fl, p) /\ ~(p < p)
            BY <1>1, <1>3
          <5> QED BY <1>6, <5>1
        <4>3. Clear(gl, p)
          BY <1>6, <4>2 DEF Searchable
        <4> QED BY <1>6, <4>1, <4>2, <4>3, NextUncovered
      <3>3. hint <= PAGE_COUNT
        BY <1>3, <3>1
      <3>4. ASSUME NEW q \in Pages, Uncovered(gl, q), q < hint PROVE gl[q].kind # "free"
        <4>1. q \in Nat /\ Uncovered(fl, q) /\ ~(p < q /\ q < p + amount)
          BY <1>6, <3>4, PageFacts
        <4>2. q <= p
          BY <1>3, <3>1, <3>4, <4>1
        <4>3. CASE q = p
          BY <1>7, <1>8, <4>3
        <4>4. CASE q < p
          <5>1. fl[q].kind # "free"
            BY <2>1, <2>3, <4>1, <4>4
          <5>2. q # p
            BY <1>3, <4>1, <4>4
          <5> QED BY <1>7, <5>1, <5>2
        <4> QED BY <1>3, <4>1, <4>2, <4>3, <4>4
      <3> QED BY <1>17, <2>2, <3>2, <3>3, <3>4 DEF HintsGood
    <2>4. CASE p # s.next_free
      <3>1. hint = s.next_free /\ hint < p
        BY <1>2, <1>3, <1>10, <2>4
      <3>2. Uncovered(gl, hint)
        BY <1>2, <1>3, <1>6, <2>1, <3>1
      <3>3. ASSUME NEW q \in Pages, Uncovered(gl, q), q < hint PROVE gl[q].kind # "free"
        <4>1. Uncovered(fl, q) /\ q \in Nat
          BY <1>6, <3>3, PageFacts
        <4>2. fl[q].kind # "free" /\ q # p
          BY <1>3, <1>11, <2>1, <3>1, <3>3, <4>1
        <4> QED BY <1>7, <4>2
      <3> QED BY <1>17, <2>1, <2>2, <3>1, <3>2, <3>3 DEF HintsGood
    <2> QED BY <2>3, <2>4
  <1>20. Base(m, t)
    BY <1>6, <1>17, <1>18, <1>19 DEF Base
  <1> QED BY <1>1, <1>7, <1>8, <1>9, <1>17, <1>20

-----------------------------------------------------------------------------
(* The cache of files and the descriptors *)

(* The descriptors that refer to slot i. *)
Users(s, i) == {d \in Fds : s.fds[d].flags # {} /\ s.fds[d].file = i}

(* A slot is free, or caches an extent with an end, when known, that the   *)
(* data of the extent does not go beyond.                                  *)
GoodSlot(fl, f) ==
    IF f.max_pages = 0 THEN f = NoFile
    ELSE /\ f.page \in Active(fl)
         /\ fl[f.page].max_pages = f.max_pages
         /\ f.end # UNKNOWN_OFFSET => file_end(fl, f.page) <= f.end /\ f.end < f.max_pages

GoodFd(s, d) ==
    IF s.fds[d].flags = {} THEN s.fds[d] = NoFd
    ELSE /\ s.fds[d].file \in Slots
         /\ s.files[s.fds[d].file].max_pages > 0
         /\ s.files[s.fds[d].file].end # UNKNOWN_OFFSET
         /\ s.fds[d].offset <= s.files[s.fds[d].file].end

FilesGood(s) ==
    /\ \A i \in Slots : GoodSlot(s.flash, s.files[i])
    /\ \A i \in Slots : s.files[i].references = Cardinality(Users(s, i))
    /\ \A i, j \in Slots : /\ s.files[i].max_pages > 0 /\ s.files[j].max_pages > 0
                           /\ s.files[i].page = s.files[j].page
                           => i = j
    /\ \A d \in Fds : GoodFd(s, d)

Core(m, s) == Base(m, s) /\ FilesGood(s)

(* The extents of fl are as they were on gl. *)
Intact(fl, gl) ==
    \A p \in Active(fl) : \A k \in 0 .. fl[p].max_pages - 1 : gl[p + k] = fl[p + k]

LEMMA IntactFile ==
  ASSUME NEW fl, Laid(fl), NEW gl, Intact(fl, gl), NEW p \in Active(fl)
  PROVE  /\ gl[p] = fl[p] /\ p \in Active(gl)
         /\ file_end(gl, p) = file_end(fl, p)
         /\ DataOf(gl, p) = DataOf(fl, p)
  <1>1. /\ p \in Pages /\ fl[p].kind = "active" /\ IsHeader(fl[p])
        /\ p \in Nat /\ fl[p].max_pages \in Nat /\ fl[p].max_pages > 0
    <2>1. p \in Pages /\ fl[p].kind = "active" /\ IsHeader(fl[p])
      BY DEF Active, IsHeader
    <2> QED BY <2>1, HeaderFacts
  <1>2. \A k \in 0 .. fl[p].max_pages - 1 : gl[p + k] = fl[p + k]
    BY DEF Intact
  <1>3. gl[p] = fl[p]
    <2>1. gl[p + 0] = fl[p + 0] /\ p + 0 = p
      BY <1>1, <1>2
    <2> QED BY <2>1
  <1>4. \A k \in 1 .. fl[p].max_pages - 1 : gl[p + k] = fl[p + k]
    BY <1>1, <1>2
  <1>5. \A k \in fl[p].max_pages .. gl[p].max_pages - 1 : gl[p + k] = Free
    BY <1>1, <1>3
  <1>6. gl[p].max_pages \in Nat /\ fl[p].max_pages <= gl[p].max_pages
    BY <1>1, <1>3
  <1>7. p \in Active(gl)
    BY <1>1, <1>3 DEF Active
  <1>8. file_end(gl, p) = file_end(fl, p) /\ DataOf(gl, p) = DataOf(fl, p)
    BY <1>1, <1>4, <1>5, <1>6, SameFile
  <1> QED BY <1>3, <1>7, <1>8

LEMMA IntactAgain ==
  ASSUME NEW fl, Laid(fl), NEW gl, Laid(gl), NEW hl, Intact(fl, gl), Intact(gl, hl)
  PROVE  Intact(fl, hl)
  <1> SUFFICES ASSUME NEW p \in Active(fl), NEW k \in 0 .. fl[p].max_pages - 1
               PROVE  hl[p + k] = fl[p + k]
    BY DEF Intact
  <1>1. gl[p] = fl[p] /\ p \in Active(gl)
    BY IntactFile
  <1>2. gl[p + k] = fl[p + k]
    BY DEF Intact
  <1>3. hl[p + k] = gl[p + k]
    BY <1>1 DEF Intact
  <1> QED BY <1>2, <1>3

(* The cache does not notice what happens beside the extents. *)
LEMMA FilesKept ==
  ASSUME NEW s, Laid(s.flash), FilesGood(s), NEW t, t.files = s.files, t.fds = s.fds,
         Intact(s.flash, t.flash)
  PROVE  FilesGood(t)
  <1>1. \A i : Users(t, i) = Users(s, i)
    BY DEF Users
  <1>2. ASSUME NEW i \in Slots PROVE GoodSlot(t.flash, t.files[i])
    <2>1. GoodSlot(s.flash, s.files[i])
      BY DEF FilesGood
    <2>2. CASE s.files[i].max_pages = 0
      BY <2>1, <2>2 DEF GoodSlot
    <2>3. CASE s.files[i].max_pages # 0
      <3>1. s.files[i].page \in Active(s.flash)
        BY <2>1, <2>3 DEF GoodSlot
      <3>2. /\ t.flash[s.files[i].page] = s.flash[s.files[i].page]
            /\ s.files[i].page \in Active(t.flash)
            /\ file_end(t.flash, s.files[i].page) = file_end(s.flash, s.files[i].page)
        BY <3>1, IntactFile
      <3> QED BY <2>1, <2>3, <3>2 DEF GoodSlot
    <2> QED BY <2>2, <2>3
  <1>3. \A d \in Fds : GoodFd(t, d)
    BY DEF FilesGood, GoodFd
  <1> QED BY <1>1, <1>2, <1>3 DEF FilesGood

LEMMA UsersFacts ==
  ASSUME NEW s
  PROVE  /\ IsFiniteSet(Fds) /\ Cardinality(Fds) = FD_SET_SIZE
         /\ IsFiniteSet(Slots) /\ Cardinality(Slots) = MAX_OPEN_FILES
         /\ \A i : IsFiniteSet(Users(s, i)) /\ Cardinality(Users(s, i)) \in 0 .. FD_SET_SIZE
         /\ \A i : Cardinality(Users(s, i)) = 0 <=> Users(s, i) = {}
  <1>1. IsFiniteSet(Fds) /\ Cardinality(Fds) = FD_SET_SIZE
    BY Sizes0, FS_Interval DEF Fds
  <1>2. IsFiniteSet(Slots) /\ Cardinality(Slots) = MAX_OPEN_FILES
    BY Sizes0, FS_Interval DEF Slots
  <1>3. ASSUME NEW i
        PROVE  /\ IsFiniteSet(Users(s, i)) /\ Cardinality(Users(s, i)) \in 0 .. FD_SET_SIZE
               /\ Cardinality(Users(s, i)) = 0 <=> Users(s, i) = {}
    <2>1. Users(s, i) \in SUBSET Fds
      BY DEF Users
    <2>2. IsFiniteSet(Users(s, i)) /\ Cardinality(Users(s, i)) <= FD_SET_SIZE
      BY <1>1, <2>1, FS_Subset
    <2>3. Cardinality(Users(s, i)) \in Nat
      BY <2>2, FS_CardinalityType
    <2> QED BY <2>2, <2>3, FS_EmptySet, Sizes0
  <1> QED BY <1>1, <1>2, <1>3

LEMMA SlotFacts ==
  ASSUME NEW m, NEW s, Core(m, s), NEW i \in Slots
  PROVE  /\ s.files[i] \in FileType /\ s.files[i].max_pages \in Nat
         /\ s.files[i].references = Cardinality(Users(s, i))
         /\ s.files[i].references \in Nat
         /\ GoodSlot(s.flash, s.files[i])
         /\ s.files[i].references = 0 <=> Users(s, i) = {}
         /\ s.files[i].max_pages = 0 => s.files[i] = NoFile /\ Users(s, i) = {}
  <1>1. s.files[i] \in FileType /\ GoodSlot(s.flash, s.files[i])
        /\ s.files[i].references = Cardinality(Users(s, i))
    BY BaseFacts DEF Core, FilesGood
  <1>2. s.files[i].max_pages \in 0 .. PAGE_COUNT /\ s.files[i].references \in Nat
    BY <1>1 DEF FileType
  <1>3. s.files[i].references = 0 <=> Users(s, i) = {}
    BY <1>1, UsersFacts
  <1>4. ASSUME s.files[i].max_pages = 0 PROVE s.files[i] = NoFile /\ Users(s, i) = {}
    <2>1. s.files[i] = NoFile
      BY <1>1, <1>4 DEF GoodSlot
    <2>2. s.files[i].references = 0
      BY <2>1 DEF NoFile
    <2> QED BY <1>3, <2>1, <2>2
  <1> QED BY <1>1, <1>2, <1>3, <1>4

(* A file can be loaded. *)
HasSlot(s) == \E i \in Slots : s.files[i].references = 0

(* The slot that is given away has no user. *)
LEMMA LoadSlot ==
  ASSUME NEW m, NEW s, Core(m, s), HasSlot(s)
  PROVE  load_slot(s) \in Slots /\ Users(s, load_slot(s)) = {}
  <1>1. PICK free : free = {i \in Slots : s.files[i].max_pages = 0}
    OBVIOUS
  <1>2. PICK idle : idle = {i \in Slots : s.files[i].references = 0}
    OBVIOUS
  <1>3. load_slot(s) = IF free # {} THEN Min(free)
                       ELSE IF idle # {} THEN Max(idle) ELSE NoSlot
    BY <1>1, <1>2 DEF load_slot
  <1>4. free \in SUBSET Nat /\ idle \in SUBSET Nat
    BY <1>1, <1>2 DEF Slots
  <1>5. CASE free # {}
    <2>1. load_slot(s) \in free
      BY <1>3, <1>4, <1>5, LeastElement
    <2>2. load_slot(s) \in Slots /\ s.files[load_slot(s)].max_pages = 0
      BY <1>1, <2>1
    <2> QED BY <2>2, SlotFacts
  <1>6. CASE free = {}
    <2>1. idle # {}
      BY <1>2 DEF HasSlot
    <2>2. \A y \in idle : y <= MAX_OPEN_FILES
      BY <1>2 DEF Slots
    <2>3. Max(idle) \in idle
      BY <1>4, <2>1, <2>2, Sizes0, GreatestElement
    <2>4. load_slot(s) \in Slots /\ s.files[load_slot(s)].references = 0
      BY <1>2, <1>3, <1>6, <2>1, <2>3
    <2> QED BY <2>4, SlotFacts
  <1> QED BY <1>5, <1>6

(* Only the protected memory differs. *)
SameFlash(t, s) ==
    /\ t.flash = s.flash /\ t.ops = s.ops
    /\ t.next_free = s.next_free /\ t.gc_wait = s.gc_wait

LEMMA BaseSame ==
  ASSUME NEW m, NEW s, Base(m, s), NEW t \in StateType, SameFlash(t, s)
  PROVE  Base(m, t)
  BY DEF Base, SameFlash, HintsGood

LEMMA LoadFile ==
  ASSUME NEW m, NEW s, Core(m, s), HasSlot(s), NEW p \in Active(s.flash),
         NEW max, max = s.flash[p].max_pages,
         NEW end \in Nat \cup {UNKNOWN_OFFSET},
         end # UNKNOWN_OFFSET => file_end(s.flash, p) <= end /\ end < max,
         \A i \in Slots : s.files[i].max_pages > 0 => s.files[i].page # p,
         NEW r, r = load_file(s, p, max, end)
  PROVE  /\ r.slot \in Slots /\ Users(s, r.slot) = {}
         /\ Core(m, r.s) /\ SameFlash(r.s, s) /\ r.s.fds = s.fds
         /\ r.s.files[r.slot] = [page |-> p, max_pages |-> max, end |-> end, references |-> 0]
         /\ \A j \in Slots : j # r.slot => r.s.files[j] = s.files[j]
  <1>1. PICK i : i = load_slot(s)
    OBVIOUS
  <1>2. i \in Slots /\ Users(s, i) = {} /\ i # NoSlot
    BY <1>1, LoadSlot DEF Slots, NoSlot
  <1>3. s \in StateType /\ Laid(s.flash) /\ Base(m, s)
    BY BaseFacts DEF Core
  <1>4. /\ p \in Pages /\ IsHeader(s.flash[p]) /\ max \in Nat /\ max > 0
        /\ max \in 0 .. PAGE_COUNT
    <2>1. p \in Pages /\ IsHeader(s.flash[p])
      BY DEF Active, IsHeader
    <2>2. s.flash[p] \in PageType
      BY <1>3, <2>1, MediumPage DEF Laid
    <2>3. max \in 0 .. PAGE_COUNT
      BY <2>2 DEF PageType
    <2> QED BY <1>3, <2>1, <2>3, HeaderFacts
  <1>5. PICK new : new = [s.files[i] EXCEPT !.page = p, !.max_pages = max, !.end = end]
    OBVIOUS
  <1>6. s.files[i] \in FileType /\ s.files[i].references = 0
    BY <1>2, SlotFacts
  <1>7. new = [page |-> p, max_pages |-> max, end |-> end, references |-> 0]
    BY <1>5, <1>6 DEF FileType
  <1>8. new \in FileType
    BY <1>4, <1>7 DEF FileType
  <1>9. r = [s |-> [s EXCEPT !.files[i] = new], slot |-> i]
    BY <1>1, <1>2, <1>5 DEF load_file, LoadInto
  <1>10. PICK t : t = r.s
    OBVIOUS
  <1>11. r.slot = i /\ t = [s EXCEPT !.files[i] = new]
    BY <1>9, <1>10
  <1>12. /\ t \in StateType /\ SameFlash(t, s) /\ t.fds = s.fds
         /\ t.files = [s.files EXCEPT ![i] = new]
    BY <1>2, <1>3, <1>8, <1>11 DEF StateType, SameFlash
  <1>13. t.files[i] = new /\ \A j \in Slots : j # i => t.files[j] = s.files[j]
    BY <1>2, <1>3, <1>12 DEF StateType
  <1>14. \A j : Users(t, j) = Users(s, j)
    BY <1>12 DEF Users
  <1>15. FilesGood(s) /\ t.flash = s.flash
    BY <1>12 DEF Core, SameFlash
  <1>16. FilesGood(t)
    <2>1. ASSUME NEW j \in Slots PROVE GoodSlot(t.flash, t.files[j])
      <3>1. CASE j = i
        <4>1. GoodSlot(s.flash, new)
          BY <1>4, <1>7 DEF GoodSlot
        <4> QED BY <1>13, <1>15, <3>1, <4>1
      <3>2. CASE j # i
        BY <1>13, <1>15, <3>2 DEF FilesGood
      <3> QED BY <3>1, <3>2
    <2>2. ASSUME NEW j \in Slots PROVE t.files[j].references = Cardinality(Users(t, j))
      <3>1. CASE j = i
        <4>1. t.files[j].references = 0
          BY <1>7, <1>13, <3>1
        <4>2. Users(t, j) = {}
          BY <1>2, <1>14, <3>1
        <4>3. Cardinality(Users(t, j)) = 0
          BY <4>2, UsersFacts
        <4> QED BY <4>1, <4>3
      <3>2. CASE j # i
        BY <1>13, <1>14, <1>15, <3>2 DEF FilesGood
      <3> QED BY <3>1, <3>2
    <2>3. ASSUME NEW j \in Slots, NEW k \in Slots, t.files[j].max_pages > 0,
                 t.files[k].max_pages > 0, t.files[j].page = t.files[k].page
          PROVE  j = k
      <3>1. new.page = p
        BY <1>7
      <3>2. CASE j = i \/ k = i
        <4> SUFFICES ASSUME j # k PROVE FALSE
          OBVIOUS
        <4>1. PICK l \in {j, k} : l # i
          BY <3>2
        <4>2. t.files[l] = s.files[l] /\ s.files[l].max_pages > 0 /\ s.files[l].page = p
          BY <1>13, <2>3, <3>1, <3>2, <4>1
        <4> QED BY <4>2
      <3>3. CASE j # i /\ k # i
        BY <1>13, <1>15, <2>3, <3>3 DEF FilesGood
      <3> QED BY <3>2, <3>3
    <2>4. ASSUME NEW d \in Fds PROVE GoodFd(t, d)
      <3>1. GoodFd(s, d)
        BY <1>15 DEF FilesGood
      <3>2. CASE s.fds[d].flags = {}
        BY <1>12, <3>1, <3>2 DEF GoodFd
      <3>3. CASE s.fds[d].flags # {}
        <4>1. s.fds[d].file \in Slots /\ s.fds[d].file # i
          BY <1>2, <3>1, <3>3 DEF GoodFd, Users
        <4>2. t.files[s.fds[d].file] = s.files[s.fds[d].file]
          BY <1>13, <4>1
        <4> QED BY <1>12, <3>1, <3>3, <4>2, Zenon DEF GoodFd
      <3> QED BY <3>2, <3>3
    <2> QED BY <2>1, <2>2, <2>3, <2>4 DEF FilesGood
  <1>17. Core(m, t)
    BY <1>3, <1>12, <1>16, BaseSame DEF Core
  <1> QED BY <1>2, <1>7, <1>10, <1>11, <1>12, <1>13, <1>17

(* The file of a name that has an extent. *)
LEMMA FindFile ==
  ASSUME NEW m, NEW s, Core(m, s), NEW n \in Names,
         (\A i \in Slots : s.files[i].max_pages > 0 => s.flash[s.files[i].page].name # n)
            => HasSlot(s),
         NEW r, r = find_file(s, n)
  PROVE  /\ Core(m, r.s) /\ SameFlash(r.s, s) /\ r.s.fds = s.fds
         /\ r.slot = NoSlot => r.s = s /\ \A p \in Active(s.flash) : s.flash[p].name # n
         /\ r.slot # NoSlot =>
              /\ r.slot \in Slots /\ r.s.files[r.slot].max_pages > 0
              /\ r.s.files[r.slot].page \in Active(s.flash)
              /\ s.flash[r.s.files[r.slot].page].name = n
         /\ \A i \in Slots : s.files[i].max_pages > 0 /\ s.flash[s.files[i].page].name = n
               => r.s = s /\ r.slot # NoSlot
  <1>1. PICK cached : cached = {i \in Slots : /\ s.files[i].max_pages > 0
                                              /\ s.flash[s.files[i].page].kind = "active"
                                              /\ s.flash[s.files[i].page].name = n}
    BY Zenon
  <1>2. PICK found : found = Named(s.flash, n)
    OBVIOUS
  <1>3. r = CASE cached # {} -> [s |-> s, slot |-> Min(cached)]
              [] cached = {} /\ found # {} ->
                   load_file(s, Min(found), s.flash[Min(found)].max_pages, UNKNOWN_OFFSET)
              [] OTHER -> [s |-> s, slot |-> NoSlot]
    BY <1>1, <1>2, Zenon DEF find_file
  <1>4. Laid(s.flash) /\ FilesGood(s)
    BY BaseFacts DEF Core
  <1>5. found = {p \in Active(s.flash) : s.flash[p].name = n}
    BY <1>2, <1>4, ExtentsActive, BaseFacts DEF Core
  <1>6. SameFlash(s, s)
    BY DEF SameFlash
  <1>7. ASSUME NEW i \in Slots, s.files[i].max_pages > 0
        PROVE  s.files[i].page \in Active(s.flash)
               /\ s.flash[s.files[i].page].kind = "active"
    <2>1. s.files[i].page \in Active(s.flash)
      BY <1>4, <1>7 DEF FilesGood, GoodSlot
    <2> QED BY <2>1 DEF Active
  <1>8. CASE cached # {}
    <2>1. r.s = s /\ r.slot = Min(cached)
      BY <1>3, <1>8
    <2>2. cached \in SUBSET Nat
      BY <1>1 DEF Slots
    <2>3. r.slot \in cached
      BY <1>8, <2>1, <2>2, LeastElement
    <2>4. r.slot \in Slots /\ r.slot # NoSlot
      BY <1>1, <2>3 DEF Slots, NoSlot
    <2> QED BY <1>1, <1>6, <1>7, <2>1, <2>3, <2>4, Zenon
  <1>9. CASE cached = {}
    <2>1. \A i \in Slots : s.files[i].max_pages > 0 => s.flash[s.files[i].page].name # n
      BY <1>1, <1>7, <1>9
    <2>2. HasSlot(s)
      BY <2>1
    <2>3. CASE found = {}
      <3>1. r.s = s /\ r.slot = NoSlot
        BY <1>3, <1>9, <2>3
      <3> QED BY <1>5, <1>6, <2>1, <2>3, <3>1
    <2>4. CASE found # {}
      <3>1. PICK p : p = Min(found)
        OBVIOUS
      <3>2. found \in SUBSET Nat
        BY <1>5, PageFacts DEF Active
      <3>3. p \in Active(s.flash) /\ s.flash[p].name = n
        BY <1>5, <2>4, <3>1, <3>2, LeastElement
      <3>4. PICK max : max = s.flash[p].max_pages
        OBVIOUS
      <3>5. r = load_file(s, p, max, UNKNOWN_OFFSET)
        BY <1>3, <1>9, <2>4, <3>1, <3>4
      <3>6. \A i \in Slots : s.files[i].max_pages > 0 => s.files[i].page # p
        BY <2>1, <3>3
      <3>7. /\ r.slot \in Slots /\ Core(m, r.s) /\ SameFlash(r.s, s) /\ r.s.fds = s.fds
            /\ r.s.files[r.slot] = [page |-> p, max_pages |-> max, end |-> UNKNOWN_OFFSET,
                                    references |-> 0]
            /\ \A j \in Slots : j # r.slot => r.s.files[j] = s.files[j]
        BY <2>2, <3>3, <3>4, <3>5, <3>6, LoadFile
      <3>8. max > 0
        <4>1. p \in Pages /\ IsHeader(s.flash[p])
          BY <3>3 DEF Active, IsHeader
        <4> QED BY <1>4, <3>4, <4>1, HeaderFacts
      <3>9. r.slot # NoSlot
        BY <3>7 DEF Slots, NoSlot
      <3> QED BY <2>1, <3>3, <3>7, <3>8, <3>9
    <2> QED BY <2>3, <2>4, Zenon
  <1> QED BY <1>8, <1>9, Zenon

-----------------------------------------------------------------------------
(* Reserving an extent *)

(* The same extents, and nothing changed in them. *)
Same(fl, gl) == Active(gl) = Active(fl) /\ Intact(fl, gl)

(* One extent more, at p, which is empty. *)
Grown(fl, gl, p, n, amount) ==
    /\ p \in Pages /\ p \notin Active(fl)
    /\ Active(gl) = Active(fl) \cup {p} /\ Intact(fl, gl)
    /\ gl[p].name = n /\ gl[p].max_pages = amount
    /\ \A k \in 1 .. amount - 1 : gl[p + k] = Free

(* What reserve leaves: nothing new, or an extent that is in the cache. *)
ReservedFrom(m, s, n, amount, r) ==
    /\ Core(m, r.s) /\ r.s.fds = s.fds
    /\ \/ r.slot = NoSlot /\ r.s.files = s.files /\ Same(s.flash, r.s.flash)
       \/ /\ r.slot \in Slots /\ Users(s, r.slot) = {}
          /\ \E p : /\ Grown(s.flash, r.s.flash, p, n, amount)
                    /\ r.s.files[r.slot] = [page |-> p, max_pages |-> amount, end |-> 0,
                                            references |-> 0]
          /\ \A j \in Slots : j # r.slot => r.s.files[j] = s.files[j]

LEMMA SameSelf ==
  ASSUME NEW fl
  PROVE  Intact(fl, fl) /\ Same(fl, fl)
  BY DEF Same, Intact

(* A new header is in no extent. *)
LEMMA IntactNew ==
  ASSUME NEW fl, Laid(fl), NEW p \in Pages, Uncovered(fl, p), fl[p] = Free,
         NEW gl, \A q \in Pages : q # p => gl[q] = fl[q]
  PROVE  Intact(fl, gl) /\ p \notin Active(fl)
  <1>1. p \notin Active(fl)
    BY DEF Active, Free, Page
  <1>2. ASSUME NEW q \in Active(fl), NEW k \in 0 .. fl[q].max_pages - 1
        PROVE  gl[q + k] = fl[q + k]
    <2>1. q \in Pages /\ IsHeader(fl[q]) /\ q \in Nat
      BY PageFacts DEF Active, IsHeader
    <2>2. q + k \in Pages /\ fl[q].max_pages \in Nat
      BY <2>1, HeaderFacts
    <2>3. q + k # p
      <3>1. CASE k = 0
        BY <1>1, <2>1, <3>1
      <3>2. CASE k # 0
        <4> SUFFICES ASSUME q + k = p PROVE FALSE
          OBVIOUS
        <4>1. q < p /\ p < q + fl[q].max_pages
          BY <2>1, <2>2, <3>2
        <4>2. Covers(fl, q, p)
          BY <2>1, <4>1 DEF Covers
        <4> QED BY <2>1, <4>2 DEF Uncovered
      <3> QED BY <3>1, <3>2
    <2> QED BY <2>2, <2>3
  <1> QED BY <1>1, <1>2 DEF Intact

LEMMA Allocate ==
  ASSUME NEW m, NEW s, Core(m, s), HasSlot(s), NEW n \in Names, NEW amount \in Nat, amount > 0,
         find_contiguous_pages(s, amount) = INVALID_PAGE
            => Useless(s.flash),
         NEW r, r = AllocatedAnywhere(s, n, amount)
  PROVE  ReservedFrom(m, s, n, amount, r)
  <1>1. PICK p : p = find_contiguous_pages(s, amount)
    OBVIOUS
  <1>2. r = Allocated(s, n, amount, p)
    BY <1>1 DEF AllocatedAnywhere
  <1>3. s \in StateType /\ Laid(s.flash) /\ Base(m, s) /\ FilesGood(s) /\ HintsGood(s)
    BY BaseFacts DEF Core
  <1>4. amount \in Nat /\ amount > 0
    OBVIOUS
  <1>5. CASE p = INVALID_PAGE
    <2>1. PICK t : t = [s EXCEPT !.gc_wait = TRUE]
      OBVIOUS
    <2>2. r.s = t /\ r.slot = NoSlot
      BY <1>2, <1>5, <2>1 DEF Allocated
    <2>3. /\ t \in StateType /\ t.flash = s.flash /\ t.ops = s.ops /\ t.files = s.files
          /\ t.fds = s.fds /\ t.next_free = s.next_free
      BY <1>3, <2>1 DEF StateType
    <2>4. HintsGood(t)
      <3>1. Useless(t.flash)
        BY <1>1, <1>5, <2>3
      <3> QED BY <1>3, <2>3, <3>1 DEF HintsGood
    <2>5. Base(m, t)
      BY <1>3, <2>3, <2>4 DEF Base
    <2>6. Same(s.flash, t.flash)
      BY <2>3, SameSelf
    <2>7. FilesGood(t)
      BY <1>3, <2>3, <2>6, FilesKept DEF Same
    <2> QED BY <2>2, <2>3, <2>5, <2>6, <2>7 DEF ReservedFrom, Core
  <1>6. CASE p # INVALID_PAGE
    <2>1. /\ p \in Pages /\ Uncovered(s.flash, p) /\ s.next_free <= p
          /\ FirstFree(s.flash, p) /\ p + amount < PAGE_COUNT
          /\ \A q \in Pages : p <= q /\ q < p + amount => s.flash[q] = Free
      BY <1>1, <1>3, <1>4, <1>6, FoundPages
    <2>2. PICK t : t = write_header(Taken(s, p, amount), p, Header("active", n, amount))
      OBVIOUS
    <2>3. /\ Base(m, t)
          /\ t.files = s.files /\ t.fds = s.fds
          /\ t.flash[p].kind = "active" /\ t.flash[p].name = n
          /\ t.flash[p].max_pages = amount
          /\ \A q \in Pages : q # p => t.flash[q] = s.flash[q]
          /\ s.flash[p] = Free
      BY <1>3, <2>1, <2>2, PutNew
    <2>4. Intact(s.flash, t.flash) /\ p \notin Active(s.flash)
      BY <1>3, <2>1, <2>3, IntactNew
    <2>5. Active(t.flash) = Active(s.flash) \cup {p}
      BY <2>1, <2>3 DEF Active
    <2>6. ASSUME NEW k \in 1 .. amount - 1 PROVE t.flash[p + k] = Free
      <3>1. p \in Nat /\ p + k \in Pages /\ p <= p + k /\ p + k < p + amount /\ p + k # p
        BY <1>4, <2>1, PageFacts
      <3> QED BY <2>1, <2>3, <3>1
    <2>7. Core(m, t)
      BY <1>3, <2>3, <2>4, FilesKept DEF Core
    <2>8. HasSlot(t)
      BY <2>3 DEF HasSlot
    <2>9. p \in Active(t.flash)
      BY <2>5
    <2>10. file_end(t.flash, p) = 0
      <3>1. 0 \in 0 .. amount - 1
        BY <1>4
      <3> QED BY <1>4, <2>3, <2>6, <3>1, FileEndIs
    <2>11. \A i \in Slots : t.files[i].max_pages > 0 => t.files[i].page # p
      BY <1>3, <2>3, <2>4 DEF FilesGood, GoodSlot
    <2>12. r = load_file(t, p, amount, 0)
      BY <1>2, <1>6, <2>2 DEF Allocated
    <2>13. /\ r.slot \in Slots /\ Users(t, r.slot) = {}
           /\ Core(m, r.s) /\ SameFlash(r.s, t) /\ r.s.fds = t.fds
           /\ r.s.files[r.slot] = [page |-> p, max_pages |-> amount, end |-> 0,
                                   references |-> 0]
           /\ \A j \in Slots : j # r.slot => r.s.files[j] = t.files[j]
      <3>1. PICK end \in Nat \cup {UNKNOWN_OFFSET} : end = 0
        OBVIOUS
      <3>2. end # UNKNOWN_OFFSET => file_end(t.flash, p) <= end /\ end < amount
        BY <1>4, <2>10, <3>1
      <3>3. amount = t.flash[p].max_pages
        BY <2>3
      <3>4. r = load_file(t, p, amount, end)
        BY <2>12, <3>1
      <3>5. PICK file : file = [page |-> p, max_pages |-> amount, end |-> end, references |-> 0]
        OBVIOUS
      <3>6. /\ r.slot \in Slots /\ Users(t, r.slot) = {}
            /\ Core(m, r.s) /\ SameFlash(r.s, t) /\ r.s.fds = t.fds
            /\ r.s.files[r.slot] = file
            /\ \A j \in Slots : j # r.slot => r.s.files[j] = t.files[j]
        BY ONLY <2>7, <2>8, <2>9, <2>11, <3>1, <3>2, <3>3, <3>4, <3>5, LoadFile
      <3> QED BY <3>1, <3>5, <3>6
    <2>14. Grown(s.flash, t.flash, p, n, amount)
      BY <2>1, <2>3, <2>4, <2>5, <2>6 DEF Grown
    <2>15. Users(s, r.slot) = {}
      BY <2>3, <2>13 DEF Users
    <2>16. r.s.flash = t.flash
      BY <2>13 DEF SameFlash
    <2> QED BY <2>3, <2>13, <2>14, <2>15, <2>16 DEF ReservedFrom
  <1> QED BY <1>5, <1>6

(* Garbage is collected first or not. *)
LEMMA Reserve ==
  ASSUME NEW m, NEW s, Core(m, s), HasSlot(s), NoOverhang(s.flash),
         NEW n \in Names, NEW amount \in Nat, amount > 0,
         NEW r, r = reserve(s, n, amount)
  PROVE  ReservedFrom(m, s, n, amount, r)
  <1>1. s \in StateType /\ Laid(s.flash) /\ Base(m, s) /\ FilesGood(s) /\ HintsGood(s)
    BY BaseFacts DEF Core
  <1>2. CASE find_contiguous_pages(s, amount) # INVALID_PAGE \/ s.gc_wait
    <2>1. r = AllocatedAnywhere(s, n, amount)
      BY <1>2 DEF reserve
    <2>2. find_contiguous_pages(s, amount) = INVALID_PAGE
             => Useless(s.flash)
      BY <1>1, <1>2 DEF HintsGood
    <2> QED BY <2>1, <2>2, Allocate
  <1>3. CASE ~(find_contiguous_pages(s, amount) # INVALID_PAGE \/ s.gc_wait)
    <2>1. PICK t : t = collect_garbage(s)
      OBVIOUS
    <2>2. r = AllocatedAnywhere(t, n, amount)
      BY <1>3, <2>1 DEF reserve
    <2>3. /\ Base(m, t)
          /\ t.files = s.files /\ t.fds = s.fds
          /\ Useless(t.flash)
          /\ Active(t.flash) = Active(s.flash)
          /\ \A p \in Active(s.flash) : \A k \in 0 .. s.flash[p].max_pages - 1 :
                t.flash[p + k] = s.flash[p + k]
      BY <1>1, <2>1, Collected
    <2>4. Intact(s.flash, t.flash) /\ Same(s.flash, t.flash)
      BY <2>3 DEF Intact, Same
    <2>5. Core(m, t) /\ HasSlot(t) /\ Laid(t.flash)
      BY <1>1, <2>3, <2>4, FilesKept, BaseFacts DEF Core, HasSlot
    <2>6. ReservedFrom(m, t, n, amount, r)
      BY <2>2, <2>3, <2>5, Allocate
    <2>7. Laid(r.s.flash) /\ Core(m, r.s)
      BY <2>6, BaseFacts DEF ReservedFrom, Core
    <2>8. CASE r.slot = NoSlot /\ r.s.files = t.files /\ Same(t.flash, r.s.flash)
      <3>1. Same(s.flash, r.s.flash)
        BY <1>1, <2>4, <2>5, <2>7, <2>8, IntactAgain DEF Same
      <3> QED BY <2>3, <2>6, <2>8, <3>1 DEF ReservedFrom
    <2>9. CASE ~(r.slot = NoSlot /\ r.s.files = t.files /\ Same(t.flash, r.s.flash))
      <3>1. PICK p : /\ Grown(t.flash, r.s.flash, p, n, amount)
                     /\ r.s.files[r.slot] = [page |-> p, max_pages |-> amount, end |-> 0,
                                             references |-> 0]
        BY <2>6, <2>9 DEF ReservedFrom
      <3>2. Intact(s.flash, r.s.flash)
        BY <1>1, <2>4, <2>5, <2>7, <3>1, IntactAgain DEF Grown
      <3>3. Grown(s.flash, r.s.flash, p, n, amount)
        BY <2>3, <3>1, <3>2 DEF Grown
      <3>4. Users(s, r.slot) = Users(t, r.slot)
        BY <2>3 DEF Users
      <3> QED BY <2>3, <2>6, <2>9, <3>1, <3>3, <3>4 DEF ReservedFrom
    <2> QED BY <2>8, <2>9
  <1> QED BY <1>2, <1>3

-----------------------------------------------------------------------------
(* Room in the cache *)

(* A slot is left for a file that is not in the cache, or none can come. *)
Room(s) ==
    \/ HasSlot(s)
    \/ /\ get_available_fd(s) = {}
       /\ \A n \in Names : \E i \in Slots :
             s.files[i].max_pages > 0 /\ s.flash[s.files[i].page].name = n

-----------------------------------------------------------------------------
(* What the allocation of an extent does to the contents *)

LEMMA SameContents ==
  ASSUME NEW fl, Laid(fl), Searchable(fl), Unique(fl),
         NEW gl, Laid(gl), Searchable(gl), Same(fl, gl)
  PROVE  Unique(gl) /\ Contents(gl) = Contents(fl)
  <1>1. \A p \in Active(fl) : gl[p] = fl[p] /\ p \in Active(gl) /\ DataOf(gl, p) = DataOf(fl, p)
    BY IntactFile DEF Same
  <1>2. Active(gl) = Active(fl)
    BY DEF Same
  <1>3. Unique(gl)
    BY <1>1, <1>2 DEF Unique
  <1>4. \A n \in Names : Contents(gl)[n] = Contents(fl)[n]
    <2> SUFFICES ASSUME NEW n \in Names PROVE Contents(gl)[n] = Contents(fl)[n]
      OBVIOUS
    <2>1. \A p \in Active(fl) : fl[p].name = n =>
             \E q \in Active(gl) : gl[q].name = n /\ DataOf(gl, q) = DataOf(fl, p)
      BY <1>1
    <2>2. \A q \in Active(gl) : gl[q].name = n => \E p \in Active(fl) : fl[p].name = n
      BY <1>1, <1>2
    <2> QED BY <1>3, <2>1, <2>2, ContentsAt
  <1> QED BY <1>3, <1>4, ContentsSame

(* A new extent is an empty file. *)
LEMMA GrownContents ==
  ASSUME NEW fl, Laid(fl), Searchable(fl), Unique(fl),
         NEW gl, Laid(gl), Searchable(gl), NEW p, NEW n \in Names, NEW amount,
         Grown(fl, gl, p, n, amount), \A q \in Active(fl) : fl[q].name # n
  PROVE  /\ Unique(gl)
         /\ Contents(fl)[n] = Absent
         /\ Contents(gl) = [Contents(fl) EXCEPT ![n] = <<>>]
  <1>1. \A q \in Active(fl) : gl[q] = fl[q] /\ q \in Active(gl) /\ DataOf(gl, q) = DataOf(fl, q)
    BY IntactFile DEF Grown
  <1>2. Active(gl) = Active(fl) \cup {p} /\ gl[p].name = n
    BY DEF Grown
  <1>3. Unique(gl)
    <2> SUFFICES ASSUME NEW q \in Active(gl), NEW r \in Active(gl), gl[q].name = gl[r].name
                 PROVE  q = r
      BY DEF Unique
    <2>1. CASE q = p \/ r = p
      BY <1>1, <1>2, <2>1
    <2>2. CASE q # p /\ r # p
      <3>1. q \in Active(fl) /\ r \in Active(fl)
        BY <1>2, <2>2
      <3> QED BY <1>1, <3>1 DEF Unique
    <2> QED BY <2>1, <2>2
  <1>4. Contents(fl)[n] = Absent
    BY ContentsFacts
  <1>5. ASSUME NEW o \in Names, o # n PROVE Contents(gl)[o] = Contents(fl)[o]
    <2>1. \A q \in Active(fl) : fl[q].name = o =>
             \E r \in Active(gl) : gl[r].name = o /\ DataOf(gl, r) = DataOf(fl, q)
      BY <1>1
    <2>2. \A r \in Active(gl) : gl[r].name = o => \E q \in Active(fl) : fl[q].name = o
      BY <1>1, <1>2, <1>5
    <2> QED BY <1>3, <2>1, <2>2, ContentsAt
  <1>6. Contents(gl)[n] = <<>>
    <2>1. p \in Active(gl) /\ p \in Pages /\ IsHeader(gl[p])
      BY <1>2 DEF Active, IsHeader
    <2>2. gl[p].max_pages \in Nat /\ gl[p].max_pages > 0
      BY <2>1, HeaderFacts
    <2>3. gl[p].max_pages = amount /\ \A k \in 1 .. amount - 1 : gl[p + k] = Free
      BY DEF Grown
    <2>4. 0 \in 0 .. gl[p].max_pages - 1
      BY <2>2
    <2>5. file_end(gl, p) = 0
      BY <2>2, <2>3, <2>4, FileEndIs
    <2>6. DataOf(gl, p) = <<>>
      BY <2>5 DEF DataOf
    <2>7. Contents(gl)[n] = DataOf(gl, p)
      BY <1>2, <1>3, <2>1, ContentsFacts
    <2> QED BY <2>6, <2>7
  <1>7. Contents(fl) = [o \in Names |-> Contents(fl)[o]]
        /\ Contents(gl) = [o \in Names |-> Contents(gl)[o]]
    BY <1>3, ContentsFacts
  <1>8. PICK c, d : c = Contents(fl) /\ d = Contents(gl)
    OBVIOUS
  <1>9. d = [c EXCEPT ![n] = <<>>]
    BY <1>5, <1>6, <1>7, <1>8
  <1> QED BY <1>3, <1>4, <1>8, <1>9

-----------------------------------------------------------------------------
(* Opening and closing *)

Flags == SUBSET {"READ", "WRITE", "APPEND"}

(* A descriptor gets the file of a slot. *)
LEMMA OpenedFile ==
  ASSUME NEW m, NEW s, Core(m, s), NEW i \in Slots, s.files[i].max_pages > 0,
         NEW d \in Fds, s.fds[d].flags = {}, NEW flags \in Flags, flags # {},
         NEW file, file.s = s, file.slot = i,
         NEW r, r = Opened(file, d, flags)
  PROVE  /\ r.fd = d /\ Core(m, r.s) /\ SameFlash(r.s, s)
         /\ r.s.fds[d].flags = flags /\ r.s.fds[d].file = i
         /\ \A e \in Fds : e # d => r.s.fds[e] = s.fds[e]
         /\ r.s.files[i].page = s.files[i].page
         /\ r.s.files[i].max_pages = s.files[i].max_pages
         /\ s.files[i].end # UNKNOWN_OFFSET => r.s.files[i].end = s.files[i].end
         /\ \A j \in Slots : j # i => r.s.files[j] = s.files[j]
  <1>1. s \in StateType /\ Laid(s.flash) /\ Base(m, s) /\ FilesGood(s)
    BY BaseFacts DEF Core
  <1>2. PICK f : f = s.files[i]
    OBVIOUS
  <1>3. /\ f \in FileType /\ f.max_pages \in Nat /\ f.references = Cardinality(Users(s, i))
        /\ f.references \in Nat /\ GoodSlot(s.flash, f)
    BY <1>2, SlotFacts
  <1>4. f.page \in Active(s.flash) /\ s.flash[f.page].max_pages = f.max_pages
        /\ (f.end # UNKNOWN_OFFSET => file_end(s.flash, f.page) <= f.end /\ f.end < f.max_pages)
    BY <1>2, <1>3 DEF GoodSlot
  <1>5. PICK last : last = file_end(s.flash, f.page)
    OBVIOUS
  <1>6. last \in 0 .. f.max_pages - 1
    BY <1>2, <1>3, <1>4, <1>5, FileEnd
  <1>7. PICK end : end = IF f.end = UNKNOWN_OFFSET THEN last ELSE f.end
    OBVIOUS
  <1>8. end \in Nat /\ last <= end /\ end < f.max_pages /\ end # UNKNOWN_OFFSET
    BY <1>3, <1>4, <1>5, <1>6, <1>7 DEF FileType, UNKNOWN_OFFSET
  <1>9. PICK new : new = [f EXCEPT !.end = end, !.references = @ + 1]
    OBVIOUS
  <1>10. new = [page |-> f.page, max_pages |-> f.max_pages, end |-> end,
                references |-> f.references + 1]
    BY <1>3, <1>9 DEF FileType
  <1>11. new \in FileType
    BY <1>3, <1>8, <1>10 DEF FileType
  <1>12. PICK fd : fd = [flags |-> flags, file |-> i,
                         offset |-> IF "APPEND" \in flags THEN end ELSE 0]
    OBVIOUS
  <1>13. fd \in FdType /\ fd.flags = flags /\ fd.file = i /\ fd.offset <= end
    BY <1>8, <1>12 DEF FdType, Flags
  <1>14. PICK t : t = [s EXCEPT !.files[i] = new, !.fds[d] = fd]
    OBVIOUS
  <1>15. r = [s |-> t, fd |-> d]
    <2>1. i # NoSlot
      BY DEF Slots, NoSlot
    <2>2. r = [s |-> [s EXCEPT !.files[i] = new, !.fds[d] = fd], fd |-> d]
      BY <1>2, <1>5, <1>7, <1>9, <1>12, <2>1 DEF Opened
    <2> QED BY <1>14, <2>2
  <1>16. /\ t \in StateType /\ SameFlash(t, s)
         /\ t.files = [s.files EXCEPT ![i] = new] /\ t.fds = [s.fds EXCEPT ![d] = fd]
    <2>1. new \in FileType /\ fd \in FdType
      BY <1>11, <1>13
    <2> QED BY <1>1, <1>14, <2>1, Zenon DEF StateType, SameFlash
  <1>17. /\ t.files[i] = new /\ \A j \in Slots : j # i => t.files[j] = s.files[j]
         /\ t.fds[d] = fd /\ \A e \in Fds : e # d => t.fds[e] = s.fds[e]
    BY <1>1, <1>16 DEF StateType
  <1>18. Users(t, i) = Users(s, i) \cup {d} /\ d \notin Users(s, i)
    BY <1>13, <1>17 DEF Users
  <1>19. \A j : j # i => Users(t, j) = Users(s, j)
    BY <1>13, <1>17 DEF Users
  <1>20. FilesGood(t)
    <2>0. t.flash = s.flash
      BY <1>16 DEF SameFlash
    <2>1. ASSUME NEW j \in Slots PROVE GoodSlot(t.flash, t.files[j])
      <3>1. CASE j = i
        <4>1. GoodSlot(s.flash, new)
          BY <1>2, <1>4, <1>5, <1>8, <1>10 DEF GoodSlot
        <4> QED BY <1>17, <2>0, <3>1, <4>1
      <3>2. CASE j # i
        BY <1>1, <1>17, <2>0, <3>2 DEF FilesGood
      <3> QED BY <3>1, <3>2
    <2>2. ASSUME NEW j \in Slots PROVE t.files[j].references = Cardinality(Users(t, j))
      <3>1. CASE j = i
        <4>1. Cardinality(Users(t, i)) = f.references + 1
          <5>1. PICK W : W = Users(s, i)
            OBVIOUS
          <5>2. IsFiniteSet(W) /\ d \notin W /\ Users(t, i) = W \cup {d}
            BY <1>18, <5>1, UsersFacts
          <5>3. Cardinality(W \cup {d}) = Cardinality(W) + 1
            BY <5>2, FS_AddElement
          <5> QED BY <1>3, <5>1, <5>2, <5>3
        <4> QED BY <1>10, <1>17, <3>1, <4>1
      <3>2. CASE j # i
        BY <1>1, <1>17, <1>19, <3>2 DEF FilesGood
      <3> QED BY <3>1, <3>2
    <2>3. \A j \in Slots : t.files[j].page = s.files[j].page
                           /\ t.files[j].max_pages = s.files[j].max_pages
      BY <1>2, <1>10, <1>17
    <2>4. ASSUME NEW e \in Fds PROVE GoodFd(t, e)
      <3>1. CASE e = d
        BY <1>2, <1>8, <1>10, <1>13, <1>17, <3>1 DEF GoodFd
      <3>2. CASE e # d
        <4>1. GoodFd(s, e) /\ t.fds[e] = s.fds[e]
          BY <1>1, <1>17, <3>2 DEF FilesGood
        <4>2. CASE s.fds[e].flags = {}
          BY <4>1, <4>2 DEF GoodFd
        <4>3. CASE s.fds[e].flags # {}
          <5>1. PICK j \in Slots : j = s.fds[e].file
            BY <4>1, <4>3 DEF GoodFd
          <5>2. s.files[j].max_pages > 0 /\ s.files[j].end # UNKNOWN_OFFSET
                /\ s.fds[e].offset <= s.files[j].end
            BY <4>1, <4>3, <5>1, Zenon DEF GoodFd
          <5>3. t.files[j].end = s.files[j].end
            BY <1>2, <1>7, <1>10, <1>17, <5>2
          <5> QED BY <2>3, <4>1, <4>3, <5>1, <5>2, <5>3 DEF GoodFd
        <4> QED BY <4>2, <4>3
      <3> QED BY <3>1, <3>2
    <2>5. \A j, k \in Slots : /\ t.files[j].max_pages > 0 /\ t.files[k].max_pages > 0
                              /\ t.files[j].page = t.files[k].page
                              => j = k
      BY <1>1, <2>3 DEF FilesGood
    <2> QED BY <2>1, <2>2, <2>4, <2>5 DEF FilesGood
  <1>21. Core(m, t)
    BY <1>1, <1>16, <1>20, BaseSame DEF Core
  <1>22. r.s = t /\ r.fd = d
    BY <1>15
  <1>23. f.end # UNKNOWN_OFFSET => new.end = f.end
    BY <1>7, <1>10
  <1>24. /\ t.files[i].page = f.page /\ t.files[i].max_pages = f.max_pages
         /\ t.fds[d].flags = flags /\ t.fds[d].file = i
    BY <1>10, <1>13, <1>17
  <1>25. f.end # UNKNOWN_OFFSET => t.files[i].end = f.end
    BY <1>17, <1>23
  <1> QED BY <1>2, <1>16, <1>17, <1>21, <1>22, <1>24, <1>25

(* A descriptor is given up. *)
LEMMA CloseFile ==
  ASSUME NEW m, NEW s, Core(m, s), NEW d \in Fds, s.fds[d].flags # {},
         NEW t, t = Close(s, d)
  PROVE  /\ Core(m, t) /\ SameFlash(t, s)
         /\ t.fds[d] = NoFd /\ \A e \in Fds : e # d => t.fds[e] = s.fds[e]
         /\ \A j \in Slots : /\ t.files[j].page = s.files[j].page
                             /\ t.files[j].max_pages = s.files[j].max_pages
                             /\ t.files[j].end = s.files[j].end
  <1>1. s \in StateType /\ Laid(s.flash) /\ Base(m, s) /\ FilesGood(s)
    BY BaseFacts DEF Core
  <1>2. GoodFd(s, d)
    BY <1>1 DEF FilesGood
  <1>3. PICK i \in Slots : i = s.fds[d].file
    BY <1>2 DEF GoodFd
  <1>4. PICK f : f = s.files[i]
    OBVIOUS
  <1>5. /\ f \in FileType /\ f.max_pages > 0 /\ f.references = Cardinality(Users(s, i))
        /\ f.references \in Nat /\ GoodSlot(s.flash, f) /\ d \in Users(s, i)
    BY <1>2, <1>3, <1>4, SlotFacts, Zenon DEF GoodFd, Users
  <1>6. Cardinality(Users(s, i) \ {d}) = f.references - 1
        /\ Cardinality(Users(s, i) \ {d}) \in Nat
    <2>1. IsFiniteSet(Users(s, i))
      BY UsersFacts
    <2>2. /\ IsFiniteSet(Users(s, i) \ {d})
          /\ Cardinality(Users(s, i) \ {d}) = Cardinality(Users(s, i)) - 1
      BY <1>5, <2>1, FS_RemoveElement
    <2> QED BY <1>5, <2>2, FS_CardinalityType
  <1>7. PICK new : new = [f EXCEPT !.references = @ - 1]
    OBVIOUS
  <1>8. new = [page |-> f.page, max_pages |-> f.max_pages, end |-> f.end,
               references |-> f.references - 1]
    BY <1>5, <1>7 DEF FileType
  <1>9. new \in FileType
    BY <1>5, <1>6, <1>8 DEF FileType
  <1>10. NoFd \in FdType /\ NoFd.flags = {}
    BY DEF NoFd, FdType
  <1>11. t = [s EXCEPT !.files[i] = new, !.fds[d] = NoFd]
    BY <1>3, <1>4, <1>7, Zenon DEF Close
  <1>12. /\ t \in StateType /\ SameFlash(t, s)
         /\ t.files = [s.files EXCEPT ![i] = new] /\ t.fds = [s.fds EXCEPT ![d] = NoFd]
    <2>1. PICK fd : fd = NoFd
      OBVIOUS
    <2>2. t = [s EXCEPT !.files[i] = new, !.fds[d] = fd] /\ fd \in FdType
      BY <1>10, <1>11, <2>1
    <2>3. PICK table : table = [s.files EXCEPT ![i] = new]
      OBVIOUS
    <2>4. PICK set : set = [s.fds EXCEPT ![d] = fd]
      OBVIOUS
    <2>5. table \in [Slots -> FileType] /\ set \in [Fds -> FdType]
      BY <1>1, <1>9, <2>2, <2>3, <2>4 DEF StateType
    <2>6. t = [s EXCEPT !.files = table, !.fds = set]
      BY <1>1, <2>2, <2>3, <2>4 DEF StateType
    <2>7. t \in StateType /\ SameFlash(t, s) /\ t.files = table /\ t.fds = set
      BY ONLY <1>1, <2>5, <2>6 DEF StateType, SameFlash
    <2> QED BY <2>1, <2>3, <2>4, <2>7
  <1>13. /\ t.files[i] = new /\ \A j \in Slots : j # i => t.files[j] = s.files[j]
         /\ t.fds[d] = NoFd /\ \A e \in Fds : e # d => t.fds[e] = s.fds[e]
    BY <1>1, <1>12 DEF StateType
  <1>14. Users(t, i) = Users(s, i) \ {d}
    BY <1>10, <1>13 DEF Users
  <1>15. \A j : j # i => Users(t, j) = Users(s, j)
    BY <1>3, <1>10, <1>13 DEF Users
  <1>16. \A j \in Slots : /\ t.files[j].page = s.files[j].page
                          /\ t.files[j].max_pages = s.files[j].max_pages
                          /\ t.files[j].end = s.files[j].end
    BY <1>4, <1>8, <1>13
  <1>17. FilesGood(t)
    <2>0. t.flash = s.flash
      BY <1>12 DEF SameFlash
    <2>1. ASSUME NEW j \in Slots PROVE GoodSlot(t.flash, t.files[j])
      <3>1. CASE j = i
        <4>1. GoodSlot(s.flash, new)
          BY <1>5, <1>8 DEF GoodSlot
        <4> QED BY <1>13, <2>0, <3>1, <4>1
      <3>2. CASE j # i
        BY <1>1, <1>13, <2>0, <3>2 DEF FilesGood
      <3> QED BY <3>1, <3>2
    <2>2. ASSUME NEW j \in Slots PROVE t.files[j].references = Cardinality(Users(t, j))
      <3>1. CASE j = i
        <4>1. t.files[j].references = f.references - 1
          BY <1>8, <1>13, <3>1
        <4>2. Users(t, j) = Users(s, i) \ {d}
          BY <1>14, <3>1
        <4> QED BY <1>6, <4>1, <4>2
      <3>2. CASE j # i
        BY <1>1, <1>13, <1>15, <3>2 DEF FilesGood
      <3> QED BY <3>1, <3>2
    <2>3. ASSUME NEW e \in Fds PROVE GoodFd(t, e)
      <3>1. CASE e = d
        BY <1>10, <1>13, <3>1 DEF GoodFd
      <3>2. CASE e # d
        <4>1. GoodFd(s, e) /\ t.fds[e] = s.fds[e]
          BY <1>1, <1>13, <3>2 DEF FilesGood
        <4> QED BY <1>16, <4>1, Zenon DEF GoodFd
      <3> QED BY <3>1, <3>2
    <2>4. \A j, k \in Slots : /\ t.files[j].max_pages > 0 /\ t.files[k].max_pages > 0
                              /\ t.files[j].page = t.files[k].page
                              => j = k
      BY <1>1, <1>16 DEF FilesGood
    <2> QED BY <2>1, <2>2, <2>3, <2>4 DEF FilesGood
  <1>18. Core(m, t)
    BY <1>1, <1>12, <1>17, BaseSame DEF Core
  <1> QED BY <1>12, <1>13, <1>16, <1>18

LEMMA AvailableFd ==
  ASSUME NEW s, get_available_fd(s) # {}
  PROVE  /\ Min(get_available_fd(s)) \in Fds
         /\ Min(get_available_fd(s)) # NoSlot
         /\ s.fds[Min(get_available_fd(s))].flags = {}
  <1>1. PICK free : free = {d \in Fds : s.fds[d].flags = {}}
    OBVIOUS
  <1>2. get_available_fd(s) = free
    BY <1>1 DEF get_available_fd
  <1>3. \A d \in Fds : d \in Nat /\ d # NoSlot
    BY Sizes0 DEF Fds, NoSlot
  <1>4. free \in SUBSET Nat /\ free # {}
    BY <1>1, <1>2, <1>3
  <1>5. Min(free) \in free
    BY <1>4, LeastElement
  <1> QED BY <1>1, <1>2, <1>3, <1>5

(* The names of the cache are the names of extents. *)
LEMMA CachedName ==
  ASSUME NEW m, NEW s, Core(m, s), NEW i \in Slots, s.files[i].max_pages > 0
  PROVE  /\ s.files[i].page \in Active(s.flash) /\ s.files[i].page \in Pages
         /\ s.flash[s.files[i].page].kind = "active"
         /\ IsHeader(s.flash[s.files[i].page])
         /\ s.flash[s.files[i].page].name \in Names
         /\ s.flash[s.files[i].page].max_pages = s.files[i].max_pages
  <1>1. /\ s.files[i].page \in Active(s.flash)
        /\ s.flash[s.files[i].page].max_pages = s.files[i].max_pages
    BY DEF Core, FilesGood, GoodSlot
  <1>2. /\ s.files[i].page \in Pages /\ IsHeader(s.flash[s.files[i].page])
        /\ s.flash[s.files[i].page].kind = "active"
    BY <1>1 DEF Active, IsHeader
  <1> QED BY <1>1, <1>2, HeaderFacts, BaseFacts, Zenon DEF Core

(* A file is found, or there is none. *)
LEMMA FindAny ==
  ASSUME NEW m, NEW s, Core(m, s), Room(s), NEW n \in Names,
         NEW r, r = find_file(s, n)
  PROVE  /\ Core(m, r.s) /\ SameFlash(r.s, s) /\ r.s.fds = s.fds
         /\ r.slot = NoSlot => /\ r.s = s /\ HasSlot(s)
                               /\ \A p \in Active(s.flash) : s.flash[p].name # n
         /\ r.slot # NoSlot =>
              /\ r.slot \in Slots /\ r.s.files[r.slot].max_pages > 0
              /\ r.s.files[r.slot].page \in Active(s.flash)
              /\ s.flash[r.s.files[r.slot].page].name = n
         /\ \A i \in Slots : s.files[i].max_pages > 0 /\ s.flash[s.files[i].page].name = n
               => r.s = s /\ r.slot # NoSlot
  <1>1. (\A i \in Slots : s.files[i].max_pages > 0 => s.flash[s.files[i].page].name # n)
            => HasSlot(s)
    BY Zenon DEF Room
  <1>2. /\ Core(m, r.s) /\ SameFlash(r.s, s) /\ r.s.fds = s.fds
        /\ r.slot = NoSlot => r.s = s /\ \A p \in Active(s.flash) : s.flash[p].name # n
        /\ r.slot # NoSlot =>
             /\ r.slot \in Slots /\ r.s.files[r.slot].max_pages > 0
             /\ r.s.files[r.slot].page \in Active(s.flash)
             /\ s.flash[r.s.files[r.slot].page].name = n
        /\ \A i \in Slots : s.files[i].max_pages > 0 /\ s.flash[s.files[i].page].name = n
              => r.s = s /\ r.slot # NoSlot
    BY <1>1, FindFile
  <1>3. r.slot = NoSlot => HasSlot(s)
    BY <1>1, <1>2, CachedName, Zenon
  <1> QED BY <1>2, <1>3, Zenon

(* The contents that a call on n may leave when it makes a file. *)
Created(fl, gl, n) ==
    \/ Contents(gl) = Contents(fl)
    \/ /\ Contents(fl)[n] = Absent
       /\ Contents(gl) = [Contents(fl) EXCEPT ![n] = <<>>]

LEMMA ReserveContents ==
  ASSUME NEW m, NEW s, Core(m, s), Unique(s.flash), NEW n \in Names, NEW amount, NEW r,
         ReservedFrom(m, s, n, amount, r), \A p \in Active(s.flash) : s.flash[p].name # n
  PROVE  Unique(r.s.flash) /\ Created(s.flash, r.s.flash, n)
  <1>1. Laid(s.flash) /\ Laid(r.s.flash) /\ Searchable(s.flash) /\ Searchable(r.s.flash)
    BY BaseFacts DEF ReservedFrom, Core
  <1>2. CASE Same(s.flash, r.s.flash)
    BY <1>1, <1>2, SameContents DEF Created
  <1>3. CASE ~Same(s.flash, r.s.flash)
    <2>1. PICK p : Grown(s.flash, r.s.flash, p, n, amount)
      BY <1>3 DEF ReservedFrom
    <2> QED BY <1>1, <2>1, GrownContents DEF Created
  <1> QED BY <1>2, <1>3

LEMMA OpenFile ==
  ASSUME NEW m, NEW s, Core(m, s), Unique(s.flash), Room(s), NoOverhang(s.flash),
         NEW n \in Names, NEW flags \in Flags, flags # {}, NEW r, r = Open(s, n, flags)
  PROVE  /\ Core(m, r.s) /\ Unique(r.s.flash)
         /\ Created(s.flash, r.s.flash, n)
         /\ \A e \in Fds : r.s.fds[e].flags \in {s.fds[e].flags, flags}
  <1>1. CASE get_available_fd(s) = {}
    BY <1>1 DEF Open, Created
  <1>2. CASE get_available_fd(s) # {}
    <2>1. PICK d \in Fds : d = Min(get_available_fd(s)) /\ s.fds[d].flags = {}
      BY <1>2, AvailableFd
    <2>2. PICK found : found = find_file(s, n)
      OBVIOUS
    <2>3. PICK file : file = FoundOrMade(found, n, flags)
      OBVIOUS
    <2>4. r = Opened(file, d, flags)
      BY <1>2, <2>1, <2>2, <2>3 DEF Open
    <2>5. /\ Core(m, found.s) /\ SameFlash(found.s, s) /\ found.s.fds = s.fds
          /\ found.slot = NoSlot => /\ found.s = s /\ HasSlot(s)
                                    /\ \A p \in Active(s.flash) : s.flash[p].name # n
          /\ found.slot # NoSlot => /\ found.slot \in Slots
                                    /\ found.s.files[found.slot].max_pages > 0
      BY <2>2, FindAny
    <2>6. /\ Core(m, file.s) /\ Unique(file.s.flash) /\ file.s.fds = s.fds
          /\ Created(s.flash, file.s.flash, n)
          /\ file.slot # NoSlot => file.slot \in Slots /\ file.s.files[file.slot].max_pages > 0
      <3>1. CASE found.slot # NoSlot \/ flags = {"READ"}
        <4>1. file = found
          BY <2>3, <3>1 DEF FoundOrMade
        <4>2. file.s.flash = s.flash
          BY <2>5, <4>1 DEF SameFlash
        <4> QED BY <2>5, <4>1, <4>2 DEF Created
      <3>2. CASE ~(found.slot # NoSlot \/ flags = {"READ"})
        <4>1. file = reserve(s, n, DYN_PAGES)
          BY <2>3, <2>5, <3>2 DEF FoundOrMade
        <4>2. DYN_PAGES \in Nat /\ DYN_PAGES > 0
          BY Sizes0
        <4>3. ReservedFrom(m, s, n, DYN_PAGES, file)
          BY <2>5, <3>2, <4>1, <4>2, Reserve
        <4>4. Unique(file.s.flash) /\ Created(s.flash, file.s.flash, n)
          BY <2>5, <3>2, <4>3, ReserveContents
        <4>5. file.slot # NoSlot => file.slot \in Slots /\ file.s.files[file.slot].max_pages > 0
          <5> SUFFICES ASSUME file.slot # NoSlot
                       PROVE  file.slot \in Slots /\ file.s.files[file.slot].max_pages > 0
            OBVIOUS
          <5>1. file.slot \in Slots /\ file.s.files[file.slot].max_pages = DYN_PAGES
            <6>1. PICK p : /\ file.slot \in Slots
                           /\ file.s.files[file.slot] =
                                 [page |-> p, max_pages |-> DYN_PAGES, end |-> 0,
                                  references |-> 0]
              BY <4>3 DEF ReservedFrom
            <6> QED BY <6>1
          <5> QED BY <5>1, Sizes0
        <4> QED BY <4>3, <4>4, <4>5 DEF ReservedFrom
      <3> QED BY <3>1, <3>2
    <2>7. CASE file.slot = NoSlot
      <3>1. r.s = file.s
        BY <2>4, <2>7 DEF Opened
      <3> QED BY <2>6, <3>1
    <2>8. CASE file.slot # NoSlot
      <3>1. /\ Core(m, r.s) /\ SameFlash(r.s, file.s)
            /\ r.s.fds[d].flags = flags
            /\ \A e \in Fds : e # d => r.s.fds[e] = file.s.fds[e]
        <4>1. file.s.fds[d].flags = {}
          BY <2>1, <2>6
        <4> QED BY <2>4, <2>6, <2>8, <4>1, OpenedFile
      <3>2. r.s.flash = file.s.flash
        BY <3>1 DEF SameFlash
      <3>3. \A e \in Fds : r.s.fds[e].flags \in {s.fds[e].flags, flags}
        BY <2>6, <3>1
      <3> QED BY <2>6, <3>1, <3>2, <3>3, Zenon
    <2> QED BY <2>7, <2>8
  <1> QED BY <1>1, <1>2

(* Descriptor e has the file of slot i too. *)
OpenedAgain(m, s, d, i, e, t) ==
    /\ e \in Fds \ {d} /\ e # NoSlot /\ s.fds[e].flags = {}
    /\ Core(m, t) /\ SameFlash(t, s) /\ HasSlot(t)
    /\ t.fds[e].flags # {} /\ t.fds[e].file = i
    /\ \A c \in Fds : c # e => t.fds[c] = s.fds[c]
    /\ \A j \in Slots : t.files[j].page = s.files[j].page
                        /\ t.files[j].max_pages = s.files[j].max_pages

(* The file of an open descriptor is opened once more. *)
LEMMA OpenAgain ==
  ASSUME NEW m, NEW s, Core(m, s), Unique(s.flash), Room(s),
         NEW d \in Fds, s.fds[d].flags # {}, NEW i, i = s.fds[d].file,
         NEW r, r = Open(s, s.flash[s.files[i].page].name, {"READ"})
  PROVE  r.fd = NoSlot \/ OpenedAgain(m, s, d, i, r.fd, r.s)
  <1>1. /\ i \in Slots /\ s.files[i].max_pages > 0 /\ s.files[i].end # UNKNOWN_OFFSET
    BY Zenon DEF Core, FilesGood, GoodFd
  <1>2. PICK n \in Names : n = s.flash[s.files[i].page].name
    BY <1>1, CachedName, Zenon
  <1>3. CASE get_available_fd(s) = {}
    BY <1>2, <1>3, Zenon DEF Open
  <1>4. CASE get_available_fd(s) # {}
    <2>1. PICK e \in Fds : /\ e = Min(get_available_fd(s)) /\ s.fds[e].flags = {}
                           /\ e # NoSlot
      BY <1>4, AvailableFd, Zenon
    <2>2. PICK found : found = find_file(s, n)
      BY Zenon
    <2>3. /\ found.slot # NoSlot =>
               /\ found.slot \in Slots /\ found.s.files[found.slot].max_pages > 0
               /\ found.s.files[found.slot].page \in Active(s.flash)
               /\ s.flash[found.s.files[found.slot].page].name = n
          /\ \A j \in Slots : s.files[j].max_pages > 0 /\ s.flash[s.files[j].page].name = n
               => found.s = s /\ found.slot # NoSlot
      BY ONLY Core(m, s), Room(s), n \in Names, <2>2, FindAny
    <2>4. /\ found.slot \in Slots /\ s.files[found.slot].max_pages > 0
          /\ s.files[found.slot].page \in Active(s.flash)
          /\ s.flash[s.files[found.slot].page].name = n
          /\ found.s = s /\ found.slot # NoSlot
      BY <1>1, <1>2, <2>3, Zenon
    <2>5. s.files[found.slot].page = s.files[i].page
      <3>1. s.files[i].page \in Active(s.flash)
        BY <1>1, CachedName, Zenon
      <3> QED BY <1>2, <2>4, <3>1, Zenon DEF Unique
    <2>6. found.slot = i
      BY <1>1, <2>4, <2>5, Zenon DEF Core, FilesGood
    <2>7. r = Opened(found, e, {"READ"})
      BY <1>2, <1>4, <2>1, <2>2, <2>4, Zenon DEF Open, FoundOrMade
    <2>8. {"READ"} \in Flags /\ {"READ"} # {}
      BY Zenon DEF Flags
    <2>9. /\ r.fd = e /\ Core(m, r.s) /\ SameFlash(r.s, s)
          /\ r.s.fds[e].flags = {"READ"} /\ r.s.fds[e].file = i
          /\ \A c \in Fds : c # e => r.s.fds[c] = s.fds[c]
          /\ r.s.files[i].page = s.files[i].page
          /\ r.s.files[i].max_pages = s.files[i].max_pages
          /\ r.s.files[i].end = s.files[i].end
          /\ \A j \in Slots : j # i => r.s.files[j] = s.files[j]
      <3>1. found.s = s /\ found.slot = i
        BY <2>4, <2>6, Zenon
      <3>2. PICK flags \in Flags : flags = {"READ"} /\ flags # {}
        BY <2>8, Zenon
      <3>3. s.fds[e].flags = {} /\ s.files[i].max_pages > 0 /\ i \in Slots
        BY <1>1, <2>1, Zenon
      <3>4. r = Opened(found, e, flags)
        BY <2>7, <3>2, Zenon
      <3>5. /\ r.fd = e /\ Core(m, r.s) /\ SameFlash(r.s, s)
            /\ r.s.fds[e].flags = flags /\ r.s.fds[e].file = i
            /\ \A c \in Fds : c # e => r.s.fds[c] = s.fds[c]
            /\ r.s.files[i].page = s.files[i].page
            /\ r.s.files[i].max_pages = s.files[i].max_pages
            /\ s.files[i].end # UNKNOWN_OFFSET => r.s.files[i].end = s.files[i].end
            /\ \A j \in Slots : j # i => r.s.files[j] = s.files[j]
        <4>1. flags # {}
          BY <3>2, Zenon
        <4>2. found.s = s /\ found.slot = i
          BY <3>1, Zenon
        <4> QED BY ONLY Core(m, s), e \in Fds, flags \in Flags, <3>3, <3>4, <4>1, <4>2, OpenedFile
      <3> QED BY <1>1, <3>2, <3>5, Zenon
    <2>10. \A j \in Slots : r.s.files[j].page = s.files[j].page
                            /\ r.s.files[j].max_pages = s.files[j].max_pages
      BY <2>9, Zenon
    <2>11. e # d
      BY <2>1, Zenon
    <2>12. HasSlot(r.s)
      <3>1. PICK j \in Slots : s.files[j].references = 0
        BY <1>4, Zenon DEF Room, HasSlot
      <3>2. j # i
        <4>1. d \in Users(s, i)
          BY Zenon DEF Users
        <4> QED BY <1>1, <3>1, <4>1, SlotFacts
      <3>3. r.s.files[j] = s.files[j]
        BY <2>9, <3>1, <3>2, Zenon
      <3> QED BY <3>1, <3>3, Zenon DEF HasSlot
    <2> QED BY <2>1, <2>8, <2>9, <2>10, <2>11, <2>12, Zenon DEF OpenedAgain
  <1> QED BY <1>3, <1>4, Zenon

-----------------------------------------------------------------------------
(* Moving a file to a larger extent *)

(* The first k blocks of the extent at old are copied to the one at page. *)
Copied(m, s, old, page, k, t) ==
    /\ Base(m, t) /\ SameBut(t, s)
    /\ \A q \in Pages : ~(page < q /\ q <= page + k) => t.flash[q] = s.flash[q]
    /\ \A j \in 1 .. k : t.flash[page + j] = s.flash[old + j]

LEMMA CopyBlock ==
  ASSUME NEW m, NEW s, Base(m, s), NEW old \in Pages, NEW page \in Pages, old # page,
         IsHeader(s.flash[old]), IsHeader(s.flash[page]),
         s.flash[old].max_pages <= s.flash[page].max_pages,
         NEW k \in Nat, k > 0, k < s.flash[old].max_pages,
         NEW t, Copied(m, s, old, page, k - 1, t)
  PROVE  Copied(m, s, old, page, k, Put(t, Program(page + k, t.flash[old + k])))
  <1>1. PICK fl : fl = s.flash
    OBVIOUS
  <1>2. Laid(fl) /\ fl \in Media
    BY <1>1, BaseFacts
  <1>3. /\ old \in Nat /\ page \in Nat
        /\ fl[old].max_pages \in Nat /\ fl[page].max_pages \in Nat
        /\ IsHeader(fl[old]) /\ IsHeader(fl[page])
        /\ fl[old].max_pages <= fl[page].max_pages
    BY <1>1, <1>2, HeaderFacts
  <1>4. k \in 1 .. fl[old].max_pages - 1 /\ k \in 1 .. fl[page].max_pages - 1
    BY <1>1, <1>3
  <1>5. /\ old + k \in Pages /\ ~IsHeader(fl[old + k])
        /\ fl[old + k].kind = "free" => fl[old + k] = Free
    BY <1>2, <1>3, <1>4, CoveredPage
  <1>6. ASSUME NEW j \in 1 .. k PROVE ~(page < old + j /\ old + j <= page + k)
    <2>1. CASE old < page
      <3>1. old + fl[old].max_pages <= page
        BY <1>2, <1>3, <2>1, HeadersApart
      <3> QED BY <1>3, <1>4, <3>1
    <2>2. CASE page < old
      <3>1. page + fl[page].max_pages <= old
        BY <1>2, <1>3, <2>2, HeadersApart
      <3> QED BY <1>3, <1>4, <3>1
    <2> QED BY <1>3, <2>1, <2>2
  <1>7. /\ Base(m, t) /\ SameBut(t, s)
        /\ \A q \in Pages : ~(page < q /\ q <= page + (k - 1)) => t.flash[q] = fl[q]
        /\ \A j \in 1 .. k - 1 : t.flash[page + j] = fl[old + j]
    BY <1>1 DEF Copied
  <1>8. t.flash[page] = fl[page]
    <2>1. ~(page < page)
      BY <1>3
    <2> QED BY <1>7, <2>1
  <1>9. t.flash[old + k] = fl[old + k]
    <2>1. ~(page < old + k /\ old + k <= page + (k - 1))
      <3>1. ~(page < old + k /\ old + k <= page + k)
        BY <1>6
      <3> QED BY <1>3, <3>1
    <2> QED BY <1>5, <1>7, <2>1
  <1>10. PICK block : block = fl[old + k]
    OBVIOUS
  <1>11. block \in PageType /\ ~IsHeader(block) /\ (block.kind = "free" => block = Free)
    BY <1>2, <1>5, <1>10, MediumPage
  <1>12. PICK u : u = Put(t, Program(page + k, t.flash[old + k]))
    OBVIOUS
  <1>13. /\ Base(m, u) /\ SameBut(u, t)
         /\ \A q \in Pages : q # page + k => u.flash[q] = t.flash[q]
         /\ u.flash[page + k] = block
    <2>1. u = Put(t, Program(page + k, block))
      BY <1>9, <1>10, <1>12
    <2>2. IsHeader(t.flash[page]) /\ k \in 1 .. t.flash[page].max_pages - 1
      BY <1>3, <1>4, <1>8
    <2>3. Base(m, t)
      BY <1>7
    <2> QED BY ONLY page \in Pages, <1>11, <2>1, <2>2, <2>3, PutData
  <1>14. SameBut(u, s)
    BY <1>7, <1>13 DEF SameBut
  <1>15. ASSUME NEW q \in Pages, ~(page < q /\ q <= page + k) PROVE u.flash[q] = fl[q]
    <2>1. q \in Nat
      BY PageFacts
    <2>2. q # page + k /\ ~(page < q /\ q <= page + (k - 1))
      BY <1>3, <1>15, <2>1
    <2> QED BY <1>7, <1>13, <2>2
  <1>16. ASSUME NEW j \in 1 .. k PROVE u.flash[page + j] = fl[old + j]
    <2>1. CASE j = k
      BY <1>10, <1>13, <2>1
    <2>2. CASE j # k
      <3>1. j \in 1 .. k - 1 /\ page + j # page + k
        BY <1>3, <2>2
      <3>2. page + j \in Pages
        <4>1. j \in 1 .. fl[page].max_pages - 1
          BY <1>3, <1>4
        <4> QED BY <1>2, <1>3, <4>1, CoveredPage
      <3> QED BY <1>7, <1>13, <3>1, <3>2
    <2> QED BY <2>1, <2>2
  <1> QED BY <1>1, <1>12, <1>13, <1>14, <1>15, <1>16 DEF Copied

(* The descriptors of the extent at old *)
Followers(s, old) == {e \in Fds : s.fds[e].flags # {} /\ s.files[s.fds[e].file].page = old}

(* The descriptors in F follow the file to the slot. *)
Followed(c, slot, F) ==
    [c EXCEPT !.fds = [e \in Fds |-> IF e \in F THEN [@[e] EXCEPT !.file = slot] ELSE @[e]],
              !.files[slot].references = @ + Cardinality(F)]

LEMMA CopyAll ==
  ASSUME NEW m, NEW s, Base(m, s), NEW old \in Pages, NEW page \in Pages, old # page,
         IsHeader(s.flash[old]), IsHeader(s.flash[page]),
         s.flash[old].max_pages <= s.flash[page].max_pages,
         NEW length \in Nat, length < s.flash[old].max_pages,
         NEW slot, page = s.files[slot].page
  PROVE  \E c : /\ Copied(m, s, old, page, length, c)
                /\ Moved(s, old, slot, length) = Followed(c, slot, Followers(s, old))
  <1> DEFINE copy(t, k) == Put(t, Program(s.files[slot].page + k, t.flash[old + k]))
             F == {e \in Fds : /\ s.fds[e].flags # {}
                               /\ s.files[s.fds[e].file].page = old}
             Eq(n, f) == f = [k \in 0 .. n |-> IF k = 0 THEN s ELSE copy(f[k - 1], k)]
             Result(c) ==
                 [c EXCEPT
                    !.fds = [e \in Fds |-> IF e \in F
                                           THEN [@[e] EXCEPT !.file = slot] ELSE @[e]],
                    !.files[slot].references = @ + Cardinality(F)]
  <1>4. Moved(s, old, slot, length) = Result((CHOOSE f : Eq(length, f))[length])
    BY DEF Moved
  <1>2. \A c : Result(c) = Followed(c, slot, Followers(s, old))
    BY DEF Followed, Followers
  <1> HIDE DEF copy, Result, F
  <1>5. PICK T : T = {n \in Nat : \E f : Eq(n, f)}
    OBVIOUS
  <1>6. 0 \in T
    <2>1. PICK f : f = [x \in 0 .. 0 |-> s]
      OBVIOUS
    <2>2. \A x \in 0 .. 0 : x = 0
      OBVIOUS
    <2>3. Eq(0, f)
      BY <2>1, <2>2
    <2> QED BY <1>5, <2>3
  <1>7. ASSUME NEW n \in Nat, n \in T PROVE n + 1 \in T
    <2>1. PICK f : Eq(n, f)
      BY <1>5, <1>7
    <2>2. PICK g : g = [x \in 0 .. n + 1 |-> IF x = n + 1 THEN copy(f[n], n + 1) ELSE f[x]]
      OBVIOUS
    <2>3. ASSUME NEW x \in 0 .. n + 1
          PROVE  g[x] = IF x = 0 THEN s ELSE copy(g[x - 1], x)
      <3>1. CASE x = n + 1
        <4>1. x # 0 /\ x - 1 = n /\ n \in 0 .. n + 1 /\ n # n + 1
          BY <3>1
        <4>2. g[x] = copy(f[n], n + 1) /\ g[n] = f[n]
          BY <2>2, <3>1, <4>1
        <4> QED BY <3>1, <4>1, <4>2
      <3>2. CASE x # n + 1
        <4>1. x \in 0 .. n /\ g[x] = f[x]
          BY <2>2, <3>2
        <4>2. f[x] = IF x = 0 THEN s ELSE copy(f[x - 1], x)
          BY <2>1, <4>1
        <4>3. CASE x = 0
          BY <4>1, <4>2, <4>3
        <4>4. CASE x # 0
          <5>1. x - 1 \in 0 .. n + 1 /\ x - 1 # n + 1
            BY <4>1, <4>4
          <5>2. g[x - 1] = f[x - 1]
            BY <2>2, <5>1
          <5> QED BY <4>1, <4>2, <4>4, <5>2
        <4> QED BY <4>3, <4>4
      <3> QED BY <3>1, <3>2
    <2>4. g = [x \in 0 .. n + 1 |-> g[x]]
      BY <2>2
    <2>5. Eq(n + 1, g)
      BY <2>3, <2>4, Zenon
    <2> QED BY <1>5, <2>5
  <1>8. length \in T
    BY <1>5, <1>6, <1>7, SetInduction, Zenon
  <1>9. PICK f : Eq(length, f) /\ Moved(s, old, slot, length) = Result(f[length])
    <2>1. \E f : Eq(length, f)
      BY <1>5, <1>8, Zenon
    <2>2. Eq(length, CHOOSE f : Eq(length, f))
      BY <2>1, Zenon
    <2> QED BY <1>4, <2>2, Zenon
  <1>10. f[0] = s
    <2>1. 0 \in 0 .. length
      OBVIOUS
    <2> QED BY <1>9, <2>1
  <1>11. \A x \in 1 .. length : f[x] = copy(f[x - 1], x)
    <2> SUFFICES ASSUME NEW x \in 1 .. length PROVE f[x] = copy(f[x - 1], x)
      OBVIOUS
    <2>1. x \in 0 .. length /\ x # 0
      OBVIOUS
    <2> QED BY <1>9, <2>1
  <1>12. PICK V : V = {x \in 0 .. length : Copied(m, s, old, page, x, f[x])}
    OBVIOUS
  <1>13. 0 \in V
    <2>1. SameBut(s, s)
      BY DEF SameBut
    <2>2. \A j \in 1 .. 0 : FALSE
      OBVIOUS
    <2>3. Copied(m, s, old, page, 0, s)
      BY <2>1, <2>2 DEF Copied
    <2> QED BY <1>10, <1>12, <2>3
  <1>14. ASSUME NEW x \in 1 .. length, x - 1 \in V PROVE x \in V
    <2>1. x \in Nat /\ x > 0 /\ x < s.flash[old].max_pages /\ x \in 0 .. length
      <3>1. s.flash[old].max_pages \in Nat
        BY BaseFacts, HeaderFacts, Zenon
      <3> QED BY <3>1
    <2>2. Copied(m, s, old, page, x - 1, f[x - 1])
      BY <1>12, <1>14
    <2>3. Copied(m, s, old, page, x, copy(f[x - 1], x))
      BY <2>1, <2>2, CopyBlock, Zenon DEF copy
    <2> QED BY <1>11, <1>12, <2>1, <2>3
  <1>15. 0 .. length \subseteq V
    BY <1>13, <1>14, WalkInduction
  <1>16. Copied(m, s, old, page, length, f[length])
    BY <1>12, <1>15
  <1>17. Moved(s, old, slot, length) = Result(f[length])
    BY <1>9
  <1> QED BY <1>2, <1>16, <1>17

-----------------------------------------------------------------------------
(* Removing a file *)

(* An extent whose pages are the same on two media *)
SameExtent(fl, gl, p) == \A k \in 0 .. fl[p].max_pages - 1 : gl[p + k] = fl[p + k]

LEMMA ExtentSame ==
  ASSUME NEW fl, Laid(fl), NEW gl, NEW p \in Active(fl), SameExtent(fl, gl, p)
  PROVE  /\ gl[p] = fl[p] /\ p \in Active(gl)
         /\ file_end(gl, p) = file_end(fl, p)
         /\ DataOf(gl, p) = DataOf(fl, p)
  <1>1. /\ p \in Pages /\ fl[p].kind = "active" /\ IsHeader(fl[p])
        /\ p \in Nat /\ fl[p].max_pages \in Nat /\ fl[p].max_pages > 0
    <2>1. p \in Pages /\ fl[p].kind = "active" /\ IsHeader(fl[p])
      BY DEF Active, IsHeader
    <2> QED BY <2>1, HeaderFacts
  <1>2. \A k \in 0 .. fl[p].max_pages - 1 : gl[p + k] = fl[p + k]
    BY DEF SameExtent
  <1>3. gl[p] = fl[p]
    <2>1. gl[p + 0] = fl[p + 0] /\ p + 0 = p
      BY <1>1, <1>2
    <2> QED BY <2>1
  <1>4. \A k \in 1 .. fl[p].max_pages - 1 : gl[p + k] = fl[p + k]
    BY <1>1, <1>2
  <1>5. \A k \in fl[p].max_pages .. gl[p].max_pages - 1 : gl[p + k] = Free
    BY <1>1, <1>3
  <1>6. gl[p].max_pages \in Nat /\ fl[p].max_pages <= gl[p].max_pages
    BY <1>1, <1>3
  <1>7. p \in Active(gl)
    BY <1>1, <1>3 DEF Active
  <1>8. file_end(gl, p) = file_end(fl, p) /\ DataOf(gl, p) = DataOf(fl, p)
    BY <1>1, <1>4, <1>5, <1>6, SameFile
  <1> QED BY <1>3, <1>7, <1>8

(* A page of one extent is in no other. *)
LEMMA PagesApart ==
  ASSUME NEW fl, Laid(fl), NEW p \in Pages, NEW q \in Pages, IsHeader(fl[p]), IsHeader(fl[q]),
         p # q, NEW k \in 0 .. fl[q].max_pages - 1
  PROVE  q + k \in Pages /\ ~(p <= q + k /\ q + k < p + fl[p].max_pages)
  <1>1. /\ p \in Nat /\ q \in Nat /\ fl[p].max_pages \in Nat /\ fl[q].max_pages \in Nat
        /\ q + k \in Pages
    BY HeaderFacts
  <1>2. CASE p < q
    <2>1. p + fl[p].max_pages <= q
      BY <1>2, HeadersApart
    <2> QED BY <1>1, <2>1
  <1>3. CASE q < p
    <2>1. q + fl[q].max_pages <= p
      BY <1>3, HeadersApart
    <2> QED BY <1>1, <2>1
  <1> QED BY <1>1, <1>2, <1>3

LEMMA ActiveFacts ==
  ASSUME NEW fl, Laid(fl), NEW p \in Active(fl)
  PROVE  /\ p \in Pages /\ p \in Nat /\ IsHeader(fl[p]) /\ fl[p].kind = "active"
         /\ fl[p].max_pages \in Nat /\ fl[p].max_pages > 0
         /\ fl[p].name \in Names
  <1>1. p \in Pages /\ IsHeader(fl[p]) /\ fl[p].kind = "active"
    BY DEF Active, IsHeader
  <1> QED BY <1>1, HeaderFacts

(* The state after remove_by_page; X are the descriptors that are closed. *)
Removed(s, page, X) ==
    [Outdated(s, page)
       EXCEPT !.fds = [d \in Fds |-> IF d \in X THEN NoFd ELSE s.fds[d]],
              !.files = [i \in Slots |-> IF s.files[i].page = page THEN NoFile
                                         ELSE s.files[i]]]

(* Slots and descriptors of the extent are cleared. *)
Cleared(s, page, X, t) ==
    /\ \A i \in Slots : s.files[i].page = page => t.files[i] = NoFile
    /\ \A i \in Slots : s.files[i].page # page => t.files[i] = s.files[i]
    /\ \A d \in Fds : d \in X => t.fds[d] = NoFd
    /\ \A d \in Fds : d \notin X => t.fds[d] = s.fds[d]

LEMMA RemovePage ==
  ASSUME NEW m, NEW s, Base(m, s), NEW page \in Active(s.flash), NEW X,
         NEW t, t = Removed(s, page, X)
  PROVE  /\ Base(m, t) /\ Cleared(s, page, X, t)
         /\ Active(t.flash) = Active(s.flash) \ {page}
         /\ t.flash[page].kind = "obsolete"
         /\ \A q \in Pages : q # page => t.flash[q] = s.flash[q]
         /\ \A q \in Active(s.flash) : q # page => SameExtent(s.flash, t.flash, q)
  <1>1. /\ Laid(s.flash) /\ s \in StateType /\ page \in Pages /\ IsHeader(s.flash[page])
        /\ s.files \in [Slots -> FileType] /\ s.fds \in [Fds -> FdType]
    BY BaseFacts, ActiveFacts
  <1>2. PICK u : u = Outdated(s, page)
    OBVIOUS
  <1>3. /\ Base(m, u)
        /\ u.files = s.files /\ u.fds = s.fds
        /\ u.flash[page].kind = "obsolete"
        /\ \A q \in Pages : q # page => u.flash[q] = s.flash[q]
    BY <1>1, <1>2, PutObsolete
  <1>4. PICK table : table = [i \in Slots |-> IF s.files[i].page = page
                                              THEN NoFile ELSE s.files[i]]
    OBVIOUS
  <1>5. PICK set : set = [d \in Fds |-> IF d \in X THEN NoFd ELSE s.fds[d]]
    OBVIOUS
  <1>6. NoFile \in FileType /\ NoFd \in FdType
    BY Sizes0, PageFacts DEF NoFile, NoFd, FileType, FdType
  <1>7. table \in [Slots -> FileType] /\ set \in [Fds -> FdType]
    BY <1>1, <1>4, <1>5, <1>6
  <1>8. t = [u EXCEPT !.fds = set, !.files = table]
    BY <1>2, <1>4, <1>5 DEF Removed
  <1>9. u \in StateType
    BY <1>3, BaseFacts
  <1>10. t \in StateType /\ SameFlash(t, u) /\ t.files = table /\ t.fds = set
    BY <1>7, <1>8, <1>9, Zenon DEF StateType, SameFlash
  <1>11. Base(m, t) /\ t.flash = u.flash
    BY <1>3, <1>10, BaseSame DEF SameFlash
  <1>12. Active(t.flash) = Active(s.flash) \ {page}
    BY <1>3, <1>11 DEF Active
  <1>13. ASSUME NEW q \in Active(s.flash), q # page PROVE SameExtent(s.flash, t.flash, q)
    <2> SUFFICES ASSUME NEW k \in 0 .. s.flash[q].max_pages - 1
                 PROVE  t.flash[q + k] = s.flash[q + k]
      BY DEF SameExtent
    <2>1. q \in Pages /\ IsHeader(s.flash[q])
      BY <1>1, ActiveFacts
    <2>2. q + k \in Pages /\ ~(page <= q + k /\ q + k < page + s.flash[page].max_pages)
      BY <1>1, <1>13, <2>1, PagesApart
    <2>3. q + k # page
      <3>1. page <= page /\ page < page + s.flash[page].max_pages
        BY <1>1, HeaderFacts
      <3> QED BY <2>2, <3>1
    <2> QED BY <1>3, <1>11, <2>2, <2>3
  <1>15. /\ \A i \in Slots : s.files[i].page = page => t.files[i] = NoFile
         /\ \A i \in Slots : s.files[i].page # page => t.files[i] = s.files[i]
    BY <1>4, <1>10
  <1>16. /\ \A d \in Fds : d \in X => t.fds[d] = NoFd
         /\ \A d \in Fds : d \notin X => t.fds[d] = s.fds[d]
    BY <1>5, <1>10
  <1>17. Cleared(s, page, X, t)
    BY <1>15, <1>16 DEF Cleared
  <1> QED BY <1>3, <1>11, <1>12, <1>13, <1>17

(* The descriptors of the extent at page *)
UsersOf(s, page) ==
    {d \in Fds : s.fds[d].file # NoSlot /\ s.files[s.fds[d].file].page = page}

(* remove_by_page closes the descriptors of the file or none. *)
LEMMA RemoveIs ==
  ASSUME NEW s, NEW page
  PROVE  /\ remove_by_page(s, page, FALSE) = Removed(s, page, {})
         /\ remove_by_page(s, page, TRUE) = Removed(s, page, UsersOf(s, page))
  <1>1. \A i \in Slots : i # NoSlot
    BY DEF Slots, NoSlot
  <1>2. PICK u : u = Put(s, Program(page, Header("obsolete", s.flash[page].name,
                                                 s.flash[page].max_pages)))
    OBVIOUS
  <1>3. PICK table : table = [i \in Slots |-> IF s.files[i].page = page
                                              THEN NoFile ELSE s.files[i]]
    OBVIOUS
  <1>4. table = [i \in Slots |-> IF i # NoSlot /\ s.files[i].page = page
                                 THEN NoFile ELSE s.files[i]]
    BY <1>1, <1>3
  <1>5. remove_by_page(s, page, FALSE) =
            [u EXCEPT !.gc_wait = FALSE, !.fds = [d \in Fds |-> s.fds[d]], !.files = table]
    BY <1>2, <1>4 DEF remove_by_page, write_header
  <1>6. PICK X : X = UsersOf(s, page)
    OBVIOUS
  <1>7. PICK set : set = [d \in Fds |-> IF d \in X THEN NoFd ELSE s.fds[d]]
    OBVIOUS
  <1>8. set = [d \in Fds |-> IF s.fds[d].file # NoSlot /\ s.files[s.fds[d].file].page = page
                             THEN NoFd ELSE s.fds[d]]
    BY <1>6, <1>7 DEF UsersOf
  <1>9. remove_by_page(s, page, TRUE) =
            [u EXCEPT !.gc_wait = FALSE, !.fds = set, !.files = table]
    BY <1>2, <1>4, <1>8 DEF remove_by_page, write_header
  <1>10. Removed(s, page, X) = [u EXCEPT !.gc_wait = FALSE, !.fds = set, !.files = table]
    BY <1>2, <1>3, <1>7 DEF Removed, Outdated
  <1>11. Removed(s, page, {}) = [u EXCEPT !.gc_wait = FALSE, !.fds = [d \in Fds |-> s.fds[d]],
                                         !.files = table]
    BY <1>2, <1>3 DEF Removed, Outdated
  <1> QED BY <1>5, <1>6, <1>9, <1>10, <1>11

(* The name of an extent that becomes obsolete loses its file. *)
LEMMA RemovedContents ==
  ASSUME NEW fl, Laid(fl), Searchable(fl), Unique(fl), NEW gl, Laid(gl), Searchable(gl),
         NEW p \in Active(fl),
         Active(gl) = Active(fl) \ {p},
         \A q \in Active(fl) : q # p => SameExtent(fl, gl, q)
  PROVE  /\ Unique(gl)
         /\ Contents(fl)[fl[p].name] = DataOf(fl, p)
         /\ Contents(gl) = [Contents(fl) EXCEPT ![fl[p].name] = Absent]
  <1>1. \A q \in Active(fl) : q # p =>
           gl[q] = fl[q] /\ q \in Active(gl) /\ DataOf(gl, q) = DataOf(fl, q)
    BY ExtentSame
  <1>2. PICK n \in Names : n = fl[p].name
    BY ActiveFacts
  <1>3. Unique(gl)
    BY <1>1 DEF Unique
  <1>4. ASSUME NEW o \in Names, o # n PROVE Contents(gl)[o] = Contents(fl)[o]
    <2>1. \A q \in Active(fl) : fl[q].name = o =>
             \E r \in Active(gl) : gl[r].name = o /\ DataOf(gl, r) = DataOf(fl, q)
      BY <1>1, <1>2, <1>4
    <2>2. \A r \in Active(gl) : gl[r].name = o => \E q \in Active(fl) : fl[q].name = o
      BY <1>1
    <2> QED BY <1>3, <2>1, <2>2, ContentsAt
  <1>5. Contents(gl)[n] = Absent
    <2>1. \A q \in Active(gl) : gl[q].name # n
      <3> SUFFICES ASSUME NEW q \in Active(gl), gl[q].name = n PROVE FALSE
        OBVIOUS
      <3>1. q \in Active(fl) /\ q # p /\ fl[q].name = n
        BY <1>1
      <3> QED BY <1>2, <3>1 DEF Unique
    <2> QED BY <1>3, <2>1, ContentsFacts
  <1>6. Contents(fl)[n] = DataOf(fl, p)
    BY <1>2, ContentsFacts
  <1>7. Contents(fl) = [o \in Names |-> Contents(fl)[o]]
        /\ Contents(gl) = [o \in Names |-> Contents(gl)[o]]
    BY <1>3, ContentsFacts
  <1>8. PICK c, d : c = Contents(fl) /\ d = Contents(gl)
    OBVIOUS
  <1>9. d = [c EXCEPT ![n] = Absent]
    BY <1>4, <1>5, <1>7, <1>8
  <1> QED BY <1>2, <1>3, <1>6, <1>8, <1>9

(* The data of an extent is a sequence of blocks, never the absence of it. *)
LEMMA DataPresent ==
  ASSUME NEW fl, Laid(fl), NEW p \in Active(fl)
  PROVE  DataOf(fl, p) \in Seq(Values \cup {Zero}) /\ DataOf(fl, p) # Absent
  <1>1. /\ p \in Pages /\ IsHeader(fl[p]) /\ fl[p].max_pages \in Nat /\ fl[p].max_pages > 0
        /\ fl \in Media
    BY ActiveFacts DEF Laid
  <1>2. file_end(fl, p) \in 0 .. fl[p].max_pages - 1
    BY <1>1, FileEnd
  <1>3. PICK e \in Nat : e = file_end(fl, p) /\ e <= fl[p].max_pages - 1
    BY <1>1, <1>2
  <1>4. ASSUME NEW k \in 1 .. e PROVE fl[p + k].value \in Values \cup {Zero}
    <2>1. k \in 1 .. fl[p].max_pages - 1
      BY <1>1, <1>3
    <2>2. p + k \in Pages
      BY <1>1, <2>1, CoveredPage
    <2> QED BY <1>1, <2>2, MediumPage
  <1>5. DataOf(fl, p) = [k \in 1 .. e |-> fl[p + k].value]
    BY <1>3 DEF DataOf
  <1>6. DataOf(fl, p) \in Seq(Values \cup {Zero})
    BY <1>3, <1>4, <1>5
  <1> QED BY <1>6, CoffeeAssumption DEF CoffeeAssumption

(* Of the slots, one caches an extent. *)
LEMMA OneSlot ==
  ASSUME NEW m, NEW s, Core(m, s), NEW i \in Slots, s.files[i].max_pages > 0
  PROVE  /\ \A j \in Slots : s.files[j].page = s.files[i].page <=> j = i
         /\ \A d \in Fds : /\ s.fds[d].file # NoSlot
                           /\ s.files[s.fds[d].file].page = s.files[i].page
                           <=> d \in Users(s, i)
  <1>1. s.files[i].page \in Pages
    BY CachedName
  <1>2. ASSUME NEW j \in Slots, s.files[j].page = s.files[i].page PROVE j = i
    <2>1. CASE s.files[j].max_pages = 0
      <3>1. s.files[j].page = INVALID_PAGE
        BY <2>1 DEF Core, FilesGood, GoodSlot, NoFile
      <3>2. INVALID_PAGE \notin Pages
        BY PageFacts DEF INVALID_PAGE
      <3> QED BY <1>1, <1>2, <3>1, <3>2
    <2>2. CASE s.files[j].max_pages # 0
      <3>1. s.files[j].max_pages > 0
        BY <2>2, SlotFacts
      <3> QED BY <1>2, <3>1 DEF Core, FilesGood
    <2> QED BY <2>1, <2>2
  <1>3. ASSUME NEW d \in Fds
        PROVE  /\ s.fds[d].file # NoSlot
               /\ s.files[s.fds[d].file].page = s.files[i].page
               <=> d \in Users(s, i)
    <2>1. GoodFd(s, d)
      BY DEF Core, FilesGood
    <2>2. CASE s.fds[d].flags = {}
      <3>1. s.fds[d].file = NoSlot
        BY <2>1, <2>2 DEF GoodFd, NoFd
      <3> QED BY <2>2, <3>1 DEF Users
    <2>3. CASE s.fds[d].flags # {}
      <3>1. s.fds[d].file \in Slots /\ s.fds[d].file # NoSlot
        BY <2>1, <2>3 DEF GoodFd, Slots, NoSlot
      <3> QED BY <1>2, <2>3, <3>1 DEF Users
    <2> QED BY <2>2, <2>3
  <1> QED BY <1>2, <1>3

LEMMA NoFileFacts ==
  /\ NoFile.max_pages = 0 /\ NoFile.references = 0
  /\ NoFd.flags = {}
  /\ \A fl : GoodSlot(fl, NoFile)
  BY DEF NoFile, NoFd, GoodSlot

(* The file of n is gone, and no other. *)
Deleted(fl, gl, n) ==
    /\ Contents(fl)[n] # Absent
    /\ Contents(gl) = [Contents(fl) EXCEPT ![n] = Absent]

(* cfs_remove: the file is gone from the medium, the cache and the set. *)
LEMMA RemoveFile ==
  ASSUME NEW m, NEW s, Core(m, s), Unique(s.flash), NEW i \in Slots, s.files[i].max_pages > 0,
         NEW page, page = s.files[i].page, NEW t, t = Removed(s, page, UsersOf(s, page))
  PROVE  /\ Core(m, t) /\ Unique(t.flash)
         /\ Deleted(s.flash, t.flash, s.flash[page].name)
         /\ \A d \in Fds : t.fds[d].flags \in {s.fds[d].flags, {}}
  <1>1. /\ Base(m, s) /\ Laid(s.flash) /\ Searchable(s.flash)
        /\ page \in Active(s.flash) /\ FilesGood(s)
    BY CachedName, BaseFacts, Zenon DEF Core
  <1>2. PICK X : X = UsersOf(s, page)
    OBVIOUS
  <1>3. /\ Base(m, t) /\ Cleared(s, page, X, t)
        /\ Active(t.flash) = Active(s.flash) \ {page}
        /\ \A q \in Active(s.flash) : q # page => SameExtent(s.flash, t.flash, q)
    <2>1. t = Removed(s, page, X)
      BY <1>2
    <2>2. Base(m, s) /\ page \in Active(s.flash)
      BY <1>1
    <2> QED BY ONLY <2>1, <2>2, RemovePage
  <1>4. /\ t.files[i] = NoFile /\ \A j \in Slots : j # i => t.files[j] = s.files[j]
        /\ \A d \in Users(s, i) : t.fds[d] = NoFd
        /\ \A d \in Fds : d \notin Users(s, i) => t.fds[d] = s.fds[d]
    <2>1. /\ \A j \in Slots : s.files[j].page = page <=> j = i
          /\ \A d \in Fds : s.fds[d].file # NoSlot /\ s.files[s.fds[d].file].page = page
                            <=> d \in Users(s, i)
      BY OneSlot
    <2>2. X = Users(s, i)
      BY <1>2, <2>1, Zenon DEF Users, UsersOf
    <2>3. \A d \in Users(s, i) : d \in Fds
      BY DEF Users
    <2> QED BY <1>3, <2>1, <2>2, <2>3, Zenon DEF Cleared
  <1>5. Laid(t.flash) /\ Searchable(t.flash)
    BY <1>3, BaseFacts
  <1>6. PICK n : n = s.flash[page].name
    OBVIOUS
  <1>7. /\ Unique(t.flash) /\ Contents(s.flash)[n] = DataOf(s.flash, page)
        /\ Contents(t.flash) = [Contents(s.flash) EXCEPT ![n] = Absent]
    <2>1. PICK fl, gl : fl = s.flash /\ gl = t.flash
      OBVIOUS
    <2>2. /\ Unique(gl) /\ Contents(fl)[fl[page].name] = DataOf(fl, page)
          /\ Contents(gl) = [Contents(fl) EXCEPT ![fl[page].name] = Absent]
      <3>1. /\ Laid(fl) /\ Searchable(fl) /\ Unique(fl) /\ Laid(gl) /\ Searchable(gl)
            /\ page \in Active(fl)
            /\ Active(gl) = Active(fl) \ {page}
            /\ \A q \in Active(fl) : q # page => SameExtent(fl, gl, q)
        BY <1>1, <1>3, <1>5, <2>1, Zenon
      <3> QED BY ONLY <3>1, RemovedContents
    <2> QED BY <1>6, <2>1, <2>2, Zenon
  <1>8. Contents(s.flash)[n] # Absent
    BY <1>1, <1>7, DataPresent
  <1>9. Users(t, i) = {}
    <2> SUFFICES ASSUME NEW d \in Users(t, i) PROVE FALSE
      OBVIOUS
    <2>1. d \in Fds /\ t.fds[d].flags # {} /\ t.fds[d].file = i
      BY Zenon DEF Users
    <2>2. d \notin Users(s, i)
      BY <1>4, <2>1, NoFileFacts, Zenon
    <2> QED BY <1>4, <2>1, <2>2, Zenon DEF Users
  <1>10. ASSUME NEW j \in Slots, j # i PROVE Users(t, j) = Users(s, j)
    <2>1. \A d \in Users(s, j) : d \notin Users(s, i)
      BY <1>10 DEF Users
    <2> QED BY <1>4, <2>1, NoFileFacts, Zenon DEF Users
  <1>11. FilesGood(t)
    <2>1. ASSUME NEW j \in Slots PROVE GoodSlot(t.flash, t.files[j])
      <3>1. CASE j = i
        BY <1>4, <3>1, NoFileFacts, Zenon
      <3>2. CASE j # i
        <4>1. GoodSlot(s.flash, s.files[j]) /\ t.files[j] = s.files[j]
          BY <1>1, <1>4, <3>2, Zenon DEF FilesGood
        <4>2. CASE s.files[j].max_pages = 0
          BY <4>1, <4>2 DEF GoodSlot
        <4>3. CASE s.files[j].max_pages # 0
          <5>1. PICK q \in Active(s.flash) : q = s.files[j].page
            BY <4>1, <4>3 DEF GoodSlot
          <5>2. q # page
            BY <3>2, <5>1, OneSlot
          <5>3. /\ t.flash[q] = s.flash[q] /\ q \in Active(t.flash)
                /\ file_end(t.flash, q) = file_end(s.flash, q)
            <6>1. SameExtent(s.flash, t.flash, q)
              BY <1>3, <5>2
            <6> QED BY <1>1, <6>1, ExtentSame
          <5> QED BY <4>1, <4>3, <5>1, <5>3, Zenon DEF GoodSlot
        <4> QED BY <4>2, <4>3
      <3> QED BY <3>1, <3>2
    <2>2. ASSUME NEW j \in Slots PROVE t.files[j].references = Cardinality(Users(t, j))
      <3>1. CASE j = i
        <4>1. Cardinality(Users(t, i)) = 0
          BY <1>9, UsersFacts
        <4> QED BY <1>4, <3>1, <4>1, NoFileFacts, Zenon
      <3>2. CASE j # i
        BY <1>1, <1>4, <1>10, <3>2 DEF FilesGood
      <3> QED BY <3>1, <3>2, Zenon
    <2>3. ASSUME NEW j \in Slots, NEW k \in Slots, t.files[j].max_pages > 0,
                 t.files[k].max_pages > 0, t.files[j].page = t.files[k].page
          PROVE  j = k
      <3>1. j # i /\ k # i
        <4>1. t.files[i].max_pages = 0
          BY <1>4, NoFileFacts
        <4> QED BY <2>3, <4>1
      <3> QED BY <1>1, <1>4, <2>3, <3>1 DEF FilesGood
    <2>4. ASSUME NEW d \in Fds PROVE GoodFd(t, d)
      <3>1. CASE d \in Users(s, i)
        BY <1>4, <3>1, NoFileFacts, Zenon DEF GoodFd
      <3>2. CASE d \notin Users(s, i)
        <4>1. GoodFd(s, d) /\ t.fds[d] = s.fds[d]
          BY <1>1, <1>4, <3>2, Zenon DEF FilesGood
        <4>2. CASE s.fds[d].flags = {}
          BY <4>1, <4>2 DEF GoodFd
        <4>3. CASE s.fds[d].flags # {}
          <5>1. s.fds[d].file \in Slots /\ s.fds[d].file # i
            BY <3>2, <4>1, <4>3, Zenon DEF GoodFd, Users
          <5>2. t.files[s.fds[d].file] = s.files[s.fds[d].file]
            BY <1>4, <5>1, Zenon
          <5> QED BY <4>1, <4>3, <5>2, Zenon DEF GoodFd
        <4> QED BY <4>2, <4>3
      <3> QED BY <3>1, <3>2
    <2> QED BY <2>1, <2>2, <2>3, <2>4, Zenon DEF FilesGood
  <1>12. \A d \in Fds : t.fds[d].flags \in {s.fds[d].flags, {}}
    BY <1>4, NoFileFacts, Zenon
  <1> QED BY <1>3, <1>6, <1>7, <1>8, <1>11, <1>12, Zenon DEF Core, Deleted

(* The flash when the extent at old has moved to the one at page. *)
MovedFlash(fl, old, page, gl) ==
    /\ Active(gl) = Active(fl) \ {old}
    /\ \A q \in Active(fl) : q # old /\ q # page => SameExtent(fl, gl, q)
    /\ gl[page] = fl[page]
    /\ file_end(gl, page) = file_end(fl, old)
    /\ DataOf(gl, page) = DataOf(fl, old)

(* What the copy, the obsolete header and the rewritten header do. *)
LEMMA MoveFlash ==
  ASSUME NEW fl, Laid(fl), NEW old \in Active(fl), NEW page \in Active(fl), old # page,
         fl[old].max_pages <= fl[page].max_pages,
         NEW length \in Nat, length < fl[old].max_pages, file_end(fl, old) <= length,
         \A k \in 1 .. fl[page].max_pages - 1 : fl[page + k] = Free,
         NEW gl, gl[old].kind = "obsolete",
         \A q \in Pages : q # old /\ ~(page < q /\ q <= page + length) => gl[q] = fl[q],
         \A k \in 1 .. length : gl[page + k] = fl[old + k]
  PROVE  MovedFlash(fl, old, page, gl)
  <1>1. /\ old \in Pages /\ old \in Nat /\ IsHeader(fl[old])
        /\ fl[old].max_pages \in Nat /\ fl[old].max_pages > 0
        /\ page \in Pages /\ page \in Nat /\ IsHeader(fl[page])
        /\ fl[page].max_pages \in Nat /\ fl[page].max_pages > 0
    BY ActiveFacts
  <1>2. gl[page] = fl[page]
    <2>1. ~(page < page)
      BY <1>1
    <2> QED BY <1>1, <2>1
  <1>3. ASSUME NEW q \in Pages, page < q, q <= page + length
        PROVE  fl[q].kind # "active" /\ gl[q].kind # "active"
    <2>1. q \in Nat
      BY PageFacts
    <2>2. PICK k \in Nat : k = q - page
      BY <1>1, <1>3, <2>1
    <2>3. k \in 1 .. length /\ k \in 1 .. fl[page].max_pages - 1
          /\ k \in 1 .. fl[old].max_pages - 1 /\ q = page + k
      BY <1>1, <1>3, <2>1, <2>2
    <2>4. ~IsHeader(fl[page + k]) /\ ~IsHeader(fl[old + k])
      BY <1>1, <2>3, CoveredPage
    <2>5. gl[q] = fl[old + k]
      BY <2>3
    <2> QED BY <2>3, <2>4, <2>5 DEF IsHeader
  <1>4. Active(gl) = Active(fl) \ {old}
    <2>1. ASSUME NEW q \in Pages PROVE gl[q].kind = "active" <=> fl[q].kind = "active" /\ q # old
      <3>1. CASE q = old
        BY <3>1
      <3>2. CASE page < q /\ q <= page + length
        BY <1>3, <3>2
      <3>3. CASE q # old /\ ~(page < q /\ q <= page + length)
        BY <3>3
      <3> QED BY <3>1, <3>2, <3>3
    <2> QED BY <2>1 DEF Active
  <1>5. ASSUME NEW q \in Active(fl), q # old, q # page PROVE SameExtent(fl, gl, q)
    <2> SUFFICES ASSUME NEW k \in 0 .. fl[q].max_pages - 1 PROVE gl[q + k] = fl[q + k]
      BY DEF SameExtent
    <2>1. q \in Pages /\ IsHeader(fl[q]) /\ q \in Nat
      BY ActiveFacts
    <2>2. q + k \in Pages /\ ~(old <= q + k /\ q + k < old + fl[old].max_pages)
      BY <1>1, <1>5, <2>1, PagesApart
    <2>3. ~(page <= q + k /\ q + k < page + fl[page].max_pages)
      BY <1>1, <1>5, <2>1, PagesApart
    <2>4. q + k # old /\ ~(page < q + k /\ q + k <= page + length)
      BY <1>1, <2>1, <2>2, <2>3
    <2> QED BY <2>2, <2>4
  <1>6. \A k \in 1 .. fl[old].max_pages - 1 : fl[old + k] # Free => k <= file_end(fl, old)
    BY <1>1, FileEnd
  <1>7. file_end(fl, old) \in Nat
    BY <1>1, FileEnd
  <1>8. ASSUME NEW k \in 1 .. fl[page].max_pages - 1, length < k PROVE gl[page + k] = Free
    <2>1. page + k \in Pages /\ page + k \in Nat
      BY <1>1, CoveredPage, PageFacts
    <2>2. page + k # old
      <3>1. 0 \in 0 .. fl[old].max_pages - 1
        BY <1>1
      <3>2. ~(page <= old + 0 /\ old + 0 < page + fl[page].max_pages)
        BY <1>1, <3>1, PagesApart
      <3> QED BY <1>1, <3>2
    <2>3. gl[page + k] = fl[page + k]
      BY <1>1, <1>8, <2>1, <2>2
    <2> QED BY <2>3
  <1>9. ASSUME NEW k \in 1 .. fl[old].max_pages - 1 PROVE gl[page + k] = fl[old + k]
    <2>1. CASE k <= length
      <3>1. k \in 1 .. length
        BY <1>1, <2>1
      <3> QED BY <3>1
    <2>2. CASE length < k
      <3>1. fl[old + k] = Free
        BY <1>1, <1>6, <1>7, <2>2
      <3>2. k \in 1 .. fl[page].max_pages - 1
        BY <1>1
      <3> QED BY <1>8, <2>2, <3>1, <3>2
    <2> QED BY <1>1, <2>1, <2>2
  <1>10. ASSUME NEW k \in fl[old].max_pages .. gl[page].max_pages - 1 PROVE gl[page + k] = Free
    <2>1. k \in 1 .. fl[page].max_pages - 1 /\ length < k
      BY <1>1, <1>2
    <2> QED BY <1>8, <2>1
  <1>11. file_end(gl, page) = file_end(fl, old) /\ DataOf(gl, page) = DataOf(fl, old)
    <2>1. gl[page].max_pages \in Nat /\ fl[old].max_pages <= gl[page].max_pages
      BY <1>1, <1>2
    <2> QED BY <1>1, <1>9, <1>10, <2>1, SameFile
  <1> QED BY <1>2, <1>4, <1>5, <1>11 DEF MovedFlash

(* The contents stay when a file moves to an extent of its name. *)
LEMMA MovedContents ==
  ASSUME NEW fl, Laid(fl), Searchable(fl), Unique(fl), NEW hl, Laid(hl),
         NEW gl, Laid(gl), Searchable(gl),
         NEW old \in Active(fl), NEW page, NEW amount, NEW n, n = fl[old].name,
         Grown(fl, hl, page, n, amount), MovedFlash(hl, old, page, gl)
  PROVE  Unique(gl) /\ Contents(gl) = Contents(fl)
  <1>1. /\ Active(hl) = Active(fl) \cup {page} /\ page \notin Active(fl) /\ Intact(fl, hl)
        /\ hl[page].name = n
    BY DEF Grown
  <1>2. Active(gl) = (Active(fl) \ {old}) \cup {page} /\ old # page
    BY <1>1 DEF MovedFlash
  <1>3. /\ gl[page].name = n /\ DataOf(gl, page) = DataOf(fl, old)
    <2>1. DataOf(hl, old) = DataOf(fl, old)
      BY <1>1, IntactFile
    <2> QED BY <1>1, <2>1 DEF MovedFlash
  <1>4. ASSUME NEW q \in Active(fl), q # old
        PROVE  gl[q] = fl[q] /\ q \in Active(gl) /\ DataOf(gl, q) = DataOf(fl, q)
    <2>1. hl[q] = fl[q] /\ q \in Active(hl) /\ DataOf(hl, q) = DataOf(fl, q)
      BY <1>1, IntactFile
    <2>2. SameExtent(hl, gl, q)
      BY <1>1, <1>4, <2>1 DEF MovedFlash
    <2>3. gl[q] = hl[q] /\ q \in Active(gl) /\ DataOf(gl, q) = DataOf(hl, q)
      BY <2>1, <2>2, ExtentSame
    <2> QED BY <2>1, <2>3
  <1>5. Unique(gl)
    <2> SUFFICES ASSUME NEW q \in Active(gl), NEW r \in Active(gl), gl[q].name = gl[r].name
                 PROVE  q = r
      BY DEF Unique
    <2>1. ASSUME NEW x \in Active(fl), x # old PROVE gl[x].name # n
      BY <1>4, <2>1 DEF Unique
    <2>2. CASE q = page \/ r = page
      BY <1>2, <1>3, <2>1, <2>2
    <2>3. CASE q # page /\ r # page
      <3>1. q \in Active(fl) /\ r \in Active(fl) /\ q # old /\ r # old
        BY <1>2, <2>3
      <3> QED BY <1>4, <3>1 DEF Unique
    <2> QED BY <2>2, <2>3
  <1>6. \A o \in Names : Contents(gl)[o] = Contents(fl)[o]
    <2> SUFFICES ASSUME NEW o \in Names PROVE Contents(gl)[o] = Contents(fl)[o]
      OBVIOUS
    <2>1. ASSUME NEW q \in Active(fl), fl[q].name = o
          PROVE  \E r \in Active(gl) : gl[r].name = o /\ DataOf(gl, r) = DataOf(fl, q)
      <3>1. CASE q = old
        <4>1. page \in Active(gl) /\ gl[page].name = o /\ DataOf(gl, page) = DataOf(fl, q)
          BY <1>2, <1>3, <2>1, <3>1
        <4> QED BY <4>1
      <3>2. CASE q # old
        BY <1>4, <2>1, <3>2
      <3> QED BY <3>1, <3>2
    <2>2. ASSUME NEW r \in Active(gl), gl[r].name = o PROVE \E q \in Active(fl) : fl[q].name = o
      <3>1. CASE r = page
        BY <1>3, <2>2, <3>1
      <3>2. CASE r # page
        BY <1>2, <1>4, <2>2, <3>2
      <3> QED BY <3>1, <3>2
    <2> QED BY <1>5, <2>1, <2>2, ContentsAt
  <1> QED BY <1>5, <1>6, ContentsSame

(* The memory when the file of slot i has moved to the extent of slot j. *)
MovedMemory(s, i, j, length, z) ==
    /\ z.files[i] = NoFile
    /\ z.files[j] = [page |-> s.files[j].page, max_pages |-> s.files[j].max_pages,
                     end |-> length, references |-> Cardinality(Users(s, i))]
    /\ \A k \in Slots : k # i /\ k # j => z.files[k] = s.files[k]
    /\ \A d \in Users(s, i) : z.fds[d] = [flags |-> s.fds[d].flags, file |-> j,
                                          offset |-> s.fds[d].offset]
    /\ \A d \in Fds : d \notin Users(s, i) => z.fds[d] = s.fds[d]

(* The cache is in order after the move. *)
LEMMA MoveCache ==
  ASSUME NEW m, NEW s, Core(m, s), NEW i \in Slots, NEW j \in Slots, i # j,
         s.files[i].max_pages > 0, s.files[j].max_pages > 0, Users(s, j) = {},
         s.files[i].max_pages <= s.files[j].max_pages,
         NEW length, length = s.files[i].end, length # UNKNOWN_OFFSET,
         NEW z, MovedMemory(s, i, j, length, z),
         MovedFlash(s.flash, s.files[i].page, s.files[j].page, z.flash)
  PROVE  FilesGood(z)
  <1>1. Laid(s.flash) /\ FilesGood(s) /\ s \in StateType
    BY BaseFacts DEF Core
  <1>2. PICK O, P : O = s.files[i].page /\ P = s.files[j].page
    OBVIOUS
  <1>3. /\ O \in Active(s.flash) /\ s.flash[O].max_pages = s.files[i].max_pages
        /\ P \in Active(s.flash) /\ s.flash[P].max_pages = s.files[j].max_pages
    BY <1>2, CachedName
  <1>4. /\ file_end(s.flash, O) <= length /\ length < s.files[i].max_pages
        /\ length \in Nat /\ s.files[i].max_pages \in Nat /\ s.files[j].max_pages \in Nat
    <2>1. GoodSlot(s.flash, s.files[i]) /\ s.files[i] \in FileType
      BY SlotFacts
    <2>2. length \in Nat
      BY <2>1 DEF FileType
    <2> QED BY <1>2, <2>1, <2>2, SlotFacts DEF GoodSlot
  <1>5. MovedFlash(s.flash, O, P, z.flash)
    BY <1>2
  <1>6. \A k \in Slots : k # i /\ k # j => z.files[k] = s.files[k]
    BY DEF MovedMemory
  <1>7. /\ z.files[i] = NoFile
        /\ z.files[j] = [page |-> P, max_pages |-> s.files[j].max_pages,
                         end |-> length, references |-> Cardinality(Users(s, i))]
    BY <1>2 DEF MovedMemory
  <1>8. /\ \A d \in Users(s, i) : z.fds[d] = [flags |-> s.fds[d].flags, file |-> j,
                                              offset |-> s.fds[d].offset]
        /\ \A d \in Fds : d \notin Users(s, i) => z.fds[d] = s.fds[d]
    BY DEF MovedMemory
  <1>9. \A d \in Fds : s.fds[d].flags = {} => z.fds[d] = s.fds[d]
    BY <1>8 DEF Users
  <1>10. ASSUME NEW d \in Fds
         PROVE  /\ z.fds[d].flags = s.fds[d].flags /\ z.fds[d].offset = s.fds[d].offset
                /\ z.fds[d].flags # {} =>
                      z.fds[d].file = IF s.fds[d].file = i THEN j ELSE s.fds[d].file
    <2>1. CASE d \in Users(s, i)
      <3>1. z.fds[d] = [flags |-> s.fds[d].flags, file |-> j, offset |-> s.fds[d].offset]
        BY <1>8, <2>1
      <3>2. s.fds[d].file = i
        BY <2>1 DEF Users
      <3> QED BY <3>1, <3>2
    <2>2. CASE d \notin Users(s, i)
      <3>1. z.fds[d] = s.fds[d]
        BY <1>8, <2>2
      <3>2. s.fds[d].flags # {} => s.fds[d].file # i
        BY <2>2 DEF Users
      <3> QED BY <3>1, <3>2
    <2> QED BY <2>1, <2>2
  <1>11. \A d \in Fds : z.fds[d].flags # {} =>
            z.fds[d].file = IF s.fds[d].file = i THEN j ELSE s.fds[d].file
    BY <1>10
  <1>12. Users(z, i) = {}
    BY <1>11 DEF Users
  <1>13. Users(z, j) = Users(s, i)
    <2>1. \A d \in Fds : s.fds[d].flags # {} => s.fds[d].file # j
      BY DEF Users
    <2> QED BY <1>10, <1>11, <2>1 DEF Users
  <1>14. \A k \in Slots : k # i /\ k # j => Users(z, k) = Users(s, k)
    BY <1>10, <1>11 DEF Users
  <1>15. ASSUME NEW k \in Slots PROVE GoodSlot(z.flash, z.files[k])
    <2>1. CASE k = i
      BY <1>7, <2>1, NoFileFacts
    <2>2. CASE k = j
      <3>1. /\ P \in Active(z.flash) /\ z.flash[P] = s.flash[P]
            /\ file_end(z.flash, P) = file_end(s.flash, O)
        <4>1. O # P
          <5>1. s.files[j].page = s.files[i].page <=> j = i
            BY OneSlot
          <5> QED BY <1>2, <5>1
        <4> QED BY <1>3, <1>5, <4>1 DEF MovedFlash
      <3>2. length < s.files[j].max_pages /\ s.files[j].max_pages # 0
        BY <1>4
      <3> QED BY <1>3, <1>4, <1>7, <2>2, <3>1, <3>2 DEF GoodSlot
    <2>3. CASE k # i /\ k # j
      <3>1. z.files[k] = s.files[k] /\ GoodSlot(s.flash, s.files[k])
            /\ s.files[k].max_pages \in Nat
        BY <1>6, <2>3, SlotFacts
      <3>2. CASE s.files[k].max_pages = 0
        BY <3>1, <3>2 DEF GoodSlot
      <3>3. CASE s.files[k].max_pages # 0
        <4>1. s.files[k].max_pages > 0
          BY <3>1, <3>3
        <4>2. s.files[k].page \in Active(s.flash)
          BY <4>1, CachedName, Zenon
        <4>3. s.files[k].page # O /\ s.files[k].page # P
          <5>1. s.files[k].page = s.files[i].page <=> k = i
            BY OneSlot
          <5>2. s.files[k].page = s.files[j].page <=> k = j
            BY OneSlot
          <5> QED BY <1>2, <2>3, <5>1, <5>2
        <4>4. PICK q : q = s.files[k].page
          OBVIOUS
        <4>5. SameExtent(s.flash, z.flash, q)
          BY <1>5, <4>2, <4>3, <4>4 DEF MovedFlash
        <4>6. /\ z.flash[q] = s.flash[q] /\ q \in Active(z.flash)
              /\ file_end(z.flash, q) = file_end(s.flash, q)
          BY <1>1, <4>2, <4>4, <4>5, ExtentSame
        <4> QED BY <3>1, <3>3, <4>4, <4>6 DEF GoodSlot
      <3> QED BY <3>2, <3>3
    <2> QED BY <2>1, <2>2, <2>3
  <1>16. ASSUME NEW k \in Slots PROVE z.files[k].references = Cardinality(Users(z, k))
    <2>1. CASE k = i
      BY <1>7, <1>12, <2>1, NoFileFacts, UsersFacts
    <2>2. CASE k = j
      BY <1>7, <1>13, <2>2
    <2>3. CASE k # i /\ k # j
      BY <1>6, <1>14, <2>3, SlotFacts
    <2> QED BY <2>1, <2>2, <2>3
  <1>17. ASSUME NEW k \in Slots, NEW l \in Slots, z.files[k].max_pages > 0,
                z.files[l].max_pages > 0, z.files[k].page = z.files[l].page
         PROVE  k = l
    <2>1. k # i /\ l # i
      BY <1>7, <1>17, NoFileFacts
    <2>2. \A x \in Slots : x # i => z.files[x].page = s.files[x].page
                                    /\ z.files[x].max_pages = s.files[x].max_pages
      BY <1>2, <1>6, <1>7
    <2>3. s.files[k].page = s.files[l].page /\ s.files[k].max_pages > 0
      BY <1>17, <2>1, <2>2
    <2> QED BY <2>3, OneSlot
  <1>18. ASSUME NEW d \in Fds PROVE GoodFd(z, d)
    <2>1. GoodFd(s, d)
      BY <1>1 DEF FilesGood
    <2>2. CASE s.fds[d].flags = {}
      BY <1>9, <2>1, <2>2 DEF GoodFd
    <2>3. CASE s.fds[d].flags # {} /\ s.fds[d].file = i
      <3>1. s.fds[d].offset <= length
        BY <2>1, <2>3 DEF GoodFd
      <3>2. z.fds[d].flags # {} /\ z.fds[d].file = j /\ z.fds[d].offset = s.fds[d].offset
        BY <1>10, <1>11, <2>3
      <3> QED BY <1>7, <3>1, <3>2 DEF GoodFd
    <2>4. CASE s.fds[d].flags # {} /\ s.fds[d].file # i
      <3>1. /\ s.fds[d].file \in Slots /\ s.fds[d].file # j
            /\ s.files[s.fds[d].file].max_pages > 0
            /\ s.files[s.fds[d].file].end # UNKNOWN_OFFSET
            /\ s.fds[d].offset <= s.files[s.fds[d].file].end
        BY <2>1, <2>4, Zenon DEF GoodFd, Users
      <3>2. z.fds[d].flags # {} /\ z.fds[d].file = s.fds[d].file
            /\ z.fds[d].offset = s.fds[d].offset
        BY <1>10, <1>11, <2>4
      <3>3. z.files[s.fds[d].file] = s.files[s.fds[d].file]
        BY <1>6, <2>4, <3>1, Zenon
      <3> QED BY <3>1, <3>2, <3>3, Zenon DEF GoodFd
    <2> QED BY <2>2, <2>3, <2>4
  <1> QED BY <1>15, <1>16, <1>17, <1>18 DEF FilesGood

(* The state after the copy: the descriptors follow. *)
LEMMA MovedIs ==
  ASSUME NEW m, NEW s, Core(m, s), NEW i \in Slots, NEW j \in Slots, i # j,
         s.files[i].max_pages > 0, s.files[j].max_pages > 0, Users(s, j) = {},
         s.files[i].max_pages <= s.files[j].max_pages,
         NEW length \in Nat, length < s.files[i].max_pages,
         NEW t, t = Moved(s, s.files[i].page, j, length)
  PROVE  /\ Base(m, t)
         /\ \A d \in Users(s, i) : t.fds[d] = [flags |-> s.fds[d].flags, file |-> j,
                                               offset |-> s.fds[d].offset]
         /\ \A d \in Fds : d \notin Users(s, i) => t.fds[d] = s.fds[d]
         /\ t.files[j] = [page |-> s.files[j].page, max_pages |-> s.files[j].max_pages,
                          end |-> s.files[j].end, references |-> Cardinality(Users(s, i))]
         /\ \A k \in Slots : k # j => t.files[k] = s.files[k]
         /\ \A q \in Pages :
               ~(s.files[j].page < q /\ q <= s.files[j].page + length)
               => t.flash[q] = s.flash[q]
         /\ \A k \in 1 .. length :
               t.flash[s.files[j].page + k] = s.flash[s.files[i].page + k]
  <1>1. Base(m, s) /\ FilesGood(s) /\ s \in StateType /\ Laid(s.flash)
        /\ s.files \in [Slots -> FileType] /\ s.fds \in [Fds -> FdType]
    BY BaseFacts DEF Core
  <1>2. PICK O, P : O = s.files[i].page /\ P = s.files[j].page
    OBVIOUS
  <1>3. /\ O \in Pages /\ IsHeader(s.flash[O]) /\ s.flash[O].max_pages = s.files[i].max_pages
        /\ P \in Pages /\ IsHeader(s.flash[P]) /\ s.flash[P].max_pages = s.files[j].max_pages
    BY <1>2, CachedName
  <1>4. O # P
    <2>1. s.files[j].page = s.files[i].page <=> j = i
      BY OneSlot
    <2> QED BY <1>2, <2>1
  <1>5. PICK F : F = Followers(s, O)
    OBVIOUS
  <1>6. F = Users(s, i)
    <2>1. \A d \in Fds : s.fds[d].flags # {} => s.fds[d].file \in Slots
      BY <1>1, Zenon DEF FilesGood, GoodFd
    <2>2. \A d \in Fds : /\ s.fds[d].file # NoSlot
                         /\ s.files[s.fds[d].file].page = s.files[i].page
                         <=> d \in Users(s, i)
      BY OneSlot
    <2>3. \A d \in Users(s, i) : d \in Fds /\ s.fds[d].flags # {}
      BY DEF Users
    <2>4. \A x \in Slots : x # NoSlot
      BY DEF Slots, NoSlot
    <2> QED BY <1>2, <1>5, <2>1, <2>2, <2>3, <2>4 DEF Followers
  <1>7. PICK c : /\ Copied(m, s, O, P, length, c)
                 /\ Moved(s, O, j, length) = Followed(c, j, F)
    <2>1. s.flash[O].max_pages <= s.flash[P].max_pages /\ length < s.flash[O].max_pages
      BY <1>3
    <2>2. P = s.files[j].page /\ Base(m, s) /\ O \in Pages /\ P \in Pages /\ O # P
          /\ IsHeader(s.flash[O]) /\ IsHeader(s.flash[P])
      BY <1>1, <1>2, <1>3, <1>4, Zenon
    <2> QED BY ONLY <1>5, <2>1, <2>2, length \in Nat, CopyAll
  <1>8. Base(m, c) /\ c.files = s.files /\ c.fds = s.fds
    BY <1>7 DEF Copied, SameBut
  <1>9. PICK set : set = [e \in Fds |-> IF e \in F THEN [s.fds[e] EXCEPT !.file = j]
                                        ELSE s.fds[e]]
    OBVIOUS
  <1>10. PICK n \in Nat : n = Cardinality(F)
    BY <1>6, UsersFacts
  <1>11. PICK table : table = [s.files EXCEPT ![j] = [page |-> P,
              max_pages |-> s.files[j].max_pages, end |-> s.files[j].end, references |-> n]]
    OBVIOUS
  <1>12. t = [c EXCEPT !.fds = set, !.files = table]
    <2>1. s.files[j].references = 0 /\ s.files[j] \in FileType
      BY <1>1, SlotFacts
    <2>2. t = [c EXCEPT !.fds = [e \in Fds |-> IF e \in F
                                               THEN [@[e] EXCEPT !.file = j] ELSE @[e]],
                        !.files[j].references = @ + n]
      BY <1>2, <1>7, <1>10 DEF Followed
    <2>3. PICK set0 : set0 = [e \in Fds |-> IF e \in F THEN [c.fds[e] EXCEPT !.file = j]
                                            ELSE c.fds[e]]
      OBVIOUS
    <2>4. PICK table0 : table0 = [c.files EXCEPT ![j].references = c.files[j].references + n]
      OBVIOUS
    <2>5. t = [c EXCEPT !.fds = set0, !.files = table0]
      BY <2>2, <2>3, <2>4
    <2>6. set0 = set
      BY <1>8, <1>9, <2>3
    <2>7. table0 = [s.files EXCEPT ![j] = [s.files[j] EXCEPT !.references = 0 + n]]
      BY <1>1, <1>8, <2>1, <2>4
    <2>8. [s.files[j] EXCEPT !.references = 0 + n]
             = [page |-> P, max_pages |-> s.files[j].max_pages, end |-> s.files[j].end,
                references |-> n]
      BY <1>2, <2>1 DEF FileType
    <2>9. table0 = table
      BY <1>11, <2>7, <2>8
    <2> QED BY <2>5, <2>6, <2>9
  <1>13. set \in [Fds -> FdType]
    <2>1. ASSUME NEW e \in Fds PROVE [s.fds[e] EXCEPT !.file = j] \in FdType
      <3>1. s.fds[e] \in FdType
        BY <1>1
      <3> QED BY <3>1 DEF FdType
    <2> QED BY <1>1, <1>9, <2>1
  <1>14. table \in [Slots -> FileType]
    <2>1. s.files[j] \in FileType
      BY <1>1
    <2>2. [page |-> P, max_pages |-> s.files[j].max_pages, end |-> s.files[j].end,
           references |-> n] \in FileType
      BY <1>2, <1>10, <2>1 DEF FileType
    <2> QED BY <1>1, <1>11, <2>2
  <1>15. c \in StateType
    BY <1>8, BaseFacts
  <1>16. t \in StateType /\ SameFlash(t, c) /\ t.files = table /\ t.fds = set
    BY <1>12, <1>13, <1>14, <1>15, Zenon DEF StateType, SameFlash
  <1>17. Base(m, t) /\ t.flash = c.flash
    BY <1>8, <1>16, BaseSame DEF SameFlash
  <1>18. \A d \in Users(s, i) : t.fds[d] = [flags |-> s.fds[d].flags, file |-> j,
                                            offset |-> s.fds[d].offset]
    <2> SUFFICES ASSUME NEW d \in Users(s, i)
                 PROVE  t.fds[d] = [flags |-> s.fds[d].flags, file |-> j,
                                    offset |-> s.fds[d].offset]
      OBVIOUS
    <2>1. d \in Fds /\ s.fds[d] \in FdType
      BY <1>1 DEF Users
    <2>2. t.fds[d] = [s.fds[d] EXCEPT !.file = j]
      BY <1>6, <1>9, <1>16, <2>1
    <2> QED BY <2>1, <2>2 DEF FdType
  <1>19. \A d \in Fds : d \notin Users(s, i) => t.fds[d] = s.fds[d]
    BY <1>6, <1>9, <1>16
  <1>20. t.files[j] = [page |-> P, max_pages |-> s.files[j].max_pages,
                       end |-> s.files[j].end, references |-> n]
    BY <1>1, <1>11, <1>16
  <1>21. \A k \in Slots : k # j => t.files[k] = s.files[k]
    BY <1>1, <1>11, <1>16
  <1>22. /\ \A q \in Pages : ~(P < q /\ q <= P + length) => t.flash[q] = s.flash[q]
         /\ \A k \in 1 .. length : t.flash[P + k] = s.flash[O + k]
    BY <1>7, <1>17 DEF Copied
  <1> QED BY <1>2, <1>6, <1>10, <1>17, <1>18, <1>19, <1>20, <1>21, <1>22, Zenon

(* The file of slot i moves to the extent of slot j, and the old one       *)
(* becomes obsolete.                                                       *)
MoveTo(s, i, j) ==
    LET length == s.files[i].end
        moved == Moved(s, s.files[i].page, j, length)
        u == Rewritten(remove_by_page(moved, s.files[i].page, FALSE), s.files[j].page)
    IN  [u EXCEPT !.files[j].end = length]

LEMMA MoveFile ==
  ASSUME NEW m, NEW s, Core(m, s), NEW i \in Slots, NEW j \in Slots, i # j,
         s.files[i].max_pages > 0, s.files[j].max_pages > 0, Users(s, j) = {},
         s.files[i].max_pages <= s.files[j].max_pages, s.files[i].end # UNKNOWN_OFFSET,
         \A k \in 1 .. s.files[j].max_pages - 1 : s.flash[s.files[j].page + k] = Free,
         NEW z, z = MoveTo(s, i, j)
  PROVE  /\ Core(m, z)
         /\ MovedFlash(s.flash, s.files[i].page, s.files[j].page, z.flash)
         /\ MovedMemory(s, i, j, s.files[i].end, z)
  <1>0. PICK old, page, length : /\ old = s.files[i].page /\ page = s.files[j].page
                                 /\ length = s.files[i].end
    OBVIOUS
  <1>1. Laid(s.flash) /\ FilesGood(s) /\ s \in StateType
    BY BaseFacts DEF Core
  <1>2. /\ old \in Active(s.flash) /\ s.flash[old].max_pages = s.files[i].max_pages
        /\ page \in Active(s.flash) /\ s.flash[page].max_pages = s.files[j].max_pages
        /\ old \in Pages /\ page \in Pages
    BY <1>0, CachedName
  <1>3. /\ file_end(s.flash, old) <= length /\ length < s.files[i].max_pages
        /\ length \in Nat
    <2>1. GoodSlot(s.flash, s.files[i]) /\ s.files[i] \in FileType
      BY SlotFacts
    <2>2. length \in Nat
      BY <1>0, <2>1 DEF FileType
    <2>3. s.files[i].max_pages # 0
      OBVIOUS
    <2> QED BY <1>0, <2>1, <2>2, <2>3 DEF GoodSlot
  <1>4. old # page
    <2>1. s.files[j].page = s.files[i].page <=> j = i
      BY OneSlot
    <2> QED BY <1>0, <2>1
  <1>5. PICK t : t = Moved(s, old, j, length)
    OBVIOUS
  <1>6. /\ Base(m, t)
        /\ \A d \in Users(s, i) : t.fds[d] = [flags |-> s.fds[d].flags, file |-> j,
                                              offset |-> s.fds[d].offset]
        /\ \A d \in Fds : d \notin Users(s, i) => t.fds[d] = s.fds[d]
        /\ t.files[j] = [page |-> s.files[j].page, max_pages |-> s.files[j].max_pages,
                         end |-> s.files[j].end, references |-> Cardinality(Users(s, i))]
        /\ \A k \in Slots : k # j => t.files[k] = s.files[k]
        /\ \A q \in Pages : ~(page < q /\ q <= page + length) => t.flash[q] = s.flash[q]
        /\ \A k \in 1 .. length : t.flash[page + k] = s.flash[old + k]
    <2>1. length \in Nat /\ length < s.files[i].max_pages
      BY <1>3
    <2>2. t = Moved(s, s.files[i].page, j, length)
      BY <1>0, <1>5
    <2> QED BY ONLY <1>0, <2>1, <2>2, Core(m, s), i \in Slots, j \in Slots, i # j, Users(s, j) = {}, s.files[i].max_pages > 0,
               s.files[j].max_pages > 0, s.files[i].max_pages <= s.files[j].max_pages, MovedIs
  <1>7. t.flash[old] = s.flash[old] /\ old \in Active(t.flash)
    <2>1. ~(page < old /\ old <= page + length)
      <3>1. old \in Nat /\ page \in Nat /\ IsHeader(s.flash[old]) /\ IsHeader(s.flash[page])
            /\ s.flash[page].max_pages \in Nat /\ s.flash[old].max_pages \in Nat
        BY <1>1, <1>2, ActiveFacts
      <3>2. page < old => page + s.flash[page].max_pages <= old
        BY <1>1, <1>2, <3>1, HeadersApart
      <3> QED BY <1>2, <1>3, <3>1, <3>2
    <2> QED BY <1>2, <1>6, <2>1 DEF Active
  <1>8. PICK r : r = Removed(t, old, {})
    OBVIOUS
  <1>9. remove_by_page(t, old, FALSE) = r
    BY <1>8, RemoveIs, Zenon
  <1>10. /\ Base(m, r) /\ Cleared(t, old, {}, r)
         /\ r.flash[old].kind = "obsolete"
         /\ \A q \in Pages : q # old => r.flash[q] = t.flash[q]
    BY <1>6, <1>7, <1>8, RemovePage
  <1>11. PICK u : u = Rewritten(r, page)
    OBVIOUS
  <1>12. z = [u EXCEPT !.files[j].end = length]
    BY <1>0, <1>5, <1>9, <1>11, Zenon DEF MoveTo
  <1>13. u = Put(r, Program(page, r.flash[page]))
    BY <1>11 DEF Rewritten, write_header
  <1>14. Base(m, u) /\ u.files = r.files /\ u.fds = r.fds /\ u.flash = r.flash
    <2>1. Base(m, u) /\ SameBut(u, r) /\ u.flash = r.flash
      BY <1>2, <1>10, <1>13, PutSame
    <2> QED BY <2>1 DEF SameBut
  <1>15. \A k \in Slots : t.files[k].page = s.files[k].page
    BY <1>6
  <1>16. /\ r.files[i] = NoFile /\ r.files[j] = t.files[j]
         /\ \A k \in Slots : k # i => r.files[k] = t.files[k]
         /\ \A d \in Fds : r.fds[d] = t.fds[d]
    <2>1. \A k \in Slots : s.files[k].page = s.files[i].page <=> k = i
      BY OneSlot
    <2> QED BY <1>0, <1>10, <1>15, <2>1 DEF Cleared
  <1>17. u \in StateType /\ u.files \in [Slots -> FileType]
    BY <1>14, BaseFacts
  <1>18. PICK new : new = [page |-> s.files[j].page, max_pages |-> s.files[j].max_pages,
                           end |-> length, references |-> Cardinality(Users(s, i))]
    OBVIOUS
  <1>19. PICK table : table = [u.files EXCEPT ![j] = new]
    OBVIOUS
  <1>20. z = [u EXCEPT !.files = table]
    <2>1. PICK rec : rec = u.files[j]
      OBVIOUS
    <2>2. rec = [page |-> s.files[j].page, max_pages |-> s.files[j].max_pages,
                 end |-> s.files[j].end, references |-> Cardinality(Users(s, i))]
      BY <1>6, <1>14, <1>16, <2>1
    <2>3. [rec EXCEPT !.end = length] = new
      BY <1>18, <2>2
    <2>4. PICK fs : fs = u.files
      OBVIOUS
    <2>5. z = [u EXCEPT !.files = [fs EXCEPT ![j] = [fs[j] EXCEPT !.end = length]]]
      BY <1>12, <2>4
    <2>6. [fs EXCEPT ![j] = [fs[j] EXCEPT !.end = length]] = table
      BY <1>19, <2>1, <2>3, <2>4
    <2> QED BY <2>5, <2>6
  <1>21. new \in FileType
    <2>1. s.files[j] \in FileType /\ Cardinality(Users(s, i)) \in Nat
      BY SlotFacts, UsersFacts
    <2> QED BY <1>3, <1>18, <2>1 DEF FileType
  <1>22. table \in [Slots -> FileType]
    BY <1>17, <1>19, <1>21
  <1>23. z \in StateType /\ SameFlash(z, u) /\ z.files = table /\ z.fds = u.fds
    BY <1>17, <1>20, <1>22, Zenon DEF StateType, SameFlash
  <1>24. Base(m, z) /\ z.flash = r.flash
    BY <1>14, <1>23, BaseSame DEF SameFlash
  <1>25. MovedFlash(s.flash, old, page, z.flash)
    <2>1. \A q \in Pages : q # old /\ ~(page < q /\ q <= page + length)
             => z.flash[q] = s.flash[q]
      BY <1>6, <1>10, <1>24
    <2>2. \A k \in 1 .. length : z.flash[page + k] = s.flash[old + k]
      <3> SUFFICES ASSUME NEW k \in 1 .. length PROVE z.flash[page + k] = s.flash[old + k]
        OBVIOUS
      <3>1. /\ page \in Nat /\ IsHeader(s.flash[page]) /\ s.flash[page].max_pages \in Nat
            /\ old \in Nat /\ IsHeader(s.flash[old]) /\ s.files[i].max_pages \in Nat
        BY <1>1, <1>2, ActiveFacts
      <3>2. k \in 1 .. s.flash[page].max_pages - 1
        BY <1>2, <1>3, <3>1
      <3>3. page + k \in Pages /\ ~IsHeader(s.flash[page + k])
        BY <1>1, <1>2, <3>1, <3>2, CoveredPage
      <3>4. page + k # old
        BY <3>1, <3>3
      <3> QED BY <1>6, <1>10, <1>24, <3>3, <3>4
    <2>3. \A k \in 1 .. s.flash[page].max_pages - 1 : s.flash[page + k] = Free
      BY <1>0, <1>2
    <2>4. z.flash[old].kind = "obsolete"
      BY <1>10, <1>24
    <2>5. s.flash[old].max_pages <= s.flash[page].max_pages
          /\ length < s.flash[old].max_pages
      BY <1>2, <1>3
    <2> QED BY <1>1, <1>2, <1>3, <1>4, <2>1, <2>2, <2>3, <2>4, <2>5, MoveFlash, Zenon
  <1>26. MovedMemory(s, i, j, s.files[i].end, z)
    <2>1. z.files[j] = new
      BY <1>17, <1>19, <1>23
    <2>2. \A k \in Slots : k # j => z.files[k] = u.files[k]
      BY <1>17, <1>19, <1>23
    <2>3. z.files[i] = NoFile
      BY <1>14, <1>16, <2>2
    <2>4. \A k \in Slots : k # i /\ k # j => z.files[k] = s.files[k]
      BY <1>6, <1>14, <1>16, <2>2
    <2>5. \A d \in Fds : z.fds[d] = t.fds[d]
      BY <1>14, <1>16, <1>23
    <2>6. \A d \in Users(s, i) : z.fds[d] = [flags |-> s.fds[d].flags, file |-> j,
                                            offset |-> s.fds[d].offset]
      BY <1>6, <2>5 DEF Users
    <2>7. \A d \in Fds : d \notin Users(s, i) => z.fds[d] = s.fds[d]
      BY <1>6, <2>5
    <2> QED BY <1>0, <1>18, <2>1, <2>3, <2>4, <2>6, <2>7 DEF MovedMemory
  <1>27. FilesGood(z)
    BY <1>0, <1>25, <1>26, MoveCache
  <1> QED BY <1>0, <1>24, <1>25, <1>26, <1>27 DEF Core

-----------------------------------------------------------------------------
(* Extending a file *)

(* What a search finds and what the descriptors may do are the same. *)
Kept(m, s, t) ==
    /\ Core(m, t) /\ Unique(t.flash) /\ Contents(t.flash) = Contents(s.flash)
    /\ \A e \in Fds : t.fds[e].flags = s.fds[e].flags

(* The extent that slot i caches has the name n. *)
NameOf(s, i) == s.flash[s.files[i].page].name

(* Descriptor d stands where it stood, in a file of that name which has    *)
(* twice the size.                                                         *)
Doubled(s, d, t) ==
    LET i == s.fds[d].file
        j == t.fds[d].file
    IN  /\ t.fds[d].offset = s.fds[d].offset
        /\ t.files[j].max_pages = 2 * s.files[i].max_pages
        /\ NameOf(t, j) = NameOf(s, i)

(* The new extent could not be had: the second descriptor is closed. *)
LEMMA MergeFails ==
  ASSUME NEW m, NEW s, Core(m, s), Unique(s.flash), NEW e \in Fds, s.fds[e].flags # {},
         NEW made, Core(m, made), made.fds = s.fds, Same(s.flash, made.flash),
         NEW t, t = Close(made, e)
  PROVE  /\ Core(m, t) /\ Unique(t.flash) /\ Contents(t.flash) = Contents(s.flash)
         /\ t.fds[e] = NoFd /\ \A x \in Fds : x # e => t.fds[x] = s.fds[x]
  <1>1. Laid(s.flash) /\ Laid(made.flash) /\ Searchable(s.flash) /\ Searchable(made.flash)
    BY BaseFacts DEF Core
  <1>2. Unique(made.flash) /\ Contents(made.flash) = Contents(s.flash)
    BY <1>1, SameContents
  <1>3. /\ Core(m, t) /\ SameFlash(t, made)
        /\ t.fds[e] = NoFd /\ \A x \in Fds : x # e => t.fds[x] = made.fds[x]
    BY CloseFile
  <1> QED BY <1>2, <1>3 DEF SameFlash

(* The file moves to the new extent and the second descriptor is closed. *)
LEMMA MergeMoves ==
  ASSUME NEW m, NEW s, Core(m, s), Unique(s.flash), NEW i \in Slots,
         NEW d \in Users(s, i), NEW e \in Users(s, i), d # e,
         NEW made, Core(m, made), made.fds = s.fds,
         NEW j \in Slots, Users(s, j) = {}, NEW p, NEW amount,
         amount = 2 * s.files[i].max_pages,
         Grown(s.flash, made.flash, p, s.flash[s.files[i].page].name, amount),
         made.files[j] = [page |-> p, max_pages |-> amount, end |-> 0, references |-> 0],
         \A k \in Slots : k # j => made.files[k] = s.files[k],
         NEW t, t = Close(MoveTo(made, i, j), e)
  PROVE  /\ Core(m, t) /\ Unique(t.flash) /\ Contents(t.flash) = Contents(s.flash)
         /\ t.fds[e] = NoFd
         /\ \A x \in Fds : x # e => t.fds[x].flags = s.fds[x].flags
         /\ Doubled(s, d, t)
  <1>1. Laid(s.flash) /\ Laid(made.flash) /\ Searchable(s.flash) /\ FilesGood(s)
    BY BaseFacts, Zenon DEF Core
  <1>2. /\ d \in Fds /\ s.fds[d].flags # {} /\ s.fds[d].file = i
        /\ e \in Fds /\ s.fds[e].flags # {} /\ s.fds[e].file = i
    BY Zenon DEF Users
  <1>3. i # j
    OBVIOUS
  <1>4. PICK old, n : old = s.files[i].page /\ n = s.flash[old].name
    OBVIOUS
  <1>5. /\ s.files[i].max_pages > 0 /\ s.files[i].end # UNKNOWN_OFFSET
        /\ s.files[i].max_pages \in Nat
    <2>1. GoodFd(s, d)
      BY <1>1, <1>2, Zenon DEF FilesGood
    <2> QED BY <1>2, <2>1, SlotFacts, Zenon DEF GoodFd
  <1>6. old \in Active(s.flash) /\ old \in Pages
    BY <1>4, <1>5, CachedName, Zenon
  <1>7. /\ made.files[i] = s.files[i]
        /\ made.files[j].page = p /\ made.files[j].max_pages = amount
    BY <1>3
  <1>8. Users(made, i) = Users(s, i) /\ Users(made, j) = {}
    BY DEF Users
  <1>9. /\ Grown(s.flash, made.flash, p, n, amount)
        /\ made.flash[p].name = n
        /\ \A k \in 1 .. amount - 1 : made.flash[p + k] = Free
    BY <1>4 DEF Grown
  <1>10. PICK z : z = MoveTo(made, i, j)
    OBVIOUS
  <1>11. /\ Core(m, z) /\ MovedFlash(made.flash, old, p, z.flash)
         /\ MovedMemory(made, i, j, s.files[i].end, z)
    <2>1. /\ made.files[i].max_pages > 0 /\ made.files[j].max_pages > 0
          /\ made.files[i].max_pages <= made.files[j].max_pages
          /\ made.files[i].end # UNKNOWN_OFFSET
      BY <1>5, <1>7
    <2>2. \A k \in 1 .. made.files[j].max_pages - 1 :
             made.flash[made.files[j].page + k] = Free
      BY <1>7, <1>9
    <2>3. /\ Core(m, z)
          /\ MovedFlash(made.flash, made.files[i].page, made.files[j].page, z.flash)
          /\ MovedMemory(made, i, j, made.files[i].end, z)
      BY <1>3, <1>8, <1>10, <2>1, <2>2, MoveFile, Zenon
    <2> QED BY <1>4, <1>7, <2>3, Zenon
  <1>12. Laid(z.flash) /\ Searchable(z.flash)
    BY <1>11, BaseFacts DEF Core
  <1>13. Unique(z.flash) /\ Contents(z.flash) = Contents(s.flash)
    BY <1>1, <1>4, <1>6, <1>9, <1>11, <1>12, MovedContents, Zenon
  <1>14. /\ z.files[j].page = p /\ z.files[j].max_pages = amount
    BY <1>7, <1>11 DEF MovedMemory
  <1>15. \A x \in Users(s, i) : z.fds[x] = [flags |-> s.fds[x].flags, file |-> j,
                                            offset |-> s.fds[x].offset]
    BY <1>8, <1>11 DEF MovedMemory
  <1>16. \A x \in Fds : x \notin Users(s, i) => z.fds[x] = s.fds[x]
    BY <1>8, <1>11, Zenon DEF MovedMemory
  <1>17. \A x \in Fds : z.fds[x].flags = s.fds[x].flags
    <2> SUFFICES ASSUME NEW x \in Fds PROVE z.fds[x].flags = s.fds[x].flags
      OBVIOUS
    <2>1. CASE x \in Users(s, i)
      <3>1. z.fds[x] = [flags |-> s.fds[x].flags, file |-> j, offset |-> s.fds[x].offset]
        BY <1>15, <2>1
      <3> QED BY <3>1
    <2>2. CASE x \notin Users(s, i)
      BY <1>16, <2>2
    <2> QED BY <2>1, <2>2
  <1>18. /\ Core(m, t) /\ SameFlash(t, z)
         /\ t.fds[e] = NoFd /\ \A x \in Fds : x # e => t.fds[x] = z.fds[x]
         /\ \A k \in Slots : /\ t.files[k].page = z.files[k].page
                             /\ t.files[k].max_pages = z.files[k].max_pages
                             /\ t.files[k].end = z.files[k].end
    <2>1. z.fds[e].flags # {}
      BY <1>2, <1>17, Zenon
    <2> QED BY <1>2, <1>10, <1>11, <2>1, CloseFile
  <1>19. t.fds[d].file = j /\ t.fds[d].offset = s.fds[d].offset
    <2>1. t.fds[d] = z.fds[d]
      BY <1>2, <1>18, Zenon
    <2>2. z.fds[d] = [flags |-> s.fds[d].flags, file |-> j, offset |-> s.fds[d].offset]
      BY <1>15
    <2> QED BY <2>1, <2>2
  <1>20. z.flash[p] = made.flash[p]
    BY <1>11 DEF MovedFlash
  <1>21. t.flash = z.flash
    BY <1>18, Zenon DEF SameFlash
  <1>22. Doubled(s, d, t)
    <2>1. NameOf(t, j) = n
      BY <1>9, <1>14, <1>18, <1>20, <1>21, Zenon DEF NameOf
    <2>2. NameOf(s, i) = n
      BY <1>4 DEF NameOf
    <2>3. t.files[j].max_pages = 2 * s.files[i].max_pages
      BY <1>14, <1>18, Zenon
    <2> QED BY <1>2, <1>19, <2>1, <2>2, <2>3 DEF Doubled
  <1>23. \A x \in Fds : x # e => t.fds[x].flags = s.fds[x].flags
    BY <1>17, <1>18, Zenon
  <1> QED BY <1>13, <1>18, <1>21, <1>22, <1>23, Zenon

(* What becomes of the call when s was reached with success or without. *)
Ended(ok, t) == [ok |-> ok, s |-> t]

LEMMA MergeLog ==
  ASSUME NEW m, NEW s, Core(m, s), Unique(s.flash), Room(s), NoOverhang(s.flash),
         NEW d \in Fds, s.fds[d].flags # {}
  PROVE  \E t : /\ Kept(m, s, t)
                /\ \/ merge_log(s, d) = Ended(FALSE, t)
                   \/ merge_log(s, d) = Ended(TRUE, t) /\ Doubled(s, d, t)
  <1>1. PICK i, old, n : i = s.fds[d].file /\ old = s.files[i].page /\ n = s.flash[old].name
    OBVIOUS
  <1>2. PICK o : o = Open(s, n, {"READ"})
    OBVIOUS
  <1>3. merge_log(s, d) = MergedFrom(s, o, old)
    BY <1>1, <1>2, Zenon DEF merge_log
  <1>4. CASE o.fd = NoSlot
    <2>1. merge_log(s, d) = Ended(FALSE, s)
      BY <1>3, <1>4, Zenon DEF MergedFrom, Ended
    <2>2. Kept(m, s, s)
      BY DEF Kept
    <2> QED BY <2>1, <2>2, Zenon
  <1>5. CASE o.fd # NoSlot
    <2>1. PICK e : e = o.fd
      OBVIOUS
    <2>2. PICK s1 : s1 = o.s
      OBVIOUS
    <2>3. /\ e \in Fds \ {d} /\ s.fds[e].flags = {}
          /\ Core(m, s1) /\ SameFlash(s1, s) /\ HasSlot(s1)
          /\ s1.fds[e].flags # {} /\ s1.fds[e].file = i
          /\ \A x \in Fds : x # e => s1.fds[x] = s.fds[x]
          /\ \A j \in Slots : /\ s1.files[j].page = s.files[j].page
                              /\ s1.files[j].max_pages = s.files[j].max_pages
      <3>1. o.fd = NoSlot \/ OpenedAgain(m, s, d, i, o.fd, o.s)
        <4>1. o = Open(s, s.flash[s.files[i].page].name, {"READ"}) /\ i = s.fds[d].file
          BY <1>1, <1>2, Zenon
        <4>2. Core(m, s) /\ Unique(s.flash) /\ Room(s) /\ s.fds[d].flags # {}
          OBVIOUS
        <4> QED BY ONLY <4>1, <4>2, d \in Fds, OpenAgain, Zenon
      <3> QED BY <1>5, <2>1, <2>2, <3>1, Zenon DEF OpenedAgain
    <2>4. s1.flash = s.flash
      BY <2>3 DEF SameFlash
    <2>5. s1.fds[d] = s.fds[d] /\ d # e
      BY <2>3
    <2>6. i \in Slots /\ s.files[i].max_pages > 0 /\ i # NoSlot
      <3>1. FilesGood(s)
        BY DEF Core
      <3>2. GoodFd(s, d)
        BY <3>1 DEF FilesGood
      <3> QED BY <1>1, <3>2 DEF GoodFd, Slots, NoSlot
    <2>7. d \in Users(s1, i) /\ e \in Users(s1, i)
      BY <1>1, <2>3, <2>5, Zenon DEF Users
    <2>8. HasSlot(s1) /\ NoOverhang(s1.flash)
      BY <2>3, <2>4
    <2>9. PICK amount : amount = 2 * s.files[i].max_pages
      OBVIOUS
    <2>10. /\ amount \in Nat /\ amount > 0 /\ n \in Names
           /\ s.flash[old].max_pages = s.files[i].max_pages
      <3>1. /\ old \in Pages /\ IsHeader(s.flash[old]) /\ n \in Names
            /\ s.flash[old].max_pages = s.files[i].max_pages
        BY <1>1, <2>6, CachedName, Zenon
      <3>2. PICK k : k = s.files[i].max_pages
        OBVIOUS
      <3>3. k \in Nat /\ k > 0
        BY <2>6, <3>2, SlotFacts
      <3>4. amount = k + k
        BY <2>9, <3>2, <3>3
      <3> QED BY <3>1, <3>3, <3>4
    <2>11. PICK made : made = reserve(s1, n, amount)
      OBVIOUS
    <2>12. ReservedFrom(m, s1, n, amount, made)
      BY <2>3, <2>8, <2>10, <2>11, Reserve
    <2>13. PICK s2 : s2 = made.s
      OBVIOUS
    <2>14. PICK j : j = made.slot
      OBVIOUS
    <2>15. merge_log(s, d) = Merged(made, e, old)
      BY <1>1, <1>3, <1>5, <2>1, <2>2, <2>9, <2>10, <2>11, Zenon DEF MergedFrom
    <2>16. Core(m, s2) /\ s2.fds = s1.fds
      BY <2>12, <2>13 DEF ReservedFrom
    <2>17. CASE j = NoSlot
      <3>1. Same(s1.flash, s2.flash)
        BY <2>12, <2>13, <2>14, <2>17 DEF ReservedFrom, Slots, NoSlot
      <3>2. PICK t : t = Close(s2, e)
        OBVIOUS
      <3>3. merge_log(s, d) = Ended(FALSE, t)
        BY <2>13, <2>14, <2>15, <2>17, <3>2, Zenon DEF Merged, Ended
      <3>4. Unique(s1.flash) /\ e \in Fds
        BY <2>3, <2>4
      <3>5. /\ Core(m, t) /\ Unique(t.flash) /\ Contents(t.flash) = Contents(s1.flash)
            /\ t.fds[e] = NoFd /\ \A x \in Fds : x # e => t.fds[x] = s1.fds[x]
        BY <2>3, <2>16, <3>1, <3>2, <3>4, MergeFails
      <3>6. \A x \in Fds : t.fds[x].flags = s.fds[x].flags
        BY <2>3, <3>5, NoFileFacts, Zenon
      <3>7. Kept(m, s, t)
        BY <2>4, <3>5, <3>6 DEF Kept
      <3> QED BY <3>3, <3>7, Zenon
    <2>18. CASE j # NoSlot
      <3>1. /\ j \in Slots /\ Users(s1, j) = {}
            /\ \A k \in Slots : k # j => s2.files[k] = s1.files[k]
        BY <2>12, <2>13, <2>14, <2>18 DEF ReservedFrom
      <3>2. PICK p : /\ Grown(s1.flash, s2.flash, p, n, amount)
                     /\ s2.files[j] = [page |-> p, max_pages |-> amount, end |-> 0,
                                       references |-> 0]
        BY <2>12, <2>13, <2>14, <2>18 DEF ReservedFrom
      <3>3. PICK t : t = Close(MoveTo(s2, i, j), e)
        OBVIOUS
      <3>4. /\ s2.fds[e].file = i /\ s2.files[i].page = old
        <4>1. i # j
          BY <2>7, <3>1
        <4> QED BY <1>1, <2>3, <2>6, <2>16, <3>1, <4>1, Zenon
      <3>5. merge_log(s, d) = Ended(TRUE, t)
        BY <2>13, <2>14, <2>15, <2>18, <3>3, <3>4, Zenon DEF Merged, MoveTo, Ended
      <3>6. /\ Unique(s1.flash) /\ amount = 2 * s1.files[i].max_pages
            /\ Grown(s1.flash, s2.flash, p, s1.flash[s1.files[i].page].name, amount)
        BY <1>1, <2>3, <2>4, <2>6, <2>9, <3>2, Zenon
      <3>7. /\ Core(m, t) /\ Unique(t.flash) /\ Contents(t.flash) = Contents(s1.flash)
            /\ t.fds[e] = NoFd
            /\ \A x \in Fds : x # e => t.fds[x].flags = s1.fds[x].flags
            /\ Doubled(s1, d, t)
        BY ONLY <2>3, <2>5, <2>6, <2>7, <2>16, <3>1, <3>2, <3>3, <3>6, MergeMoves
      <3>8. \A x \in Fds : t.fds[x].flags = s.fds[x].flags
        BY <2>3, <3>7, NoFileFacts, Zenon
      <3>9. Kept(m, s, t)
        BY <2>4, <3>7, <3>8 DEF Kept
      <3>10. Doubled(s, d, t)
        <4>1. s1.fds[d].file = i /\ s.fds[d].file = i
          BY <1>1, <2>5, Zenon
        <4>2. /\ t.fds[d].offset = s1.fds[d].offset
              /\ t.files[t.fds[d].file].max_pages = 2 * s1.files[i].max_pages
              /\ NameOf(t, t.fds[d].file) = NameOf(s1, i)
          BY <3>7, <4>1 DEF Doubled
        <4>3. NameOf(s1, i) = NameOf(s, i) /\ s1.files[i].max_pages = s.files[i].max_pages
          BY <2>3, <2>4, <2>6 DEF NameOf
        <4> QED BY <2>5, <4>1, <4>2, <4>3 DEF Doubled
      <3> QED BY <3>5, <3>9, <3>10, Zenon
    <2> QED BY <2>17, <2>18
  <1> QED BY <1>4, <1>5

(* The next block of descriptor d does not fit. *)
Short(t, d) == t.fds[d].offset + 2 > t.files[t.fds[d].file].max_pages

(* Descriptor d stands where it stood in a file of that name, with room. *)
Standing(s, d, t) ==
    /\ t.fds[d].offset = s.fds[d].offset
    /\ NameOf(t, t.fds[d].file) = NameOf(s, s.fds[d].file)
    /\ ~Short(t, d)

(* One step of the loop of cfs_write. *)
Grow(r, d) == IF r.ok /\ Short(r.s, d) THEN merge_log(r.s, d) ELSE r

LEMMA DescriptorFacts ==
  ASSUME NEW m, NEW s, Core(m, s), NEW d \in Fds, s.fds[d].flags # {},
         NEW i, i = s.fds[d].file
  PROVE  /\ i \in Slots /\ s.files[i].max_pages > 0 /\ s.files[i].max_pages \in Nat
         /\ s.fds[d].offset \in Nat /\ s.fds[d].offset <= s.files[i].end
         /\ s.files[i].end \in Nat /\ s.files[i].end # UNKNOWN_OFFSET
         /\ s.files[i].end < s.files[i].max_pages
         /\ file_end(s.flash, s.files[i].page) <= s.files[i].end
  <1>1. FilesGood(s) /\ s.fds \in [Fds -> FdType]
    BY BaseFacts DEF Core
  <1>2. /\ i \in Slots /\ s.files[i].max_pages > 0 /\ s.files[i].end # UNKNOWN_OFFSET
        /\ s.fds[d].offset <= s.files[i].end
    BY <1>1, Zenon DEF FilesGood, GoodFd
  <1>3. /\ s.files[i] \in FileType /\ s.files[i].max_pages \in Nat
        /\ GoodSlot(s.flash, s.files[i])
    BY <1>2, SlotFacts, Zenon
  <1>4. s.files[i].end \in Nat
    BY <1>2, <1>3, Zenon DEF FileType
  <1>5. s.fds[d] \in FdType
    BY <1>1
  <1>6. s.fds[d].offset \in Nat
    BY <1>5 DEF FdType
  <1>7. s.files[i].max_pages # 0
    BY <1>2, <1>3
  <1> QED BY <1>2, <1>3, <1>4, <1>6, <1>7, Zenon DEF GoodSlot

(* The file is extended once at most; then the block fits or the call fails. *)
LEMMA ExtendFile ==
  ASSUME NEW m, NEW s, Core(m, s), Unique(s.flash), Room(s), NoOverhang(s.flash),
         NEW d \in Fds, s.fds[d].flags # {}
  PROVE  \E t : /\ Kept(m, s, t)
                /\ \/ Extended(s, d) = Ended(FALSE, t)
                   \/ Extended(s, d) = Ended(TRUE, t) /\ Standing(s, d, t)
  <1>1. Extended(s, d) = Grow(Grow(Ended(TRUE, s), d), d)
    BY DEF Extended, Grow, Ended, Short
  <1>2. ASSUME NEW t PROVE Grow(Ended(FALSE, t), d) = Ended(FALSE, t)
    BY Zenon DEF Grow, Ended
  <1>3. ASSUME NEW t, ~Short(t, d) PROVE Grow(Ended(TRUE, t), d) = Ended(TRUE, t)
    BY <1>3, Zenon DEF Grow, Ended
  <1>4. ASSUME NEW t, Short(t, d) PROVE Grow(Ended(TRUE, t), d) = merge_log(t, d)
    BY <1>4, Zenon DEF Grow, Ended
  <1>5. CASE ~Short(s, d)
    <2>1. Extended(s, d) = Ended(TRUE, s)
      BY <1>1, <1>3, <1>5, Zenon
    <2>2. Kept(m, s, s)
      BY DEF Kept
    <2>3. Standing(s, d, s)
      BY <1>5 DEF Standing
    <2> QED BY <2>1, <2>2, <2>3, Zenon
  <1>6. CASE Short(s, d)
    <2>1. Extended(s, d) = Grow(merge_log(s, d), d)
      BY <1>1, <1>4, <1>6, Zenon
    <2>2. PICK t : /\ Kept(m, s, t)
                   /\ \/ merge_log(s, d) = Ended(FALSE, t)
                      \/ merge_log(s, d) = Ended(TRUE, t) /\ Doubled(s, d, t)
      BY MergeLog, Zenon
    <2>3. CASE merge_log(s, d) = Ended(FALSE, t)
      BY <1>2, <2>1, <2>2, <2>3, Zenon
    <2>4. CASE merge_log(s, d) = Ended(TRUE, t) /\ Doubled(s, d, t)
      <3>1. PICK i, j : i = s.fds[d].file /\ j = t.fds[d].file
        OBVIOUS
      <3>2. /\ t.fds[d].offset = s.fds[d].offset
            /\ t.files[j].max_pages = 2 * s.files[i].max_pages
            /\ NameOf(t, j) = NameOf(s, i)
        BY <2>4, <3>1 DEF Doubled
      <3>3. /\ s.files[i].max_pages \in Nat /\ s.fds[d].offset \in Nat
            /\ s.fds[d].offset < s.files[i].max_pages
        <4>1. /\ s.files[i].max_pages \in Nat
              /\ s.fds[d].offset \in Nat /\ s.fds[d].offset <= s.files[i].end
              /\ s.files[i].end \in Nat /\ s.files[i].end < s.files[i].max_pages
          BY <3>1, DescriptorFacts, Zenon
        <4> QED BY <4>1
      <3>4. ~Short(t, d)
        BY <3>1, <3>2, <3>3 DEF Short
      <3>5. Standing(s, d, t)
        BY <3>1, <3>2, <3>4 DEF Standing
      <3>6. Extended(s, d) = Ended(TRUE, t)
        BY <1>3, <2>1, <2>4, <3>4, Zenon
      <3> QED BY <2>2, <3>5, <3>6, Zenon
    <2> QED BY <2>2, <2>3, <2>4
  <1> QED BY <1>5, <1>6

-----------------------------------------------------------------------------
(* Storing a block *)

LEMMA WriteData ==
  ASSUME NEW fl, Laid(fl), NEW p \in Active(fl), NEW k \in 1 .. fl[p].max_pages - 1,
         NEW v \in Values, NEW gl, gl[p + k] = Data(v),
         \A q \in Pages : q # p + k => gl[q] = fl[q]
  PROVE  /\ Active(gl) = Active(fl) /\ gl[p] = fl[p]
         /\ \A q \in Active(fl) : q # p => SameExtent(fl, gl, q)
         /\ file_end(gl, p) = IF file_end(fl, p) > k THEN file_end(fl, p) ELSE k
         /\ DataOf(gl, p) = Store!Put(DataOf(fl, p), k - 1, v)
  <1>1. /\ p \in Pages /\ p \in Nat /\ IsHeader(fl[p])
        /\ fl[p].max_pages \in Nat /\ fl[p].max_pages > 0
    BY ActiveFacts
  <1>2. p + k \in Pages /\ ~IsHeader(fl[p + k]) /\ k \in Nat /\ k > 0
    BY <1>1, CoveredPage
  <1>3. Data(v) # Free /\ Data(v).value = v /\ Data(v).kind = "data"
    <2>1. v # Zero
      BY CoffeeAssumption DEF CoffeeAssumption
    <2> QED BY <2>1 DEF Data, Page, Free
  <1>4. gl[p] = fl[p]
    <2>1. p # p + k
      BY <1>1, <1>2
    <2> QED BY <1>1, <2>1
  <1>5. Active(gl) = Active(fl)
    <2>1. fl[p + k].kind # "active" /\ gl[p + k].kind # "active"
      BY <1>2, <1>3 DEF IsHeader
    <2>2. \A q \in Pages : gl[q].kind = "active" <=> fl[q].kind = "active"
      BY <2>1
    <2> QED BY <2>2 DEF Active
  <1>6. ASSUME NEW q \in Active(fl), q # p PROVE SameExtent(fl, gl, q)
    <2> SUFFICES ASSUME NEW x \in 0 .. fl[q].max_pages - 1 PROVE gl[q + x] = fl[q + x]
      BY DEF SameExtent
    <2>1. q \in Pages /\ IsHeader(fl[q]) /\ q \in Nat
      BY ActiveFacts
    <2>2. q + x \in Pages /\ ~(p <= q + x /\ q + x < p + fl[p].max_pages)
      BY <1>1, <1>6, <2>1, PagesApart
    <2>3. q + x # p + k
      BY <1>1, <1>2, <2>2
    <2> QED BY <2>2, <2>3
  <1>7. PICK e, z : e = file_end(fl, p) /\ z = IF e > k THEN e ELSE k
    OBVIOUS
  <1>8. /\ e \in 0 .. fl[p].max_pages - 1
        /\ \A x \in 1 .. fl[p].max_pages - 1 : fl[p + x] # Free => x <= e
        /\ e # 0 => fl[p + e] # Free
    BY <1>1, <1>7, FileEnd
  <1>9. \A x \in 1 .. fl[p].max_pages - 1 : x # k => gl[p + x] = fl[p + x]
    <2> SUFFICES ASSUME NEW x \in 1 .. fl[p].max_pages - 1, x # k
                 PROVE  gl[p + x] = fl[p + x]
      OBVIOUS
    <2>1. p + x \in Pages
      BY <1>1, CoveredPage
    <2>2. p + x # p + k
      BY <1>1, <1>2
    <2> QED BY <2>1, <2>2
  <1>10. file_end(gl, p) = z
    <2>1. gl[p].max_pages \in Nat /\ gl[p].max_pages > 0
          /\ z \in 0 .. gl[p].max_pages - 1
      BY <1>1, <1>2, <1>4, <1>7, <1>8
    <2>2. gl[p + z] # Free
      <3>1. CASE z = k
        BY <1>3, <3>1
      <3>2. CASE z # k
        <4>1. z = e /\ e # 0 /\ e \in 1 .. fl[p].max_pages - 1 /\ e # k
          BY <1>1, <1>7, <1>8, <3>2
        <4> QED BY <1>8, <1>9, <4>1
      <3> QED BY <3>1, <3>2
    <2>3. ASSUME NEW x \in 1 .. gl[p].max_pages - 1, gl[p + x] # Free PROVE x <= z
      <3>1. CASE x = k
        BY <1>1, <1>2, <1>7, <1>8, <3>1
      <3>2. CASE x # k
        <4>1. fl[p + x] # Free /\ x \in 1 .. fl[p].max_pages - 1
          BY <1>4, <1>9, <2>3, <3>2
        <4>2. x <= e
          BY <1>8, <4>1
        <4> QED BY <1>2, <1>7, <1>8, <4>2
      <3> QED BY <3>1, <3>2
    <2> QED BY <2>1, <2>2, <2>3, FileEndIs
  <1>11. DataOf(gl, p) = Store!Put(DataOf(fl, p), k - 1, v)
    <2>1. Len(DataOf(fl, p)) = e
      BY <1>7, <1>8 DEF DataOf
    <2>2. PICK c : c = DataOf(fl, p)
      OBVIOUS
    <2>3. \A x \in 1 .. e : c[x] = fl[p + x].value
      BY <1>7, <2>2 DEF DataOf
    <2>4. Store!Put(c, k - 1, v) =
             [x \in 1 .. z |-> IF x = k THEN v ELSE IF x <= e THEN c[x] ELSE Zero]
      <3>1. (IF Len(c) > k - 1 THEN Len(c) ELSE (k - 1) + 1) = z
        BY <1>2, <1>7, <1>8, <2>1, <2>2
      <3>2. (k - 1) + 1 = k /\ Len(c) = e
        BY <1>2, <2>1, <2>2
      <3> QED BY <3>1, <3>2 DEF Store!Put
    <2>5. ASSUME NEW x \in 1 .. z
          PROVE  gl[p + x].value = IF x = k THEN v ELSE IF x <= e THEN c[x] ELSE Zero
      <3>0. x \in 1 .. fl[p].max_pages - 1
        BY <1>1, <1>2, <1>7, <1>8
      <3>1. CASE x = k
        BY <1>3, <3>1
      <3>2. CASE x # k /\ x <= e
        <4>1. x \in 1 .. e
          BY <1>8, <3>0, <3>2
        <4> QED BY <1>9, <2>3, <3>0, <3>2, <4>1
      <3>3. CASE x # k /\ ~(x <= e)
        <4>1. fl[p + x] = Free
          BY <1>8, <3>0, <3>3
        <4>2. Free.value = Zero
          BY DEF Free, Page
        <4> QED BY <1>9, <3>0, <3>3, <4>1, <4>2
      <3> QED BY <3>1, <3>2, <3>3
    <2>6. DataOf(gl, p) = [x \in 1 .. z |-> gl[p + x].value]
      BY <1>10 DEF DataOf
    <2> QED BY <2>2, <2>4, <2>5, <2>6
  <1> QED BY <1>4, <1>5, <1>6, <1>7, <1>10, <1>11

(* Only the contents of one name change. *)
LEMMA StoredContents ==
  ASSUME NEW fl, Laid(fl), Searchable(fl), Unique(fl), NEW gl, Laid(gl), Searchable(gl),
         NEW p \in Active(fl),
         Active(gl) = Active(fl), gl[p] = fl[p],
         \A q \in Active(fl) : q # p => SameExtent(fl, gl, q),
         NEW n, n = fl[p].name
  PROVE  /\ Unique(gl) /\ Contents(fl)[n] = DataOf(fl, p)
         /\ Contents(gl) = [Contents(fl) EXCEPT ![n] = DataOf(gl, p)]
  <1>1. \A q \in Active(fl) : q # p => gl[q] = fl[q] /\ DataOf(gl, q) = DataOf(fl, q)
    BY ExtentSame
  <1>2. \A q \in Active(fl) : gl[q] = fl[q]
    BY <1>1
  <1>3. Unique(gl)
    BY <1>2 DEF Unique
  <1>4. n \in Names
    BY ActiveFacts
  <1>5. ASSUME NEW o \in Names, o # n PROVE Contents(gl)[o] = Contents(fl)[o]
    <2>1. \A q \in Active(fl) : fl[q].name = o =>
             \E r \in Active(gl) : gl[r].name = o /\ DataOf(gl, r) = DataOf(fl, q)
      BY <1>1, <1>5
    <2>2. \A r \in Active(gl) : gl[r].name = o => \E q \in Active(fl) : fl[q].name = o
      BY <1>2
    <2> QED BY <1>3, <2>1, <2>2, ContentsAt
  <1>6. Contents(gl)[n] = DataOf(gl, p) /\ Contents(fl)[n] = DataOf(fl, p)
    BY <1>3, ContentsFacts
  <1>7. Contents(fl) = [o \in Names |-> Contents(fl)[o]]
        /\ Contents(gl) = [o \in Names |-> Contents(gl)[o]]
    BY <1>3, ContentsFacts
  <1>8. PICK c, d, x : c = Contents(fl) /\ d = Contents(gl) /\ x = DataOf(gl, p)
    OBVIOUS
  <1>9. d = [c EXCEPT ![n] = x]
    BY <1>4, <1>5, <1>6, <1>7, <1>8
  <1> QED BY <1>3, <1>6, <1>8, <1>9

(* A block is stored for descriptor d, which has room. *)
LEMMA StoreBlock ==
  ASSUME NEW m, NEW s, Core(m, s), Unique(s.flash), NEW d \in Fds, s.fds[d].flags # {},
         ~Short(s, d), NEW v \in Values, NEW t, t = Stored(s, d, v),
         NEW n, n = NameOf(s, s.fds[d].file)
  PROVE  /\ Core(m, t) /\ Unique(t.flash) /\ n \in Names
         /\ Contents(s.flash)[n] # Absent
         /\ Contents(t.flash) = [Contents(s.flash) EXCEPT
               ![n] = Store!Put(Contents(s.flash)[n], s.fds[d].offset, v)]
         /\ \A x \in Fds : t.fds[x].flags = s.fds[x].flags
  <1>1. Base(m, s) /\ FilesGood(s) /\ Laid(s.flash) /\ Searchable(s.flash) /\ s \in StateType
        /\ s.files \in [Slots -> FileType] /\ s.fds \in [Fds -> FdType]
    BY BaseFacts DEF Core
  <1>2. PICK i, page, k : /\ i = s.fds[d].file /\ page = s.files[i].page
                          /\ k = s.fds[d].offset + 1
    OBVIOUS
  <1>3. /\ i \in Slots /\ s.files[i].max_pages > 0 /\ s.files[i].max_pages \in Nat
        /\ s.fds[d].offset \in Nat /\ s.fds[d].offset <= s.files[i].end
        /\ s.files[i].end \in Nat /\ s.files[i].end # UNKNOWN_OFFSET
        /\ s.files[i].end < s.files[i].max_pages
        /\ file_end(s.flash, page) <= s.files[i].end
    BY <1>2, DescriptorFacts, Zenon
  <1>4. k \in 1 .. s.files[i].max_pages - 1 /\ k \in Nat
    BY <1>2, <1>3 DEF Short
  <1>5. /\ page \in Active(s.flash) /\ page \in Pages /\ IsHeader(s.flash[page])
        /\ s.flash[page].max_pages = s.files[i].max_pages
        /\ s.flash[page].name = n /\ n \in Names
    BY <1>2, <1>3, CachedName, Zenon DEF NameOf
  <1>6. PICK u : u = Put(s, Program(page + k, Data(v)))
    OBVIOUS
  <1>7. Data(v) \in PageType /\ Data(v).kind = "data"
    <2>1. v # Zero
      BY CoffeeAssumption DEF CoffeeAssumption
    <2>2. 0 \in 0 .. PAGE_COUNT
      BY PageFacts
    <2> QED BY <2>1, <2>2 DEF Data, Page, PageType
  <1>8. /\ Base(m, u) /\ SameBut(u, s)
        /\ \A q \in Pages : q # page + k => u.flash[q] = s.flash[q]
        /\ u.flash[page + k] = Data(v)
    <2>1. PICK block : block = Data(v)
      OBVIOUS
    <2>2. block \in PageType /\ ~IsHeader(block) /\ (block.kind = "free" => block = Free)
      BY <1>7, <2>1 DEF IsHeader
    <2>3. u = Put(s, Program(page + k, block)) /\ k \in 1 .. s.flash[page].max_pages - 1
      BY <1>4, <1>5, <1>6, <2>1
    <2>4. /\ Base(m, u) /\ SameBut(u, s)
          /\ \A q \in Pages : q # page + k => u.flash[q] = s.flash[q]
          /\ u.flash[page + k] = block
      BY ONLY <1>1, <1>5, <2>2, <2>3, PutData
    <2> QED BY <2>1, <2>4
  <1>9. PICK z : z = IF s.files[i].end > k THEN s.files[i].end ELSE k
    OBVIOUS
  <1>10. z \in Nat /\ z < s.files[i].max_pages /\ k <= z /\ s.files[i].end <= z
    BY <1>3, <1>4, <1>9
  <1>11. PICK set : set = [s.fds EXCEPT ![d] = [flags |-> s.fds[d].flags, file |-> i,
                                                offset |-> k]]
    OBVIOUS
  <1>12. PICK table : table = [s.files EXCEPT ![i] = [page |-> page,
              max_pages |-> s.files[i].max_pages, end |-> z,
              references |-> s.files[i].references]]
    OBVIOUS
  <1>13. t = [u EXCEPT !.fds = set, !.files = table]
    <2>1. PICK f, g : f = s.files[i] /\ g = s.fds[d]
      OBVIOUS
    <2>2. f \in FileType /\ g \in FdType
      BY <1>1, <1>3, <2>1
    <2>3. Max({f.end, k}) = z
      <3>1. f.end \in Int /\ k \in Int
        BY <1>3, <1>4, <2>1
      <3>2. Max({f.end, k}) = IF f.end >= k THEN f.end ELSE k
        BY <3>1, Extrema
      <3> QED BY <1>9, <2>1, <3>1, <3>2
    <2>4. u.files = s.files /\ u.fds = s.fds
      BY <1>8 DEF SameBut
    <2>5. PICK set0, table0 : /\ set0 = [s.fds EXCEPT ![d].offset = k]
                              /\ table0 = [s.files EXCEPT ![i].end = Max({s.files[i].end, k})]
      OBVIOUS
    <2>6. t = [u EXCEPT !.fds = set0, !.files = table0]
      BY <1>2, <1>6, <2>4, <2>5, Zenon DEF Stored
    <2>7. set0 = [s.fds EXCEPT ![d] = [g EXCEPT !.offset = k]]
      BY <2>1, <2>5
    <2>8. table0 = [s.files EXCEPT ![i] = [f EXCEPT !.end = z]]
      BY <2>1, <2>3, <2>5
    <2>9. [g EXCEPT !.offset = k] = [flags |-> g.flags, file |-> i, offset |-> k]
      BY <1>2, <2>1, <2>2 DEF FdType
    <2>10. [f EXCEPT !.end = z] = [page |-> page, max_pages |-> f.max_pages, end |-> z,
                                   references |-> f.references]
      BY <1>2, <2>1, <2>2 DEF FileType
    <2>11. set0 = set
      BY <1>11, <2>1, <2>7, <2>9
    <2>12. table0 = table
      BY <1>12, <2>1, <2>8, <2>10
    <2> QED BY <2>6, <2>11, <2>12
  <1>14. set \in [Fds -> FdType]
    <2>1. s.fds[d] \in FdType
      BY <1>1
    <2>2. [flags |-> s.fds[d].flags, file |-> i, offset |-> k] \in FdType
      BY <1>3, <1>4, <2>1 DEF FdType
    <2> QED BY <1>1, <1>11, <2>2
  <1>15. table \in [Slots -> FileType]
    <2>1. s.files[i] \in FileType
      BY <1>1, <1>3
    <2>2. [page |-> page, max_pages |-> s.files[i].max_pages, end |-> z,
           references |-> s.files[i].references] \in FileType
      BY <1>5, <1>10, <2>1 DEF FileType
    <2> QED BY <1>1, <1>12, <2>2
  <1>16. u \in StateType
    BY <1>8, BaseFacts
  <1>17. t \in StateType /\ SameFlash(t, u) /\ t.files = table /\ t.fds = set
    BY <1>13, <1>14, <1>15, <1>16, Zenon DEF StateType, SameFlash
  <1>18. Base(m, t) /\ t.flash = u.flash
    BY <1>8, <1>17, BaseSame DEF SameFlash
  <1>19. Laid(t.flash) /\ Searchable(t.flash)
    BY <1>18, BaseFacts
  <1>20. /\ Active(t.flash) = Active(s.flash) /\ t.flash[page] = s.flash[page]
         /\ \A q \in Active(s.flash) : q # page => SameExtent(s.flash, t.flash, q)
         /\ file_end(t.flash, page) = IF file_end(s.flash, page) > k
                                      THEN file_end(s.flash, page) ELSE k
         /\ DataOf(t.flash, page) = Store!Put(DataOf(s.flash, page), k - 1, v)
    <2>1. k \in 1 .. s.flash[page].max_pages - 1
      BY <1>4, <1>5
    <2>2. /\ \A q \in Pages : q # page + k => t.flash[q] = s.flash[q]
          /\ t.flash[page + k] = Data(v)
      BY <1>8, <1>18
    <2> QED BY <1>1, <1>5, <2>1, <2>2, WriteData
  <1>21. /\ Unique(t.flash) /\ Contents(s.flash)[n] = DataOf(s.flash, page)
         /\ Contents(t.flash) = [Contents(s.flash) EXCEPT ![n] = DataOf(t.flash, page)]
    BY <1>1, <1>5, <1>19, <1>20, StoredContents
  <1>22. Contents(s.flash)[n] # Absent
    BY <1>1, <1>5, <1>21, DataPresent
  <1>23. Contents(t.flash) = [Contents(s.flash) EXCEPT
             ![n] = Store!Put(Contents(s.flash)[n], s.fds[d].offset, v)]
    <2>1. k - 1 = s.fds[d].offset
      BY <1>2, <1>3
    <2> QED BY <1>20, <1>21, <2>1
  <1>24. \A x \in Fds : t.fds[x].flags = s.fds[x].flags /\ t.fds[x].file = s.fds[x].file
    BY <1>1, <1>2, <1>11, <1>17
  <1>25. \A j \in Slots : /\ t.files[j].page = s.files[j].page
                          /\ t.files[j].max_pages = s.files[j].max_pages
                          /\ t.files[j].references = s.files[j].references
                          /\ j # i => t.files[j] = s.files[j]
    BY <1>1, <1>2, <1>12, <1>17
  <1>26. t.files[i].end = z
    BY <1>1, <1>3, <1>12, <1>17
  <1>27. \A x \in Fds : x # d => t.fds[x] = s.fds[x]
    BY <1>1, <1>11, <1>17
  <1>28. t.fds[d].offset = k
    BY <1>1, <1>11, <1>17
  <1>29. \A j : Users(t, j) = Users(s, j)
    BY <1>24 DEF Users
  <1>30. ASSUME NEW j \in Slots PROVE GoodSlot(t.flash, t.files[j])
    <2>1. GoodSlot(s.flash, s.files[j])
      BY <1>1 DEF FilesGood
    <2>2. CASE j = i
      <3>1. /\ t.files[j].page = page /\ t.files[j].max_pages = s.files[i].max_pages
            /\ t.files[j].max_pages # 0 /\ t.files[j].end = z
        BY <1>2, <1>3, <1>25, <1>26, <2>2
      <3>2. file_end(t.flash, page) <= z
        <4>1. PICK a, b : a = file_end(s.flash, page) /\ b = file_end(t.flash, page)
          OBVIOUS
        <4>2. b = (IF a > k THEN a ELSE k) /\ a <= s.files[i].end
          BY <1>3, <1>20, <4>1
        <4>3. a \in Nat
          BY <1>3, <1>5, <4>1, FileEnd
        <4>4. b <= z
          BY <1>3, <1>4, <1>10, <4>2, <4>3
        <4> QED BY <4>1, <4>4
      <3>3. page \in Active(t.flash) /\ t.flash[page].max_pages = s.files[i].max_pages
        BY <1>5, <1>20
      <3> QED BY <1>10, <3>1, <3>2, <3>3 DEF GoodSlot
    <2>3. CASE j # i
      <3>1. t.files[j] = s.files[j] /\ s.files[j].max_pages \in Nat
        BY <1>25, <2>3, SlotFacts
      <3>2. CASE s.files[j].max_pages = 0
        BY <2>1, <3>1, <3>2 DEF GoodSlot
      <3>3. CASE s.files[j].max_pages # 0
        <4>1. s.files[j].max_pages > 0
          BY <3>1, <3>3
        <4>2. PICK q : q = s.files[j].page
          OBVIOUS
        <4>3. q \in Active(s.flash) /\ q # page
          <5>1. s.files[j].page = s.files[i].page <=> j = i
            BY <1>3, OneSlot
          <5> QED BY <1>2, <2>3, <4>1, <4>2, <5>1, CachedName, Zenon
        <4>4. /\ t.flash[q] = s.flash[q] /\ q \in Active(t.flash)
              /\ file_end(t.flash, q) = file_end(s.flash, q)
          <5>1. SameExtent(s.flash, t.flash, q)
            BY <1>20, <4>3
          <5> QED BY <1>1, <4>3, <5>1, ExtentSame
        <4> QED BY <2>1, <3>1, <3>3, <4>2, <4>4 DEF GoodSlot
      <3> QED BY <3>2, <3>3
    <2> QED BY <2>2, <2>3
  <1>31. ASSUME NEW x \in Fds PROVE GoodFd(t, x)
    <2>1. GoodFd(s, x)
      BY <1>1 DEF FilesGood
    <2>2. CASE x = d
      <3>1. t.fds[d].flags # {} /\ t.fds[d].file = i /\ t.fds[d].offset <= z
        BY <1>2, <1>10, <1>24, <1>28
      <3>2. t.files[i].max_pages > 0 /\ t.files[i].end # UNKNOWN_OFFSET
        BY <1>3, <1>10, <1>25, <1>26 DEF UNKNOWN_OFFSET
      <3> QED BY <1>3, <1>26, <2>2, <3>1, <3>2 DEF GoodFd
    <2>3. CASE x # d /\ s.fds[x].flags = {}
      BY <1>27, <2>1, <2>3 DEF GoodFd
    <2>4. CASE x # d /\ s.fds[x].flags # {}
      <3>1. PICK j : j = s.fds[x].file
        OBVIOUS
      <3>2. /\ j \in Slots /\ s.files[j].max_pages > 0 /\ s.files[j].end # UNKNOWN_OFFSET
            /\ s.fds[x].offset <= s.files[j].end /\ s.fds[x].offset \in Nat
        BY <2>4, <3>1, DescriptorFacts
      <3>3. t.fds[x] = s.fds[x]
        BY <1>27, <2>4
      <3>4. t.files[j].end # UNKNOWN_OFFSET /\ s.fds[x].offset <= t.files[j].end
        <4>1. CASE j = i
          BY <1>3, <1>10, <1>26, <3>2, <4>1 DEF UNKNOWN_OFFSET
        <4>2. CASE j # i
          BY <1>25, <3>2, <4>2
        <4> QED BY <4>1, <4>2
      <3>5. t.files[j].max_pages > 0
        BY <1>25, <3>2
      <3> QED BY <2>4, <3>1, <3>2, <3>3, <3>4, <3>5, Zenon DEF GoodFd
    <2> QED BY <2>2, <2>3, <2>4
  <1>32. FilesGood(t)
    <2>1. \A j \in Slots : t.files[j].references = Cardinality(Users(t, j))
      BY <1>1, <1>25, <1>29 DEF FilesGood
    <2>2. ASSUME NEW j \in Slots, NEW l \in Slots, t.files[j].max_pages > 0,
                 t.files[l].max_pages > 0, t.files[j].page = t.files[l].page
          PROVE  j = l
      <3>1. s.files[j].page = s.files[l].page /\ s.files[j].max_pages > 0
        BY <1>25, <2>2
      <3> QED BY <3>1, OneSlot
    <2> QED BY <1>30, <1>31, <2>1, <2>2 DEF FilesGood
  <1>33. Core(m, t)
    BY <1>18, <1>32 DEF Core
  <1> QED BY <1>5, <1>21, <1>22, <1>23, <1>24, <1>33

(* A block of one file became v, or nothing changed. *)
Overwritten(fl, gl, k, v) ==
    \/ Contents(gl) = Contents(fl)
    \/ \E n \in Names :
          /\ Contents(fl)[n] # Absent
          /\ Contents(gl) = [Contents(fl) EXCEPT ![n] = Store!Put(Contents(fl)[n], k, v)]

(* What cfs_write does, whether the file could be extended or not. *)
LEMMA WriteFile ==
  ASSUME NEW m, NEW s, Core(m, s), Unique(s.flash), Room(s), NoOverhang(s.flash),
         NEW d \in Fds, s.fds[d].flags # {}, NEW v \in Values, NEW t, t = Written(Extended(s, d), d, v)
  PROVE  /\ Core(m, t) /\ Unique(t.flash)
         /\ Overwritten(s.flash, t.flash, s.fds[d].offset, v)
         /\ \A x \in Fds : t.fds[x].flags = s.fds[x].flags
  <1>1. PICK u : /\ Kept(m, s, u)
                 /\ \/ Extended(s, d) = Ended(FALSE, u)
                    \/ Extended(s, d) = Ended(TRUE, u) /\ Standing(s, d, u)
    BY ExtendFile, Zenon
  <1>2. /\ Core(m, u) /\ Unique(u.flash) /\ Contents(u.flash) = Contents(s.flash)
        /\ \A x \in Fds : u.fds[x].flags = s.fds[x].flags
    BY <1>1 DEF Kept
  <1>3. CASE Extended(s, d) = Ended(FALSE, u)
    <2>1. t = u
      <3>1. Written(Ended(FALSE, u), d, v) = u
        BY Zenon DEF Written, Ended
      <3> QED BY <1>3, <3>1, Zenon
    <2> QED BY <1>2, <2>1 DEF Overwritten
  <1>4. CASE Extended(s, d) = Ended(TRUE, u) /\ Standing(s, d, u)
    <2>1. t = Stored(u, d, v)
      <3>1. Written(Ended(TRUE, u), d, v) = Stored(u, d, v)
        BY Zenon DEF Written, Ended
      <3> QED BY <1>4, <3>1, Zenon
    <2>2. u.fds[d].offset = s.fds[d].offset /\ ~Short(u, d)
      BY <1>4 DEF Standing
    <2>3. PICK n : n = NameOf(u, u.fds[d].file)
      OBVIOUS
    <2>4. /\ Core(m, t) /\ Unique(t.flash) /\ n \in Names
          /\ Contents(u.flash)[n] # Absent
          /\ Contents(t.flash) = [Contents(u.flash) EXCEPT
                ![n] = Store!Put(Contents(u.flash)[n], u.fds[d].offset, v)]
          /\ \A x \in Fds : t.fds[x].flags = u.fds[x].flags
      <3>1. u.fds[d].flags # {}
        BY <1>2
      <3> QED BY <1>2, <2>1, <2>2, <2>3, <3>1, StoreBlock
    <2>5. Overwritten(s.flash, t.flash, s.fds[d].offset, v)
      BY <1>2, <2>2, <2>4 DEF Overwritten
    <2> QED BY <1>2, <2>4, <2>5
  <1> QED BY <1>1, <1>3, <1>4, Zenon

-----------------------------------------------------------------------------
(* Moving a descriptor *)

(* Descriptor d stands at k, and the end of its file is known to be z. *)
Touched(s, d, i, k, z, t) ==
    /\ t \in StateType /\ SameFlash(t, s)
    /\ \A x \in Fds : t.fds[x].flags = s.fds[x].flags /\ t.fds[x].file = s.fds[x].file
    /\ \A x \in Fds : x # d => t.fds[x] = s.fds[x]
    /\ t.fds[d].offset = k
    /\ \A j \in Slots : /\ t.files[j].page = s.files[j].page
                        /\ t.files[j].max_pages = s.files[j].max_pages
                        /\ t.files[j].references = s.files[j].references
                        /\ j # i => t.files[j] = s.files[j]
    /\ t.files[i].end = z

LEMMA TouchFile ==
  ASSUME NEW m, NEW s, Core(m, s), NEW d \in Fds, s.fds[d].flags # {},
         NEW i, i = s.fds[d].file, NEW k \in Nat, NEW z \in Nat, k <= z,
         s.files[i].end <= z, z < s.files[i].max_pages,
         NEW t, Touched(s, d, i, k, z, t)
  PROVE  Core(m, t)
  <1>1. Base(m, s) /\ FilesGood(s)
    BY DEF Core
  <1>2. /\ i \in Slots /\ s.files[i].max_pages > 0 /\ s.files[i].max_pages \in Nat
        /\ s.files[i].end \in Nat
        /\ file_end(s.flash, s.files[i].page) <= s.files[i].end
    BY DescriptorFacts, Zenon
  <1>3. Base(m, t) /\ t.flash = s.flash
    BY <1>1, BaseSame DEF Touched, SameFlash
  <1>4. \A j : Users(t, j) = Users(s, j)
    BY DEF Touched, Users
  <1>5. \A j \in Slots : /\ t.files[j].page = s.files[j].page
                         /\ t.files[j].max_pages = s.files[j].max_pages
                         /\ t.files[j].references = s.files[j].references
                         /\ j # i => t.files[j] = s.files[j]
    BY DEF Touched
  <1>6. t.files[i].end = z /\ t.fds[d].offset = k
        /\ t.fds[d].flags = s.fds[d].flags /\ t.fds[d].file = i
    BY DEF Touched
  <1>7. \A x \in Fds : x # d => t.fds[x] = s.fds[x]
    BY DEF Touched
  <1>8. ASSUME NEW j \in Slots PROVE GoodSlot(t.flash, t.files[j])
    <2>1. GoodSlot(s.flash, s.files[j])
      BY <1>1 DEF FilesGood
    <2>2. CASE j = i
      <3>1. /\ t.files[j].page = s.files[i].page
            /\ t.files[j].max_pages = s.files[i].max_pages
            /\ s.files[i].max_pages # 0 /\ t.files[j].end = z
        BY <1>2, <1>5, <1>6, <2>2
      <3>2. PICK a : a = file_end(s.flash, s.files[i].page)
        OBVIOUS
      <3>3. a \in Nat
        <4>1. PICK p : p = s.files[i].page
          OBVIOUS
        <4>2. s.flash[p].max_pages \in Nat /\ s.flash[p].max_pages > 0
          <5>1. s.flash[p].max_pages = s.files[i].max_pages
            BY ONLY Core(m, s), <1>2, <4>1, CachedName, Zenon
          <5> QED BY <1>2, <5>1, Zenon
        <4>3. file_end(s.flash, p) \in 0 .. s.flash[p].max_pages - 1
          BY <4>2, FileEnd
        <4>4. a = file_end(s.flash, p)
          BY <3>2, <4>1, Zenon
        <4>5. \A b \in 0 .. s.flash[p].max_pages - 1 : b \in Nat
          OBVIOUS
        <4> QED BY <4>3, <4>4, <4>5
      <3>4. file_end(t.flash, s.files[i].page) <= z
        BY <1>2, <1>3, <3>2, <3>3
      <3>5. GoodSlot(s.flash, s.files[i])
        BY <2>1, <2>2
      <3> QED BY <1>3, <3>1, <3>4, <3>5, Zenon DEF GoodSlot
    <2>3. CASE j # i
      BY <1>3, <1>5, <2>1, <2>3
    <2> QED BY <2>2, <2>3
  <1>9. ASSUME NEW x \in Fds PROVE GoodFd(t, x)
    <2>1. GoodFd(s, x)
      BY <1>1 DEF FilesGood
    <2>2. CASE x = d
      <3>1. t.files[i].max_pages > 0 /\ t.files[i].end # UNKNOWN_OFFSET
        BY <1>2, <1>5, <1>6 DEF UNKNOWN_OFFSET
      <3> QED BY <1>2, <1>6, <2>2, <3>1, Zenon DEF GoodFd
    <2>3. CASE x # d /\ s.fds[x].flags = {}
      BY <1>7, <2>1, <2>3, Zenon DEF GoodFd
    <2>4. CASE x # d /\ s.fds[x].flags # {}
      <3>1. PICK j : j = s.fds[x].file
        OBVIOUS
      <3>2. /\ j \in Slots /\ s.files[j].max_pages > 0 /\ s.files[j].end # UNKNOWN_OFFSET
            /\ s.fds[x].offset <= s.files[j].end /\ s.fds[x].offset \in Nat
        BY <2>4, <3>1, DescriptorFacts, Zenon
      <3>3. t.fds[x] = s.fds[x]
        BY <1>7, <2>4
      <3>4. t.files[j].end # UNKNOWN_OFFSET /\ s.fds[x].offset <= t.files[j].end
        <4>1. CASE j = i
          BY <1>2, <1>6, <3>2, <4>1 DEF UNKNOWN_OFFSET
        <4>2. CASE j # i
          BY <1>5, <3>2, <4>2
        <4> QED BY <4>1, <4>2
      <3>5. t.files[j].max_pages > 0
        BY <1>5, <3>2
      <3> QED BY <2>4, <3>1, <3>2, <3>3, <3>4, <3>5, Zenon DEF GoodFd
    <2> QED BY <2>2, <2>3, <2>4
  <1>10. FilesGood(t)
    <2>1. \A j \in Slots : t.files[j].references = Cardinality(Users(t, j))
      BY <1>1, <1>4, <1>5 DEF FilesGood
    <2>2. ASSUME NEW j \in Slots, NEW l \in Slots, t.files[j].max_pages > 0,
                 t.files[l].max_pages > 0, t.files[j].page = t.files[l].page
          PROVE  j = l
      <3>1. s.files[j].page = s.files[l].page /\ s.files[j].max_pages > 0
        BY <1>5, <2>2
      <3> QED BY <3>1, OneSlot
    <2> QED BY <1>8, <1>9, <2>1, <2>2 DEF FilesGood
  <1> QED BY <1>3, <1>10 DEF Core

(* The state with the offset of d and the end of its file replaced *)
LEMMA TouchedIs ==
  ASSUME NEW s, s \in StateType, NEW d \in Fds, NEW i \in Slots, i = s.fds[d].file,
         NEW k \in Nat, NEW z \in Nat,
         NEW set, set = [s.fds EXCEPT ![d].offset = k],
         NEW table, table = [s.files EXCEPT ![i].end = z] \/ (table = s.files /\ z = s.files[i].end),
         NEW t, t = [s EXCEPT !.fds = set, !.files = table]
  PROVE  Touched(s, d, i, k, z, t)
  <1>1. s.files \in [Slots -> FileType] /\ s.fds \in [Fds -> FdType]
    BY DEF StateType
  <1>2. PICK f, g : f = s.files[i] /\ g = s.fds[d]
    BY Zenon
  <1>3. f \in FileType /\ g \in FdType
    BY <1>1, <1>2, Zenon
  <1>4. PICK new : new = [flags |-> g.flags, file |-> i, offset |-> k]
    BY Zenon
  <1>5. set = [s.fds EXCEPT ![d] = new] /\ new \in FdType
    <2>1. [g EXCEPT !.offset = k] = new
      BY <1>2, <1>3, <1>4 DEF FdType
    <2>2. set = [s.fds EXCEPT ![d] = [g EXCEPT !.offset = k]]
      BY <1>2, Zenon
    <2>3. new \in FdType
      BY <1>3, <1>4, Zenon DEF FdType
    <2> QED BY <2>1, <2>2, <2>3, Zenon
  <1>6. PICK slot : slot = [page |-> f.page, max_pages |-> f.max_pages, end |-> z,
                            references |-> f.references]
    BY Zenon
  <1>7. table = [s.files EXCEPT ![i] = slot] /\ slot \in FileType
    <2>1. slot \in FileType
      BY <1>3, <1>6, Zenon DEF FileType
    <2>2. CASE table = [s.files EXCEPT ![i].end = z]
      <3>1. [f EXCEPT !.end = z] = slot
        BY <1>3, <1>6 DEF FileType
      <3>2. table = [s.files EXCEPT ![i] = [f EXCEPT !.end = z]]
        BY <1>2, <2>2, Zenon
      <3> QED BY <2>1, <3>1, <3>2, Zenon
    <2>3. CASE table = s.files /\ z = s.files[i].end
      <3>1. slot = f
        BY <1>2, <1>3, <1>6, <2>3, Zenon DEF FileType
      <3> QED BY <1>1, <1>2, <2>1, <2>3, <3>1
    <2> QED BY <2>2, <2>3, Zenon
  <1>8. set \in [Fds -> FdType] /\ table \in [Slots -> FileType]
    BY <1>1, <1>5, <1>7
  <1>9. t \in StateType /\ SameFlash(t, s) /\ t.files = table /\ t.fds = set
    BY <1>8, Zenon DEF StateType, SameFlash
  <1>10. /\ \A x \in Fds : x # d => t.fds[x] = s.fds[x]
         /\ t.fds[d] = new
    BY <1>1, <1>5, <1>9
  <1>11. /\ \A j \in Slots : j # i => t.files[j] = s.files[j]
         /\ t.files[i] = slot
    BY <1>1, <1>7, <1>9
  <1>12. \A x \in Fds : t.fds[x].flags = s.fds[x].flags /\ t.fds[x].file = s.fds[x].file
    <2>1. t.fds[d].flags = s.fds[d].flags /\ t.fds[d].file = s.fds[d].file
      BY <1>2, <1>4, <1>10
    <2> QED BY <1>10, <2>1, Zenon
  <1>13. \A j \in Slots : /\ t.files[j].page = s.files[j].page
                          /\ t.files[j].max_pages = s.files[j].max_pages
                          /\ t.files[j].references = s.files[j].references
                          /\ j # i => t.files[j] = s.files[j]
    <2>1. /\ t.files[i].page = s.files[i].page
          /\ t.files[i].max_pages = s.files[i].max_pages
          /\ t.files[i].references = s.files[i].references
      BY <1>2, <1>6, <1>11
    <2> QED BY <1>11, <2>1, Zenon
  <1>14. t.fds[d].offset = k /\ t.files[i].end = z
    BY <1>4, <1>6, <1>10, <1>11
  <1> QED BY <1>9, <1>10, <1>12, <1>13, <1>14, Zenon DEF Touched

(* The state after a seek *)
Sought(s, d, offset) ==
    [s EXCEPT !.files[s.fds[d].file].end = Max({@, offset}), !.fds[d].offset = offset]

(* cfs_seek *)
LEMMA SeekFile ==
  ASSUME NEW m, NEW s, Core(m, s), NEW d \in Fds, s.fds[d].flags # {},
         NEW offset \in Nat, offset < s.files[s.fds[d].file].max_pages,
         NEW t, t = Sought(s, d, offset)
  PROVE  /\ Core(m, t) /\ t.flash = s.flash
         /\ \A x \in Fds : t.fds[x].flags = s.fds[x].flags
  <1>0. PICK i : i = s.fds[d].file
    OBVIOUS
  <1>1. /\ i \in Slots /\ s.files[i].max_pages > 0 /\ s.files[i].max_pages \in Nat
        /\ s.files[i].end \in Nat /\ s.files[i].end < s.files[i].max_pages
    BY <1>0, DescriptorFacts, Zenon
  <1>2. offset < s.files[i].max_pages
    BY <1>0
  <1>4. PICK e : e = s.files[i].end
    OBVIOUS
  <1>5. PICK z : z = IF e >= offset THEN e ELSE offset
    OBVIOUS
  <1>6. z \in Nat /\ offset <= z /\ e <= z /\ z < s.files[i].max_pages
    BY ONLY offset \in Nat, <1>1, <1>2, <1>4, <1>5
  <1>7. Max({e, offset}) = z
    <2>1. e \in Int /\ offset \in Int
      BY <1>1, <1>2, <1>4
    <2> QED BY <1>5, <2>1, Extrema
  <1>8. PICK set, table : /\ set = [s.fds EXCEPT ![d].offset = offset]
                          /\ table = [s.files EXCEPT ![i].end = z]
    OBVIOUS
  <1>9. t = [s EXCEPT !.fds = set, !.files = table]
    BY <1>0, <1>4, <1>7, <1>8, Zenon DEF Sought
  <1>10. s \in StateType
    BY BaseFacts DEF Core
  <1>11. PICK u : u = [s EXCEPT !.fds = set, !.files = table]
    OBVIOUS
  <1>12. Touched(s, d, i, offset, z, u)
    BY ONLY offset \in Nat, <1>1, <1>6, <1>8, <1>10, <1>11, d \in Fds, <1>0, TouchedIs, Zenon
  <1>13. Core(m, u)
    BY ONLY Core(m, s), d \in Fds, s.fds[d].flags # {}, offset \in Nat, <1>0, <1>4, <1>6,
            <1>12, TouchFile
  <1> QED BY <1>9, <1>11, <1>12, <1>13 DEF Touched, SameFlash

(* cfs_read *)
LEMMA ReadFile ==
  ASSUME NEW m, NEW s, Core(m, s), NEW d \in Fds, s.fds[d].flags # {},
         NEW t, t = [s EXCEPT !.fds[d].offset = Min({@ + 1, s.files[s.fds[d].file].end})]
  PROVE  /\ Core(m, t) /\ t.flash = s.flash
         /\ \A x \in Fds : t.fds[x].flags = s.fds[x].flags
  <1>1. PICK i, z, k : i = s.fds[d].file /\ z = s.files[i].end /\ k = s.fds[d].offset
    OBVIOUS
  <1>2. /\ i \in Slots /\ k \in Nat /\ z \in Nat /\ k <= z
        /\ s.files[i].end <= z /\ z < s.files[i].max_pages
    BY <1>1, DescriptorFacts
  <1>3. PICK l : l = IF k + 1 <= z THEN k + 1 ELSE z
    OBVIOUS
  <1>4. Min({k + 1, z}) = l
    <2>1. k + 1 \in Int /\ z \in Int
      BY <1>2
    <2> QED BY <1>3, <2>1, Extrema
  <1>5. l \in Nat /\ l <= z
    BY <1>2, <1>3
  <1>6. s \in StateType
    BY BaseFacts DEF Core
  <1>7. PICK set, table : set = [s.fds EXCEPT ![d].offset = l] /\ table = s.files
    BY Zenon
  <1>8. PICK u : u = [s EXCEPT !.fds = set, !.files = table]
    OBVIOUS
  <1>9. t = u
    <2>1. t = [s EXCEPT !.fds = set]
      BY <1>1, <1>4, <1>7, Zenon
    <2>2. u = [s EXCEPT !.fds = set]
      BY <1>6, <1>7, <1>8, Zenon DEF StateType
    <2> QED BY <2>1, <2>2
  <1>10. Touched(s, d, i, l, z, u)
    BY ONLY <1>1, <1>2, <1>5, <1>6, <1>7, <1>8, d \in Fds, TouchedIs, Zenon
  <1>11. Core(m, u)
    BY ONLY Core(m, s), d \in Fds, s.fds[d].flags # {}, <1>1, <1>2, <1>5, <1>10, TouchFile, Zenon
  <1> QED BY <1>9, <1>10, <1>11 DEF Touched, SameFlash

(* cfs_remove of a file that there is *)
LEMMA RemoveCall ==
  ASSUME NEW m, NEW s, Core(m, s), Unique(s.flash), Room(s), NEW n \in Names,
         NEW found, found = find_file(s, n), found.slot # NoSlot,
         NEW t, t = remove_by_page(found.s, found.s.files[found.slot].page, TRUE)
  PROVE  /\ Core(m, t) /\ Unique(t.flash)
         /\ Deleted(s.flash, t.flash, n)
         /\ \A d \in Fds : t.fds[d].flags \in {s.fds[d].flags, {}}
  <1>1. PICK u, i, page : u = found.s /\ i = found.slot /\ page = u.files[i].page
    OBVIOUS
  <1>2. /\ Core(m, u) /\ SameFlash(u, s) /\ u.fds = s.fds
        /\ i \in Slots /\ u.files[i].max_pages > 0
        /\ s.flash[u.files[i].page].name = n
    <2>1. /\ Core(m, found.s) /\ SameFlash(found.s, s) /\ found.s.fds = s.fds
          /\ found.slot # NoSlot =>
               /\ found.slot \in Slots /\ found.s.files[found.slot].max_pages > 0
               /\ found.s.files[found.slot].page \in Active(s.flash)
               /\ s.flash[found.s.files[found.slot].page].name = n
      BY ONLY Core(m, s), Room(s), n \in Names, found = find_file(s, n), FindAny
    <2> QED BY <1>1, <2>1, Zenon
  <1>3. u.flash = s.flash
    BY <1>2 DEF SameFlash
  <1>4. t = Removed(u, page, UsersOf(u, page))
    <2>1. remove_by_page(u, page, TRUE) = Removed(u, page, UsersOf(u, page))
      BY RemoveIs, Zenon
    <2>2. found.s.files[found.slot].page = page
      BY <1>1
    <2> QED BY <1>1, <2>1, <2>2, Zenon
  <1>5. /\ Core(m, t) /\ Unique(t.flash)
        /\ Deleted(u.flash, t.flash, u.flash[page].name)
        /\ \A d \in Fds : t.fds[d].flags \in {u.fds[d].flags, {}}
    <2>1. Unique(u.flash)
      BY <1>3
    <2> QED BY ONLY <1>1, <1>2, <1>4, <2>1, RemoveFile, Zenon
  <1>6. u.flash[page].name = n
    BY <1>1, <1>2, <1>3, Zenon
  <1> QED BY <1>2, <1>3, <1>5, <1>6, Zenon

(* cfs_coffee_reserve *)
LEMMA ReserveCall ==
  ASSUME NEW m, NEW s, Core(m, s), Unique(s.flash), Room(s), NoOverhang(s.flash),
         NEW n \in Names, NEW size \in Sizes, NEW found, found = find_file(s, n),
         NEW t, t = IF found.slot # NoSlot THEN found.s ELSE reserve(found.s, n, size + 1).s
  PROVE  /\ Core(m, t) /\ Unique(t.flash) /\ Created(s.flash, t.flash, n)
         /\ t.fds = s.fds
  <1>1. /\ Core(m, found.s) /\ SameFlash(found.s, s) /\ found.s.fds = s.fds
        /\ found.slot = NoSlot => /\ found.s = s /\ HasSlot(s)
                                  /\ \A p \in Active(s.flash) : s.flash[p].name # n
    BY ONLY Core(m, s), Room(s), n \in Names, found = find_file(s, n), FindAny
  <1>2. CASE found.slot # NoSlot
    BY <1>1, <1>2 DEF SameFlash, Created
  <1>3. CASE found.slot = NoSlot
    <2>1. PICK amount, r : amount = size + 1 /\ r = reserve(s, n, amount)
      OBVIOUS
    <2>2. amount \in Nat /\ amount > 0
      BY <2>1, CoffeeAssumption DEF CoffeeAssumption
    <2>3. ReservedFrom(m, s, n, amount, r)
      BY ONLY Core(m, s), NoOverhang(s.flash), n \in Names, <1>1, <1>3, <2>1, <2>2, Reserve
    <2>4. t = r.s
      BY <1>1, <1>3, <2>1
    <2>5. Core(m, r.s) /\ r.s.fds = s.fds
      BY <2>3 DEF ReservedFrom
    <2>6. Unique(r.s.flash) /\ Created(s.flash, r.s.flash, n)
      BY ONLY Core(m, s), Unique(s.flash), n \in Names, <1>1, <1>3, <2>3, ReserveContents
    <2> QED BY <2>4, <2>5, <2>6
  <1> QED BY <1>2, <1>3

-----------------------------------------------------------------------------
(* The format, the flash and the restart *)

LEMMA EmptyMedium ==
  ASSUME NEW fl, fl = [p \in Pages |-> Free]
  PROVE  /\ Laid(fl) /\ Searchable(fl) /\ Unique(fl)
         /\ Contents(fl) = [n \in Names |-> Absent]
  <1>1. \A p \in Pages : fl[p] = Free /\ ~IsHeader(fl[p])
    BY PageTypes
  <1>2. fl \in Media
    BY PageTypes DEF Media
  <1>3. Laid(fl)
    <2>1. \A h, p \in Pages : ~Covers(fl, h, p)
      BY <1>1 DEF Covers
    <2> QED BY <1>1, <1>2, <2>1 DEF Laid
  <1>4. Searchable(fl)
    BY <1>1 DEF Searchable, Clear, FreeRest, Free, Page
  <1>5. Active(fl) = {}
    BY <1>1, PageTypes DEF Active
  <1>6. Unique(fl)
    BY <1>5 DEF Unique
  <1>7. /\ Contents(fl) = [n \in Names |-> Contents(fl)[n]]
        /\ \A n \in Names : (\A p \in Active(fl) : fl[p].name # n) => Contents(fl)[n] = Absent
    BY <1>3, <1>4, <1>6, ContentsFacts
  <1>8. \A n \in Names : Contents(fl)[n] = Absent
    BY <1>5, <1>7
  <1>9. PICK c : c = Contents(fl)
    OBVIOUS
  <1>10. c = [n \in Names |-> Absent]
    BY <1>7, <1>8, <1>9
  <1> QED BY <1>3, <1>4, <1>6, <1>9, <1>10

(* The sectors are erased one by one. *)
LEMMA FormatLeads ==
  ASSUME NEW m, Laid(m), NEW ops, ops = [x \in 1 .. SECTOR_COUNT |-> Erase(x - 1)],
         NEW fl, fl = [p \in Pages |-> Free]
  PROVE  Leads(m, ops, fl)
  <1>1. SECTOR_COUNT \in Nat /\ m \in Media
    BY Sizes0 DEF Laid
  <1>2. PICK f : f = [k \in 0 .. SECTOR_COUNT |->
                        [q \in Pages |-> IF Sector(q) < k THEN Free ELSE m[q]]]
    OBVIOUS
  <1>3. \A q \in Pages : Sector(q) \in 0 .. SECTOR_COUNT - 1
    BY SectorFacts, PageFacts
  <1>4. f[0] = m
    <2>1. \A q \in Pages : ~(Sector(q) < 0)
      BY <1>3
    <2>2. m = [q \in Pages |-> m[q]]
      BY <1>1 DEF Media
    <2>3. f[0] = [q \in Pages |-> IF Sector(q) < 0 THEN Free ELSE m[q]]
      BY <1>1, <1>2
    <2> QED BY <2>1, <2>2, <2>3
  <1>5. f[SECTOR_COUNT] = fl
    <2>1. \A q \in Pages : Sector(q) < SECTOR_COUNT
      BY <1>1, <1>3
    <2>2. f[SECTOR_COUNT] = [q \in Pages |-> IF Sector(q) < SECTOR_COUNT THEN Free ELSE m[q]]
      BY <1>1, <1>2
    <2> QED BY <2>1, <2>2
  <1>6. PICK T : T = {k \in 0 .. SECTOR_COUNT : Laid(f[k])}
    OBVIOUS
  <1>7. ASSUME NEW k \in 1 .. SECTOR_COUNT, Laid(f[k - 1])
        PROVE  f[k] = Apply(f[k - 1], Erase(k - 1)) /\ Laid(f[k])
    <2>1. k - 1 \in 0 .. SECTOR_COUNT - 1 /\ k - 1 \in 0 .. SECTOR_COUNT
          /\ k \in 0 .. SECTOR_COUNT
      BY <1>1
    <2>2. Laid(Apply(f[k - 1], Erase(k - 1)))
      BY <1>7, <2>1, LaidErase
    <2>3. Apply(f[k - 1], Erase(k - 1))
             = [q \in Pages |-> IF Sector(q) = k - 1 THEN Free ELSE f[k - 1][q]]
      <3>1. f[k - 1] \in Media
        BY <1>7 DEF Laid
      <3> QED BY <2>1, <3>1, ApplyErase
    <2>4. \A q \in Pages : f[k - 1][q] = IF Sector(q) < k - 1 THEN Free ELSE m[q]
      BY <1>2, <2>1
    <2>5. f[k] = [q \in Pages |-> IF Sector(q) < k THEN Free ELSE m[q]]
      BY <1>2, <2>1
    <2>6. ASSUME NEW q \in Pages
          PROVE  (IF Sector(q) = k - 1 THEN Free ELSE f[k - 1][q])
                    = IF Sector(q) < k THEN Free ELSE m[q]
      <3>1. Sector(q) \in Nat /\ k \in Nat
        BY <1>3, <2>1
      <3>2. Sector(q) < k <=> Sector(q) = k - 1 \/ Sector(q) < k - 1
        BY <3>1
      <3> QED BY <2>4, <3>2
    <2>7. f[k] = Apply(f[k - 1], Erase(k - 1))
      BY <2>3, <2>5, <2>6
    <2> QED BY <2>2, <2>7
  <1>8. 0 \in T
    BY <1>1, <1>4, <1>6
  <1>9. \A k \in 1 .. SECTOR_COUNT : k - 1 \in T => k \in T
    BY <1>1, <1>6, <1>7
  <1>10. \A k \in 0 .. SECTOR_COUNT : Laid(f[k])
    <2>1. 0 .. SECTOR_COUNT \subseteq T
      BY <1>1, <1>8, <1>9, WalkInduction
    <2> QED BY <1>6, <2>1
  <1>11. ops \in Seq(GoodOps) /\ Len(ops) = SECTOR_COUNT
    <2>1. \A x \in 1 .. SECTOR_COUNT : Erase(x - 1) \in GoodOps
      <3> SUFFICES ASSUME NEW x \in 1 .. SECTOR_COUNT PROVE Erase(x - 1) \in GoodOps
        OBVIOUS
      <3>1. x - 1 \in 0 .. SECTOR_COUNT - 1
        BY <1>1
      <3> QED BY <1>1, <3>1, ApplyErase
    <2> QED BY <1>1, <2>1
  <1>12. \A k \in 1 .. SECTOR_COUNT : f[k] = Apply(f[k - 1], ops[k])
    <2> SUFFICES ASSUME NEW k \in 1 .. SECTOR_COUNT PROVE f[k] = Apply(f[k - 1], ops[k])
      OBVIOUS
    <2>1. k - 1 \in 0 .. SECTOR_COUNT
      BY <1>1
    <2>2. f[k] = Apply(f[k - 1], Erase(k - 1))
      BY <1>7, <1>10, <2>1
    <2> QED BY <2>2
  <1>13. f = [k \in 0 .. SECTOR_COUNT |-> f[k]]
    BY <1>2
  <1> QED BY ONLY <1>4, <1>5, <1>10, <1>11, <1>12, <1>13, LeadsBy

(* What a restart finds in order can be searched. *)
LEMMA Mounted ==
  ASSUME NEW fl, Laid(fl), HeadersOnly(fl), FreeToTheEnd(fl), NoNameTwice(fl)
  PROVE  Searchable(fl) /\ Unique(fl)
  <1>1. Searchable(fl)
    BY SearchableIf
  <1>2. \A n : Named(fl, n) = {p \in Active(fl) : fl[p].name = n}
    BY <1>1, ExtentsActive
  <1>4. Unique(fl)
    <2> SUFFICES ASSUME NEW p \in Active(fl), NEW q \in Active(fl), fl[p].name = fl[q].name
                 PROVE  p = q
      BY DEF Unique
    <2>1. PICK T, n : T = Named(fl, n) /\ n = fl[p].name
      OBVIOUS
    <2>2. p \in T /\ q \in T /\ T \subseteq Pages
      BY <1>2, <2>1 DEF Active
    <2>3. IsFiniteSet(T)
      <3>1. IsFiniteSet(Pages)
        <4>1. 0 \in Int /\ PAGE_COUNT - 1 \in Int
          BY PageFacts
        <4> QED BY <4>1, FS_Interval DEF Pages
      <3> QED BY <2>2, <3>1, FS_Subset
    <2>4. Cardinality(T) <= 1
      <3>1. n \in Names
        BY <2>1, ActiveFacts
      <3> QED BY <2>1, <3>1 DEF NoNameTwice
    <2> QED BY <2>2, <2>3, <2>4, FS_CardinalityType, FS_EmptySet, FS_Singleton, FS_RemoveElement
  <1> QED BY <1>1, <1>4

-----------------------------------------------------------------------------
(* The inductive invariant *)

(* The memory, and the flash when everything is done that was asked for *)
Shadow == [flash |-> Image, files |-> files, fds |-> fds, next_free |-> next_free,
           gc_wait |-> gc_wait, ops |-> todo]

FlagsGood(s) == \A d \in Fds : s.fds[d].flags \in Modes \cup {{}}

(* What holds of the shadow s of a medium m, mounted or not. *)
Sound(m, s) ==
    /\ s \in StateType
    /\ Leads(m, s.ops, s.flash)
    /\ HintsGood(s)
    /\ FilesGood(s)
    /\ FlagsGood(s)

Clean(s) == \A i \in Slots : s.files[i] = NoFile

Mountable(fl) == Searchable(fl) /\ Unique(fl)

CoffeeInv ==
    /\ tears \in 0 .. MaxTears
    /\ mountable \in BOOLEAN
    /\ contents = Contents(Image)
    /\ Sound(medium, Shadow)
    /\ mountable => Mountable(Image)
    /\ ~mountable => Clean(Shadow)

LEMMA ShadowFields ==
  /\ Shadow.flash = Image /\ Shadow.files = files /\ Shadow.fds = fds
  /\ Shadow.next_free = next_free /\ Shadow.ops = todo
  BY DEF Shadow

LEMMA FlagFacts ==
  /\ Modes \subseteq Flags /\ \A flags \in Modes : flags # {}
  /\ NoFd.flags = {}
  BY CoffeeAssumption DEF CoffeeAssumption, Flags, NoFd

(* Between two calls, the state is the shadow. *)
LEMMA IdleState ==
  ASSUME CoffeeInv, Idle
  PROVE  /\ Core(medium, State) /\ Unique(State.flash) /\ FlagsGood(State)
         /\ State.flash = medium /\ State.files = files /\ State.fds = fds
         /\ Image = medium /\ contents = Contents(medium)
  <1>1. todo = <<>> /\ mountable
    BY DEF Idle
  <1>2. Sound(medium, Shadow) /\ Searchable(Image) /\ Unique(Image)
    BY <1>1 DEF CoffeeInv, Mountable
  <1>3. Leads(medium, todo, Image)
    BY <1>2, ShadowFields DEF Sound
  <1>4. Image = medium
    BY <1>1, <1>3, LeadsEnds
  <1>5. Shadow = State
    BY <1>1, <1>4, Zenon DEF Shadow, State
  <1>6. State.flash = medium /\ State.files = files /\ State.fds = fds
    BY DEF State
  <1>7. Sound(medium, State)
    BY <1>2, <1>5, Zenon
  <1>8. Core(medium, State) /\ FlagsGood(State)
    BY <1>2, <1>4, <1>6, <1>7 DEF Core, Base, Sound
  <1> QED BY <1>2, <1>4, <1>6, <1>8 DEF CoffeeInv

(* What the code relies on between two calls *)
LEMMA IdleDisciplined ==
  ASSUME CoffeeInv, Idle, Disciplined
  PROVE  Room(State) /\ NoOverhang(State.flash)
  <1>1. State.flash = medium /\ State.files = files
    BY DEF State
  <1>2. NoOverhang(medium)
    BY DEF Disciplined
  <1>3. Room(State)
    <2>1. CASE \E i \in Slots : files[i].references = 0
      BY <1>1, <2>1 DEF Room, HasSlot
    <2>2. CASE ~\E i \in Slots : files[i].references = 0
      <3>1. /\ get_available_fd(State) = {}
            /\ \A n \in Names : \E i \in Slots :
                  files[i].max_pages > 0 /\ medium[files[i].page].name = n
        BY <2>2 DEF Disciplined, RoomInCache
      <3> QED BY <1>1, <3>1 DEF Room
    <2> QED BY <2>1, <2>2
  <1> QED BY <1>1, <1>2, <1>3

(* The medium and the operations to come make the next image. *)
LEMMA NextImage ==
  ASSUME NEW fl, Leads(medium', todo', fl)
  PROVE  Image' = fl
  <1>1. Image' = ImageOf(medium', todo')
    BY DEF Image, ImageOf
  <1>2. ImageOf(medium', todo') = fl
    BY LeadsImage
  <1> QED BY <1>1, <1>2

(* A call that leaves the state in order keeps the invariant. *)
LEMMA CommitGood ==
  ASSUME CoffeeInv, Idle, NEW s, Core(medium, s), Unique(s.flash), FlagsGood(s), Commit(s)
  PROVE  CoffeeInv' /\ contents' = Contents(s.flash)
  <1>1. /\ files' = s.files /\ fds' = s.fds /\ next_free' = s.next_free
        /\ gc_wait' = s.gc_wait /\ todo' = s.ops /\ contents' = Contents(s.flash)
        /\ medium' = medium /\ tears' = tears /\ mountable' = mountable
    BY DEF Commit
  <1>2. /\ s \in StateType /\ Leads(medium, s.ops, s.flash) /\ Searchable(s.flash)
        /\ HintsGood(s) /\ FilesGood(s)
    BY DEF Core, Base
  <1>3. Image' = s.flash
    <2>1. Leads(medium', todo', s.flash)
      BY <1>1, <1>2
    <2> QED BY <2>1, NextImage
  <1>4. Shadow' = s
    <2>1. Shadow' = [flash |-> s.flash, files |-> s.files, fds |-> s.fds,
                     next_free |-> s.next_free, gc_wait |-> s.gc_wait, ops |-> s.ops]
      BY <1>1, <1>3, Zenon DEF Shadow
    <2>2. s = [flash |-> s.flash, files |-> s.files, fds |-> s.fds,
               next_free |-> s.next_free, gc_wait |-> s.gc_wait, ops |-> s.ops]
      BY <1>2 DEF StateType
    <2> QED BY <2>1, <2>2, Zenon
  <1>5. Sound(medium', Shadow')
    <2>1. Sound(medium, s)
      BY <1>2 DEF Sound
    <2> QED BY <1>1, <1>4, <2>1, Zenon
  <1>6. tears' \in 0 .. MaxTears
    BY <1>1 DEF CoffeeInv
  <1>7. mountable'
    BY <1>1 DEF Idle
  <1>8. Mountable(Image')
    BY <1>2, <1>3 DEF Mountable
  <1>9. contents' = Contents(Image')
    BY <1>1, <1>3
  <1> QED BY <1>1, <1>5, <1>6, <1>7, <1>8, <1>9 DEF CoffeeInv

(* What a call may do to the flags *)
LEMMA FlagsKept ==
  ASSUME NEW s, FlagsGood(s), NEW t, NEW flags \in Modes \cup {{}},
         \A d \in Fds : t.fds[d].flags \in {s.fds[d].flags, flags}
  PROVE  FlagsGood(t)
  BY DEF FlagsGood

-----------------------------------------------------------------------------
(* The calls keep the invariant and are calls of the file store *)

LEMMA StoreSettles ==
  ASSUME contents' = contents
  PROVE  Store!Next
  BY DEF Store!Next, Store!Settle

LEMMA StoreCreates ==
  ASSUME todo = <<>>, NEW fl, contents = Contents(fl), NEW gl, contents' = Contents(gl),
         NEW n \in Names, Created(fl, gl, n)
  PROVE  Store!Next
  <1>1. CASE contents' = contents
    BY <1>1, StoreSettles
  <1>2. CASE contents' # contents
    <2>1. contents[n] = Absent /\ contents' = [contents EXCEPT ![n] = <<>>]
      BY <1>2 DEF Created
    <2> QED BY <2>1 DEF Store!Next, Store!Create
  <1> QED BY <1>1, <1>2

(* The memory after a start *)
LEMMA FreshState ==
  ASSUME NEW m, NEW ops, NEW fl, Leads(m, ops, fl),
         NEW s, s = [flash |-> fl, files |-> [i \in Slots |-> NoFile],
                     fds |-> [d \in Fds |-> NoFd], next_free |-> 0, gc_wait |-> FALSE,
                     ops |-> ops]
  PROVE  Sound(m, s) /\ Clean(s)
  <1>1. /\ fl \in Media /\ ops \in Seq(GoodOps)
    BY LeadsEnds DEF Laid
  <1>2. NoFile \in FileType /\ NoFd \in FdType
    BY Sizes0, PageFacts DEF NoFile, NoFd, FileType, FdType
  <1>3. s \in StateType
    BY <1>1, <1>2 DEF StateType
  <1>4. /\ s.flash = fl /\ s.ops = ops /\ s.next_free = 0 /\ ~s.gc_wait
        /\ s.files = [i \in Slots |-> NoFile] /\ s.fds = [d \in Fds |-> NoFd]
    OBVIOUS
  <1>5. HintsGood(s)
    <2>1. /\ Uncovered(s.flash, 0) /\ 0 <= PAGE_COUNT
      BY ZeroUncovered, PageFacts
    <2>2. \A p \in Pages : ~(p < 0)
      BY PageFacts
    <2> QED BY <1>4, <2>1, <2>2 DEF HintsGood
  <1>6. \A i \in Slots : s.files[i] = NoFile
    BY <1>4
  <1>7. \A d \in Fds : s.fds[d] = NoFd
    BY <1>4
  <1>8. FilesGood(s)
    <2>1. \A i \in Slots : GoodSlot(s.flash, s.files[i])
      BY <1>6, NoFileFacts
    <2>2. \A i \in Slots : Users(s, i) = {}
      BY <1>7, NoFileFacts DEF Users
    <2>3. \A i \in Slots : s.files[i].references = Cardinality(Users(s, i))
      BY <1>6, <2>2, NoFileFacts, UsersFacts, Zenon
    <2>4. \A d \in Fds : GoodFd(s, d)
      BY <1>7, NoFileFacts DEF GoodFd
    <2>5. \A i, j \in Slots : ~(s.files[i].max_pages > 0)
      BY <1>6, NoFileFacts
    <2> QED BY <2>1, <2>3, <2>4, <2>5 DEF FilesGood
  <1>9. FlagsGood(s)
    BY <1>7, FlagFacts DEF FlagsGood
  <1> QED BY <1>3, <1>5, <1>6, <1>8, <1>9, <1>4 DEF Sound, Clean

LEMMA InvInit ==
  ASSUME CoffeeAssumption, Init
  PROVE  CoffeeInv /\ Store!Init
  <1>1. PICK fl : fl = [p \in Pages |-> Free]
    OBVIOUS
  <1>2. /\ medium = fl /\ todo = <<>> /\ contents = [n \in Names |-> Absent]
        /\ files = [i \in Slots |-> NoFile] /\ fds = [d \in Fds |-> NoFd]
        /\ next_free = 0 /\ gc_wait = FALSE /\ tears = 0 /\ mountable = TRUE
    BY <1>1 DEF Init
  <1>3. /\ Laid(fl) /\ Searchable(fl) /\ Unique(fl)
        /\ Contents(fl) = [n \in Names |-> Absent]
    BY <1>1, EmptyMedium
  <1>4. Leads(medium, todo, fl)
    BY <1>2, <1>3, LeadsNothing
  <1>5. Image = fl
    <2>1. Image = ImageOf(medium, todo)
      BY DEF Image, ImageOf
    <2> QED BY <1>4, <2>1, LeadsImage
  <1>0. tears \in 0 .. MaxTears
    BY <1>2, CoffeeAssumption DEF CoffeeAssumption
  <1>6. Sound(medium, Shadow) /\ Clean(Shadow)
    <2>1. PICK s : s = Shadow
      OBVIOUS
    <2>2. s = [flash |-> fl, files |-> [i \in Slots |-> NoFile],
               fds |-> [d \in Fds |-> NoFd], next_free |-> 0, gc_wait |-> FALSE,
               ops |-> todo]
      BY <1>2, <1>5, <2>1, Zenon DEF Shadow
    <2>3. Sound(medium, s) /\ Clean(s)
      BY <1>4, <2>2, FreshState
    <2> QED BY <2>1, <2>3
  <1> QED BY <1>0, <1>2, <1>3, <1>5, <1>6 DEF CoffeeInv, Mountable, Store!Init

LEMMA OpenStep ==
  ASSUME Disciplined, CoffeeInv, NEW n \in Names, NEW flags \in Modes, cfs_open(n, flags)
  PROVE  CoffeeInv' /\ Store!Next
  <1>1. Idle
    BY DEF cfs_open
  <1>2. PICK s, r : s = State /\ r = Open(s, n, flags)
    OBVIOUS
  <1>3. /\ Core(medium, s) /\ Unique(s.flash) /\ FlagsGood(s) /\ s.flash = medium
        /\ contents = Contents(medium) /\ Room(s) /\ NoOverhang(s.flash)
    BY <1>1, <1>2, IdleState, IdleDisciplined
  <1>4. flags \in Flags /\ flags # {}
    BY FlagFacts
  <1>5. /\ Core(medium, r.s) /\ Unique(r.s.flash) /\ Created(s.flash, r.s.flash, n)
        /\ \A d \in Fds : r.s.fds[d].flags \in {s.fds[d].flags, flags}
    BY ONLY <1>2, <1>3, <1>4, n \in Names, OpenFile
  <1>6. FlagsGood(r.s)
    BY ONLY <1>3, <1>5, flags \in Modes, FlagsKept
  <1>7. Commit(r.s)
    BY <1>2 DEF cfs_open
  <1>8. CoffeeInv' /\ contents' = Contents(r.s.flash)
    BY <1>1, <1>5, <1>6, <1>7, CommitGood
  <1>9. Store!Next
    <2>1. todo = <<>>
      BY <1>1 DEF Idle
    <2> QED BY <1>3, <1>5, <1>8, <2>1, StoreCreates
  <1> QED BY <1>8, <1>9

LEMMA CloseStep ==
  ASSUME CoffeeInv, NEW d \in Fds, cfs_close(d)
  PROVE  CoffeeInv' /\ Store!Next
  <1>1. Idle /\ fds[d].flags # {}
    BY DEF cfs_close
  <1>2. PICK s, t : s = State /\ t = Close(s, d)
    OBVIOUS
  <1>3. /\ Core(medium, s) /\ Unique(s.flash) /\ FlagsGood(s) /\ s.flash = medium
        /\ s.fds = fds /\ contents = Contents(medium)
    BY <1>1, <1>2, IdleState
  <1>4. /\ Core(medium, t) /\ SameFlash(t, s)
        /\ t.fds[d] = NoFd /\ \A e \in Fds : e # d => t.fds[e] = s.fds[e]
    BY <1>1, <1>2, <1>3, CloseFile
  <1>5. t.flash = s.flash
    BY <1>4 DEF SameFlash
  <1>6. FlagsGood(t)
    BY <1>3, <1>4, FlagFacts DEF FlagsGood
  <1>7. Commit(t) /\ Unique(t.flash)
    BY <1>2, <1>3, <1>5 DEF cfs_close
  <1>8. CoffeeInv' /\ contents' = Contents(t.flash)
    BY <1>1, <1>4, <1>6, <1>7, CommitGood
  <1> QED BY <1>3, <1>5, <1>8, StoreSettles

(* A call that touches no page *)
LEMMA QuietStep ==
  ASSUME CoffeeInv, Idle, NEW t, Commit(t), Core(medium, t), t.flash = medium,
         \A x \in Fds : t.fds[x].flags = fds[x].flags
  PROVE  CoffeeInv' /\ Store!Next
  <1>1. /\ Unique(medium) /\ FlagsGood(State) /\ State.fds = fds
        /\ contents = Contents(medium)
    BY IdleState
  <1>2. FlagsGood(t)
    BY <1>1 DEF FlagsGood
  <1>3. CoffeeInv' /\ contents' = Contents(t.flash)
    BY <1>1, <1>2, CommitGood
  <1> QED BY <1>1, <1>3, StoreSettles

LEMMA SeekStep ==
  ASSUME CoffeeInv, EndsWithin', NEW d \in Fds, NEW offset \in 0 .. MaxSeek,
         cfs_seek(d, offset)
  PROVE  CoffeeInv' /\ Store!Next
  <1>1. PICK s : s = State
    OBVIOUS
  <1>2. PICK t : t = Sought(s, d, offset)
    OBVIOUS
  <1>3. Idle /\ fds[d].flags # {}
    BY DEF cfs_seek
  <1>4. /\ Core(medium, s) /\ s.flash = medium /\ s.fds = fds
    BY <1>1, <1>3, IdleState
  <1>5. Commit(t)
    BY <1>1, <1>2, <1>4 DEF cfs_seek, Sought
  <1>6. /\ Core(medium, t) /\ t.flash = s.flash
        /\ \A x \in Fds : t.fds[x].flags = s.fds[x].flags
    <2>1. s.fds[d].flags # {}
      BY <1>3, <1>4
    <2>2. PICK i, f : i = s.fds[d].file /\ f = s.files[i]
      OBVIOUS
    <2>3. i \in Slots /\ f.max_pages > 0 /\ f.end \in Nat /\ f \in FileType
      BY <1>4, <2>1, <2>2, DescriptorFacts, SlotFacts
    <2>4. offset \in Nat
      BY CoffeeAssumption DEF CoffeeAssumption
    <2>5. files'[i] = [f EXCEPT !.end = Max({f.end, offset})]
      <3>1. files' = t.files
        BY <1>5 DEF Commit
      <3>2. s \in StateType
        BY <1>4, BaseFacts DEF Core
      <3>3. PICK table : table = [s.files EXCEPT ![i].end = Max({@, offset})]
        OBVIOUS
      <3>4. t.files = table
        <4>1. PICK set : set = [s.fds EXCEPT ![d].offset = offset]
          OBVIOUS
        <4>2. t = [s EXCEPT !.files = table, !.fds = set]
          BY <1>2, <2>2, <3>3, <4>1, Zenon DEF Sought
        <4> QED BY <3>2, <4>2, Zenon DEF StateType
      <3>5. table[i] = [f EXCEPT !.end = Max({f.end, offset})]
        BY <2>2, <2>3, <3>2, <3>3 DEF StateType
      <3> QED BY <3>1, <3>4, <3>5
    <2>6. Max({f.end, offset}) >= offset /\ Max({f.end, offset}) \in Int
      <3>1. f.end \in Int /\ offset \in Int
        BY <2>3, <2>4
      <3>2. Max({f.end, offset}) = IF f.end >= offset THEN f.end ELSE offset
        BY <3>1, Extrema
      <3> QED BY <3>1, <3>2
    <2>7. files'[i].max_pages = f.max_pages /\ files'[i].end = Max({f.end, offset})
      BY <2>3, <2>5 DEF FileType
    <2>8. files'[i].end < files'[i].max_pages
      BY <2>3, <2>7 DEF EndsWithin
    <2>9. offset < f.max_pages
      <3>1. f.max_pages \in Int
        BY <2>3, PageFacts DEF FileType
      <3> QED BY <2>4, <2>6, <2>7, <2>8, <3>1
    <2> QED BY ONLY <1>2, <1>4, <2>1, <2>2, <2>4, <2>9, d \in Fds, SeekFile
  <1> QED BY <1>3, <1>4, <1>5, <1>6, QuietStep

LEMMA ReadStep ==
  ASSUME CoffeeInv, NEW d \in Fds, cfs_read(d)
  PROVE  CoffeeInv' /\ Store!Next
  <1>1. PICK s : s = State
    OBVIOUS
  <1>2. PICK t : t = [s EXCEPT !.fds[d].offset = Min({@ + 1, s.files[s.fds[d].file].end})]
    OBVIOUS
  <1>3. Idle /\ fds[d].flags # {}
    BY DEF cfs_read
  <1>4. /\ Core(medium, s) /\ s.flash = medium /\ s.fds = fds /\ s.files = files
    BY <1>1, <1>3, IdleState
  <1>5. Commit(t)
    BY <1>1, <1>2, <1>4 DEF cfs_read
  <1>6. /\ Core(medium, t) /\ t.flash = s.flash
        /\ \A x \in Fds : t.fds[x].flags = s.fds[x].flags
    <2>1. s.fds[d].flags # {}
      BY <1>3, <1>4
    <2> QED BY ONLY <1>2, <1>4, <2>1, d \in Fds, ReadFile
  <1> QED BY <1>3, <1>4, <1>5, <1>6, QuietStep

LEMMA WriteStep ==
  ASSUME Disciplined, CoffeeInv, NEW d \in Fds, NEW v \in Values, cfs_write(d, v)
  PROVE  CoffeeInv' /\ Store!Next
  <1>1. Idle /\ fds[d].flags # {} /\ fds[d].offset < MaxLength
    BY DEF cfs_write
  <1>2. PICK s, t : s = State /\ t = Written(Extended(s, d), d, v)
    OBVIOUS
  <1>3. /\ Core(medium, s) /\ Unique(s.flash) /\ FlagsGood(s) /\ s.flash = medium
        /\ s.fds = fds /\ contents = Contents(medium)
        /\ Room(s) /\ NoOverhang(s.flash)
    BY <1>1, <1>2, IdleState, IdleDisciplined
  <1>4. PICK k : k = s.fds[d].offset
    OBVIOUS
  <1>5. /\ Core(medium, t) /\ Unique(t.flash)
        /\ Overwritten(s.flash, t.flash, k, v)
        /\ \A x \in Fds : t.fds[x].flags = s.fds[x].flags
    <2>1. s.fds[d].flags # {}
      BY <1>1, <1>3
    <2> QED BY ONLY <1>2, <1>3, <1>4, <2>1, d \in Fds, v \in Values, WriteFile
  <1>6. FlagsGood(t)
    BY <1>3, <1>5 DEF FlagsGood
  <1>7. Commit(t)
    BY <1>2 DEF cfs_write
  <1>8. CoffeeInv' /\ contents' = Contents(t.flash)
    BY <1>1, <1>5, <1>6, <1>7, CommitGood
  <1>9. k \in 0 .. MaxLength - 1
    <2>1. s.fds[d].offset \in Nat
      <3>1. s.fds[d].flags # {}
        BY <1>1, <1>3
      <3> QED BY <1>3, <3>1, DescriptorFacts
    <2>2. MaxLength \in Nat
      BY CoffeeAssumption DEF CoffeeAssumption
    <2> QED BY <1>1, <1>3, <1>4, <2>1, <2>2
  <1>10. Store!Next
    <2>1. todo = <<>>
      BY <1>1 DEF Idle
    <2>2. CASE contents' = contents
      BY <2>2, StoreSettles
    <2>3. CASE contents' # contents
      <3>1. PICK n \in Names :
               /\ contents[n] # Absent
               /\ contents' = [contents EXCEPT ![n] = Store!Put(contents[n], k, v)]
        BY <1>3, <1>5, <1>8, <2>3 DEF Overwritten
      <3>2. Store!Write(n)
        BY <1>9, <2>1, <3>1 DEF Store!Write
      <3> QED BY <3>2 DEF Store!Next
    <2> QED BY <2>2, <2>3
  <1> QED BY <1>8, <1>10

LEMMA RemoveStep ==
  ASSUME Disciplined, CoffeeInv, NEW n \in Names, cfs_remove(n)
  PROVE  CoffeeInv' /\ Store!Next
  <1>1. Idle
    BY DEF cfs_remove
  <1>2. PICK s, found : s = State /\ found = find_file(s, n)
    OBVIOUS
  <1>3. PICK t : t = remove_by_page(found.s, found.s.files[found.slot].page, TRUE)
    BY Zenon
  <1>4. found.slot # NoSlot /\ Commit(t)
    BY <1>2, <1>3, Zenon DEF cfs_remove
  <1>5. /\ Core(medium, s) /\ Unique(s.flash) /\ FlagsGood(s) /\ s.flash = medium
        /\ contents = Contents(medium) /\ Room(s) /\ NoOverhang(s.flash)
    BY <1>1, <1>2, IdleState, IdleDisciplined
  <1>6. /\ Core(medium, t) /\ Unique(t.flash) /\ Deleted(s.flash, t.flash, n)
        /\ \A d \in Fds : t.fds[d].flags \in {s.fds[d].flags, {}}
    BY ONLY <1>2, <1>3, <1>4, <1>5, n \in Names, RemoveCall, Zenon
  <1>7. FlagsGood(t)
    BY <1>5, <1>6 DEF FlagsGood
  <1>8. CoffeeInv' /\ contents' = Contents(t.flash)
    BY <1>1, <1>4, <1>6, <1>7, CommitGood
  <1>9. Store!Next
    <2>1. todo = <<>>
      BY <1>1 DEF Idle
    <2>2. contents[n] # Absent /\ contents' = [contents EXCEPT ![n] = Absent]
      BY <1>5, <1>6, <1>8 DEF Deleted
    <2>3. Store!Remove(n)
      BY <2>1, <2>2 DEF Store!Remove
    <2> QED BY <2>3 DEF Store!Next
  <1> QED BY <1>8, <1>9

LEMMA ReserveStep ==
  ASSUME Disciplined, CoffeeInv, NEW n \in Names, NEW size \in Sizes,
         cfs_coffee_reserve(n, size)
  PROVE  CoffeeInv' /\ Store!Next
  <1>1. Idle
    BY DEF cfs_coffee_reserve
  <1>2. PICK s, found : s = State /\ found = find_file(s, n)
    OBVIOUS
  <1>3. PICK t : t = IF found.slot # NoSlot THEN found.s ELSE reserve(found.s, n, size + 1).s
    OBVIOUS
  <1>4. Commit(t)
    BY <1>2, <1>3 DEF cfs_coffee_reserve
  <1>5. /\ Core(medium, s) /\ Unique(s.flash) /\ FlagsGood(s) /\ s.flash = medium
        /\ contents = Contents(medium) /\ Room(s) /\ NoOverhang(s.flash)
    BY <1>1, <1>2, IdleState, IdleDisciplined
  <1>6. /\ Core(medium, t) /\ Unique(t.flash) /\ Created(s.flash, t.flash, n)
        /\ t.fds = s.fds
    BY ONLY <1>2, <1>3, <1>5, n \in Names, size \in Sizes, ReserveCall
  <1>7. FlagsGood(t)
    BY <1>5, <1>6 DEF FlagsGood
  <1>8. CoffeeInv' /\ contents' = Contents(t.flash)
    BY <1>1, <1>4, <1>6, <1>7, CommitGood
  <1>9. Store!Next
    <2>1. todo = <<>>
      BY <1>1 DEF Idle
    <2> QED BY <1>5, <1>6, <1>8, <2>1, StoreCreates
  <1> QED BY <1>8, <1>9

LEMMA FormatStep ==
  ASSUME CoffeeInv, cfs_coffee_format
  PROVE  CoffeeInv' /\ Store!Next
  <1>1. PICK fl : fl = [p \in Pages |-> Free]
    OBVIOUS
  <1>2. /\ todo = <<>> /\ todo' = [x \in 1 .. SECTOR_COUNT |-> Erase(x - 1)]
        /\ contents' = [n \in Names |-> Absent] /\ files' = [i \in Slots |-> NoFile]
        /\ fds' = [d \in Fds |-> NoFd] /\ next_free' = 0 /\ gc_wait' = FALSE
        /\ mountable' = TRUE /\ medium' = medium /\ tears' = tears
    BY DEF cfs_coffee_format
  <1>3. Laid(medium)
    BY ShadowFields, LeadsEnds DEF CoffeeInv, Sound
  <1>4. Leads(medium', todo', fl)
    BY ONLY <1>1, <1>2, <1>3, FormatLeads
  <1>5. Image' = fl
    BY <1>4, NextImage
  <1>6. /\ Laid(fl) /\ Searchable(fl) /\ Unique(fl)
        /\ Contents(fl) = [n \in Names |-> Absent]
    BY <1>1, EmptyMedium
  <1>7. Sound(medium', Shadow')
    <2>1. PICK s : s = Shadow'
      OBVIOUS
    <2>2. s = [flash |-> fl, files |-> [i \in Slots |-> NoFile],
               fds |-> [d \in Fds |-> NoFd], next_free |-> 0, gc_wait |-> FALSE,
               ops |-> todo']
      BY <1>2, <1>5, <2>1, Zenon DEF Shadow
    <2>3. Sound(medium', s)
      BY ONLY <1>4, <2>2, FreshState
    <2> QED BY <2>1, <2>3
  <1>8. CoffeeInv'
    <2>1. tears' \in 0 .. MaxTears
      BY <1>2 DEF CoffeeInv
    <2>2. contents' = Contents(Image') /\ Mountable(Image')
      BY <1>2, <1>5, <1>6 DEF Mountable
    <2> QED BY <1>2, <1>7, <2>1, <2>2 DEF CoffeeInv
  <1>9. Store!Format
    BY <1>2 DEF Store!Format
  <1> QED BY <1>8, <1>9 DEF Store!Next

(* The shadow does not change, but for the operations to come. *)
LEMMA SoundFlash ==
  ASSUME NEW m, NEW s, Sound(m, s), NEW l, NEW t,
         t.flash = s.flash, t.files = s.files, t.fds = s.fds,
         t.next_free = s.next_free, t.gc_wait = s.gc_wait, t \in StateType,
         Leads(l, t.ops, s.flash)
  PROVE  Sound(l, t)
  <1>1. HintsGood(t)
    BY DEF Sound, HintsGood
  <1>2. \A i : Users(t, i) = Users(s, i)
    BY DEF Users
  <1>3. \A d \in Fds : GoodFd(t, d)
    BY DEF Sound, FilesGood, GoodFd
  <1>4. FilesGood(t)
    BY <1>2, <1>3 DEF Sound, FilesGood
  <1>5. FlagsGood(t)
    BY DEF Sound, FlagsGood
  <1> QED BY <1>1, <1>4, <1>5 DEF Sound

LEMMA FlashStep ==
  ASSUME CoffeeInv, flash_step
  PROVE  CoffeeInv' /\ Store!Next
  <1>1. /\ todo # <<>> /\ medium' = Apply(medium, Head(todo)) /\ todo' = Tail(todo)
        /\ files' = files /\ fds' = fds /\ next_free' = next_free /\ gc_wait' = gc_wait
        /\ tears' = tears /\ mountable' = mountable /\ contents' = contents
    BY DEF flash_step
  <1>2. PICK s, t : s = Shadow /\ t = Shadow'
    OBVIOUS
  <1>3. /\ s.flash = Image /\ s.files = files /\ s.fds = fds
        /\ s.next_free = next_free /\ s.gc_wait = gc_wait /\ s.ops = todo
    BY <1>2 DEF Shadow
  <1>4. Sound(medium, s) /\ s \in StateType
    BY <1>2 DEF CoffeeInv, Sound
  <1>5. Leads(medium', todo', Image)
    <2>1. Leads(medium, todo, Image)
      BY <1>3, <1>4 DEF Sound
    <2>2. Leads(Apply(medium, Head(todo)), Tail(todo), Image)
      BY ONLY <1>1, <2>1, LeadsStep
    <2> QED BY <1>1, <2>2
  <1>6. Image' = Image
    BY <1>5, NextImage
  <1>7. t = [flash |-> Image, files |-> files, fds |-> fds, next_free |-> next_free,
             gc_wait |-> gc_wait, ops |-> todo']
    BY <1>1, <1>2, <1>6, Zenon DEF Shadow
  <1>8. Sound(medium', t)
    <2>1. todo' \in Seq(GoodOps)
      BY <1>5, LeadsEnds
    <2>2. t \in StateType
      BY <1>3, <1>4, <1>7, <2>1 DEF StateType
    <2>3. Leads(medium', t.ops, s.flash)
      BY <1>3, <1>5, <1>7
    <2>4. /\ t.flash = s.flash /\ t.files = s.files /\ t.fds = s.fds
          /\ t.next_free = s.next_free
      BY <1>3, <1>7
    <2>5. t.gc_wait = s.gc_wait
      BY <1>3, <1>7, Zenon
    <2> QED BY ONLY <1>4, <2>2, <2>3, <2>4, <2>5, SoundFlash
  <1>9. Clean(s) => Clean(t)
    BY <1>3, <1>7 DEF Clean
  <1>10. CoffeeInv'
    <2>1. Sound(medium', Shadow')
      BY <1>2, <1>8
    <2>2. /\ mountable' => Mountable(Image')
          /\ ~mountable' => Clean(Shadow')
      <3>1. mountable => Mountable(Image)
        BY DEF CoffeeInv
      <3>2. ~mountable => Clean(s)
        BY <1>2 DEF CoffeeInv
      <3> QED BY <1>1, <1>2, <1>6, <1>9, <3>1, <3>2
    <2>3. tears' \in 0 .. MaxTears /\ mountable' \in BOOLEAN /\ contents' = Contents(Image')
      BY <1>1, <1>6 DEF CoffeeInv
    <2> QED BY <2>1, <2>2, <2>3 DEF CoffeeInv
  <1> QED BY <1>1, <1>10, StoreSettles

LEMMA ResetStep ==
  ASSUME CoffeeInv, reset
  PROVE  CoffeeInv' /\ Store!Next
  <1>1. /\ Leads(medium, todo, Image) /\ tears \in 0 .. MaxTears /\ MaxTears \in Nat
        /\ contents = Contents(Image)
    BY ShadowFields, CoffeeAssumption DEF CoffeeInv, Sound, CoffeeAssumption
  <1>2. /\ mountable' = (mountable /\ HeadersOnly(medium') /\ FreeToTheEnd(medium')
                           /\ NoNameTwice(medium'))
        /\ contents' = Contents(medium') /\ todo' = <<>>
        /\ files' = [i \in Slots |-> NoFile] /\ fds' = [d \in Fds |-> NoFd]
        /\ next_free' = 0 /\ gc_wait' = FALSE
    BY DEF reset
  <1>3. /\ Laid(medium') /\ tears' \in 0 .. MaxTears
        /\ todo = <<>> => medium' = medium
    <2>1. CASE UNCHANGED <<medium, tears>>
      BY <1>1, <2>1, LeadsEnds
    <2>2. CASE ~UNCHANGED <<medium, tears>>
      <3>1. /\ todo # <<>> /\ tears < MaxTears /\ tears' = tears + 1
            /\ \E last \in SectorPages(Head(todo).sector) :
                  medium' = Torn(medium, Head(todo), last)
        BY <2>2 DEF reset
      <3>2. /\ Head(todo) \in GoodOps /\ Laid(medium)
            /\ Laid(Apply(medium, Head(todo)))
        BY <1>1, <3>1, LeadsStep, LeadsEnds
      <3>3. Laid(medium')
        BY <3>1, <3>2, LaidTorn
      <3> QED BY <1>1, <3>1, <3>3
    <2> QED BY <2>1, <2>2
  <1>4. Laid(medium') /\ Leads(medium', todo', medium')
    BY <1>2, <1>3, LeadsNothing
  <1>5. Image' = medium'
    BY <1>4, NextImage
  <1>6. Sound(medium', Shadow') /\ Clean(Shadow')
    <2>1. PICK s : s = Shadow'
      OBVIOUS
    <2>2. s = [flash |-> medium', files |-> [i \in Slots |-> NoFile],
               fds |-> [d \in Fds |-> NoFd], next_free |-> 0, gc_wait |-> FALSE,
               ops |-> todo']
      BY <1>2, <1>5, <2>1, Zenon DEF Shadow
    <2>3. Sound(medium', s) /\ Clean(s)
      BY ONLY <1>4, <2>2, FreshState
    <2> QED BY <2>1, <2>3
  <1>7. mountable' \in BOOLEAN
    BY <1>2, Zenon
  <1>8. mountable' => Mountable(Image')
    <2>1. mountable' => HeadersOnly(medium') /\ FreeToTheEnd(medium') /\ NoNameTwice(medium')
      BY <1>2, Zenon
    <2>2. mountable' => Searchable(medium') /\ Unique(medium')
      BY <1>4, <2>1, Mounted
    <2> QED BY <1>5, <2>2 DEF Mountable
  <1>9. contents' = Contents(Image')
    BY <1>2, <1>5
  <1>10. CoffeeInv'
    BY <1>3, <1>6, <1>7, <1>8, <1>9 DEF CoffeeInv
  <1>11. Store!Next
    <2>1. CASE todo = <<>>
      <3>1. Image = medium
        BY <1>1, <2>1, LeadsEnds
      <3>2. contents' = contents
        BY <1>1, <1>2, <1>3, <2>1, <3>1
      <3> QED BY <3>2, StoreSettles
    <2>2. CASE todo # <<>>
      <3>1. DOMAIN contents' = Names
        <4>1. contents' = [n \in Names |-> contents'[n]]
          BY <1>2 DEF Contents
        <4> QED BY <4>1
      <3>2. Store!Interrupted
        BY <1>2, <2>2, <3>1 DEF Store!Interrupted
      <3> QED BY <3>2 DEF Store!Next
    <2> QED BY <2>1, <2>2
  <1> QED BY <1>10, <1>11

LEMMA StutterStep ==
  ASSUME CoffeeInv, UNCHANGED vars
  PROVE  CoffeeInv' /\ UNCHANGED Store!vars
  <1>1. /\ medium' = medium /\ files' = files /\ fds' = fds /\ next_free' = next_free
        /\ gc_wait' = gc_wait /\ todo' = todo /\ tears' = tears
        /\ mountable' = mountable /\ contents' = contents
    BY DEF vars
  <1>2. Leads(medium', todo', Image)
    BY <1>1, ShadowFields DEF CoffeeInv, Sound
  <1>3. Image' = Image
    BY <1>2, NextImage
  <1>4. Shadow' = Shadow
    BY <1>1, <1>3, Zenon DEF Shadow
  <1>5. CoffeeInv'
    BY <1>1, <1>3, <1>4 DEF CoffeeInv
  <1>6. UNCHANGED Store!vars
    BY <1>1 DEF Store!vars
  <1> QED BY <1>5, <1>6

-----------------------------------------------------------------------------
(* What the invariant says *)

(* A search stays on the pages of the flash, also when it goes astray. *)
LEMMA ChainPages ==
  ASSUME NEW fl, Laid(fl)
  PROVE  Chain(fl, 0, PAGE_COUNT) \subseteq Pages
  <1>1. PAGE_COUNT \in Nat /\ fl \in Media /\ PAGE_COUNT <= PAGE_COUNT
    BY PageFacts DEF Laid
  <1>2. \A p \in Nat : Chain(fl, p, PAGE_COUNT) =
            IF p >= PAGE_COUNT THEN {} ELSE {p} \cup Chain(fl, next_file(fl, p), PAGE_COUNT)
    BY <1>1, ChainUnfold, NextIs
  <1>3. ASSUME NEW p \in Pages PROVE next_file(fl, p) \in Nat /\ p < next_file(fl, p)
    <2>1. p \in Nat /\ p < Sector(p) * PAGES_PER_SECTOR + PAGES_PER_SECTOR
      BY PageFacts, SectorFacts
    <2>2. IsHeader(fl[p]) => fl[p].max_pages \in Nat /\ fl[p].max_pages > 0
      BY HeaderFacts
    <2>3. /\ next_file(fl, p) \in Nat
          /\ \/ next_file(fl, p) = Sector(p) * PAGES_PER_SECTOR + PAGES_PER_SECTOR
             \/ next_file(fl, p) = p + 1
             \/ IsHeader(fl[p]) /\ next_file(fl, p) = p + fl[p].max_pages
      BY <1>1, NextIs, MediumPage DEF IsHeader
    <2> QED BY <2>1, <2>2, <2>3
  <1>4. PICK T : T = {d \in Nat : \A p \in Nat : PAGE_COUNT <= p + d
                                     => Chain(fl, p, PAGE_COUNT) \subseteq Pages}
    OBVIOUS
  <1>5. 0 \in T
    BY <1>1, <1>2, <1>4
  <1>6. ASSUME NEW d \in Nat, d \in T PROVE d + 1 \in T
    <2> SUFFICES ASSUME NEW p \in Nat, PAGE_COUNT <= p + (d + 1), p < PAGE_COUNT
                 PROVE  Chain(fl, p, PAGE_COUNT) \subseteq Pages
      BY <1>1, <1>2, <1>4
    <2>1. p \in Pages
      BY <1>1, PageFacts
    <2>2. PICK n : n = next_file(fl, p)
      OBVIOUS
    <2>3. n \in Nat /\ PAGE_COUNT <= n + d
      BY <1>1, <1>3, <2>1, <2>2
    <2>4. Chain(fl, n, PAGE_COUNT) \subseteq Pages
      BY <1>4, <1>6, <2>3
    <2>5. Chain(fl, p, PAGE_COUNT) = {p} \cup Chain(fl, n, PAGE_COUNT)
      BY <1>1, <1>2, <2>2
    <2> QED BY <2>1, <2>4, <2>5
  <1>7. Nat \subseteq T
    BY <1>5, <1>6, SetInduction
  <1>8. PAGE_COUNT \in T /\ PAGE_COUNT <= 0 + PAGE_COUNT
    BY <1>1, <1>7
  <1> QED BY <1>4, <1>8

LEMMA NamedActive ==
  ASSUME NEW fl, Laid(fl), NEW n, NEW p \in Named(fl, n)
  PROVE  p \in Active(fl) /\ fl[p].name = n
  BY ChainPages DEF Named, Extents, Active

(* Where a search of a medium in order stands, no extent goes over. *)
LEMMA UncoveredInChain ==
  ASSUME NEW fl, Laid(fl), Searchable(fl), NEW p \in Chain(fl, 0, PAGE_COUNT)
  PROVE  p \in Pages /\ Uncovered(fl, p)
  <1>1. PAGE_COUNT <= PAGE_COUNT /\ PAGE_COUNT \in Nat /\ Uncovered(fl, 0)
    BY PageFacts, ZeroUncovered
  <1> QED BY <1>1, SearchMeets DEF Meets

LEMMA InvFacts ==
  ASSUME CoffeeInv
  PROVE  /\ Laid(medium) /\ Laid(Image) /\ Leads(medium, todo, Image)
         /\ Shadow \in StateType /\ HintsGood(Shadow) /\ FilesGood(Shadow)
         /\ FlagsGood(Shadow)
  BY ShadowFields, LeadsEnds DEF CoffeeInv, Sound

LEMMA InvTypes ==
  ASSUME CoffeeInv
  PROVE  TypeOK
  <1>1. PICK s : s = Shadow
    OBVIOUS
  <1>2. /\ Laid(medium) /\ s \in StateType /\ HintsGood(s) /\ FilesGood(s) /\ FlagsGood(s)
    BY <1>1, InvFacts
  <1>3. /\ s.files = files /\ s.fds = fds /\ s.next_free = next_free /\ s.gc_wait = gc_wait
    BY <1>1 DEF Shadow
  <1>4. medium \in [Pages -> [kind : {"free", "active", "obsolete", "isolated", "data"},
                              name : Names \cup {Absent},
                              max_pages : 0 .. PAGE_COUNT,
                              value : Values \cup {Zero}]]
    BY <1>2 DEF Laid, Media, PageType
  <1>5. files \in [Slots -> [page : Pages \cup {INVALID_PAGE},
                             max_pages : 0 .. PAGE_COUNT,
                             end : Nat \cup {UNKNOWN_OFFSET},
                             references : 0 .. FD_SET_SIZE]]
    <2>1. files \in [Slots -> FileType]
      BY <1>2, <1>3 DEF StateType
    <2>2. \A i \in Slots : files[i].references \in 0 .. FD_SET_SIZE
      BY <1>2, <1>3, UsersFacts DEF FilesGood
    <2> QED BY <2>1, <2>2 DEF FileType
  <1>6. fds \in [Fds -> [flags : Modes \cup {{}}, file : Slots \cup {NoSlot}, offset : Nat]]
    <2>1. fds \in [Fds -> FdType]
      BY <1>2, <1>3 DEF StateType
    <2>2. \A d \in Fds : fds[d].flags \in Modes \cup {{}}
      BY <1>2, <1>3 DEF FlagsGood
    <2> QED BY <2>1, <2>2 DEF FdType
  <1>7. next_free \in 0 .. PAGE_COUNT
    BY <1>2, <1>3, PageFacts DEF StateType, HintsGood
  <1>8. gc_wait \in BOOLEAN
    BY <1>2, <1>3, Zenon DEF StateType
  <1>9. tears \in 0 .. MaxTears /\ mountable \in BOOLEAN
    <2>1. MaxTears \in Nat
      BY CoffeeAssumption DEF CoffeeAssumption
    <2> QED BY <2>1 DEF CoffeeInv
  <1> QED BY <1>4, <1>5, <1>6, <1>7, <1>8, <1>9 DEF TypeOK

LEMMA InvExtents ==
  ASSUME CoffeeInv
  PROVE  ExtentsApart
  <1> SUFFICES ASSUME mountable PROVE ExtentsApart
    BY DEF ExtentsApart
  <1>1. PICK fl : fl = Image
    OBVIOUS
  <1>2. Laid(fl) /\ Extents(fl) = Active(fl)
    <2>1. Searchable(fl)
      BY <1>1 DEF CoffeeInv, Mountable
    <2> QED BY <1>1, <2>1, InvFacts, ExtentsActive
  <1>3. ASSUME NEW p \in Active(fl), NEW q \in Active(fl), p # q
        PROVE  ExtentOf(fl, p) \cap ExtentOf(fl, q) = {}
    <2> SUFFICES ASSUME NEW x, x \in ExtentOf(fl, p), x \in ExtentOf(fl, q) PROVE FALSE
      OBVIOUS
    <2>1. /\ p \in Pages /\ q \in Pages /\ p \in Nat /\ q \in Nat
          /\ IsHeader(fl[p]) /\ IsHeader(fl[q])
          /\ fl[p].max_pages \in Nat /\ fl[q].max_pages \in Nat
      BY <1>2, ActiveFacts
    <2>2. /\ x \in Nat /\ p <= x /\ x < p + fl[p].max_pages
          /\ q <= x /\ x < q + fl[q].max_pages
      BY <2>1 DEF ExtentOf
    <2>3. CASE p < q
      BY <1>2, <2>1, <2>2, <2>3, HeadersApart
    <2>4. CASE q < p
      BY <1>2, <2>1, <2>2, <2>4, HeadersApart
    <2> QED BY <1>3, <2>1, <2>3, <2>4
  <1>4. ASSUME NEW i \in Slots, files[i].max_pages > 0
        PROVE  files[i].page \in Active(fl)
    <2>1. GoodSlot(fl, files[i])
      BY <1>1, InvFacts, ShadowFields DEF FilesGood
    <2> QED BY <1>4, <2>1 DEF GoodSlot
  <1> QED BY <1>1, <1>2, <1>3, <1>4 DEF ExtentsApart

LEMMA InvNames ==
  ASSUME CoffeeInv
  PROVE  OneExtentEach
  <1> SUFFICES ASSUME mountable PROVE OneExtentEach
    BY DEF OneExtentEach
  <1>1. PICK fl, cached : fl = Image /\ cached = {i \in Slots : files[i].max_pages > 0}
    OBVIOUS
  <1>2. Laid(fl) /\ Searchable(fl) /\ Unique(fl)
    BY <1>1, InvFacts DEF CoffeeInv, Mountable
  <1>3. ASSUME NEW i \in cached, NEW j \in cached, fl[files[i].page].name = fl[files[j].page].name
        PROVE  i = j
    <2>1. /\ \A x \in Slots : GoodSlot(fl, files[x])
          /\ \A x, y \in Slots : /\ files[x].max_pages > 0 /\ files[y].max_pages > 0
                                 /\ files[x].page = files[y].page
                                 => x = y
      BY <1>1, InvFacts, ShadowFields DEF FilesGood
    <2>2. files[i].page \in Active(fl) /\ files[j].page \in Active(fl)
      BY <1>1, <2>1 DEF GoodSlot
    <2>3. files[i].page = files[j].page
      BY <1>2, <1>3, <2>2 DEF Unique
    <2> QED BY <1>1, <2>1, <2>3
  <1>4. IsInjective([i \in cached |-> fl[files[i].page].name])
    BY <1>3 DEF IsInjective
  <1>5. NoNameTwice(fl)
    <2> SUFFICES ASSUME NEW n \in Names PROVE Cardinality(Named(fl, n)) <= 1
      BY DEF NoNameTwice
    <2>1. Named(fl, n) = {p \in Active(fl) : fl[p].name = n}
      BY <1>2, ExtentsActive
    <2>2. CASE Named(fl, n) = {}
      BY <2>2, FS_EmptySet
    <2>3. CASE Named(fl, n) # {}
      <3>1. PICK p : p \in Named(fl, n)
        BY <2>3
      <3>2. Named(fl, n) = {p}
        BY <1>2, <2>1, <3>1 DEF Unique
      <3>3. Cardinality({p}) = 1
        BY FS_Singleton
      <3> QED BY <3>2, <3>3
    <2> QED BY <2>2, <2>3
  <1> QED BY <1>1, <1>4, <1>5 DEF OneExtentEach

LEMMA InvDescriptors ==
  ASSUME CoffeeInv
  PROVE  DescriptorsSound
  <1>1. PICK s : s = Shadow
    OBVIOUS
  <1>2. s.files = files /\ s.fds = fds /\ s.flash = Image
    BY <1>1, ShadowFields
  <1>3. FilesGood(s)
    BY <1>1, InvFacts
  <1>4. ASSUME NEW d \in Fds, fds[d].flags # {}
        PROVE  /\ files[fds[d].file].max_pages > 0
               /\ fds[d].offset <= files[fds[d].file].end
    BY <1>2, <1>3, <1>4 DEF FilesGood, GoodFd
  <1>5. ASSUME NEW i \in Slots, files[i].max_pages > 0
        PROVE  /\ files[i].references =
                     Cardinality({d \in Fds : fds[d].flags # {} /\ fds[d].file = i})
               /\ files[i].end # UNKNOWN_OFFSET => files[i].end >= file_end(Image, files[i].page)
    <2>1. files[i].references = Cardinality(Users(s, i))
      BY <1>2, <1>3 DEF FilesGood
    <2>2. Users(s, i) = {d \in Fds : fds[d].flags # {} /\ fds[d].file = i}
      BY <1>2 DEF Users
    <2>3. GoodSlot(Image, files[i])
      BY <1>2, <1>3 DEF FilesGood
    <2>4. files[i].end # UNKNOWN_OFFSET => file_end(Image, files[i].page) <= files[i].end
      BY <1>5, <2>3 DEF GoodSlot
    <2>5. files[i].page \in Active(Image)
      BY <1>5, <2>3 DEF GoodSlot
    <2>6. file_end(Image, files[i].page) \in Nat
      BY <2>5, InvFacts, ActiveFacts, FileEnd
    <2>7. files[i].end \in Nat \cup {UNKNOWN_OFFSET}
      BY InvTypes DEF TypeOK
    <2>8. files[i].end # UNKNOWN_OFFSET => files[i].end >= file_end(Image, files[i].page)
      BY <2>4, <2>6, <2>7
    <2> QED BY <2>1, <2>2, <2>8
  <1> QED BY <1>4, <1>5 DEF DescriptorsSound

LEMMA InvHints ==
  ASSUME CoffeeInv
  PROVE  HintsSound
  <1> SUFFICES ASSUME mountable PROVE HintsSound
    BY DEF HintsSound
  <1>1. PICK fl, s : fl = Image /\ s = [State EXCEPT !.flash = fl]
    OBVIOUS
  <1>2. /\ s.flash = fl /\ s.files = files /\ s.fds = fds /\ s.next_free = next_free
        /\ s.gc_wait = gc_wait /\ s.ops = <<>>
    BY <1>1 DEF State
  <1>3. /\ Laid(fl) /\ HintsGood(Shadow) /\ Shadow.gc_wait = gc_wait /\ Shadow \in StateType
        /\ Searchable(fl)
    BY <1>1, InvFacts DEF CoffeeInv, Mountable, Shadow
  <1>4. HintsGood(s)
    BY <1>1, <1>2, <1>3, ShadowFields DEF HintsGood
  <1>5. s \in StateType
    <2>1. s = [flash |-> fl, files |-> files, fds |-> fds, next_free |-> next_free,
               gc_wait |-> gc_wait, ops |-> <<>>]
      BY <1>1 DEF State
    <2>2. /\ fl \in Media /\ files \in [Slots -> FileType] /\ fds \in [Fds -> FdType]
          /\ next_free \in Nat
      BY <1>1, <1>3, ShadowFields DEF StateType
    <2>3. gc_wait \in BOOLEAN
      BY <1>3, Zenon DEF StateType
    <2> QED BY <2>1, <2>2, <2>3 DEF StateType
  <1>6. Base(fl, s)
    <2>1. Leads(fl, s.ops, s.flash)
      BY <1>2, <1>3, LeadsNothing
    <2> QED BY <1>2, <1>3, <1>4, <1>5, <2>1 DEF Base
  <1>7. ASSUME gc_wait PROVE collect_garbage(s).ops = <<>>
    <2>1. Useless(s.flash) /\ NoOverhang(s.flash)
      BY <1>2, <1>3, <1>4, <1>7, UselessNoOverhang DEF HintsGood
    <2>2. collect_garbage(s) = s
      BY <1>6, <2>1, Collected
    <2> QED BY <1>2, <2>2
  <1>8. \A p \in Chain(fl, 0, PAGE_COUNT) : p < next_free => fl[p].kind # "free"
    BY <1>2, <1>3, <1>4, UncoveredInChain DEF HintsGood
  <1> QED BY <1>1, <1>7, <1>8 DEF HintsSound

-----------------------------------------------------------------------------
(* The invariant holds *)

LEMMA InvNext ==
  ASSUME Disciplined, Disciplined', CoffeeInv, Next
  PROVE  CoffeeInv' /\ Store!Next
  <1>1. ASSUME NEW n \in Names, NEW flags \in Modes, cfs_open(n, flags)
        PROVE  CoffeeInv' /\ Store!Next
    BY <1>1, OpenStep
  <1>2. ASSUME NEW n \in Names, NEW size \in Sizes, cfs_coffee_reserve(n, size)
        PROVE  CoffeeInv' /\ Store!Next
    BY <1>2, ReserveStep
  <1>3. ASSUME NEW n \in Names, cfs_remove(n)
        PROVE  CoffeeInv' /\ Store!Next
    BY <1>3, RemoveStep
  <1>4. ASSUME NEW d \in Fds, cfs_close(d)
        PROVE  CoffeeInv' /\ Store!Next
    BY <1>4, CloseStep
  <1>5. ASSUME NEW d \in Fds, cfs_read(d)
        PROVE  CoffeeInv' /\ Store!Next
    BY <1>5, ReadStep
  <1>6. ASSUME NEW d \in Fds, NEW offset \in 0 .. MaxSeek, cfs_seek(d, offset)
        PROVE  CoffeeInv' /\ Store!Next
    BY <1>6, SeekStep DEF Disciplined
  <1>7. ASSUME NEW d \in Fds, NEW v \in Values, cfs_write(d, v)
        PROVE  CoffeeInv' /\ Store!Next
    BY <1>7, WriteStep
  <1>8. CASE cfs_coffee_format
    BY <1>8, FormatStep
  <1>9. CASE flash_step
    BY <1>9, FlashStep
  <1>10. CASE reset
    BY <1>10, ResetStep
  <1> QED BY <1>1, <1>2, <1>3, <1>4, <1>5, <1>6, <1>7, <1>8, <1>9, <1>10 DEF Next

LEMMA InvHolds == Spec /\ []Disciplined => []CoffeeInv
  <1>1. Init => CoffeeInv
    BY CoffeeAssumption, InvInit
  <1>2. CoffeeInv /\ Disciplined /\ Disciplined' /\ [Next]_vars => CoffeeInv'
    <2>1. ASSUME Disciplined, Disciplined', CoffeeInv, Next PROVE CoffeeInv'
      BY <2>1, InvNext
    <2>2. ASSUME CoffeeInv, UNCHANGED vars PROVE CoffeeInv'
      BY <2>2, StutterStep
    <2> QED BY <2>1, <2>2
  <1> QED BY <1>1, <1>2, PTL DEF Spec

(* The cache, the descriptors and the hints keep their types; a file is     *)
(* never referred to by more descriptors than there are, although every     *)
(* extension of a file opens it once more (merge_log, cfs-coffee.c:820).    *)
THEOREM CoffeeTypeCorrect == Spec /\ []Disciplined => []TypeOK
  <1>1. CoffeeInv => TypeOK
    BY InvTypes
  <1> QED BY <1>1, InvHolds, PTL

(* No sequence of calls, and no restart between two flash operations of a   *)
(* call, makes two extents overlap, or leaves a file in the cache whose     *)
(* extent the search of next_file (cfs-coffee.c:412) does not meet.         *)
THEOREM ExtentsStayApart == Spec /\ []Disciplined => []ExtentsApart
  <1>1. CoffeeInv => ExtentsApart
    BY InvExtents
  <1> QED BY <1>1, InvHolds, PTL

(* No name stands on two headers of the medium nor in two slots of the      *)
(* cache: a file is not loaded a second time (find_file, cfs-coffee.c:482), *)
(* and one that was extended, lost in a restart or removed is not found at  *)
(* its old place (merge_log, 820; remove_by_page, 518).                     *)
THEOREM NamesStayUnique == Spec /\ []Disciplined => []OneExtentEach
  <1>1. CoffeeInv => OneExtentEach
    BY InvNames
  <1> QED BY <1>1, InvHolds, PTL

(* The slot of an open descriptor is its own for as long as it is open, its *)
(* count of references is exact, and the offset that cfs_read subtracts     *)
(* (cfs-coffee.c:1110) is at most the end, through every extension.         *)
THEOREM DescriptorsStaySound == Spec /\ []Disciplined => []DescriptorsSound
  <1>1. CoffeeInv => DescriptorsSound
    BY InvDescriptors
  <1> QED BY <1>1, InvHolds, PTL

(* The hints next_free and gc_wait never hide a free page from              *)
(* find_contiguous_pages (cfs-coffee.c:559) nor an erasable sector from     *)
(* reserve (641).                                                           *)
THEOREM HintsStaySound == Spec /\ []Disciplined => []HintsSound
  <1>1. CoffeeInv => HintsSound
    BY InvHints
  <1> QED BY <1>1, InvHolds, PTL

(* A flash operation leaves the files outside the sector that it writes,    *)
(* also when a restart tears it half way                                    *)
(* (stm32f10xx_flash_write, cfs-coffee-arch.c:105).                         *)
THEOREM FlashStaysLocal == Spec /\ []Disciplined => FlashIsLocal
  <1> DEFINE Local ==
        todo # <<>> /\ HeadersOnly(medium') /\ FreeToTheEnd(medium') =>
           \A n \in Names : \A p \in Named(medium, n) :
               (\A q \in ExtentOf(medium, p) : Sector(q) # Head(todo).sector)
               => p \in Named(medium', n)
  <1>1. ASSUME CoffeeInv, CoffeeInv', Next PROVE Local
    <2> SUFFICES ASSUME todo # <<>>, HeadersOnly(medium'), FreeToTheEnd(medium'),
                        NEW n \in Names, NEW p \in Named(medium, n),
                        \A q \in ExtentOf(medium, p) : Sector(q) # Head(todo).sector
                 PROVE  p \in Named(medium', n)
      OBVIOUS
    <2>1. \/ medium' = medium \/ medium' = Apply(medium, Head(todo))
          \/ \E last : medium' = Torn(medium, Head(todo), last)
      <3>1. flash_step \/ reset
        BY Zenon, <1>1 DEF Next, cfs_open, cfs_coffee_reserve, cfs_remove, cfs_close, cfs_read,
                    cfs_seek, cfs_write, cfs_coffee_format, Idle
      <3> QED BY <3>1 DEF flash_step, reset
    <2>2. Laid(medium) /\ Leads(medium, todo, Image)
      BY <1>1, InvFacts
    <2>3. Laid(medium') /\ Searchable(medium')
      <3>1. Sound(medium', Shadow')
        BY <1>1 DEF CoffeeInv
      <3>2. Laid(medium')
        BY <3>1, LeadsEnds DEF Sound
      <3> QED BY <3>2, SearchableIf
    <2>4. p \in Active(medium) /\ medium[p].name = n
      BY <2>2, NamedActive
    <2>5. p \in Pages /\ p \in Nat /\ medium[p].max_pages \in Nat /\ medium[p].max_pages > 0
      BY <2>2, <2>4, ActiveFacts
    <2>6. Sector(p) # Head(todo).sector
      <3>1. p \in ExtentOf(medium, p)
        BY <2>5 DEF ExtentOf
      <3> QED BY <3>1
    <2>7. medium'[p] = medium[p]
      <3>1. Head(todo) \in GoodOps /\ medium \in Media
        BY <2>2, LeadsStep DEF Laid
      <3>2. Apply(medium, Head(todo))[p] = medium[p]
        BY <2>5, <2>6, <3>1, ApplyLocal
      <3>3. \A last : Torn(medium, Head(todo), last)[p] = medium[p]
        BY <2>5, <2>6 DEF Torn, SectorPages
      <3> QED BY <2>1, <3>2, <3>3
    <2>8. p \in Active(medium')
      BY <2>4, <2>7 DEF Active
    <2> QED BY <2>3, <2>4, <2>7, <2>8, ExtentsActive
  <1>2. CoffeeInv /\ CoffeeInv' /\ [Next]_vars => [Local]_vars
    BY <1>1
  <1>3. Spec => [][Next]_vars
    BY DEF Spec
  <1> QED BY <1>2, <1>3, InvHolds, PTL DEF FlashIsLocal

(* Coffee implements the file store: every call, also one that extends a    *)
(* file, collects garbage or fails half way, changes the file it names as   *)
(* asked and no other, flash operations change nothing that a search finds  *)
(* once they are done, and a restart between two calls loses nothing        *)
(* (cfs_open, cfs-coffee.c:996, to cfs_coffee_format, 1346).                *)
THEOREM ImplementsFileStore == Spec /\ []Disciplined => IsFileStore
  <1>1. Init => Store!Init
    BY CoffeeAssumption, InvInit
  <1>2. CoffeeInv /\ Disciplined /\ Disciplined' /\ [Next]_vars => [Store!Next]_(Store!vars)
    <2>1. ASSUME Disciplined, Disciplined', CoffeeInv, Next PROVE Store!Next
      BY <2>1, InvNext
    <2>2. ASSUME CoffeeInv, UNCHANGED vars PROVE UNCHANGED Store!vars
      BY <2>2, StutterStep
    <2> QED BY <2>1, <2>2
  <1> QED BY <1>1, <1>2, InvHolds, PTL DEF Spec, Store!Spec, IsFileStore
=============================================================================
