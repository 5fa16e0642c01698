-------------------------- MODULE RplRouterProofs --------------------------
(***************************************************************************)
(* Proofs about RplRouter.                                                 *)
(*                                                                         *)
(* The three tables share their slots, and the DAG, the neighbour cache    *)
(* and the default routers point at each other through them.  What holds   *)
(* after every handler is Good, a conjunction over the tables (Core) and   *)
(* over the DAG (Joined, Held, Pointed, RoutedBy).  None of its parts is   *)
(* preserved alone: that the slot of a route still has the address of its  *)
(* neighbour, for instance, needs that the slot's list goes with it        *)
(* (Mirrored), and that the default router is the preferred parent needs   *)
(* that an eviction spares the parent (Held) and that a parent of finite   *)
(* rank is in the neighbour cache (Parented).                              *)
(*                                                                         *)
(* The handlers are built of functions that map a state to the next one,   *)
(* so there is a lemma for each function, and the steps combine them.      *)
(* Within a handler the default route may be that of the parent before,    *)
(* which Sound leaves open.                                                *)
(***************************************************************************)
EXTENDS RplRouter, SequenceTheorems, WellFoundedInduction, TLAPS

-----------------------------------------------------------------------------
(* Induction over the naturals, for sets: the theorem of the library takes *)
(* an operator as its parameter, so it is drawn from well-foundedness.     *)

Less == {p \in Nat \X Nat : p[1] < p[2]}

LEMMA NaturalsAreWellFounded == IsWellFoundedOn(Less, Nat)
  <1>1. IsWellFoundedOn(OpToRel(<, Nat), Nat)
    BY NatLessThanWellFounded, Zenon
  <1>2. Less = OpToRel(<, Nat)
    BY DEF Less, OpToRel
  <1> QED BY <1>1, <1>2

(* A set of naturals that is not empty has a least element. *)
LEMMA LeastElement ==
  ASSUME NEW T \in SUBSET Nat, T # {}
  PROVE  Min(T) \in T /\ \A y \in T : Min(T) <= y
  <1>1. PICK x \in T : \A y \in T : <<y, x>> \notin Less
    BY NaturalsAreWellFounded, WFMin
  <1>2. \A y \in T : x <= y
    <2> SUFFICES ASSUME NEW y \in T, ~(x <= y) PROVE FALSE
      OBVIOUS
    <2>1. y < x /\ y \in Nat /\ x \in Nat
      OBVIOUS
    <2> QED BY <1>1, <2>1 DEF Less
  <1>3. \E z \in T : \A y \in T : z =< y
    BY <1>2
  <1> QED BY <1>3 DEF Min

LEMMA SetInduction ==
  ASSUME NEW S, 0 \in S, \A n \in Nat : n \in S => n + 1 \in S
  PROVE  Nat \subseteq S
  <1> SUFFICES ASSUME Nat \ S # {} PROVE FALSE
    OBVIOUS
  <1>1. PICK T : T = Nat \ S
    OBVIOUS
  <1>2. T \in SUBSET Nat /\ T # {}
    BY <1>1
  <1>3. PICK x \in T : \A y \in T : x <= y
    BY <1>2, LeastElement
  <1>4. x # 0 /\ x - 1 \in Nat /\ (x - 1) + 1 = x
    BY <1>1
  <1>5. x - 1 \in S
    BY <1>1, <1>3, <1>4
  <1> QED BY <1>1, <1>4, <1>5

(* What holds of a walk along 0 .. n at its start and is kept by each of   *)
(* its steps holds all along.                                              *)
LEMMA WalkInduction ==
  ASSUME NEW n \in Nat, NEW S, 0 \in S, \A k \in 1 .. n : k - 1 \in S => k \in S
  PROVE  0 .. n \subseteq S
  <1>1. PICK T : T = {k \in Nat : k <= n => k \in S}
    OBVIOUS
  <1>2. 0 \in T
    BY <1>1
  <1>3. \A k \in Nat : k \in T => k + 1 \in T
    <2> SUFFICES ASSUME NEW k \in Nat, k \in T, k + 1 <= n PROVE k + 1 \in S
      BY <1>1
    <2>1. k + 1 \in 1 .. n /\ (k + 1) - 1 = k /\ k \in S
      BY <1>1
    <2> QED BY <2>1
  <1>4. Nat \subseteq T
    BY <1>2, <1>3, SetInduction
  <1> QED BY <1>1, <1>4

(* The values of a recursion over 0 .. n exist: what starts in S and steps *)
(* from S to S has a run.                                                   *)
Steps(n, S, start, step) ==
    n \in Nat /\ start \in S /\ step \in [1 .. n -> [S -> S]]

Run(f, n, S, start, step) ==
    /\ f \in [0 .. n -> S]
    /\ f[0] = start
    /\ \A k \in 1 .. n : f[k] = step[k][f[k - 1]]

LEMMA Recursion ==
  ASSUME NEW n, NEW S, NEW start, NEW step, Steps(n, S, start, step)
  PROVE  \E f : Run(f, n, S, start, step)
  <1> USE DEF Steps
  <1>1. PICK T : T = {m \in 0 .. n : \E f \in [0 .. m -> S] :
                         f[0] = start /\ \A k \in 1 .. m : f[k] = step[k][f[k - 1]]}
    OBVIOUS
  <1>2. 0 \in T
    <2>1. PICK f : f = [k \in 0 .. 0 |-> start]
      OBVIOUS
    <2>2. f \in [0 .. 0 -> S] /\ f[0] = start /\ \A k \in 1 .. 0 : f[k] = step[k][f[k - 1]]
      BY <2>1
    <2>3. 0 \in 0 .. n
      OBVIOUS
    <2> QED BY <1>1, <2>2, <2>3
  <1>3. ASSUME NEW m \in 1 .. n, m - 1 \in T PROVE m \in T
    <2>1. m - 1 \in 0 .. n /\ m \in 0 .. n
      OBVIOUS
    <2>2. PICK f \in [0 .. m - 1 -> S] :
             f[0] = start /\ \A k \in 1 .. m - 1 : f[k] = step[k][f[k - 1]]
      BY <1>1, <1>3
    <2>3. PICK g : g = [k \in 0 .. m |-> IF k = m THEN step[m][f[m - 1]] ELSE f[k]]
      OBVIOUS
    <2>4. f[m - 1] \in S /\ step[m][f[m - 1]] \in S
      OBVIOUS
    <2>5. g \in [0 .. m -> S]
      BY <2>3, <2>4
    <2>6. g[0] = start
      BY <2>2, <2>3
    <2>7. ASSUME NEW k \in 1 .. m PROVE g[k] = step[k][g[k - 1]]
      BY <2>2, <2>3
    <2> QED BY <1>1, <2>1, <2>5, <2>6, <2>7
  <1>4. 0 .. n \subseteq T
    BY <1>2, <1>3, WalkInduction
  <1>5. n \in T
    BY <1>4
  <1> QED BY <1>1, <1>5 DEF Run

-----------------------------------------------------------------------------
(* What remains of a sequence *)

NoElement == <<>>

Filtering(f, T, seq, Q) ==
    /\ f \in [0 .. Len(seq) -> Seq(T)]
    /\ f[0] = NoElement
    /\ \A k \in 1 .. Len(seq) :
          f[k] = IF seq[k] \in Q THEN Append(f[k - 1], seq[k]) ELSE f[k - 1]

LEMMA OnlyIsRecursive ==
  ASSUME NEW T, NEW seq \in Seq(T), NEW Q
  PROVE  \E f : Filtering(f, T, seq, Q) /\ Only(seq, Q) = f[Len(seq)]
  <1>1. PICK n \in Nat : n = Len(seq)
    OBVIOUS
  <1>2. PICK S : S = Seq(T)
    OBVIOUS
  <1> DEFINE Next1(k, q) == IF seq[k] \in Q THEN Append(q, seq[k]) ELSE q
  <1>3. \A k \in 1 .. n : \A q \in S : Next1(k, q) \in S
    <2> SUFFICES ASSUME NEW k \in 1 .. n, NEW q \in S PROVE Next1(k, q) \in S
      OBVIOUS
    <2>1. seq[k] \in T
      BY <1>1
    <2> QED BY <1>2, <2>1
  <1>4. NoElement \in S
    BY <1>2 DEF NoElement
  <1>5. Only(seq, Q) = (CHOOSE h : h = [k \in 0 .. Len(seq) |-> IF k = 0 THEN NoElement
                                          ELSE Next1(k, h[k - 1])])[Len(seq)]
    BY DEF Only, NoElement
  <1> HIDE DEF Next1
  <1>6. PICK step : step = [k \in 1 .. n |-> [q \in S |-> Next1(k, q)]]
    OBVIOUS
  <1>7. step \in [1 .. n -> [S -> S]]
    BY <1>3, <1>6
  <1>8. PICK g : Run(g, n, S, NoElement, step)
    BY <1>4, <1>7, Recursion DEF Steps
  <1>9. \A k \in 1 .. n : g[k] = Next1(k, g[k - 1])
    <2> SUFFICES ASSUME NEW k \in 1 .. n PROVE g[k] = Next1(k, g[k - 1])
      OBVIOUS
    <2>1. k - 1 \in 0 .. n
      OBVIOUS
    <2>2. g[k - 1] \in S /\ g[k] = step[k][g[k - 1]]
      BY <1>8, <2>1 DEF Run
    <2>3. step[k] = [q \in S |-> Next1(k, q)]
      BY <1>6
    <2> QED BY <2>2, <2>3
  <1>10. g = [k \in 0 .. n |-> IF k = 0 THEN NoElement ELSE Next1(k, g[k - 1])]
    <2>1. ASSUME NEW k \in 0 .. n
          PROVE  g[k] = IF k = 0 THEN NoElement ELSE Next1(k, g[k - 1])
      <3>1. CASE k = 0
        BY <1>8, <3>1 DEF Run
      <3>2. CASE k # 0
        <4>1. k \in 1 .. n
          BY <3>2
        <4> QED BY <1>9, <3>2, <4>1
      <3> QED BY <3>1, <3>2
    <2> QED BY <1>8, <2>1 DEF Run
  <1>11. PICK f : /\ f = [k \in 0 .. n |-> IF k = 0 THEN NoElement ELSE Next1(k, f[k - 1])]
                  /\ Only(seq, Q) = f[n]
    BY <1>1, <1>5, <1>10
  <1>12. f[0] = NoElement
    BY <1>11
  <1>13. \A k \in 1 .. n : f[k] = Next1(k, f[k - 1])
    BY <1>11
  <1>14. PICK V : V = {k \in 0 .. n : f[k] \in S}
    OBVIOUS
  <1>15. 0 \in V
    BY <1>4, <1>12, <1>14
  <1>16. ASSUME NEW k \in 1 .. n, k - 1 \in V PROVE k \in V
    <2>1. f[k - 1] \in S
      BY <1>14, <1>16
    <2>2. f[k] \in S
      BY <1>3, <1>13, <2>1
    <2> QED BY <1>14, <2>2
  <1>17. 0 .. n \subseteq V
    BY <1>15, <1>16, WalkInduction
  <1>18. \A k \in 0 .. n : f[k] \in S
    BY <1>14, <1>17
  <1>19. f \in [0 .. n -> S]
    BY <1>11, <1>18
  <1>20. \A k \in 1 .. n : f[k] = IF seq[k] \in Q THEN Append(f[k - 1], seq[k]) ELSE f[k - 1]
    BY <1>13 DEF Next1
  <1> QED BY <1>1, <1>2, <1>11, <1>12, <1>19, <1>20, Zenon DEF Filtering

(* One step of a filtering, with the facts that the provers need of it *)
LEMMA FilteringStep ==
  ASSUME NEW T, NEW seq \in Seq(T), NEW Q, NEW f, Filtering(f, T, seq, Q),
         NEW k \in 1 .. Len(seq)
  PROVE  /\ k - 1 \in 0 .. Len(seq)
         /\ seq[k] \in T
         /\ f[k - 1] \in Seq(T)
         /\ f[k] \in Seq(T)
         /\ seq[k] \notin Q => f[k] = f[k - 1]
         /\ seq[k] \in Q => /\ Len(f[k]) = Len(f[k - 1]) + 1
                            /\ \A i \in 1 .. Len(f[k - 1]) : f[k][i] = f[k - 1][i]
                            /\ f[k][Len(f[k - 1]) + 1] = seq[k]
  <1>1. k - 1 \in 0 .. Len(seq) /\ k \in 0 .. Len(seq)
    OBVIOUS
  <1>2. seq[k] \in T
    OBVIOUS
  <1>3. PICK r : r = f[k - 1]
    OBVIOUS
  <1>4. r \in Seq(T)
    BY <1>1, <1>3 DEF Filtering
  <1>5. PICK q : q = f[k]
    OBVIOUS
  <1>6. q \in Seq(T)
    BY <1>1, <1>5 DEF Filtering
  <1>7. q = IF seq[k] \in Q THEN Append(r, seq[k]) ELSE r
    BY <1>3, <1>5 DEF Filtering
  <1>8. seq[k] \in Q => /\ Len(q) = Len(r) + 1
                        /\ \A i \in 1 .. Len(r) : q[i] = r[i]
                        /\ q[Len(r) + 1] = seq[k]
    BY <1>2, <1>4, <1>7
  <1> QED BY <1>1, <1>2, <1>3, <1>4, <1>5, <1>6, <1>7, <1>8

(* r holds the elements of seq up to e that are in Q, in their order. *)
Taken(r, e, seq, Q) ==
    /\ Len(r) <= e
    /\ \E m \in [1 .. Len(r) -> 1 .. e] :
          /\ \A k \in 1 .. Len(r) : r[k] = seq[m[k]] /\ r[k] \in Q
          /\ \A j, k \in 1 .. Len(r) : j < k => m[j] < m[k]
    /\ \A i \in 1 .. e : seq[i] \in Q => \E k \in 1 .. Len(r) : r[k] = seq[i]

LEMMA TakenNothing ==
  ASSUME NEW seq, NEW Q
  PROVE  Taken(NoElement, 0, seq, Q)
  <1>1. PICK r : r = NoElement
    OBVIOUS
  <1>2. Len(r) = 0
    BY <1>1 DEF NoElement
  <1>3. PICK m : m = [k \in 1 .. 0 |-> k]
    OBVIOUS
  <1>4. m \in [1 .. 0 -> 1 .. 0]
    BY <1>3
  <1>5. m \in [1 .. Len(r) -> 1 .. 0]
    BY <1>2, <1>4
  <1>6. \A k \in 1 .. Len(r) : FALSE
    BY <1>2
  <1>7. \A i \in 1 .. 0 : FALSE
    OBVIOUS
  <1>8. Len(r) <= 0
    BY <1>2
  <1>9. Taken(r, 0, seq, Q)
    BY <1>5, <1>6, <1>7, <1>8, Zenon DEF Taken
  <1> QED BY <1>1, <1>9

LEMMA TakenLess ==
  ASSUME NEW T, NEW r \in Seq(T), NEW e \in Nat \ {0}, NEW seq, NEW Q,
         Taken(r, e - 1, seq, Q), seq[e] \notin Q
  PROVE  Taken(r, e, seq, Q)
  <1>1. PICK n \in Nat : n = Len(r)
    OBVIOUS
  <1>2. PICK m \in [1 .. n -> 1 .. e - 1] :
           /\ \A k \in 1 .. n : r[k] = seq[m[k]] /\ r[k] \in Q
           /\ \A j, k \in 1 .. n : j < k => m[j] < m[k]
    BY <1>1 DEF Taken
  <1>3. \A k \in 1 .. n : m[k] \in 1 .. e
    OBVIOUS
  <1>4. m \in [1 .. n -> 1 .. e]
    BY <1>3
  <1>5. n <= e - 1 /\ \A i \in 1 .. e - 1 : seq[i] \in Q => \E k \in 1 .. n : r[k] = seq[i]
    BY <1>1 DEF Taken
  <1>6. \A i \in 1 .. e : seq[i] \in Q => \E k \in 1 .. n : r[k] = seq[i]
    BY <1>5
  <1> QED BY <1>1, <1>2, <1>4, <1>5, <1>6 DEF Taken

LEMMA TakenMore ==
  ASSUME NEW T, NEW r \in Seq(T), NEW q \in Seq(T), NEW e \in Nat \ {0}, NEW seq, NEW Q,
         Taken(r, e - 1, seq, Q), seq[e] \in Q,
         Len(q) = Len(r) + 1, \A i \in 1 .. Len(r) : q[i] = r[i], q[Len(r) + 1] = seq[e]
  PROVE  Taken(q, e, seq, Q)
  <1>1. PICK n \in Nat : n = Len(r)
    OBVIOUS
  <1>2. PICK m \in [1 .. n -> 1 .. e - 1] :
           /\ \A k \in 1 .. n : r[k] = seq[m[k]] /\ r[k] \in Q
           /\ \A j, k \in 1 .. n : j < k => m[j] < m[k]
    BY <1>1 DEF Taken
  <1>3. \A i \in 1 .. n : q[i] = r[i]
    BY <1>1
  <1>4. Len(q) = n + 1 /\ q[n + 1] = seq[e]
    BY <1>1
  <1>5. PICK w : w = [k \in 1 .. n + 1 |-> IF k = n + 1 THEN e ELSE m[k]]
    OBVIOUS
  <1>6. \A k \in 1 .. n : w[k] = m[k] /\ w[k] \in 1 .. e - 1
    BY <1>5
  <1>7. w[n + 1] = e
    BY <1>5
  <1>8. w \in [1 .. n + 1 -> 1 .. e]
    BY <1>5
  <1>9. \A k \in 1 .. n + 1 : q[k] = seq[w[k]] /\ q[k] \in Q
    <2> SUFFICES ASSUME NEW k \in 1 .. n + 1 PROVE q[k] = seq[w[k]] /\ q[k] \in Q
      OBVIOUS
    <2>1. CASE k = n + 1
      BY <1>4, <1>7, <2>1
    <2>2. CASE k # n + 1
      <3>1. k \in 1 .. n
        BY <2>2
      <3> QED BY <1>2, <1>3, <1>6, <3>1
    <2> QED BY <2>1, <2>2
  <1>10. \A j, k \in 1 .. n + 1 : j < k => w[j] < w[k]
    <2> SUFFICES ASSUME NEW j \in 1 .. n + 1, NEW k \in 1 .. n + 1, j < k PROVE w[j] < w[k]
      OBVIOUS
    <2>1. j \in 1 .. n
      OBVIOUS
    <2>2. CASE k = n + 1
      <3>1. w[j] <= e - 1 /\ w[j] \in Int
        BY <1>6, <2>1
      <3> QED BY <1>7, <2>2, <3>1
    <2>3. CASE k # n + 1
      <3>1. k \in 1 .. n
        BY <2>3
      <3> QED BY <1>2, <1>6, <2>1, <3>1
    <2> QED BY <2>2, <2>3
  <1>11. n <= e - 1 /\ \A i \in 1 .. e - 1 : seq[i] \in Q => \E k \in 1 .. n : r[k] = seq[i]
    BY <1>1 DEF Taken
  <1>12. \A i \in 1 .. e : seq[i] \in Q => \E k \in 1 .. n + 1 : q[k] = seq[i]
    <2> SUFFICES ASSUME NEW i \in 1 .. e, seq[i] \in Q
                 PROVE  \E k \in 1 .. n + 1 : q[k] = seq[i]
      OBVIOUS
    <2>1. CASE i = e
      <3>1. n + 1 \in 1 .. n + 1
        OBVIOUS
      <3> QED BY <1>4, <2>1, <3>1
    <2>2. CASE i # e
      <3>1. i \in 1 .. e - 1
        BY <2>2
      <3>2. PICK k \in 1 .. n : r[k] = seq[i]
        BY <1>11, <3>1
      <3>3. k \in 1 .. n + 1
        OBVIOUS
      <3> QED BY <1>3, <3>2, <3>3
    <2> QED BY <2>1, <2>2
  <1>13. n + 1 <= e
    BY <1>11
  <1> QED BY <1>4, <1>8, <1>9, <1>10, <1>12, <1>13 DEF Taken

LEMMA OnlyTakes ==
  ASSUME NEW T, NEW seq \in Seq(T), NEW Q
  PROVE  Only(seq, Q) \in Seq(T) /\ Taken(Only(seq, Q), Len(seq), seq, Q)
  <1>1. PICK f : Filtering(f, T, seq, Q) /\ Only(seq, Q) = f[Len(seq)]
    BY OnlyIsRecursive
  <1>2. PICK n \in Nat : n = Len(seq)
    OBVIOUS
  <1>3. PICK V : V = {k \in 0 .. n : f[k] \in Seq(T) /\ Taken(f[k], k, seq, Q)}
    OBVIOUS
  <1>4. 0 \in V
    <2>1. f[0] = NoElement /\ f[0] \in Seq(T)
      BY <1>1 DEF Filtering
    <2> QED BY <1>3, <2>1, TakenNothing
  <1>5. ASSUME NEW k \in 1 .. n, k - 1 \in V PROVE k \in V
    <2>1. Taken(f[k - 1], k - 1, seq, Q)
      BY <1>3, <1>5
    <2>2. /\ f[k - 1] \in Seq(T)
          /\ f[k] \in Seq(T)
          /\ seq[k] \notin Q => f[k] = f[k - 1]
          /\ seq[k] \in Q => /\ Len(f[k]) = Len(f[k - 1]) + 1
                             /\ \A i \in 1 .. Len(f[k - 1]) : f[k][i] = f[k - 1][i]
                             /\ f[k][Len(f[k - 1]) + 1] = seq[k]
      BY <1>1, <1>2, FilteringStep
    <2>3. Taken(f[k], k, seq, Q)
      <3>1. CASE seq[k] \in Q
        <4>1. k \in Nat \ {0}
          OBVIOUS
        <4>2. PICK q \in Seq(T) : q = f[k]
          BY <2>2
        <4>3. PICK r \in Seq(T) : r = f[k - 1]
          BY <2>2
        <4>4. /\ Len(q) = Len(r) + 1
              /\ \A i \in 1 .. Len(r) : q[i] = r[i]
              /\ q[Len(r) + 1] = seq[k]
          BY <2>2, <3>1, <4>2, <4>3
        <4>5. Taken(r, k - 1, seq, Q)
          BY <2>1, <4>3
        <4>6. Taken(q, k, seq, Q)
          BY <3>1, <4>1, <4>4, <4>5, TakenMore
        <4> QED BY <4>2, <4>6
      <3>2. CASE seq[k] \notin Q
        BY <2>1, <2>2, <3>2, TakenLess
      <3> QED BY <3>1, <3>2
    <2> QED BY <1>3, <2>2, <2>3
  <1>6. 0 .. n \subseteq V
    BY <1>4, <1>5, WalkInduction
  <1>7. n \in V
    BY <1>6
  <1> QED BY <1>1, <1>2, <1>3, <1>7

(* What a set takes and what it leaves make up the sequence. *)
LEMMA OnlySplits ==
  ASSUME NEW T, NEW seq \in Seq(T), NEW Q, NEW R,
         \A i \in 1 .. Len(seq) : seq[i] \in Q <=> seq[i] \notin R
  PROVE  Len(Only(seq, Q)) + Len(Only(seq, R)) = Len(seq)
  <1>1. PICK f : Filtering(f, T, seq, Q) /\ Only(seq, Q) = f[Len(seq)]
    BY OnlyIsRecursive
  <1>2. PICK g : Filtering(g, T, seq, R) /\ Only(seq, R) = g[Len(seq)]
    BY OnlyIsRecursive
  <1>3. PICK n \in Nat : n = Len(seq)
    OBVIOUS
  <1> DEFINE Adds(k) == Len(f[k]) + Len(g[k]) = k
  <1> HIDE DEF Adds
  <1>4. PICK V : V = {k \in 0 .. n : Adds(k)}
    OBVIOUS
  <1>5. Adds(0)
    <2>1. f[0] = NoElement /\ g[0] = NoElement
      BY <1>1, <1>2 DEF Filtering
    <2>2. Len(NoElement) = 0
      BY DEF NoElement
    <2>3. Len(f[0]) + Len(g[0]) = 0
      BY <2>1, <2>2
    <2> QED BY <2>3 DEF Adds
  <1>6. ASSUME NEW k \in 1 .. n, k - 1 \in V PROVE k \in V
    <2>1. Len(f[k - 1]) + Len(g[k - 1]) = k - 1
      BY <1>4, <1>6 DEF Adds
    <2>2. /\ f[k - 1] \in Seq(T)
          /\ seq[k] \notin Q => f[k] = f[k - 1]
          /\ seq[k] \in Q => Len(f[k]) = Len(f[k - 1]) + 1
      BY <1>1, <1>3, FilteringStep
    <2>3. /\ g[k - 1] \in Seq(T)
          /\ seq[k] \notin R => g[k] = g[k - 1]
          /\ seq[k] \in R => Len(g[k]) = Len(g[k - 1]) + 1
      BY <1>2, <1>3, FilteringStep
    <2>4. PICK a \in Nat, b \in Nat : a = Len(f[k - 1]) /\ b = Len(g[k - 1])
      BY <2>2, <2>3
    <2>5. seq[k] \in Q <=> seq[k] \notin R
      BY <1>3
    <2>6. PICK c, d : c = Len(f[k]) /\ d = Len(g[k])
      OBVIOUS
    <2>7. a + b = k - 1
      BY <2>1, <2>4
    <2>8. c + d = k
      <3>1. CASE seq[k] \in Q
        <4>1. c = a + 1 /\ d = b
          BY <2>2, <2>3, <2>4, <2>5, <2>6, <3>1
        <4> QED BY <2>7, <4>1
      <3>2. CASE seq[k] \notin Q
        <4>1. c = a /\ d = b + 1
          BY <2>2, <2>3, <2>4, <2>5, <2>6, <3>2
        <4> QED BY <2>7, <4>1
      <3> QED BY <3>1, <3>2
    <2>9. Len(f[k]) + Len(g[k]) = k
      BY <2>6, <2>8
    <2>10. Adds(k)
      BY <2>9 DEF Adds
    <2> QED BY <1>4, <2>10
  <1>7. 0 .. n \subseteq V
    <2>1. 0 \in V
      BY <1>4, <1>5
    <2> QED BY <1>6, <2>1, WalkInduction
  <1>8. Adds(n)
    BY <1>4, <1>7
  <1>9. Len(f[n]) + Len(g[n]) = n
    BY <1>8 DEF Adds
  <1> QED BY <1>1, <1>2, <1>3, <1>9

(* Two elements of r come from two elements of seq. *)
Drawn(r, seq) ==
    \A j, k \in 1 .. Len(r) : j # k =>
        \E a, b \in 1 .. Len(seq) : a # b /\ r[j] = seq[a] /\ r[k] = seq[b]

LEMMA OnlyDraws ==
  ASSUME NEW T, NEW seq \in Seq(T), NEW Q
  PROVE  Drawn(Only(seq, Q), seq)
  <1>1. PICK r \in Seq(T) : r = Only(seq, Q) /\ Taken(r, Len(seq), seq, Q)
    BY OnlyTakes
  <1>2. PICK n \in Nat, e \in Nat : n = Len(r) /\ e = Len(seq)
    OBVIOUS
  <1>3. PICK m \in [1 .. n -> 1 .. e] :
           /\ \A i \in 1 .. n : r[i] = seq[m[i]] /\ r[i] \in Q
           /\ \A h, i \in 1 .. n : h < i => m[h] < m[i]
    BY <1>1, <1>2 DEF Taken
  <1>4. ASSUME NEW j \in 1 .. n, NEW k \in 1 .. n, j # k
        PROVE  \E a, b \in 1 .. e : a # b /\ r[j] = seq[a] /\ r[k] = seq[b]
    <2>1. m[j] \in 1 .. e /\ m[k] \in 1 .. e
      OBVIOUS
    <2>2. j < k \/ k < j
      BY <1>4
    <2>3. m[j] # m[k]
      BY <1>3, <2>1, <2>2
    <2> QED BY <1>3, <2>1, <2>3
  <1> QED BY <1>1, <1>2, <1>4 DEF Drawn

LEMMA Joint ==
  ASSUME NEW T, NEW s \in Seq(T), NEW q \in Seq(T)
  PROVE  /\ s \o q \in Seq(T)
         /\ Len(s \o q) = Len(s) + Len(q)
         /\ \A k \in 1 .. Len(s) : (s \o q)[k] = s[k]
         /\ \A k \in 1 .. Len(q) : (s \o q)[Len(s) + k] = q[k]
  OBVIOUS

LEMMA RangeIs ==
  ASSUME NEW T, NEW seq \in Seq(T)
  PROVE  \A x : x \in Range(seq) <=> \E k \in 1 .. Len(seq) : seq[k] = x
  BY DEF Range

LEMMA OnlyRange ==
  ASSUME NEW T, NEW seq \in Seq(T), NEW Q
  PROVE  /\ Only(seq, Q) \in Seq(T)
         /\ Len(Only(seq, Q)) <= Len(seq)
         /\ Range(Only(seq, Q)) = Range(seq) \cap Q
  <1>1. PICK r \in Seq(T) : r = Only(seq, Q) /\ Taken(r, Len(seq), seq, Q)
    BY OnlyTakes
  <1>2. PICK n \in Nat, e \in Nat : n = Len(r) /\ e = Len(seq)
    OBVIOUS
  <1>3. PICK m \in [1 .. n -> 1 .. e] : \A i \in 1 .. n : r[i] = seq[m[i]] /\ r[i] \in Q
    BY <1>1, <1>2 DEF Taken
  <1>4. n <= e /\ \A i \in 1 .. e : seq[i] \in Q => \E k \in 1 .. n : r[k] = seq[i]
    BY <1>1, <1>2 DEF Taken
  <1>5. \A x : x \in Range(r) <=> \E k \in 1 .. n : r[k] = x
    BY <1>2, RangeIs
  <1>6. \A x : x \in Range(seq) <=> \E k \in 1 .. e : seq[k] = x
    BY <1>2, RangeIs
  <1>7. ASSUME NEW x \in Range(r) PROVE x \in Range(seq) /\ x \in Q
    BY <1>3, <1>5, <1>6, <1>7
  <1>8. ASSUME NEW x \in Range(seq), x \in Q PROVE x \in Range(r)
    BY <1>4, <1>5, <1>6, <1>8
  <1>9. Range(r) = Range(seq) \cap Q
    BY <1>7, <1>8
  <1> QED BY <1>1, <1>2, <1>4, <1>9

LEMMA OnlyInjective ==
  ASSUME NEW T, NEW seq \in Seq(T), NEW Q, IsInjective(seq)
  PROVE  IsInjective(Only(seq, Q))
  <1>1. PICK r \in Seq(T) : r = Only(seq, Q)
    BY OnlyTakes
  <1>2. \A a, b \in 1 .. Len(seq) : seq[a] = seq[b] => a = b
    BY DEF IsInjective
  <1>3. ASSUME NEW j \in 1 .. Len(r), NEW k \in 1 .. Len(r), j # k PROVE r[j] # r[k]
    <2>1. Drawn(r, seq)
      BY <1>1, OnlyDraws
    <2>2. PICK a \in 1 .. Len(seq), b \in 1 .. Len(seq) : a # b /\ r[j] = seq[a] /\ r[k] = seq[b]
      BY <1>3, <2>1 DEF Drawn
    <2> QED BY <1>2, <2>2
  <1>4. IsInjective(r)
    BY <1>3 DEF IsInjective
  <1> QED BY <1>1, <1>4

(* A set that has all elements but one leaves one out. *)
LEMMA OnlyWithout ==
  ASSUME NEW T, NEW seq \in Seq(T), NEW Q, NEW x \in Range(seq),
         \A i \in 1 .. Len(seq) : seq[i] \in Q <=> seq[i] # x
  PROVE  /\ Len(Only(seq, Q)) < Len(seq)
         /\ IsInjective(seq) => Len(Only(seq, Q)) = Len(seq) - 1
  <1>1. PICK R : R = {x}
    OBVIOUS
  <1>2. \A i \in 1 .. Len(seq) : seq[i] \in Q <=> seq[i] \notin R
    BY <1>1
  <1>3. Len(Only(seq, Q)) + Len(Only(seq, R)) = Len(seq)
    BY <1>2, OnlySplits
  <1>4. PICK q \in Seq(T), r \in Seq(T) : q = Only(seq, Q) /\ r = Only(seq, R)
    BY OnlyTakes
  <1>5. Range(r) = Range(seq) \cap R
    BY <1>4, OnlyRange
  <1>6. \A y : y \in Range(r) <=> \E k \in 1 .. Len(r) : r[k] = y
    BY RangeIs
  <1>7. PICK k \in 1 .. Len(r) : r[k] = x
    BY <1>1, <1>5, <1>6
  <1>8. PICK a \in Nat, b \in Nat, c \in Nat : a = Len(q) /\ b = Len(r) /\ c = Len(seq)
    OBVIOUS
  <1>9. a + b = c
    BY <1>3, <1>4, <1>8
  <1>10. b >= 1
    BY <1>7, <1>8
  <1>11. IsInjective(seq) => b <= 1
    <2> SUFFICES ASSUME IsInjective(seq), b >= 2 PROVE FALSE
      OBVIOUS
    <2>1. IsInjective(r)
      BY <1>4, OnlyInjective
    <2>2. 1 \in 1 .. Len(r) /\ 2 \in 1 .. Len(r)
      BY <1>8
    <2>3. r[1] = x /\ r[2] = x
      BY <1>1, <1>5, <1>6, <2>2
    <2> QED BY <2>1, <2>2, <2>3 DEF IsInjective
  <1>12. a < c /\ (IsInjective(seq) => a = c - 1)
    BY <1>9, <1>10, <1>11
  <1> QED BY <1>4, <1>8, <1>12

-----------------------------------------------------------------------------
(* The list of routes: within its bound, one route to each destination *)

DestOnce(q) == \A j, k \in 1 .. Len(q) : q[j].dest = q[k].dest => j = k

Listed(q) ==
    /\ q \in Seq(Route)
    /\ Len(q) <= UIP_DS6_ROUTE_NB
    /\ DestOnce(q)

LEMMA ListedOnly ==
  ASSUME NEW q, Listed(q), NEW Q
  PROVE  Listed(Only(q, Q)) /\ Range(Only(q, Q)) = Range(q) \cap Q
  <1>1. q \in Seq(Route)
    BY DEF Listed
  <1>2. PICK r \in Seq(Route) : r = Only(q, Q)
    BY <1>1, OnlyTakes
  <1>3. Len(r) <= Len(q) /\ Range(r) = Range(q) \cap Q
    BY <1>1, <1>2, OnlyRange
  <1>4. ASSUME NEW j \in 1 .. Len(r), NEW k \in 1 .. Len(r), j # k
        PROVE  r[j].dest # r[k].dest
    <2>1. Drawn(r, q)
      BY <1>1, <1>2, OnlyDraws
    <2>2. PICK a \in 1 .. Len(q), b \in 1 .. Len(q) : a # b /\ r[j] = q[a] /\ r[k] = q[b]
      BY <1>4, <2>1 DEF Drawn
    <2> QED BY <2>2 DEF Listed, DestOnce
  <1>5. DestOnce(r)
    BY <1>4 DEF DestOnce
  <1>6. Len(r) <= UIP_DS6_ROUTE_NB
    <2>1. PICK a \in Nat, b \in Nat : a = Len(r) /\ b = Len(q)
      BY <1>1
    <2>2. b <= UIP_DS6_ROUTE_NB /\ UIP_DS6_ROUTE_NB \in Nat
      BY <2>1, RplAssumption DEF Listed
    <2> QED BY <1>3, <2>1, <2>2
  <1> QED BY <1>2, <1>3, <1>5, <1>6 DEF Listed

(* Two routes of the list to one destination are one. *)
LEMMA ListedDest ==
  ASSUME NEW q, Listed(q), NEW r \in Range(q), NEW t \in Range(q), r.dest = t.dest
  PROVE  r = t
  <1>1. q \in Seq(Route)
    BY DEF Listed
  <1>2. PICK j \in 1 .. Len(q) : q[j] = r
    BY <1>1, RangeIs
  <1>3. PICK k \in 1 .. Len(q) : q[k] = t
    BY <1>1, RangeIs
  <1> QED BY <1>2, <1>3 DEF Listed, DestOnce

(* Without one of its routes the list is shorter. *)
LEMMA ListedWithout ==
  ASSUME NEW q, Listed(q), NEW r \in Range(q)
  PROVE  /\ Listed(Only(q, Range(q) \ {r}))
         /\ Range(Only(q, Range(q) \ {r})) = Range(q) \ {r}
         /\ Len(Only(q, Range(q) \ {r})) < Len(q)
  <1>1. q \in Seq(Route)
    BY DEF Listed
  <1>2. PICK Q : Q = Range(q) \ {r}
    OBVIOUS
  <1>3. \A i \in 1 .. Len(q) : q[i] \in Range(q)
    BY <1>1, RangeIs
  <1>4. \A i \in 1 .. Len(q) : q[i] \in Q <=> q[i] # r
    BY <1>2, <1>3
  <1>5. Len(Only(q, Q)) < Len(q)
    BY <1>1, <1>4, OnlyWithout
  <1>6. Listed(Only(q, Q)) /\ Range(Only(q, Q)) = Range(q) \cap Q
    BY ListedOnly
  <1> QED BY <1>2, <1>5, <1>6

(* Two lists without a common destination *)
LEMMA ListedJoint ==
  ASSUME NEW a, NEW b, Listed(a), Listed(b), Len(a) + Len(b) <= UIP_DS6_ROUTE_NB,
         \A r \in Range(a), t \in Range(b) : r.dest # t.dest
  PROVE  Listed(a \o b) /\ Range(a \o b) = Range(a) \cup Range(b)
  <1>1. a \in Seq(Route) /\ b \in Seq(Route)
    BY DEF Listed
  <1>2. PICK m \in Nat, n \in Nat : m = Len(a) /\ n = Len(b)
    BY <1>1
  <1>3. PICK p : p = a \o b
    OBVIOUS
  <1>4. /\ p \in Seq(Route)
        /\ Len(p) = Len(a) + Len(b)
        /\ \A k \in 1 .. Len(a) : p[k] = a[k]
        /\ \A k \in 1 .. Len(b) : p[Len(a) + k] = b[k]
    BY <1>1, <1>3, Joint
  <1>5. \A x : x \in Range(p) <=> \E k \in 1 .. m + n : p[k] = x
    BY <1>2, <1>4, RangeIs
  <1>6. \A x : x \in Range(a) <=> \E k \in 1 .. m : a[k] = x
    BY <1>1, <1>2, RangeIs
  <1>7. \A x : x \in Range(b) <=> \E k \in 1 .. n : b[k] = x
    BY <1>1, <1>2, RangeIs
  <1>8. ASSUME NEW k \in 1 .. m PROVE k \in 1 .. m + n /\ p[k] = a[k] /\ p[k] \in Range(a)
    BY <1>2, <1>4, <1>6
  <1>9. ASSUME NEW k \in 1 .. m + n, k > m
        PROVE  k - m \in 1 .. n /\ p[k] = b[k - m] /\ p[k] \in Range(b)
    <2>1. k - m \in 1 .. n /\ m + (k - m) = k
      BY <1>9
    <2> QED BY <1>2, <1>4, <1>7, <2>1
  <1>10. ASSUME NEW j \in 1 .. m + n, NEW k \in 1 .. m + n, j < k
         PROVE  p[j].dest # p[k].dest
    <2>1. CASE k <= m
      <3>1. j \in 1 .. m /\ k \in 1 .. m /\ j # k
        BY <1>10, <2>1
      <3>2. \A h, i \in 1 .. m : a[h].dest = a[i].dest => h = i
        BY <1>2 DEF Listed, DestOnce
      <3> QED BY <1>8, <3>1, <3>2
    <2>2. CASE j > m
      <3>1. k > m /\ j - m # k - m
        BY <1>10, <2>2
      <3>2. \A h, i \in 1 .. n : b[h].dest = b[i].dest => h = i
        BY <1>2 DEF Listed, DestOnce
      <3>3. j - m \in 1 .. n /\ p[j] = b[j - m]
        BY <1>9, <2>2
      <3>4. k - m \in 1 .. n /\ p[k] = b[k - m]
        BY <1>9, <3>1
      <3> QED BY <3>1, <3>2, <3>3, <3>4
    <2>3. CASE j <= m /\ k > m
      <3>1. p[j] \in Range(a)
        BY <1>8, <2>3
      <3>2. p[k] \in Range(b)
        BY <1>9, <2>3
      <3> QED BY <3>1, <3>2
    <2> QED BY <2>1, <2>2, <2>3
  <1>11. DestOnce(p)
    <2> SUFFICES ASSUME NEW j \in 1 .. m + n, NEW k \in 1 .. m + n, j # k
                 PROVE  p[j].dest # p[k].dest
      BY <1>2, <1>4 DEF DestOnce
    <2>1. j < k \/ k < j
      OBVIOUS
    <2> QED BY <1>10, <2>1
  <1>12. Range(p) = Range(a) \cup Range(b)
    <2>1. ASSUME NEW x \in Range(p) PROVE x \in Range(a) \cup Range(b)
      <3>1. PICK k \in 1 .. m + n : p[k] = x
        BY <1>5
      <3>2. CASE k <= m
        BY <1>8, <3>1, <3>2
      <3>3. CASE k > m
        BY <1>9, <3>1, <3>3
      <3> QED BY <3>2, <3>3
    <2>2. ASSUME NEW x \in Range(a) PROVE x \in Range(p)
      <3>1. PICK k \in 1 .. m : a[k] = x
        BY <1>6
      <3> QED BY <1>5, <1>8, <3>1
    <2>3. ASSUME NEW x \in Range(b) PROVE x \in Range(p)
      <3>1. PICK k \in 1 .. n : b[k] = x
        BY <1>7
      <3>2. m + k \in 1 .. m + n /\ p[m + k] = x
        BY <1>2, <1>4, <3>1
      <3> QED BY <1>5, <3>2
    <2> QED BY <2>1, <2>2, <2>3
  <1> QED BY <1>3, <1>4, <1>11, <1>12 DEF Listed

(* A new route is put in front. *)
LEMMA ListedFront ==
  ASSUME NEW q, Listed(q), Len(q) < UIP_DS6_ROUTE_NB, NEW r \in Route,
         \A t \in Range(q) : t.dest # r.dest
  PROVE  Listed(<<r>> \o q) /\ Range(<<r>> \o q) = {r} \cup Range(q)
  <1>1. PICK s : s = <<r>>
    OBVIOUS
  <1>2. s \in Seq(Route) /\ Len(s) = 1 /\ s[1] = r
    BY <1>1
  <1>3. PICK n \in Nat : n = Len(q)
    BY DEF Listed
  <1>4. 1 + n <= UIP_DS6_ROUTE_NB /\ 1 <= UIP_DS6_ROUTE_NB
    BY <1>3, RplAssumption
  <1>5. Listed(s)
    BY <1>2, <1>4 DEF Listed, DestOnce
  <1>6. Range(s) = {r}
    <2>1. \A x : x \in Range(s) <=> \E k \in 1 .. Len(s) : s[k] = x
      BY <1>2, RangeIs
    <2>2. \A x : x \in Range(s) <=> x = r
      BY <1>2, <2>1
    <2> QED BY <2>2
  <1>7. Listed(s \o q) /\ Range(s \o q) = Range(s) \cup Range(q)
    BY <1>2, <1>3, <1>4, <1>5, <1>6, ListedJoint
  <1> QED BY <1>1, <1>6, <1>7

(* The routes of a set are moved to the front. *)
Fronted(q, Q) == Only(q, Q) \o Only(q, Range(q) \ Q)

LEMMA ListedMoved ==
  ASSUME NEW q, Listed(q), NEW Q, Q \subseteq Range(q)
  PROVE  /\ Listed(Fronted(q, Q))
         /\ Range(Fronted(q, Q)) = Range(q)
         /\ Q # {} => Fronted(q, Q)[1] \in Q
  <1>1. q \in Seq(Route)
    BY DEF Listed
  <1>2. PICK R : R = Range(q) \ Q
    OBVIOUS
  <1>3. PICK a, b : a = Only(q, Q) /\ b = Only(q, R)
    OBVIOUS
  <1>4. Listed(a) /\ Range(a) = Q
    <2>1. Listed(Only(q, Q)) /\ Range(Only(q, Q)) = Range(q) \cap Q
      BY ListedOnly
    <2>2. Range(q) \cap Q = Q
      OBVIOUS
    <2> QED BY <1>3, <2>1, <2>2
  <1>5. Listed(b) /\ Range(b) = R
    BY <1>2, <1>3, ListedOnly
  <1>6. \A i \in 1 .. Len(q) : q[i] \in Q <=> q[i] \notin R
    <2>1. \A i \in 1 .. Len(q) : q[i] \in Range(q)
      BY <1>1, RangeIs
    <2> QED BY <1>2, <2>1
  <1>7. Len(a) + Len(b) = Len(q)
    BY <1>1, <1>3, <1>6, OnlySplits
  <1>8. Len(a) + Len(b) <= UIP_DS6_ROUTE_NB
    BY <1>7 DEF Listed
  <1>9. \A r \in Range(a), t \in Range(b) : r.dest # t.dest
    BY <1>2, <1>4, <1>5, ListedDest
  <1>10. PICK p : p = Fronted(q, Q) /\ p = a \o b
    BY <1>2, <1>3 DEF Fronted
  <1>11. Listed(p) /\ Range(p) = Q \cup R
    <2>1. Listed(a \o b) /\ Range(a \o b) = Range(a) \cup Range(b)
      BY <1>4, <1>5, <1>8, <1>9, ListedJoint
    <2> QED BY <1>4, <1>5, <1>10, <2>1
  <1>12. ASSUME Q # {} PROVE p[1] \in Q
    <2>1. a \in Seq(Route) /\ b \in Seq(Route)
      BY <1>4, <1>5 DEF Listed
    <2>2. \A x : x \in Range(a) <=> \E k \in 1 .. Len(a) : a[k] = x
      BY <2>1, RangeIs
    <2>3. Len(a) >= 1 /\ 1 \in 1 .. Len(a)
      BY <1>4, <1>12, <2>1, <2>2
    <2>4. /\ p \in Seq(Route)
          /\ Len(p) = Len(a) + Len(b)
          /\ \A k \in 1 .. Len(a) : p[k] = a[k]
      <3>1. /\ a \o b \in Seq(Route)
            /\ Len(a \o b) = Len(a) + Len(b)
            /\ \A k \in 1 .. Len(a) : (a \o b)[k] = a[k]
        BY <2>1, Joint
      <3> QED BY <1>10, <3>1
    <2>5. p[1] \in Q
      BY <1>4, <2>2, <2>3, <2>4
    <2> QED BY <2>5
  <1>13. Q \cup R = Range(q)
    BY <1>2
  <1> QED BY <1>10, <1>11, <1>12, <1>13

-----------------------------------------------------------------------------
(* The invariant, of a state s of the node *)

Typed(s) ==
    /\ s \in NodeState
    /\ IsInjective(s.keys)
    /\ Listed(s.routes)

(* A slot without a key is empty, and the slots that have one are the first. *)
Allotted(s) ==
    \A i \in Indices :
        /\ i \in Range(s.keys) <=> i <= Len(s.keys)
        /\ i \notin Range(s.keys) =>
              /\ s.lladdr[i] = Null /\ s.ds6[i] = Null
              /\ s.lists[i] = Null /\ s.parents[i] = Null

(* The list of a neighbour holds the destinations of the routes through it. *)
Mirrored(s) ==
    \A i \in Indices :
        /\ s.lists[i] # {}
        /\ \A d \in Targets :
              (s.lists[i] # Null /\ d \in s.lists[i])
                  <=> \E r \in Range(s.routes) : r.index = i /\ r.dest = d

(* A neighbour stands at its own address, or at none while it is not        *)
(* resolved; routers are met by what they send and are resolved.            *)
Addressed(s) ==
    \A i \in Indices : s.ds6[i] # Null =>
        /\ s.lladdr[i] \in {s.ds6[i].ip, Null}
        /\ s.ds6[i].ip \in Routers =>
              s.lladdr[i] = s.ds6[i].ip /\ s.ds6[i].state = "RESOLVED"

(* A router has one slot. *)
KnownOnce(s) ==
    \A i, j \in Indices : s.lladdr[i] = s.lladdr[j] /\ s.lladdr[i] \in Routers => i = j

(* A parent is a router, in the neighbour cache while its rank is finite. *)
Parented(s) ==
    \A i \in Indices : s.parents[i] # Null =>
        /\ s.lladdr[i] \in Routers
        /\ s.parents[i].rank # INFINITE_RANK => s.ds6[i] # Null

(* The slot of a route is that of the router it was announced by. *)
Leading(s) ==
    \A r \in Range(s.routes) : r.via \in Routers /\ s.lladdr[r.index] = r.via

(* There are parents only in an instance that was joined. *)
Joined(s) ==
    ~s.joined => s.preferred = 0 /\ \A i \in Indices : s.parents[i] = Null

(* The preferred parent is locked. *)
Held(s) ==
    s.preferred # 0 => s.preferred \in s.locked /\ s.parents[s.preferred] # Null

(* There is at most one default router, in the block that def_route names. *)
Pointed(s) ==
    \/ s.defrt = <<>>
    \/ Len(s.defrt) = 1 /\ s.defrt[1].block = 1 /\ s.def_route = 1

(* The default router is slot p; def_route names its block when the node    *)
(* has a preferred parent, even after the router expired.                   *)
RoutedBy(s, p) ==
    /\ p # 0 => s.def_route = 1
    /\ s.defrt # <<>> => p # 0 /\ s.ds6[p] # Null /\ s.defrt[1].ip = s.ds6[p].ip

Tables(s) == Typed(s) /\ Allotted(s) /\ Addressed(s) /\ KnownOnce(s)

Core(s) == Tables(s) /\ Mirrored(s) /\ Parented(s) /\ Leading(s)

Good(s) == Core(s) /\ Joined(s) /\ Held(s) /\ Pointed(s) /\ RoutedBy(s, s.preferred)

-----------------------------------------------------------------------------
(* Lookups *)

LEMMA Fields ==
  ASSUME NEW s \in NodeState
  PROVE  /\ s.keys \in Seq(Indices)
         /\ s.lladdr \in [Indices -> Nodes \cup {Null}]
         /\ s.ds6 \in [Indices -> Neighbour \cup {Null}]
         /\ s.lists \in [Indices -> (SUBSET Targets) \cup {Null}]
         /\ s.parents \in [Indices -> Parent \cup {Null}]
         /\ s.locked \in SUBSET Indices
         /\ s.routes \in Seq(Route)
         /\ s.joined \in BOOLEAN
         /\ s.preferred \in {0} \cup Indices
         /\ s.rank \in Ranks
         /\ s.min_rank \in Ranks
         /\ s.defrt \in Seq(Router)
         /\ s.def_route \in 0 .. UIP_DS6_DEFRT_NB
  BY DEF NodeState

LEMMA FirstKeyFound ==
  ASSUME NEW s, s.keys \in Seq(Indices), NEW Q
  PROVE  /\ FirstKey(s, Q) = 0 \/ FirstKey(s, Q) \in Range(s.keys) \cap Q
         /\ FirstKey(s, Q) = 0 => Range(s.keys) \cap Q = {}
         /\ Range(s.keys) \subseteq Indices
         /\ 0 \notin Indices
  <1>1. PICK keys \in Seq(Indices) : keys = s.keys
    OBVIOUS
  <1>2. \A x : x \in Range(keys) <=> \E k \in 1 .. Len(keys) : keys[k] = x
    BY RangeIs
  <1>3. PICK found : found = {k \in 1 .. Len(keys) : keys[k] \in Q}
    OBVIOUS
  <1>4. FirstKey(s, Q) = IF found = {} THEN 0 ELSE keys[Min(found)]
    <2>1. DOMAIN keys = 1 .. Len(keys)
      OBVIOUS
    <2>2. found = {k \in DOMAIN s.keys : s.keys[k] \in Q}
      BY <1>1, <1>3, <2>1
    <2> QED BY <1>1, <2>2 DEF FirstKey
  <1>5. Range(keys) \subseteq Indices
    BY <1>2
  <1>6. 0 \notin Indices
    BY NbrTableAssumption DEF Indices
  <1>7. CASE found = {}
    <2>1. Range(keys) \cap Q = {}
      BY <1>2, <1>3, <1>7
    <2> QED BY <1>1, <1>4, <1>5, <1>6, <1>7, <2>1
  <1>8. CASE found # {}
    <2>1. found \in SUBSET Nat
      BY <1>3
    <2>2. Min(found) \in found
      BY <1>8, <2>1, LeastElement
    <2>3. keys[Min(found)] \in Range(keys) \cap Q
      BY <1>2, <1>3, <2>2
    <2>4. keys[Min(found)] # 0
      BY <1>5, <1>6, <2>3
    <2> QED BY <1>1, <1>4, <1>5, <1>6, <1>8, <2>3, <2>4
  <1> QED BY <1>7, <1>8

LEMMA SlotFound ==
  ASSUME NEW s, Tables(s), NEW l
  PROVE  \/ /\ index_from_lladdr(s, l) = 0
            /\ \A i \in Range(s.keys) : s.lladdr[i] # l
         \/ /\ index_from_lladdr(s, l) \in Range(s.keys)
            /\ index_from_lladdr(s, l) \in Indices
            /\ s.lladdr[index_from_lladdr(s, l)] = l
  <1>1. s.keys \in Seq(Indices)
    BY Fields DEF Tables, Typed
  <1>2. PICK Q : Q = {i \in Indices : s.lladdr[i] = l}
    OBVIOUS
  <1>3. index_from_lladdr(s, l) = FirstKey(s, Q)
    BY <1>2 DEF index_from_lladdr
  <1>4. PICK f : f = FirstKey(s, Q)
    OBVIOUS
  <1>5. /\ f = 0 \/ f \in Range(s.keys) \cap Q
        /\ f = 0 => Range(s.keys) \cap Q = {}
        /\ Range(s.keys) \subseteq Indices
    BY <1>1, <1>4, FirstKeyFound
  <1> QED BY <1>2, <1>3, <1>4, <1>5

LEMMA NeighbourFound ==
  ASSUME NEW s, Tables(s), NEW ip
  PROVE  \/ /\ uip_ds6_nbr_lookup(s, ip) = 0
            /\ \A i \in Indices : s.ds6[i] # Null => s.ds6[i].ip # ip
         \/ /\ uip_ds6_nbr_lookup(s, ip) \in Indices
            /\ s.ds6[uip_ds6_nbr_lookup(s, ip)] # Null
            /\ s.ds6[uip_ds6_nbr_lookup(s, ip)].ip = ip
  <1>1. s.keys \in Seq(Indices)
    BY Fields DEF Tables, Typed
  <1>2. PICK Q : Q = {i \in Indices : s.ds6[i] # Null /\ s.ds6[i].ip = ip}
    OBVIOUS
  <1>3. uip_ds6_nbr_lookup(s, ip) = FirstKey(s, Q)
    BY <1>2 DEF uip_ds6_nbr_lookup
  <1>4. PICK f : f = FirstKey(s, Q)
    OBVIOUS
  <1>5. /\ f = 0 \/ f \in Range(s.keys) \cap Q
        /\ f = 0 => Range(s.keys) \cap Q = {}
        /\ Range(s.keys) \subseteq Indices
    BY <1>1, <1>4, FirstKeyFound
  <1>6. \A i \in Indices : s.ds6[i] # Null => i \in Range(s.keys)
    BY DEF Tables, Allotted
  <1> QED BY <1>2, <1>3, <1>4, <1>5, <1>6

(* The slot that holds the address of a router is the one that is found. *)
LEMMA RouterSlot ==
  ASSUME NEW s, Tables(s), NEW i \in Indices, s.lladdr[i] \in Routers
  PROVE  /\ index_from_lladdr(s, s.lladdr[i]) = i
         /\ uip_ds6_nbr_ll_lookup(s, s.lladdr[i]) = Used(s.ds6, i)
         /\ rpl_get_nbr(s, i) = Used(s.ds6, i)
         /\ s.ds6[i] = Null => IpOf(s, i) = Null
         /\ s.ds6[i] # Null => IpOf(s, i) = s.ds6[i].ip /\ s.ds6[i].ip = s.lladdr[i]
  <1>1. s.lladdr[i] # Null
    BY RplAssumption DEF Nodes
  <1>2. i \in Range(s.keys)
    BY <1>1 DEF Tables, Allotted
  <1>3. PICK f : f = index_from_lladdr(s, s.lladdr[i])
    OBVIOUS
  <1>4. f \in Indices /\ s.lladdr[f] = s.lladdr[i]
    BY <1>2, <1>3, SlotFound
  <1>5. f = i
    BY <1>4 DEF Tables, KnownOnce
  <1>6. uip_ds6_nbr_ll_lookup(s, s.lladdr[i]) = Used(s.ds6, i)
    BY <1>3, <1>5 DEF uip_ds6_nbr_ll_lookup
  <1>7. i # 0
    BY DEF Indices
  <1>8. Used(s.ds6, i) = IF s.ds6[i] = Null THEN 0 ELSE i
    BY <1>7 DEF Used
  <1>9. IpOf(s, i) = IF Used(s.ds6, i) = 0 THEN Null ELSE s.ds6[Used(s.ds6, i)].ip
    BY <1>6 DEF IpOf
  <1>10. s.ds6[i] # Null => s.ds6[i].ip = s.lladdr[i]
    BY <1>1 DEF Tables, Addressed
  <1> QED BY <1>3, <1>5, <1>6, <1>7, <1>8, <1>9, <1>10 DEF rpl_get_nbr

(* A router that the neighbour cache knows, and the parent it may be *)
LEMMA RouterKnown ==
  ASSUME NEW s, Tables(s), NEW x \in Routers, uip_ds6_nbr_lookup(s, x) # 0
  PROVE  /\ uip_ds6_nbr_lookup(s, x) \in Indices
         /\ s.ds6[uip_ds6_nbr_lookup(s, x)] # Null
         /\ s.ds6[uip_ds6_nbr_lookup(s, x)].ip = x
         /\ s.lladdr[uip_ds6_nbr_lookup(s, x)] = x
         /\ index_from_lladdr(s, x) = uip_ds6_nbr_lookup(s, x)
         /\ rpl_find_parent(s, x) = Used(s.parents, uip_ds6_nbr_lookup(s, x))
  <1>1. PICK n : n = uip_ds6_nbr_lookup(s, x)
    OBVIOUS
  <1>2. n \in Indices /\ s.ds6[n] # Null /\ s.ds6[n].ip = x
    BY <1>1, NeighbourFound
  <1>3. s.lladdr[n] = x
    BY <1>2 DEF Tables, Addressed
  <1>4. index_from_lladdr(s, x) = n
    BY <1>2, <1>3, RouterSlot
  <1>5. rpl_find_parent(s, x) = Used(s.parents, n)
    BY <1>1, <1>3, <1>4 DEF rpl_find_parent
  <1> QED BY <1>1, <1>2, <1>3, <1>4, <1>5

-----------------------------------------------------------------------------
(* Routes *)

(* t is s but for its routes and the lists of them. *)
ButRoutes(s, t) ==
    /\ t \in NodeState
    /\ t.keys = s.keys /\ t.lladdr = s.lladdr /\ t.ds6 = s.ds6
    /\ t.parents = s.parents /\ t.locked = s.locked /\ t.joined = s.joined
    /\ t.preferred = s.preferred /\ t.rank = s.rank /\ t.min_rank = s.min_rank
    /\ t.defrt = s.defrt /\ t.def_route = s.def_route

Routing(s) == s \in NodeState /\ Listed(s.routes) /\ Mirrored(s)

WithRoutes(s, q, i, v) == [s EXCEPT !.routes = q, !.lists[i] = v]

LEMMA RoutesExcept ==
  ASSUME NEW s \in NodeState, NEW q \in Seq(Route), NEW i \in Indices,
         NEW v \in (SUBSET Targets) \cup {Null}
  PROVE  /\ ButRoutes(s, WithRoutes(s, q, i, v))
         /\ WithRoutes(s, q, i, v).routes = q
         /\ WithRoutes(s, q, i, v).lists = [s.lists EXCEPT ![i] = v]
  BY DEF NodeState, ButRoutes, WithRoutes

LEMMA RouteRemoved ==
  ASSUME NEW s, Routing(s), NEW r \in Range(s.routes), NEW t, t = uip_ds6_route_rm(s, r)
  PROVE  /\ ButRoutes(s, t)
         /\ Routing(t)
         /\ Range(t.routes) = Range(s.routes) \ {r}
         /\ Len(t.routes) < Len(s.routes)
  <1>1. s \in NodeState /\ s.routes \in Seq(Route)
    BY Fields DEF Routing
  <1>2. r \in Route
    BY <1>1, RangeIs
  <1>3. r.index \in Indices /\ r.dest \in Targets
    BY <1>2 DEF Route
  <1>4. s.lists[r.index] # Null /\ r.dest \in s.lists[r.index]
    BY <1>3 DEF Routing, Mirrored
  <1>5. s.lists \in [Indices -> (SUBSET Targets) \cup {Null}]
    BY <1>1, Fields
  <1>6. PICK rest : rest = s.lists[r.index] \ {r.dest}
    OBVIOUS
  <1>7. rest \in SUBSET Targets
    BY <1>3, <1>4, <1>5, <1>6
  <1>8. PICK v \in (SUBSET Targets) \cup {Null} : v = IF rest = {} THEN Null ELSE rest
    BY <1>7
  <1>9. PICK q : q = Only(s.routes, Range(s.routes) \ {r})
    OBVIOUS
  <1>10. Listed(q) /\ Range(q) = Range(s.routes) \ {r} /\ Len(q) < Len(s.routes)
    BY <1>9, ListedWithout DEF Routing
  <1>11. q \in Seq(Route)
    BY <1>10 DEF Listed
  <1>12. t = WithRoutes(s, q, r.index, v)
    BY <1>6, <1>8, <1>9 DEF uip_ds6_route_rm, WithRoutes
  <1>13. ButRoutes(s, t) /\ t.routes = q /\ t.lists = [s.lists EXCEPT ![r.index] = v]
    BY <1>1, <1>3, <1>8, <1>11, <1>12, RoutesExcept
  <1>14. Mirrored(t)
    <2> SUFFICES ASSUME NEW i \in Indices
                 PROVE  /\ t.lists[i] # {}
                        /\ \A d \in Targets : (t.lists[i] # Null /\ d \in t.lists[i])
                              <=> \E p \in Range(t.routes) : p.index = i /\ p.dest = d
      BY DEF Mirrored
    <2>1. /\ s.lists[i] # {}
          /\ \A d \in Targets : (s.lists[i] # Null /\ d \in s.lists[i])
                <=> \E p \in Range(s.routes) : p.index = i /\ p.dest = d
      BY DEF Routing, Mirrored
    <2>2. CASE i # r.index
      <3>1. t.lists[i] = s.lists[i]
        BY <1>5, <1>13, <2>2
      <3> QED BY <1>10, <1>13, <2>1, <2>2, <3>1
    <2>3. CASE i = r.index
      <3>1. t.lists[i] = v
        BY <1>3, <1>5, <1>13, <2>3
      <3>2. v # {}
        BY <1>8, RplAssumption
      <3>3. ASSUME NEW d \in Targets
            PROVE  (v # Null /\ d \in v) <=> d \in s.lists[i] /\ d # r.dest
        BY <1>6, <1>7, <1>8, <2>3, RplAssumption
      <3>4. ASSUME NEW d \in Targets, NEW p \in Range(s.routes), p.index = i, p.dest = d
            PROVE  d # r.dest <=> p # r
        BY <3>4, ListedDest DEF Routing
      <3>5. ASSUME NEW d \in Targets
            PROVE  (v # Null /\ d \in v)
                      <=> \E p \in Range(s.routes) \ {r} : p.index = i /\ p.dest = d
        BY <1>4, <2>1, <2>3, <3>3, <3>4
      <3> QED BY <1>10, <1>13, <3>1, <3>2, <3>5
    <2> QED BY <2>2, <2>3
  <1> QED BY <1>10, <1>13, <1>14 DEF Routing, ButRoutes

LEMMA RouteFound ==
  ASSUME NEW s, Routing(s), NEW d, NEW t, t = uip_ds6_route_lookup(s, d)
  PROVE  /\ ButRoutes(s, t)
         /\ Routing(t)
         /\ Range(t.routes) = Range(s.routes)
         /\ HasRoute(s, d) => /\ t.routes[1] \in Range(t.routes)
                              /\ t.routes[1].dest = d
  <1>1. s \in NodeState /\ s.routes \in Seq(Route)
    BY Fields DEF Routing
  <1>2. PICK Q \in SUBSET Range(s.routes) : Q = RoutesTo(s, d)
    BY DEF RoutesTo
  <1>3. PICK p : p = Fronted(s.routes, Q)
    OBVIOUS
  <1>4. Listed(p) /\ Range(p) = Range(s.routes) /\ (Q # {} => p[1] \in Q)
    BY <1>2, <1>3, ListedMoved DEF Routing
  <1>5. p \in Seq(Route)
    BY <1>4 DEF Listed
  <1>6. t = [s EXCEPT !.routes = p]
    BY <1>2, <1>3 DEF uip_ds6_route_lookup, Fronted
  <1>7. ButRoutes(s, t) /\ t.routes = p /\ t.lists = s.lists
    BY <1>1, <1>5, <1>6 DEF NodeState, ButRoutes
  <1>8. Mirrored(t)
    BY <1>4, <1>7 DEF Routing, Mirrored
  <1>9. HasRoute(s, d) => p[1] \in Range(p) /\ p[1].dest = d
    BY <1>2, <1>4 DEF HasRoute, RoutesTo
  <1> QED BY <1>4, <1>7, <1>8, <1>9 DEF Routing, ButRoutes

LEMMA RouteIsAdded ==
  ASSUME NEW s, Routing(s), Len(s.routes) < UIP_DS6_ROUTE_NB,
         NEW d \in Targets, \A r \in Range(s.routes) : r.dest # d,
         NEW i \in Indices, NEW x \in Nodes, NEW t, t = RouteAdded(s, d, i, x)
  PROVE  /\ ButRoutes(s, t)
         /\ Routing(t)
         /\ Range(t.routes) = {[dest |-> d, index |-> i, via |-> x]} \cup Range(s.routes)
  <1>1. s \in NodeState /\ s.routes \in Seq(Route)
    BY Fields DEF Routing
  <1>2. PICK n \in Route : n = [dest |-> d, index |-> i, via |-> x]
    BY DEF Route
  <1>3. n.dest = d /\ n.index = i
    BY <1>2
  <1>4. PICK p : p = <<n>> \o s.routes
    OBVIOUS
  <1>5. Listed(p) /\ Range(p) = {n} \cup Range(s.routes)
    BY <1>3, <1>4, ListedFront DEF Routing
  <1>6. p \in Seq(Route)
    BY <1>5 DEF Listed
  <1>7. s.lists \in [Indices -> (SUBSET Targets) \cup {Null}]
    BY <1>1, Fields
  <1>8. PICK v \in (SUBSET Targets) \cup {Null} : v \in SUBSET Targets /\ v = (IF s.lists[i] = Null THEN {} ELSE s.lists[i]) \cup {d}
    BY <1>7
  <1>9. t = WithRoutes(s, p, i, v)
    BY <1>2, <1>4, <1>8 DEF RouteAdded, WithRoutes
  <1>10. ButRoutes(s, t) /\ t.routes = p /\ t.lists = [s.lists EXCEPT ![i] = v]
    <2>1. /\ ButRoutes(s, WithRoutes(s, p, i, v))
          /\ WithRoutes(s, p, i, v).routes = p
          /\ WithRoutes(s, p, i, v).lists = [s.lists EXCEPT ![i] = v]
      BY <1>1, <1>6, RoutesExcept
    <2> QED BY <1>9, <2>1
  <1>11. Mirrored(t)
    <2> SUFFICES ASSUME NEW j \in Indices
                 PROVE  /\ t.lists[j] # {}
                        /\ \A e \in Targets : (t.lists[j] # Null /\ e \in t.lists[j])
                              <=> \E r \in Range(t.routes) : r.index = j /\ r.dest = e
      BY DEF Mirrored
    <2>1. /\ s.lists[j] # {}
          /\ \A e \in Targets : (s.lists[j] # Null /\ e \in s.lists[j])
                <=> \E r \in Range(s.routes) : r.index = j /\ r.dest = e
      BY DEF Routing, Mirrored
    <2>2. CASE j # i
      <3>1. t.lists[j] = s.lists[j]
        BY <1>7, <1>10, <2>2
      <3> QED BY <1>3, <1>5, <1>10, <2>1, <2>2, <3>1
    <2>3. CASE j = i
      <3>1. t.lists[j] = v
        BY <1>7, <1>10, <2>3
      <3>2. v # {} /\ v # Null
        BY <1>8, RplAssumption
      <3>3. \A e \in Targets : e \in v <=> e = d \/ (s.lists[j] # Null /\ e \in s.lists[j])
        BY <1>8, <2>3
      <3> QED BY <1>3, <1>5, <1>10, <2>1, <2>3, <3>1, <3>2, <3>3
    <2> QED BY <2>2, <2>3
  <1> QED BY <1>2, <1>5, <1>10, <1>11 DEF Routing, ButRoutes

LEMMA RouteListRemoved ==
  ASSUME NEW s, Routing(s), NEW i \in Indices, s.lists[i] # Null, NEW t, t = rm_routelist(s, i)
  PROVE  /\ ButRoutes(s, t)
         /\ Routing(t)
         /\ Range(t.routes) = {r \in Range(s.routes) : r.index # i}
         /\ t.lists[i] = Null
  <1>1. s \in NodeState /\ s.routes \in Seq(Route)
    BY Fields DEF Routing
  <1>2. s.lists \in [Indices -> (SUBSET Targets) \cup {Null}]
    BY <1>1, Fields
  <1>3. \A r \in Range(s.routes) : r.dest \in Targets /\ r.index \in Indices
    <2> SUFFICES ASSUME NEW r \in Range(s.routes)
                 PROVE  r.dest \in Targets /\ r.index \in Indices
      OBVIOUS
    <2>1. r \in Route
      BY <1>1, RangeIs
    <2> QED BY <2>1 DEF Route
  <1>4. \A r \in Range(s.routes) : r.dest \notin s.lists[i] <=> r.index # i
    <2> SUFFICES ASSUME NEW r \in Range(s.routes)
                 PROVE  r.dest \notin s.lists[i] <=> r.index # i
      OBVIOUS
    <2>1. r.dest \in s.lists[i] <=> \E p \in Range(s.routes) : p.index = i /\ p.dest = r.dest
      BY <1>3 DEF Routing, Mirrored
    <2>2. \A p \in Range(s.routes) : p.dest = r.dest => p = r
      BY ListedDest DEF Routing
    <2> QED BY <2>1, <2>2
  <1>5. PICK Q : Q = {r \in Range(s.routes) : r.dest \notin s.lists[i]}
    OBVIOUS
  <1>6. PICK q : q = Only(s.routes, Q)
    OBVIOUS
  <1>7. Listed(q) /\ Range(q) = Q
    <2>1. Listed(q) /\ Range(q) = Range(s.routes) \cap Q
      BY <1>6, ListedOnly DEF Routing
    <2> QED BY <1>5, <2>1
  <1>8. q \in Seq(Route)
    BY <1>7 DEF Listed
  <1>9. t = WithRoutes(s, q, i, Null)
    BY <1>5, <1>6 DEF rm_routelist, WithRoutes
  <1>10. ButRoutes(s, t) /\ t.routes = q /\ t.lists = [s.lists EXCEPT ![i] = Null]
    BY <1>1, <1>8, <1>9, RoutesExcept
  <1>11. t.lists[i] = Null /\ \A j \in Indices : j # i => t.lists[j] = s.lists[j]
    BY <1>2, <1>10
  <1>12. \A r : r \in Range(t.routes) <=> r \in Range(s.routes) /\ r.index # i
    BY <1>4, <1>5, <1>7, <1>10
  <1>13. Mirrored(t)
    <2> SUFFICES ASSUME NEW j \in Indices
                 PROVE  /\ t.lists[j] # {}
                        /\ \A d \in Targets : (t.lists[j] # Null /\ d \in t.lists[j])
                              <=> \E r \in Range(t.routes) : r.index = j /\ r.dest = d
      BY DEF Mirrored
    <2>1. /\ s.lists[j] # {}
          /\ \A d \in Targets : (s.lists[j] # Null /\ d \in s.lists[j])
                <=> \E r \in Range(s.routes) : r.index = j /\ r.dest = d
      BY DEF Routing, Mirrored
    <2>2. CASE j # i
      BY <1>11, <1>12, <2>1, <2>2
    <2>3. CASE j = i
      BY <1>11, <1>12, <2>3, RplAssumption
    <2> QED BY <2>2, <2>3
  <1> QED BY <1>7, <1>10, <1>11, <1>12, <1>13 DEF Routing, ButRoutes

LEMMA RoomMade ==
  ASSUME NEW s, Routing(s), NEW t, t = RoomForRoute(s)
  PROVE  /\ ButRoutes(s, t)
         /\ Routing(t)
         /\ Range(t.routes) \subseteq Range(s.routes)
         /\ Len(t.routes) < UIP_DS6_ROUTE_NB
  <1>1. s \in NodeState /\ s.routes \in Seq(Route)
    BY Fields DEF Routing
  <1>2. PICK n \in Nat : n = Len(s.routes)
    BY <1>1
  <1>3. UIP_DS6_ROUTE_NB \in Nat \ {0} /\ n <= UIP_DS6_ROUTE_NB
    BY <1>2, RplAssumption DEF Routing, Listed
  <1>4. CASE n = UIP_DS6_ROUTE_NB
    <2>1. n \in 1 .. n
      BY <1>3, <1>4
    <2>2. s.routes[n] \in Range(s.routes)
      BY <1>1, <1>2, <2>1, RangeIs
    <2>3. t = uip_ds6_route_rm(s, s.routes[n])
      BY <1>2, <1>4 DEF RoomForRoute, Last
    <2>4. /\ ButRoutes(s, t)
          /\ Routing(t)
          /\ Range(t.routes) = Range(s.routes) \ {s.routes[n]}
          /\ Len(t.routes) < Len(s.routes)
      BY <2>2, <2>3, RouteRemoved
    <2> QED BY <1>2, <1>4, <2>4
  <1>5. CASE n # UIP_DS6_ROUTE_NB
    <2>1. t = s
      BY <1>2, <1>5 DEF RoomForRoute
    <2> QED BY <1>1, <1>2, <1>3, <1>5, <2>1 DEF ButRoutes
  <1> QED BY <1>4, <1>5

LEMMA ButRoutesTwice ==
  ASSUME NEW s, NEW t, NEW u, ButRoutes(s, t), ButRoutes(t, u)
  PROVE  ButRoutes(s, u)
  BY DEF ButRoutes

(* A route to d through the slot i of its next hop x takes the place of the *)
(* one there was.                                                           *)
LEMMA RouteTaken ==
  ASSUME NEW s, Tables(s), Routing(s), NEW d \in Targets,
         NEW x \in Routers, uip_ds6_nbr_lookup(s, x) # 0,
         NEW t, t = uip_ds6_route_add(s, d, x)
  PROVE  /\ ButRoutes(s, t)
         /\ Routing(t)
         /\ \A r \in Range(t.routes) :
               r \in Range(s.routes) \/ (r.via = x /\ s.lladdr[r.index] = x)
  <1>1. PICK i \in Indices : /\ i = uip_ds6_nbr_lookup(s, x)
                             /\ s.lladdr[i] = x
                             /\ index_from_lladdr(s, x) = i
    BY RouterKnown
  <1>2. i # 0
    BY <1>1
  <1>3. t = IF HasRoute(s, d) THEN RouteReplaced(uip_ds6_route_lookup(s, d), d, i, x)
            ELSE RouteAdded(RoomForRoute(s), d, i, x)
    BY <1>1, <1>2 DEF uip_ds6_route_add
  <1>4. x \in Nodes
    BY DEF Nodes
  <1>5. PICK n : n = [dest |-> d, index |-> i, via |-> x]
    OBVIOUS
  <1>6. n.via = x /\ n.index = i
    BY <1>5
  <1>7. CASE ~HasRoute(s, d)
    <2>1. PICK u : u = RoomForRoute(s)
      OBVIOUS
    <2>2. /\ ButRoutes(s, u)
          /\ Routing(u)
          /\ Range(u.routes) \subseteq Range(s.routes)
          /\ Len(u.routes) < UIP_DS6_ROUTE_NB
      BY <2>1, RoomMade
    <2>3. \A r \in Range(u.routes) : r.dest # d
      BY <1>7, <2>2 DEF HasRoute, RoutesTo
    <2>4. t = RouteAdded(u, d, i, x)
      BY <1>3, <1>7, <2>1
    <2>5. ButRoutes(u, t) /\ Routing(t) /\ Range(t.routes) = {n} \cup Range(u.routes)
      BY <1>4, <1>5, <2>2, <2>3, <2>4, RouteIsAdded
    <2> QED BY <1>1, <1>6, <2>2, <2>5, ButRoutesTwice
  <1>8. CASE HasRoute(s, d)
    <2>1. PICK f : f = uip_ds6_route_lookup(s, d)
      OBVIOUS
    <2>2. /\ ButRoutes(s, f)
          /\ Routing(f)
          /\ Range(f.routes) = Range(s.routes)
          /\ f.routes[1] \in Range(f.routes)
          /\ f.routes[1].dest = d
      BY <1>8, <2>1, RouteFound
    <2>3. t = RouteReplaced(f, d, i, x)
      BY <1>3, <1>8, <2>1
    <2>4. CASE uip_ds6_route_nexthop(f, f.routes[1]) = x
      BY <2>2, <2>3, <2>4 DEF RouteReplaced
    <2>5. CASE uip_ds6_route_nexthop(f, f.routes[1]) # x
      <3>1. PICK g : g = uip_ds6_route_rm(f, f.routes[1])
        OBVIOUS
      <3>2. /\ ButRoutes(f, g)
            /\ Routing(g)
            /\ Range(g.routes) = Range(f.routes) \ {f.routes[1]}
        BY <2>2, <3>1, RouteRemoved
      <3>3. PICK u : u = RoomForRoute(g)
        OBVIOUS
      <3>4. /\ ButRoutes(g, u)
            /\ Routing(u)
            /\ Range(u.routes) \subseteq Range(g.routes)
            /\ Len(u.routes) < UIP_DS6_ROUTE_NB
        BY <3>2, <3>3, RoomMade
      <3>5. \A r \in Range(f.routes) : r.dest = d => r = f.routes[1]
        BY <2>2, ListedDest DEF Routing
      <3>6. \A r \in Range(u.routes) : r.dest # d
        BY <3>2, <3>4, <3>5
      <3>7. t = RouteAdded(u, d, i, x)
        BY <2>3, <2>5, <3>1, <3>3 DEF RouteReplaced
      <3>8. ButRoutes(u, t) /\ Routing(t) /\ Range(t.routes) = {n} \cup Range(u.routes)
        BY <1>4, <1>5, <3>4, <3>6, <3>7, RouteIsAdded
      <3>9. ButRoutes(s, t)
        BY <2>2, <3>2, <3>4, <3>8, ButRoutesTwice
      <3> QED BY <1>1, <1>6, <2>2, <3>2, <3>4, <3>8, <3>9
    <2> QED BY <2>4, <2>5
  <1> QED BY <1>7, <1>8

(* What changes routes only, and makes none but to a known router, is good. *)
LEMMA RoutesKeepCore ==
  ASSUME NEW s, Core(s), NEW t, ButRoutes(s, t), Routing(t),
         \A r \in Range(t.routes) :
            r \in Range(s.routes) \/ (r.via \in Routers /\ s.lladdr[r.index] = r.via)
  PROVE  Core(t)
  <1>1. Typed(t)
    BY DEF Core, Tables, Typed, ButRoutes, Routing
  <1>2. Leading(t)
    BY DEF Core, Leading, ButRoutes
  <1>3. Allotted(t)
    <2> SUFFICES ASSUME NEW i \in Indices, i \notin Range(s.keys) PROVE t.lists[i] = Null
      BY DEF Core, Tables, Allotted, ButRoutes
    <2>1. t.lladdr[i] \notin Routers
      BY RplAssumption DEF Core, Tables, Allotted, ButRoutes, Nodes
    <2>2. \A r \in Range(t.routes) : r.index # i
      BY <1>2, <2>1 DEF Leading
    <2>3. t.lists \in [Indices -> (SUBSET Targets) \cup {Null}]
      BY Fields DEF ButRoutes
    <2>4. t.lists[i] # {} /\ \A d \in Targets : ~(t.lists[i] # Null /\ d \in t.lists[i])
      BY <2>2 DEF Routing, Mirrored
    <2> QED BY <2>3, <2>4
  <1> QED BY <1>1, <1>2, <1>3
          DEF Core, Tables, Addressed, KnownOnce, Parented, Routing, ButRoutes

LEMMA RoutesKeepGood ==
  ASSUME NEW s, Good(s), NEW t, ButRoutes(s, t), Routing(t),
         \A r \in Range(t.routes) :
            r \in Range(s.routes) \/ (r.via \in Routers /\ s.lladdr[r.index] = r.via)
  PROVE  Good(t)
  <1>1. Core(t)
    BY RoutesKeepCore DEF Good
  <1> QED BY <1>1 DEF Good, Joined, Held, Pointed, RoutedBy, ButRoutes

LEMMA GoodRoutes ==
  ASSUME NEW s, Core(s)
  PROVE  Routing(s) /\ s \in NodeState
  BY DEF Core, Tables, Typed, Routing

-----------------------------------------------------------------------------
(* Default routers *)

(* t is s but for its default routers. *)
ButDefault(s, t) ==
    /\ t \in NodeState
    /\ t.keys = s.keys /\ t.lladdr = s.lladdr /\ t.ds6 = s.ds6 /\ t.lists = s.lists
    /\ t.parents = s.parents /\ t.locked = s.locked /\ t.routes = s.routes
    /\ t.joined = s.joined /\ t.preferred = s.preferred
    /\ t.rank = s.rank /\ t.min_rank = s.min_rank

WithDefault(s, q) == [s EXCEPT !.defrt = q]

LEMMA DefaultExcept ==
  ASSUME NEW s \in NodeState, NEW q \in Seq(Router)
  PROVE  /\ ButDefault(s, WithDefault(s, q))
         /\ WithDefault(s, q).defrt = q
         /\ WithDefault(s, q).def_route = s.def_route
  BY DEF NodeState, ButDefault, WithDefault

WithPointer(s, b) == [s EXCEPT !.def_route = b]

LEMMA PointerExcept ==
  ASSUME NEW s \in NodeState, NEW b \in 0 .. UIP_DS6_DEFRT_NB
  PROVE  /\ ButDefault(s, WithPointer(s, b))
         /\ WithPointer(s, b).defrt = s.defrt
         /\ WithPointer(s, b).def_route = b
  BY DEF NodeState, ButDefault, WithPointer

LEMMA EmptyList ==
  ASSUME NEW T, NEW q \in Seq(T)
  PROVE  q = <<>> <=> Len(q) = 0
  BY EmptySeq

(* What a list of one element contains, and when two such lists are equal *)
LEMMA SingleElement ==
  ASSUME NEW T, NEW q \in Seq(T), Len(q) = 1
  PROVE  \A x : x \in Range(q) <=> x = q[1]
  <1>1. \A x : x \in Range(q) <=> \E k \in 1 .. Len(q) : q[k] = x
    BY RangeIs
  <1>2. 1 .. Len(q) = {1}
    OBVIOUS
  <1> QED BY <1>1, <1>2

LEMMA SingleEqual ==
  ASSUME NEW T, NEW q \in Seq(T), NEW r \in Seq(T), Len(q) = 1, Len(r) = 1, q[1] = r[1]
  PROVE  q = r
  <1>1. \A k \in 1 .. Len(q) : q[k] = r[k]
    OBVIOUS
  <1> QED BY <1>1, SeqEqual

LEMMA Single ==
  ASSUME NEW T, NEW r \in T
  PROVE  <<r>> \in Seq(T) /\ Len(<<r>>) = 1 /\ <<r>>[1] = r /\ <<r>> \o <<>> = <<r>>
  OBVIOUS

(* A default router is removed; the one in the block def_route always is. *)
LEMMA DefaultRemoved ==
  ASSUME NEW s \in NodeState, Pointed(s), NEW b, NEW t, t = uip_ds6_defrt_rm(s, b)
  PROVE  /\ ButDefault(s, t)
         /\ t.def_route = s.def_route
         /\ t.defrt = <<>> \/ (t.defrt = s.defrt /\ b # 1)
  <1>1. s.defrt \in Seq(Router)
    BY Fields
  <1>2. PICK n \in Nat : n = Len(s.defrt)
    BY <1>1
  <1>3. PICK Q : Q = {r \in Range(s.defrt) : r.block # b}
    OBVIOUS
  <1>4. PICK q \in Seq(Router) : /\ q = Only(s.defrt, Q)
                                 /\ Len(q) <= Len(s.defrt)
                                 /\ Range(q) = Range(s.defrt) \cap Q
    BY <1>1, OnlyRange
  <1>5. t = WithDefault(s, q)
    BY <1>3, <1>4 DEF uip_ds6_defrt_rm, WithDefault
  <1>6. ButDefault(s, t) /\ t.defrt = q /\ t.def_route = s.def_route
    BY <1>5, DefaultExcept
  <1>7. PICK m \in Nat : m = Len(q)
    OBVIOUS
  <1>8. n <= 1 /\ m <= n
    <2>1. s.defrt = <<>> => n = 0
      BY <1>1, <1>2, EmptyList
    <2>2. n = 0 \/ n = 1
      BY <1>2, <2>1 DEF Pointed
    <2>3. m <= n
      BY <1>2, <1>4, <1>7
    <2> QED BY <2>2, <2>3
  <1>9. CASE m = 0
    <2>1. q = <<>>
      BY <1>7, <1>9, EmptyList
    <2> QED BY <1>6, <2>1
  <1>10. CASE m # 0
    <2>1. m = 1 /\ n = 1
      BY <1>8, <1>10
    <2>2. \A x : x \in Range(q) <=> x = q[1]
      BY <1>7, <2>1, SingleElement
    <2>3. s.defrt # <<>>
      <3>1. Len(s.defrt) # 0
        BY <1>2, <2>1
      <3> QED BY <1>1, <3>1, EmptyList
    <2>4. \A x : x \in Range(s.defrt) <=> x = s.defrt[1]
      BY <1>1, <1>2, <2>1, SingleElement
    <2>5. q[1] = s.defrt[1] /\ s.defrt[1].block # b
      BY <1>3, <1>4, <2>2, <2>4
    <2>6. s.defrt[1].block = 1
      BY <2>3 DEF Pointed
    <2>7. q = s.defrt
      BY <1>1, <1>2, <1>7, <2>1, <2>5, SingleEqual
    <2> QED BY <1>6, <2>5, <2>6, <2>7
  <1> QED BY <1>9, <1>10

LEMMA DefaultFound ==
  ASSUME NEW s \in NodeState, NEW ip
  PROVE  /\ s.defrt = <<>> => uip_ds6_defrt_lookup(s, ip) = 0
         /\ Len(s.defrt) = 1 /\ s.defrt[1].ip = ip =>
               uip_ds6_defrt_lookup(s, ip) = s.defrt[1].block
  <1>1. PICK q \in Seq(Router) : q = s.defrt
    BY Fields
  <1>2. PICK found : found = {k \in 1 .. Len(q) : q[k].ip = ip}
    OBVIOUS
  <1>3. uip_ds6_defrt_lookup(s, ip) = IF found = {} THEN 0 ELSE q[Min(found)].block
    <2>1. found = {k \in DOMAIN s.defrt : s.defrt[k].ip = ip}
      BY <1>1, <1>2
    <2> QED BY <1>1, <2>1 DEF uip_ds6_defrt_lookup
  <1>4. q = <<>> => found = {}
    <2> SUFFICES ASSUME q = <<>> PROVE found = {}
      OBVIOUS
    <2>1. Len(q) = 0
      OBVIOUS
    <2> QED BY <1>2, <2>1
  <1>5. ASSUME Len(q) = 1, q[1].ip = ip PROVE found # {} /\ Min(found) = 1
    <2>1. 1 \in found /\ found \in SUBSET Nat /\ \A k \in found : k = 1
      BY <1>2, <1>5
    <2>2. Min(found) \in found
      BY <2>1, LeastElement
    <2> QED BY <2>1, <2>2
  <1> QED BY <1>1, <1>3, <1>4, <1>5

(* The first default router gets the first block. *)
LEMMA DefaultAdded ==
  ASSUME NEW s \in NodeState, s.defrt = <<>>, NEW ip \in Nodes,
         NEW t, t = uip_ds6_defrt_add(s, ip)
  PROVE  /\ ButDefault(s, t)
         /\ t.def_route = s.def_route
         /\ Len(t.defrt) = 1 /\ t.defrt[1].block = 1 /\ t.defrt[1].ip = ip
  <1>1. uip_ds6_defrt_lookup(s, ip) = 0
    BY DefaultFound
  <1>2. PICK free : free = FreeBlocks(s)
    OBVIOUS
  <1>3. UIP_DS6_DEFRT_NB \in Nat \ {0}
    BY RplAssumption
  <1>4. free = 1 .. UIP_DS6_DEFRT_NB
    <2>1. Len(s.defrt) = 0
      OBVIOUS
    <2>2. s.defrt \in Seq(Router)
      BY Fields
    <2>3. DOMAIN s.defrt = {}
      BY <2>1, <2>2
    <2> QED BY <1>2, <2>3 DEF FreeBlocks
  <1>5. 1 \in free /\ free \in SUBSET Nat
    BY <1>3, <1>4
  <1>6. Min(free) = 1
    <2>1. Min(free) \in free /\ Min(free) <= 1
      BY <1>5, LeastElement
    <2> QED BY <1>4, <2>1
  <1>7. PICK r \in Router : r = [block |-> 1, ip |-> ip]
    <2>1. 1 \in 1 .. UIP_DS6_DEFRT_NB
      BY <1>3
    <2>2. [block |-> 1, ip |-> ip] \in Router
      BY <2>1 DEF Router
    <2> QED BY <2>2
  <1>8. PICK q \in Seq(Router) : q = <<r>> /\ Len(q) = 1 /\ q[1] = r
    BY Single
  <1>9. t = WithDefault(s, <<r>> \o s.defrt)
    BY <1>1, <1>2, <1>5, <1>6, <1>7 DEF uip_ds6_defrt_add, WithDefault
  <1>10. t = WithDefault(s, q)
    <2>1. <<r>> \o <<>> = <<r>>
      BY Single
    <2> QED BY <1>8, <1>9, <2>1
  <1>11. ButDefault(s, t) /\ t.defrt = q /\ t.def_route = s.def_route
    BY <1>10, DefaultExcept
  <1> QED BY <1>7, <1>8, <1>11

LEMMA ButDefaultTwice ==
  ASSUME NEW s, NEW t, NEW u, ButDefault(s, t), ButDefault(t, u)
  PROVE  ButDefault(s, u)
  BY DEF ButDefault

(* The default route is replaced or, without an address, removed. *)
LEMMA DefaultSet ==
  ASSUME NEW s \in NodeState, Pointed(s), NEW ip \in Nodes \cup {Null},
         NEW t, t = rpl_set_default_route(s, ip)
  PROVE  /\ ButDefault(s, t)
         /\ ip = Null => t.defrt = <<>> /\ t.def_route = 0
         /\ ip # Null => /\ Len(t.defrt) = 1 /\ t.defrt[1].block = 1 /\ t.defrt[1].ip = ip
                         /\ t.def_route = 1
         /\ Pointed(t)
  <1>1. PICK a : a = uip_ds6_defrt_rm(s, s.def_route)
    OBVIOUS
  <1>2. ButDefault(s, a) /\ a.def_route = s.def_route /\ a.defrt = <<>>
    <2>1. a.defrt = <<>> \/ (a.defrt = s.defrt /\ s.def_route # 1)
      BY <1>1, DefaultRemoved
    <2>2. ButDefault(s, a) /\ a.def_route = s.def_route
      BY <1>1, DefaultRemoved
    <2> QED BY <2>1, <2>2 DEF Pointed
  <1>3. PICK b : b = WithPointer(a, 0)
    OBVIOUS
  <1>4. a \in NodeState /\ 0 \in 0 .. UIP_DS6_DEFRT_NB
    BY <1>2, RplAssumption DEF ButDefault
  <1>5. ButDefault(s, b) /\ b.defrt = <<>> /\ b.def_route = 0
    BY <1>2, <1>3, <1>4, PointerExcept, ButDefaultTwice
  <1>6. CASE ip = Null
    <2>1. t = b
      BY <1>1, <1>3, <1>6 DEF rpl_set_default_route, WithPointer
    <2> QED BY <1>5, <1>6, <2>1 DEF Pointed
  <1>7. CASE ip # Null
    <2>1. PICK c : c = uip_ds6_defrt_add(b, ip)
      OBVIOUS
    <2>2. b \in NodeState
      BY <1>5 DEF ButDefault
    <2>3. /\ ButDefault(b, c)
          /\ Len(c.defrt) = 1 /\ c.defrt[1].block = 1 /\ c.defrt[1].ip = ip
      BY <1>5, <1>7, <2>1, <2>2, DefaultAdded
    <2>4. c \in NodeState
      BY <2>3 DEF ButDefault
    <2>5. uip_ds6_defrt_lookup(c, ip) = 1
      BY <2>3, <2>4, DefaultFound
    <2>6. t = WithPointer(c, 1)
      BY <1>1, <1>3, <1>7, <2>1, <2>5 DEF rpl_set_default_route, WithPointer
    <2>7. 1 \in 0 .. UIP_DS6_DEFRT_NB
      BY RplAssumption
    <2>8. ButDefault(c, t) /\ t.defrt = c.defrt /\ t.def_route = 1
      BY <2>4, <2>6, <2>7, PointerExcept
    <2>9. ButDefault(s, t)
      BY <1>5, <2>3, <2>8, ButDefaultTwice
    <2> QED BY <1>7, <2>3, <2>8, <2>9 DEF Pointed
  <1> QED BY <1>6, <1>7

-----------------------------------------------------------------------------
(* Parents and rank *)

(* t is s but for what belongs to the DAG. *)
SameSlots(s, t) ==
    /\ t \in NodeState
    /\ t.keys = s.keys /\ t.lladdr = s.lladdr /\ t.ds6 = s.ds6
    /\ t.lists = s.lists /\ t.routes = s.routes /\ t.joined = s.joined

LEMMA SameSlotsTwice ==
  ASSUME NEW s, NEW t, NEW u, SameSlots(s, t), SameSlots(t, u)
  PROVE  SameSlots(s, u)
  BY DEF SameSlots

(* Good but for the default router *)
Sound(s) == Core(s) /\ Joined(s) /\ Held(s) /\ Pointed(s)

LEMMA SlotsKeepCore ==
  ASSUME NEW s, Core(s), NEW t, SameSlots(s, t),
         \A i \in Indices : t.parents[i] # Null =>
            /\ s.parents[i] # Null \/ (s.lladdr[i] \in Routers /\ s.ds6[i] # Null)
            /\ \/ t.parents[i].rank \in {s.parents[i].rank, INFINITE_RANK}
               \/ s.ds6[i] # Null
  PROVE  Core(t)
  <1>1. Typed(t)
    BY DEF Core, Tables, Typed, SameSlots
  <1>2. Mirrored(t) /\ Leading(t)
    BY DEF Core, Mirrored, Leading, SameSlots
  <1>3. Addressed(t) /\ KnownOnce(t)
    BY DEF Core, Tables, Addressed, KnownOnce, SameSlots
  <1>4. Allotted(t)
    BY DEF Core, Tables, Allotted, SameSlots
  <1>5. Parented(t)
    BY DEF Core, Parented, SameSlots
  <1> QED BY <1>1, <1>2, <1>3, <1>4, <1>5 DEF Core, Tables

WithPreferred(s, L, p) == [s EXCEPT !.locked = L, !.preferred = p]

LEMMA PreferredExcept ==
  ASSUME NEW s \in NodeState, NEW L \in SUBSET Indices, NEW p \in {0} \cup Indices
  PROVE  /\ SameSlots(s, WithPreferred(s, L, p))
         /\ WithPreferred(s, L, p).parents = s.parents
         /\ WithPreferred(s, L, p).rank = s.rank
         /\ WithPreferred(s, L, p).min_rank = s.min_rank
         /\ WithPreferred(s, L, p).defrt = s.defrt
         /\ WithPreferred(s, L, p).def_route = s.def_route
         /\ WithPreferred(s, L, p).locked = L
         /\ WithPreferred(s, L, p).preferred = p
  BY DEF NodeState, SameSlots, WithPreferred

WithRanks(s, r, m) == [s EXCEPT !.rank = r, !.min_rank = m]

LEMMA RanksExcept ==
  ASSUME NEW s \in NodeState, NEW r \in Ranks, NEW m \in Ranks
  PROVE  /\ SameSlots(s, WithRanks(s, r, m))
         /\ WithRanks(s, r, m).parents = s.parents
         /\ WithRanks(s, r, m).rank = r
         /\ WithRanks(s, r, m).min_rank = m
         /\ WithRanks(s, r, m).defrt = s.defrt
         /\ WithRanks(s, r, m).def_route = s.def_route
         /\ WithRanks(s, r, m).locked = s.locked
         /\ WithRanks(s, r, m).preferred = s.preferred
  BY DEF NodeState, SameSlots, WithRanks

LEMMA RankExcept ==
  ASSUME NEW s \in NodeState, NEW r
  PROVE  [s EXCEPT !.rank = r] = WithRanks(s, r, s.min_rank)
  BY DEF NodeState, WithRanks

(* The parent that is preferred is locked, when it was locked before. *)
LEMMA PreferredSet ==
  ASSUME NEW s \in NodeState, NEW p \in {0} \cup Indices,
         p # 0 /\ s.preferred = p => p \in s.locked,
         NEW t, t = rpl_set_preferred_parent(s, p)
  PROVE  /\ SameSlots(s, t)
         /\ t.parents = s.parents /\ t.rank = s.rank /\ t.min_rank = s.min_rank
         /\ t.defrt = s.defrt /\ t.def_route = s.def_route
         /\ t.preferred = p
         /\ p # 0 => p \in t.locked
  <1>1. CASE s.preferred = p
    <2>1. t = s
      BY <1>1 DEF rpl_set_preferred_parent
    <2> QED BY <1>1, <2>1 DEF SameSlots
  <1>2. CASE s.preferred # p
    <2>1. PICK L : L = (s.locked \ {s.preferred}) \cup ({p} \ {0})
      OBVIOUS
    <2>2. L \in SUBSET Indices /\ (p # 0 => p \in L)
      <3>1. s.locked \in SUBSET Indices
        BY Fields
      <3> QED BY <2>1, <3>1
    <2>3. t = WithPreferred(s, L, p)
      BY <1>2, <2>1 DEF rpl_set_preferred_parent, WithPreferred
    <2> QED BY <2>2, <2>3, PreferredExcept
  <1> QED BY <1>1, <1>2

LEMMA DefaultSlots ==
  ASSUME NEW s, NEW t, ButDefault(s, t)
  PROVE  /\ SameSlots(s, t)
         /\ t.parents = s.parents /\ t.locked = s.locked /\ t.preferred = s.preferred
         /\ t.rank = s.rank /\ t.min_rank = s.min_rank
  BY DEF ButDefault, SameSlots

(* A parent is nullified. *)
LEMMA Nullified ==
  ASSUME NEW s \in NodeState, Pointed(s), NEW p, NEW t, t = rpl_nullify_parent(s, p)
  PROVE  /\ SameSlots(s, t)
         /\ t.parents = s.parents
         /\ s.preferred \notin {0, p} => t = s
         /\ s.preferred \in {0, p} => t.preferred = 0 /\ t.defrt = <<>>
  <1>1. CASE s.preferred \notin {0, p}
    BY <1>1 DEF rpl_nullify_parent, SameSlots
  <1>2. CASE s.preferred \in {0, p}
    <2>1. PICK a : a = rpl_set_default_route(s, Null)
      OBVIOUS
    <2>2. ButDefault(s, a) /\ a.defrt = <<>>
      BY <2>1, DefaultSet
    <2>3. /\ a \in NodeState /\ SameSlots(s, a)
          /\ a.parents = s.parents
      BY <2>2, DefaultSlots DEF SameSlots
    <2>4. PICK b : b = [a EXCEPT !.rank = INFINITE_RANK]
      OBVIOUS
    <2>5. INFINITE_RANK \in Ranks /\ a.min_rank \in Ranks
      BY <2>3, Fields, RplAssumption DEF Ranks
    <2>6. b = WithRanks(a, INFINITE_RANK, a.min_rank)
      BY <2>3, <2>4, RankExcept
    <2>7. SameSlots(a, b) /\ b.parents = a.parents /\ b.defrt = a.defrt
      BY <2>3, <2>5, <2>6, RanksExcept
    <2>8. t = rpl_set_preferred_parent(b, 0)
      BY <1>2, <2>1, <2>4 DEF rpl_nullify_parent
    <2>9. b \in NodeState
      BY <2>7 DEF SameSlots
    <2>10. SameSlots(b, t) /\ t.parents = b.parents /\ t.defrt = b.defrt /\ t.preferred = 0
      BY <2>8, <2>9, PreferredSet
    <2>11. SameSlots(s, t)
      BY <2>3, <2>7, <2>10, SameSlotsTwice
    <2> QED BY <1>2, <2>2, <2>3, <2>7, <2>10, <2>11
  <1> QED BY <1>1, <1>2

LEMMA NullifiedSound ==
  ASSUME NEW s, Sound(s), NEW p, NEW t, t = rpl_nullify_parent(s, p)
  PROVE  /\ Sound(t)
         /\ SameSlots(s, t)
         /\ t.parents = s.parents
         /\ t.preferred \in {0, s.preferred}
         /\ s.preferred \in {0, p} => t.preferred = 0 /\ t.defrt = <<>>
         /\ RoutedBy(s, s.preferred) => RoutedBy(t, t.preferred)
  <1>1. s \in NodeState /\ Pointed(s)
    BY DEF Sound, Core, Tables, Typed
  <1>2. /\ SameSlots(s, t)
        /\ t.parents = s.parents
        /\ s.preferred \notin {0, p} => t = s
        /\ s.preferred \in {0, p} => t.preferred = 0 /\ t.defrt = <<>>
    BY <1>1, Nullified
  <1>3. Core(t)
    BY <1>2, SlotsKeepCore DEF Sound
  <1>4. CASE s.preferred \notin {0, p}
    BY <1>2, <1>4
  <1>5. CASE s.preferred \in {0, p}
    <2>1. Joined(t)
      BY <1>2, <1>5 DEF Sound, Joined, SameSlots
    <2> QED BY <1>2, <1>3, <1>5, <2>1 DEF Sound, Held, Pointed, RoutedBy
  <1> QED BY <1>4, <1>5

-----------------------------------------------------------------------------
(* The walks over the parents, in the order of the keys: what is in S and   *)
(* stays in S at each parent passes through S, one parent at a time.        *)

Passing(f, s, S, keys) ==
    /\ f \in [0 .. Len(keys) -> S]
    /\ f[0] = s

NullifyVisit(t, p) == IF t.parents[p] = Null THEN t ELSE rpl_nullify_parent(t, p)

LEMMA NullifyWalk ==
  ASSUME NEW S, NEW s \in S, NEW keys \in Seq(Indices), keys = s.keys,
         \A t \in S : \A p \in Indices : NullifyVisit(t, p) \in S
  PROVE  \E f : /\ Passing(f, s, S, keys)
                /\ \A k \in 1 .. Len(keys) : f[k] = NullifyVisit(f[k - 1], keys[k])
                /\ EachParent(s, rpl_nullify_parent) = f[Len(keys)]
  <1>1. PICK n \in Nat : n = Len(keys)
    OBVIOUS
  <1>2. \A k \in 1 .. n : keys[k] \in Indices
    BY <1>1
  <1>3. EachParent(s, rpl_nullify_parent)
          = (CHOOSE h : h = [k \in 0 .. Len(s.keys) |->
                IF k = 0 THEN s ELSE NullifyVisit(h[k - 1], s.keys[k])])[Len(s.keys)]
    BY DEF EachParent, NullifyVisit
  <1>4. PICK step : step = [k \in 1 .. n |-> [t \in S |-> NullifyVisit(t, keys[k])]]
    OBVIOUS
  <1>5. step \in [1 .. n -> [S -> S]]
    BY <1>2, <1>4
  <1>6. PICK g : Run(g, n, S, s, step)
    BY <1>5, Recursion DEF Steps
  <1>7. \A k \in 1 .. n : g[k] = NullifyVisit(g[k - 1], keys[k])
    <2> SUFFICES ASSUME NEW k \in 1 .. n PROVE g[k] = NullifyVisit(g[k - 1], keys[k])
      OBVIOUS
    <2>1. k - 1 \in 0 .. n
      OBVIOUS
    <2>2. g[k - 1] \in S /\ g[k] = step[k][g[k - 1]]
      BY <1>6, <2>1 DEF Run
    <2>3. step[k] = [t \in S |-> NullifyVisit(t, keys[k])]
      BY <1>4
    <2> QED BY <2>2, <2>3
  <1>8. g = [k \in 0 .. n |-> IF k = 0 THEN s ELSE NullifyVisit(g[k - 1], keys[k])]
    <2>1. ASSUME NEW k \in 0 .. n
          PROVE  g[k] = IF k = 0 THEN s ELSE NullifyVisit(g[k - 1], keys[k])
      <3>1. CASE k = 0
        BY <1>6, <3>1 DEF Run
      <3>2. CASE k # 0
        <4>1. k \in 1 .. n
          BY <3>2
        <4> QED BY <1>7, <3>2, <4>1
      <3> QED BY <3>1, <3>2
    <2> QED BY <1>6, <2>1 DEF Run
  <1>9. PICK f : /\ f = [k \in 0 .. n |-> IF k = 0 THEN s ELSE NullifyVisit(f[k - 1], keys[k])]
                 /\ EachParent(s, rpl_nullify_parent) = f[n]
    BY <1>1, <1>3, <1>8
  <1>10. f[0] = s /\ \A k \in 1 .. n : f[k] = NullifyVisit(f[k - 1], keys[k])
    BY <1>9
  <1>11. PICK V : V = {k \in 0 .. n : f[k] \in S}
    OBVIOUS
  <1>12. 0 \in V
    BY <1>10, <1>11
  <1>13. ASSUME NEW k \in 1 .. n, k - 1 \in V PROVE k \in V
    <2>1. f[k - 1] \in S
      BY <1>11, <1>13
    <2>2. f[k] \in S
      BY <1>2, <1>10, <2>1
    <2> QED BY <1>11, <2>2
  <1>14. 0 .. n \subseteq V
    BY <1>12, <1>13, WalkInduction
  <1>15. \A k \in 0 .. n : f[k] \in S
    BY <1>11, <1>14
  <1>16. f \in [0 .. n -> S]
    BY <1>9, <1>15
  <1> QED BY <1>1, <1>9, <1>10, <1>16 DEF Passing

LEMMA RanksSound ==
  ASSUME NEW s, Sound(s), NEW r \in Ranks, NEW m \in Ranks, NEW t, t = WithRanks(s, r, m)
  PROVE  /\ Sound(t)
         /\ SameSlots(s, t)
         /\ t.parents = s.parents /\ t.preferred = s.preferred
         /\ t.rank = r /\ t.min_rank = m
         /\ \A p : RoutedBy(s, p) => RoutedBy(t, p)
  <1>1. s \in NodeState
    BY DEF Sound, Core, Tables, Typed
  <1>2. /\ SameSlots(s, t)
        /\ t.parents = s.parents /\ t.rank = r /\ t.min_rank = m
        /\ t.defrt = s.defrt /\ t.def_route = s.def_route
        /\ t.locked = s.locked /\ t.preferred = s.preferred
    BY <1>1, RanksExcept
  <1>3. Core(t)
    BY <1>2, SlotsKeepCore DEF Sound
  <1> QED BY <1>2, <1>3 DEF Sound, Joined, Held, Pointed, RoutedBy, SameSlots

(* The default router goes at the latest at the first parent. *)
LEMMA RepairedLocally ==
  ASSUME NEW s, Sound(s),
         \/ RoutedBy(s, s.preferred)
         \/ s.preferred = 0 /\ \E i \in Indices : s.parents[i] # Null,
         NEW t, t = rpl_local_repair(s)
  PROVE  Good(t) /\ SameSlots(s, t)
  <1>1. s \in NodeState
    BY DEF Sound, Core, Tables, Typed
  <1>2. INFINITE_RANK \in Ranks /\ s.min_rank \in Ranks
    BY <1>1, Fields, RplAssumption DEF Ranks
  <1>3. PICK a : a = WithRanks(s, INFINITE_RANK, s.min_rank)
    OBVIOUS
  <1>4. /\ Sound(a)
        /\ SameSlots(s, a)
        /\ a.parents = s.parents /\ a.preferred = s.preferred
        /\ RoutedBy(s, s.preferred) => RoutedBy(a, a.preferred)
    BY <1>2, <1>3, RanksSound
  <1>5. t = EachParent(a, rpl_nullify_parent)
    BY <1>1, <1>3, RankExcept DEF rpl_local_repair
  <1>6. a \in NodeState
    BY <1>4 DEF SameSlots
  <1>7. PICK keys \in Seq(Indices) : keys = a.keys
    BY <1>6, Fields
  <1>8. PICK S : S = {u \in NodeState : Sound(u) /\ SameSlots(a, u) /\ u.parents = a.parents}
    OBVIOUS
  <1>9. a \in S
    BY <1>4, <1>6, <1>8 DEF SameSlots
  <1>10. ASSUME NEW u \in S, NEW p \in Indices PROVE NullifyVisit(u, p) \in S
    <2>1. PICK w : w = rpl_nullify_parent(u, p)
      OBVIOUS
    <2>2. Sound(w) /\ SameSlots(u, w) /\ w.parents = u.parents
      BY <1>8, <2>1, NullifiedSound
    <2>3. SameSlots(a, w) /\ w \in NodeState
      BY <1>8, <2>2, SameSlotsTwice DEF SameSlots
    <2> QED BY <1>8, <2>1, <2>2, <2>3 DEF NullifyVisit
  <1>11. PICK f : /\ Passing(f, a, S, keys)
                  /\ \A k \in 1 .. Len(keys) : f[k] = NullifyVisit(f[k - 1], keys[k])
                  /\ t = f[Len(keys)]
    BY <1>5, <1>7, <1>9, <1>10, NullifyWalk
  <1>12. PICK n \in Nat : n = Len(keys)
    OBVIOUS
  <1> DEFINE Over(k) ==
        \/ RoutedBy(f[k], f[k].preferred)
        \/ f[k].preferred = 0 /\ \A j \in 1 .. k : a.parents[keys[j]] = Null
  <1> HIDE DEF Over
  <1>13. PICK V : V = {k \in 0 .. n : Over(k)}
    OBVIOUS
  <1>14. f[0] = a /\ \A k \in 0 .. n : f[k] \in S
    BY <1>11, <1>12 DEF Passing
  <1>15. 0 \in V
    <2>1. Over(0)
      BY <1>4, <1>14 DEF Over
    <2> QED BY <1>13, <2>1
  <1>16. ASSUME NEW k \in 1 .. n, k - 1 \in V PROVE k \in V
    <2>1. k - 1 \in 0 .. n /\ keys[k] \in Indices
      BY <1>12
    <2>2. PICK u \in S : u = f[k - 1]
      BY <1>14, <2>1
    <2>3. PICK p \in Indices : p = keys[k]
      BY <2>1
    <2>4. f[k] = NullifyVisit(u, p)
      BY <1>11, <1>12, <2>2, <2>3
    <2>5. Over(k - 1)
      BY <1>13, <1>16
    <2>6. \/ RoutedBy(u, u.preferred)
          \/ u.preferred = 0 /\ \A j \in 1 .. k - 1 : a.parents[keys[j]] = Null
      BY <2>2, <2>5 DEF Over
    <2>7. u.parents = a.parents /\ Sound(u)
      BY <1>8
    <2>8. CASE u.parents[p] = Null
      <3>1. f[k] = u
        BY <2>4, <2>8 DEF NullifyVisit
      <3>2. a.parents[keys[k]] = Null
        BY <2>3, <2>7, <2>8
      <3>3. \A j \in 1 .. k : j \in 1 .. k - 1 \/ j = k
        OBVIOUS
      <3>4. Over(k)
        BY <2>6, <3>1, <3>2, <3>3 DEF Over
      <3> QED BY <1>13, <3>4
    <2>9. CASE u.parents[p] # Null
      <3>1. f[k] = rpl_nullify_parent(u, p)
        BY <2>4, <2>9 DEF NullifyVisit
      <3>2. PICK w : w = f[k]
        OBVIOUS
      <3>3. /\ u.preferred \in {0, p} => w.preferred = 0 /\ w.defrt = <<>>
            /\ RoutedBy(u, u.preferred) => RoutedBy(w, w.preferred)
        BY <2>7, <3>1, <3>2, NullifiedSound
      <3>4. RoutedBy(w, w.preferred)
        BY <2>6, <3>3 DEF RoutedBy
      <3>5. Over(k)
        BY <3>2, <3>4 DEF Over
      <3> QED BY <1>13, <3>5
    <2> QED BY <2>8, <2>9
  <1>17. 0 .. n \subseteq V
    BY <1>15, <1>16, WalkInduction
  <1>18. t = f[n] /\ n \in 0 .. n
    BY <1>11, <1>12
  <1>19. Sound(t) /\ SameSlots(a, t)
    BY <1>8, <1>14, <1>18
  <1>20. RoutedBy(t, t.preferred) \/ \A j \in 1 .. n : a.parents[keys[j]] = Null
    BY <1>13, <1>17, <1>18 DEF Over
  <1>21. ASSUME \A j \in 1 .. n : a.parents[keys[j]] = Null
         PROVE  \A i \in Indices : a.parents[i] = Null
    <2>1. \A i \in Range(keys) : a.parents[i] = Null
      BY <1>12, <1>21, RangeIs
    <2>2. \A i \in Indices : i \notin Range(keys) => a.parents[i] = Null
      BY <1>4, <1>7 DEF Sound, Core, Tables, Allotted
    <2> QED BY <2>1, <2>2
  <1>22. RoutedBy(t, t.preferred)
    <2>1. CASE RoutedBy(s, s.preferred)
      (* Every state of the walk is routed then. *)
      <3>1. PICK W : W = {k \in 0 .. n : RoutedBy(f[k], f[k].preferred)}
        OBVIOUS
      <3>2. 0 \in W
        BY <1>4, <1>14, <2>1, <3>1
      <3>3. ASSUME NEW k \in 1 .. n, k - 1 \in W PROVE k \in W
        <4>1. k - 1 \in 0 .. n /\ keys[k] \in Indices
          BY <1>12
        <4>2. PICK u \in S : u = f[k - 1] /\ Sound(u) /\ RoutedBy(u, u.preferred)
          BY <1>8, <1>14, <3>1, <3>3, <4>1
        <4>3. f[k] = NullifyVisit(u, keys[k])
          BY <1>11, <1>12, <4>2
        <4>4. RoutedBy(f[k], f[k].preferred)
          BY <4>2, <4>3, NullifiedSound DEF NullifyVisit
        <4> QED BY <3>1, <4>4
      <3>4. 0 .. n \subseteq W
        BY <3>2, <3>3, WalkInduction
      <3> QED BY <1>18, <3>1, <3>4
    <2>2. CASE \E i \in Indices : s.parents[i] # Null
      BY <1>4, <1>20, <1>21, <2>2
    <2> QED BY <2>1, <2>2
  <1>23. SameSlots(s, t)
    BY <1>4, <1>19, SameSlotsTwice
  <1> QED BY <1>19, <1>22, <1>23 DEF Sound, Good

WithoutParent(s, p, L) == [s EXCEPT !.parents[p] = Null, !.locked = L]

LEMMA ParentExcept ==
  ASSUME NEW s \in NodeState, NEW p \in Indices, NEW L \in SUBSET Indices
  PROVE  /\ SameSlots(s, WithoutParent(s, p, L))
         /\ WithoutParent(s, p, L).parents = [s.parents EXCEPT ![p] = Null]
         /\ WithoutParent(s, p, L).defrt = s.defrt
         /\ WithoutParent(s, p, L).def_route = s.def_route
         /\ WithoutParent(s, p, L).locked = L
         /\ WithoutParent(s, p, L).preferred = s.preferred
  BY DEF NodeState, SameSlots, WithoutParent

LEMMA ParentRemoved ==
  ASSUME NEW s, Good(s), NEW p \in Indices, NEW t, t = rpl_remove_parent(s, p)
  PROVE  /\ Good(t)
         /\ SameSlots(s, t)
         /\ t.parents[p] = Null
         /\ t.preferred \in {0, s.preferred} /\ t.preferred # p
  <1>1. Sound(s) /\ RoutedBy(s, s.preferred)
    BY DEF Good, Sound
  <1>2. PICK a : a = rpl_nullify_parent(s, p)
    OBVIOUS
  <1>3. /\ Sound(a)
        /\ SameSlots(s, a)
        /\ a.parents = s.parents
        /\ a.preferred \in {0, s.preferred}
        /\ s.preferred \in {0, p} => a.preferred = 0
        /\ RoutedBy(a, a.preferred)
    BY <1>1, <1>2, NullifiedSound
  <1>4. a \in NodeState /\ p # 0
    BY <1>3 DEF SameSlots, Indices
  <1>5. PICK L : L = a.locked \ {p}
    OBVIOUS
  <1>6. L \in SUBSET Indices /\ a.parents \in [Indices -> Parent \cup {Null}]
    BY <1>4, <1>5, Fields
  <1>7. t = WithoutParent(a, p, L)
    BY <1>2, <1>5 DEF rpl_remove_parent, WithoutParent
  <1>8. /\ SameSlots(a, t)
        /\ t.parents = [a.parents EXCEPT ![p] = Null]
        /\ t.defrt = a.defrt /\ t.def_route = a.def_route
        /\ t.locked = L /\ t.preferred = a.preferred
    BY <1>4, <1>6, <1>7, ParentExcept
  <1>9. a.preferred # p
    BY <1>3, <1>4
  <1>10. t.parents[p] = Null /\ \A i \in Indices : i # p => t.parents[i] = a.parents[i]
    BY <1>6, <1>8
  <1>11. Core(t)
    <2>1. \A i \in Indices : t.parents[i] # Null =>
             a.parents[i] # Null /\ t.parents[i].rank = a.parents[i].rank
      BY <1>10
    <2>2. Core(a)
      BY <1>3 DEF Sound
    <2> QED BY <1>8, <2>1, <2>2, SlotsKeepCore
  <1>12. Joined(t)
    BY <1>3, <1>8, <1>10 DEF Sound, Joined, SameSlots
  <1>13. Held(t)
    <2> SUFFICES ASSUME t.preferred # 0 PROVE t.preferred \in t.locked /\ t.parents[t.preferred] # Null
      BY DEF Held
    <2>1. t.preferred \in Indices /\ t.preferred = a.preferred
      BY <1>4, <1>8, Fields
    <2>2. a.preferred \in a.locked /\ a.parents[a.preferred] # Null
      BY <1>3, <2>1 DEF Sound, Held
    <2> QED BY <1>5, <1>8, <1>9, <1>10, <2>1, <2>2
  <1>14. Pointed(t) /\ RoutedBy(t, t.preferred)
    BY <1>3, <1>8 DEF Sound, Pointed, RoutedBy, SameSlots
  <1>15. SameSlots(s, t)
    BY <1>3, <1>8, SameSlotsTwice
  <1> QED BY <1>3, <1>8, <1>9, <1>10, <1>11, <1>12, <1>13, <1>14, <1>15 DEF Good

RemoveVisit(t, p) == IF t.parents[p] = Null THEN t ELSE rpl_remove_parent(t, p)

LEMMA RemoveWalk ==
  ASSUME NEW S, NEW s \in S, NEW keys \in Seq(Indices), keys = s.keys,
         \A t \in S : \A p \in Indices : RemoveVisit(t, p) \in S
  PROVE  \E f : /\ Passing(f, s, S, keys)
                /\ \A k \in 1 .. Len(keys) : f[k] = RemoveVisit(f[k - 1], keys[k])
                /\ EachParent(s, rpl_remove_parent) = f[Len(keys)]
  <1>1. PICK n \in Nat : n = Len(keys)
    OBVIOUS
  <1>2. \A k \in 1 .. n : keys[k] \in Indices
    BY <1>1
  <1>3. EachParent(s, rpl_remove_parent)
          = (CHOOSE h : h = [k \in 0 .. Len(s.keys) |->
                IF k = 0 THEN s ELSE RemoveVisit(h[k - 1], s.keys[k])])[Len(s.keys)]
    BY DEF EachParent, RemoveVisit
  <1>4. PICK step : step = [k \in 1 .. n |-> [t \in S |-> RemoveVisit(t, keys[k])]]
    OBVIOUS
  <1>5. step \in [1 .. n -> [S -> S]]
    BY <1>2, <1>4
  <1>6. PICK g : Run(g, n, S, s, step)
    BY <1>5, Recursion DEF Steps
  <1>7. \A k \in 1 .. n : g[k] = RemoveVisit(g[k - 1], keys[k])
    <2> SUFFICES ASSUME NEW k \in 1 .. n PROVE g[k] = RemoveVisit(g[k - 1], keys[k])
      OBVIOUS
    <2>1. k - 1 \in 0 .. n
      OBVIOUS
    <2>2. g[k - 1] \in S /\ g[k] = step[k][g[k - 1]]
      BY <1>6, <2>1 DEF Run
    <2>3. step[k] = [t \in S |-> RemoveVisit(t, keys[k])]
      BY <1>4
    <2> QED BY <2>2, <2>3
  <1>8. g = [k \in 0 .. n |-> IF k = 0 THEN s ELSE RemoveVisit(g[k - 1], keys[k])]
    <2>1. ASSUME NEW k \in 0 .. n
          PROVE  g[k] = IF k = 0 THEN s ELSE RemoveVisit(g[k - 1], keys[k])
      <3>1. CASE k = 0
        BY <1>6, <3>1 DEF Run
      <3>2. CASE k # 0
        <4>1. k \in 1 .. n
          BY <3>2
        <4> QED BY <1>7, <3>2, <4>1
      <3> QED BY <3>1, <3>2
    <2> QED BY <1>6, <2>1 DEF Run
  <1>9. PICK f : /\ f = [k \in 0 .. n |-> IF k = 0 THEN s ELSE RemoveVisit(f[k - 1], keys[k])]
                 /\ EachParent(s, rpl_remove_parent) = f[n]
    BY <1>1, <1>3, <1>8
  <1>10. f[0] = s /\ \A k \in 1 .. n : f[k] = RemoveVisit(f[k - 1], keys[k])
    BY <1>9
  <1>11. PICK V : V = {k \in 0 .. n : f[k] \in S}
    OBVIOUS
  <1>12. 0 \in V
    BY <1>10, <1>11
  <1>13. ASSUME NEW k \in 1 .. n, k - 1 \in V PROVE k \in V
    <2>1. f[k - 1] \in S
      BY <1>11, <1>13
    <2>2. f[k] \in S
      BY <1>2, <1>10, <2>1
    <2> QED BY <1>11, <2>2
  <1>14. 0 .. n \subseteq V
    BY <1>12, <1>13, WalkInduction
  <1>15. \A k \in 0 .. n : f[k] \in S
    BY <1>11, <1>14
  <1>16. f \in [0 .. n -> S]
    BY <1>9, <1>15
  <1> QED BY <1>1, <1>9, <1>10, <1>16 DEF Passing

LEMMA ParentsRemoved ==
  ASSUME NEW s, Good(s), NEW t, t = remove_parents(s)
  PROVE  Good(t) /\ SameSlots(s, t)
  <1>1. s \in NodeState
    BY DEF Good, Core, Tables, Typed
  <1>2. PICK keys \in Seq(Indices) : keys = s.keys
    BY <1>1, Fields
  <1>3. PICK S : S = {u \in NodeState : Good(u) /\ SameSlots(s, u)}
    OBVIOUS
  <1>4. s \in S
    BY <1>1, <1>3 DEF SameSlots
  <1>5. ASSUME NEW u \in S, NEW p \in Indices PROVE RemoveVisit(u, p) \in S
    <2>1. PICK w : w = rpl_remove_parent(u, p)
      OBVIOUS
    <2>2. Good(w) /\ SameSlots(u, w)
      BY <1>3, <2>1, ParentRemoved
    <2>3. SameSlots(s, w) /\ w \in NodeState
      BY <1>3, <2>2, SameSlotsTwice DEF SameSlots
    <2> QED BY <1>3, <2>1, <2>2, <2>3 DEF RemoveVisit
  <1>6. t = EachParent(s, rpl_remove_parent)
    BY DEF remove_parents
  <1>7. PICK f : Passing(f, s, S, keys) /\ t = f[Len(keys)]
    BY <1>2, <1>4, <1>5, <1>6, RemoveWalk
  <1>8. t \in S
    BY <1>7 DEF Passing
  <1> QED BY <1>3, <1>8

-----------------------------------------------------------------------------
(* The choice of the parent *)

Candidate(s, p) == s.parents[p] # Null /\ s.parents[p].rank # INFINITE_RANK

BetterParent(s, b, p) ==
    IF ~Candidate(s, p) THEN b ELSE IF b = 0 THEN p ELSE of_best_parent(s, b, p)

LEMMA OfTwoParents ==
  ASSUME NEW s, NEW p1, NEW p2
  PROVE  of_best_parent(s, p1, p2) \in {p1, p2}
  BY DEF of_best_parent

(* The best parent is one that has a rank. *)
LEMMA BestParent ==
  ASSUME NEW s \in NodeState
  PROVE  \/ best_parent(s) = 0
         \/ best_parent(s) \in Indices /\ Candidate(s, best_parent(s))
  <1>1. PICK keys \in Seq(Indices) : keys = s.keys
    BY Fields
  <1>2. PICK n \in Nat : n = Len(keys)
    OBVIOUS
  <1>3. \A k \in 1 .. n : keys[k] \in Indices
    BY <1>2
  <1>4. best_parent(s)
          = (CHOOSE h : h = [k \in 0 .. Len(s.keys) |->
                IF k = 0 THEN 0 ELSE BetterParent(s, h[k - 1], s.keys[k])])[Len(s.keys)]
    BY DEF best_parent, BetterParent, Candidate
  <1>5. PICK S : S = {0} \cup {p \in Indices : Candidate(s, p)}
    OBVIOUS
  <1>6. ASSUME NEW b \in S, NEW p \in Indices PROVE BetterParent(s, b, p) \in S
    BY <1>5, OfTwoParents DEF BetterParent
  <1>7. PICK step : step = [k \in 1 .. n |-> [b \in S |-> BetterParent(s, b, keys[k])]]
    OBVIOUS
  <1>8. step \in [1 .. n -> [S -> S]]
    BY <1>3, <1>6, <1>7
  <1>9. PICK z : z = 0
    OBVIOUS
  <1>10. z \in S
    BY <1>5, <1>9
  <1>11. PICK g : Run(g, n, S, z, step)
    BY <1>8, <1>10, Recursion DEF Steps
  <1>12. \A k \in 1 .. n : g[k] = BetterParent(s, g[k - 1], keys[k])
    <2> SUFFICES ASSUME NEW k \in 1 .. n PROVE g[k] = BetterParent(s, g[k - 1], keys[k])
      OBVIOUS
    <2>1. k - 1 \in 0 .. n
      OBVIOUS
    <2>2. g[k - 1] \in S /\ g[k] = step[k][g[k - 1]]
      BY <1>11, <2>1 DEF Run
    <2>3. step[k] = [b \in S |-> BetterParent(s, b, keys[k])]
      BY <1>7
    <2> QED BY <2>2, <2>3
  <1>13. g = [k \in 0 .. n |-> IF k = 0 THEN 0 ELSE BetterParent(s, g[k - 1], keys[k])]
    <2>1. ASSUME NEW k \in 0 .. n
          PROVE  g[k] = IF k = 0 THEN 0 ELSE BetterParent(s, g[k - 1], keys[k])
      <3>1. CASE k = 0
        BY <1>9, <1>11, <3>1 DEF Run
      <3>2. CASE k # 0
        <4>1. k \in 1 .. n
          BY <3>2
        <4> QED BY <1>12, <3>2, <4>1
      <3> QED BY <3>1, <3>2
    <2> QED BY <1>11, <2>1 DEF Run
  <1>14. PICK f : /\ f = [k \in 0 .. n |-> IF k = 0 THEN 0 ELSE BetterParent(s, f[k - 1], keys[k])]
                  /\ best_parent(s) = f[n]
    BY <1>1, <1>2, <1>4, <1>13
  <1>15. f[0] = 0 /\ \A k \in 1 .. n : f[k] = BetterParent(s, f[k - 1], keys[k])
    BY <1>14
  <1>16. PICK V : V = {k \in 0 .. n : f[k] \in S}
    OBVIOUS
  <1>17. 0 \in V
    BY <1>5, <1>15, <1>16
  <1>18. ASSUME NEW k \in 1 .. n, k - 1 \in V PROVE k \in V
    <2>1. f[k - 1] \in S
      BY <1>16, <1>18
    <2>2. f[k] \in S
      BY <1>3, <1>6, <1>15, <2>1
    <2> QED BY <1>16, <2>2
  <1>19. 0 .. n \subseteq V
    BY <1>17, <1>18, WalkInduction
  <1>20. n \in 0 .. n
    OBVIOUS
  <1>21. best_parent(s) \in S
    BY <1>14, <1>16, <1>19, <1>20
  <1> QED BY <1>5, <1>21

LEMMA RankWorkedOut ==
  ASSUME NEW s, Tables(s), NEW p \in {0} \cup Indices, p # 0 => s.parents[p] # Null
  PROVE  calculate_rank(s, p) \in Ranks
  <1>1. s \in NodeState
    BY DEF Tables, Typed
  <1>2. INFINITE_RANK \in Nat /\ Ranks = 0 .. INFINITE_RANK
    BY RplAssumption DEF Ranks
  <1>3. CASE p = 0
    BY <1>2, <1>3 DEF calculate_rank
  <1>4. CASE p # 0
    <2>1. PICK n : n = rpl_get_nbr(s, p)
      OBVIOUS
    <2>2. n = 0 \/ (n \in Indices /\ s.ds6[n] # Null)
      <3>1. PICK l : l = s.lladdr[p]
        OBVIOUS
      <3>2. n = Used(s.ds6, index_from_lladdr(s, l))
        BY <2>1, <3>1 DEF rpl_get_nbr, uip_ds6_nbr_ll_lookup
      <3>3. index_from_lladdr(s, l) = 0 \/ index_from_lladdr(s, l) \in Indices
        BY SlotFound
      <3> QED BY <3>2, <3>3 DEF Used
    <2>3. s.parents[p] \in Parent
      <3>1. s.parents \in [Indices -> Parent \cup {Null}]
        BY <1>1, Fields
      <3> QED BY <1>4, <3>1
    <2>4. PICK r \in 0 .. INFINITE_RANK : r = s.parents[p].rank
      BY <1>2, <2>3 DEF Parent
    <2>5. CASE n = 0
      BY <1>2, <1>4, <2>1, <2>5 DEF calculate_rank
    <2>6. CASE n # 0
      <3>1. s.ds6 \in [Indices -> Neighbour \cup {Null}]
        BY <1>1, Fields
      <3>2. s.ds6[n] \in Neighbour
        BY <2>2, <2>6, <3>1
      <3>3. PICK m \in Nat : m = s.ds6[n].link_metric
        BY <3>2 DEF Neighbour
      <3>4. calculate_rank(s, p) = IF INFINITE_RANK - r < m THEN INFINITE_RANK ELSE r + m
        BY <1>4, <2>1, <2>4, <2>6, <3>3 DEF calculate_rank
      <3> QED BY <1>2, <3>4
    <2> QED BY <2>5, <2>6
  <1> QED BY <1>3, <1>4

(* A preferred parent is set: a parent, or none. *)
LEMMA PreferredSound ==
  ASSUME NEW s, Sound(s), NEW p \in {0} \cup Indices, p # 0 => s.parents[p] # Null,
         NEW t, t = rpl_set_preferred_parent(s, p)
  PROVE  /\ Sound(t)
         /\ SameSlots(s, t)
         /\ t.parents = s.parents /\ t.preferred = p
         /\ \A i : RoutedBy(s, i) => RoutedBy(t, i)
  <1>1. s \in NodeState
    BY DEF Sound, Core, Tables, Typed
  <1>2. p # 0 /\ s.preferred = p => p \in s.locked
    BY DEF Sound, Held
  <1>3. /\ SameSlots(s, t)
        /\ t.parents = s.parents
        /\ t.defrt = s.defrt /\ t.def_route = s.def_route
        /\ t.preferred = p
        /\ p # 0 => p \in t.locked
    BY <1>1, <1>2, PreferredSet
  <1>4. Core(t)
    BY <1>3, SlotsKeepCore DEF Sound
  <1>5. Joined(t)
    BY <1>3 DEF Sound, Joined, SameSlots
  <1>6. Held(t) /\ Pointed(t)
    BY <1>3 DEF Sound, Held, Pointed
  <1> QED BY <1>3, <1>4, <1>5, <1>6 DEF Sound, RoutedBy, SameSlots

(* The rank and the default route are worked out; the default route was     *)
(* that of the parent before.                                               *)
LEMMA RankedGood ==
  ASSUME NEW s, Sound(s), NEW old \in {0} \cup Indices, RoutedBy(s, old),
         old # 0 => \E i \in Indices : s.parents[i] # Null,
         s.preferred # old => s.preferred # 0 /\ s.ds6[s.preferred] # Null,
         NEW rank \in Ranks, NEW t, t = Ranked(s, old, rank)
  PROVE  Good(t) /\ SameSlots(s, t)
  <1>1. s \in NodeState
    BY DEF Sound, Core, Tables, Typed
  <1>2. PICK lowest : lowest = (old = 0 \/ rank < s.min_rank)
    OBVIOUS
  <1>3. PICK m \in Ranks : m = IF lowest THEN rank ELSE s.min_rank
    BY <1>1, Fields
  <1>4. PICK a : a = WithRanks(s, rank, m)
    OBVIOUS
  <1>5. /\ Sound(a)
        /\ SameSlots(s, a)
        /\ a.parents = s.parents /\ a.preferred = s.preferred
        /\ RoutedBy(a, old)
    BY <1>4, RanksSound
  <1>6. t = IF ~lowest /\ ~acceptable_rank(s, rank)
            THEN rpl_local_repair(rpl_set_preferred_parent(a, 0))
            ELSE IF s.preferred # old THEN rpl_set_default_route(a, IpOf(s, s.preferred))
            ELSE a
    BY <1>2, <1>3, <1>4 DEF Ranked, WithRanks
  <1>7. CASE ~lowest /\ ~acceptable_rank(s, rank)
    <2>1. PICK b : b = rpl_set_preferred_parent(a, 0)
      OBVIOUS
    <2>2. Sound(b) /\ SameSlots(a, b) /\ b.parents = a.parents /\ b.preferred = 0
      BY <1>5, <2>1, PreferredSound
    <2>3. \E i \in Indices : b.parents[i] # Null
      BY <1>2, <1>5, <1>7, <2>2
    <2>4. t = rpl_local_repair(b)
      BY <1>6, <1>7, <2>1
    <2>5. Good(t) /\ SameSlots(b, t)
      BY <2>2, <2>3, <2>4, RepairedLocally
    <2> QED BY <1>5, <2>2, <2>5, SameSlotsTwice
  <1>8. CASE (lowest \/ acceptable_rank(s, rank)) /\ s.preferred # old
    <2>1. PICK p : p = s.preferred
      OBVIOUS
    <2>2. p # 0 /\ p \in Indices /\ s.ds6[p] # Null /\ s.parents[p] # Null
      BY <1>1, <1>8, <2>1, Fields DEF Sound, Held
    <2>3. s.lladdr[p] \in Routers
      BY <2>2 DEF Sound, Core, Parented
    <2>4. IpOf(s, p) = s.ds6[p].ip /\ s.ds6[p].ip = s.lladdr[p]
      BY <2>2, <2>3, RouterSlot DEF Sound, Core
    <2>5. PICK ip \in Nodes \cup {Null} : ip = IpOf(s, p) /\ ip # Null
      BY <2>3, <2>4, RplAssumption DEF Nodes
    <2>6. t = rpl_set_default_route(a, ip)
      BY <1>6, <1>8, <2>1, <2>5
    <2>7. a \in NodeState /\ Pointed(a)
      BY <1>5 DEF Sound, SameSlots
    <2>8. /\ ButDefault(a, t)
          /\ Len(t.defrt) = 1 /\ t.defrt[1].block = 1 /\ t.defrt[1].ip = ip
          /\ t.def_route = 1
          /\ Pointed(t)
      BY <2>5, <2>6, <2>7, DefaultSet
    <2>9. /\ SameSlots(a, t)
          /\ t.parents = a.parents /\ t.locked = a.locked /\ t.preferred = a.preferred
      BY <2>8, DefaultSlots
    <2>10. Core(t)
      BY <1>5, <2>9, SlotsKeepCore DEF Sound
    <2>11. Joined(t) /\ Held(t)
      BY <1>5, <2>9 DEF Sound, Joined, Held, SameSlots
    <2>12. SameSlots(s, t)
      BY <1>5, <2>9, SameSlotsTwice
    <2>13. RoutedBy(t, t.preferred)
      BY <1>5, <2>1, <2>2, <2>4, <2>5, <2>8, <2>9, <2>12 DEF RoutedBy, SameSlots
    <2> QED BY <2>8, <2>10, <2>11, <2>12, <2>13 DEF Good
  <1>9. CASE (lowest \/ acceptable_rank(s, rank)) /\ s.preferred = old
    <2>1. t = a
      BY <1>6, <1>9
    <2> QED BY <1>5, <1>9, <2>1 DEF Good, Sound
  <1> QED BY <1>7, <1>8, <1>9

LEMMA ParentSelected ==
  ASSUME NEW s, Good(s), NEW best,
         best = 0 \/ (best \in Indices /\ Candidate(s, best)),
         NEW t, t = rpl_select_parent(s, best)
  PROVE  Good(t) /\ SameSlots(s, t)
  <1>1. s \in NodeState /\ Sound(s) /\ RoutedBy(s, s.preferred)
    BY DEF Good, Sound, Core, Tables, Typed
  <1>2. CASE best = 0
    <2>1. t = rpl_local_repair(s)
      BY <1>2 DEF rpl_select_parent
    <2> QED BY <1>1, <2>1, RepairedLocally
  <1>3. CASE best # 0
    <2>1. best \in Indices /\ s.parents[best] # Null /\ s.ds6[best] # Null
      BY <1>1, <1>3 DEF Candidate, Sound, Core, Parented
    <2>2. PICK a : a = rpl_set_preferred_parent(s, best)
      OBVIOUS
    <2>3. /\ Sound(a)
          /\ SameSlots(s, a)
          /\ a.parents = s.parents /\ a.preferred = best
          /\ RoutedBy(a, s.preferred)
      BY <1>1, <2>1, <2>2, PreferredSound
    <2>4. PICK r \in Ranks : r = calculate_rank(a, a.preferred)
      BY <2>1, <2>3, RankWorkedOut DEF Sound, Core
    <2>5. t = Ranked(a, s.preferred, r)
      BY <1>3, <2>2, <2>4 DEF rpl_select_parent
    <2>6. s.preferred \in {0} \cup Indices
      BY <1>1, Fields
    <2>7. a.ds6 = s.ds6
      BY <2>3 DEF SameSlots
    <2>8. \E i \in Indices : a.parents[i] # Null
      BY <2>1, <2>3
    <2>9. a.preferred # 0 /\ a.ds6[a.preferred] # Null
      BY <1>3, <2>1, <2>3, <2>7
    <2>10. Good(t) /\ SameSlots(a, t)
      BY <2>3, <2>5, <2>6, <2>8, <2>9, RankedGood
    <2> QED BY <2>3, <2>10, SameSlotsTwice
  <1> QED BY <1>2, <1>3

LEMMA DagSelected ==
  ASSUME NEW s, Good(s), NEW t, t = rpl_select_dag(s)
  PROVE  Good(t) /\ SameSlots(s, t)
  <1>1. s \in NodeState /\ Sound(s) /\ RoutedBy(s, s.preferred)
    BY DEF Good, Sound, Core, Tables, Typed
  <1>2. CASE s.rank = ROOT_RANK
    <2>1. PICK p \in {0} \cup Indices : p = s.preferred
      BY <1>1, Fields
    <2>2. p # 0 => s.parents[p] # Null
      BY <1>1, <2>1 DEF Sound, Held
    <2>3. PICK r \in Ranks : r = calculate_rank(s, p)
      BY <1>1, <2>2, RankWorkedOut DEF Sound, Core
    <2>4. t = Ranked(s, p, r)
      BY <1>2, <2>1, <2>3 DEF rpl_select_dag
    <2> QED BY <1>1, <2>1, <2>2, <2>4, RankedGood
  <1>3. CASE s.rank # ROOT_RANK
    <2>1. PICK b : b = best_parent(s)
      OBVIOUS
    <2>2. t = rpl_select_parent(s, b)
      BY <1>3, <2>1 DEF rpl_select_dag
    <2>3. b = 0 \/ (b \in Indices /\ Candidate(s, b))
      BY <1>1, <2>1, BestParent
    <2> QED BY <2>2, <2>3, ParentSelected
  <1> QED BY <1>2, <1>3

LEMMA ParentProcessed ==
  ASSUME NEW s, Good(s), NEW p, NEW t, t = rpl_process_parent_event(s, p)
  PROVE  Good(t) /\ SameSlots(s, t)
  <1>1. CASE acceptable_rank(s, s.parents[p].rank)
    BY <1>1, DagSelected DEF rpl_process_parent_event
  <1>2. CASE ~acceptable_rank(s, s.parents[p].rank)
    <2>1. t = rpl_nullify_parent(s, p)
      BY <1>2 DEF rpl_process_parent_event
    <2>2. Sound(s) /\ RoutedBy(s, s.preferred)
      BY DEF Good, Sound
    <2>3. Sound(t) /\ SameSlots(s, t) /\ RoutedBy(t, t.preferred)
      BY <2>1, <2>2, NullifiedSound
    <2> QED BY <2>3 DEF Sound, Good
  <1> QED BY <1>1, <1>2

-----------------------------------------------------------------------------
(* A parent gets another rank or flag, or is new. *)

WithParent(s, p, r) == [s EXCEPT !.parents[p] = r]

LEMMA ParentIsSet ==
  ASSUME NEW s \in NodeState, NEW p \in Indices, NEW r \in Parent
  PROVE  /\ SameSlots(s, WithParent(s, p, r))
         /\ WithParent(s, p, r).parents[p] = r
         /\ \A i \in Indices : i # p => WithParent(s, p, r).parents[i] = s.parents[i]
         /\ WithParent(s, p, r).defrt = s.defrt
         /\ WithParent(s, p, r).def_route = s.def_route
         /\ WithParent(s, p, r).locked = s.locked
         /\ WithParent(s, p, r).preferred = s.preferred
         /\ WithParent(s, p, r).rank = s.rank
         /\ WithParent(s, p, r).min_rank = s.min_rank
  <1>1. PICK t : t = WithParent(s, p, r)
    OBVIOUS
  <1>2. /\ SameSlots(s, t)
        /\ t.parents = [s.parents EXCEPT ![p] = r]
        /\ t.defrt = s.defrt /\ t.def_route = s.def_route
        /\ t.locked = s.locked /\ t.preferred = s.preferred
        /\ t.rank = s.rank /\ t.min_rank = s.min_rank
    BY <1>1 DEF NodeState, SameSlots, WithParent
  <1>3. s.parents \in [Indices -> Parent \cup {Null}]
    BY Fields
  <1>4. t.parents[p] = r /\ \A i \in Indices : i # p => t.parents[i] = s.parents[i]
    BY <1>2, <1>3
  <1> QED BY <1>1, <1>2, <1>4

Flagged(s, p, rank) == [s EXCEPT !.parents[p].rank = rank, !.parents[p].updated = TRUE]

LEMMA ParentFields ==
  ASSUME NEW s \in NodeState, NEW p \in Indices, s.parents[p] # Null
  PROVE  /\ s.parents[p] \in Parent
         /\ s.parents[p].rank \in Ranks
         /\ \A rank : [s EXCEPT !.parents[p].rank = rank]
               = WithParent(s, p, [rank |-> rank, updated |-> s.parents[p].updated])
         /\ \A u : [s EXCEPT !.parents[p].updated = u]
               = WithParent(s, p, [rank |-> s.parents[p].rank, updated |-> u])
         /\ \A rank : Flagged(s, p, rank) = WithParent(s, p, [rank |-> rank, updated |-> TRUE])
         /\ s.parents[p].updated \in BOOLEAN
  <1>1. s.parents \in [Indices -> Parent \cup {Null}]
    BY Fields
  <1>2. s.parents[p] \in Parent
    BY <1>1
  <1>3. s.parents[p].rank \in Ranks /\ s.parents[p].updated \in BOOLEAN
    BY <1>2 DEF Parent
  <1>4. ASSUME NEW rank
        PROVE  [s EXCEPT !.parents[p].rank = rank]
               = WithParent(s, p, [rank |-> rank, updated |-> s.parents[p].updated])
    <2>1. PICK r : r = [rank |-> rank, updated |-> s.parents[p].updated]
      OBVIOUS
    <2>2. [s.parents[p] EXCEPT !.rank = rank] = r
      BY <1>2, <2>1 DEF Parent
    <2>3. [s EXCEPT !.parents[p].rank = rank] = [s EXCEPT !.parents[p] = r]
      BY <2>2
    <2> QED BY <2>1, <2>3 DEF WithParent
  <1>5. ASSUME NEW u
        PROVE  [s EXCEPT !.parents[p].updated = u]
               = WithParent(s, p, [rank |-> s.parents[p].rank, updated |-> u])
    <2>1. PICK r : r = [rank |-> s.parents[p].rank, updated |-> u]
      OBVIOUS
    <2>2. [s.parents[p] EXCEPT !.updated = u] = r
      BY <1>2, <2>1 DEF Parent
    <2>3. [s EXCEPT !.parents[p].updated = u] = [s EXCEPT !.parents[p] = r]
      BY <2>2
    <2> QED BY <2>1, <2>3 DEF WithParent
  <1>6. ASSUME NEW rank
        PROVE  Flagged(s, p, rank) = WithParent(s, p, [rank |-> rank, updated |-> TRUE])
    <2>1. PICK u : u = TRUE
      OBVIOUS
    <2>2. PICK r : r = [rank |-> rank, updated |-> u]
      OBVIOUS
    <2>3. PICK q \in Parent : q = s.parents[p]
      BY <1>2
    <2>4. PICK m : m = [q EXCEPT !.rank = rank]
      OBVIOUS
    <2>5. m = [rank |-> rank, updated |-> q.updated]
      BY <2>3, <2>4 DEF Parent
    <2>6. [m EXCEPT !.updated = u] = r
      BY <2>2, <2>5
    <2>7. [q EXCEPT !.rank = rank, !.updated = u] = [m EXCEPT !.updated = u]
      BY <2>4
    <2>8. [s.parents[p] EXCEPT !.rank = rank, !.updated = u] = r
      BY <2>3, <2>6, <2>7
    <2>9. Flagged(s, p, rank) = [s EXCEPT !.parents[p] = r]
      BY <2>1, <2>8 DEF Flagged
    <2> QED BY <2>1, <2>2, <2>9 DEF WithParent
  <1> QED BY <1>2, <1>3, <1>4, <1>5, <1>6

(* The neighbour cache knows the router behind p, or p is a parent already  *)
(* and gets an infinite rank or keeps the one it has.                       *)
MayBeParent(s, p, r) ==
    \/ s.lladdr[p] \in Routers /\ s.ds6[p] # Null
    \/ s.parents[p] # Null /\ r.rank \in {s.parents[p].rank, INFINITE_RANK}

LEMMA ParentCore ==
  ASSUME NEW s, Core(s), NEW p \in Indices, NEW r \in Parent, MayBeParent(s, p, r),
         NEW t, t = WithParent(s, p, r)
  PROVE  Core(t)
  <1>1. s \in NodeState
    BY DEF Core, Tables, Typed
  <1>2. /\ SameSlots(s, t)
        /\ t.parents[p] = r
        /\ \A i \in Indices : i # p => t.parents[i] = s.parents[i]
    BY <1>1, ParentIsSet
  <1> QED BY <1>2, SlotsKeepCore DEF MayBeParent

LEMMA ParentKept ==
  ASSUME NEW s, Good(s), NEW p \in Indices, NEW r \in Parent, MayBeParent(s, p, r),
         s.joined \/ s.parents[p] # Null,
         NEW t, t = WithParent(s, p, r)
  PROVE  /\ Good(t)
         /\ SameSlots(s, t)
         /\ t.preferred = s.preferred
         /\ t.defrt = s.defrt
         /\ t.parents[p] = r
         /\ \A i \in Indices : t.parents[i] = Null => s.parents[i] = Null
  <1>1. s \in NodeState
    BY DEF Good, Core, Tables, Typed
  <1>2. /\ SameSlots(s, t)
        /\ t.parents[p] = r
        /\ \A i \in Indices : i # p => t.parents[i] = s.parents[i]
        /\ t.defrt = s.defrt /\ t.def_route = s.def_route
        /\ t.locked = s.locked /\ t.preferred = s.preferred
    BY <1>1, ParentIsSet
  <1>3. Core(t)
    BY ParentCore DEF Good
  <1>4. Null # r
    BY RplAssumption
  <1>5. Joined(t)
    BY <1>2 DEF Good, Joined, SameSlots
  <1>6. Held(t)
    <2>1. s.preferred \in {0} \cup Indices
      BY <1>1, Fields
    <2> QED BY <1>2, <1>4, <2>1 DEF Good, Held
  <1>7. Pointed(t) /\ RoutedBy(t, t.preferred)
    BY <1>2 DEF Good, Pointed, RoutedBy, SameSlots
  <1> QED BY <1>2, <1>3, <1>4, <1>5, <1>6, <1>7 DEF Good

RecalculateVisit(t, p) ==
    IF t.parents[p] = Null THEN t
    ELSE IF t.parents[p].updated
         THEN rpl_process_parent_event([t EXCEPT !.parents[p].updated = FALSE], p)
         ELSE t

LEMMA RecalculateWalk ==
  ASSUME NEW S, NEW s \in S, NEW keys \in Seq(Indices), keys = s.keys,
         \A t \in S : \A p \in Indices : RecalculateVisit(t, p) \in S
  PROVE  \E f : Passing(f, s, S, keys) /\ rpl_recalculate_ranks(s) = f[Len(keys)]
  <1>1. PICK n \in Nat : n = Len(keys)
    OBVIOUS
  <1>2. \A k \in 1 .. n : keys[k] \in Indices
    BY <1>1
  <1>3. rpl_recalculate_ranks(s)
          = (CHOOSE h : h = [k \in 0 .. Len(s.keys) |->
                IF k = 0 THEN s ELSE RecalculateVisit(h[k - 1], s.keys[k])])[Len(s.keys)]
    BY DEF rpl_recalculate_ranks, EachParent, RecalculateVisit
  <1>4. PICK step : step = [k \in 1 .. n |-> [t \in S |-> RecalculateVisit(t, keys[k])]]
    OBVIOUS
  <1>5. step \in [1 .. n -> [S -> S]]
    BY <1>2, <1>4
  <1>6. PICK g : Run(g, n, S, s, step)
    BY <1>5, Recursion DEF Steps
  <1>7. \A k \in 1 .. n : g[k] = RecalculateVisit(g[k - 1], keys[k])
    <2> SUFFICES ASSUME NEW k \in 1 .. n PROVE g[k] = RecalculateVisit(g[k - 1], keys[k])
      OBVIOUS
    <2>1. k - 1 \in 0 .. n
      OBVIOUS
    <2>2. g[k - 1] \in S /\ g[k] = step[k][g[k - 1]]
      BY <1>6, <2>1 DEF Run
    <2>3. step[k] = [t \in S |-> RecalculateVisit(t, keys[k])]
      BY <1>4
    <2> QED BY <2>2, <2>3
  <1>8. g = [k \in 0 .. n |-> IF k = 0 THEN s ELSE RecalculateVisit(g[k - 1], keys[k])]
    <2>1. ASSUME NEW k \in 0 .. n
          PROVE  g[k] = IF k = 0 THEN s ELSE RecalculateVisit(g[k - 1], keys[k])
      <3>1. CASE k = 0
        BY <1>6, <3>1 DEF Run
      <3>2. CASE k # 0
        <4>1. k \in 1 .. n
          BY <3>2
        <4> QED BY <1>7, <3>2, <4>1
      <3> QED BY <3>1, <3>2
    <2> QED BY <1>6, <2>1 DEF Run
  <1>9. PICK f : /\ f = [k \in 0 .. n |-> IF k = 0 THEN s ELSE RecalculateVisit(f[k - 1], keys[k])]
                 /\ rpl_recalculate_ranks(s) = f[n]
    BY <1>1, <1>3, <1>8
  <1>10. f[0] = s /\ \A k \in 1 .. n : f[k] = RecalculateVisit(f[k - 1], keys[k])
    BY <1>9
  <1>11. PICK V : V = {k \in 0 .. n : f[k] \in S}
    OBVIOUS
  <1>12. 0 \in V
    BY <1>10, <1>11
  <1>13. ASSUME NEW k \in 1 .. n, k - 1 \in V PROVE k \in V
    <2>1. f[k - 1] \in S
      BY <1>11, <1>13
    <2>2. f[k] \in S
      BY <1>2, <1>10, <2>1
    <2> QED BY <1>11, <2>2
  <1>14. 0 .. n \subseteq V
    BY <1>12, <1>13, WalkInduction
  <1>15. \A k \in 0 .. n : f[k] \in S
    BY <1>11, <1>14
  <1>16. f \in [0 .. n -> S]
    BY <1>9, <1>15
  <1> QED BY <1>1, <1>9, <1>10, <1>16 DEF Passing

(* The ranks of the parents that were flagged are worked out. *)
LEMMA RanksRecalculated ==
  ASSUME NEW s, Good(s), NEW t, t = rpl_recalculate_ranks(s)
  PROVE  Good(t) /\ SameSlots(s, t)
  <1>1. s \in NodeState
    BY DEF Good, Core, Tables, Typed
  <1>2. PICK keys \in Seq(Indices) : keys = s.keys
    BY <1>1, Fields
  <1>3. PICK S : S = {u \in NodeState : Good(u) /\ SameSlots(s, u)}
    OBVIOUS
  <1>4. s \in S
    BY <1>1, <1>3 DEF SameSlots
  <1>5. ASSUME NEW u \in S, NEW p \in Indices PROVE RecalculateVisit(u, p) \in S
    <2>1. Good(u) /\ SameSlots(s, u) /\ u \in NodeState
      BY <1>3
    <2>2. CASE u.parents[p] = Null \/ ~u.parents[p].updated
      BY <2>2 DEF RecalculateVisit
    <2>3. CASE u.parents[p] # Null /\ u.parents[p].updated
      <3>1. PICK r \in Parent : r = [rank |-> u.parents[p].rank, updated |-> FALSE]
        BY <2>1, <2>3, ParentFields DEF Parent
      <3>2. MayBeParent(u, p, r)
        BY <2>3, <3>1 DEF MayBeParent
      <3>3. PICK a : a = [u EXCEPT !.parents[p].updated = FALSE]
        OBVIOUS
      <3>4. a = WithParent(u, p, r)
        BY <2>1, <2>3, <3>1, <3>3, ParentFields
      <3>5. Good(a) /\ SameSlots(u, a)
        BY <2>1, <2>3, <3>2, <3>4, ParentKept
      <3>6. PICK w : w = rpl_process_parent_event(a, p)
        OBVIOUS
      <3>7. Good(w) /\ SameSlots(a, w)
        BY <3>5, <3>6, ParentProcessed
      <3>8. SameSlots(s, w) /\ w \in NodeState
        BY <2>1, <3>5, <3>7, SameSlotsTwice DEF SameSlots
      <3>9. RecalculateVisit(u, p) = w
        BY <2>3, <3>3, <3>6 DEF RecalculateVisit
      <3> QED BY <1>3, <3>7, <3>8, <3>9
    <2> QED BY <2>2, <2>3
  <1>6. PICK f : Passing(f, s, S, keys) /\ t = f[Len(keys)]
    BY <1>2, <1>4, <1>5, RecalculateWalk
  <1>7. t \in S
    BY <1>6 DEF Passing
  <1> QED BY <1>3, <1>7

-----------------------------------------------------------------------------
(* Neighbours *)

LEMMA RouterFound ==
  ASSUME NEW s, Tables(s), NEW n \in Indices, s.ds6[n] # Null, s.lladdr[n] \in Routers
  PROVE  /\ s.ds6[n].ip = s.lladdr[n]
         /\ uip_ds6_nbr_lookup(s, s.lladdr[n]) = n
         /\ rpl_find_parent(s, s.lladdr[n]) = Used(s.parents, n)
  <1>1. PICK x \in Routers : x = s.lladdr[n]
    OBVIOUS
  <1>2. s.ds6[n].ip = x /\ index_from_lladdr(s, x) = n
    BY <1>1, RouterSlot
  <1>3. PICK m : m = uip_ds6_nbr_lookup(s, x)
    OBVIOUS
  <1>4. m # 0
    BY <1>2, <1>3, NeighbourFound DEF Indices
  <1>5. index_from_lladdr(s, x) = m /\ rpl_find_parent(s, x) = Used(s.parents, m)
    BY <1>3, <1>4, RouterKnown
  <1> QED BY <1>1, <1>2, <1>3, <1>5

(* RPL is told of neighbour n: a parent there has an infinite rank then. *)
LEMMA NeighbourTold ==
  ASSUME NEW s, Good(s), NEW n \in Indices, s.ds6[n] # Null,
         NEW t, t = rpl_ipv6_neighbor_callback(s, n)
  PROVE  /\ Good(t)
         /\ SameSlots(s, t)
         /\ t.preferred = s.preferred
         /\ t.defrt = s.defrt
         /\ s.parents[n] # Null => t.parents[n].rank = INFINITE_RANK
         /\ s.parents[n] = Null => t.parents[n] = Null
  <1>1. s \in NodeState /\ Tables(s) /\ Parented(s) /\ Joined(s)
    BY DEF Good, Core, Tables, Typed
  <1>2. PICK x : x = s.ds6[n].ip
    OBVIOUS
  <1>3. PICK p : p = rpl_find_parent(s, x)
    OBVIOUS
  <1>4. CASE ~s.joined \/ p = 0
    <2>1. t = s
      BY <1>2, <1>3, <1>4 DEF rpl_ipv6_neighbor_callback
    <2>2. s.parents[n] = Null
      <3> SUFFICES ASSUME s.parents[n] # Null PROVE FALSE
        OBVIOUS
      <3>1. s.joined /\ s.lladdr[n] \in Routers
        BY <1>1 DEF Joined, Parented
      <3>2. p = n
        <4>1. s.ds6[n].ip = s.lladdr[n] /\ p = Used(s.parents, n)
          BY <1>1, <1>2, <1>3, <3>1, RouterFound
        <4>2. n # 0
          BY DEF Indices
        <4> QED BY <4>1, <4>2 DEF Used
      <3>3. n # 0
        BY DEF Indices
      <3> QED BY <1>4, <3>1, <3>2, <3>3
    <2> QED BY <1>1, <2>1, <2>2 DEF SameSlots
  <1>5. CASE s.joined /\ p # 0
    <2>1. p \in Indices /\ s.parents[p] # Null
      <3>1. PICK l : p = Used(s.parents, index_from_lladdr(s, l))
        BY <1>3 DEF rpl_find_parent
      <3>2. index_from_lladdr(s, l) = 0 \/ index_from_lladdr(s, l) \in Indices
        BY <1>1, SlotFound
      <3> QED BY <1>5, <3>1, <3>2 DEF Used
    <2>2. PICK r \in Parent : r = [rank |-> INFINITE_RANK, updated |-> TRUE]
      <3>1. INFINITE_RANK \in Ranks
        BY RplAssumption DEF Ranks
      <3> QED BY <3>1 DEF Parent
    <2>3. t = Flagged(s, p, INFINITE_RANK)
      BY <1>2, <1>3, <1>5 DEF rpl_ipv6_neighbor_callback, Flagged
    <2>4. t = WithParent(s, p, r)
      BY <1>1, <2>1, <2>2, <2>3, ParentFields
    <2>5. MayBeParent(s, p, r)
      BY <2>1, <2>2 DEF MayBeParent
    <2>6. /\ Good(t)
          /\ SameSlots(s, t)
          /\ t.preferred = s.preferred
          /\ t.defrt = s.defrt
      BY <1>5, <2>1, <2>4, <2>5, ParentKept
    <2>7. /\ t.parents[p] = r
          /\ \A i \in Indices : i # p => t.parents[i] = s.parents[i]
      BY <1>1, <2>1, <2>4, ParentIsSet
    <2>8. s.parents[n] # Null => p = n
      <3> SUFFICES ASSUME s.parents[n] # Null PROVE p = n
        OBVIOUS
      <3>1. s.lladdr[n] \in Routers
        BY <1>1 DEF Parented
      <3>2. p = Used(s.parents, n)
        BY <1>1, <1>2, <1>3, <3>1, RouterFound
      <3> QED BY <1>5, <3>2 DEF Used
    <2>9. s.parents[n] = Null => p # n
      BY <2>1
    <2> QED BY <2>2, <2>6, <2>7, <2>8, <2>9
  <1> QED BY <1>4, <1>5

WithNeighbour(s, n, e) == [s EXCEPT !.ds6[n] = e]

(* t is s but for the neighbour cache. *)
ButNeighbours(s, t) ==
    /\ t \in NodeState
    /\ t.keys = s.keys /\ t.lladdr = s.lladdr /\ t.lists = s.lists
    /\ t.parents = s.parents /\ t.locked = s.locked /\ t.routes = s.routes
    /\ t.joined = s.joined /\ t.preferred = s.preferred
    /\ t.rank = s.rank /\ t.min_rank = s.min_rank
    /\ t.defrt = s.defrt /\ t.def_route = s.def_route

LEMMA NeighbourExcept ==
  ASSUME NEW s \in NodeState, NEW n \in Indices, NEW e \in Neighbour \cup {Null}
  PROVE  /\ ButNeighbours(s, WithNeighbour(s, n, e))
         /\ WithNeighbour(s, n, e).ds6[n] = e
         /\ \A i \in Indices : i # n => WithNeighbour(s, n, e).ds6[i] = s.ds6[i]
  <1>1. PICK t : t = WithNeighbour(s, n, e)
    OBVIOUS
  <1>2. ButNeighbours(s, t) /\ t.ds6 = [s.ds6 EXCEPT ![n] = e]
    BY <1>1 DEF NodeState, ButNeighbours, WithNeighbour
  <1>3. s.ds6 \in [Indices -> Neighbour \cup {Null}]
    BY Fields
  <1>4. t.ds6[n] = e /\ \A i \in Indices : i # n => t.ds6[i] = s.ds6[i]
    BY <1>2, <1>3
  <1> QED BY <1>1, <1>2, <1>4

(* An item of the neighbour cache that fits its slot is set, or one that is *)
(* not the default router's is removed.                                     *)
Fits(s, n, e) ==
    IF e = Null
    THEN (s.parents[n] # Null => s.parents[n].rank = INFINITE_RANK)
    ELSE /\ n \in Range(s.keys)
         /\ s.lladdr[n] \in {e.ip, Null}
         /\ e.ip \in Routers => s.lladdr[n] = e.ip /\ e.state = "RESOLVED"

LEMMA NeighbourCore ==
  ASSUME NEW s, Core(s), NEW n \in Indices, NEW e \in Neighbour \cup {Null}, Fits(s, n, e),
         NEW t, t = WithNeighbour(s, n, e)
  PROVE  Core(t)
  <1>1. s \in NodeState
    BY DEF Core, Tables, Typed
  <1>2. /\ ButNeighbours(s, t)
        /\ t.ds6[n] = e
        /\ \A i \in Indices : i # n => t.ds6[i] = s.ds6[i]
    BY <1>1, NeighbourExcept
  <1>3. Typed(t)
    BY <1>2 DEF Core, Tables, Typed, ButNeighbours
  <1>4. Mirrored(t) /\ Leading(t) /\ KnownOnce(t)
    BY <1>2 DEF Core, Tables, Mirrored, Leading, KnownOnce, ButNeighbours
  <1>5. Allotted(t)
    BY <1>2 DEF Core, Tables, Allotted, ButNeighbours, Fits
  <1>6. Addressed(t)
    <2> SUFFICES ASSUME NEW i \in Indices, t.ds6[i] # Null
                 PROVE  /\ t.lladdr[i] \in {t.ds6[i].ip, Null}
                        /\ t.ds6[i].ip \in Routers =>
                              t.lladdr[i] = t.ds6[i].ip /\ t.ds6[i].state = "RESOLVED"
      BY DEF Addressed
    <2>1. CASE i = n
      BY <1>2, <2>1 DEF ButNeighbours, Fits
    <2>2. CASE i # n
      BY <1>2, <2>2 DEF Core, Tables, Addressed, ButNeighbours
    <2> QED BY <2>1, <2>2
  <1>7. Parented(t)
    BY <1>2 DEF Core, Parented, ButNeighbours, Fits
  <1> QED BY <1>3, <1>4, <1>5, <1>6, <1>7 DEF Core, Tables

LEMMA NeighbourKept ==
  ASSUME NEW s, Good(s), NEW n \in Indices, NEW e \in Neighbour \cup {Null}, Fits(s, n, e),
         \/ n # s.preferred
         \/ s.defrt = <<>>
         \/ e # Null /\ s.ds6[n] # Null /\ e.ip = s.ds6[n].ip,
         NEW t, t = WithNeighbour(s, n, e)
  PROVE  Good(t)
  <1>1. s \in NodeState
    BY DEF Good, Core, Tables, Typed
  <1>2. /\ ButNeighbours(s, t)
        /\ t.ds6[n] = e
        /\ \A i \in Indices : i # n => t.ds6[i] = s.ds6[i]
    BY <1>1, NeighbourExcept
  <1>3. Core(t)
    BY NeighbourCore DEF Good
  <1>4. Joined(t) /\ Held(t) /\ Pointed(t)
    BY <1>2 DEF Good, Joined, Held, Pointed, ButNeighbours
  <1>5. s.preferred \in {0} \cup Indices
    BY <1>1, Fields
  <1>6. RoutedBy(t, t.preferred)
    BY <1>2, <1>5 DEF Good, RoutedBy, ButNeighbours
  <1> QED BY <1>3, <1>4, <1>6 DEF Good

(* A neighbour is removed that is not the default router. *)
LEMMA NeighbourRemoved ==
  ASSUME NEW s, Good(s), NEW n \in Indices, s.ds6[n] # Null,
         n # s.preferred \/ s.defrt = <<>>,
         NEW t, t = uip_ds6_nbr_rm(s, n)
  PROVE  /\ Good(t)
         /\ t.keys = s.keys /\ t.lladdr = s.lladdr /\ t.lists = s.lists
         /\ t.preferred = s.preferred
         /\ t.ds6[n] = Null
  <1>1. PICK a : a = rpl_ipv6_neighbor_callback(s, n)
    OBVIOUS
  <1>2. /\ Good(a)
        /\ SameSlots(s, a)
        /\ a.preferred = s.preferred
        /\ a.defrt = s.defrt
        /\ s.parents[n] # Null => a.parents[n].rank = INFINITE_RANK
        /\ s.parents[n] = Null => a.parents[n] = Null
    BY <1>1, NeighbourTold
  <1>3. a \in NodeState
    BY <1>2 DEF SameSlots
  <1>4. t = WithNeighbour(a, n, Null)
    BY <1>1 DEF uip_ds6_nbr_rm, WithNeighbour
  <1>5. Fits(a, n, Null)
    BY <1>2 DEF Fits
  <1>6. Good(t)
    BY <1>2, <1>4, <1>5, NeighbourKept
  <1>7. ButNeighbours(a, t) /\ t.ds6[n] = Null
    BY <1>3, <1>4, NeighbourExcept
  <1> QED BY <1>2, <1>6, <1>7 DEF SameSlots, ButNeighbours

-----------------------------------------------------------------------------
(* A slot for a new neighbour *)

(* The tables give up a slot that is not the preferred parent's. *)
LEMMA Evicted ==
  ASSUME NEW s, Good(s), NEW i \in Indices, i # s.preferred, NEW t, t = Evict(s, i)
  PROVE  /\ Good(t)
         /\ t.keys = s.keys /\ t.lladdr = s.lladdr
         /\ t.ds6[i] = Null /\ t.lists[i] = Null /\ t.parents[i] = Null
         /\ t.preferred # i
  <1>1. PICK a : a = Forget(s, i)
    OBVIOUS
  <1>2. /\ Good(a)
        /\ a.keys = s.keys /\ a.lladdr = s.lladdr
        /\ a.preferred = s.preferred
        /\ a.ds6[i] = Null
    <2>1. CASE s.ds6[i] = Null
      BY <1>1, <2>1 DEF Forget
    <2>2. CASE s.ds6[i] # Null
      <3>1. a = uip_ds6_nbr_rm(s, i)
        BY <1>1, <2>2 DEF Forget
      <3> QED BY <2>2, <3>1, NeighbourRemoved
    <2> QED BY <2>1, <2>2
  <1>3. PICK b : b = ForgetRoutes(a, i)
    OBVIOUS
  <1>4. /\ Good(b)
        /\ b.keys = s.keys /\ b.lladdr = s.lladdr
        /\ b.preferred = s.preferred
        /\ b.ds6[i] = Null /\ b.lists[i] = Null
    <2>1. CASE a.lists[i] = Null
      BY <1>2, <1>3, <2>1 DEF ForgetRoutes
    <2>2. CASE a.lists[i] # Null
      <3>1. b = rm_routelist(a, i)
        BY <1>3, <2>2 DEF ForgetRoutes
      <3>2. Routing(a)
        BY <1>2, GoodRoutes DEF Good
      <3>3. /\ ButRoutes(a, b)
            /\ Routing(b)
            /\ Range(b.routes) = {r \in Range(a.routes) : r.index # i}
            /\ b.lists[i] = Null
        BY <2>2, <3>1, <3>2, RouteListRemoved
      <3>4. \A r \in Range(b.routes) : r \in Range(a.routes)
        BY <3>3
      <3>5. Good(b)
        BY <1>2, <3>3, <3>4, RoutesKeepGood
      <3> QED BY <1>2, <3>3, <3>5 DEF ButRoutes
    <2> QED BY <2>1, <2>2
  <1>5. t = ForgetParent(b, i)
    BY <1>1, <1>3 DEF Evict
  <1>6. CASE b.parents[i] = Null
    <2>1. t = b
      BY <1>5, <1>6 DEF ForgetParent
    <2> QED BY <1>4, <1>6, <2>1
  <1>7. CASE b.parents[i] # Null
    <2>1. t = rpl_remove_parent(b, i)
      BY <1>5, <1>7 DEF ForgetParent
    <2>2. /\ Good(t)
          /\ SameSlots(b, t)
          /\ t.parents[i] = Null
          /\ t.preferred # i
      BY <1>4, <2>1, ParentRemoved
    <2> QED BY <1>4, <2>2 DEF SameSlots
  <1> QED BY <1>6, <1>7

(* t is s but for the keys. *)
ButKeys(s, t) ==
    /\ t \in NodeState
    /\ t.ds6 = s.ds6 /\ t.lists = s.lists
    /\ t.parents = s.parents /\ t.locked = s.locked /\ t.routes = s.routes
    /\ t.joined = s.joined /\ t.preferred = s.preferred
    /\ t.rank = s.rank /\ t.min_rank = s.min_rank
    /\ t.defrt = s.defrt /\ t.def_route = s.def_route

WithKey(s, q, i, l) == [s EXCEPT !.keys = q, !.lladdr[i] = l]

LEMMA KeyExcept ==
  ASSUME NEW s \in NodeState, NEW q \in Seq(Indices), NEW i \in Indices,
         NEW l \in Nodes \cup {Null}
  PROVE  /\ ButKeys(s, WithKey(s, q, i, l))
         /\ WithKey(s, q, i, l).keys = q
         /\ WithKey(s, q, i, l).lladdr[i] = l
         /\ \A j \in Indices : j # i => WithKey(s, q, i, l).lladdr[j] = s.lladdr[j]
  <1>1. PICK t : t = WithKey(s, q, i, l)
    OBVIOUS
  <1>2. ButKeys(s, t) /\ t.keys = q /\ t.lladdr = [s.lladdr EXCEPT ![i] = l]
    BY <1>1 DEF NodeState, ButKeys, WithKey
  <1>3. s.lladdr \in [Indices -> Nodes \cup {Null}]
    BY Fields
  <1>4. t.lladdr[i] = l /\ \A j \in Indices : j # i => t.lladdr[j] = s.lladdr[j]
    BY <1>2, <1>3
  <1> QED BY <1>1, <1>2, <1>4

LEMMA Appended ==
  ASSUME NEW T, NEW q \in Seq(T), NEW x \in T
  PROVE  /\ Append(q, x) \in Seq(T)
         /\ Len(Append(q, x)) = Len(q) + 1
         /\ \A j : j \in Range(Append(q, x)) <=> j \in Range(q) \/ j = x
         /\ IsInjective(q) /\ x \notin Range(q) => IsInjective(Append(q, x))
  <1>1. PICK n \in Nat : n = Len(q)
    OBVIOUS
  <1>2. PICK m \in Nat : m = n + 1
    OBVIOUS
  <1>3. PICK r : r = Append(q, x)
    OBVIOUS
  <1>4. /\ r \in Seq(T)
        /\ Len(r) = m
        /\ r[m] = x
        /\ \A k \in 1 .. n : r[k] = q[k]
    BY <1>1, <1>2, <1>3
  <1>5. m \in 1 .. m /\ \A k : k \in 1 .. m <=> k \in 1 .. n \/ k = m
    BY <1>2
  <1>6. \A j : j \in Range(q) <=> \E k \in 1 .. n : q[k] = j
    BY <1>1, RangeIs
  <1>7. \A j : j \in Range(r) <=> \E k \in 1 .. m : r[k] = j
    <2>1. \A j : j \in Range(r) <=> \E k \in 1 .. Len(r) : r[k] = j
      BY <1>4, RangeIs
    <2> QED BY <1>4, <2>1
  <1>8. r[m] = x /\ \A k \in 1 .. n : r[k] = q[k]
    BY <1>4
  <1>9. ASSUME NEW j PROVE j \in Range(r) <=> j \in Range(q) \/ j = x
    BY <1>5, <1>6, <1>7, <1>8
  <1>10. ASSUME IsInjective(q), x \notin Range(q) PROVE IsInjective(r)
    <2>1. \A k \in 1 .. n : q[k] # x
      BY <1>6, <1>10
    <2>2. \A a, b \in 1 .. n : q[a] = q[b] => a = b
      BY <1>1, <1>10 DEF IsInjective
    <2>3. \A a, b \in 1 .. m : r[a] = r[b] => a = b
      BY <1>5, <1>8, <2>1, <2>2
    <2>4. DOMAIN r = 1 .. m
      BY <1>4
    <2> QED BY <2>3, <2>4 DEF IsInjective
  <1> QED BY <1>1, <1>2, <1>3, <1>4, <1>9, <1>10

ToTheEnd(q, i) == Append(Only(q, Indices \ {i}), i)

(* The key moves to the end of the list of the keys, or is new there. *)
LEMMA KeyMoved ==
  ASSUME NEW q \in Seq(Indices), IsInjective(q), NEW i \in Indices,
         \A j \in Indices : j \in Range(q) <=> j <= Len(q),
         i \in Range(q) \/ i = Len(q) + 1,
         NEW r, r = ToTheEnd(q, i)
  PROVE  /\ r \in Seq(Indices)
         /\ IsInjective(r)
         /\ \A j \in Indices : j \in Range(r) <=> j <= Len(r)
         /\ Len(r) = IF i \in Range(q) THEN Len(q) ELSE Len(q) + 1
         /\ \A j : j \in Range(r) <=> j \in Range(q) \/ j = i
  <1>1. PICK Q : Q = Indices \ {i}
    OBVIOUS
  <1>2. PICK o \in Seq(Indices) : /\ o = Only(q, Q)
                                  /\ Len(o) <= Len(q)
                                  /\ Range(o) = Range(q) \cap Q
    BY OnlyRange
  <1>3. IsInjective(o)
    BY <1>2, OnlyInjective
  <1>4. PICK n \in Nat, len \in Nat : n = Len(o) /\ len = Len(q)
    OBVIOUS
  <1>5. \A j : j \in Range(o) <=> j \in Range(q) /\ j # i
    <2>1. Range(q) \subseteq Indices
      BY RangeIs
    <2> QED BY <1>1, <1>2, <2>1
  <1>6. r = Append(o, i)
    BY <1>1, <1>2 DEF ToTheEnd
  <1>7. i \notin Range(o)
    BY <1>5
  <1>8. PICK v : v = Append(o, i)
    OBVIOUS
  <1>9. /\ v \in Seq(Indices)
        /\ Len(v) = n + 1
        /\ \A j : j \in Range(v) <=> j \in Range(o) \/ j = i
        /\ IsInjective(v)
    BY <1>3, <1>4, <1>7, <1>8, Appended
  <1>10. \A j : j \in Range(v) <=> j \in Range(q) \/ j = i
    BY <1>5, <1>9
  <1>11. i \in Range(q) => n + 1 = len
    <2> SUFFICES ASSUME i \in Range(q) PROVE n + 1 = len
      OBVIOUS
    <2>1. \A k \in 1 .. Len(q) : q[k] \in Q <=> q[k] # i
      BY <1>1
    <2>2. IsInjective(q) => Len(Only(q, Q)) = Len(q) - 1
      BY <2>1, OnlyWithout
    <2> QED BY <1>2, <1>4, <2>2
  <1>12. i \notin Range(q) => n = len /\ i = len + 1
    <2> SUFFICES ASSUME i \notin Range(q) PROVE n = len
      BY <1>4
    <2>1. PICK R : R = {}
      OBVIOUS
    <2>2. \A k \in 1 .. Len(q) : q[k] \in Q <=> q[k] \notin R
      <3>1. \A k \in 1 .. Len(q) : q[k] \in Range(q) /\ q[k] \in Indices
        BY RangeIs
      <3> QED BY <1>1, <2>1, <3>1
    <2>3. Len(Only(q, Q)) + Len(Only(q, R)) = Len(q)
      BY <2>2, OnlySplits
    <2>4. Len(Only(q, R)) = 0
      <3>1. PICK e \in Seq(Indices) : e = Only(q, R) /\ Range(e) = Range(q) \cap R
        BY OnlyRange
      <3>2. \A k \in 1 .. Len(e) : e[k] \in Range(e)
        BY RangeIs
      <3>3. ~(1 \in 1 .. Len(e))
        BY <2>1, <3>1, <3>2
      <3>4. Len(e) \in Nat
        OBVIOUS
      <3> QED BY <3>1, <3>3, <3>4
    <2> QED BY <1>2, <1>4, <2>3, <2>4
  <1>13. \A j \in Indices : j \in Range(q) <=> j <= len
    BY <1>4
  <1>14. \A j \in Indices : j \in Range(v) <=> j <= n + 1
    <2>1. CASE i \in Range(q)
      <3>1. n + 1 = len
        BY <1>11, <2>1
      <3> QED BY <1>10, <1>13, <2>1, <3>1
    <2>2. CASE i \notin Range(q)
      <3>1. n = len /\ i = len + 1
        BY <1>12, <2>2
      <3>2. \A j \in Indices : j <= len + 1 <=> j <= len \/ j = len + 1
        BY NbrTableAssumption DEF Indices
      <3> QED BY <1>10, <1>13, <3>1, <3>2
    <2> QED BY <2>1, <2>2
  <1>15. /\ Len(v) = IF i \in Range(q) THEN len ELSE len + 1
         /\ \A j \in Indices : j \in Range(v) <=> j <= Len(v)
    BY <1>9, <1>11, <1>12, <1>14
  <1> QED BY <1>4, <1>6, <1>8, <1>9, <1>10, <1>15

(* An empty slot is given to an address that no other slot has. *)
LEMMA SlotGiven ==
  ASSUME NEW s, Good(s), NEW i \in Indices,
         i \in Range(s.keys) \/ i = Len(s.keys) + 1,
         s.ds6[i] = Null, s.lists[i] = Null, s.parents[i] = Null,
         NEW l \in Nodes \cup {Null}, \A j \in Range(s.keys) : s.lladdr[j] # l,
         NEW t, t = Rekeyed(s, i, l)
  PROVE  /\ Good(t)
         /\ ButKeys(s, t)
         /\ i \in Range(t.keys)
         /\ t.lladdr[i] = l
         /\ \A j \in Indices : j # i => t.lladdr[j] = s.lladdr[j]
  <1>1. s \in NodeState /\ IsInjective(s.keys)
    BY DEF Good, Core, Tables, Typed
  <1>2. PICK q \in Seq(Indices) : q = s.keys
    BY <1>1, Fields
  <1>3. PICK r : r = ToTheEnd(q, i)
    OBVIOUS
  <1>4. \A j \in Indices : j \in Range(q) <=> j <= Len(q)
    BY <1>2 DEF Good, Core, Tables, Allotted
  <1>5. /\ r \in Seq(Indices)
        /\ IsInjective(r)
        /\ \A j \in Indices : j \in Range(r) <=> j <= Len(r)
        /\ \A j : j \in Range(r) <=> j \in Range(q) \/ j = i
    <2>1. IsInjective(q) /\ (i \in Range(q) \/ i = Len(q) + 1)
      BY <1>1, <1>2
    <2> QED BY <1>3, <1>4, <2>1, KeyMoved
  <1>6. t = WithKey(s, r, i, l)
    BY <1>2, <1>3 DEF Rekeyed, WithKey, ToTheEnd
  <1>7. /\ ButKeys(s, t)
        /\ t.keys = r
        /\ t.lladdr[i] = l
        /\ \A j \in Indices : j # i => t.lladdr[j] = s.lladdr[j]
    BY <1>1, <1>5, <1>6, KeyExcept
  <1>8. i \in Range(t.keys)
    BY <1>5, <1>7
  <1>9. Typed(t)
    BY <1>5, <1>7 DEF Good, Core, Tables, Typed, ButKeys
  <1>10. Allotted(t)
    BY <1>2, <1>5, <1>7 DEF Good, Core, Tables, Allotted, ButKeys
  <1>11. Addressed(t)
    BY <1>7 DEF Good, Core, Tables, Addressed, ButKeys
  <1>12. KnownOnce(t)
    <2>1. \A j \in Indices : s.lladdr[j] \in Routers => s.lladdr[j] # l
      BY RplAssumption DEF Good, Core, Tables, Allotted, Nodes
    <2>2. ASSUME NEW j \in Indices, NEW k \in Indices,
                 t.lladdr[j] = t.lladdr[k], t.lladdr[j] \in Routers
          PROVE  j = k
      <3>1. CASE j # i /\ k # i
        BY <1>7, <2>2, <3>1 DEF Good, Core, Tables, KnownOnce
      <3>2. CASE j = i \/ k = i
        BY <1>7, <2>1, <2>2, <3>2
      <3> QED BY <3>1, <3>2
    <2> QED BY <2>2 DEF KnownOnce
  <1>13. Mirrored(t)
    BY <1>7 DEF Good, Core, Mirrored, ButKeys
  <1>14. Parented(t)
    BY <1>7 DEF Good, Core, Parented, ButKeys
  <1>15. Leading(t)
    <2> SUFFICES ASSUME NEW route \in Range(t.routes)
                 PROVE  route.via \in Routers /\ t.lladdr[route.index] = route.via
      BY DEF Leading
    <2>1. t.routes = s.routes
      BY <1>7 DEF ButKeys
    <2>2. route.via \in Routers /\ s.lladdr[route.index] = route.via
      BY <2>1 DEF Good, Core, Leading
    <2>3. route.index \in Indices /\ route.dest \in Targets
      <3>1. s.routes \in Seq(Route)
        BY <1>1, Fields
      <3>2. route \in Route
        BY <2>1, <3>1, RangeIs
      <3> QED BY <3>2 DEF Route
    <2>4. route.index # i
      BY <2>1, <2>3 DEF Good, Core, Mirrored
    <2> QED BY <1>7, <2>2, <2>3, <2>4
  <1>16. Joined(t) /\ Held(t) /\ Pointed(t) /\ RoutedBy(t, t.preferred)
    BY <1>7 DEF Good, Joined, Held, Pointed, RoutedBy, ButKeys
  <1> QED BY <1>7, <1>8, <1>9, <1>10, <1>11, <1>12, <1>13, <1>14, <1>15, <1>16
          DEF Good, Core, Tables

(* The slot of the preferred parent keeps its address. *)
Kept(s, t) == s.preferred # 0 => t.lladdr[s.preferred] = s.lladdr[s.preferred]

LEMMA SlotsKept ==
  ASSUME NEW s, NEW t, NEW u, Kept(s, t), SameSlots(t, u)
  PROVE  Kept(s, u)
  BY DEF Kept, SameSlots

(* The table finds a slot for address l or makes one, or does nothing. *)
LEMMA SlotMade ==
  ASSUME NEW s, Good(s), NEW l \in Nodes \cup {Null},
         NEW a, a = nbr_table_add_lladdr(s, l)
  PROVE  /\ Good(a.state)
         /\ Kept(s, a.state)
         /\ a.slot = 0 => a.state = s
         /\ a.slot # 0 =>
               /\ a.slot \in Indices
               /\ a.slot \in Range(a.state.keys)
               /\ a.state.lladdr[a.slot] = l
               /\ a.state = s \/ (a.state.ds6[a.slot] = Null /\ a.slot # a.state.preferred)
  <1>1. s \in NodeState /\ Tables(s)
    BY DEF Good, Core, Tables, Typed
  <1>2. PICK q \in Seq(Indices) : q = s.keys
    BY <1>1, Fields
  <1>3. PICK i : i = index_from_lladdr(s, l)
    OBVIOUS
  <1>4. 0 \notin Indices
    BY DEF Indices
  <1>5. CASE i # 0
    <2>1. a.slot = i /\ a.state = s
      BY <1>3, <1>5 DEF nbr_table_add_lladdr
    <2>2. i \in Range(s.keys) /\ i \in Indices /\ s.lladdr[i] = l
      BY <1>1, <1>3, <1>5, SlotFound
    <2> QED BY <1>4, <2>1, <2>2 DEF Kept
  <1>6. ASSUME i = 0 PROVE \A j \in Range(s.keys) : s.lladdr[j] # l
    <2>1. (i = 0 /\ \A j \in Range(s.keys) : s.lladdr[j] # l) \/ i \in Indices
      BY <1>1, <1>3, SlotFound
    <2> QED BY <1>4, <1>6, <2>1
  <1>7. CASE i = 0 /\ HasSpace(s)
    <2>1. PICK n \in Nat : n = Len(q)
      OBVIOUS
    <2>2. PICK m : m = n + 1
      OBVIOUS
    <2>3. m \in Indices /\ m \notin Range(s.keys)
      <3>1. n < NBR_TABLE_MAX_NEIGHBORS
        BY <1>2, <1>7, <2>1 DEF HasSpace
      <3>2. m \in Indices
        BY <2>2, <3>1, NbrTableAssumption DEF Indices
      <3>3. m \in Range(s.keys) <=> m <= n
        BY <1>1, <1>2, <2>1, <3>2 DEF Tables, Allotted
      <3> QED BY <2>2, <3>2, <3>3
    <2>4. a.slot = m /\ a.state = Rekeyed(s, m, l)
      BY <1>2, <1>3, <1>7, <2>1, <2>2 DEF nbr_table_add_lladdr
    <2>5. s.ds6[m] = Null /\ s.lists[m] = Null /\ s.parents[m] = Null
      BY <1>1, <2>3 DEF Tables, Allotted
    <2>6. s.preferred # m
      BY <1>4, <2>3, <2>5 DEF Good, Held
    <2>7. m = Len(s.keys) + 1
      BY <1>2, <2>1, <2>2
    <2>8. PICK t : t = a.state
      OBVIOUS
    <2>9. /\ Good(t)
          /\ ButKeys(s, t)
          /\ m \in Range(t.keys)
          /\ t.lladdr[m] = l
          /\ \A j \in Indices : j # m => t.lladdr[j] = s.lladdr[j]
      BY <1>6, <1>7, <2>3, <2>4, <2>5, <2>7, <2>8, SlotGiven
    <2>10. Kept(s, t)
      <3>1. s.preferred \in {0} \cup Indices
        BY <1>1, Fields
      <3> QED BY <2>6, <2>9, <3>1 DEF Kept
    <2>11. t.ds6[m] = Null /\ m # t.preferred
      BY <2>5, <2>6, <2>9 DEF ButKeys
    <2> QED BY <1>4, <2>3, <2>4, <2>8, <2>9, <2>10, <2>11
  <1>8. CASE i = 0 /\ ~HasSpace(s)
    <2>1. PICK v : v = LeastUsed(s)
      OBVIOUS
    <2>2. a.slot = v /\ a.state = IF v = 0 THEN s ELSE Rekeyed(Evict(s, v), v, l)
      BY <1>3, <1>8, <2>1 DEF nbr_table_add_lladdr
    <2>3. CASE v = 0
      BY <2>2, <2>3 DEF Kept
    <2>4. CASE v # 0
      <3>1. v \in Range(s.keys) /\ v \in Indices /\ v \notin s.locked
        <4>1. PICK Q : Q = {j \in Indices :
                              /\ ~Locked(s, j)
                              /\ \A k \in Indices :
                                    Locked(s, k) \/ UsedCount(s, j) <= UsedCount(s, k)}
          OBVIOUS
        <4>2. v = FirstKey(s, Q)
          BY <2>1, <4>1 DEF LeastUsed
        <4>3. v \in Range(s.keys) \cap Q
          BY <1>2, <2>4, <4>2, FirstKeyFound
        <4> QED BY <4>1, <4>3 DEF Locked
      <3>2. v # s.preferred
        BY <2>4, <3>1 DEF Good, Held
      <3>3. PICK u : u = Evict(s, v)
        OBVIOUS
      <3>4. /\ Good(u)
            /\ u.keys = s.keys /\ u.lladdr = s.lladdr
            /\ u.ds6[v] = Null /\ u.lists[v] = Null /\ u.parents[v] = Null
            /\ u.preferred # v
        BY <3>1, <3>2, <3>3, Evicted
      <3>5. PICK t : t = a.state
        OBVIOUS
      <3>6. t = Rekeyed(u, v, l)
        BY <2>2, <2>4, <3>3, <3>5
      <3>7. \A j \in Range(u.keys) : u.lladdr[j] # l
        BY <1>6, <1>8, <3>4
      <3>8. /\ Good(t)
            /\ ButKeys(u, t)
            /\ v \in Range(t.keys)
            /\ t.lladdr[v] = l
            /\ \A j \in Indices : j # v => t.lladdr[j] = u.lladdr[j]
        BY <3>1, <3>4, <3>6, <3>7, SlotGiven
      <3>9. Kept(s, t)
        <4>1. s.preferred \in {0} \cup Indices
          BY <1>1, Fields
        <4> QED BY <3>2, <3>4, <3>8, <4>1 DEF Kept
      <3>10. t.ds6[v] = Null /\ v # t.preferred
        BY <3>4, <3>8 DEF ButKeys
      <3> QED BY <2>2, <2>4, <3>1, <3>5, <3>8, <3>9, <3>10
    <2> QED BY <2>3, <2>4
  <1> QED BY <1>5, <1>7, <1>8

(* A neighbour that is not known yet is added: a router or host with its    *)
(* address, or a host without one.                                          *)
LEMMA NeighbourAdded ==
  ASSUME Routers \cap Hosts = {},
         NEW s, Good(s), NEW ip \in Nodes, uip_ds6_nbr_lookup(s, ip) = 0,
         NEW l, NEW state,
         \/ l = ip /\ state = "RESOLVED"
         \/ l = Null /\ state = "INCOMPLETE" /\ ip \in Hosts,
         NEW t, t = uip_ds6_nbr_add(s, ip, l, state)
  PROVE  Good(t) /\ Kept(s, t)
  <1>1. PICK a : a = nbr_table_add_lladdr(s, l)
    OBVIOUS
  <1>2. l \in Nodes \cup {Null}
    OBVIOUS
  <1>3. /\ Good(a.state)
        /\ Kept(s, a.state)
        /\ a.slot = 0 => a.state = s
        /\ a.slot # 0 =>
              /\ a.slot \in Indices
              /\ a.slot \in Range(a.state.keys)
              /\ a.state.lladdr[a.slot] = l
              /\ a.state = s \/ (a.state.ds6[a.slot] = Null /\ a.slot # a.state.preferred)
    BY <1>1, <1>2, SlotMade
  <1>4. PICK entry : entry = [ip |-> ip, state |-> state, link_metric |-> 0]
    OBVIOUS
  <1>5. t = IF a.slot = 0 THEN a.state
            ELSE rpl_ipv6_neighbor_callback([a.state EXCEPT !.ds6[a.slot] = entry], a.slot)
    BY <1>1, <1>4 DEF uip_ds6_nbr_add
  <1>6. CASE a.slot = 0
    BY <1>3, <1>5, <1>6
  <1>7. CASE a.slot # 0
    <2>1. PICK u : u = a.state
      OBVIOUS
    <2>2. PICK i \in Indices : i = a.slot
      BY <1>3, <1>7
    <2>3. /\ Good(u) /\ i \in Range(u.keys) /\ u.lladdr[i] = l
          /\ u = s \/ (u.ds6[i] = Null /\ i # u.preferred)
      BY <1>3, <1>7, <2>1, <2>2
    <2>4. /\ entry \in Neighbour /\ entry # Null /\ entry.ip = ip
          /\ entry.state = state
      <3>1. entry \in Neighbour
        BY <1>4 DEF Neighbour
      <3> QED BY <1>4, <3>1, RplAssumption
    <2>5. Fits(u, i, entry)
      <3>1. ip \in Routers => ip \notin Hosts
        OBVIOUS
      <3> QED BY <2>3, <2>4, <3>1 DEF Fits
    <2>6. i # u.preferred \/ u.defrt = <<>>
      <3> SUFFICES ASSUME i = u.preferred, u.defrt # <<>> PROVE FALSE
        OBVIOUS
      <3>1. u = s
        BY <2>3
      <3>2. s.ds6[i] # Null /\ i # 0
        BY <3>1 DEF Good, RoutedBy
      <3>3. s.parents[i] # Null
        BY <3>1, <3>2 DEF Good, Held
      <3>4. l \in Routers /\ s.lladdr[i] = l
        BY <2>3, <3>1, <3>3 DEF Good, Core, Parented
      <3>5. l = ip
        BY <3>4, RplAssumption DEF Nodes
      <3>6. s.ds6[i].ip = ip
        BY <3>2, <3>4, <3>5, RouterSlot DEF Good, Core
      <3> QED BY <3>2, <3>6, NeighbourFound DEF Good, Core, Indices
    <2>7. PICK w : w = WithNeighbour(u, i, entry)
      OBVIOUS
    <2>8. Good(w)
      BY <2>3, <2>4, <2>5, <2>6, <2>7, NeighbourKept
    <2>9. u \in NodeState
      BY <2>3 DEF Good, Core, Tables, Typed
    <2>10. ButNeighbours(u, w) /\ w.ds6[i] = entry
      BY <2>4, <2>7, <2>9, NeighbourExcept
    <2>11. t = rpl_ipv6_neighbor_callback(w, i)
      BY <1>5, <1>7, <2>1, <2>2, <2>7 DEF WithNeighbour
    <2>12. Good(t) /\ SameSlots(w, t)
      BY <2>4, <2>8, <2>10, <2>11, NeighbourTold
    <2>13. Kept(s, w)
      BY <1>3, <2>1, <2>10 DEF Kept, ButNeighbours
    <2> QED BY <2>12, <2>13, SlotsKept
  <1> QED BY <1>6, <1>7

LEMMA SenderHeard ==
  ASSUME Routers \cap Hosts = {}, NEW s, Good(s), NEW x \in Nodes, NEW t, t = Heard(s, x)
  PROVE  Good(t) /\ Kept(s, t)
  <1>1. CASE uip_ds6_nbr_lookup(s, x) # 0
    BY <1>1 DEF Heard, Kept
  <1>2. CASE uip_ds6_nbr_lookup(s, x) = 0
    <2>1. t = uip_ds6_nbr_add(s, x, x, "RESOLVED")
      BY <1>2 DEF Heard
    <2> QED BY <1>2, <2>1, NeighbourAdded
  <1> QED BY <1>1, <1>2

LEMMA PacketSent ==
  ASSUME Routers \cap Hosts = {}, NEW s, Good(s), NEW x,
         x \in Hosts \/ uip_ds6_nbr_lookup(s, x) # 0,
         NEW t, t = SendTo(s, x)
  PROVE  Good(t) /\ Kept(s, t)
  <1>1. CASE uip_ds6_nbr_lookup(s, x) # 0
    BY <1>1 DEF SendTo, Kept
  <1>2. CASE uip_ds6_nbr_lookup(s, x) = 0
    <2>1. t = uip_ds6_nbr_add(s, x, Null, "INCOMPLETE")
      BY <1>2 DEF SendTo
    <2> QED BY <1>2, <2>1, NeighbourAdded DEF Nodes
  <1> QED BY <1>1, <1>2

-----------------------------------------------------------------------------
(* DIOs *)

Measured(s, n, m) == [s EXCEPT !.ds6[n].link_metric = m]

LEMMA NeighbourMeasured ==
  ASSUME NEW s \in NodeState, NEW n \in Indices, s.ds6[n] # Null, NEW m \in Nat
  PROVE  \E e \in Neighbour : /\ Measured(s, n, m) = WithNeighbour(s, n, e)
                              /\ e # Null
                              /\ e.ip = s.ds6[n].ip /\ e.state = s.ds6[n].state
  <1>1. s.ds6 \in [Indices -> Neighbour \cup {Null}]
    BY Fields
  <1>2. PICK q \in Neighbour : q = s.ds6[n]
    BY <1>1
  <1>3. PICK e : e = [q EXCEPT !.link_metric = m]
    OBVIOUS
  <1>4. e \in Neighbour /\ e.ip = q.ip /\ e.state = q.state
    BY <1>2, <1>3 DEF Neighbour
  <1>5. e # Null
    BY <1>4, RplAssumption
  <1>6. [s.ds6[n] EXCEPT !.link_metric = m] = e
    BY <1>2, <1>3
  <1>7. Measured(s, n, m) = [s EXCEPT !.ds6[n] = e]
    BY <1>6 DEF Measured
  <1>8. Measured(s, n, m) = WithNeighbour(s, n, e)
    BY <1>7 DEF WithNeighbour
  <1> QED BY <1>2, <1>4, <1>5, <1>8

(* The transmissions to a neighbour change nothing that the invariant tells *)
LEMMA MeasuredGood ==
  ASSUME NEW s, Good(s), NEW n \in Indices, s.ds6[n] # Null, NEW m \in Nat,
         NEW t, t = Measured(s, n, m)
  PROVE  Good(t) /\ t.lladdr = s.lladdr
  <1>1. s \in NodeState
    BY DEF Good, Core, Tables, Typed
  <1>2. PICK e \in Neighbour : /\ t = WithNeighbour(s, n, e)
                               /\ e # Null
                               /\ e.ip = s.ds6[n].ip /\ e.state = s.ds6[n].state
    BY <1>1, NeighbourMeasured
  <1>3. Fits(s, n, e)
    BY <1>2 DEF Fits, Good, Core, Tables, Allotted, Addressed
  <1>4. Good(t)
    BY <1>2, <1>3, NeighbourKept
  <1>5. t.lladdr = s.lladdr
    BY <1>1, <1>2, NeighbourExcept DEF ButNeighbours
  <1> QED BY <1>4, <1>5

(* t is s but for the parent p and the link metrics. *)
ButParent(s, t, p) ==
    /\ t \in NodeState
    /\ t.keys = s.keys /\ t.lladdr = s.lladdr /\ t.lists = s.lists
    /\ t.locked = s.locked /\ t.routes = s.routes
    /\ t.joined = s.joined /\ t.preferred = s.preferred
    /\ t.rank = s.rank /\ t.min_rank = s.min_rank
    /\ t.defrt = s.defrt /\ t.def_route = s.def_route
    /\ t.parents[p] # Null
    /\ \A i \in Indices : i # p => t.parents[i] = s.parents[i]
    /\ \A i \in Indices : s.ds6[i] # Null => t.ds6[i] # Null /\ t.ds6[i].ip = s.ds6[i].ip

(* A neighbour that is known becomes a parent. *)
LEMMA ParentAdded ==
  ASSUME NEW s, Core(s), NEW x \in Routers, uip_ds6_nbr_lookup(s, x) # 0,
         NEW rank \in Ranks, NEW a, a = rpl_add_parent(s, x, rank),
         NEW p, p = a.parent, NEW t, t = a.state
  PROVE  /\ Core(t)
         /\ ButParent(s, t, p)
         /\ p \in Indices
         /\ p = uip_ds6_nbr_lookup(s, x)
         /\ s.ds6[p] # Null /\ s.ds6[p].ip = x
  <1>1. Tables(s) /\ s \in NodeState
    BY DEF Core, Tables, Typed
  <1>2. PICK n : n = uip_ds6_nbr_lookup(s, x)
    OBVIOUS
  <1>3. /\ n \in Indices
        /\ s.ds6[n] # Null /\ s.ds6[n].ip = x
        /\ s.lladdr[n] = x
        /\ index_from_lladdr(s, x) = n
    BY <1>1, <1>2, RouterKnown
  <1>4. n # 0
    BY <1>2
  <1>5. rpl_get_nbr(s, n) = n
    BY <1>1, <1>3, <1>4, RouterSlot DEF Used
  <1>6. PICK r : r = [rank |-> rank, updated |-> FALSE]
    OBVIOUS
  <1>7. r \in Parent /\ r # Null
    <2>1. r \in Parent
      BY <1>6 DEF Parent
    <2> QED BY <2>1, RplAssumption
  <1>8. PICK added : added = WithParent(s, n, r)
    OBVIOUS
  <1>9. /\ p = n
        /\ t = IF s.ds6[n].link_metric = 0
               THEN Measured(added, n, INIT_LINK_METRIC) ELSE added
    BY <1>2, <1>3, <1>4, <1>5, <1>6, <1>8 DEF rpl_add_parent, WithParent, Measured
  <1>10. Core(added)
    <2>1. MayBeParent(s, n, r)
      BY <1>3 DEF MayBeParent
    <2> QED BY <1>3, <1>7, <1>8, <2>1, ParentCore
  <1>11. /\ SameSlots(s, added)
         /\ added.parents[n] = r
         /\ \A i \in Indices : i # n => added.parents[i] = s.parents[i]
         /\ added.defrt = s.defrt
         /\ added.def_route = s.def_route
         /\ added.locked = s.locked
         /\ added.preferred = s.preferred
         /\ added.rank = s.rank
         /\ added.min_rank = s.min_rank
    BY <1>1, <1>3, <1>7, <1>8, ParentIsSet
  <1>12. ButParent(s, added, n)
    BY <1>7, <1>11 DEF SameSlots, ButParent
  <1>13. CASE s.ds6[n].link_metric # 0
    BY <1>2, <1>3, <1>9, <1>10, <1>12, <1>13
  <1>14. CASE s.ds6[n].link_metric = 0
    <2>1. added \in NodeState /\ added.ds6 = s.ds6 /\ INIT_LINK_METRIC \in Nat
      BY <1>11, RplAssumption DEF SameSlots
    <2>2. t = Measured(added, n, INIT_LINK_METRIC)
      BY <1>9, <1>14
    <2>3. PICK e \in Neighbour : /\ t = WithNeighbour(added, n, e)
                                 /\ e # Null
                                 /\ e.ip = added.ds6[n].ip /\ e.state = added.ds6[n].state
      BY <1>3, <2>1, <2>2, NeighbourMeasured
    <2>4. Fits(added, n, e)
      BY <1>3, <1>10, <2>1, <2>3 DEF Fits, Core, Tables, Allotted, Addressed
    <2>5. Core(t)
      BY <1>3, <1>10, <2>3, <2>4, NeighbourCore
    <2>6. /\ ButNeighbours(added, t)
          /\ t.ds6[n] = e
          /\ \A i \in Indices : i # n => t.ds6[i] = added.ds6[i]
      BY <1>3, <2>1, <2>3, NeighbourExcept
    <2>7. ButParent(s, t, n)
      BY <1>3, <1>12, <2>1, <2>3, <2>6 DEF ButNeighbours, ButParent
    <2> QED BY <1>2, <1>3, <1>9, <2>5, <2>7
  <1> QED BY <1>13, <1>14

LEMMA ParentAddedGood ==
  ASSUME NEW s, Good(s), s.joined, NEW p \in Indices, NEW t, Core(t), ButParent(s, t, p)
  PROVE  Good(t)
  <1>1. s \in NodeState
    BY DEF Good, Core, Tables, Typed
  <1>2. Joined(t)
    BY DEF Joined, ButParent
  <1>3. s.preferred \in {0} \cup Indices
    BY <1>1, Fields
  <1>4. Held(t)
    BY <1>3 DEF Good, Held, ButParent
  <1>5. Pointed(t)
    BY DEF Good, Pointed, ButParent
  <1>6. RoutedBy(t, t.preferred)
    BY <1>3 DEF Good, RoutedBy, ButParent
  <1> QED BY <1>2, <1>4, <1>5, <1>6 DEF Good

WithJoined(s) == [s EXCEPT !.joined = TRUE]

LEMMA JoinedExcept ==
  ASSUME NEW s \in NodeState, NEW t, t = WithJoined(s)
  PROVE  /\ t \in NodeState
         /\ t.keys = s.keys /\ t.lladdr = s.lladdr /\ t.ds6 = s.ds6 /\ t.lists = s.lists
         /\ t.parents = s.parents /\ t.locked = s.locked /\ t.routes = s.routes
         /\ t.joined
         /\ t.preferred = s.preferred
         /\ t.defrt = s.defrt /\ t.def_route = s.def_route
  BY DEF NodeState, WithJoined

(* The sender of the first DIO becomes the preferred parent, and the        *)
(* default router.                                                          *)
LEMMA InstanceJoined ==
  ASSUME NEW s, Good(s), ~s.joined, NEW x \in Routers, uip_ds6_nbr_lookup(s, x) # 0,
         NEW rank \in Ranks, NEW t, t = rpl_join_instance(s, x, rank)
  PROVE  Good(t) /\ t.lladdr = s.lladdr
  <1>1. PICK a : a = rpl_add_parent(s, x, rank)
    OBVIOUS
  <1>2. PICK p, b : p = a.parent /\ b = a.state
    OBVIOUS
  <1>3. /\ Core(b)
        /\ ButParent(s, b, p)
        /\ p \in Indices
        /\ s.ds6[p] # Null /\ s.ds6[p].ip = x
    BY <1>1, <1>2, ParentAdded DEF Good
  <1>4. b \in NodeState /\ s.preferred = 0 /\ s.defrt = <<>> /\ p # 0
    BY <1>3 DEF Good, Joined, RoutedBy, ButParent, Indices
  <1>5. PICK c : c = WithJoined(b)
    OBVIOUS
  <1>6. /\ c \in NodeState
        /\ c.keys = b.keys /\ c.lladdr = b.lladdr /\ c.ds6 = b.ds6 /\ c.lists = b.lists
        /\ c.parents = b.parents /\ c.locked = b.locked /\ c.routes = b.routes
        /\ c.joined
        /\ c.preferred = b.preferred
        /\ c.defrt = b.defrt /\ c.def_route = b.def_route
    BY <1>4, <1>5, JoinedExcept
  <1>7. Sound(c)
    <2>1. Typed(c) /\ Allotted(c) /\ Addressed(c) /\ KnownOnce(c)
      BY <1>3, <1>6 DEF Core, Tables, Typed, Allotted, Addressed, KnownOnce
    <2>2. Mirrored(c) /\ Parented(c) /\ Leading(c)
      BY <1>3, <1>6 DEF Core, Mirrored, Parented, Leading
    <2>3. Joined(c) /\ Held(c) /\ Pointed(c)
      BY <1>3, <1>4, <1>6 DEF Joined, Held, Pointed, ButParent
    <2> QED BY <2>1, <2>2, <2>3 DEF Sound, Core, Tables
  <1>8. PICK d : d = rpl_set_preferred_parent(c, p)
    OBVIOUS
  <1>9. /\ Sound(d)
        /\ SameSlots(c, d)
        /\ d.parents = c.parents /\ d.preferred = p
    <2>1. p \in {0} \cup Indices /\ c.parents[p] # Null
      BY <1>3, <1>6 DEF ButParent
    <2> QED BY <1>7, <1>8, <2>1, PreferredSound
  <1>10. PICK own \in Ranks : own = calculate_rank(d, d.preferred)
    <2>1. p \in {0} \cup Indices /\ d.parents[p] # Null
      BY <1>3, <1>6, <1>9 DEF ButParent
    <2>2. calculate_rank(d, p) \in Ranks
      BY <1>9, <2>1, RankWorkedOut DEF Sound, Core
    <2> QED BY <1>9, <2>2
  <1>11. PICK e : e = WithRanks(d, own, own)
    OBVIOUS
  <1>12. /\ Sound(e)
         /\ SameSlots(d, e)
         /\ e.parents = d.parents /\ e.preferred = d.preferred
    BY <1>9, <1>11, RanksSound
  <1>13. t = rpl_set_default_route(e, x)
    BY <1>1, <1>2, <1>5, <1>8, <1>10, <1>11 DEF rpl_join_instance, WithJoined, WithRanks
  <1>14. e \in NodeState /\ Pointed(e)
    BY <1>12 DEF Sound, SameSlots
  <1>15. x \in Nodes \cup {Null} /\ x # Null
    BY RplAssumption DEF Nodes
  <1>16. /\ ButDefault(e, t)
         /\ t.defrt[1].ip = x
         /\ t.def_route = 1
         /\ Pointed(t)
    BY <1>13, <1>14, <1>15, DefaultSet
  <1>17. /\ SameSlots(e, t)
         /\ t.parents = e.parents /\ t.locked = e.locked /\ t.preferred = e.preferred
    BY <1>16, DefaultSlots
  <1>18. Core(t)
    BY <1>12, <1>17, SlotsKeepCore DEF Sound
  <1>19. Joined(t) /\ Held(t)
    BY <1>12, <1>17 DEF Sound, Joined, Held, SameSlots
  <1>20. SameSlots(c, t)
    BY <1>9, <1>12, <1>17, SameSlotsTwice
  <1>21. t.ds6 = b.ds6 /\ t.lladdr = s.lladdr
    BY <1>3, <1>6, <1>20 DEF SameSlots, ButParent
  <1>22. RoutedBy(t, t.preferred)
    BY <1>3, <1>4, <1>9, <1>12, <1>16, <1>17, <1>21 DEF RoutedBy, ButParent
  <1> QED BY <1>16, <1>18, <1>19, <1>21, <1>22 DEF Good

LEMMA SlotsFind ==
  ASSUME NEW s, NEW t, SameSlots(s, t), NEW x
  PROVE  uip_ds6_nbr_lookup(t, x) = uip_ds6_nbr_lookup(s, x)
  BY DEF uip_ds6_nbr_lookup, FirstKey, SameSlots

LEMMA LowestForgotten ==
  ASSUME NEW s, Good(s), NEW m \in Ranks, NEW t, t = [s EXCEPT !.min_rank = m]
  PROVE  Good(t) /\ SameSlots(s, t)
  <1>1. s \in NodeState /\ Sound(s) /\ RoutedBy(s, s.preferred)
    BY DEF Good, Sound, Core, Tables, Typed
  <1>2. PICK r \in Ranks : r = s.rank
    BY <1>1, Fields
  <1>3. t = WithRanks(s, r, m)
    BY <1>1, <1>2 DEF NodeState, WithRanks
  <1>4. /\ Sound(t)
        /\ SameSlots(s, t)
        /\ t.preferred = s.preferred
        /\ RoutedBy(t, s.preferred)
    BY <1>1, <1>3, RanksSound
  <1> QED BY <1>4 DEF Good, Sound

(* The node joins the DAG again, in its new version. *)
LEMMA GloballyRepaired ==
  ASSUME NEW s, Good(s), s.joined, NEW x \in Routers, uip_ds6_nbr_lookup(s, x) # 0,
         NEW rank \in Ranks, NEW t, t = global_repair(s, x, rank)
  PROVE  Good(t) /\ t.lladdr = s.lladdr
  <1>1. PICK b : b = remove_parents(s)
    OBVIOUS
  <1>2. Good(b) /\ SameSlots(s, b)
    BY <1>1, ParentsRemoved
  <1>4. INFINITE_RANK \in Ranks
    BY RplAssumption DEF Ranks
  <1>5. PICK c : c = [b EXCEPT !.min_rank = INFINITE_RANK]
    OBVIOUS
  <1>7. Good(c) /\ SameSlots(b, c)
    BY <1>2, <1>4, <1>5, LowestForgotten
  <1>8. SameSlots(s, c)
    BY <1>2, <1>7, SameSlotsTwice
  <1>9. uip_ds6_nbr_lookup(c, x) # 0 /\ c.joined
    BY <1>8, SlotsFind DEF SameSlots
  <1>10. PICK a : a = rpl_add_parent(c, x, rank)
    OBVIOUS
  <1>11. PICK p, d : p = a.parent /\ d = a.state
    OBVIOUS
  <1>12. Core(d) /\ ButParent(c, d, p) /\ p \in Indices
    BY <1>7, <1>9, <1>10, <1>11, ParentAdded DEF Good
  <1>13. Good(d)
    BY <1>7, <1>9, <1>12, ParentAddedGood
  <1>14. PICK own \in Ranks : own = calculate_rank(d, p)
    BY <1>12, RankWorkedOut DEF Core, ButParent
  <1>15. PICK e : e = WithRanks(d, own, own)
    OBVIOUS
  <1>16. Good(e) /\ SameSlots(d, e)
    BY <1>13, <1>14, <1>15, RanksSound DEF Good, Sound
  <1>17. t = rpl_process_parent_event(e, p)
    BY <1>1, <1>5, <1>10, <1>11, <1>14, <1>15 DEF global_repair, WithRanks
  <1>18. Good(t) /\ SameSlots(e, t)
    BY <1>16, <1>17, ParentProcessed
  <1> QED BY <1>8, <1>12, <1>16, <1>18 DEF SameSlots, ButParent

(* The preferred parent speaks again: its default route is there then. *)
LEMMA DefaultRefreshed ==
  ASSUME NEW s, Good(s), NEW p \in Indices, s.preferred = p,
         s.ds6[p] # Null, NEW x \in Nodes, x = s.ds6[p].ip,
         NEW t, t = uip_ds6_defrt_add(s, x)
  PROVE  Good(t) /\ SameSlots(s, t)
  <1>1. s \in NodeState /\ p # 0
    BY DEF Good, Core, Tables, Typed, Indices
  <1>2. CASE s.defrt = <<>>
    <2>1. /\ ButDefault(s, t)
          /\ t.def_route = s.def_route
          /\ Len(t.defrt) = 1 /\ t.defrt[1].block = 1 /\ t.defrt[1].ip = x
      BY <1>1, <1>2, DefaultAdded
    <2>2. /\ SameSlots(s, t)
          /\ t.parents = s.parents /\ t.locked = s.locked /\ t.preferred = s.preferred
      BY <2>1, DefaultSlots
    <2>3. Core(t)
      BY <2>2, SlotsKeepCore DEF Good
    <2>4. Joined(t) /\ Held(t)
      BY <2>2 DEF Good, Joined, Held, SameSlots
    <2>5. t.def_route = 1
      BY <1>1, <2>1 DEF Good, RoutedBy
    <2>6. Pointed(t) /\ RoutedBy(t, t.preferred)
      BY <1>1, <2>1, <2>2, <2>5 DEF Pointed, RoutedBy, SameSlots
    <2> QED BY <2>2, <2>3, <2>4, <2>6 DEF Good
  <1>3. CASE s.defrt # <<>>
    <2>1. Len(s.defrt) = 1 /\ s.defrt[1].ip = x /\ s.defrt[1].block = 1
      BY <1>3 DEF Good, Pointed, RoutedBy
    <2>2. uip_ds6_defrt_lookup(s, x) = 1
      BY <1>1, <2>1, DefaultFound
    <2>3. t = s
      BY <2>2 DEF uip_ds6_defrt_add
    <2> QED BY <1>1, <2>3 DEF SameSlots
  <1> QED BY <1>2, <1>3

(* The part of rpl_process_dio that follows the lookup of the parent *)
Refreshed(t, p, x) == IF t.preferred = p THEN uip_ds6_defrt_add(t, x) ELSE t

LEMMA DioProcessedFrom ==
  ASSUME NEW s, Good(s), NEW p \in Indices, s.ds6[p] # Null,
         NEW x \in Nodes, x = s.ds6[p].ip,
         NEW t, t = Refreshed(rpl_process_parent_event(s, p), p, x)
  PROVE  Good(t) /\ SameSlots(s, t)
  <1>1. PICK a : a = rpl_process_parent_event(s, p)
    OBVIOUS
  <1>2. Good(a) /\ SameSlots(s, a)
    BY <1>1, ParentProcessed
  <1>3. CASE a.preferred # p
    <2>1. t = a
      BY <1>1, <1>3 DEF Refreshed
    <2> QED BY <1>2, <2>1
  <1>4. CASE a.preferred = p
    <2>1. t = uip_ds6_defrt_add(a, x)
      BY <1>1, <1>4 DEF Refreshed
    <2>2. a.ds6[p] # Null /\ x = a.ds6[p].ip
      BY <1>2 DEF SameSlots
    <2>3. Good(t) /\ SameSlots(a, t)
      BY <1>2, <1>4, <2>1, <2>2, DefaultRefreshed
    <2> QED BY <1>2, <2>3, SameSlotsTwice
  <1> QED BY <1>3, <1>4

LEMMA DioTaken ==
  ASSUME NEW s, Good(s), s.joined, NEW x \in Routers, uip_ds6_nbr_lookup(s, x) # 0,
         NEW rank \in Ranks, NEW t, t = rpl_process_dio(s, x, rank)
  PROVE  Good(t) /\ t.lladdr = s.lladdr
  <1>1. s \in NodeState /\ Tables(s)
    BY DEF Good, Core, Tables, Typed
  <1>2. PICK n : n = uip_ds6_nbr_lookup(s, x)
    OBVIOUS
  <1>3. /\ n \in Indices
        /\ s.ds6[n] # Null /\ s.ds6[n].ip = x
        /\ s.lladdr[n] = x
        /\ rpl_find_parent(s, x) = Used(s.parents, n)
    BY <1>1, <1>2, RouterKnown
  <1>4. x \in Nodes /\ n # 0
    BY <1>2 DEF Nodes
  <1>5. CASE s.parents[n] = Null
    <2>1. rpl_find_parent(s, x) = 0
      BY <1>3, <1>5 DEF Used
    <2>2. PICK a : a = rpl_add_parent(s, x, rank)
      OBVIOUS
    <2>3. PICK p, b : p = a.parent /\ b = a.state
      OBVIOUS
    <2>4. /\ Core(b)
          /\ ButParent(s, b, p)
          /\ p \in Indices
          /\ s.ds6[p] # Null /\ s.ds6[p].ip = x
      BY <2>2, <2>3, ParentAdded DEF Good
    <2>5. Good(b)
      BY <2>4, ParentAddedGood
    <2>6. b.ds6[p] # Null /\ x = b.ds6[p].ip
      BY <2>4 DEF ButParent
    <2>7. t = Refreshed(rpl_process_parent_event(b, p), p, x)
      BY <2>1, <2>2, <2>3 DEF rpl_process_dio, Refreshed
    <2>8. Good(t) /\ SameSlots(b, t)
      BY <1>4, <2>4, <2>5, <2>6, <2>7, DioProcessedFrom
    <2> QED BY <2>4, <2>8 DEF SameSlots, ButParent
  <1>6. CASE s.parents[n] # Null
    <2>1. rpl_find_parent(s, x) = n
      BY <1>3, <1>4, <1>6 DEF Used
    <2>2. PICK b : b = [s EXCEPT !.parents[n].rank = rank]
      OBVIOUS
    <2>3. PICK r : r = [rank |-> rank, updated |-> s.parents[n].updated]
      OBVIOUS
    <2>4. b = WithParent(s, n, r)
      BY <1>1, <1>3, <1>6, <2>2, <2>3, ParentFields
    <2>5. r \in Parent
      <3>1. s.parents[n].updated \in BOOLEAN
        BY <1>1, <1>3, <1>6, ParentFields
      <3> QED BY <2>3, <3>1 DEF Parent
    <2>6. MayBeParent(s, n, r)
      BY <1>3 DEF MayBeParent
    <2>7. Good(b) /\ SameSlots(s, b)
      BY <1>3, <2>4, <2>5, <2>6, ParentKept
    <2>8. b.ds6[n] # Null /\ x = b.ds6[n].ip
      BY <1>3, <2>7 DEF SameSlots
    <2>9. t = Refreshed(rpl_process_parent_event(b, n), n, x)
      BY <1>4, <2>1, <2>2 DEF rpl_process_dio, Refreshed
    <2>10. Good(t) /\ SameSlots(b, t)
      BY <1>3, <1>4, <2>7, <2>8, <2>9, DioProcessedFrom
    <2> QED BY <2>7, <2>10 DEF SameSlots
  <1> QED BY <1>5, <1>6

LEMMA DioGood ==
  ASSUME NEW s, Good(s), NEW x \in Routers, NEW rank \in Ranks, NEW version,
         NEW t, t = DioProcessed(s, x, rank, version)
  PROVE  Good(t) /\ t.lladdr = s.lladdr
  <1>1. \/ t = s
        \/ /\ uip_ds6_nbr_lookup(s, x) # 0
           /\ ~s.joined
           /\ t = rpl_join_instance(s, x, rank)
        \/ /\ uip_ds6_nbr_lookup(s, x) # 0
           /\ s.joined
           /\ t \in {global_repair(s, x, rank), rpl_process_dio(s, x, rank)}
    BY DEF DioProcessed
  <1> QED BY <1>1, InstanceJoined, GloballyRepaired, DioTaken

-----------------------------------------------------------------------------
(* DAOs, packets and neighbour discovery *)

WithLocked(s, L) == [s EXCEPT !.locked = L]

LEMMA LockedExcept ==
  ASSUME NEW s \in NodeState, NEW L \in SUBSET Indices, NEW t, t = WithLocked(s, L)
  PROVE  /\ SameSlots(s, t)
         /\ t.parents = s.parents /\ t.preferred = s.preferred
         /\ t.defrt = s.defrt /\ t.def_route = s.def_route
         /\ t.locked = L
  BY DEF NodeState, SameSlots, WithLocked

LEMMA LockedGood ==
  ASSUME NEW s, Good(s), NEW p \in {0} \cup Indices,
         NEW t, t = [s EXCEPT !.locked = @ \cup ({p} \ {0})]
  PROVE  Good(t) /\ SameSlots(s, t)
  <1>1. s \in NodeState
    BY DEF Good, Core, Tables, Typed
  <1>2. PICK L : L = s.locked \cup ({p} \ {0})
    OBVIOUS
  <1>3. L \in SUBSET Indices /\ s.locked \subseteq L
    <2>1. s.locked \in SUBSET Indices
      BY <1>1, Fields
    <2> QED BY <1>2, <2>1
  <1>4. t = WithLocked(s, L)
    BY <1>2 DEF WithLocked
  <1>5. /\ SameSlots(s, t)
        /\ t.parents = s.parents /\ t.preferred = s.preferred
        /\ t.defrt = s.defrt /\ t.def_route = s.def_route
        /\ t.locked = L
    BY <1>1, <1>3, <1>4, LockedExcept
  <1>6. Core(t)
    BY <1>5, SlotsKeepCore DEF Good
  <1> QED BY <1>3, <1>5, <1>6 DEF Good, Joined, Held, Pointed, RoutedBy, SameSlots

LEMMA RouteLooked ==
  ASSUME NEW s, Good(s), NEW d, NEW t, t = uip_ds6_route_lookup(s, d)
  PROVE  /\ Good(t)
         /\ ButRoutes(s, t)
         /\ HasRoute(s, d) => t.routes[1] \in Range(t.routes)
  <1>1. Routing(s)
    BY GoodRoutes DEF Good
  <1>2. /\ ButRoutes(s, t)
        /\ Routing(t)
        /\ Range(t.routes) = Range(s.routes)
        /\ HasRoute(s, d) => t.routes[1] \in Range(t.routes)
    BY <1>1, RouteFound
  <1>3. Good(t)
    BY <1>2, RoutesKeepGood
  <1> QED BY <1>2, <1>3

LEMMA RouteGone ==
  ASSUME NEW s, Good(s), NEW r \in Range(s.routes), NEW t, t = uip_ds6_route_rm(s, r)
  PROVE  Good(t) /\ ButRoutes(s, t)
  <1>1. Routing(s)
    BY GoodRoutes DEF Good
  <1>2. /\ ButRoutes(s, t)
        /\ Routing(t)
        /\ Range(t.routes) = Range(s.routes) \ {r}
    BY <1>1, RouteRemoved
  <1>3. Good(t)
    BY <1>2, RoutesKeepGood
  <1> QED BY <1>2, <1>3

LEMMA RouteGained ==
  ASSUME NEW s, Good(s), NEW d \in Targets, NEW x \in Routers,
         uip_ds6_nbr_lookup(s, x) # 0, NEW t, t = uip_ds6_route_add(s, d, x)
  PROVE  Good(t) /\ ButRoutes(s, t)
  <1>1. Routing(s) /\ Tables(s)
    BY GoodRoutes DEF Good, Core
  <1>2. /\ ButRoutes(s, t)
        /\ Routing(t)
        /\ \A r \in Range(t.routes) :
              r \in Range(s.routes) \/ (r.via = x /\ s.lladdr[r.index] = x)
    BY <1>1, RouteTaken
  <1>3. \A r \in Range(t.routes) :
           r \in Range(s.routes) \/ (r.via \in Routers /\ s.lladdr[r.index] = r.via)
    BY <1>2
  <1>4. Good(t)
    BY <1>2, <1>3, RoutesKeepGood
  <1> QED BY <1>2, <1>4

LEMMA RouterRemoved ==
  ASSUME NEW s, Good(s), NEW b, NEW t, t = uip_ds6_defrt_rm(s, b)
  PROVE  /\ Good(t)
         /\ SameSlots(s, t)
         /\ t.preferred = s.preferred
         /\ t.defrt = <<>> \/ (t.defrt = s.defrt /\ b # 1)
  <1>1. s \in NodeState /\ Pointed(s)
    BY DEF Good, Core, Tables, Typed
  <1>2. /\ ButDefault(s, t)
        /\ t.def_route = s.def_route
        /\ t.defrt = <<>> \/ (t.defrt = s.defrt /\ b # 1)
    BY <1>1, DefaultRemoved
  <1>3. /\ SameSlots(s, t)
        /\ t.parents = s.parents /\ t.locked = s.locked /\ t.preferred = s.preferred
    BY <1>2, DefaultSlots
  <1>4. Core(t)
    BY <1>3, SlotsKeepCore DEF Good
  <1>5. Joined(t) /\ Held(t)
    BY <1>3 DEF Good, Joined, Held, SameSlots
  <1>6. Pointed(t) /\ RoutedBy(t, t.preferred)
    BY <1>2, <1>3 DEF Good, Pointed, RoutedBy, SameSlots
  <1> QED BY <1>2, <1>3, <1>4, <1>5, <1>6 DEF Good

(* A neighbour whose solicitations stay unanswered goes; its default router *)
(* goes before.                                                             *)
LEMMA NeighbourExpired ==
  ASSUME NEW s, Good(s), NEW n \in Indices, s.ds6[n] # Null,
         NEW b, b = IF s.ds6[n].state = "INCOMPLETE" THEN 0
                    ELSE uip_ds6_defrt_lookup(s, s.ds6[n].ip),
         NEW t, t = uip_ds6_nbr_rm(uip_ds6_defrt_rm(s, b), n)
  PROVE  Good(t) /\ t.lladdr = s.lladdr
  <1>1. PICK a : a = uip_ds6_defrt_rm(s, b)
    OBVIOUS
  <1>2. /\ Good(a)
        /\ SameSlots(s, a)
        /\ a.preferred = s.preferred
        /\ a.defrt = <<>> \/ (a.defrt = s.defrt /\ b # 1)
    BY <1>1, RouterRemoved
  <1>3. n # a.preferred \/ a.defrt = <<>>
    <2> SUFFICES ASSUME n = a.preferred, a.defrt # <<>> PROVE FALSE
      OBVIOUS
    <2>1. s \in NodeState /\ n = s.preferred /\ s.defrt # <<>> /\ n # 0
      BY <1>2 DEF Good, Core, Tables, Typed, Indices
    <2>2. s.parents[n] # Null
      BY <2>1 DEF Good, Held
    <2>3. s.lladdr[n] \in Routers
      BY <2>2 DEF Good, Core, Parented
    <2>4. s.ds6[n].ip = s.lladdr[n]
      BY <2>3, RouterSlot DEF Good, Core
    <2>5. s.ds6[n].state = "RESOLVED"
      BY <2>3, <2>4 DEF Good, Core, Tables, Addressed
    <2>6. Len(s.defrt) = 1 /\ s.defrt[1].ip = s.ds6[n].ip /\ s.defrt[1].block = 1
      BY <2>1 DEF Good, Pointed, RoutedBy
    <2>7. uip_ds6_defrt_lookup(s, s.ds6[n].ip) = 1
      BY <2>1, <2>6, DefaultFound
    <2>8. b = 1
      BY <2>5, <2>7
    <2> QED BY <1>2, <2>8
  <1>4. a.ds6[n] # Null
    BY <1>2 DEF SameSlots
  <1>5. t = uip_ds6_nbr_rm(a, n)
    BY <1>1
  <1>6. Good(t) /\ t.lladdr = a.lladdr
    BY <1>2, <1>3, <1>4, <1>5, NeighbourRemoved
  <1> QED BY <1>2, <1>6 DEF SameSlots

(* A parent that shows a loop has an infinite rank, and is flagged.         *)
LEMMA LoopShown ==
  ASSUME NEW s, Good(s), NEW p \in Indices, s.parents[p] # Null,
         NEW t, t = Flagged(s, p, INFINITE_RANK)
  PROVE  Good(t) /\ SameSlots(s, t)
  <1>1. s \in NodeState
    BY DEF Good, Core, Tables, Typed
  <1>2. PICK r : r = [rank |-> INFINITE_RANK, updated |-> TRUE]
    OBVIOUS
  <1>3. r \in Parent
    <2>1. INFINITE_RANK \in Ranks
      BY RplAssumption DEF Ranks
    <2> QED BY <1>2, <2>1 DEF Parent
  <1>4. t = WithParent(s, p, r)
    BY <1>1, <1>2, ParentFields
  <1>5. MayBeParent(s, p, r)
    BY <1>2 DEF MayBeParent
  <1> QED BY <1>3, <1>4, <1>5, ParentKept

Noted(s, p) == [s EXCEPT !.parents[p].updated = TRUE]

LEMMA ParentNoted ==
  ASSUME NEW s, Good(s), NEW p \in Indices, s.parents[p] # Null, NEW t, t = Noted(s, p)
  PROVE  Good(t) /\ SameSlots(s, t)
  <1>1. s \in NodeState
    BY DEF Good, Core, Tables, Typed
  <1>2. PICK r : r = [rank |-> s.parents[p].rank, updated |-> TRUE]
    OBVIOUS
  <1>3. r \in Parent
    <2>1. s.parents[p].rank \in Ranks
      BY <1>1, ParentFields
    <2> QED BY <1>2, <2>1 DEF Parent
  <1>4. t = WithParent(s, p, r)
    <2>1. PICK u : u = TRUE
      OBVIOUS
    <2>2. t = [s EXCEPT !.parents[p].updated = u]
      BY <2>1 DEF Noted
    <2>3. r = [rank |-> s.parents[p].rank, updated |-> u]
      BY <1>2, <2>1
    <2> QED BY <1>1, <2>2, <2>3, ParentFields
  <1>5. MayBeParent(s, p, r)
    BY <1>2 DEF MayBeParent
  <1> QED BY <1>3, <1>4, <1>5, ParentKept

LEMMA ParentFound ==
  ASSUME NEW s, Tables(s), NEW x
  PROVE  \/ rpl_find_parent(s, x) = 0
         \/ /\ rpl_find_parent(s, x) \in Indices
            /\ s.parents[rpl_find_parent(s, x)] # Null
  <1>1. PICK l : rpl_find_parent(s, x) = Used(s.parents, index_from_lladdr(s, l))
    BY DEF rpl_find_parent
  <1>2. index_from_lladdr(s, l) = 0 \/ index_from_lladdr(s, l) \in Indices
    BY SlotFound
  <1> QED BY <1>1, <1>2 DEF Used

LEMMA NeighbourOf ==
  ASSUME NEW s, Tables(s), NEW l
  PROVE  \/ uip_ds6_nbr_ll_lookup(s, l) = 0
         \/ /\ uip_ds6_nbr_ll_lookup(s, l) \in Indices
            /\ s.ds6[uip_ds6_nbr_ll_lookup(s, l)] # Null
  <1>1. index_from_lladdr(s, l) = 0 \/ index_from_lladdr(s, l) \in Indices
    BY SlotFound
  <1> QED BY <1>1 DEF Used, uip_ds6_nbr_ll_lookup

LEMMA NexthopKnown ==
  ASSUME NEW s, Tables(s), NEW i, IpOf(s, i) # Null
  PROVE  uip_ds6_nbr_lookup(s, IpOf(s, i)) # 0
  <1>1. PICK n : n = uip_ds6_nbr_ll_lookup(s, s.lladdr[i])
    OBVIOUS
  <1>2. IpOf(s, i) = IF n = 0 THEN Null ELSE s.ds6[n].ip
    BY <1>1 DEF IpOf
  <1>3. n \in Indices /\ s.ds6[n] # Null /\ IpOf(s, i) = s.ds6[n].ip
    BY <1>1, <1>2, NeighbourOf
  <1> QED BY <1>3, NeighbourFound DEF Indices

(* The default router is chosen, if there is one. *)
LEMMA DefaultChosen ==
  ASSUME NEW s, Good(s), NEW ip, ip = uip_ds6_defrt_choose(s), ip # Null
  PROVE  uip_ds6_nbr_lookup(s, ip) # 0
  <1>1. s \in NodeState
    BY DEF Good, Core, Tables, Typed
  <1>2. PICK q \in Seq(Router) : q = s.defrt
    BY <1>1, Fields
  <1>3. q # <<>>
    BY <1>2 DEF uip_ds6_defrt_choose
  <1>4. Len(q) = 1 /\ s.preferred # 0 /\ s.ds6[s.preferred] # Null
        /\ q[1].ip = s.ds6[s.preferred].ip
    BY <1>2, <1>3 DEF Good, Pointed, RoutedBy
  <1>5. s.preferred \in Indices
    BY <1>1, <1>4, Fields
  <1>6. ip = q[1].ip
    <2>1. PICK good : good = {k \in DOMAIN s.defrt :
                        LET n == uip_ds6_nbr_lookup(s, s.defrt[k].ip)
                        IN  n # 0 /\ s.ds6[n].state # "INCOMPLETE"}
      OBVIOUS
    <2>2. ip = IF good # {} THEN q[Min(good)].ip ELSE Last(q).ip
      BY <1>2, <1>3, <2>1 DEF uip_ds6_defrt_choose
    <2>3. good \subseteq {1}
      <3>1. DOMAIN q = {1}
        BY <1>4
      <3> QED BY <1>2, <2>1, <3>1
    <2>4. good # {} => Min(good) = 1
      <3> SUFFICES ASSUME good # {} PROVE Min(good) = 1
        OBVIOUS
      <3>1. good \in SUBSET Nat
        BY <2>3
      <3>2. Min(good) \in good
        BY <3>1, LeastElement
      <3> QED BY <2>3, <3>2
    <2>5. Last(q) = q[1]
      BY <1>4 DEF Last
    <2> QED BY <2>2, <2>4, <2>5
  <1>7. ip = s.ds6[s.preferred].ip /\ Tables(s)
    BY <1>4, <1>6 DEF Good, Core
  <1> QED BY <1>4, <1>5, <1>7, NeighbourFound DEF Indices

WithAnswer(s, n, x) == [s EXCEPT !.lladdr[n] = x, !.ds6[n].state = "RESOLVED"]

(* A neighbour tells its address: a router had it in its key before.        *)
LEMMA AddressTold ==
  ASSUME Routers \cap Hosts = {}, NEW s, Good(s), NEW n \in Indices, s.ds6[n] # Null,
         NEW x \in Nodes, s.ds6[n].ip = x, NEW t, t = WithAnswer(s, n, x)
  PROVE  Good(t) /\ Kept(s, t)
  <1>1. s \in NodeState
    BY DEF Good, Core, Tables, Typed
  <1>2. s.lladdr[n] \in {x, Null} /\ (x \in Routers => s.lladdr[n] = x)
    BY DEF Good, Core, Tables, Addressed
  <1>3. Null \notin Routers
    BY RplAssumption DEF Nodes
  <1>4. x \in Routers \/ (x \notin Routers /\ s.lladdr[n] \notin Routers)
    BY <1>2, <1>3
  <1>5. PICK q \in Seq(Indices) : q = s.keys
    BY <1>1, Fields
  <1>6. PICK u : u = WithKey(s, q, n, x)
    OBVIOUS
  <1>7. /\ ButKeys(s, u)
        /\ u.keys = s.keys
        /\ u.lladdr[n] = x
        /\ \A j \in Indices : j # n => u.lladdr[j] = s.lladdr[j]
    BY <1>1, <1>5, <1>6, KeyExcept
  <1>8. x \in Routers => \A j \in Indices : u.lladdr[j] = s.lladdr[j]
    BY <1>2, <1>7
  <1>9. n \in Range(s.keys)
    BY DEF Good, Core, Tables, Allotted
  <1>10. Typed(u)
    BY <1>7 DEF Good, Core, Tables, Typed, ButKeys
  <1>11. Allotted(u)
    BY <1>7, <1>9 DEF Good, Core, Tables, Allotted, ButKeys
  <1>12. Addressed(u)
    BY <1>7 DEF Good, Core, Tables, Addressed, ButKeys
  <1>13. KnownOnce(u)
    <2>1. CASE x \in Routers
      BY <1>8, <2>1 DEF Good, Core, Tables, KnownOnce
    <2>2. CASE x \notin Routers
      BY <1>7, <2>2 DEF Good, Core, Tables, KnownOnce
    <2> QED BY <2>1, <2>2
  <1>14. Mirrored(u)
    BY <1>7 DEF Good, Core, Mirrored, ButKeys
  <1>15. Parented(u)
    <2>1. CASE x \in Routers
      BY <1>7, <1>8, <2>1 DEF Good, Core, Parented, ButKeys
    <2>2. CASE s.lladdr[n] \notin Routers
      BY <1>7, <2>2 DEF Good, Core, Parented, ButKeys
    <2> QED BY <1>4, <2>1, <2>2
  <1>16. Leading(u)
    <2> SUFFICES ASSUME NEW route \in Range(u.routes)
                 PROVE  route.via \in Routers /\ u.lladdr[route.index] = route.via
      BY DEF Leading
    <2>1. u.routes = s.routes
      BY <1>7 DEF ButKeys
    <2>2. route.via \in Routers /\ s.lladdr[route.index] = route.via
      BY <2>1 DEF Good, Core, Leading
    <2>3. route.index \in Indices
      <3>1. s.routes \in Seq(Route)
        BY <1>1, Fields
      <3>2. route \in Route
        BY <2>1, <3>1, RangeIs
      <3> QED BY <3>2 DEF Route
    <2> QED BY <1>4, <1>7, <1>8, <2>2, <2>3
  <1>17. Joined(u) /\ Held(u) /\ Pointed(u) /\ RoutedBy(u, u.preferred)
    BY <1>7 DEF Good, Joined, Held, Pointed, RoutedBy, ButKeys
  <1>18. Good(u)
    BY <1>10, <1>11, <1>12, <1>13, <1>14, <1>15, <1>16, <1>17 DEF Good, Core, Tables
  <1>19. PICK d \in Neighbour : d = s.ds6[n] /\ d.ip = x
    <2>1. s.ds6 \in [Indices -> Neighbour \cup {Null}]
      BY <1>1, Fields
    <2> QED BY <2>1
  <1>20. PICK e : e = [d EXCEPT !.state = "RESOLVED"]
    OBVIOUS
  <1>21. e \in Neighbour /\ e.ip = x /\ e.state = "RESOLVED"
    BY <1>19, <1>20 DEF Neighbour
  <1>22. e # Null /\ u.ds6 = s.ds6
    BY <1>7, <1>21, RplAssumption DEF ButKeys
  <1>23. t = WithNeighbour(u, n, e)
    <2>1. PICK resolved : resolved = "RESOLVED"
      OBVIOUS
    <2>2. t = [u EXCEPT !.ds6[n].state = resolved]
      <3>1. t = [[s EXCEPT !.lladdr[n] = x] EXCEPT !.ds6[n].state = resolved]
        BY <2>1 DEF WithAnswer
      <3>2. u = [s EXCEPT !.lladdr[n] = x]
        BY <1>1, <1>5, <1>6 DEF NodeState, WithKey
      <3> QED BY <3>1, <3>2
    <2>3. [u.ds6[n] EXCEPT !.state = resolved] = e
      BY <1>19, <1>20, <1>22, <2>1
    <2>4. [u EXCEPT !.ds6[n].state = resolved] = [u EXCEPT !.ds6[n] = e]
      BY <2>3
    <2> QED BY <2>2, <2>4 DEF WithNeighbour
  <1>24. Fits(u, n, e)
    BY <1>7, <1>9, <1>21, <1>22 DEF Fits
  <1>25. Good(t)
    BY <1>18, <1>19, <1>21, <1>22, <1>23, <1>24, NeighbourKept
  <1>26. t.lladdr = u.lladdr
    <2>1. u \in NodeState
      BY <1>7 DEF ButKeys
    <2> QED BY <1>21, <1>23, <2>1, NeighbourExcept DEF ButNeighbours
  <1>27. Kept(s, t)
    <2> SUFFICES ASSUME s.preferred # 0 PROVE u.lladdr[s.preferred] = s.lladdr[s.preferred]
      BY <1>26 DEF Kept
    <2>1. s.preferred \in Indices
      BY <1>1, Fields
    <2>2. s.lladdr[s.preferred] \in Routers
      BY <2>1 DEF Good, Held, Core, Parented
    <2> QED BY <1>4, <1>7, <1>8, <2>1, <2>2
  <1> QED BY <1>25, <1>27

-----------------------------------------------------------------------------
(* The steps *)

After(s, t) == Good(t) /\ Kept(s, t)

LEMMA SameAfter ==
  ASSUME NEW s, NEW t, NEW u, Kept(s, t), Good(u), u.lladdr = t.lladdr
  PROVE  After(s, u)
  BY DEF After, Kept

LEMMA GoodAfter ==
  ASSUME NEW s, NEW t, Good(t), t.lladdr = s.lladdr
  PROVE  After(s, t)
  BY DEF After, Kept

LEMMA DioStep ==
  ASSUME Routers \cap Hosts = {}, NEW s, Good(s), NEW x \in Routers, NEW rank \in DioRanks,
         NEW version, NEW t, t = DioProcessed(Heard(s, x), x, rank, version)
  PROVE  After(s, t)
  <1>1. PICK a : a = Heard(s, x)
    OBVIOUS
  <1>2. Good(a) /\ Kept(s, a)
    BY <1>1, SenderHeard DEF Nodes
  <1>3. rank \in Ranks
    BY RplAssumption DEF Ranks
  <1>4. t = DioProcessed(a, x, rank, version)
    BY <1>1
  <1>5. Good(t) /\ t.lladdr = a.lladdr
    BY <1>2, <1>3, <1>4, DioGood
  <1> QED BY <1>2, <1>5, SameAfter

LEMMA DaoStep ==
  ASSUME Routers \cap Hosts = {}, NEW s, Good(s), NEW x \in Routers, NEW d \in Targets,
         NEW p, p = rpl_find_parent(s, x),
         NEW a, a = Heard(uip_ds6_route_lookup(s, d), x),
         NEW t, t = IF uip_ds6_nbr_lookup(a, x) = 0 THEN a
                    ELSE uip_ds6_route_add([a EXCEPT !.locked = @ \cup ({p} \ {0})], d, x)
  PROVE  After(s, t)
  <1>1. PICK b : b = uip_ds6_route_lookup(s, d)
    OBVIOUS
  <1>2. Good(b) /\ ButRoutes(s, b)
    BY <1>1, RouteLooked
  <1>3. Good(a) /\ Kept(b, a)
    BY <1>1, <1>2, SenderHeard DEF Nodes
  <1>4. Kept(s, a)
    BY <1>2, <1>3 DEF Kept, ButRoutes
  <1>5. CASE uip_ds6_nbr_lookup(a, x) = 0
    BY <1>3, <1>4, <1>5 DEF After
  <1>6. CASE uip_ds6_nbr_lookup(a, x) # 0
    <2>1. p \in {0} \cup Indices
      BY ParentFound DEF Good, Core
    <2>2. PICK c : c = [a EXCEPT !.locked = @ \cup ({p} \ {0})]
      OBVIOUS
    <2>3. Good(c) /\ SameSlots(a, c)
      BY <1>3, <2>1, <2>2, LockedGood
    <2>4. uip_ds6_nbr_lookup(c, x) # 0
      BY <1>6, <2>3, SlotsFind
    <2>5. t = uip_ds6_route_add(c, d, x)
      BY <1>6, <2>2
    <2>6. Good(t) /\ ButRoutes(c, t)
      BY <2>3, <2>4, <2>5, RouteGained
    <2>7. t.lladdr = a.lladdr
      BY <2>3, <2>6 DEF SameSlots, ButRoutes
    <2> QED BY <1>4, <2>6, <2>7, SameAfter
  <1> QED BY <1>5, <1>6

LEMMA PeriodicStep ==
  ASSUME NEW s, Good(s), NEW t,
         \/ t = rpl_recalculate_ranks(s)
         \/ \E k \in DOMAIN s.routes : t = rpl_recalculate_ranks(uip_ds6_route_rm(s, s.routes[k]))
  PROVE  After(s, t)
  <1>1. CASE t = rpl_recalculate_ranks(s)
    BY <1>1, RanksRecalculated, GoodAfter DEF SameSlots
  <1>2. ASSUME NEW k \in DOMAIN s.routes,
               t = rpl_recalculate_ranks(uip_ds6_route_rm(s, s.routes[k]))
        PROVE  After(s, t)
    <2>1. s.routes[k] \in Range(s.routes)
      BY DEF Range
    <2>2. PICK a : a = uip_ds6_route_rm(s, s.routes[k])
      OBVIOUS
    <2>3. Good(a) /\ ButRoutes(s, a)
      BY <2>1, <2>2, RouteGone
    <2>4. Good(t) /\ SameSlots(a, t)
      BY <1>2, <2>2, <2>3, RanksRecalculated
    <2> QED BY <2>3, <2>4, GoodAfter DEF SameSlots, ButRoutes
  <1> QED BY <1>1, <1>2

LEMMA MeasureStep ==
  ASSUME NEW s, Good(s), NEW x, NEW metric \in LinkMetrics,
         NEW p, p = rpl_find_parent(s, x), p # 0,
         NEW n, n = rpl_get_nbr(s, p),
         NEW t, t = IF n = 0 THEN Noted(s, p) ELSE Measured(Noted(s, p), n, metric)
  PROVE  After(s, t)
  <1>1. p \in Indices /\ s.parents[p] # Null
    BY ParentFound DEF Good, Core
  <1>2. PICK a : a = Noted(s, p)
    OBVIOUS
  <1>3. Good(a) /\ SameSlots(s, a)
    BY <1>1, <1>2, ParentNoted
  <1>4. CASE n = 0
    BY <1>2, <1>3, <1>4, GoodAfter DEF SameSlots
  <1>5. CASE n # 0
    <2>1. n \in Indices /\ s.ds6[n] # Null
      BY <1>5, NeighbourOf DEF rpl_get_nbr, Good, Core
    <2>2. metric \in Nat
      BY RplAssumption
    <2>3. t = Measured(a, n, metric) /\ a.ds6[n] # Null
      BY <1>2, <1>3, <1>5, <2>1 DEF SameSlots
    <2>4. Good(t) /\ t.lladdr = a.lladdr
      BY <1>3, <2>1, <2>2, <2>3, MeasuredGood
    <2> QED BY <1>3, <2>4, GoodAfter DEF SameSlots
  <1> QED BY <1>4, <1>5

LEMMA RoutedStep ==
  ASSUME Routers \cap Hosts = {}, NEW s, Good(s), NEW d, HasRoute(s, d),
         NEW a, a = uip_ds6_route_lookup(s, d),
         NEW nexthop, nexthop = uip_ds6_route_nexthop(a, a.routes[1]),
         NEW t, t = IF nexthop = Null THEN uip_ds6_route_rm(a, a.routes[1])
                    ELSE SendTo(a, nexthop)
  PROVE  After(s, t)
  <1>1. Good(a) /\ ButRoutes(s, a) /\ a.routes[1] \in Range(a.routes)
    BY RouteLooked
  <1>2. CASE nexthop = Null
    <2>1. Good(t) /\ ButRoutes(a, t)
      BY <1>1, <1>2, RouteGone
    <2> QED BY <1>1, <2>1, GoodAfter DEF ButRoutes
  <1>3. CASE nexthop # Null
    <2>1. uip_ds6_nbr_lookup(a, nexthop) # 0
      BY <1>1, <1>3, NexthopKnown DEF uip_ds6_route_nexthop, Good, Core
    <2>2. Good(t) /\ Kept(a, t)
      BY <1>1, <1>3, <2>1, PacketSent
    <2> QED BY <1>1, <2>2 DEF After, Kept, ButRoutes
  <1> QED BY <1>2, <1>3

LEMMA HeaderErrorStep ==
  ASSUME NEW s, Good(s), NEW d, HasRoute(s, d), NEW a, a = uip_ds6_route_lookup(s, d),
         NEW t, t = uip_ds6_route_rm(a, a.routes[1])
  PROVE  After(s, t)
  <1>1. Good(a) /\ ButRoutes(s, a) /\ a.routes[1] \in Range(a.routes)
    BY RouteLooked
  <1>2. Good(t) /\ ButRoutes(a, t)
    BY <1>1, RouteGone
  <1> QED BY <1>1, <1>2, GoodAfter DEF ButRoutes

LEMMA AnswerStep ==
  ASSUME Routers \cap Hosts = {}, NEW s, Good(s), NEW x \in Nodes,
         NEW n, n = uip_ds6_nbr_lookup(s, x), n # 0, NEW t, t = WithAnswer(s, n, x)
  PROVE  After(s, t)
  <1>1. n \in Indices /\ s.ds6[n] # Null /\ s.ds6[n].ip = x
    BY NeighbourFound DEF Good, Core
  <1> QED BY <1>1, AddressTold DEF After

LEMMA StartGood ==
  Init => Good(node)
  <1> SUFFICES ASSUME Init PROVE Good(node)
    OBVIOUS
  <1>1. PICK e : e = <<>>
    OBVIOUS
  <1>2. /\ \A T : e \in Seq(T)
        /\ Len(e) = 0
        /\ IsInjective(e)
        /\ Range(e) = {}
    BY <1>1 DEF IsInjective, Range
  <1>3. /\ node.keys = e /\ node.routes = e /\ node.defrt = e
        /\ \A i \in Indices : /\ node.lladdr[i] = Null /\ node.ds6[i] = Null
                              /\ node.lists[i] = Null /\ node.parents[i] = Null
        /\ node.joined = FALSE /\ node.preferred = 0 /\ node.def_route = 0
    BY <1>1 DEF Init
  <1>4. node \in NodeState
    <2>1. INFINITE_RANK \in Ranks /\ 0 \in 0 .. UIP_DS6_DEFRT_NB
      BY RplAssumption DEF Ranks
    <2> QED BY <1>1, <1>2, <2>1 DEF Init, NodeState
  <1>5. Typed(node)
    <2>1. Listed(e)
      BY <1>2, RplAssumption DEF Listed, DestOnce
    <2> QED BY <1>2, <1>3, <1>4, <2>1 DEF Typed
  <1>6. Allotted(node)
    BY <1>2, <1>3 DEF Allotted, Indices
  <1>7. Addressed(node) /\ Parented(node) /\ Leading(node) /\ Joined(node) /\ Held(node)
    BY <1>2, <1>3 DEF Addressed, Parented, Leading, Joined, Held
  <1>8. KnownOnce(node)
    BY <1>3, RplAssumption DEF KnownOnce, Nodes
  <1>9. Mirrored(node)
    BY <1>2, <1>3, RplAssumption DEF Mirrored
  <1>10. Pointed(node) /\ RoutedBy(node, node.preferred)
    BY <1>1, <1>3 DEF Pointed, RoutedBy
  <1> QED BY <1>5, <1>6, <1>7, <1>8, <1>9, <1>10 DEF Good, Core, Tables

(* What every step preserves, and the preferred parent's address *)
LEMMA StepGood ==
  ASSUME Routers \cap Hosts = {}, Good(node), [Next]_node
  PROVE  After(node, node')
  <1>1. CASE UNCHANGED node
    BY <1>1 DEF After, Kept
  <1>2. ASSUME NEW x \in Routers, NEW rank \in DioRanks,
               NEW version \in {"older", "same", "newer"}, dio_input(x, rank, version)
        PROVE  After(node, node')
    BY <1>2, DioStep DEF dio_input
  <1>3. ASSUME NEW x \in Routers, dao_input_loop(x) PROVE After(node, node')
    <2>1. PICK p : p = rpl_find_parent(node, x)
      OBVIOUS
    <2>2. p # 0 /\ node' = Flagged(node, p, INFINITE_RANK)
      BY <1>3, <2>1 DEF dao_input_loop, Loop, Flagged
    <2>3. p \in Indices /\ node.parents[p] # Null
      BY <2>1, <2>2, ParentFound DEF Good, Core
    <2>4. Good(node') /\ SameSlots(node, node')
      BY <2>2, <2>3, LoopShown
    <2> QED BY <2>4, GoodAfter DEF SameSlots
  <1>4. ASSUME NEW x \in Routers, NEW d \in Targets, dao_input(x, d)
        PROVE  After(node, node')
    <2>1. PICK p, a : /\ p = rpl_find_parent(node, x)
                      /\ a = Heard(uip_ds6_route_lookup(node, d), x)
      OBVIOUS
    <2>2. node' = IF uip_ds6_nbr_lookup(a, x) = 0 THEN a
                  ELSE uip_ds6_route_add([a EXCEPT !.locked = @ \cup ({p} \ {0})], d, x)
      BY <1>4, <2>1 DEF dao_input
    <2> QED BY <2>1, <2>2, DaoStep
  <1>5. ASSUME NEW x \in Routers, NEW d \in Targets, dao_input_no_path(x, d)
        PROVE  After(node, node')
    <2>1. node' = uip_ds6_route_lookup(node, d)
      BY <1>5 DEF dao_input_no_path
    <2>2. Good(node') /\ ButRoutes(node, node')
      BY <2>1, RouteLooked
    <2> QED BY <2>2, GoodAfter DEF ButRoutes
  <1>6. ASSUME NEW x \in Routers, NEW metric \in LinkMetrics,
               rpl_link_neighbor_callback(x, metric)
        PROVE  After(node, node')
    <2>1. PICK p, n : p = rpl_find_parent(node, x) /\ n = rpl_get_nbr(node, p)
      OBVIOUS
    <2>2. /\ p # 0
          /\ node' = IF n = 0 THEN Noted(node, p) ELSE Measured(Noted(node, p), n, metric)
      BY <1>6, <2>1 DEF rpl_link_neighbor_callback, Noted, Measured
    <2> QED BY <2>1, <2>2, MeasureStep
  <1>7. ASSUME NEW x \in Nodes, na_input(x) PROVE After(node, node')
    <2>1. PICK n : n = uip_ds6_nbr_lookup(node, x)
      OBVIOUS
    <2>2. n # 0 /\ node' = WithAnswer(node, n, x)
      BY <1>7, <2>1 DEF na_input, Resolved, WithAnswer
    <2> QED BY <2>1, <2>2, AnswerStep
  <1>8. ASSUME NEW x \in Nodes, ns_input(x) PROVE After(node, node')
    <2>1. PICK n : n = uip_ds6_nbr_lookup(node, x)
      OBVIOUS
    <2>2. CASE n = 0
      <3>1. node' = uip_ds6_nbr_add(node, x, x, "RESOLVED")
        BY <1>8, <2>1, <2>2 DEF ns_input
      <3> QED BY <2>1, <2>2, <3>1, NeighbourAdded DEF After
    <2>3. CASE n # 0
      <3>1. node' = WithAnswer(node, n, x)
        BY <1>8, <2>1, <2>3 DEF ns_input, Resolved, WithAnswer
      <3> QED BY <2>1, <2>3, <3>1, AnswerStep
    <2> QED BY <2>2, <2>3
  <1>9. ASSUME NEW x \in Hosts, output_on_link(x) PROVE After(node, node')
    BY <1>9, PacketSent DEF output_on_link, After
  <1>10. ASSUME NEW d \in Targets, output_routed(d) PROVE After(node, node')
    <2>1. PICK a : a = uip_ds6_route_lookup(node, d)
      OBVIOUS
    <2>2. PICK nexthop : nexthop = uip_ds6_route_nexthop(a, a.routes[1])
      OBVIOUS
    <2>3. /\ HasRoute(node, d)
          /\ node' = IF nexthop = Null THEN uip_ds6_route_rm(a, a.routes[1])
                     ELSE SendTo(a, nexthop)
      BY <1>10, <2>1, <2>2 DEF output_routed
    <2> QED BY <2>1, <2>2, <2>3, RoutedStep
  <1>11. ASSUME NEW d \in Targets, rpl_verify_header_error(d) PROVE After(node, node')
    BY <1>11, HeaderErrorStep DEF rpl_verify_header_error
  <1>12. CASE output_default
    <2>1. PICK nexthop : nexthop = uip_ds6_defrt_choose(node)
      OBVIOUS
    <2>2. nexthop # Null /\ node' = SendTo(node, nexthop)
      BY <1>12, <2>1 DEF output_default
    <2>3. uip_ds6_nbr_lookup(node, nexthop) # 0
      BY <2>1, <2>2, DefaultChosen
    <2> QED BY <2>2, <2>3, PacketSent DEF After
  <1>13. ASSUME NEW n \in Indices, uip_ds6_neighbor_periodic(n) PROVE After(node, node')
    <2>1. PICK block : block = IF node.ds6[n].state = "INCOMPLETE" THEN 0
                               ELSE uip_ds6_defrt_lookup(node, node.ds6[n].ip)
      OBVIOUS
    <2>2. /\ node.ds6[n] # Null
          /\ node' = uip_ds6_nbr_rm(uip_ds6_defrt_rm(node, block), n)
      BY <1>13, <2>1 DEF uip_ds6_neighbor_periodic
    <2>3. Good(node') /\ node'.lladdr = node.lladdr
      BY <2>1, <2>2, NeighbourExpired
    <2> QED BY <2>3, GoodAfter
  <1>14. CASE uip_ds6_defrt_periodic
    <2>1. PICK b : node' = uip_ds6_defrt_rm(node, b)
      BY <1>14 DEF uip_ds6_defrt_periodic
    <2>2. Good(node') /\ SameSlots(node, node')
      BY <2>1, RouterRemoved
    <2> QED BY <2>2, GoodAfter DEF SameSlots
  <1>15. CASE handle_periodic_timer
    BY <1>15, PeriodicStep DEF handle_periodic_timer
  <1> QED BY <1>1, <1>2, <1>3, <1>4, <1>5, <1>6, <1>7, <1>8, <1>9, <1>10, <1>11, <1>12,
             <1>13, <1>14, <1>15 DEF Next

-----------------------------------------------------------------------------
(* What the invariant says of the properties *)

LEMMA GoodTyped == Good(node) => TypeOK
  BY DEF Good, Core, Tables, Typed, Listed, TypeOK

LEMMA GoodConsistent == Good(node) => RoutesConsistent
  <1> SUFFICES ASSUME Good(node) PROVE RoutesConsistent
    OBVIOUS
  <1>1. node \in NodeState /\ Listed(node.routes)
    BY DEF Good, Core, Tables, Typed
  <1>2. PICK q \in Seq(Route) : q = node.routes
    BY <1>1, Fields
  <1>3. IsInjective([k \in DOMAIN node.routes |-> node.routes[k].dest])
    <2>1. \A j, k \in 1 .. Len(q) : q[j].dest = q[k].dest => j = k
      BY <1>1, <1>2 DEF Listed, DestOnce
    <2>2. DOMAIN q = 1 .. Len(q)
      OBVIOUS
    <2>3. PICK f : f = [k \in DOMAIN q |-> q[k].dest]
      OBVIOUS
    <2>4. DOMAIN f = 1 .. Len(q) /\ \A k \in 1 .. Len(q) : f[k] = q[k].dest
      BY <2>2, <2>3
    <2>5. IsInjective(f)
      BY <2>1, <2>4 DEF IsInjective
    <2> QED BY <1>2, <2>3, <2>5
  <1>4. ASSUME NEW i \in Indices,
               NEW through,
               through = {r.dest : r \in {node.routes[k] : k \in
                            {j \in DOMAIN node.routes : node.routes[j].index = i}}}
        PROVE  node.lists[i] = IF through = {} THEN Null ELSE through
    <2>1. \A d : d \in through <=> \E r \in Range(q) : r.index = i /\ r.dest = d
      <3>1. PICK through2 : through2 = {k \in DOMAIN q : q[k].index = i}
        OBVIOUS
      <3>2. through = {r.dest : r \in {q[k] : k \in through2}}
        BY <1>2, <1>4, <3>1
      <3>3. \A d : d \in through <=> \E k \in DOMAIN q : q[k].index = i /\ q[k].dest = d
        BY <3>1, <3>2
      <3> QED BY <3>3 DEF Range
    <2>2. \A r \in Range(q) : r.dest \in Targets
      <3>1. \A r \in Range(q) : r \in Route
        BY RangeIs
      <3> QED BY <3>1 DEF Route
    <2>3. /\ node.lists[i] # {}
          /\ \A d \in Targets :
                (node.lists[i] # Null /\ d \in node.lists[i])
                    <=> \E r \in Range(q) : r.index = i /\ r.dest = d
      BY <1>2 DEF Good, Core, Mirrored
    <2>4. node.lists[i] \in (SUBSET Targets) \cup {Null}
      BY <1>1, Fields
    <2>5. CASE node.lists[i] = Null
      <3>1. through = {}
        BY <2>1, <2>2, <2>3, <2>5
      <3> QED BY <2>5, <3>1
    <2>6. CASE node.lists[i] # Null
      <3>1. \A d : d \in node.lists[i] <=> d \in through
        BY <2>1, <2>2, <2>3, <2>4, <2>6
      <3>2. node.lists[i] = through
        BY <2>4, <2>6, <3>1
      <3> QED BY <2>3, <3>2
    <2> QED BY <2>5, <2>6
  <1> QED BY <1>3, <1>4 DEF RoutesConsistent

LEMMA GoodDefault == Good(node) => DefaultIsParent
  <1> SUFFICES ASSUME Good(node), NEW k \in DOMAIN node.defrt
               PROVE  /\ node.preferred # 0
                      /\ node.defrt[k].ip = IpOf(node, node.preferred)
    BY DEF DefaultIsParent
  <1>1. node \in NodeState
    BY DEF Good, Core, Tables, Typed
  <1>2. PICK q \in Seq(Router) : q = node.defrt
    BY <1>1, Fields
  <1>3. q # <<>> /\ k \in 1 .. Len(q)
    BY <1>2
  <1>4. /\ Len(q) = 1
        /\ node.preferred # 0 /\ node.ds6[node.preferred] # Null
        /\ q[1].ip = node.ds6[node.preferred].ip
    BY <1>2, <1>3 DEF Good, Pointed, RoutedBy
  <1>5. k = 1
    BY <1>3, <1>4
  <1>6. node.preferred \in Indices
    BY <1>1, <1>4, Fields
  <1>7. node.lladdr[node.preferred] \in Routers
    BY <1>4, <1>6 DEF Good, Held, Core, Parented
  <1>8. IpOf(node, node.preferred) = node.ds6[node.preferred].ip
    BY <1>4, <1>6, <1>7, RouterSlot DEF Good, Core
  <1> QED BY <1>2, <1>4, <1>5, <1>8

LEMMA GoodLeads == Good(node) => RoutesLead
  <1> SUFFICES ASSUME Good(node), NEW k \in DOMAIN node.routes
               PROVE  {node.lladdr[node.routes[k].index],
                       uip_ds6_route_nexthop(node, node.routes[k])}
                          \subseteq {node.routes[k].via, Null}
    BY DEF RoutesLead
  <1>1. node \in NodeState
    BY DEF Good, Core, Tables, Typed
  <1>2. PICK r \in Route : r = node.routes[k] /\ r \in Range(node.routes)
    <2>1. node.routes \in Seq(Route)
      BY <1>1, Fields
    <2>2. node.routes[k] \in Range(node.routes)
      BY DEF Range
    <2> QED BY <2>1, <2>2, RangeIs
  <1>3. r.via \in Routers /\ node.lladdr[r.index] = r.via /\ r.index \in Indices
    BY <1>2 DEF Good, Core, Leading, Route
  <1>4. IpOf(node, r.index) \in {r.via, Null}
    BY <1>3, RouterSlot DEF Good, Core
  <1> QED BY <1>2, <1>3, <1>4 DEF uip_ds6_route_nexthop

-----------------------------------------------------------------------------
(* The theorems.  Routers and hosts are told apart: what a router sends     *)
(* makes its entry in the neighbour cache before a packet for it would, and *)
(* the entry has its address.                                               *)

RoutersAreNoHosts == Routers \cap Hosts = {}

(* The tables, the neighbour cache, the routes and the DAG fit together     *)
(* after every handler (rpl-dag.c, uip-ds6-route.c, nbr-table.c).           *)
THEOREM StaysGood == RoutersAreNoHosts /\ Spec => [](RoutersAreNoHosts /\ Good(node))
  <1> DEFINE Inv == RoutersAreNoHosts /\ Good(node)
  <1>1. RoutersAreNoHosts /\ Init => Inv
    BY StartGood
  <1>2. Inv /\ [Next]_node => Inv'
    <2> SUFFICES ASSUME Inv, [Next]_node PROVE Inv'
      OBVIOUS
    <2>1. Good(node')
      BY StepGood DEF RoutersAreNoHosts, After
    <2> QED BY <2>1
  <1> HIDE DEF Inv
  <1>3. RoutersAreNoHosts /\ Spec => []Inv
    BY <1>1, <1>2, PTL DEF Spec
  <1> QED BY <1>3 DEF Inv

(* The tables and the DAG keep their types; a slot has one key, and the     *)
(* routes stay within their bound (uip-ds6-route.c:299).                    *)
THEOREM RouterTypeCorrect == RoutersAreNoHosts /\ Spec => []TypeOK
  BY StaysGood, GoodTyped, PTL

(* The routing table and the lists of the neighbours mirror each other      *)
(* (uip-ds6-route.c:441 and 478).                                           *)
THEOREM RoutesAndListsAgree == RoutersAreNoHosts /\ Spec => []RoutesConsistent
  BY StaysGood, GoodConsistent, PTL

(* The default router is the preferred parent, and the neighbour cache      *)
(* knows it (rpl-dag.c:440).                                                *)
THEOREM DefaultRouterIsParent == RoutersAreNoHosts /\ Spec => []DefaultIsParent
  BY StaysGood, GoodDefault, PTL

(* A route leads to the neighbour that announced it (uip-ds6-route.h:113).  *)
THEOREM RoutesLeadToSenders == RoutersAreNoHosts /\ Spec => []RoutesLead
  BY StaysGood, GoodLeads, PTL

(* The slot of the preferred parent is not given to another neighbour       *)
(* (rpl-dag.c:165).                                                         *)
THEOREM PreferredParentStays == RoutersAreNoHosts /\ Spec => PreferredStays
  <1>1. /\ RoutersAreNoHosts /\ Good(node) /\ [Next]_node
        => [node.preferred # 0 /\ node'.preferred = node.preferred =>
               node'.lladdr[node.preferred] = node.lladdr[node.preferred]]_node
    BY StepGood DEF RoutersAreNoHosts, After, Kept
  <1> QED BY <1>1, StaysGood, PTL DEF Spec, PreferredStays
=============================================================================
