---------------------------- MODULE LoginDBProofs ----------------------------
(***************************************************************************)
(* Proofs about LoginDB, for every number of addresses, every set of       *)
(* credentials and every width of the counters.                            *)
(***************************************************************************)
EXTENDS LoginDB, FiniteSetTheorems, SequenceTheorems, TLAPS

-----------------------------------------------------------------------------
(* A counter of a bounded width.                                           *)

LEMMA ModOf ==
    ASSUME NEW V \in Nat \ {0}, NEW r \in 0..V - 1, NEW q \in Int
    PROVE  (V * q + r) % V = r
  <1> DEFINE a == V * q + r
             p == a \div V
             s == a % V
             d == q - p
  <1>1. a \in Int /\ p \in Int /\ s \in 0..V - 1 /\ a = V * p + s
    OBVIOUS
  <1>2. V * d = s - r /\ d \in Int
    <2>1. V * (q - p) = V * q - V * p
      BY <1>1
    <2>2. QED
      BY <2>1, <1>1
  <1>3. V * d < V /\ V * d > -V
    BY <1>1, <1>2
  <1>4. CASE d >= 1
    <2>1. V * d >= V
      BY <1>2, <1>4
    <2>2. QED
      BY <2>1, <1>3, <1>2
  <1>5. CASE d <= -1
    <2>1. V * d <= -V
      BY <1>2, <1>5
    <2>2. QED
      BY <2>1, <1>3, <1>2
  <1>6. CASE d = 0
    BY <1>6, <1>1, <1>2
  <1>7. QED
    BY <1>2, <1>4, <1>5, <1>6

LEMMA ModAgain ==
    ASSUME NEW V \in Nat \ {0}, NEW n \in Nat
    PROVE  n % V \in 0..V - 1 /\ (n % V) % V = n % V
  <1>1. n % V \in 0..V - 1
    OBVIOUS
  <1>2. (V * 0 + (n % V)) % V = n % V
    BY <1>1, ModOf
  <1>3. QED
    BY <1>1, <1>2

\* Counting up and down in a bounded width.
LEMMA CountUp ==
    ASSUME NEW n \in Nat
    PROVE  ((n % W) + 1) % W = (n + 1) % W
  <1> USE LoginDBAssumption
  <1> DEFINE q == n \div W
             r == n % W
  <1>1. q \in Int /\ r \in 0..W - 1 /\ n = W * q + r
    OBVIOUS
  <1>2. CASE r + 1 < W
    <2>1. n + 1 = W * q + (r + 1) /\ r + 1 \in 0..W - 1
      BY <1>1, <1>2
    <2>2. (n + 1) % W = r + 1
      BY <2>1, ModOf, <1>1
    <2>3. (W * 0 + (r + 1)) % W = r + 1
      BY <2>1, ModOf, <1>1
    <2>4. QED
      BY <2>1, <2>2, <2>3, <1>1
  <1>3. CASE r + 1 = W
    <2>1. n + 1 = W * (q + 1) + 0 /\ r + 1 = W * 1 + 0
      BY <1>1, <1>3
    <2>2. (W * (q + 1) + 0) % W = 0 /\ (W * 1 + 0) % W = 0
      BY ModOf, <1>1
    <2>3. QED
      BY <2>1, <2>2, <1>1
  <1>4. QED
    BY <1>1, <1>2, <1>3

LEMMA CountDown ==
    ASSUME NEW n \in Nat
    PROVE  (((n + 1) % W) - 1) % W = n % W
  <1> USE LoginDBAssumption
  <1> DEFINE q == n \div W
             r == n % W
  <1>1. q \in Int /\ r \in 0..W - 1 /\ n = W * q + r
    OBVIOUS
  <1>2. CASE r + 1 < W
    <2>1. n + 1 = W * q + (r + 1) /\ r + 1 \in 0..W - 1
      BY <1>1, <1>2
    <2>2. (n + 1) % W = r + 1
      BY <2>1, ModOf, <1>1
    <2>3. QED
      BY <2>2, <1>1
  <1>3. CASE r + 1 = W
    <2>1. n + 1 = W * (q + 1) + 0
      BY <1>1, <1>3
    <2>2. (n + 1) % W = 0
      BY <2>1, ModOf, <1>1
    <2>3. W * (-1) = -W
      OBVIOUS
    <2>4. (W * (-1) + r) % W = r
      BY ModOf, <1>1
    <2>5. W * (-1) + r = -1
      BY <1>1, <1>3, <2>3
    <2>6. QED
      BY <2>2, <2>4, <2>5, <1>1
  <1>4. QED
    BY <1>1, <1>2, <1>3

-----------------------------------------------------------------------------
(* What is reached along the pointers.                                     *)

Pointers == [Addr -> Addr \union {Null}]

LEMMA ReachType ==
    ASSUME NEW nx \in Pointers, NEW a
    PROVE  Reach(nx, a) \subseteq Addr
  BY DEF Reach

LEMMA ReachNull ==
    ASSUME NEW nx \in Pointers
    PROVE  Reach(nx, Null) = {}
  <1>1. {Null} \ {Null} \subseteq {} /\ Closed(nx, {}) /\ {} \in SUBSET Addr
    BY DEF Closed
  <1>2. QED
    BY <1>1 DEF Reach

LEMMA ReachSelf ==
    ASSUME NEW nx \in Pointers, NEW a \in Addr
    PROVE  a \in Reach(nx, a)
  BY LoginDBAssumption DEF Reach

LEMMA ReachClosed ==
    ASSUME NEW nx \in Pointers, NEW a \in Addr \union {Null}
    PROVE  Closed(nx, Reach(nx, a))
  <1> SUFFICES ASSUME NEW x \in Reach(nx, a), nx[x] # Null
               PROVE  nx[x] \in Reach(nx, a)
    BY DEF Closed
  <1>1. x \in Addr /\ nx[x] \in Addr
    BY ReachType DEF Pointers
  <1>2. ASSUME NEW S \in SUBSET Addr, {a} \ {Null} \subseteq S, Closed(nx, S)
        PROVE  nx[x] \in S
    <2>1. x \in S
      BY <1>2 DEF Reach
    <2>2. QED
      BY <1>2, <2>1 DEF Closed
  <1>3. QED
    BY <1>1, <1>2 DEF Reach

LEMMA ReachLeast ==
    ASSUME NEW nx \in Pointers, NEW a \in Addr \union {Null}, NEW S \in SUBSET Addr,
           {a} \ {Null} \subseteq S, Closed(nx, S)
    PROVE  Reach(nx, a) \subseteq S
  BY DEF Reach

\* A node that is reached reaches no more than what reached it.
LEMMA ReachWithin ==
    ASSUME NEW nx \in Pointers, NEW a \in Addr \union {Null}, NEW b \in Reach(nx, a) \union {Null}
    PROVE  Reach(nx, b) \subseteq Reach(nx, a)
  <1>1. Reach(nx, a) \in SUBSET Addr /\ Closed(nx, Reach(nx, a))
    BY ReachType, ReachClosed
  <1>2. b \in Addr \union {Null}
    BY <1>1
  <1>3. QED
    BY <1>1, <1>2, ReachLeast

LEMMA ReachStep ==
    ASSUME NEW nx \in Pointers, NEW a \in Addr
    PROVE  /\ nx[a] \in Reach(nx, a) \union {Null}
           /\ Reach(nx, a) = {a} \union Reach(nx, nx[a])
  <1> DEFINE b == nx[a]
  <1>1. b \in Addr \union {Null} /\ a # Null
    BY LoginDBAssumption DEF Pointers
  <1>2. a \in Reach(nx, a) /\ Closed(nx, Reach(nx, a))
    BY ReachSelf, ReachClosed
  <1>3. b \in Reach(nx, a) \union {Null}
    BY <1>2 DEF Closed
  <1>4. Reach(nx, b) \subseteq Reach(nx, a)
    BY <1>3, ReachWithin
  <1>5. Reach(nx, b) \in SUBSET Addr /\ Closed(nx, Reach(nx, b))
    BY <1>1, ReachType, ReachClosed
  <1>6. b # Null => b \in Reach(nx, b)
    BY <1>1, ReachSelf
  <1>7. Closed(nx, {a} \union Reach(nx, b))
    BY <1>5, <1>6 DEF Closed
  <1>8. Reach(nx, a) \subseteq {a} \union Reach(nx, b)
    BY <1>1, <1>5, <1>7, ReachLeast
  <1>9. QED
    BY <1>2, <1>3, <1>4, <1>8

\* Pointers that are not on the way do not matter.
LEMMA ReachFrame ==
    ASSUME NEW nx \in Pointers, NEW ny \in Pointers, NEW a \in Addr \union {Null},
           \A x \in Reach(nx, a) : ny[x] = nx[x]
    PROVE  Reach(ny, a) = Reach(nx, a)
  <1>1. Reach(nx, a) \in SUBSET Addr /\ Closed(nx, Reach(nx, a))
    BY ReachType, ReachClosed
  <1>2. Reach(ny, a) \in SUBSET Addr /\ Closed(ny, Reach(ny, a))
    BY ReachType, ReachClosed
  <1>3. {a} \ {Null} \subseteq Reach(nx, a) /\ {a} \ {Null} \subseteq Reach(ny, a)
    BY ReachSelf
  <1>4. Reach(ny, a) \subseteq Reach(nx, a)
    <2>1. Closed(ny, Reach(nx, a))
      BY <1>1 DEF Closed
    <2>2. QED
      BY <1>1, <1>3, <2>1, ReachLeast
  <1>5. Closed(nx, Reach(ny, a))
    BY <1>2, <1>4 DEF Closed
  <1>6. Reach(nx, a) \subseteq Reach(ny, a)
    BY <1>2, <1>3, <1>5, ReachLeast
  <1>7. QED
    BY <1>4, <1>6

\* Nothing on the list L points back, and no two nodes on it point to the same one.
Acyclic(nx, L)  == \A x \in L : nx[x] # Null => x \notin Reach(nx, nx[x])
OnePointer(nx, L) == \A x, y \in L : nx[x] = nx[y] /\ nx[x] # Null => x = y

\* Taking the node behind t out of a list takes it out of all that is reached on it.
LEMMA ReachUnlinked ==
    ASSUME NEW nx \in Pointers, NEW L \in SUBSET Addr, Closed(nx, L), Acyclic(nx, L),
           OnePointer(nx, L), NEW t \in L, NEW d \in Addr, d = nx[t],
           NEW ny \in Pointers, ny[t] = nx[d], \A x \in Addr \ {t} : ny[x] = nx[x],
           NEW a \in L
    PROVE  Reach(ny, a) = IF a = d THEN Reach(nx, a) ELSE Reach(nx, a) \ {d}
  <1>1. ny \in Pointers /\ d \in L /\ d # Null
    BY LoginDBAssumption DEF Pointers, Closed
  <1>2. d # nx[d] /\ t # d
    <2>1. nx[d] # Null => d \notin Reach(nx, nx[d])
      BY <1>1 DEF Acyclic
    <2>2. t \notin Reach(nx, d)
      BY <1>1 DEF Acyclic
    <2>3. QED
      BY <1>1, <2>1, <2>2, ReachSelf
  <1>3. Reach(nx, a) \subseteq L /\ Reach(nx, a) \in SUBSET Addr /\ Closed(nx, Reach(nx, a))
    BY ReachLeast, ReachType, ReachClosed
  <1>4. CASE a = d
    <2>1. t \notin Reach(nx, a)
      BY <1>1, <1>4 DEF Acyclic
    <2>2. \A x \in Reach(nx, a) : ny[x] = nx[x]
      BY <1>3, <2>1 DEF Pointers
    <2>3. QED
      BY <1>1, <1>4, <2>2, ReachFrame
  <1>5. CASE a # d
    <2> DEFINE T == Reach(nx, a) \ {d}
               U == Reach(ny, a)
    <2>1. Closed(ny, T)
      <3> SUFFICES ASSUME NEW x \in T PROVE ny[x] \in T \union {Null}
        BY DEF Closed
      <3>1. CASE x = t
        <4>1. d \in Reach(nx, a)
          BY <1>1, <1>3, <3>1 DEF Closed
        <4>2. nx[d] \in Reach(nx, a) \union {Null}
          BY <1>3, <4>1 DEF Closed
        <4>3. QED
          BY <1>2, <3>1, <4>2 DEF Pointers
      <3>2. CASE x # t
        <4>1. ny[x] = nx[x] /\ nx[x] # d
          BY <1>1, <1>3, <3>2 DEF OnePointer, Pointers
        <4>2. QED
          BY <1>3, <4>1 DEF Closed
      <3>3. QED
        BY <3>1, <3>2
    <2>2. a \in Reach(nx, a) /\ a # Null /\ a \in Addr
      BY LoginDBAssumption, ReachSelf
    <2>3. U \subseteq T
      BY <1>1, <1>3, <1>5, <2>1, <2>2, ReachLeast
    <2>4. U \in SUBSET Addr /\ Closed(ny, U) /\ a \in U
      BY <1>1, ReachType, ReachClosed, ReachSelf
    <2>5. Reach(nx, a) \subseteq U \union {d}
      <3>1. CASE t \in U
        <4>1. nx[d] \in U \union {Null}
          BY <2>4, <3>1 DEF Closed, Pointers
        <4>2. Closed(nx, U \union {d})
          <5> SUFFICES ASSUME NEW x \in U \union {d} PROVE nx[x] \in U \union {d, Null}
            BY DEF Closed
          <5>1. x \in U /\ x # t => ny[x] = nx[x] /\ ny[x] \in U \union {Null}
            BY <2>4 DEF Closed, Pointers
          <5>2. x = t => nx[x] = d
            OBVIOUS
          <5>3. x = d => nx[x] \in U \union {Null}
            BY <4>1
          <5>4. QED
            BY <5>1, <5>2, <5>3
        <4>3. U \union {d} \in SUBSET Addr /\ {a} \ {Null} \subseteq U \union {d}
          BY <2>4
        <4>4. QED
          BY <2>2, <4>2, <4>3, ReachLeast
      <3>2. CASE t \notin U
        <4>1. Closed(nx, U)
          BY <2>4, <3>2 DEF Closed, Pointers
        <4>2. {a} \ {Null} \subseteq U
          BY <2>4
        <4>3. Reach(nx, a) \subseteq U
          BY <2>2, <2>4, <4>1, <4>2, ReachLeast
        <4>4. QED
          BY <4>3
      <3>3. QED
        BY <3>1, <3>2
    <2>6. QED
      BY <1>5, <2>3, <2>5
  <1>6. QED
    BY <1>4, <1>5

-----------------------------------------------------------------------------
(* The list.                                                               *)

Shape ==
    /\ head \in Addr \union {Null} /\ next \in Pointers
    /\ rec \in [Addr -> Login \union {Null}]
    /\ cpc \in {"idle", "cut", "delete", "save", "load", "astray"}
    /\ cur \in Addr \union {Null}

\* The pointer of the console: what is being removed is a node, points to the list or to
\* nothing until it is cut off, and to nothing afterwards; what is being saved is in the list.
ConsoleAt ==
    /\ cpc \in {"cut", "delete"} => cur \in Addr
    /\ cpc = "cut" => next[cur] \in Nodes(head) \union {Null}
    /\ cpc = "delete" => next[cur] = Null
    /\ cpc = "save" => cur \in Nodes(head)

ListInv == Shape /\ ListIsExact /\ OnePointer(next, Nodes(head)) /\ ConsoleAt

LEMMA ListFacts ==
    ASSUME ListInv
    PROVE  /\ Nodes(head) \in SUBSET Addr /\ Closed(next, Nodes(head))
           /\ Acyclic(next, Nodes(head)) /\ OnePointer(next, Nodes(head))
           /\ IsFiniteSet(Nodes(head)) /\ Length \in Nat
           /\ head # Null => head \in Nodes(head)
           /\ Cardinality(Removed) = IF cpc \in {"cut", "delete"} THEN 1 ELSE 0
           /\ count = (Length + Cardinality(Removed)) % W
           /\ \A a \in Nodes(head) : rec[a] # Null
           /\ \A a \in Addr : rec[a] # Null => a \in Nodes(head) \union Removed
  <1> USE DEF Shape, ListInv, Nodes
  <1>1. Nodes(head) \in SUBSET Addr /\ Closed(next, Nodes(head))
    BY ReachType, ReachClosed
  <1>2. IsFiniteSet(Nodes(head)) /\ Length \in Nat
    BY <1>1, FS_Subset, FS_CardinalityType, LoginDBAssumption DEF Length
  <1>3. Cardinality(Removed) = IF cpc \in {"cut", "delete"} THEN 1 ELSE 0
    BY FS_EmptySet, FS_Singleton DEF Removed
  <1>4. Acyclic(next, Nodes(head))
    BY DEF ListIsExact, Acyclic
  <1>5. head # Null => head \in Nodes(head)
    BY ReachSelf
  <1>6. QED
    BY <1>1, <1>2, <1>3, <1>4, <1>5 DEF ListIsExact, Allocated

\* An empty list: after the start, and after every restart.
Empty ==
    /\ head = Null /\ next = [a \in Addr |-> Null] /\ rec = [a \in Addr |-> Null] /\ count = 0
    /\ cpc = "idle" /\ cur = Null

LEMMA EmptyList == Empty => ListInv
  <1> SUFFICES ASSUME Empty PROVE ListInv
    OBVIOUS
  <1> USE DEF Empty
  <1>1. Shape
    BY DEF Shape, Pointers
  <1>2. Nodes(head) = {} /\ Removed = {} /\ Allocated = {}
    BY <1>1, ReachNull DEF Nodes, Removed, Allocated, Shape
  <1>3. ListIsExact
    <2>1. Length = 0 /\ Cardinality(Removed) = 0
      BY <1>2, FS_EmptySet DEF Length
    <2>2. (W * 0 + 0) % W = 0
      BY ModOf, LoginDBAssumption
    <2>3. 0 % W = 0
      BY <2>2, LoginDBAssumption
    <2>4. QED
      BY <1>2, <2>1, <2>3 DEF ListIsExact
  <1>4. QED
    BY <1>1, <1>2, <1>3 DEF ListInv, OnePointer, ConsoleAt

LEMMA EmptyListNext == Empty' => ListInv'
  BY EmptyList, PTL

\* A new login comes to the head of the list.
LEMMA AddedFirst ==
    ASSUME ListInv, NEW a \in Addr, NEW r \in Login, AddLogin(a, r),
           cpc \in {"idle", "load", "astray"}, cpc' \in {"idle", "load", "astray"}, cur' = cur
    PROVE  ListInv'
  <1> USE DEF Shape, ListInv, Nodes
  <1> DEFINE L == Nodes(head)
  <1>1. /\ L \in SUBSET Addr /\ Closed(next, L) /\ Acyclic(next, L) /\ OnePointer(next, L)
        /\ IsFiniteSet(L) /\ Length \in Nat /\ (head # Null => head \in L)
        /\ count = Length % W /\ (\A b \in L : rec[b] # Null)
        /\ (\A b \in Addr : rec[b] # Null => b \in L) /\ Removed = {} /\ Removed' = {}
    BY ListFacts DEF Removed
  <1>2. rec[a] = Null /\ a \notin L /\ head' = a /\ a # Null
    BY <1>1, LoginDBAssumption DEF AddLogin
  <1>3. next' \in Pointers /\ next'[a] = head /\ \A b \in L : next'[b] = next[b]
    BY <1>1, <1>2 DEF AddLogin, Pointers
  <1>4. /\ rec' \in [Addr -> Login \union {Null}] /\ rec'[a] # Null
        /\ \A b \in Addr \ {a} : rec'[b] = rec[b]
    BY LoginDBAssumption DEF AddLogin
  <1>5. Reach(next', head) = L
    BY <1>3, ReachFrame
  <1>6. Nodes(head)' = {a} \union L
    <2>1. Reach(next', a) = {a} \union Reach(next', head)
      BY <1>3, ReachStep
    <2>2. QED
      BY <1>2, <1>5, <2>1
  <1>7. \A b \in L : next[b] # Null => Reach(next', next[b]) = Reach(next, next[b])
    <2> SUFFICES ASSUME NEW b \in L, next[b] # Null
                 PROVE  Reach(next', next[b]) = Reach(next, next[b])
      OBVIOUS
    <2>1. next[b] \in L /\ next[b] \in Addr
      BY <1>1 DEF Closed
    <2>2. Reach(next, next[b]) \subseteq L
      BY <2>1, ReachWithin
    <2>3. \A x \in Reach(next, next[b]) : next'[x] = next[x]
      BY <1>3, <2>2
    <2>4. QED
      BY <1>3, <2>1, <2>3, ReachFrame
  <1>8. \A b \in Nodes(head)' : next'[b] # Null => b \notin Reach(next', next'[b])
    <2>1. \A b \in L : next'[b] # Null => b \notin Reach(next', next'[b])
      BY <1>1, <1>3, <1>7 DEF Acyclic
    <2>2. a \notin Reach(next', next'[a])
      BY <1>2, <1>3, <1>5
    <2>3. QED
      BY <1>6, <2>1, <2>2
  <1>9. \A b \in L : next[b] # head \/ head = Null
    <2> SUFFICES ASSUME NEW b \in L, next[b] = head, head # Null PROVE FALSE
      OBVIOUS
    <2>1. b \notin Reach(next, head)
      BY <1>1 DEF Acyclic
    <2>2. QED
      BY <2>1
  <1>10. OnePointer(next, Nodes(head))'
    <2>1. OnePointer(next', {a} \union L)
      BY <1>1, <1>3, <1>9 DEF OnePointer
    <2>2. QED
      BY <1>6, <2>1
  <1>11. Allocated' = Nodes(head)' \union Removed'
    BY <1>1, <1>4, <1>6 DEF Allocated
  <1>12. count' = (Length' + Cardinality(Removed')) % W
    <2>1. Length' = Length + 1
      <3>1. Cardinality(L \union {a}) = Cardinality(L) + 1
        <4>1. IsFiniteSet(L) /\ a \notin L
          BY <1>1, <1>2
        <4>2. QED
          BY <4>1, FS_AddElement
      <3>2. L \union {a} = Nodes(head)'
        BY <1>6
      <3>3. QED
        BY <3>1, <3>2 DEF Length
    <2>2. count' = (Length + 1) % W
      BY <1>1, CountUp DEF AddLogin
    <2>3. Cardinality(Removed') = 0
      BY <1>1, FS_EmptySet
    <2>4. QED
      BY <1>1, <2>1, <2>2, <2>3
  <1>13. Shape'
    BY <1>2, <1>3, <1>4
  <1>14. ListIsExact'
    BY <1>1, <1>8, <1>11, <1>12 DEF ListIsExact
  <1>15. QED
    BY <1>10, <1>13, <1>14 DEF ConsoleAt

\* What is taken out of the list stays allocated until it is deleted; the rest stays.
LEMMA TakenOut ==
    ASSUME ListInv, cpc = "idle", cpc' = "cut", UNCHANGED <<rec, count>>,
           NEW d \in Nodes(head), cur' = d, head' \in Addr \union {Null}, next' \in Pointers,
           Nodes(head)' = Nodes(head) \ {d}, next'[d] = next[d],
           \A x \in Nodes(head) \ {d} : next'[x] # Null =>
               x \notin Reach(next', next'[x]),
           OnePointer(next', Nodes(head) \ {d})
    PROVE  ListInv'
  <1> USE DEF Shape, ListInv
  <1>1. /\ Nodes(head) \in SUBSET Addr /\ Closed(next, Nodes(head)) /\ Acyclic(next, Nodes(head))
        /\ IsFiniteSet(Nodes(head)) /\ Length \in Nat /\ count = Length % W
        /\ (\A b \in Nodes(head) : rec[b] # Null)
        /\ (\A b \in Addr : rec[b] # Null => b \in Nodes(head)) /\ Removed' = {d}
    BY ListFacts DEF Removed
  <1>2. next[d] \in (Nodes(head) \ {d}) \union {Null}
    <2>1. next[d] \in Nodes(head) \union {Null}
      BY <1>1 DEF Closed
    <2>2. next[d] # d
      <3>1. next[d] # Null => d \notin Reach(next, next[d])
        BY <1>1 DEF Acyclic
      <3>2. QED
        BY <1>1, <2>1, <3>1, ReachSelf, LoginDBAssumption
    <2>3. QED
      BY <2>1, <2>2
  <1>3. Allocated' = Nodes(head)' \union Removed' /\ Nodes(head)' \intersect Removed' = {}
    BY <1>1 DEF Allocated
  <1>4. count' = (Length' + Cardinality(Removed')) % W
    <2>1. Length' = Length - 1
      BY <1>1, FS_RemoveElement DEF Length
    <2>2. Cardinality(Removed') = 1
      BY <1>1, FS_Singleton
    <2>3. QED
      BY <1>1, <2>1, <2>2
  <1>5. ListIsExact'
    BY <1>3, <1>4 DEF ListIsExact, Nodes
  <1>6. Shape' /\ ConsoleAt'
    BY <1>1, <1>2 DEF ConsoleAt
  <1>7. QED
    BY <1>5, <1>6

LEMMA FirstRemoved ==
    ASSUME ListInv, RemoveFirst
    PROVE  ListInv' /\ head \in Nodes(head) /\ Nodes(head)' = Nodes(head) \ {head}
  <1> USE DEF Shape, ListInv, Nodes
  <1>1. /\ Nodes(head) \in SUBSET Addr /\ Closed(next, Nodes(head)) /\ Acyclic(next, Nodes(head))
        /\ OnePointer(next, Nodes(head)) /\ (head # Null => head \in Nodes(head))
        /\ count = (Length + Cardinality(Removed)) % W
        /\ Cardinality(Removed) = IF cpc \in {"cut", "delete"} THEN 1 ELSE 0
    BY ListFacts
  <1>2. /\ cpc = "idle" /\ cpc' = "cut" /\ cur' = head /\ head' = next[head] /\ count > 0
        /\ UNCHANGED <<rec, count, next>>
    BY DEF RemoveFirst, Unlinked
  <1>3. head # Null
    <2> SUFFICES ASSUME head = Null PROVE FALSE
      OBVIOUS
    <2>1. Nodes(head) = {}
      BY ReachNull
    <2>2. Length = 0
      BY <2>1, FS_EmptySet DEF Length
    <2>3. (W * 0 + 0) % W = 0
      BY ModOf, LoginDBAssumption
    <2>4. QED
      BY <1>1, <1>2, <2>2, <2>3, LoginDBAssumption
  <1>4. head \in Nodes(head) /\ head \in Addr
    BY <1>1, <1>3
  <1>5. next[head] \in Addr \union {Null}
    BY <1>4 DEF Pointers
  <1>6. head \notin Reach(next, next[head])
    BY <1>1, <1>4, <1>5, ReachNull DEF Acyclic
  <1>7. Nodes(head) = {head} \union Reach(next, next[head])
    BY <1>4, ReachStep
  <1>8. Nodes(head)' = Nodes(head) \ {head}
    BY <1>2, <1>6, <1>7
  <1>9. \A x \in Nodes(head) \ {head} : next'[x] # Null => x \notin Reach(next', next'[x])
    BY <1>1, <1>2 DEF Acyclic
  <1>10. OnePointer(next', Nodes(head) \ {head})
    BY <1>1, <1>2 DEF OnePointer
  <1>11. QED
    BY <1>2, <1>4, <1>5, <1>8, <1>9, <1>10, TakenOut

\* The node behind `temp' is taken out; what else is reached stays as it was.
LEMMA LaterRemoved ==
    ASSUME ListInv, NEW temp \in Addr, RemoveLater(temp)
    PROVE  /\ ListInv' /\ next[temp] \in Nodes(head)
           /\ \A a \in Nodes(head) : Reach(next', a) =
                 IF a = next[temp] THEN Reach(next, a) ELSE Reach(next, a) \ {next[temp]}
  <1> USE DEF Shape, ListInv, Nodes
  <1> DEFINE L == Nodes(head)
             d == next[temp]
  <1>1. /\ L \in SUBSET Addr /\ Closed(next, L) /\ Acyclic(next, L)
        /\ OnePointer(next, L) /\ (head # Null => head \in L)
    BY ListFacts
  <1>2. /\ cpc = "idle" /\ cpc' = "cut" /\ cur' = d /\ temp \in L /\ d # Null
        /\ UNCHANGED <<rec, count, head>>
    BY DEF RemoveLater, Unlinked
  <1>3. d \in L /\ d \in Addr
    BY <1>1, <1>2 DEF Closed
  <1>4. next' = [next EXCEPT ![temp] = next[d]]
    BY DEF RemoveLater
  <1>5. next' \in Pointers
    BY <1>3, <1>4 DEF Pointers
  <1>6. \A a \in L : Reach(next', a) = IF a = d THEN Reach(next, a) ELSE Reach(next, a) \ {d}
    <2> SUFFICES ASSUME NEW a \in L
                 PROVE  Reach(next', a) = IF a = d THEN Reach(next, a) ELSE Reach(next, a) \ {d}
      OBVIOUS
    <2>1. next \in Pointers /\ temp \in L /\ d \in Addr /\ d = next[temp]
      BY <1>2, <1>3
    <2>2. PICK M : M = L
      OBVIOUS
    <2>3. M \in SUBSET Addr /\ Closed(next, M) /\ Acyclic(next, M) /\ OnePointer(next, M)
      BY <1>1, <2>2
    <2>4. temp \in M /\ a \in M
      BY <1>2, <2>2
    <2>5. PICK e \in Addr : e = next[temp]
      BY <2>1
    <2>6. next' \in Pointers /\ next'[temp] = next[e] /\ \A x \in Addr \ {temp} : next'[x] = next[x]
      BY <1>4, <1>5, <2>5 DEF Pointers
    <2>7. Reach(next', a) = IF a = e THEN Reach(next, a) ELSE Reach(next, a) \ {e}
      BY <2>1, <2>3, <2>4, <2>5, <2>6, ReachUnlinked
    <2>8. QED
      BY <2>5, <2>7
  <1>7. d \notin Reach(next, next[d])
    BY <1>1, <1>3, ReachNull DEF Acyclic, Pointers
  <1>8. temp \notin Reach(next, d)
    BY <1>1, <1>2 DEF Acyclic
  <1>9. temp # d /\ head # Null
    <2>1. temp # d
      BY <1>3, <1>8, ReachSelf
    <2>2. head # Null
      BY <1>2, ReachNull
    <2>3. QED
      BY <2>1, <2>2
  <1>10. head # d
    <2>1. head = d => FALSE
      BY <1>2, <1>8
    <2>2. QED
      BY <2>1
  <1>11. Nodes(head)' = L \ {d}
    BY <1>1, <1>2, <1>6, <1>9, <1>10
  <1>12. next'[d] = next[d] /\ next'[temp] = next[d] /\ \A x \in L \ {temp} : next'[x] = next[x]
    BY <1>1, <1>2, <1>4, <1>9 DEF Pointers
  <1>13. ASSUME NEW x \in L \ {d}, next'[x] # Null
         PROVE  x \notin Reach(next', next'[x])
    <2>1. CASE x = temp
      <3>1. next[d] \in L /\ next[d] # d
        BY <1>1, <1>3, <1>7, <1>12, <1>13, <2>1, ReachSelf DEF Closed
      <3>2. Reach(next', next[d]) \subseteq Reach(next, next[d])
        BY <1>6, <3>1
      <3>3. Reach(next, next[d]) \subseteq Reach(next, d)
        BY <1>3, <3>1, ReachStep
      <3>4. QED
        BY <1>8, <1>12, <2>1, <3>2, <3>3
    <2>2. CASE x # temp
      <3>1. next'[x] = next[x] /\ next[x] \in L
        BY <1>1, <1>12, <1>13, <2>2 DEF Closed
      <3>2. Reach(next', next[x]) \subseteq Reach(next, next[x])
        BY <1>6, <3>1
      <3>3. x \notin Reach(next, next[x])
        BY <1>1, <1>13, <3>1 DEF Acyclic
      <3>4. QED
        BY <3>1, <3>2, <3>3
    <2>3. QED
      BY <2>1, <2>2
  <1>14. OnePointer(next', L \ {d})
    <2> SUFFICES ASSUME NEW x \in L \ {d}, NEW y \in L \ {d}, next'[x] = next'[y], next'[x] # Null
                 PROVE  x = y
      BY DEF OnePointer
    <2>1. x # temp /\ y # temp => x = y
      BY <1>1, <1>12 DEF OnePointer
    <2>2. x = temp /\ y # temp => next[d] = next[y] /\ next[d] # Null
      BY <1>12
    <2>3. y = temp /\ x # temp => next[d] = next[x] /\ next[d] # Null
      BY <1>12
    <2>4. QED
      BY <1>1, <1>3, <2>1, <2>2, <2>3 DEF OnePointer
  <1>15. ListInv'
    BY <1>2, <1>3, <1>5, <1>11, <1>12, <1>13, <1>14, TakenOut
  <1>16. QED
    BY <1>3, <1>6, <1>15

\* What is not in the list does not matter to it.
LEMMA CutOff ==
    ASSUME ListInv, Cut
    PROVE  ListInv' /\ \A a \in Nodes(head) \union {Null} : Nodes(a)' = Nodes(a)
  <1> USE DEF Shape, ListInv, Nodes
  <1> DEFINE L == Nodes(head)
  <1>1. /\ L \in SUBSET Addr /\ Closed(next, L) /\ Acyclic(next, L) /\ OnePointer(next, L)
    BY ListFacts
  <1>2. /\ cpc = "cut" /\ cpc' = "delete" /\ cur \in Addr /\ cur \notin L
        /\ UNCHANGED <<rec, count, head, cur>>
    BY DEF Cut, ConsoleAt, ListIsExact, Removed
  <1>3. /\ next' = [next EXCEPT ![cur] = Null] /\ next' \in Pointers /\ next'[cur] = Null
        /\ \A x \in L : next'[x] = next[x]
    BY <1>1, <1>2 DEF Cut, Pointers
  <1>4. \A a \in L \union {Null} : Reach(next', a) = Reach(next, a)
    <2> SUFFICES ASSUME NEW a \in L \union {Null} PROVE Reach(next', a) = Reach(next, a)
      OBVIOUS
    <2>1. Reach(next, a) \subseteq L
      BY ReachWithin
    <2>2. \A x \in Reach(next, a) : next'[x] = next[x]
      BY <1>3, <2>1
    <2>3. QED
      BY <1>1, <1>3, <2>2, ReachFrame
  <1>5. head \in L \union {Null}
    BY ListFacts
  <1>6. Nodes(head)' = L
    BY <1>2, <1>4, <1>5
  <1>7. \A x \in L : next'[x] # Null => x \notin Reach(next', next'[x])
    BY <1>1, <1>3, <1>4 DEF Acyclic, Closed
  <1>8. Removed' = Removed /\ Length' = Length /\ Allocated' = Allocated
    BY <1>2, <1>6 DEF Removed, Length, Allocated
  <1>9. ListIsExact'
    BY <1>2, <1>6, <1>7, <1>8 DEF ListIsExact
  <1>10. OnePointer(next', L)
    BY <1>1, <1>3 DEF OnePointer
  <1>11. ListInv'
    BY <1>2, <1>3, <1>6, <1>9, <1>10 DEF ConsoleAt
  <1>12. QED
    BY <1>2, <1>4, <1>11

\* delete takes the one login that was cut off, and none behind it.
LEMMA Deleted ==
    ASSUME ListInv, Delete
    PROVE  /\ ListInv' /\ UNCHANGED next /\ cur \in Addr
           /\ rec' = [rec EXCEPT ![cur] = Null]
  <1> USE DEF Shape, ListInv
  <1>1. cpc = "delete" /\ cur \in Addr /\ next[cur] = Null /\ cur # Null
    BY LoginDBAssumption DEF Delete, ConsoleAt
  <1>2. Nodes(cur) = {cur}
    BY <1>1, ReachStep, ReachNull DEF Nodes
  <1>3. UNCHANGED <<next, head>> /\ rec' = [rec EXCEPT ![cur] = Null] /\ cpc' = "idle" /\ cur' = Null
    BY <1>1, <1>2 DEF Delete, Pointers
  <1>4. Nodes(head)' = Nodes(head) /\ Length' = Length
    BY <1>3 DEF Nodes, Length
  <1>5. Removed = {cur} /\ Removed' = {} /\ Nodes(head) \intersect Removed = {}
    BY <1>1, <1>3 DEF Removed, ListIsExact
  <1>6. Allocated' = Nodes(head)'
    BY <1>1, <1>3, <1>4, <1>5 DEF Allocated, ListIsExact
  <1>7. count' = (Length' + Cardinality(Removed')) % W
    <2>1. Length \in Nat /\ count = (Length + Cardinality(Removed)) % W /\ Cardinality(Removed) = 1
      BY <1>1, ListFacts
    <2>2. count' = (((Length + 1) % W) - 1) % W
      BY <2>1 DEF Delete
    <2>3. count' = Length % W
      BY <2>1, <2>2, CountDown
    <2>4. Cardinality(Removed') = 0
      BY <1>5, FS_EmptySet
    <2>5. QED
      BY <1>4, <2>1, <2>3, <2>4
  <1>8. ListIsExact'
    BY <1>3, <1>4, <1>5, <1>6, <1>7 DEF ListIsExact, Nodes
  <1>9. QED
    BY <1>1, <1>3, <1>4, <1>8 DEF OnePointer, ConsoleAt

\* The steps that leave the list and the pointer of the console as they are.
LEMMA Untouched ==
    ASSUME ListInv, UNCHANGED db, cpc \notin {"cut", "delete"},
           cpc' \in {"idle", "save", "load", "astray"}, cur' \in Addr \union {Null},
           cpc' = "save" => cur' \in Nodes(head)
    PROVE  ListInv'
  <1>1. Removed = {} /\ Removed' = {}
    BY DEF Removed
  <1>2. Nodes(head)' = Nodes(head) /\ Length' = Length /\ Allocated' = Allocated
    BY DEF Nodes, Length, Allocated, db
  <1>3. ListIsExact'
    BY <1>1, <1>2 DEF ListInv, ListIsExact, Nodes, db
  <1>4. QED
    BY <1>2, <1>3 DEF ListInv, Shape, ConsoleAt, db

-----------------------------------------------------------------------------
(* The file.                                                               *)

\* What a save writes: a header has the number of folders the login was entered with,
\* as far as a byte goes.
Written == {x \in Item : /\ x.cred = Null => x = Line
                         /\ x.cred \in Creds => x.n = Lines[x.cred] % FW}

FileInv == file \in Seq(Written) /\ pos \in Nat \ {0} /\ FoldersKept

LEMMA RecordWritten ==
    ASSUME NEW r \in Login,
           r.cred # Garbage => r.folders \in {Lines[r.cred], Lines[r.cred] % FW}
    PROVE  Record(r) \in Seq(Written)
  <1> DEFINE h == [cred |-> r.cred, n |-> r.folders % FW]
             f == [i \in 1..r.folders |-> Line]
  <1>1. r.cred \in Creds \union {Garbage} /\ r.folders \in Nat /\ r.cred # Null
    BY LoginDBAssumption DEF Login
  <1>2. r.folders % FW \in 0..FW - 1 /\ (r.folders % FW) % FW = r.folders % FW
    BY <1>1, ModAgain, LoginDBAssumption
  <1>3. r.cred \in Creds => r.folders % FW = Lines[r.cred] % FW
    <2> SUFFICES ASSUME r.cred \in Creds PROVE r.folders % FW = Lines[r.cred] % FW
      OBVIOUS
    <2>1. Lines[r.cred] \in Nat /\ r.cred # Garbage
      BY LoginDBAssumption
    <2>2. (Lines[r.cred] % FW) % FW = Lines[r.cred] % FW
      BY <2>1, ModAgain, LoginDBAssumption
    <2>3. QED
      BY <2>1, <2>2
  <1>4. h \in Written
    BY <1>1, <1>2, <1>3 DEF Written, Item
  <1>5. 0 \in 0..FW - 1
    BY LoginDBAssumption
  <1>6. Line \in Written
    BY <1>5, LoginDBAssumption DEF Written, Item, Line
  <1>7. f \in Seq(Written)
    BY <1>1, <1>6
  <1>8. <<h>> \in Seq(Written)
    BY <1>4
  <1>9. QED
    BY <1>7, <1>8 DEF Record

\* What is loaded is a login, with the folders it was entered with.
LEMMA RecordLoaded ==
    ASSUME FileInv, pos <= Len(file), file[pos] # Line,
           NEW r, r = [cred |-> file[pos].cred, folders |-> file[pos].n]
    PROVE  /\ r \in Login /\ pos + 1 + file[pos].n \in Nat \ {0}
           /\ r.cred # Garbage => r.folders = Lines[r.cred] % FW
  <1>1. file[pos] \in Written
    BY DEF FileInv
  <1>2. PICK x \in Written : x = file[pos]
    BY <1>1
  <1>3. x.cred \in Creds \union {Garbage} /\ x.n \in Nat
    BY <1>2, LoginDBAssumption DEF Written, Item
  <1>4. x.cred # Garbage => x.n = Lines[x.cred] % FW
    BY <1>3 DEF Written
  <1>5. r = [cred |-> x.cred, folders |-> x.n]
    BY <1>2
  <1>6. QED
    BY <1>2, <1>3, <1>4, <1>5 DEF Login, FileInv

-----------------------------------------------------------------------------
(* Every step keeps the list and the file.                                 *)

LEMMA DieKeeps ==
    ASSUME Die, FileInv
    PROVE  ListInv' /\ FileInv' /\ dpc' = "idle" /\ dcur' = Null
  <1>1. ListInv'
    <2>1. Empty'
      BY DEF Die, Empty
    <2>2. QED
      BY <2>1, EmptyListNext
  <1>2. FoldersKept'
    BY DEF Die, FoldersKept, Allocated
  <1>3. file' \in Seq(Written)
    <2>1. CASE cpc = "save"
      <3>1. PICK k \in 0..Len(file) : file' = SubSeq(file, 1, k)
        BY <2>1 DEF Die
      <3>2. QED
        BY <3>1 DEF FileInv
    <2>2. CASE cpc # "save"
      BY <2>2 DEF Die, FileInv
    <2>3. QED
      BY <2>1, <2>2
  <1>4. QED
    BY <1>1, <1>2, <1>3 DEF Die, FileInv

\* A login that is added with the folders it was entered with, or with the byte of them.
LEMMA AddedKeeps ==
    ASSUME FileInv, ListInv, NEW a \in Addr, NEW r \in Login, AddLogin(a, r),
           r.cred # Garbage => r.folders \in {Lines[r.cred], Lines[r.cred] % FW}
    PROVE  FoldersKept'
  <1>1. rec \in [Addr -> Login \union {Null}]
    BY DEF ListInv, Shape
  <1>2. rec'[a] = r /\ \A b \in Addr \ {a} : rec'[b] = rec[b]
    BY <1>1 DEF AddLogin
  <1>3. QED
    BY <1>2 DEF FileInv, FoldersKept, Allocated

LEMMA ConsoleKeeps ==
    ASSUME ListInv, FileInv, Next
    PROVE  ListInv' /\ FileInv'
  <1>1. ASSUME NEW a \in Addr, NEW c \in Creds, Input(a, c)
        PROVE  ListInv' /\ FileInv'
    <2>1. PICK r \in Login : r = [cred |-> c, folders |-> Lines[c]]
      BY LoginDBAssumption DEF Login
    <2>2. AddLogin(a, r) /\ cpc = "idle" /\ UNCHANGED console
      BY <1>1, <2>1 DEF Input
    <2>3. r.folders = Lines[r.cred]
      BY <2>1
    <2>4. ListInv'
      BY <2>2, AddedFirst DEF console
    <2>5. FoldersKept'
      BY <2>2, <2>3, AddedKeeps
    <2>6. QED
      BY <2>2, <2>4, <2>5 DEF FileInv, console
  <1>2. ASSUME NEW a \in Addr, LoadRecord(a)
        PROVE  ListInv' /\ FileInv'
    <2>1. PICK r : r = [cred |-> file[pos].cred, folders |-> file[pos].n]
      OBVIOUS
    <2>2. /\ AddLogin(a, r) /\ pos <= Len(file) /\ file[pos] # Line
          /\ cpc = "load" /\ UNCHANGED <<cpc, cur, file>> /\ pos' = pos + 1 + file[pos].n
      BY <1>2, <2>1 DEF LoadRecord
    <2>3. /\ r \in Login /\ pos' \in Nat \ {0}
          /\ r.cred # Garbage => r.folders = Lines[r.cred] % FW
      BY <2>1, <2>2, RecordLoaded
    <2>4. ListInv'
      BY <2>2, <2>3, AddedFirst
    <2>5. FoldersKept'
      BY <2>2, <2>3, AddedKeeps
    <2>6. QED
      BY <2>2, <2>3, <2>4, <2>5 DEF FileInv
  <1>3. ASSUME NEW a \in Addr, LoadGarbage(a)
        PROVE  ListInv' /\ FileInv'
    <2>1. PICK r \in Login : r = [cred |-> Garbage, folders |-> 0]
      BY DEF Login
    <2>2. AddLogin(a, r) /\ cpc = "astray" /\ UNCHANGED console /\ r.cred = Garbage
      BY <1>3, <2>1 DEF LoadGarbage
    <2>3. ListInv'
      BY <2>2, AddedFirst DEF console
    <2>4. FoldersKept'
      BY <2>2, AddedKeeps
    <2>5. QED
      BY <2>2, <2>3, <2>4 DEF FileInv, console
  <1>4. CASE RemoveFirst
    BY <1>4, FirstRemoved DEF RemoveFirst, Unlinked, FileInv, FoldersKept, Allocated
  <1>5. ASSUME NEW a \in Addr, RemoveLater(a)
        PROVE  ListInv' /\ FileInv'
    BY <1>5, LaterRemoved DEF RemoveLater, Unlinked, FileInv, FoldersKept, Allocated
  <1>6. CASE Cut
    BY <1>6, CutOff DEF Cut, FileInv, FoldersKept, Allocated
  <1>7. CASE Delete
    <2>1. ListInv' /\ rec' = [rec EXCEPT ![cur] = Null] /\ UNCHANGED <<file, pos>>
      BY <1>7, Deleted DEF Delete
    <2>2. \A a \in Addr : rec'[a] = rec[a] \/ rec'[a] = Null
      BY <2>1 DEF ListInv, Shape
    <2>3. QED
      BY <2>1, <2>2 DEF FileInv, FoldersKept, Allocated
  <1>8. CASE Die \/ LoadCrash \/ \E a \in Addr : RemoveCrash(a)
    BY <1>8, DieKeeps DEF LoadCrash, RemoveCrash
  <1>9. CASE StartSave
    <2>1. head \in Nodes(head)
      BY <1>9, ListFacts DEF StartSave
    <2>2. ListInv'
      BY <1>9, <2>1, Untouched DEF StartSave, ListInv, Shape
    <2>3. QED
      BY <1>9, <2>2 DEF StartSave, FileInv, FoldersKept, Allocated, db
  <1>10. CASE SaveNext
    <2>1. cur \in Nodes(head) /\ rec[cur] # Null /\ cur \in Addr /\ Closed(next, Nodes(head))
      BY <1>10, ListFacts DEF SaveNext, ListInv, ConsoleAt
    <2>2. rec[cur] \in Login
      BY <2>1 DEF ListInv, Shape
    <2>3. rec[cur].cred # Garbage => rec[cur].folders \in {Lines[rec[cur].cred], Lines[rec[cur].cred] % FW}
      BY <2>1 DEF FileInv, FoldersKept, Allocated
    <2>4. Record(rec[cur]) \in Seq(Written)
      BY <2>2, <2>3, RecordWritten
    <2>5. file' \in Seq(Written)
      BY <1>10, <2>4 DEF SaveNext, FileInv
    <2>6. next[cur] \in Nodes(head) \union {Null} /\ next[cur] \in Addr \union {Null}
      BY <2>1 DEF Closed, ListInv, Shape, Pointers
    <2>7. UNCHANGED db /\ cpc = "save" /\ cur' = next[cur] /\ UNCHANGED pos
      BY <1>10 DEF SaveNext
    <2>8. cpc' = IF next[cur] = Null THEN "idle" ELSE "save"
      BY <1>10 DEF SaveNext
    <2>9. ListInv'
      BY <2>6, <2>7, <2>8, Untouched
    <2>10. QED
      BY <2>5, <2>7, <2>9 DEF FileInv, FoldersKept, Allocated, db
  <1>11. CASE StartLoad \/ LoadEnd \/ LoseTrack \/ LoadGivesUp
    <2>1. /\ UNCHANGED <<db, cur, file>> /\ cpc \in {"idle", "load", "astray"}
          /\ cpc' \in {"idle", "load", "astray"} /\ pos' \in {pos, 1}
      BY <1>11 DEF StartLoad, LoadEnd, LoseTrack, LoadGivesUp
    <2>2. ListInv'
      BY <2>1, Untouched DEF ListInv, Shape
    <2>3. QED
      BY <2>1, <2>2 DEF FileInv, FoldersKept, Allocated, db
  <1>12. ASSUME UNCHANGED <<db, console>>
         PROVE  ListInv' /\ FileInv'
    <2>1. ListInv'
      BY <1>12 DEF ListInv, ListIsExact, Shape, ConsoleAt, Nodes, Removed, Allocated, Length,
                   OnePointer, db, console
    <2>2. QED
      BY <1>12, <2>1 DEF FileInv, FoldersKept, Allocated, db, console
  <1>13. CASE Match \/ Pass \/ NotFound \/ \E c \in Creds : StartCheck(c)
    BY <1>12, <1>13 DEF Match, Pass, NotFound, StartCheck, CheckEnds
  <1>14. CASE Stray
    BY <1>12, <1>14, DieKeeps DEF Stray, CheckEnds
  <1>15. QED
    BY <1>1, <1>2, <1>3, <1>4, <1>5, <1>6, <1>7, <1>8, <1>9, <1>10, <1>11, <1>13, <1>14
       DEF Next

-----------------------------------------------------------------------------
(* A check beside the console.                                             *)

\* A check that no removal met stands on a node of the list, or on the one that was just
\* unlinked and still points to the list; and what it looked for when it began is found
\* from there on exactly if it was found then.
WalkInv ==
    /\ dcur \in Addr \union {Null}
    /\ dpc = "walk" /\ ~disturbed =>
         /\ dcur \in Nodes(head) \union {Null} \union (IF cpc = "cut" THEN {cur} ELSE {})
         /\ had <=> \E b \in Nodes(dcur) : rec[b].cred = asked

LEMMA WalkAdded ==
    ASSUME ListInv, WalkInv, NEW a \in Addr, NEW r \in Login, AddLogin(a, r),
           cpc \in {"idle", "load", "astray"}, UNCHANGED check
    PROVE  WalkInv'
  <1> USE DEF ListInv, Shape, Nodes
  <1> DEFINE L == Nodes(head)
  <1>1. /\ L \in SUBSET Addr /\ Closed(next, L) /\ (head # Null => head \in L)
        /\ (\A b \in L : rec[b] # Null)
    BY ListFacts
  <1>2. rec[a] = Null /\ a \notin L /\ head' = a /\ a # Null
    BY <1>1, LoginDBAssumption DEF AddLogin
  <1>3. next' \in Pointers /\ next'[a] = head /\ \A b \in L : next'[b] = next[b]
    BY <1>1, <1>2 DEF AddLogin, Pointers
  <1>4. \A b \in L : rec'[b] = rec[b]
    BY <1>1, <1>2 DEF AddLogin
  <1>5. \A b \in L \union {Null} : Reach(next', b) = Reach(next, b) /\ Reach(next, b) \subseteq L
    <2> SUFFICES ASSUME NEW b \in L \union {Null}
                 PROVE  Reach(next', b) = Reach(next, b) /\ Reach(next, b) \subseteq L
      OBVIOUS
    <2>1. Reach(next, b) \subseteq L /\ b \in Addr \union {Null}
      BY <1>1, ReachWithin
    <2>2. \A x \in Reach(next, b) : next'[x] = next[x]
      BY <1>3, <2>1
    <2>3. QED
      BY <1>3, <2>1, <2>2, ReachFrame
  <1>6. L \subseteq Nodes(head)'
    <2>1. Reach(next', a) = {a} \union Reach(next', head)
      BY <1>3, ReachStep
    <2>2. Reach(next', head) = L
      BY <1>1, <1>5
    <2>3. QED
      BY <1>2, <2>1, <2>2
  <1>7. UNCHANGED <<dpc, dcur, asked, had, disturbed>>
    BY DEF check
  <1>8. CASE dpc = "walk" /\ ~disturbed
    <2>1. dcur \in L \union {Null} /\ (had <=> \E b \in Nodes(dcur) : rec[b].cred = asked)
      BY <1>8 DEF WalkInv
    <2>2. Reach(next', dcur) = Reach(next, dcur) /\ Reach(next, dcur) \subseteq L
      BY <1>5, <2>1
    <2>3. (\E b \in Reach(next', dcur) : rec'[b].cred = asked) <=> \E b \in Reach(next, dcur) : rec[b].cred = asked
      BY <1>4, <2>2
    <2>4. QED
      BY <1>6, <1>7, <2>1, <2>3 DEF WalkInv
  <1>9. CASE ~(dpc = "walk" /\ ~disturbed)
    BY <1>7, <1>9 DEF WalkInv
  <1>10. QED
    BY <1>8, <1>9

\* What is taken out is not what was looked for, or the check is disturbed.
LEMMA WalkUnlinked ==
    ASSUME ListInv, WalkInv, NEW d \in Nodes(head), Unlinked(d), cpc = "idle",
           Nodes(head) \ {d} \subseteq Nodes(head)',
           \A a \in Nodes(head) \union {Null} : Nodes(a)' \in {Nodes(a), Nodes(a) \ {d}}
    PROVE  WalkInv'
  <1>1. UNCHANGED <<rec, dpc, dcur, asked, had>> /\ cpc' = "cut" /\ cur' = d
    BY DEF Unlinked
  <1>2. CASE dpc = "walk" /\ ~disturbed'
    <2>1. ~disturbed /\ rec[d].cred # asked
      BY <1>2 DEF Unlinked
    <2>2. /\ dcur \in Nodes(head) \union {Null}
          /\ had <=> \E b \in Nodes(dcur) : rec[b].cred = asked
      BY <1>2, <2>1 DEF WalkInv
    <2>3. Nodes(dcur)' \in {Reach(next, dcur), Reach(next, dcur) \ {d}}
      <3>1. PICK a \in Nodes(head) \union {Null} : a = dcur
        BY <2>2
      <3>2. Nodes(a)' \in {Nodes(a), Nodes(a) \ {d}}
        BY <3>1
      <3>3. QED
        BY <1>1, <3>1, <3>2 DEF Nodes
    <2>4. (\E b \in Nodes(dcur)' : rec[b].cred = asked) <=> \E b \in Reach(next, dcur) : rec[b].cred = asked
      BY <2>1, <2>3
    <2>5. QED
      BY <1>1, <2>2, <2>4 DEF WalkInv, Nodes
  <1>3. CASE ~(dpc = "walk" /\ ~disturbed')
    BY <1>1, <1>3 DEF WalkInv
  <1>4. QED
    BY <1>2, <1>3

\* The console's other steps do not touch what the check reads.
LEMMA WalkBeside ==
    ASSUME WalkInv, UNCHANGED <<db, check>>, cpc # "cut"
    PROVE  WalkInv'
  BY DEF WalkInv, Nodes, db, check

LEMMA WalkKeeps ==
    ASSUME ListInv, FileInv, WalkInv, Next
    PROVE  WalkInv'
  <1> USE DEF ListInv, Shape
  <1>1. ASSUME NEW a \in Addr, NEW c \in Creds, Input(a, c)
        PROVE  WalkInv'
    <2>1. PICK r \in Login : r = [cred |-> c, folders |-> Lines[c]]
      BY LoginDBAssumption DEF Login
    <2>2. AddLogin(a, r) /\ cpc = "idle" /\ UNCHANGED check
      BY <1>1, <2>1 DEF Input
    <2>3. QED
      BY <2>2, WalkAdded
  <1>2. ASSUME NEW a \in Addr, LoadRecord(a)
        PROVE  WalkInv'
    <2>1. PICK r : r = [cred |-> file[pos].cred, folders |-> file[pos].n]
      OBVIOUS
    <2>2. /\ AddLogin(a, r) /\ pos <= Len(file) /\ file[pos] # Line
          /\ cpc = "load" /\ UNCHANGED check
      BY <1>2, <2>1 DEF LoadRecord
    <2>3. r \in Login
      BY <2>1, <2>2, RecordLoaded
    <2>4. QED
      BY <2>2, <2>3, WalkAdded
  <1>3. ASSUME NEW a \in Addr, LoadGarbage(a)
        PROVE  WalkInv'
    <2>1. PICK r \in Login : r = [cred |-> Garbage, folders |-> 0]
      BY DEF Login
    <2>2. AddLogin(a, r) /\ cpc = "astray" /\ UNCHANGED check
      BY <1>3, <2>1 DEF LoadGarbage
    <2>3. QED
      BY <2>2, WalkAdded
  <1>4. CASE RemoveFirst
    <2>1. head \in Nodes(head) /\ Nodes(head)' = Nodes(head) \ {head} /\ UNCHANGED next
      BY <1>4, FirstRemoved DEF RemoveFirst
    <2>2. \A a \in Nodes(head) \union {Null} : Nodes(a)' = Nodes(a)
      BY <2>1 DEF Nodes
    <2>3. PICK d \in Nodes(head) : d = head
      BY <2>1
    <2>4. Unlinked(d) /\ cpc = "idle"
      BY <1>4, <2>3 DEF RemoveFirst
    <2>5. Nodes(head) \ {d} \subseteq Nodes(head)'
      BY <2>1, <2>3
    <2>6. \A a \in Nodes(head) \union {Null} : Nodes(a)' \in {Nodes(a), Nodes(a) \ {d}}
      BY <2>2
    <2>7. QED
      BY <2>4, <2>5, <2>6, WalkUnlinked
  <1>5. ASSUME NEW t \in Addr, RemoveLater(t)
        PROVE  WalkInv'
    <2>1. PICK d \in Nodes(head) : d = next[t]
      BY <1>5, LaterRemoved
    <2>2. Unlinked(d) /\ cpc = "idle" /\ UNCHANGED head /\ next' = [next EXCEPT ![t] = next[d]]
      BY <1>5, <2>1 DEF RemoveLater
    <2>3. \A a \in Nodes(head) : Reach(next', a) \in {Reach(next, a), Reach(next, a) \ {d}}
      BY <1>5, <2>1, LaterRemoved
    <2>4. Reach(next', Null) = {} /\ Reach(next, Null) = {}
      <3>1. Nodes(head) \in SUBSET Addr /\ Closed(next, Nodes(head))
        BY ListFacts
      <3>2. next[d] \in Addr \union {Null} /\ next \in Pointers
        BY <3>1 DEF Pointers
      <3>3. next' \in Pointers
        BY <2>2, <3>2 DEF Pointers
      <3>4. QED
        BY <3>2, <3>3, ReachNull
    <2>5. \A a \in Nodes(head) \union {Null} : Nodes(a)' \in {Nodes(a), Nodes(a) \ {d}}
      BY <2>3, <2>4 DEF Nodes
    <2>6. head \in Nodes(head)
      BY <2>1, <2>4, ListFacts DEF Nodes
    <2>7. Nodes(head) \ {d} \subseteq Nodes(head)'
      BY <2>2, <2>3, <2>6 DEF Nodes
    <2>8. QED
      BY <2>2, <2>5, <2>7, WalkUnlinked
  <1>6. CASE Cut
    <2>1. \A a \in Nodes(head) \union {Null} : Nodes(a)' = Nodes(a)
      BY <1>6, CutOff
    <2>2. /\ cpc = "cut" /\ cpc' = "delete" /\ UNCHANGED <<head, rec, dpc, dcur, asked, had>>
          /\ disturbed' = (disturbed \/ dcur = cur)
      BY <1>6 DEF Cut
    <2>3. CASE dpc = "walk" /\ ~disturbed'
      <3>1. ~disturbed /\ dcur # cur
        BY <2>2, <2>3
      <3>2. /\ dcur \in Nodes(head) \union {Null}
            /\ had <=> \E b \in Nodes(dcur) : rec[b].cred = asked
        BY <2>3, <3>1 DEF WalkInv
      <3>3. Reach(next', dcur) = Reach(next, dcur)
        BY <2>1, <3>2 DEF Nodes
      <3>4. Reach(next', head) = Reach(next, head)
        BY <2>1, ListFacts DEF Nodes
      <3>5. QED
        BY <2>2, <3>2, <3>3, <3>4 DEF WalkInv, Nodes
    <2>4. CASE ~(dpc = "walk" /\ ~disturbed')
      BY <2>2, <2>4 DEF WalkInv
    <2>5. QED
      BY <2>3, <2>4
  <1>7. CASE Delete
    <2>1. /\ UNCHANGED next /\ cur \in Addr /\ rec' = [rec EXCEPT ![cur] = Null]
      BY <1>7, Deleted
    <2>2. /\ cpc = "delete" /\ cpc' = "idle" /\ UNCHANGED <<head, check>>
          /\ cur \notin Nodes(head) /\ Nodes(head) \in SUBSET Addr
      BY <1>7, ListFacts DEF Delete, ListIsExact, Removed
    <2>3. CASE dpc = "walk" /\ ~disturbed
      <3>1. /\ dcur \in Nodes(head) \union {Null}
            /\ had <=> \E b \in Nodes(dcur) : rec[b].cred = asked
        BY <2>2, <2>3 DEF WalkInv
      <3>2. Reach(next, dcur) \subseteq Nodes(head)
        BY <3>1, ReachWithin DEF Nodes
      <3>3. \A b \in Reach(next, dcur) : rec'[b] = rec[b]
        BY <2>1, <2>2, <3>2
      <3>4. QED
        BY <2>1, <2>2, <3>1, <3>3 DEF WalkInv, Nodes, check
    <2>4. CASE ~(dpc = "walk" /\ ~disturbed)
      BY <2>2, <2>4 DEF WalkInv, check
    <2>5. QED
      BY <2>3, <2>4
  <1>8. CASE Die \/ LoadCrash \/ \E a \in Addr : RemoveCrash(a)
    BY <1>8, DieKeeps DEF LoadCrash, RemoveCrash, WalkInv
  <1>9. CASE StartSave \/ SaveNext \/ StartLoad \/ LoadEnd \/ LoseTrack \/ LoadGivesUp
    <2>1. UNCHANGED <<db, check>> /\ cpc # "cut" /\ cpc' # "cut"
      BY <1>9 DEF StartSave, SaveNext, StartLoad, LoadEnd, LoseTrack, LoadGivesUp
    <2>2. QED
      BY <2>1, WalkBeside DEF WalkInv, Nodes, db, check
  <1>10. CASE \E c \in Creds : StartCheck(c)
    <2>1. head \in Nodes(head) \union {Null}
      BY ListFacts
    <2>2. QED
      BY <1>10, <2>1 DEF StartCheck, WalkInv, Nodes, db, console
  <1>11. CASE Match \/ NotFound
    BY <1>11 DEF Match, NotFound, CheckEnds, WalkInv
  <1>12. CASE Stray
    BY <1>12, DieKeeps DEF Stray, CheckEnds, WalkInv
  <1>13. CASE Pass
    <2>1. /\ dpc = "walk" /\ dcur \in Addr /\ rec[dcur].cred # asked /\ dcur' = next[dcur]
          /\ UNCHANGED <<head, next, rec, cpc, cur, dpc, asked, had, disturbed>>
      BY <1>13 DEF Pass, Allocated, db, console
    <2>2. dcur' \in Addr \union {Null} /\ next \in Pointers
      BY <2>1 DEF Pointers
    <2>3. Reach(next, dcur) = {dcur} \union Reach(next, next[dcur])
      BY <2>1, ReachStep
    <2>4. CASE ~disturbed
      <3>1. dcur # Null
        BY <2>1, LoginDBAssumption
      <3>2. dcur \in Nodes(head) => next[dcur] \in Nodes(head) \union {Null}
        BY ListFacts DEF Closed
      <3>3. cpc = "cut" /\ dcur = cur => next[dcur] \in Nodes(head) \union {Null}
        BY DEF ConsoleAt
      <3>4. next[dcur] \in Nodes(head) \union {Null}
        BY <2>1, <2>4, <3>1, <3>2, <3>3 DEF WalkInv
      <3>5. (\E b \in Reach(next, next[dcur]) : rec[b].cred = asked)
            <=> \E b \in Reach(next, dcur) : rec[b].cred = asked
        BY <2>1, <2>3
      <3>6. had <=> \E b \in Reach(next, dcur) : rec[b].cred = asked
        BY <2>1, <2>4 DEF WalkInv, Nodes
      <3>7. QED
        BY <2>1, <2>2, <3>4, <3>5, <3>6 DEF WalkInv, Nodes
    <2>5. CASE disturbed
      BY <2>1, <2>2, <2>5 DEF WalkInv
    <2>6. QED
      BY <2>4, <2>5 DEF WalkInv
  <1>14. QED
    BY <1>1, <1>2, <1>3, <1>4, <1>5, <1>6, <1>7, <1>8, <1>9, <1>10, <1>11, <1>12, <1>13
       DEF Next

-----------------------------------------------------------------------------
(* The theorems.                                                           *)

\* What belongs to the client is changed at the end of a check and at a restart only.
LEMMA OtherThanClient ==
    ASSUME Next, ~UNCHANGED client
    PROVE  Match \/ Stray \/ Die \/ LoadCrash \/ \E a \in Addr : RemoveCrash(a)
  <1>1. ASSUME NEW a \in Addr,
               (\E c \in Creds : Input(a, c)) \/ LoadRecord(a) \/ RemoveLater(a) \/ LoadGarbage(a)
        PROVE  UNCHANGED client
    BY <1>1 DEF Input, LoadRecord, RemoveLater, LoadGarbage, Unlinked
  <1>2. RemoveFirst \/ Cut \/ Delete => UNCHANGED client
    BY DEF RemoveFirst, Unlinked, Cut, Delete
  <1>3. StartSave \/ SaveNext \/ StartLoad \/ LoadEnd \/ LoseTrack \/ LoadGivesUp => UNCHANGED client
    BY DEF StartSave, SaveNext, StartLoad, LoadEnd, LoseTrack, LoadGivesUp
  <1>4. Pass \/ NotFound \/ (\E c \in Creds : StartCheck(c)) => UNCHANGED client
    BY DEF Pass, NotFound, Refuse, StartCheck
  <1>5. QED
    BY <1>1, <1>2, <1>3, <1>4 DEF Next

Inv == ListInv /\ FileInv /\ WalkInv /\ login \in Addr \union {Null}

LEMMA LoginKeeps ==
    ASSUME Inv, Next
    PROVE  login' \in Addr \union {Null}
  <1>1. dcur \in Addr \union {Null} /\ login \in Addr \union {Null}
    BY DEF Inv, WalkInv
  <1>2. CASE Match \/ NotFound \/ Pass \/ Stray
    BY <1>1, <1>2 DEF Match, NotFound, Pass, Stray, Accept, Refuse, Die, client
  <1>3. CASE Die \/ LoadCrash \/ \E a \in Addr : RemoveCrash(a)
    BY <1>3 DEF LoadCrash, RemoveCrash, Die
  <1>4. CASE UNCHANGED client
    BY <1>1, <1>4 DEF client
  <1>5. QED
    BY <1>2, <1>3, <1>4, OtherThanClient

LEMMA InvInit == Init => Inv
  <1> SUFFICES ASSUME Init PROVE Inv
    OBVIOUS
  <1>1. ListInv
    BY EmptyList DEF Init, Empty
  <1>2. FileInv /\ WalkInv
    BY DEF Init, FileInv, FoldersKept, Allocated, WalkInv
  <1>3. QED
    BY <1>1, <1>2 DEF Inv, Init

LEMMA InvNext == Inv /\ [Next]_vars => Inv'
  <1> SUFFICES ASSUME Inv, [Next]_vars PROVE Inv'
    OBVIOUS
  <1>1. CASE Next
    BY <1>1, ConsoleKeeps, WalkKeeps, LoginKeeps DEF Inv
  <1>2. CASE UNCHANGED vars
    <2>1. UNCHANGED <<head, next, rec, count, cpc, cur, pos, file>>
      BY <1>2 DEF vars, db, console
    <2>2. UNCHANGED <<dpc, dcur, asked, had, disturbed>>
      BY <1>2 DEF vars, check
    <2>3. ListInv'
      BY <2>1 DEF Inv, ListInv, ListIsExact, Shape, ConsoleAt, Nodes, Removed, Allocated, Length,
                  OnePointer
    <2>4. FileInv' /\ WalkInv'
      BY <2>1, <2>2 DEF Inv, FileInv, FoldersKept, Allocated, WalkInv, Nodes
    <2>5. UNCHANGED login
      BY <1>2 DEF vars, client
    <2>6. QED
      BY <2>3, <2>4, <2>5 DEF Inv
  <1>3. QED
    BY <1>1, <1>2

LEMMA Invariance == Spec => []Inv
  BY InvInit, InvNext, PTL DEF Spec

\* The heap holds the logins of the list and the one that is being removed, nothing else,
\* after any sequence of adding, removing, loading, saving and dying; the list has no cycle
\* and count is its length (LoginDB::add, LoginDB::remove, ~Login).
THEOREM ListStaysExact == Spec => []ListIsExact
  <1>1. Inv => ListIsExact
    BY DEF Inv, ListInv
  <1>2. QED
    BY <1>1, Invariance, PTL

\* No login comes back from a file with fewer restricted folders than it was entered with,
\* but for the ones with more folders than a byte counts (Login::save, Login::Login(FILE*)).
THEOREM FoldersStay == Spec => []FoldersKept
  <1>1. Inv => FoldersKept
    BY DEF Inv, FileInv
  <1>2. QED
    BY <1>1, Invariance, PTL

\* Only the deletion of that very login makes a client's pointer lead elsewhere: no other
\* removal, load or login of the console's frees or moves it (delete toDel deletes the logins
\* behind it, too, and there are none because it was cut off before).
THEOREM PointersStay == Spec => PointerKept
  <1>1. ASSUME Inv, Next, Faithful, login' = login, ~Faithful'
        PROVE  cpc = "delete" /\ cur = login
    <2>1. /\ login \in Addr /\ login # Null /\ rec[login] # Null /\ rec[login].cred = granted
          /\ rec \in [Addr -> Login \union {Null}]
      BY <1>1 DEF Faithful, Inv, ListInv, Shape
    <2>2. ASSUME rec'[login] = rec[login], granted' = granted
          PROVE  FALSE
      BY <1>1, <2>1, <2>2 DEF Faithful
    <2>3. ASSUME NEW a \in Addr, NEW r, AddLogin(a, r), UNCHANGED client
          PROVE  FALSE
      <3>1. a # login
        BY <2>1, <2>3 DEF AddLogin
      <3>2. rec'[login] = rec[login]
        BY <2>1, <2>3, <3>1 DEF AddLogin
      <3>3. QED
        BY <2>2, <2>3, <3>2 DEF client
    <2>4. ASSUME NEW a \in Addr, NEW c \in Creds, Input(a, c)
          PROVE  FALSE
      BY <2>3, <2>4 DEF Input
    <2>5. ASSUME NEW a \in Addr, LoadRecord(a) \/ LoadGarbage(a)
          PROVE  FALSE
      BY <2>3, <2>5 DEF LoadRecord, LoadGarbage
    <2>6. ASSUME UNCHANGED <<rec, client>>
          PROVE  FALSE
      BY <2>2, <2>6 DEF client
    <2>7. ASSUME NEW a \in Addr, RemoveLater(a)
          PROVE  FALSE
      BY <2>6, <2>7 DEF RemoveLater, Unlinked
    <2>8. CASE RemoveFirst \/ Cut
      BY <2>6, <2>8 DEF RemoveFirst, Unlinked, Cut
    <2>9. CASE StartSave \/ SaveNext \/ StartLoad \/ LoadEnd \/ LoseTrack \/ LoadGivesUp
      BY <2>6, <2>9 DEF StartSave, SaveNext, StartLoad, LoadEnd, LoseTrack, LoadGivesUp, db
    <2>10. CASE Pass \/ NotFound \/ \E c \in Creds : StartCheck(c)
      BY <2>6, <2>10 DEF Pass, NotFound, CheckEnds, Refuse, StartCheck, db
    <2>11. CASE Die \/ LoadCrash \/ \E a \in Addr : RemoveCrash(a)
      BY <1>1, <2>1, <2>11 DEF LoadCrash, RemoveCrash, Die
    <2>12. CASE Delete
      <3>1. rec' = [rec EXCEPT ![cur] = Null] /\ cpc = "delete" /\ granted' = granted
        BY <1>1, <2>12, Deleted DEF Inv, Delete, client
      <3>2. QED
        BY <2>1, <2>2, <3>1
    <2>13. CASE Match
      <3>1. UNCHANGED rec /\ login' = dcur /\ granted' = asked /\ rec[dcur].cred = asked
        BY <2>13 DEF Match, Accept, CheckEnds, db
      <3>2. QED
        BY <1>1, <2>1, <3>1 DEF Faithful
    <2>14. CASE Stray
      <3>1. (Refuse /\ CheckEnds) => UNCHANGED <<rec, client>>
        BY DEF Refuse, CheckEnds, db
      <3>2. rec[dcur] = Null /\ (Accept => login' = dcur)
        BY <2>14 DEF Stray, Accept
      <3>3. ~Die
        BY <1>1, <2>1 DEF Die
      <3>4. QED
        BY <1>1, <2>1, <2>6, <2>14, <3>1, <3>2, <3>3 DEF Stray
    <2>15. QED
      BY <1>1, <2>4, <2>5, <2>7, <2>8, <2>9, <2>10, <2>11, <2>12, <2>13, <2>14 DEF Next
  <1>2. ASSUME Inv, [Next]_vars
        PROVE  [Faithful /\ login' = login /\ ~Faithful' => cpc = "delete" /\ cur = login]_vars
    BY <1>1, <1>2
  <1>3. QED
    BY <1>2, Invariance, PTL DEF Spec, PointerKept

\* A check that runs beside the console finds a login if and only if the list held it when
\* the check began, whatever is added and removed meanwhile: unless the removed login is the
\* one asked for, or the walk stands on it when it is cut off (LoginDB::check beside
\* LoginDB::remove and LoginDB::add).
THEOREM ChecksStayRight == Spec => CheckUndisturbed
  <1>1. ASSUME Inv, Next
        PROVE  ~disturbed => (Match => had) /\ (NotFound => ~had)
    <2> SUFFICES ASSUME ~disturbed PROVE (Match => had) /\ (NotFound => ~had)
      OBVIOUS
    <2>1. next \in Pointers
      BY <1>1 DEF Inv, ListInv, Shape
    <2>2. Match => had
      <3> SUFFICES ASSUME Match PROVE had
        OBVIOUS
      <3>1. dpc = "walk" /\ dcur \in Addr /\ rec[dcur].cred = asked
        BY DEF Match, Allocated
      <3>2. dcur \in Nodes(dcur)
        BY <2>1, <3>1, ReachSelf DEF Nodes
      <3>3. QED
        BY <1>1, <3>1, <3>2 DEF Inv, WalkInv
    <2>3. NotFound => ~had
      <3> SUFFICES ASSUME NotFound PROVE ~had
        OBVIOUS
      <3>1. dpc = "walk" /\ dcur = Null
        BY DEF NotFound
      <3>2. Nodes(dcur) = {}
        BY <2>1, <3>1, ReachNull DEF Nodes
      <3>3. QED
        BY <1>1, <3>1, <3>2 DEF Inv, WalkInv
    <2>4. QED
      BY <2>2, <2>3
  <1>2. ASSUME Inv, [Next]_vars
        PROVE  [~disturbed => (Match => had) /\ (NotFound => ~had)]_vars
    BY <1>1, <1>2
  <1>3. QED
    BY <1>2, Invariance, PTL DEF Spec, CheckUndisturbed

-----------------------------------------------------------------------------
(* The list as a sequence.                                                 *)

\* A list without a cycle, and what stands at its nodes.
List(nx, h, rc) ==
    /\ nx \in Pointers /\ h \in Addr \union {Null} /\ Acyclic(nx, Reach(nx, h))
    /\ \A a \in Reach(nx, h) : rc[a] \in Login

\* The place of a node, and the sequence, as LoginDB has them.
At(nx, h, a) == 1 + Cardinality(Reach(nx, h) \ Reach(nx, a))
Size(nx, h) == Cardinality(Reach(nx, h))
InOrder(nx, h, rc) == [k \in 1..Size(nx, h) |-> rc[CHOOSE a \in Reach(nx, h) : At(nx, h, a) = k]]

\* The list of the console is such a list, and Logins what stands at its nodes, in order.
LEMMA ListIs ==
    ASSUME ListInv
    PROVE  /\ List(next, head, rec) /\ Logins = InOrder(next, head, rec) /\ Length = Size(next, head)
           /\ \A a : Number(a) = At(next, head, a)
  <1>1. Acyclic(next, Nodes(head)) /\ \A a \in Nodes(head) : rec[a] # Null /\ a \in Addr
    BY ListFacts
  <1>2. List(next, head, rec)
    BY <1>1 DEF List, ListInv, Shape, Nodes
  <1>3. QED
    BY <1>2 DEF Logins, InOrder, Length, Size, Number, At, Nodes

\* Of two nodes of a list one is reached from the other.
LEMMA Linear ==
    ASSUME NEW nx, NEW h, NEW rc, List(nx, h, rc), NEW a \in Reach(nx, h), NEW b \in Reach(nx, h)
    PROVE  Reach(nx, a) \subseteq Reach(nx, b) \/ Reach(nx, b) \subseteq Reach(nx, a)
  <1> DEFINE L == Reach(nx, h)
             S == {x \in L : Reach(nx, x) \subseteq Reach(nx, a) \/ Reach(nx, a) \subseteq Reach(nx, x)}
  <1>1. nx \in Pointers /\ h \in Addr \union {Null}
    BY DEF List
  <1>2. L \in SUBSET Addr /\ Closed(nx, L) /\ a \in Addr
    BY <1>1, ReachType, ReachClosed
  <1>3. {h} \ {Null} \subseteq S
    <2>1. h # Null => h \in L
      BY <1>1, ReachSelf
    <2>2. Reach(nx, a) \subseteq Reach(nx, h)
      BY <1>1, ReachWithin
    <2>3. QED
      BY <2>1, <2>2
  <1>4. Closed(nx, S)
    <2> SUFFICES ASSUME NEW x \in S, nx[x] # Null PROVE nx[x] \in S
      BY DEF Closed
    <2>1. nx[x] \in L /\ x \in Addr
      BY <1>2 DEF Closed
    <2>2. Reach(nx, x) = {x} \union Reach(nx, nx[x])
      BY <1>1, <2>1, ReachStep
    <2>3. CASE Reach(nx, x) \subseteq Reach(nx, a)
      BY <2>1, <2>2, <2>3
    <2>4. CASE Reach(nx, a) \subseteq Reach(nx, x)
      <3>1. a \in Reach(nx, x)
        BY <1>1, <1>2, <2>4, ReachSelf
      <3>2. CASE a = x
        BY <2>1, <2>2, <3>2
      <3>3. CASE a # x
        <4>1. a \in Reach(nx, nx[x]) /\ nx[x] \in Addr \union {Null}
          BY <1>2, <2>1, <2>2, <3>1, <3>3
        <4>2. Reach(nx, a) \subseteq Reach(nx, nx[x])
          BY <1>1, <4>1, ReachWithin
        <4>3. QED
          BY <2>1, <4>2
      <3>4. QED
        BY <3>2, <3>3
    <2>5. QED
      BY <2>3, <2>4
  <1>5. L \subseteq S
    BY <1>1, <1>2, <1>3, <1>4, ReachLeast
  <1>6. QED
    BY <1>5

\* Every node has its place, and no two have the same.
LEMMA Places ==
    ASSUME NEW nx, NEW h, NEW rc, List(nx, h, rc)
    PROVE  /\ Size(nx, h) \in Nat
           /\ \A a \in Reach(nx, h) : At(nx, h, a) \in 1..Size(nx, h)
           /\ \A a, b \in Reach(nx, h) : At(nx, h, a) = At(nx, h, b) => a = b
           /\ \A k \in 1..Size(nx, h) : \E a \in Reach(nx, h) : At(nx, h, a) = k
  <1> DEFINE L == Reach(nx, h)
             n == Size(nx, h)
             Before(a) == L \ Reach(nx, a)
  <1>1. nx \in Pointers /\ h \in Addr \union {Null} /\ Acyclic(nx, L)
    BY DEF List
  <1>2. L \in SUBSET Addr /\ Closed(nx, L) /\ IsFiniteSet(L) /\ n \in Nat
    BY <1>1, ReachType, ReachClosed, LoginDBAssumption, FS_Subset, FS_CardinalityType DEF Size
  <1>3. \A a \in L : a \in Reach(nx, a) /\ Reach(nx, a) \subseteq L
    BY <1>1, <1>2, ReachSelf, ReachWithin
  <1>4. \A a \in L : IsFiniteSet(Before(a)) /\ Cardinality(Before(a)) \in Nat
    BY <1>2, FS_Subset, FS_CardinalityType
  <1>5. ASSUME NEW a \in L PROVE At(nx, h, a) \in 1..n
    <2>1. Before(a) \in SUBSET L /\ Before(a) # L
      BY <1>3
    <2>2. Cardinality(Before(a)) <= Cardinality(L) /\ Cardinality(L) # Cardinality(Before(a))
      BY <1>2, <2>1, FS_Subset
    <2>3. At(nx, h, a) = 1 + Cardinality(Before(a)) /\ n = Cardinality(L)
      BY DEF At, Size
    <2>4. Cardinality(Before(a)) \in Nat
      BY <1>4
    <2>5. QED
      BY <1>2, <2>2, <2>3, <2>4
  <1>6. ASSUME NEW a \in L, NEW b \in L, At(nx, h, a) = At(nx, h, b), Reach(nx, a) \subseteq Reach(nx, b)
        PROVE  a = b
    <2>1. Before(b) \in SUBSET Before(a) /\ IsFiniteSet(Before(a))
      BY <1>4, <1>6
    <2>2. Cardinality(Before(a)) = Cardinality(Before(b))
      <3>1. 1 + Cardinality(Before(a)) = 1 + Cardinality(Before(b))
        BY <1>6 DEF At
      <3>2. Cardinality(Before(a)) \in Nat /\ Cardinality(Before(b)) \in Nat
        BY <1>4
      <3>3. QED
        BY <3>1, <3>2
    <2>3. Before(a) = Before(b)
      BY <2>1, <2>2, FS_Subset
    <2>4. Reach(nx, a) = Reach(nx, b)
      BY <1>3, <2>3
    <2> SUFFICES ASSUME a # b PROVE FALSE
      OBVIOUS
    <2>5. b \in Addr /\ a \in Addr /\ nx[b] \in Addr \union {Null}
      BY <1>1, <1>2 DEF Pointers
    <2>6. a \in Reach(nx, nx[b])
      BY <1>1, <1>3, <2>4, <2>5, ReachStep
    <2>7. nx[b] # Null
      BY <1>1, <2>6, ReachNull
    <2>8. Reach(nx, a) \subseteq Reach(nx, nx[b])
      BY <1>1, <2>5, <2>6, ReachWithin
    <2>9. QED
      BY <1>1, <1>3, <2>4, <2>7, <2>8 DEF Acyclic
  <1>7. ASSUME NEW a \in L, NEW b \in L, At(nx, h, a) = At(nx, h, b) PROVE a = b
    BY <1>6, <1>7, Linear
  <1>8. \A k \in 1..n : \E a \in L : At(nx, h, a) = k
    <2> DEFINE f == [a \in L |-> At(nx, h, a)]
    <2>1. f \in Injection(L, 1..n)
      BY <1>5, <1>7 DEF Injection, IsInjective
    <2>2. IsFiniteSet(1..n) /\ Cardinality(1..n) = n
      BY <1>2, FS_Interval
    <2>3. f \in Surjection(L, 1..n)
      BY <2>1, <2>2, FS_Injection DEF Size
    <2>4. QED
      BY <2>3 DEF Surjection
  <1>9. QED
    BY <1>2, <1>5, <1>7, <1>8

\* What stands at each place.
LEMMA OrderAt ==
    ASSUME NEW nx, NEW h, NEW rc, List(nx, h, rc)
    PROVE  /\ InOrder(nx, h, rc) \in Seq(Login) /\ Len(InOrder(nx, h, rc)) = Size(nx, h)
           /\ \A a \in Reach(nx, h) : InOrder(nx, h, rc)[At(nx, h, a)] = rc[a]
  <1> DEFINE L == Reach(nx, h)
             n == Size(nx, h)
             s == InOrder(nx, h, rc)
  <1>1. /\ n \in Nat
        /\ \A a \in L : At(nx, h, a) \in 1..n
        /\ \A a, b \in L : At(nx, h, a) = At(nx, h, b) => a = b
        /\ \A k \in 1..n : \E a \in L : At(nx, h, a) = k
    BY Places
  <1>2. ASSUME NEW a \in L PROVE s[At(nx, h, a)] = rc[a]
    <2>1. PICK k \in 1..n : k = At(nx, h, a)
      BY <1>1
    <2>2. \A b \in L : At(nx, h, b) = k => b = a
      BY <1>1, <2>1
    <2>3. (CHOOSE b \in L : At(nx, h, b) = k) = a
      BY <2>1, <2>2
    <2>4. s[k] = rc[CHOOSE b \in L : At(nx, h, b) = k]
      BY DEF InOrder
    <2>5. QED
      BY <2>1, <2>3, <2>4
  <1>3. \A k \in 1..n : s[k] \in Login
    <2> SUFFICES ASSUME NEW k \in 1..n PROVE s[k] \in Login
      OBVIOUS
    <2>1. PICK a \in L : At(nx, h, a) = k
      BY <1>1
    <2>2. QED
      BY <1>2, <2>1 DEF List
  <1>4. s = [k \in 1..n |-> s[k]]
    BY DEF InOrder
  <1>5. s \in [1..n -> Login]
    BY <1>3, <1>4
  <1>6. QED
    BY <1>1, <1>2, <1>5

\* The first place, the next one, and the last.
LEMMA OrderNext ==
    ASSUME NEW nx, NEW h, NEW rc, List(nx, h, rc)
    PROVE  /\ h # Null => At(nx, h, h) = 1
           /\ \A a \in Reach(nx, h) : IF nx[a] = Null THEN At(nx, h, a) = Size(nx, h)
                                                      ELSE At(nx, h, nx[a]) = At(nx, h, a) + 1
  <1> DEFINE L == Reach(nx, h)
  <1>1. nx \in Pointers /\ h \in Addr \union {Null} /\ Acyclic(nx, L)
    BY DEF List
  <1>2. L \in SUBSET Addr /\ IsFiniteSet(L) /\ \A S \in SUBSET L : IsFiniteSet(S) /\ Cardinality(S) \in Nat
    BY <1>1, ReachType, LoginDBAssumption, FS_Subset, FS_CardinalityType
  <1>3. At(nx, h, h) = 1
    <2>1. L \ L = {} /\ Cardinality({}) = 0
      BY FS_EmptySet
    <2>2. At(nx, h, h) = 1 + Cardinality(L \ L)
      BY DEF At
    <2>3. QED
      BY <2>1, <2>2
  <1>4. ASSUME NEW a \in L
        PROVE  IF nx[a] = Null THEN At(nx, h, a) = Size(nx, h) ELSE At(nx, h, nx[a]) = At(nx, h, a) + 1
    <2>1. a \in Addr /\ Reach(nx, a) = {a} \union Reach(nx, nx[a])
      BY <1>1, <1>2, ReachStep
    <2>2. PICK S : S = L \ Reach(nx, a)
      OBVIOUS
    <2>3. PICK c \in Nat : c = Cardinality(S)
      BY <1>2, <2>2
    <2>4. At(nx, h, a) = 1 + c
      BY <2>2, <2>3 DEF At
    <2>5. a \notin Reach(nx, nx[a])
      BY <1>1, <2>1, ReachNull DEF Acyclic
    <2>6. a \notin S /\ IsFiniteSet(S) /\ S \union {a} = L \ Reach(nx, nx[a])
      BY <1>2, <2>1, <2>2, <2>5
    <2>7. Cardinality(S \union {a}) = c + 1
      BY <2>3, <2>6, FS_AddElement
    <2>8. CASE nx[a] = Null
      <3>1. L \ Reach(nx, nx[a]) = L
        BY <1>1, <2>8, ReachNull
      <3>2. Size(nx, h) = c + 1
        BY <2>6, <2>7, <3>1 DEF Size
      <3>3. QED
        BY <2>3, <2>4, <2>8, <3>2
    <2>9. CASE nx[a] # Null
      <3>1. At(nx, h, nx[a]) = 1 + (c + 1)
        BY <2>6, <2>7 DEF At
      <3>2. QED
        BY <2>3, <2>4, <2>9, <3>1
    <2>10. QED
      BY <2>8, <2>9
  <1>5. QED
    BY <1>3, <1>4

\* A new node at the head comes before all others, which keep their order.
LEMMA OrderAdded ==
    ASSUME NEW nx, NEW h, NEW rc, List(nx, h, rc), NEW a \in Addr, a \notin Reach(nx, h),
           NEW ny, NEW rd, List(ny, a, rd), ny[a] = h,
           \A b \in Reach(nx, h) : ny[b] = nx[b] /\ rd[b] = rc[b]
    PROVE  /\ Size(ny, a) = Size(nx, h) + 1 /\ InOrder(ny, a, rd)[1] = rd[a]
           /\ \A k \in 1..Size(nx, h) : InOrder(ny, a, rd)[k + 1] = InOrder(nx, h, rc)[k]
  <1> DEFINE L == Reach(nx, h)
  <1>1. nx \in Pointers /\ ny \in Pointers /\ h \in Addr \union {Null} /\ a # Null
    BY LoginDBAssumption DEF List
  <1>2. L \in SUBSET Addr /\ IsFiniteSet(L) /\ \A S \in SUBSET L : IsFiniteSet(S) /\ Cardinality(S) \in Nat
    BY <1>1, ReachType, LoginDBAssumption, FS_Subset, FS_CardinalityType
  <1>3. Reach(ny, h) = L
    BY <1>1, ReachFrame
  <1>4. Reach(ny, a) = {a} \union L
    BY <1>1, <1>3, ReachStep
  <1>5. ASSUME NEW b \in L PROVE Reach(ny, b) = Reach(nx, b)
    <2>1. b \in Addr /\ Reach(nx, b) \subseteq L
      BY <1>1, <1>2, ReachWithin
    <2>2. \A x \in Reach(nx, b) : ny[x] = nx[x]
      BY <2>1
    <2>3. QED
      BY <1>1, <2>1, <2>2, ReachFrame
  <1>6. Size(ny, a) = Size(nx, h) + 1
    <2>1. Cardinality(L \union {a}) = Cardinality(L) + 1 /\ L \union {a} = Reach(ny, a)
      BY <1>2, <1>4, FS_AddElement
    <2>2. QED
      BY <2>1 DEF Size
  <1>7. ASSUME NEW b \in L PROVE At(ny, a, b) = At(nx, h, b) + 1
    <2>1. PICK S : S = L \ Reach(nx, b)
      OBVIOUS
    <2>2. PICK c \in Nat : c = Cardinality(S)
      BY <1>2, <2>1
    <2>3. Reach(nx, b) \subseteq L
      BY <1>1, ReachWithin
    <2>4. Reach(ny, a) \ Reach(ny, b) = S \union {a} /\ a \notin S /\ IsFiniteSet(S)
      BY <1>2, <1>4, <1>5, <2>1, <2>3
    <2>5. Cardinality(S \union {a}) = c + 1
      BY <2>2, <2>4, FS_AddElement
    <2>6. At(nx, h, b) = 1 + c /\ At(ny, a, b) = 1 + (c + 1)
      BY <2>1, <2>2, <2>4, <2>5 DEF At
    <2>7. QED
      BY <2>2, <2>6
  <1>8. InOrder(ny, a, rd)[1] = rd[a]
    <2>1. At(ny, a, a) = 1
      BY <1>1, OrderNext
    <2>2. a \in Reach(ny, a)
      BY <1>4
    <2>3. QED
      BY <2>1, <2>2, OrderAt
  <1>9. ASSUME NEW k \in 1..Size(nx, h)
        PROVE  InOrder(ny, a, rd)[k + 1] = InOrder(nx, h, rc)[k]
    <2>1. PICK b \in L : At(nx, h, b) = k
      BY Places
    <2>2. InOrder(nx, h, rc)[k] = rc[b]
      BY <2>1, OrderAt
    <2>3. b \in Reach(ny, a) /\ At(ny, a, b) = k + 1
      BY <1>4, <1>7, <2>1
    <2>4. InOrder(ny, a, rd)[At(ny, a, b)] = rd[b]
      BY <2>3, OrderAt
    <2>5. QED
      BY <2>2, <2>3, <2>4
  <1>10. QED
    BY <1>6, <1>8, <1>9

-----------------------------------------------------------------------------
(* The file as the records of a list.                                      *)

\* The logins s are in the file f one behind the other, their headers at the places `at'.
Laid(f, s, at) ==
    /\ at \in [1..Len(s) + 1 -> Nat \ {0}] /\ at[1] = 1 /\ at[Len(s) + 1] = Len(f) + 1
    /\ \A k \in 1..Len(s) :
          /\ at[k] <= Len(f) /\ at[k + 1] = at[k] + 1 + s[k].folders
          /\ f[at[k]] = [cred |-> s[k].cred, n |-> s[k].folders % FW]

\* What has been saved is in the file; what is being saved is there up to the login at hand; and
\* the logins of the file that have been loaded are in the list, the last one first.
SaveInv ==
    /\ saved \in Seq(Login) /\ base \in Seq(Login)
    /\ saved # <<>> => \E at : Laid(file, saved, at)
    /\ cpc = "save" => saved = <<>> /\ \E at : Laid(file, SubSeq(Logins, 1, Number(cur) - 1), at)
    /\ cpc = "load" /\ saved # <<>> /\ Fits(saved) =>
          \E at : /\ Laid(file, saved, at)
                  /\ \E m \in 0..Len(saved) :
                        pos = at[m + 1] /\ Logins = Reversed(SubSeq(saved, 1, m)) \o base

\* An empty file has no login.
LEMMA LaidNone == Laid(<<>>, <<>>, [k \in 1..1 |-> 1])
  BY DEF Laid

\* One more record behind the others.
LEMMA LaidOn ==
    ASSUME NEW f \in Seq(Written), NEW s \in Seq(Login), NEW at, Laid(f, s, at), NEW r \in Login
    PROVE  \E on : Laid(f \o Record(r), Append(s, r), on)
  <1> DEFINE n == Len(s)
             g == f \o Record(r)
             t == Append(s, r)
             on == [k \in 1..n + 2 |-> IF k = n + 2 THEN Len(f) + 2 + r.folders ELSE at[k]]
  <1>1. r.folders \in Nat /\ n \in Nat /\ Len(f) \in Nat
    BY DEF Login
  <1>2. PICK x, y : Record(r) = <<x>> \o y /\ x = [cred |-> r.cred, n |-> r.folders % FW]
                    /\ y = [i \in 1..r.folders |-> Line]
    BY DEF Record
  <1>3. y \in Seq({Line}) /\ Len(y) = r.folders
    BY <1>1, <1>2
  <1>4. <<x>> \o y \in Seq({x, Line}) /\ Len(<<x>> \o y) = 1 + r.folders /\ (<<x>> \o y)[1] = x
    BY <1>1, <1>3
  <1>5. /\ Len(g) = Len(f) + 1 + r.folders /\ g[Len(f) + 1] = x
        /\ \A i \in 1..Len(f) : g[i] = f[i]
    <2>1. PICK z : z = Record(r)
      OBVIOUS
    <2>2. z \in Seq({x, Line}) /\ Len(z) = 1 + r.folders /\ z[1] = x
      BY <1>2, <1>4, <2>1
    <2>3. Len(f \o z) = Len(f) + Len(z) /\ \A i \in 1..Len(f) : (f \o z)[i] = f[i]
      BY <2>2
    <2>4. (f \o z)[Len(f) + 1] = z[1]
      BY <1>1, <2>2
    <2>5. g = f \o z
      BY <2>1
    <2>6. Len(g) = Len(f) + 1 + r.folders
      BY <1>1, <2>2, <2>3, <2>5
    <2>7. g[Len(f) + 1] = x
      BY <2>2, <2>4, <2>5, Zenon
    <2>8. QED
      BY <2>3, <2>5, <2>6, <2>7, Zenon
  <1>6. Len(t) = n + 1 /\ t[n + 1] = r /\ \A k \in 1..n : t[k] = s[k]
    OBVIOUS
  <1>7. /\ on \in [1..n + 2 -> Nat \ {0}] /\ on[n + 2] = Len(f) + 2 + r.folders
        /\ \A k \in 1..n + 1 : on[k] = at[k]
    BY <1>1 DEF Laid
  <1> HIDE DEF on, g, t
  <1>8. at[1] = 1 /\ at[n + 1] = Len(f) + 1 /\ 1 \in 1..n + 1 /\ n + 1 \in 1..n + 1
    BY <1>1 DEF Laid
  <1>9. ASSUME NEW k \in 1..n + 1
        PROVE  /\ on[k] <= Len(g) /\ on[k + 1] = on[k] + 1 + t[k].folders
               /\ g[on[k]] = [cred |-> t[k].cred, n |-> t[k].folders % FW]
    <2>1. CASE k = n + 1
      BY <1>1, <1>2, <1>5, <1>6, <1>7, <1>8, <2>1
    <2>2. CASE k \in 1..n
      <3>1. /\ at[k] <= Len(f) /\ at[k + 1] = at[k] + 1 + s[k].folders
            /\ f[at[k]] = [cred |-> s[k].cred, n |-> s[k].folders % FW]
            /\ at[k] \in Nat \ {0}
        BY <2>2 DEF Laid
      <3>2. k \in 1..n + 1 /\ k + 1 \in 1..n + 1
        BY <1>1, <2>2
      <3>3. on[k] = at[k] /\ on[k + 1] = at[k + 1] /\ t[k] = s[k]
        BY <1>6, <1>7, <2>2, <3>2
      <3>4. g[at[k]] = f[at[k]] /\ at[k] <= Len(g)
        BY <1>1, <1>5, <3>1
      <3>5. QED
        BY <3>1, <3>3, <3>4
    <2>3. k = n + 1 \/ k \in 1..n
      BY <1>1
    <2>4. QED
      BY <2>1, <2>2, <2>3, Zenon
  <1>10. /\ on \in [1..Len(t) + 1 -> Nat \ {0}] /\ on[1] = 1 /\ on[Len(t) + 1] = Len(g) + 1
    <2>1. on[1] = 1
      BY <1>7, <1>8
    <2>2. on[n + 2] = Len(g) + 1 /\ Len(t) + 1 = n + 2
      <3>1. Len(t) + 1 = n + 2
        BY <1>1, <1>6
      <3>2. Len(g) + 1 = Len(f) + 2 + r.folders
        <4>1. Len(g) = Len(f) + 1 + r.folders
          BY <1>5, Zenon
        <4>2. PICK a \in Nat, b \in Nat : a = Len(f) /\ b = r.folders
          BY <1>1
        <4>3. Len(g) = a + 1 + b /\ Len(f) + 2 + r.folders = a + 2 + b
          BY <4>1, <4>2, Zenon
        <4>4. QED
          BY <4>3
      <3>3. QED
        BY <1>7, <3>1, <3>2, Zenon
    <2>3. QED
      BY <1>7, <2>1, <2>2, Zenon
  <1>11. \A k \in 1..Len(t) :
          /\ on[k] <= Len(g) /\ on[k + 1] = on[k] + 1 + t[k].folders
          /\ g[on[k]] = [cred |-> t[k].cred, n |-> t[k].folders % FW]
    BY <1>6, <1>9
  <1>12. Laid(g, t, on)
    BY <1>10, <1>11 DEF Laid
  <1>13. QED
    BY <1>12 DEF g, t

\* What is read at the place behind the first m logins is the next one, if it fits.
LEMMA LaidNext ==
    ASSUME NEW f, NEW s \in Seq(Login), Fits(s), NEW at, Laid(f, s, at), NEW m \in 0..Len(s),
           Len(f) \in Nat
    PROVE  /\ at[m + 1] > Len(f) => m = Len(s)
           /\ at[m + 1] <= Len(f) =>
                 /\ m + 1 \in 1..Len(s) /\ at[m + 2] = at[m + 1] + 1 + f[at[m + 1]].n
                 /\ [cred |-> f[at[m + 1]].cred, folders |-> f[at[m + 1]].n] = s[m + 1]
  <1>1. Len(s) \in Nat /\ at[Len(s) + 1] = Len(f) + 1
    BY DEF Laid
  <1>2. m + 1 \in 1..Len(s) => at[m + 1] <= Len(f)
    BY DEF Laid
  <1>3. ASSUME m + 1 \in 1..Len(s)
        PROVE  /\ at[m + 2] = at[m + 1] + 1 + f[at[m + 1]].n
               /\ [cred |-> f[at[m + 1]].cred, folders |-> f[at[m + 1]].n] = s[m + 1]
    <2>1. PICK k \in 1..Len(s) : k = m + 1 /\ m + 2 = k + 1
      BY <1>1, <1>3
    <2>2. /\ at[k + 1] = at[k] + 1 + s[k].folders
          /\ f[at[k]] = [cred |-> s[k].cred, n |-> s[k].folders % FW]
      BY DEF Laid
    <2>3. s[k] \in Login /\ s[k].folders < FW
      BY DEF Fits
    <2>4. s[k].folders % FW = s[k].folders
      <3>1. s[k].folders \in 0..FW - 1 /\ FW * 0 + s[k].folders = s[k].folders
        BY <2>3, LoginDBAssumption DEF Login
      <3>2. (FW * 0 + s[k].folders) % FW = s[k].folders
        <4>1. PICK r \in 0..FW - 1 : r = s[k].folders
          BY <3>1
        <4>2. FW \in Nat \ {0} /\ 0 \in Int
          BY LoginDBAssumption
        <4>3. (FW * 0 + r) % FW = r
          BY <4>2, ModOf
        <4>4. QED
          BY <4>1, <4>3
      <3>3. QED
        BY <3>1, <3>2
    <2>5. s[k] = [cred |-> s[k].cred, folders |-> s[k].folders]
      BY <2>3 DEF Login
    <2>6. QED
      BY <2>1, <2>2, <2>4, <2>5
  <1>4. m = Len(s) \/ m + 1 \in 1..Len(s)
    BY <1>1
  <1>5. CASE m = Len(s)
    BY <1>1, <1>5
  <1>6. CASE m + 1 \in 1..Len(s)
    <2>1. at[m + 1] \in Nat
      BY <1>1, <1>6 DEF Laid
    <2>2. QED
      BY <1>2, <1>3, <1>6, <2>1
  <1>7. QED
    BY <1>4, <1>5, <1>6

-----------------------------------------------------------------------------
(* Saving.                                                                 *)

\* The list is what it was.
LEMMA SameLogins ==
    ASSUME UNCHANGED db
    PROVE  Logins' = Logins /\ \A a : Number(a)' = Number(a)
  BY DEF db, Logins, Number, Nodes, Length

\* The steps that neither save nor load: nothing is said of the list.
LEMMA SaveBeside ==
    ASSUME SaveInv, cpc' \notin {"save", "load"}, base' \in {base, <<>>},
           UNCHANGED <<file, saved>> \/ saved' = <<>>
    PROVE  SaveInv'
  <1>1. saved' \in Seq(Login) /\ base' \in Seq(Login)
    <2>1. saved' \in {saved, <<>>} /\ base' \in {base, <<>>}
      OBVIOUS
    <2>2. saved \in Seq(Login) /\ base \in Seq(Login) /\ <<>> \in Seq(Login)
      BY DEF SaveInv
    <2>3. QED
      BY <2>1, <2>2
  <1>2. saved' # <<>> => \E at : Laid(file', saved', at)
    BY DEF SaveInv
  <1>3. QED
    BY <1>1, <1>2 DEF SaveInv

\* A save begins with an empty file, at the first place.
LEMMA SaveStarts ==
    ASSUME ListInv, SaveInv, StartSave
    PROVE  SaveInv'
  <1>1. /\ head # Null /\ file' = <<>> /\ saved' = <<>> /\ cpc' = "save" /\ cur' = head
        /\ UNCHANGED db /\ UNCHANGED base
    BY DEF StartSave
  <1>2. head \in Nodes(head) /\ List(next, head, rec) /\ Number(head) = At(next, head, head)
    BY <1>1, ListFacts, ListIs
  <1>3. Number(head) = 1
    BY <1>1, <1>2, OrderNext
  <1>4. Number(cur)' = 1
    BY <1>1, <1>3, SameLogins DEF Number, Nodes, db
  <1>5. SubSeq(Logins', 1, Number(cur)' - 1) = <<>>
    BY <1>4
  <1>6. \E at : Laid(file', SubSeq(Logins', 1, Number(cur)' - 1), at)
    BY <1>1, <1>5, LaidNone
  <1>7. QED
    BY <1>1, <1>6 DEF SaveInv

\* A front of a sequence, one longer.
LEMMA FrontOn ==
    ASSUME NEW s \in Seq(Login), NEW k \in 1..Len(s)
    PROVE  /\ SubSeq(s, 1, k) = Append(SubSeq(s, 1, k - 1), s[k])
           /\ SubSeq(s, 1, k - 1) \in Seq(Login) /\ s[k] \in Login
           /\ SubSeq(s, 1, Len(s)) = s
  OBVIOUS

\* It writes the login at hand; after the last one the file holds the whole list.
LEMMA SaveGoesOn ==
    ASSUME ListInv, FileInv, SaveInv, SaveNext
    PROVE  SaveInv'
  <1>1. /\ cpc = "save" /\ file' = file \o Record(rec[cur]) /\ cur' = next[cur]
        /\ UNCHANGED db /\ UNCHANGED base /\ cur \in Nodes(head)
        /\ IF next[cur] = Null THEN cpc' = "idle" /\ saved' = Logins ELSE UNCHANGED <<cpc, saved>>
    BY DEF SaveNext, ListInv, ConsoleAt
  <1>2. /\ List(next, head, rec) /\ Logins = InOrder(next, head, rec) /\ Length = Size(next, head)
        /\ \A a : Number(a) = At(next, head, a)
    BY ListIs
  <1>3. PICK k \in 1..Length : k = Number(cur)
    BY <1>1, <1>2, Places DEF Nodes
  <1>4. Logins \in Seq(Login) /\ Len(Logins) = Length /\ Logins[k] = rec[cur]
    BY <1>1, <1>2, <1>3, OrderAt DEF Nodes
  <1>5. PICK r \in Login : r = rec[cur] /\ r = Logins[k]
    BY <1>3, <1>4
  <1>6. PICK at : Laid(file, SubSeq(Logins, 1, k - 1), at)
    BY <1>1, <1>3 DEF SaveInv
  <1>7. /\ SubSeq(Logins, 1, k) = Append(SubSeq(Logins, 1, k - 1), r)
        /\ SubSeq(Logins, 1, k - 1) \in Seq(Login) /\ SubSeq(Logins, 1, Length) = Logins
    BY <1>3, <1>4, <1>5, FrontOn
  <1>8. file \in Seq(Written)
    BY DEF FileInv
  <1>9. \E on : Laid(file \o Record(r), Append(SubSeq(Logins, 1, k - 1), r), on)
    BY <1>6, <1>7, <1>8, LaidOn
  <1>10. PICK on : Laid(file', SubSeq(Logins, 1, k), on)
    BY <1>1, <1>5, <1>7, <1>9
  <1>11. CASE next[cur] = Null
    <2>1. k = Length
      BY <1>1, <1>2, <1>3, <1>11, OrderNext DEF Nodes
    <2>2. Laid(file', saved', on)
      BY <1>1, <1>7, <1>10, <1>11, <2>1
    <2>3. QED
      BY <1>1, <1>4, <1>11, <2>2 DEF SaveInv
  <1>12. CASE next[cur] # Null
    <2>1. Number(next[cur]) = k + 1
      BY <1>1, <1>2, <1>3, <1>12, OrderNext DEF Nodes
    <2>2. Number(cur)' = Number(next[cur])
      BY <1>1 DEF Number, Nodes, db
    <2>3. Logins' = Logins
      BY <1>1, SameLogins
    <2>4. Number(cur)' - 1 = k
      BY <2>1, <2>2
    <2>5. Laid(file', SubSeq(Logins', 1, Number(cur)' - 1), on)
      BY <1>10, <2>3, <2>4
    <2>6. saved' = <<>> /\ cpc' = "save"
      BY <1>1, <1>12 DEF SaveInv
    <2>7. QED
      BY <1>1, <2>5, <2>6 DEF SaveInv
  <1>13. QED
    BY <1>11, <1>12

-----------------------------------------------------------------------------
(* Loading.                                                                *)

\* A load begins at the start of the file, and has added nothing yet.
LEMMA LoadStarts ==
    ASSUME ListInv, SaveInv, StartLoad
    PROVE  SaveInv'
  <1>1. /\ cpc' = "load" /\ pos' = 1 /\ base' = Logins /\ UNCHANGED <<db, file, saved>>
    BY DEF StartLoad
  <1>2. Logins \in Seq(Login) /\ Logins' = Logins
    BY <1>1, ListIs, OrderAt, SameLogins
  <1>3. saved \in Seq(Login)
    BY DEF SaveInv
  <1>4. SubSeq(saved, 1, 0) = <<>> /\ Reversed(<<>>) = <<>> /\ <<>> \o Logins = Logins
    BY <1>2 DEF Reversed
  <1>5. ASSUME saved # <<>>
        PROVE  \E at : /\ Laid(file, saved, at)
                       /\ \E m \in 0..Len(saved) :
                             pos' = at[m + 1] /\ Logins' = Reversed(SubSeq(saved, 1, m)) \o base'
    <2>1. PICK at : Laid(file, saved, at)
      BY <1>5 DEF SaveInv
    <2>2. 0 \in 0..Len(saved) /\ pos' = at[0 + 1]
      BY <1>1, <1>3, <2>1 DEF Laid
    <2>3. Logins' = Reversed(SubSeq(saved, 1, 0)) \o base'
      BY <1>1, <1>2, <1>4
    <2>4. QED
      BY <2>1, <2>2, <2>3
  <1>6. QED
    BY <1>1, <1>2, <1>5 DEF SaveInv

\* A list with a new login at its head.
Headed(new, r, old) ==
    /\ new \in Seq(Login) /\ Len(new) = Len(old) + 1 /\ new[1] = r
    /\ \A k \in 1..Len(old) : new[k + 1] = old[k]

\* What add makes of the list, as a sequence.
LEMMA LoginAdded ==
    ASSUME ListInv, ListInv', cpc \notin {"cut", "delete"}, NEW a \in Addr, NEW r \in Login, AddLogin(a, r)
    PROVE  Headed(Logins', r, Logins)
  <1>1. List(next, head, rec) /\ Logins = InOrder(next, head, rec)
    BY ListIs
  <1>2. List(next', head', rec') /\ Logins' = InOrder(next', head', rec')
    <2>1. head' \in Addr \union {Null} /\ next' \in Pointers /\ rec' \in [Addr -> Login \union {Null}]
      BY DEF ListInv, Shape
    <2>2. Acyclic(next', Reach(next', head'))
      BY DEF ListInv, ListIsExact, Nodes, Acyclic
    <2>3. \A b \in Reach(next', head') : b \in Addr /\ rec'[b] # Null
      BY <2>1, ReachType DEF ListInv, ListIsExact, Nodes, Allocated
    <2>4. List(next', head', rec')
      BY <2>1, <2>2, <2>3 DEF List
    <2>5. Logins' = InOrder(next', head', rec')
      BY DEF Logins, InOrder, Length, Size, Number, At, Nodes
    <2>6. QED
      BY <2>4, <2>5
  <1>3. /\ rec[a] = Null /\ head' = a /\ next' = [next EXCEPT ![a] = head] /\ rec' = [rec EXCEPT ![a] = r]
        /\ next \in Pointers /\ rec \in [Addr -> Login \union {Null}]
    BY DEF AddLogin, ListInv, Shape
  <1>4. a \notin Reach(next, head) /\ Reach(next, head) \subseteq Addr
    BY <1>3, ListFacts DEF Nodes
  <1>5. next'[a] = head /\ rec'[a] = r /\ \A b \in Reach(next, head) : next'[b] = next[b] /\ rec'[b] = rec[b]
    BY <1>3, <1>4 DEF Pointers
  <1>6. PICK ny, rd : ny = next' /\ rd = rec'
    OBVIOUS
  <1>7. /\ Size(ny, a) = Size(next, head) + 1 /\ InOrder(ny, a, rd)[1] = rd[a]
        /\ \A k \in 1..Size(next, head) : InOrder(ny, a, rd)[k + 1] = InOrder(next, head, rec)[k]
    <2>1. List(ny, a, rd) /\ ny[a] = head
      BY <1>2, <1>3, <1>5, <1>6
    <2>2. \A b \in Reach(next, head) : ny[b] = next[b] /\ rd[b] = rec[b]
      BY <1>5, <1>6
    <2>3. QED
      BY <1>1, <1>4, <2>1, <2>2, OrderAdded
  <1>8. Logins \in Seq(Login) /\ Len(Logins) = Size(next, head)
    BY <1>1, OrderAt
  <1>9. Logins' = InOrder(ny, a, rd) /\ List(ny, a, rd)
    BY <1>2, <1>3, <1>6
  <1>10. Logins' \in Seq(Login) /\ Len(Logins') = Size(ny, a)
    BY <1>9, OrderAt
  <1>11. QED
    BY <1>1, <1>5, <1>6, <1>7, <1>8, <1>9, <1>10 DEF Headed

\* What two sequences make together.
LEMMA Together ==
    ASSUME NEW a \in Seq(Login), NEW b \in Seq(Login), NEW n, n = Len(a)
    PROVE  /\ a \o b \in Seq(Login) /\ Len(a \o b) = n + Len(b)
           /\ \A k \in 1..n : (a \o b)[k] = a[k]
           /\ \A k \in 1..Len(b) : (a \o b)[n + k] = b[k]
  OBVIOUS

\* A function on 1..n is a sequence.
LEMMA SequenceOf ==
    ASSUME NEW n \in Nat, NEW f \in [1..n -> Login]
    PROVE  f \in Seq(Login) /\ Len(f) = n
  OBVIOUS

\* One login more has been read, and is the first of the list now.
LEMMA ReversedOn ==
    ASSUME NEW s \in Seq(Login), NEW m \in 0..Len(s), m + 1 \in 1..Len(s), NEW b \in Seq(Login),
           NEW old, old = Reversed(SubSeq(s, 1, m)) \o b,
           NEW new, Headed(new, s[m + 1], old)
    PROVE  new = Reversed(SubSeq(s, 1, m + 1)) \o b
  <1> DEFINE x == Reversed(SubSeq(s, 1, m))
             y == Reversed(SubSeq(s, 1, m + 1))
             n == Len(b)
  <1>0. /\ new \in Seq(Login) /\ Len(new) = Len(old) + 1 /\ new[1] = s[m + 1]
        /\ \A k \in 1..Len(old) : new[k + 1] = old[k]
    BY DEF Headed
  <1>1. m \in Nat /\ n \in Nat
    OBVIOUS
  <1>2. /\ SubSeq(s, 1, m) \in Seq(Login) /\ Len(SubSeq(s, 1, m)) = m
        /\ \A k \in 1..m : SubSeq(s, 1, m)[k] = s[k]
    OBVIOUS
  <1>3. /\ SubSeq(s, 1, m + 1) \in Seq(Login) /\ Len(SubSeq(s, 1, m + 1)) = m + 1
        /\ \A k \in 1..m + 1 : SubSeq(s, 1, m + 1)[k] = s[k]
    OBVIOUS
  <1>4. x \in Seq(Login) /\ Len(x) = m /\ \A k \in 1..m : x[k] = s[m + 1 - k]
    <2>1. x = [k \in 1..m |-> SubSeq(s, 1, m)[m + 1 - k]]
      BY <1>2 DEF Reversed
    <2>2. \A k \in 1..m : m + 1 - k \in 1..m
      BY <1>1
    <2>3. \A k \in 1..m : x[k] = s[m + 1 - k] /\ s[m + 1 - k] \in Login
      BY <1>2, <2>1, <2>2
    <2>4. x \in [1..m -> Login]
      BY <2>1, <2>3
    <2>5. QED
      BY <1>1, <2>3, <2>4, SequenceOf
  <1>5. y \in Seq(Login) /\ Len(y) = m + 1 /\ \A k \in 1..m + 1 : y[k] = s[m + 2 - k]
    <2>1. y = [k \in 1..m + 1 |-> SubSeq(s, 1, m + 1)[(m + 1) + 1 - k]]
      BY <1>3 DEF Reversed
    <2>2. \A k \in 1..m + 1 : (m + 1) + 1 - k \in 1..m + 1 /\ (m + 1) + 1 - k = m + 2 - k
      BY <1>1
    <2>3. \A k \in 1..m + 1 : y[k] = s[m + 2 - k] /\ s[m + 2 - k] \in Login
      BY <1>3, <2>1, <2>2
    <2>4. y \in [1..m + 1 -> Login]
      BY <2>1, <2>3
    <2>5. QED
      BY <1>1, <2>3, <2>4
  <1> HIDE DEF x, y
  <1>6. old = x \o b
    BY DEF x
  <1>7. /\ Len(old) = m + n /\ \A k \in 1..m : old[k] = x[k]
        /\ \A k \in 1..n : old[m + k] = b[k]
    <2>1. PICK l \in Nat : l = m
      BY <1>1
    <2>2. l = Len(x) /\ x \in Seq(Login)
      BY <1>4, <2>1
    <2>3. /\ Len(x \o b) = l + Len(b) /\ \A k \in 1..l : (x \o b)[k] = x[k]
          /\ \A k \in 1..Len(b) : (x \o b)[l + k] = b[k]
      BY <2>2, Together
    <2>4. QED
      BY <1>1, <1>6, <2>1, <2>3
  <1>8. /\ y \o b \in Seq(Login) /\ Len(y \o b) = m + 1 + n /\ \A k \in 1..m + 1 : (y \o b)[k] = y[k]
        /\ \A k \in 1..n : (y \o b)[m + 1 + k] = b[k]
    <2>1. PICK l \in Nat : l = m + 1
      BY <1>1
    <2>2. l = Len(y) /\ y \in Seq(Login)
      BY <1>5, <2>1
    <2>3. /\ y \o b \in Seq(Login) /\ Len(y \o b) = l + Len(b) /\ \A k \in 1..l : (y \o b)[k] = y[k]
          /\ \A k \in 1..Len(b) : (y \o b)[l + k] = b[k]
      BY <2>2, Together
    <2>4. QED
      BY <1>1, <2>1, <2>3
  <1>9. ASSUME NEW k \in 1..m + 1 + n PROVE new[k] = (y \o b)[k]
    <2>1. CASE k = 1
      <3>1. (y \o b)[1] = s[m + 1]
        <4>1. 1 \in 1..m + 1 /\ m + 2 - 1 = m + 1
          BY <1>1
        <4>2. y[1] = s[m + 1]
          BY <1>5, <4>1
        <4>3. QED
          BY <1>8, <4>1, <4>2
      <3>2. QED
        BY <1>0, <2>1, <3>1
    <2>2. CASE k \in 2..m + 1
      <3>1. PICK i \in 1..m : k = i + 1
        <4>1. k - 1 \in 1..m /\ k = (k - 1) + 1
          BY <1>1, <2>2
        <4>2. QED
          BY <4>1
      <3>2. new[k] = old[i] /\ old[i] = s[m + 1 - i]
        <4>1. i \in 1..Len(old)
          BY <1>1, <1>7
        <4>2. new[i + 1] = old[i]
          BY <1>0, <4>1
        <4>3. QED
          BY <1>4, <1>7, <3>1, <4>2
      <3>3. (y \o b)[k] = s[m + 2 - k] /\ m + 2 - k = m + 1 - i
        BY <1>1, <1>5, <1>8, <2>2, <3>1
      <3>4. QED
        BY <3>2, <3>3
    <2>3. CASE k \in m + 2..m + 1 + n
      <3>1. PICK i \in 1..n : k = m + 1 + i
        <4>1. k - (m + 1) \in 1..n /\ k = m + 1 + (k - (m + 1))
          BY <1>1, <2>3
        <4>2. QED
          BY <4>1
      <3>2. new[(m + i) + 1] = old[m + i] /\ (m + i) + 1 = k
        BY <1>0, <1>1, <1>7, <3>1
      <3>3. (y \o b)[m + 1 + i] = b[i] /\ old[m + i] = b[i]
        BY <1>7, <1>8
      <3>4. QED
        BY <3>1, <3>2, <3>3
    <2>4. k = 1 \/ k \in 2..m + 1 \/ k \in m + 2..m + 1 + n
      BY <1>1
    <2>5. QED
      BY <2>1, <2>2, <2>3, <2>4, Zenon
  <1>10. Len(new) = m + 1 + n
    <2>1. Len(new) = Len(old) + 1 /\ Len(old) = m + n
      BY <1>0, <1>7, Zenon
    <2>2. Len(new) = (m + n) + 1
      BY <2>1, Zenon
    <2>3. QED
      BY <1>1, <2>2
  <1>11. new = y \o b
    <2>1. PICK z \in Seq(Login) : z = y \o b
      BY <1>8
    <2>2. Len(new) = Len(z) /\ \A k \in 1..Len(new) : new[k] = z[k]
      BY <1>8, <1>9, <1>10, <2>1
    <2>3. QED
      BY <1>0, <2>1, <2>2, SeqEqual
  <1>12. QED
    BY <1>11 DEF y

\* It adds the next login of the file before the ones it has added.
LEMMA LoadGoesOn ==
    ASSUME ListInv, FileInv, SaveInv, NEW a \in Addr, LoadRecord(a)
    PROVE  SaveInv'
  <1>1. PICK r : r = [cred |-> file[pos].cred, folders |-> file[pos].n]
    OBVIOUS
  <1>2. /\ AddLogin(a, r) /\ pos <= Len(file) /\ file[pos] # Line /\ pos' = pos + 1 + file[pos].n
        /\ cpc = "load" /\ cpc' = cpc /\ cur' = cur /\ UNCHANGED <<file, saved, base>>
    BY <1>1 DEF LoadRecord
  <1>3. r \in Login
    BY <1>1, <1>2, RecordLoaded
  <1>4. ListInv'
    BY <1>2, <1>3, AddedFirst
  <1>5. Headed(Logins', r, Logins)
    BY <1>2, <1>3, <1>4, LoginAdded
  <1>6. saved \in Seq(Login) /\ base \in Seq(Login) /\ Len(file) \in Nat
    BY DEF SaveInv, FileInv
  <1>7. ASSUME saved # <<>>, Fits(saved)
        PROVE  \E at : /\ Laid(file, saved, at)
                       /\ \E m \in 0..Len(saved) :
                             pos' = at[m + 1] /\ Logins' = Reversed(SubSeq(saved, 1, m)) \o base
    <2>1. PICK at : /\ Laid(file, saved, at)
                    /\ \E m \in 0..Len(saved) :
                          pos = at[m + 1] /\ Logins = Reversed(SubSeq(saved, 1, m)) \o base
      BY <1>2, <1>7 DEF SaveInv
    <2>2. PICK m \in 0..Len(saved) : pos = at[m + 1] /\ Logins = Reversed(SubSeq(saved, 1, m)) \o base
      BY <2>1
    <2>3. /\ m + 1 \in 1..Len(saved) /\ at[m + 2] = pos + 1 + file[pos].n
          /\ [cred |-> file[pos].cred, folders |-> file[pos].n] = saved[m + 1]
      BY <1>2, <1>6, <1>7, <2>1, <2>2, LaidNext
    <2>4. r = saved[m + 1]
      BY <1>1, <2>3
    <2>5. Logins' = Reversed(SubSeq(saved, 1, m + 1)) \o base
      <3>1. PICK s, b, old, new :
                    /\ s \in Seq(Login) /\ b \in Seq(Login)
                    /\ s = saved /\ b = base /\ old = Logins /\ new = Logins'
        BY <1>6
      <3>2. PICK k \in 0..Len(s) : k = m
        BY <3>1
      <3>3. k + 1 \in 1..Len(s) /\ old = Reversed(SubSeq(s, 1, k)) \o b /\ Headed(new, s[k + 1], old)
        BY <1>5, <2>2, <2>3, <2>4, <3>1, <3>2
      <3>4. new = Reversed(SubSeq(s, 1, k + 1)) \o b
        BY <3>1, <3>3, ReversedOn
      <3>5. QED
        BY <3>1, <3>2, <3>4
    <2>6. PICK i \in 0..Len(saved) : i = m + 1 /\ i + 1 = m + 2
      BY <2>3
    <2>7. pos' = at[i + 1] /\ Logins' = Reversed(SubSeq(saved, 1, i)) \o base
      BY <1>2, <2>3, <2>5, <2>6
    <2>8. QED
      BY <2>1, <2>7
  <1>8. Fits(saved) = Fits(saved)'
    BY <1>2 DEF Fits
  <1>9. saved' # <<>> => \E at : Laid(file', saved', at)
    BY <1>2 DEF SaveInv
  <1>10. QED
    BY <1>2, <1>6, <1>7, <1>8, <1>9 DEF SaveInv

\* Every step keeps what is said of the file.
LEMMA SaveKeeps ==
    ASSUME ListInv, FileInv, SaveInv, [Next]_vars
    PROVE  SaveInv'
  <1>1. CASE Die \/ LoadCrash \/ \E a \in Addr : RemoveCrash(a)
    <2>1. Die
      BY <1>1 DEF LoadCrash, RemoveCrash
    <2>2. cpc' = "idle" /\ base' = <<>> /\ (UNCHANGED <<file, saved>> \/ saved' = <<>>)
      BY <2>1 DEF Die
    <2>3. QED
      BY <2>2, SaveBeside
  <1>2. ASSUME NEW a \in Addr, (\E c \in Creds : Input(a, c)) \/ LoadGarbage(a)
        PROVE  SaveInv'
    <2>1. cpc \in {"idle", "astray"} /\ UNCHANGED <<console, saved, base>>
      BY <1>2 DEF Input, LoadGarbage
    <2>2. QED
      BY <2>1, SaveBeside DEF console
  <1>3. ASSUME NEW a \in Addr, LoadRecord(a)
        PROVE  SaveInv'
    BY <1>3, LoadGoesOn
  <1>4. CASE RemoveFirst \/ \E a \in Addr : RemoveLater(a)
    BY <1>4, SaveBeside DEF RemoveFirst, RemoveLater, Unlinked
  <1>5. CASE Cut \/ Delete
    BY <1>5, SaveBeside DEF Cut, Delete
  <1>6. CASE StartSave
    BY <1>6, SaveStarts
  <1>7. CASE SaveNext
    BY <1>7, SaveGoesOn
  <1>8. CASE StartLoad
    BY <1>8, LoadStarts
  <1>9. CASE LoadEnd \/ LoseTrack \/ LoadGivesUp
    BY <1>9, SaveBeside DEF LoadEnd, LoseTrack, LoadGivesUp
  <1>10. ASSUME UNCHANGED <<db, console, saved, base>>
         PROVE  SaveInv'
    <2>1. Logins' = Logins /\ Number(cur)' = Number(cur)
      BY <1>10, SameLogins DEF db, console, Number, Nodes
    <2>2. UNCHANGED <<cpc, cur, pos, file, saved, base>>
      BY <1>10 DEF console
    <2>3. QED
      BY <2>1, <2>2 DEF SaveInv
  <1>11. CASE Match \/ Pass \/ NotFound \/ \E c \in Creds : StartCheck(c)
    BY <1>10, <1>11 DEF Match, Pass, NotFound, StartCheck, CheckEnds
  <1>12. CASE Stray
    <2>1. Die \/ CheckEnds
      BY <1>12 DEF Stray
    <2>2. QED
      BY <1>1, <1>10, <2>1 DEF CheckEnds
  <1>13. CASE UNCHANGED vars
    BY <1>10, <1>13 DEF vars
  <1>14. QED
    BY <1>1, <1>2, <1>3, <1>4, <1>5, <1>6, <1>7, <1>8, <1>9, <1>11, <1>12, <1>13 DEF Next

\* What ends a load without a crash has read all the file.
LEMMA LoadEndOnly ==
    ASSUME Next, cpc = "load", cpc' = "idle", head' # Null
    PROVE  LoadEnd
  <1>1. ~Die
    BY DEF Die
  <1>2. \A a \in Addr : /\ ~(\E c \in Creds : Input(a, c)) /\ ~LoadRecord(a)
                        /\ ~RemoveLater(a) /\ ~LoadGarbage(a)
    BY DEF Input, LoadRecord, RemoveLater, LoadGarbage
  <1>3. ~LoadCrash /\ \A a \in Addr : ~RemoveCrash(a)
    BY <1>1 DEF LoadCrash, RemoveCrash
  <1>4. ~RemoveFirst /\ ~Cut /\ ~Delete /\ ~StartSave /\ ~SaveNext
    BY DEF RemoveFirst, Cut, Delete, StartSave, SaveNext
  <1>5. ~StartLoad /\ ~LoseTrack /\ ~LoadGivesUp
    BY DEF StartLoad, LoseTrack, LoadGivesUp
  <1>6. ~UNCHANGED cpc
    OBVIOUS
  <1>7. ~Match /\ ~Pass /\ ~NotFound /\ ~Stray /\ \A c \in Creds : ~StartCheck(c)
    BY <1>1, <1>6 DEF Match, Pass, NotFound, Stray, StartCheck, CheckEnds, console
  <1>8. QED
    BY <1>1, <1>2, <1>3, <1>4, <1>5, <1>7 DEF Next

\* The logins of a file that was saved to the end come back, all of them with their folders,
\* each before the ones saved ahead of it and before the ones the list had (LoginDB::save,
\* Login::save, LoginDB::load, Login::Login(FILE*)): whatever was added and removed before,
\* and through any number of restarts between the save and the load.
THEOREM SavesAreRestored == Spec => SaveRestores
  <1>1. Init => SaveInv
    <2> SUFFICES ASSUME Init PROVE SaveInv
      OBVIOUS
    <2>1. saved = <<>> /\ base = <<>> /\ cpc = "idle"
      BY DEF Init
    <2>2. saved \in Seq(Login) /\ base \in Seq(Login)
      BY <2>1
    <2>3. QED
      BY <2>1, <2>2 DEF SaveInv
  <1>2. Inv /\ SaveInv /\ [Next]_vars => SaveInv'
    BY SaveKeeps DEF Inv
  <1>3. ASSUME Inv, SaveInv, Next, cpc = "load", cpc' = "idle", saved # <<>>, Fits(saved), head' # Null
        PROVE  Logins = Reversed(saved) \o base
    <2>1. pos > Len(file)
      BY <1>3, LoadEndOnly DEF LoadEnd
    <2>2. PICK at : /\ Laid(file, saved, at)
                    /\ \E m \in 0..Len(saved) :
                          pos = at[m + 1] /\ Logins = Reversed(SubSeq(saved, 1, m)) \o base
      BY <1>3 DEF SaveInv
    <2>3. PICK m \in 0..Len(saved) : pos = at[m + 1] /\ Logins = Reversed(SubSeq(saved, 1, m)) \o base
      BY <2>2
    <2>4. saved \in Seq(Login) /\ Len(file) \in Nat
      BY <1>3 DEF SaveInv, Inv, FileInv
    <2>5. m = Len(saved)
      BY <1>3, <2>1, <2>2, <2>3, <2>4, LaidNext
    <2>6. SubSeq(saved, 1, Len(saved)) = saved
      BY <2>4
    <2>7. QED
      BY <2>3, <2>5, <2>6
  <1>4. ASSUME Inv, SaveInv, [Next]_vars
        PROVE  [cpc = "load" /\ cpc' = "idle" /\ saved # <<>> /\ Fits(saved) /\ head' # Null =>
                   Logins = Reversed(saved) \o base]_vars
    BY <1>3, <1>4
  <1>5. QED
    BY <1>1, <1>2, <1>4, Invariance, PTL DEF Spec, SaveRestores
=============================================================================
