--------------------------- MODULE UserListProofs ---------------------------
(***************************************************************************)
(* Proofs about UserList, for every set of clients, every size of the      *)
(* arrays and every threshold of userControl.                              *)
(***************************************************************************)
EXTENDS UserList, FiniteSetTheorems, TLAPS

-----------------------------------------------------------------------------
(* What adding and dropping do to the list.                                *)

LEMMA CapType ==
    /\ CAP \in Nat \ {0} /\ UINT16_MAX \in Nat /\ CAP <= UINT16_MAX
    /\ \A n \in 0..CAP : n \in 0..UINT16_MAX
  <1>1. UINT16_MAX \in Nat
    BY DEF UINT16_MAX
  <1>2. CAP \in 1..UINT16_MAX
    BY UserListAssumption
  <1>3. QED
    BY <1>1, <1>2

LEMMA NodeIsTyped ==
    ASSUME TypeOK, NEW k \in 1..Len(nodes)
    PROVE  /\ nodes[k] \in NodeType
           /\ nodes[k].arr \in [1..CAP -> Mem \union {Null}]
           /\ nodes[k].count \in 0..UINT16_MAX
           /\ ~broken => nodes[k].count \in 0..CAP
  <1>1. nodes \in Seq(NodeType)
    BY DEF TypeOK
  <1>2. nodes[k] \in NodeType
    BY <1>1
  <1>3. /\ nodes[k].arr \in [1..CAP -> Mem \union {Null}]
        /\ nodes[k].count \in 0..UINT16_MAX
    BY <1>2 DEF NodeType
  <1>4. ~broken => nodes[k].count <= CAP
    BY DEF TypeOK
  <1>5. QED
    BY <1>2, <1>3, <1>4, CapType

LEMMA UpdatedType ==
    ASSUME NEW node \in NodeType, NEW j \in 1..CAP, NEW x \in Mem \union {Null},
           NEW n \in 0..UINT16_MAX
    PROVE  /\ Updated(node, j, x, n) \in NodeType
           /\ Updated(node, j, x, n).count = n
           /\ Updated(node, j, x, n).arr = [node.arr EXCEPT ![j] = x]
  <1>1. [node.arr EXCEPT ![j] = x] \in [1..CAP -> Mem \union {Null}]
    BY DEF NodeType
  <1>2. QED
    BY <1>1 DEF Updated, NodeType

LEMMA EntriesFinite ==
    ASSUME TypeOK
    PROVE  IsFiniteSet(Entries) /\ Cardinality(Entries) \in Nat
  <1>1. Len(nodes) \in Nat
    BY DEF TypeOK
  <1>2. IsFiniteSet(1..Len(nodes)) /\ IsFiniteSet(1..CAP)
    BY <1>1, FS_Interval, UserListAssumption
  <1>3. IsFiniteSet((1..Len(nodes)) \X (1..CAP))
    BY <1>2, FS_Product
  <1>4. IsFiniteSet(Entries)
    BY <1>3, FS_Subset DEF Entries, Positions
  <1>5. QED
    BY <1>4, FS_CardinalityType

\* A step of the list that replaces one node.
LEMMA ReplaceNode ==
    ASSUME TypeOK, NEW k \in 1..Len(nodes), NEW node \in NodeType,
           nodes' = [nodes EXCEPT ![k] = node]
    PROVE  /\ nodes' \in Seq(NodeType)
           /\ Len(nodes') = Len(nodes)
           /\ nodes'[k] = node
           /\ \A l \in 1..Len(nodes) : l # k => nodes'[l] = nodes[l]
  <1>1. nodes \in Seq(NodeType)
    BY DEF TypeOK, NodeType
  <1>2. QED
    BY <1>1

\* addUser makes one new entry and leaves the others alone.
LEMMA AddEffect ==
    ASSUME TypeOK, ~broken, NEW c \in Clients, AddUser(c)
    PROVE  /\ nodes' \in Seq(NodeType) /\ \A k \in 1..Len(nodes') : nodes'[k].count <= CAP
           /\ Len(nodes') >= Len(nodes) /\ nodesCount' - nodesCount = Len(nodes') - Len(nodes)
           /\ userCount' = userCount + 1 /\ nodesCount' \in {nodesCount, nodesCount + 1}
           /\ \E a \in Mem \ DOMAIN users : \E new :
                 /\ users' = Allocated(a, c)
                 /\ new \notin Entries
                 /\ Entries' = Entries \union {new}
                 /\ User(new)' = a
                 /\ \A e \in Entries : User(e)' = User(e)
  <1>0. /\ nodes \in Seq(NodeType) /\ Len(nodes) \in Nat /\ nodesCount \in Nat
        /\ CAP \in Nat \ {0} /\ CAP <= UINT16_MAX /\ UINT16_MAX \in Nat
        /\ \A k \in 1..Len(nodes) : nodes[k].count <= CAP
    BY CapType DEF TypeOK
  <1>p. PICK a \in Mem \ DOMAIN users :
           /\ IF \E k \in 1..Len(nodes) : nodes[k].count < CAP
              THEN /\ \E k \in 1..Len(nodes) : nodes[k].count < CAP /\ nodes' = PutAt(k, a)
                   /\ UNCHANGED nodesCount
              ELSE /\ nodes' = Append(nodes, NodeOf(a))
                   /\ nodesCount' = nodesCount + 1
           /\ userCount' = userCount + 1
           /\ users' = Allocated(a, c)
    BY DEF AddUser
  <1>1. CASE \E k \in 1..Len(nodes) : nodes[k].count < CAP
    <2>1. PICK k \in 1..Len(nodes) : nodes[k].count < CAP /\ nodes' = PutAt(k, a)
      BY <1>1, <1>p
    <2>2. nodesCount' = nodesCount
      BY <1>1, <1>p
    <2> DEFINE n == nodes[k].count
               node == Updated(nodes[k], n + 1, a, n + 1)
    <2>3. n \in 0..CAP /\ n + 1 \in 1..CAP /\ n + 1 \in 0..UINT16_MAX /\ nodes[k] \in NodeType
      BY <1>0, <2>1, NodeIsTyped
    <2>4. /\ node \in NodeType /\ node.count = n + 1
          /\ node.arr = [nodes[k].arr EXCEPT ![n + 1] = a]
      BY <2>3, UpdatedType
    <2>5. nodes' = [nodes EXCEPT ![k] = node]
      BY <2>1 DEF PutAt
    <2>6. /\ nodes' \in Seq(NodeType) /\ Len(nodes') = Len(nodes)
          /\ nodes'[k] = node
          /\ \A l \in 1..Len(nodes) : l # k => nodes'[l] = nodes[l]
      BY <2>4, <2>5, ReplaceNode
    <2> HIDE DEF n, node
    <2>7. <<k, n + 1>> \notin Entries
      BY <2>3 DEF Entries, Positions, n
    <2>8. Entries' = Entries \union {<<k, n + 1>>}
      <3>1. ASSUME NEW l \in 1..Len(nodes), NEW i \in 1..CAP
            PROVE  <<l, i>> \in Entries' <=> <<l, i>> \in Entries \/ <<l, i>> = <<k, n + 1>>
        <4>1. CASE l = k
          BY <2>3, <2>4, <2>6, <4>1 DEF Entries, Positions, n
        <4>2. CASE l # k
          BY <2>6, <4>2 DEF Entries, Positions
        <4>3. QED
          BY <4>1, <4>2
      <3>2. Entries' \subseteq (1..Len(nodes)) \X (1..CAP)
        BY <2>6 DEF Entries, Positions
      <3>3. Entries \union {<<k, n + 1>>} \subseteq (1..Len(nodes)) \X (1..CAP)
        BY <2>3 DEF Entries, Positions
      <3>4. QED
        BY <3>1, <3>2, <3>3
    <2>p. PICK new : new = <<k, n + 1>>
      OBVIOUS
    <2>9. User(new)' = a
      <3>1. nodes[k].arr \in [1..CAP -> Mem \union {Null}]
        BY NodeIsTyped
      <3>2. node.arr[n + 1] = a
        BY <2>3, <2>4, <3>1
      <3>3. QED
        BY <2>6, <2>p, <3>2 DEF User
    <2>10. ASSUME NEW e \in Entries PROVE User(e)' = User(e)
      <3>1. e[1] \in 1..Len(nodes) /\ e[2] \in 1..CAP /\ e[2] <= nodes[e[1]].count
        BY DEF Entries, Positions
      <3>2. nodes[k].arr \in [1..CAP -> Mem \union {Null}]
        BY NodeIsTyped
      <3>3. CASE e[1] = k
        <4>1. e[2] # n + 1
          BY <2>3, <3>1, <3>3 DEF n
        <4>2. node.arr[e[2]] = nodes[k].arr[e[2]]
          BY <2>4, <3>1, <3>2, <4>1
        <4>3. QED
          BY <2>6, <3>3, <4>2 DEF User
      <3>4. CASE e[1] # k
        BY <2>6, <3>1, <3>4 DEF User
      <3>5. QED
        BY <3>3, <3>4
    <2>11. \A l \in 1..Len(nodes') : nodes'[l].count <= CAP
      BY <1>0, <2>3, <2>4, <2>6
    <2>12. QED
      BY <1>0, <1>p, <2>2, <2>6, <2>7, <2>8, <2>p, <2>9, <2>10, <2>11
  <1>2. CASE ~\E k \in 1..Len(nodes) : nodes[k].count < CAP
    <2>1. nodes' = Append(nodes, NodeOf(a)) /\ nodesCount' = nodesCount + 1
      BY <1>2, <1>p
    <2>2. /\ NodeOf(a) \in NodeType /\ NodeOf(a).count = 1 /\ NodeOf(a).arr[1] = a
      <3>1. [i \in 1..CAP |-> IF i = 1 THEN a ELSE Null] \in [1..CAP -> Mem \union {Null}]
        OBVIOUS
      <3>2. 1 \in 0..UINT16_MAX /\ 1 \in 1..CAP
        BY <1>0
      <3>3. QED
        BY <3>1, <3>2 DEF NodeOf, NodeType
    <2> DEFINE m == Len(nodes) + 1
    <2>3. /\ nodes' \in Seq(NodeType) /\ Len(nodes') = m
          /\ nodes'[m] = NodeOf(a)
          /\ \A l \in 1..Len(nodes) : nodes'[l] = nodes[l]
      BY <1>0, <2>1, <2>2
    <2>4. <<m, 1>> \notin Entries
      BY <1>0 DEF Entries, Positions
    <2>5. Entries' = Entries \union {<<m, 1>>}
      <3>1. ASSUME NEW l \in 1..m, NEW i \in 1..CAP
            PROVE  <<l, i>> \in Entries' <=> <<l, i>> \in Entries \/ <<l, i>> = <<m, 1>>
        <4>1. CASE l = m
          BY <1>0, <2>2, <2>3, <4>1 DEF Entries, Positions
        <4>2. CASE l # m
          <5>1. l \in 1..Len(nodes)
            BY <1>0, <4>2
          <5>2. QED
            BY <2>3, <4>2, <5>1 DEF Entries, Positions
        <4>3. QED
          BY <4>1, <4>2
      <3>2. Entries' \subseteq (1..m) \X (1..CAP)
        BY <2>3 DEF Entries, Positions
      <3>3. Entries \union {<<m, 1>>} \subseteq (1..m) \X (1..CAP)
        BY <1>0 DEF Entries, Positions
      <3>4. QED
        BY <3>1, <3>2, <3>3
    <2>p. PICK new : new = <<m, 1>>
      OBVIOUS
    <2>6. User(new)' = a
      BY <2>2, <2>3, <2>p DEF User
    <2>7. \A e \in Entries : User(e)' = User(e)
      BY <2>3 DEF Entries, Positions, User
    <2>8. /\ Len(nodes') >= Len(nodes)
          /\ nodesCount' - nodesCount = Len(nodes') - Len(nodes)
      BY <1>0, <2>1, <2>3
    <2>9. \A l \in 1..Len(nodes') : nodes'[l].count <= CAP
      BY <1>0, <2>2, <2>3
    <2> HIDE DEF m
    <2>10. QED
      BY <1>p, <2>1, <2>3, <2>4, <2>5, <2>p, <2>6, <2>7, <2>8, <2>9
  <1>3. QED
    BY <1>1, <1>2

\* Dropping an entry frees the last entry of its node, and puts the user of that one
\* into the place of the dropped one.
LEMMA DropEffect ==
    ASSUME TypeOK, ~broken, NEW e \in Positions, nodes[e[1]].count > 0, NEW us, Drop(e, us)
    PROVE  /\ nodes' \in Seq(NodeType) /\ Len(nodes') = Len(nodes)
           /\ \A k \in 1..Len(nodes') : nodes'[k].count <= CAP
           /\ userCount' = userCount - 1 /\ nodesCount' = nodesCount
           /\ users' = Deleted(us, User(e))
           /\ \E gone \in Entries :
                 /\ Entries' = Entries \ {gone}
                 /\ \A d \in Entries' : User(d)' = IF d = e THEN User(gone) ELSE User(d)
  <1> DEFINE k == e[1]
             i == e[2]
             n == nodes[k].count
             node == Updated(nodes[k], i, nodes[k].arr[n], n - 1)
  <1>0. k \in 1..Len(nodes) /\ i \in 1..CAP /\ e = <<k, i>>
    BY DEF Positions
  <1>1. /\ n \in 1..CAP /\ n - 1 \in 0..CAP /\ n - 1 \in 0..UINT16_MAX
        /\ nodes[k] \in NodeType
        /\ nodes[k].arr \in [1..CAP -> Mem \union {Null}]
    BY <1>0, NodeIsTyped, CapType
  <1>2. nodes[k].arr[n] \in Mem \union {Null}
    BY <1>1
  <1>3. /\ node \in NodeType /\ node.count = n - 1
        /\ node.arr = [nodes[k].arr EXCEPT ![i] = nodes[k].arr[n]]
    <2>1. PICK nd \in NodeType, x \in Mem \union {Null}, j \in 1..CAP, b \in 0..UINT16_MAX :
              nd = nodes[k] /\ x = nodes[k].arr[n] /\ j = i /\ b = n - 1
      BY <1>0, <1>1, <1>2
    <2>2. /\ Updated(nd, j, x, b) \in NodeType /\ Updated(nd, j, x, b).count = b
          /\ Updated(nd, j, x, b).arr = [nd.arr EXCEPT ![j] = x]
      BY UpdatedType
    <2>3. QED
      BY <2>1, <2>2
  <1>4. nodes' = [nodes EXCEPT ![k] = node]
    BY DEF Drop
  <1>5. /\ nodes' \in Seq(NodeType) /\ Len(nodes') = Len(nodes)
        /\ nodes'[k] = node
        /\ \A l \in 1..Len(nodes) : l # k => nodes'[l] = nodes[l]
    BY <1>0, <1>3, <1>4, ReplaceNode
  <1>6. <<k, n>> \in Entries
    BY <1>0, <1>1 DEF Entries, Positions
  <1> HIDE DEF k, i, n, node
  <1>7. Entries' = Entries \ {<<k, n>>}
    <2>1. ASSUME NEW l \in 1..Len(nodes), NEW j \in 1..CAP
          PROVE  <<l, j>> \in Entries' <=> <<l, j>> \in Entries /\ <<l, j>> # <<k, n>>
      <3>1. CASE l = k
        <4>1. nodes'[l].count = n - 1 /\ nodes[l].count = n
          BY <1>3, <1>5, <3>1 DEF n
        <4>2. QED
          BY <1>1, <1>5, <3>1, <4>1 DEF Entries, Positions
      <3>2. CASE l # k
        BY <1>5, <3>2 DEF Entries, Positions
      <3>3. QED
        BY <3>1, <3>2
    <2>2. Entries' \subseteq (1..Len(nodes)) \X (1..CAP)
      BY <1>5 DEF Entries, Positions
    <2>3. Entries \subseteq (1..Len(nodes)) \X (1..CAP)
      BY DEF Entries, Positions
    <2>4. QED
      BY <2>1, <2>2, <2>3
  <1>8. ASSUME NEW d \in Entries'
        PROVE  User(d)' = IF d = e THEN User(<<k, n>>) ELSE User(d)
    <2>1. d \in Entries /\ d[1] \in 1..Len(nodes) /\ d[2] \in 1..CAP /\ d = <<d[1], d[2]>>
      BY <1>7 DEF Entries, Positions
    <2>2. CASE d = e
      <3>1. node.arr[i] = nodes[k].arr[n]
        BY <1>0, <1>1, <1>3
      <3>2. QED
        BY <1>0, <1>5, <2>2, <3>1 DEF User
    <2>3. CASE d # e /\ d[1] = k
      <3>1. d[2] # i
        BY <1>0, <2>1, <2>3
      <3>2. node.arr[d[2]] = nodes[k].arr[d[2]]
        BY <1>1, <1>3, <2>1, <3>1
      <3>3. QED
        BY <1>5, <2>3, <3>2 DEF User
    <2>4. CASE d # e /\ d[1] # k
      BY <1>5, <2>1, <2>4 DEF User
    <2>5. QED
      BY <2>2, <2>3, <2>4
  <1>9. \A l \in 1..Len(nodes') : nodes'[l].count <= CAP
    BY <1>1, <1>3, <1>5 DEF TypeOK
  <1>10. userCount' = userCount - 1 /\ nodesCount' = nodesCount /\ users' = Deleted(us, User(e))
    BY DEF Drop
  <1>11. QED
    BY <1>5, <1>6, <1>7, <1>8, <1>9, <1>10

-----------------------------------------------------------------------------
(* The inductive invariant.                                                *)

Inv == TypeOK /\ ListAccounts /\ ShortLists

\* The clients that have a user, listed or not.
Owners == {users[a].client : a \in DOMAIN users}

LEMMA InitInv == Init => Inv
  <1> SUFFICES ASSUME Init PROVE Inv
    OBVIOUS
  <1>1. nodes = <<>> /\ Len(nodes) = 0
    BY DEF Init
  <1>2. Entries = {}
    BY <1>1 DEF Entries, Positions
  <1>3. DOMAIN users = {}
    BY DEF Init
  <1>4. TypeOK
    <2>1. nodes \in Seq(NodeType) /\ \A k \in 1..Len(nodes) : nodes[k].count <= CAP
      BY <1>1
    <2>2. userCount \in Int /\ nodesCount \in Nat
      BY DEF Init
    <2>3. /\ told \in Clients \union {Null}
          /\ broken \in BOOLEAN /\ stray \in BOOLEAN
          /\ phase \in {"serving", "last", "none"} /\ at \in {Off}
      BY DEF Init
    <2>4. QED
      BY <1>3, <2>1, <2>2, <2>3 DEF TypeOK
  <1>5. ListAccounts
    BY <1>1, <1>2, <1>3, FS_EmptySet DEF Init, ListAccounts, ListIsExact, CountersAgree
  <1>6. ShortLists
    BY UserListAssumption DEF Init, ShortLists, Listed
  <1>7. QED
    BY <1>4, <1>5, <1>6 DEF Inv

\* An entry has two numbers, so it does not come before itself.
LEMMA EntryNumbers ==
    ASSUME TypeOK, NEW e \in Positions
    PROVE  /\ e[1] \in 1..Len(nodes) /\ e[2] \in 1..CAP /\ e = <<e[1], e[2]>>
           /\ Len(nodes) \in Nat /\ ~Before(e, e)
  <1>1. e[1] \in 1..Len(nodes) /\ e[2] \in 1..CAP /\ e = <<e[1], e[2]>>
    BY DEF Positions
  <1>2. Len(nodes) \in Nat
    BY DEF TypeOK
  <1>3. QED
    BY <1>1, <1>2, CapType DEF Before

\* In an exact list the clients that are found are those that have a user.
LEMMA ListedAreOwners == TypeOK /\ ListIsExact => Listed = Owners
  <1> SUFFICES ASSUME TypeOK, ListIsExact PROVE Listed = Owners
    OBVIOUS
  <1>1. ASSUME NEW c \in Listed PROVE c \in Owners
    BY DEF Listed, Find, Hits, Matches, Owners
  <1>2. ASSUME NEW a \in DOMAIN users PROVE users[a].client \in Listed
    <2>1. PICK e \in Entries : User(e) = a
      BY DEF ListIsExact
    <2>2. \A d \in Entries : Matches(d, users[a].client) => d = e
      BY <2>1 DEF Matches, ListIsExact
    <2>3. ~Before(e, e)
      BY EntryNumbers DEF Entries
    <2>4. e \in Find(users[a].client)
      BY <2>1, <2>2, <2>3 DEF Find, Hits, Matches
    <2>5. users[a].client \in Clients
      BY DEF TypeOK, UserType
    <2>6. QED
      BY <2>4, <2>5 DEF Listed
  <1>3. QED
    BY <1>1, <1>2 DEF Owners

LEMMA ListedAreOwnersNext == (TypeOK /\ ListIsExact => Listed = Owners)'
  BY ListedAreOwners, PTL

\* The users are the same but for their times.
SameClients(us) ==
    /\ DOMAIN us = DOMAIN users
    /\ \A a \in DOMAIN users : us[a] \in UserType /\ us[a].client = users[a].client

LEMMA ResetIsSame ==
    ASSUME TypeOK, NEW e, User(e) \in DOMAIN users
    PROVE  SameClients(Reset(e))
  <1>1. NewUser(users[User(e)].client) \in UserType
    BY DEF TypeOK, NewUser, UserType, Idle
  <1>2. QED
    BY <1>1 DEF TypeOK, SameClients, Reset, NewUser

\* The list and the clients stay as they are.
LEMMA SameList ==
    ASSUME TypeOK, ListAccounts, UNCHANGED <<list, stray>>, SameClients(users'),
           told' \in Clients \union {Null}, broken' \in BOOLEAN, broken => broken',
           phase' \in {"serving", "last", "none"},
           at' \in {Off} \union ((1..Len(nodes)) \X (1..(CAP + 1)))
    PROVE  TypeOK' /\ ListAccounts' /\ Owners' = Owners
  <1>1. TypeOK'
    BY DEF TypeOK, list, SameClients
  <1>2. Entries' = Entries /\ \A e \in Entries : User(e)' = User(e)
    BY DEF list, Entries, Positions, User
  <1>3. ASSUME ListIsExact PROVE ListIsExact'
    <2>0. {User(e) : e \in Entries}' = {User(e) : e \in Entries}
      BY <1>2
    <2>1. {User(e) : e \in Entries}' = DOMAIN users'
      BY <2>0, <1>3 DEF ListIsExact, SameClients
    <2>2. \A d, e \in Entries' : User(d)' = User(e)' => d = e
      BY <1>2, <1>3 DEF ListIsExact
    <2>3. \A a, b \in DOMAIN users' : users'[a].client = users'[b].client => a = b
      BY <1>3 DEF ListIsExact, SameClients
    <2>4. QED
      BY <2>1, <2>2, <2>3 DEF ListIsExact
  <1>4. CountersAgree => CountersAgree'
    BY <1>2 DEF CountersAgree, list
  <1>5. Owners' = Owners
    BY DEF Owners, SameClients
  <1>6. QED
    BY <1>1, <1>3, <1>4, <1>5 DEF ListAccounts

\* No client is found that has no user.
LEMMA ListedHaveUsers ==
    ASSUME NEW c \in Listed'
    PROVE  c \in Clients /\ c \in Owners'
  BY DEF Listed, Find, Hits, Matches, Owners

\* ShortLists for the steps in which nothing goes wrong and nobody is told anything new.
LEMMA ShortKept ==
    ASSUME Inv, TypeOK', UNCHANGED <<broken, stray>>, Len(nodes') >= Len(nodes),
           \/ told' = Null
           \/ told' = told /\ Owners' \subseteq Owners
    PROVE  ShortLists'
  <1>1. Len(nodes) \in Nat /\ Len(nodes') \in Nat
    BY DEF Inv, TypeOK
  <1>2. Len(nodes') <= 2 => ~broken' /\ ~stray'
    BY <1>1 DEF Inv, ShortLists
  <1>3. ASSUME Len(nodes') <= 1 PROVE told' \notin Listed'
    <2>1. Len(nodes) <= 1 /\ ~stray
      BY <1>1, <1>3 DEF Inv, ShortLists
    <2>2. told \notin Owners
      BY <2>1, ListedAreOwners DEF Inv, ListAccounts, ShortLists
    <2>3. QED
      BY <2>2, ListedHaveUsers, UserListAssumption
  <1>4. QED
    BY <1>2, <1>3 DEF ShortLists
-----------------------------------------------------------------------------
(* The operations.                                                         *)

\* Adding a client that is not there.
LEMMA AddInv ==
    ASSUME TypeOK, ListAccounts, ~broken, NEW c \in Clients, Find(c) = {}, AddUser(c),
           UNCHANGED <<broken, stray, at>>, told' = Null,
           phase' \in {"serving", "last", "none"}
    PROVE  TypeOK' /\ ListAccounts' /\ Owners \subseteq Owners' /\ Len(nodes') >= Len(nodes)
  <1>1. /\ nodes' \in Seq(NodeType) /\ \A k \in 1..Len(nodes') : nodes'[k].count <= CAP
        /\ Len(nodes') >= Len(nodes) /\ nodesCount' - nodesCount = Len(nodes') - Len(nodes)
        /\ userCount' = userCount + 1 /\ nodesCount' \in {nodesCount, nodesCount + 1}
    BY AddEffect
  <1>2. PICK a \in Mem \ DOMAIN users :
              \E new : /\ users' = Allocated(a, c)
                       /\ new \notin Entries
                       /\ Entries' = Entries \union {new}
                       /\ User(new)' = a
                       /\ \A e \in Entries : User(e)' = User(e)
    BY AddEffect
  <1>3. PICK new : /\ users' = Allocated(a, c)
                   /\ new \notin Entries
                   /\ Entries' = Entries \union {new}
                   /\ User(new)' = a
                   /\ \A e \in Entries : User(e)' = User(e)
    BY <1>2
  <1>4. /\ DOMAIN users' = DOMAIN users \union {a}
        /\ users'[a] = NewUser(c)
        /\ \A b \in DOMAIN users : users'[b] = users[b]
    BY <1>3 DEF Allocated
  <1>5. TypeOK'
    <2>0. NewUser(c) \in UserType /\ \A b \in DOMAIN users : users[b] \in UserType
      BY DEF TypeOK, UserType, NewUser, Idle
    <2>1. \A b \in DOMAIN users' : users'[b] \in UserType
      BY <1>4, <2>0
    <2>2. Len(nodes) \in Nat /\ Len(nodes') \in Nat
      BY <1>1 DEF TypeOK
    <2>3. 1..Len(nodes) \subseteq 1..Len(nodes')
      BY <1>1, <2>2
    <2>4. at' \in {Off} \union ((1..Len(nodes')) \X (1..(CAP + 1)))
      BY <2>3 DEF TypeOK
    <2>5. userCount' \in Int /\ nodesCount' \in Nat
      BY <1>1 DEF TypeOK
    <2>6. QED
      BY <1>1, <1>4, <2>1, <2>4, <2>5 DEF TypeOK
  <1>6. Owners \subseteq Owners'
    BY <1>4 DEF Owners
  <1>7. ASSUME ~stray PROVE ListIsExact'
    <2>1. ListIsExact
      BY <1>7 DEF ListAccounts
    <2>2. c \notin Owners
      BY <2>1, ListedAreOwners DEF Listed
    <2>3. {User(e) : e \in Entries}' = DOMAIN users'
      BY <1>3, <1>4, <2>1 DEF ListIsExact
    <2>4. \A d, e \in Entries' : User(d)' = User(e)' => d = e
      BY <1>3, <2>1 DEF ListIsExact
    <2>5. \A b, d \in DOMAIN users' : users'[b].client = users'[d].client => b = d
      BY <1>4, <2>1, <2>2 DEF ListIsExact, Owners, NewUser
    <2>6. QED
      BY <2>3, <2>4, <2>5 DEF ListIsExact
  <1>8. CountersAgree'
    <2>1. Cardinality(Entries') = Cardinality(Entries) + 1
      BY <1>3, EntriesFinite, FS_AddElement
    <2>2. Len(nodes) \in Nat /\ Len(nodes') \in Nat /\ nodesCount \in Nat /\ nodesCount = Len(nodes)
      BY <1>1 DEF TypeOK, ListAccounts, CountersAgree
    <2>3. nodesCount' = Len(nodes')
      BY <1>1, <2>2
    <2>4. QED
      BY <1>1, <2>1, <2>3 DEF ListAccounts, CountersAgree
  <1>9. QED
    BY <1>1, <1>5, <1>6, <1>7, <1>8 DEF ListAccounts

\* Dropping any entry of a node that counts somebody: the counters follow, and only the
\* user that is deleted is gone.
LEMMA DropCounts ==
    ASSUME TypeOK, ListAccounts, ~broken, NEW e \in Positions, nodes[e[1]].count > 0,
           NEW us, SameClients(us), Drop(e, us),
           ~broken', stray' \in BOOLEAN, told' \in Clients \union {Null},
           phase' \in {"serving", "last", "none"},
           at' \in {Off} \union ((1..Len(nodes)) \X (1..(CAP + 1)))
    PROVE  /\ TypeOK' /\ CountersAgree' /\ Len(nodes') = Len(nodes)
           /\ DOMAIN users' = DOMAIN users \ {User(e)}
           /\ \A a \in DOMAIN users' : users'[a].client = users[a].client
  <1>1. /\ nodes' \in Seq(NodeType) /\ Len(nodes') = Len(nodes)
        /\ \A k \in 1..Len(nodes') : nodes'[k].count <= CAP
        /\ userCount' = userCount - 1 /\ nodesCount' = nodesCount
        /\ users' = Deleted(us, User(e))
    BY DropEffect
  <1>2. PICK gone \in Entries : Entries' = Entries \ {gone}
    BY DropEffect
  <1>3. /\ DOMAIN users' = DOMAIN users \ {User(e)}
        /\ \A a \in DOMAIN users' : users'[a] \in UserType /\ users'[a].client = users[a].client
    BY <1>1 DEF Deleted, SameClients
  <1>4. broken' = FALSE
    BY <1>1 DEF Drop
  <1>5. CountersAgree'
    <2>1. Cardinality(Entries') = Cardinality(Entries) - 1
      BY <1>2, EntriesFinite, FS_RemoveElement
    <2>2. QED
      BY <1>1, <2>1 DEF ListAccounts, CountersAgree
  <1>6. TypeOK'
    <2>1. DOMAIN users' \subseteq Mem /\ \A a \in DOMAIN users' : users'[a] \in UserType
      BY <1>3 DEF TypeOK
    <2>2. userCount' \in Int /\ nodesCount' \in Nat
      BY <1>1 DEF TypeOK
    <2>3. broken' \in BOOLEAN
      BY <1>4
    <2>4. QED
      BY <1>1, <2>1, <2>2, <2>3 DEF TypeOK
  <1>7. QED
    BY <1>1, <1>3, <1>5, <1>6

\* Dropping an entry in use takes exactly its user away.
LEMMA DropExact ==
    ASSUME TypeOK, ListIsExact, ~broken, NEW e \in Entries,
           NEW us, SameClients(us), Drop(e, us)
    PROVE  /\ ListIsExact'
           /\ Owners' = Owners \ {users[User(e)].client}
  <1>1. users' = Deleted(us, User(e))
    BY DEF Drop
  <1>2. e \in Positions /\ nodes[e[1]].count > 0
    <2>1. e \in Positions /\ e[2] <= nodes[e[1]].count
      BY DEF Entries
    <2>2. e[2] \in 1..CAP /\ nodes[e[1]].count \in 0..CAP
      BY <2>1, EntryNumbers, NodeIsTyped
    <2>3. QED
      BY <2>1, <2>2, CapType
  <1>3. PICK gone \in Entries :
              /\ Entries' = Entries \ {gone}
              /\ \A d \in Entries' : User(d)' = IF d = e THEN User(gone) ELSE User(d)
    BY <1>2, DropEffect
  <1>4. /\ DOMAIN users' = DOMAIN users \ {User(e)}
        /\ \A a \in DOMAIN users' : users'[a].client = users[a].client
    BY <1>1 DEF Deleted, SameClients
  <1>5. {User(d) : d \in Entries}' = DOMAIN users'
    BY <1>3, <1>4 DEF ListIsExact
  <1>6. \A d, f \in Entries' : User(d)' = User(f)' => d = f
    BY <1>3 DEF ListIsExact
  <1>7. \A a, b \in DOMAIN users' : users'[a].client = users'[b].client => a = b
    BY <1>4 DEF ListIsExact
  <1>8. User(e) \in DOMAIN users
    BY DEF ListIsExact
  <1>9. Owners' = Owners \ {users[User(e)].client}
    BY <1>4, <1>8 DEF Owners, ListIsExact
  <1>10. QED
    BY <1>5, <1>6, <1>7, <1>9 DEF ListIsExact

\* In an exact list findUser follows users only.
LEMMA FindIsSafe ==
    ASSUME ListIsExact, NEW c
    PROVE  ~MayBreak(Entries, c)
  BY DEF ListIsExact, MayBreak, Passed

\* In an exact list of at most two nodes removeUser meets nothing behind an end before
\* the user, and in a list of one node it finds the user.
LEMMA ShortLooks ==
    ASSUME TypeOK, ListIsExact, ~broken, NEW c, NEW f \in Find(c), Len(nodes) <= 2
    PROVE  /\ ~MayBreak(Looked, c)
           /\ Hits(Looked, c) \subseteq {f}
           /\ Len(nodes) <= 1 => f \in Hits(Looked, c)
  <1>1. /\ f \in Entries /\ f \in Positions /\ Matches(f, c)
        /\ f[1] \in 1..Len(nodes) /\ f[2] \in 1..CAP /\ f[2] <= nodes[f[1]].count
        /\ Len(nodes) \in Nat
    BY EntryNumbers DEF Find, Hits, Entries
  <1>2. \A k \in 1..Len(nodes) : nodes[k].count \in 0..CAP
    BY NodeIsTyped
  <1>3. Len(nodes) \in {1, 2} /\ 1 \in 1..Len(nodes)
    <2>1. PICK n \in Nat : n = Len(nodes) /\ f[1] \in 1..n
      BY <1>1
    <2>2. n <= 2
      BY <2>1
    <2>3. n \in {1, 2} /\ 1 \in 1..n
      BY <2>1, <2>2
    <2>4. QED
      BY <2>1, <2>3
  <1>n. /\ nodes[1].count \in Nat /\ nodes[f[1]].count \in Nat
        /\ f[1] \in {1, 2} /\ f[2] \in Nat /\ CAP \in Nat
    BY <1>1, <1>2, <1>3, CapType
  \* What is looked at and not in use lies in the second node, behind its end.
  <1>4. ASSUME NEW d \in Looked, d \notin Entries
        PROVE  /\ d[1] = 2 /\ Len(nodes) = 2 /\ d[2] \in Nat
               /\ nodes[2].count < d[2] /\ d[2] <= nodes[1].count
               /\ nodes[2].count \in Nat
    <2>1. d \in Positions /\ d[2] <= nodes[1].count
      BY DEF Looked, Limit
    <2>2. d[1] \in 1..Len(nodes) /\ d[2] \in 1..CAP
      BY <2>1, EntryNumbers
    <2>3. ~(d[2] <= nodes[d[1]].count)
      BY <1>4, <2>1 DEF Entries
    <2>4. d[1] # 1
      BY <2>1, <2>3
    <2>5. d[1] = 2 /\ Len(nodes) = 2 /\ nodes[2].count \in 0..CAP
      BY <1>2, <1>3, <2>2, <2>4
    <2>6. QED
      BY <1>n, <2>1, <2>2, <2>3, <2>5
  <1>5. ASSUME NEW d \in Looked, d \notin Entries
        PROVE  f \in Looked /\ ~Before(d, f) /\ Before(f, d)
    <2>1. /\ d[1] = 2 /\ d[2] \in Nat /\ nodes[2].count \in Nat
          /\ nodes[2].count < d[2] /\ d[2] <= nodes[1].count
      BY <1>4, <1>5
    <2>2. CASE f[1] = 1
      BY <1>1, <1>n, <2>1, <2>2 DEF Looked, Limit, Before
    <2>3. CASE f[1] = 2
      BY <1>1, <1>n, <2>1, <2>3 DEF Looked, Limit, Before
    <2>4. QED
      BY <1>n, <2>2, <2>3
  <1>6. ASSUME NEW d \in Entries, Matches(d, c) PROVE d = f
    BY <1>1, <1>6 DEF ListIsExact, Matches
  <1>7. ASSUME f \in Looked PROVE f \in Hits(Looked, c)
    <2>1. ~Before(f, f)
      BY <1>1, EntryNumbers
    <2>2. QED
      BY <1>1, <1>5, <1>6, <1>7, <2>1 DEF Hits
  <1>8. ~MayBreak(Looked, c)
    <2> SUFFICES ASSUME NEW d \in Passed(Looked, c), User(d) \notin DOMAIN users
                 PROVE  FALSE
      BY DEF MayBreak
    <2>1. d \in Looked /\ d \notin Entries
      BY DEF Passed, ListIsExact
    <2>2. QED
      BY <1>5, <1>7, <2>1 DEF Passed
  <1>9. Hits(Looked, c) \subseteq {f}
    <2> SUFFICES ASSUME NEW d \in Hits(Looked, c) PROVE d = f
      OBVIOUS
    <2>1. d \in Looked /\ Matches(d, c) /\ \A h \in Looked : Matches(h, c) => ~Before(h, d)
      BY DEF Hits
    <2>2. QED
      BY <1>1, <1>5, <1>6, <2>1
  <1>10. ASSUME Len(nodes) <= 1 PROVE f \in Looked
    BY <1>1, <1>3, <1>10 DEF Looked, Limit
  <1>11. QED
    BY <1>7, <1>8, <1>9, <1>10

-----------------------------------------------------------------------------
(* The actions.                                                            *)

\* A pointer that leads to no user is followed, and there are more than two nodes.
LEMMA BreakInv ==
    ASSUME Inv, Break, ~(Len(nodes) <= 2),
           phase' \in {"serving", "last", "none"},
           at' \in {Off} \union ((1..Len(nodes)) \X (1..(CAP + 1)))
    PROVE  Inv' /\ Owners' = Owners
  <1>1. SameClients(users')
    BY DEF SameClients, Break, Inv, TypeOK
  <1>2. TypeOK' /\ ListAccounts' /\ Owners' = Owners
    BY <1>1, SameList DEF Break, Inv
  <1>3. ShortLists'
    <2>1. Len(nodes) \in Nat /\ Len(nodes') = Len(nodes)
      BY DEF Inv, TypeOK, Break, list
    <2>2. \A n \in Nat : ~(n <= 2) => ~(n <= 1)
      OBVIOUS
    <2>3. QED
      BY <2>1, <2>2 DEF ShortLists
  <1>4. QED
    BY <1>2, <1>3 DEF Inv

LEMMA DatagramInv ==
    ASSUME Inv, NEW c \in Clients, Datagram(c)
    PROVE  Inv' /\ Owners \subseteq Owners' /\ stray' = stray
  <1>0. TypeOK /\ ListAccounts /\ ~broken /\ Receive
    BY DEF Inv, Datagram, Receive
  <1>1. phase' \in {"serving", "last", "none"} /\ UNCHANGED at
    BY <1>0 DEF Receive, TypeOK
  <1>t. at \in {Off} \union ((1..Len(nodes)) \X (1..(CAP + 1)))
    BY <1>0 DEF TypeOK
  <1>2. CASE MayBreak(Entries, c) /\ Break
    <2>1. stray
      BY <1>0, <1>2, FindIsSafe DEF ListAccounts
    <2>2. ~(Len(nodes) <= 2)
      BY <2>1 DEF Inv, ShortLists
    <2>3. QED
      BY <1>1, <1>t, <1>2, <2>2, BreakInv DEF Break
  <1>3. ASSUME NEW e \in Find(c), users' = Reset(e), UNCHANGED list, told' = Null,
               UNCHANGED <<broken, stray>>
        PROVE  Inv' /\ Owners \subseteq Owners' /\ stray' = stray
    <2>1. User(e) \in DOMAIN users
      BY DEF Find, Hits, Matches
    <2>2. SameClients(users')
      BY <1>0, <1>3, <2>1, ResetIsSame
    <2>b. /\ broken' \in BOOLEAN /\ (broken => broken')
          /\ told' \in Clients \union {Null}
          /\ UNCHANGED <<list, stray>>
      BY <1>0, <1>3 DEF TypeOK
    <2>3. TypeOK' /\ ListAccounts' /\ Owners' = Owners
      BY <1>0, <1>1, <1>t, <2>b, <2>2, SameList
    <2>4. Len(nodes') >= Len(nodes)
      BY <1>0, <1>3 DEF list, TypeOK
    <2>5. ShortLists'
      BY <1>3, <2>3, <2>4, ShortKept
    <2>6. QED
      BY <1>3, <2>3, <2>5 DEF Inv
  <1>4. CASE Find(c) = {} /\ AddUser(c) /\ told' = Null /\ UNCHANGED <<broken, stray>>
    <2>1. TypeOK' /\ ListAccounts' /\ Owners \subseteq Owners' /\ Len(nodes') >= Len(nodes)
      BY <1>0, <1>1, <1>4, AddInv
    <2>2. ShortLists'
      BY <1>4, <2>1, ShortKept
    <2>3. QED
      BY <1>4, <2>1, <2>2 DEF Inv
  <1>5. QED
    BY <1>2, <1>3, <1>4 DEF Datagram

\* What removeUser does to the list.
LEMMA RemoveInv ==
    ASSUME Inv, ~broken, NEW c \in Clients, NEW f \in Find(c), NEW e \in Hits(Looked, c),
           Remove(e, c, Reset(f)), Len(nodes) <= 2 => e = f, UNCHANGED at,
           phase' \in {"serving", "last", "none"}
    PROVE  /\ Inv'
           /\ ~stray' => ~stray /\ Owners \ Owners' \subseteq {c}
  <1>0. TypeOK /\ ListAccounts /\ ShortLists
    BY DEF Inv
  <1>1. /\ User(f) \in DOMAIN users /\ users[User(f)].client = c /\ f \in Entries
        /\ User(e) \in DOMAIN users /\ users[User(e)].client = c /\ e \in Positions
    BY DEF Find, Hits, Matches, Looked, Entries
  <1>2. SameClients(Reset(f))
    BY <1>0, <1>1, ResetIsSame
  <1>3. /\ stray' = (stray \/ e \notin Entries) /\ stray' \in BOOLEAN
        /\ told' \in {c, Null}
    BY DEF Remove
  <1>4. at \in {Off} \union ((1..Len(nodes)) \X (1..(CAP + 1)))
    BY <1>0 DEF TypeOK
  <1>5. CASE nodes[e[1]].count > 0 /\ Drop(e, Reset(f)) /\ UNCHANGED broken
    <2>1. TypeOK' /\ CountersAgree' /\ Len(nodes') = Len(nodes)
      BY <1>0, <1>1, <1>2, <1>3, <1>4, <1>5, DropCounts
    <2>2. ASSUME ~stray'
          PROVE  ListIsExact' /\ ~stray /\ Owners' = Owners \ {c}
      <3>1. ListIsExact /\ e \in Entries /\ ~stray
        BY <1>0, <1>3, <2>2 DEF ListAccounts
      <3>2. QED
        BY <1>0, <1>1, <1>2, <1>5, <3>1, DropExact
    <2>3. ShortLists'
      <3>1. ASSUME Len(nodes') <= 2
            PROVE  ~broken' /\ ~stray' /\ told' \notin Listed'
        <4>1. e = f /\ ~stray /\ ~broken
          BY <1>0, <2>1, <3>1 DEF ShortLists
        <4>2. ~stray'
          BY <1>1, <1>3, <4>1
        <4>3. c \notin Owners'
          BY <2>2, <4>2
        <4>4. QED
          BY <1>3, <1>5, <4>1, <4>2, <4>3, ListedHaveUsers, UserListAssumption
      <3>2. Len(nodes') <= 1 => Len(nodes') <= 2
        BY <2>1 DEF TypeOK
      <3>3. QED
        BY <3>1, <3>2 DEF ShortLists
    <2>4. QED
      BY <2>1, <2>2, <2>3 DEF Inv, ListAccounts
  <1>6. CASE nodes[e[1]].count = 0 /\ DropFromNone(e, Reset(f)) /\ broken' = TRUE
    <2>1. e[1] \in 1..Len(nodes) /\ e[2] \in 1..CAP /\ Len(nodes) \in Nat
      BY <1>0, <1>1, EntryNumbers
    <2>2. e \notin Entries
      BY <1>6, <2>1, CapType DEF Entries
    <2>3. stray'
      BY <1>3, <2>2
    <2>4. ~(Len(nodes) <= 2)
      BY <1>1, <2>2
    <2>5. /\ nodes' = [nodes EXCEPT ![e[1]] = [nodes[e[1]] EXCEPT !.count = UINT16_MAX]]
          /\ [nodes[e[1]] EXCEPT !.count = UINT16_MAX] \in NodeType
      <3>1. nodes[e[1]] \in NodeType /\ UINT16_MAX \in 0..UINT16_MAX
        BY <1>0, <2>1, NodeIsTyped, CapType
      <3>2. [nodes[e[1]] EXCEPT !.count = UINT16_MAX] \in NodeType
        BY <3>1 DEF NodeType
      <3>3. nodes \in Seq(NodeType)
        BY <1>0 DEF TypeOK
      <3>4. QED
        BY <1>6, <3>2, <3>3, <2>1 DEF DropFromNone
    <2>6. nodes' \in Seq(NodeType) /\ Len(nodes') = Len(nodes)
      BY <1>0, <2>1, <2>5, ReplaceNode
    <2>7. TypeOK'
      <3>1. /\ DOMAIN users' \subseteq Mem
            /\ \A a \in DOMAIN users' : users'[a] \in UserType
        BY <1>0, <1>2, <1>6 DEF DropFromNone, Deleted, SameClients, TypeOK
      <3>2. userCount' \in Int /\ nodesCount' \in Nat
        BY <1>0, <1>6 DEF DropFromNone, TypeOK
      <3>3. told' \in Clients \union {Null}
        BY <1>3
      <3>4. QED
        BY <1>3, <1>4, <1>6, <2>6, <3>1, <3>2, <3>3 DEF TypeOK
    <2>8. ListAccounts'
      BY <1>6, <2>3 DEF ListAccounts
    <2>9. ShortLists'
      <3>1. ~(Len(nodes') <= 1) /\ ~(Len(nodes') <= 2)
        BY <2>1, <2>4, <2>6
      <3>2. QED
        BY <3>1 DEF ShortLists
    <2>10. QED
      BY <2>3, <2>7, <2>8, <2>9 DEF Inv
  <1>7. QED
    BY <1>5, <1>6 DEF Remove

LEMMA LogoutInv ==
    ASSUME Inv, NEW c \in Clients, Logout(c)
    PROVE  /\ Inv'
           /\ ~stray' => ~stray /\ Owners \ Owners' \subseteq {c}
  <1>0. TypeOK /\ ListAccounts /\ ShortLists /\ ~broken
    BY DEF Inv, Logout, Receive
  <1>1. phase' \in {"serving", "last", "none"} /\ UNCHANGED at
    BY <1>0 DEF Logout, Receive, TypeOK
  <1>t. at \in {Off} \union ((1..Len(nodes)) \X (1..(CAP + 1)))
    BY <1>0 DEF TypeOK
  <1>2. PICK f \in Find(c) :
           \/ (MayBreak(Entries, c) \/ MayBreak(Looked, c)) /\ Break
           \/ \E e \in Hits(Looked, c) : Remove(e, c, Reset(f))
           \/ /\ Hits(Looked, c) = {}
              /\ users' = Reset(f)
              /\ told' = c
              /\ UNCHANGED <<list, broken, stray>>
    BY DEF Logout
  <1>3. ASSUME Len(nodes) <= 2
        PROVE  /\ ~MayBreak(Entries, c) /\ ~MayBreak(Looked, c)
               /\ Hits(Looked, c) \subseteq {f}
               /\ Len(nodes) <= 1 => f \in Hits(Looked, c)
    <2>1. ListIsExact
      BY <1>0, <1>3 DEF ListAccounts, ShortLists
    <2>2. QED
      BY <1>0, <1>3, <2>1, FindIsSafe, ShortLooks
  <1>4. CASE (MayBreak(Entries, c) \/ MayBreak(Looked, c)) /\ Break
    <2>1. ~(Len(nodes) <= 2)
      BY <1>3, <1>4
    <2>2. Inv' /\ Owners' = Owners
      BY <1>1, <1>t, <1>4, <2>1, BreakInv
    <2>3. stray' = stray
      BY <1>4 DEF Break
    <2>4. QED
      BY <2>2, <2>3
  <1>5. ASSUME NEW e \in Hits(Looked, c), Remove(e, c, Reset(f))
        PROVE  Inv' /\ (~stray' => ~stray /\ Owners \ Owners' \subseteq {c})
    <2>1. Len(nodes) <= 2 => e = f
      BY <1>3
    <2>2. QED
      BY <1>0, <1>1, <1>5, <2>1, RemoveInv
  <1>6. CASE /\ Hits(Looked, c) = {}
             /\ users' = Reset(f)
             /\ told' = c
             /\ UNCHANGED <<list, broken, stray>>
    <2>1. User(f) \in DOMAIN users
      BY DEF Find, Hits, Matches
    <2>2. SameClients(users')
      BY <1>0, <1>6, <2>1, ResetIsSame
    <2>b. /\ broken' \in BOOLEAN /\ (broken => broken')
          /\ told' \in Clients \union {Null}
          /\ UNCHANGED <<list, stray>>
      BY <1>0, <1>6 DEF TypeOK
    <2>3. TypeOK' /\ ListAccounts' /\ Owners' = Owners
      BY <1>0, <1>1, <1>t, <2>b, <2>2, SameList
    <2>4. ~(Len(nodes) <= 1)
      <3>1. Len(nodes) <= 1 => Len(nodes) <= 2
        BY <1>0 DEF TypeOK
      <3>2. QED
        BY <1>3, <1>6, <3>1
    <2>5. ShortLists'
      BY <1>0, <1>6, <2>4 DEF ShortLists, list
    <2>6. QED
      BY <1>6, <2>3, <2>5 DEF Inv
  <1>7. QED
    BY <1>2, <1>4, <1>5, <1>6

\* The steps that leave the list and the pointers alone.
LEMMA QuietInv ==
    ASSUME Inv, UNCHANGED <<list, told, broken, stray>>, SameClients(users'),
           phase' \in {"serving", "last", "none"},
           at' \in {Off} \union ((1..Len(nodes)) \X (1..(CAP + 1)))
    PROVE  Inv' /\ Owners' = Owners
  <1>1. TypeOK /\ ListAccounts
    BY DEF Inv
  <1>2. /\ broken' \in BOOLEAN /\ (broken => broken')
        /\ told' \in Clients \union {Null}
        /\ UNCHANGED <<list, stray>>
    BY <1>1 DEF TypeOK
  <1>3. TypeOK' /\ ListAccounts' /\ Owners' = Owners
    BY <1>1, <1>2, SameList
  <1>4. Len(nodes') >= Len(nodes)
    BY <1>1 DEF TypeOK, list
  <1>5. ShortLists'
    BY <1>3, <1>4, ShortKept
  <1>6. QED
    BY <1>3, <1>5 DEF Inv

LEMMA ControlInv ==
    ASSUME Inv, Control
    PROVE  /\ Inv' /\ stray' = stray
           /\ ~stray' => \A c \in Owners \ Owners' :
                \E a \in DOMAIN users :
                    users[a].client = c /\ users[a].warned /\ users[a].idle = 2
  <1>0. TypeOK /\ ListAccounts /\ ShortLists /\ ~broken /\ stray' = stray
    BY DEF Inv, Control, Break
  <1>1. /\ at \in (1..Len(nodes)) \X (1..(CAP + 1)) /\ at[2] <= nodes[at[1]].count
        /\ UNCHANGED phase /\ phase' \in {"serving", "last", "none"}
    BY <1>0 DEF Control, TypeOK
  <1>2. at[1] \in 1..Len(nodes) /\ at[2] \in 1..(CAP + 1) /\ at = <<at[1], at[2]>>
    BY <1>1
  <1>3. nodes[at[1]].count \in 0..CAP
    BY <1>0, <1>2, NodeIsTyped
  <1>4. at[2] \in 1..CAP /\ nodes[at[1]].count > 0 /\ at[2] + 1 \in 1..(CAP + 1)
    BY <1>1, <1>2, <1>3, CapType
  <1>5. at \in Positions /\ at \in Entries
    BY <1>1, <1>2, <1>4 DEF Positions, Entries
  <1>6. \/ at' = <<at[1], at[2] + 1>>
        \/ at' = at
    BY DEF Control
  <1>7. at' \in {Off} \union ((1..Len(nodes)) \X (1..(CAP + 1)))
    BY <1>1, <1>2, <1>4, <1>6
  <1>8. CASE User(at) \notin DOMAIN users /\ Break
    <2>1. ~(Len(nodes) <= 2)
      BY <1>0, <1>5, <1>8 DEF ListAccounts, ListIsExact, ShortLists
    <2>2. QED
      BY <1>0, <1>1, <1>7, <1>8, <2>1, BreakInv
  <1>9. CASE /\ User(at) \in DOMAIN users
             /\ TimeOut(users[User(at)])
             /\ UNCHANGED <<told, broken, stray>>
    <2>1. CASE /\ users[User(at)].warned /\ users[User(at)].idle = 2
               /\ Drop(at, users)
      <3>1. SameClients(users)
        BY <1>0 DEF SameClients, TypeOK
      <3>2. ~broken' /\ stray' \in BOOLEAN /\ told' \in Clients \union {Null}
        BY <1>0, <1>9 DEF TypeOK
      <3>3. /\ TypeOK' /\ CountersAgree' /\ Len(nodes') = Len(nodes)
            /\ DOMAIN users' = DOMAIN users \ {User(at)}
            /\ \A a \in DOMAIN users' : users'[a].client = users[a].client
        BY <1>0, <1>1, <1>4, <1>5, <1>7, <2>1, <3>1, <3>2, DropCounts
      <3>4. ASSUME ~stray'
            PROVE  ListIsExact' /\ Owners' = Owners \ {users[User(at)].client}
        <4>1. ListIsExact
          BY <1>0, <3>4 DEF ListAccounts
        <4>2. QED
          BY <1>0, <1>5, <2>1, <3>1, <4>1, DropExact
      <3>5. Owners' \subseteq Owners
        BY <3>3 DEF Owners
      <3>6. Len(nodes') >= Len(nodes)
        BY <1>0, <3>3 DEF TypeOK
      <3>7. ShortLists'
        BY <1>9, <3>3, <3>5, <3>6, ShortKept
      <3>8. QED
        BY <1>0, <1>9, <2>1, <3>3, <3>4, <3>7 DEF Inv, ListAccounts
    <2>2. CASE /\ users' \in {users, [users EXCEPT ![User(at)].warned = TRUE]}
               /\ UNCHANGED list
      <3>0. users[User(at)] \in UserType
        BY <1>0, <1>9 DEF TypeOK
      <3>w. [users[User(at)] EXCEPT !.warned = TRUE] \in UserType
        BY <3>0 DEF UserType
      <3>c. [users[User(at)] EXCEPT !.warned = TRUE].client = users[User(at)].client
        BY <3>0 DEF UserType
      <3>1. SameClients(users')
        BY <1>0, <1>9, <2>2, <3>w, <3>c DEF SameClients, TypeOK
      <3>2. Inv' /\ Owners' = Owners
        BY <1>1, <1>7, <1>9, <2>2, <3>1, QuietInv
      <3>3. QED
        BY <1>0, <3>2
    <2>3. QED
      BY <1>9, <2>1, <2>2 DEF TimeOut
  <1>10. QED
    BY <1>8, <1>9 DEF Control

LEMMA OthersInv ==
    ASSUME Inv,
           \/ \E a \in Mem : Age(a)
           \/ Stop \/ StartControl \/ NextNode \/ UNCHANGED vars
    PROVE  Inv' /\ Owners' = Owners /\ stray' = stray
  <1>0. TypeOK
    BY DEF Inv
  <1>u. /\ phase \in {"serving", "last", "none"} /\ Len(nodes) \in Nat
        /\ at \in {Off} \union ((1..Len(nodes)) \X (1..(CAP + 1)))
        /\ SameClients(users)
    BY <1>0 DEF TypeOK, SameClients
  <1>e. \A k \in Nat \ {0} : Entry(nodes, k, 1) \in {Off} \union ((1..Len(nodes)) \X (1..(CAP + 1)))
    BY <1>u, CapType DEF Entry
  <1>1. ASSUME NEW a \in Mem, Age(a) PROVE Inv' /\ Owners' = Owners /\ stray' = stray
    <2>1. /\ users' = [users EXCEPT ![a].idle = @ + 1] /\ a \in DOMAIN users
          /\ users[a].idle < 2
          /\ UNCHANGED <<list, told, broken, stray, phase, at>>
      BY <1>1 DEF Age
    <2>2. users[a] \in UserType
      BY <1>0, <2>1 DEF TypeOK
    <2>3. [users[a] EXCEPT !.idle = @ + 1] \in UserType
      BY <2>1, <2>2 DEF UserType, Idle
    <2>4. SameClients(users')
      <3>1. ASSUME NEW b \in DOMAIN users
            PROVE  users'[b] \in UserType /\ users'[b].client = users[b].client
        <4>1. CASE b = a
          BY <2>1, <2>2, <2>3, <4>1 DEF UserType
        <4>2. CASE b # a
          BY <1>u, <2>1, <4>2 DEF SameClients
        <4>3. QED
          BY <4>1, <4>2
      <3>2. QED
        BY <2>1, <3>1 DEF SameClients
    <2>5. QED
      BY <1>u, <2>1, <2>4, QuietInv
  <1>2. CASE Stop
    BY <1>2, <1>u, QuietInv DEF Stop, SameClients
  <1>3. CASE StartControl
    BY <1>3, <1>u, <1>e, QuietInv DEF StartControl, SameClients
  <1>4. CASE NextNode
    <2>1. at[1] + 1 \in Nat \ {0}
      BY <1>4, <1>u DEF NextNode
    <2>2. QED
      BY <1>4, <1>u, <1>e, <2>1, QuietInv DEF NextNode, SameClients
  <1>5. CASE UNCHANGED vars
    BY <1>5, <1>u, QuietInv DEF vars, list, SameClients
  <1>6. QED
    BY <1>1, <1>2, <1>3, <1>4, <1>5

LEMMA InvStep == Inv /\ [Next]_vars => Inv'
  BY DatagramInv, LogoutInv, ControlInv, OthersInv DEF Next

LEMMA AlwaysInv == Spec => []Inv
  BY InitInv, InvStep, PTL DEF Spec

\* No array holds more users than it has room for, and every variable keeps its type,
\* for any number of clients and nodes and any size of the arrays (UserList.cpp:28-131).
THEOREM TypeCorrect == Spec => []TypeOK
  <1>1. Inv => TypeOK
    BY DEF Inv
  <1>2. QED
    BY <1>1, AlwaysInv, PTL

\* The counters are right, and the list holds exactly the users that are allocated, each
\* once, however users come, leave and are timed out, until removeUser takes a pointer
\* behind the end of a node for the user (UserList.cpp:35-42).
THEOREM ListStaysExact == Spec => []ListAccounts
  <1>1. Inv => ListAccounts
    BY DEF Inv
  <1>2. QED
    BY <1>1, AlwaysInv, PTL

\* With two nodes (up to 2 * CAP users at a time) removeUser follows no pointer behind the
\* end of a node, and with one it removes the user (UserList.cpp:35).
THEOREM ShortListsAreSafe == Spec => []ShortLists
  <1>1. Inv => ShortLists
    BY DEF Inv
  <1>2. QED
    BY <1>1, AlwaysInv, PTL

\* Nobody leaves the list but by its own logout or for its own silence, until removeUser
\* takes a pointer behind the end of a node for the user (UserList.cpp:35-42).
THEOREM NobodyElseIsRemoved == Spec => NobodyElseLeaves
  <1>1. ASSUME Inv, Inv', Next, NEW c \in Listed \ Listed', ~stray'
        PROVE  \/ Logout(c)
               \/ \E a \in DOMAIN users :
                     users[a].client = c /\ users[a].warned /\ users[a].idle = 2
    <2>1. ASSUME ~stray PROVE c \in Owners \ Owners'
      <3>1. ListIsExact /\ ListIsExact' /\ TypeOK /\ TypeOK'
        BY <1>1, <2>1 DEF Inv, ListAccounts
      <3>2. QED
        BY <3>1, ListedAreOwners, ListedAreOwnersNext
    <2>2. ASSUME NEW d \in Clients, Datagram(d) PROVE FALSE
      BY <1>1, <2>1, <2>2, DatagramInv
    <2>3. ASSUME NEW d \in Clients, Logout(d) PROVE Logout(c)
      BY <1>1, <2>1, <2>3, LogoutInv
    <2>4. ASSUME Control
          PROVE  \E a \in DOMAIN users :
                     users[a].client = c /\ users[a].warned /\ users[a].idle = 2
      BY <1>1, <2>1, <2>4, ControlInv
    <2>5. ASSUME (\E a \in Mem : Age(a)) \/ Stop \/ StartControl \/ NextNode PROVE FALSE
      BY <1>1, <2>1, <2>5, OthersInv
    <2>6. QED
      BY <1>1, <2>2, <2>3, <2>4, <2>5 DEF Next
  <1>2. Inv /\ Inv' /\ [Next]_vars =>
           [\A c \in Listed \ Listed' :
               \/ Logout(c)
               \/ \E a \in DOMAIN users :
                     users[a].client = c /\ users[a].warned /\ users[a].idle = 2
               \/ stray']_vars
    BY <1>1
  <1>3. QED
    BY <1>2, AlwaysInv, PTL DEF Spec, NobodyElseLeaves
=============================================================================
