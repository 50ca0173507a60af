------------------------------ MODULE UserList ------------------------------
(***************************************************************************)
(* The list of the users (UserList.cpp, UserList.h) as startServer works   *)
(* on it: a linked list of nodes, each with an array of CAP pointers of    *)
(* which the first `count' are in use.  A datagram looks its sender up and *)
(* adds it if it is not there; a logout takes it out; userControl, called  *)
(* by the thread of the same name, takes out those that have been silent.  *)
(*                                                                         *)
(* removeUser looks at as many entries of every node as the first node     *)
(* has, in a shorter node also at pointers behind its end.  Such a pointer *)
(* may be null, dangle, or lead to a user that has been allocated where    *)
(* the old one was.                                                        *)
(*                                                                         *)
(* userControl is called only when the server has been told to stop before *)
(* (Lifecycle: ControlIsLate).  The dispatcher may then still be waiting   *)
(* for a datagram, its last.  That one is handled between two passes of    *)
(* userControl here; what happens when the two threads are in the list     *)
(* together is not modelled.                                               *)
(***************************************************************************)
EXTENDS Integers, Sequences, FiniteSets

CONSTANTS Clients,    \* the addresses that datagrams come from
          Mem,        \* the pieces of memory that a User can be allocated in
          Null,       \* a pointer never written, and "nobody"
          CAP,        \* USERS_IN_USERS_ARRAY
          ClearAfter  \* CLEAR_AFTER_COUNT: with less users nobody is timed out

\* The largest value of `count', a uint16_t.
UINT16_MAX == 65535

ASSUME UserListAssumption ==
    /\ Null \notin Clients \union Mem
    /\ CAP \in 1..UINT16_MAX
    /\ ClearAfter \in Nat

VARIABLES
    nodes,      \* the linked list; arr keeps what was written behind `count'
    userCount,
    nodesCount,
    users,      \* the User objects: the pieces of memory that hold one now
    told,       \* the client that has just been told that it is logged out
    broken,     \* a pointer to no user, or one outside an array, has been used
    stray,      \* a pointer behind `count' has been taken for the user to remove
    phase,      \* "serving"; told to stop, and a "last" datagram awaited, or "none"
    at          \* where userControl is: <<node, i>>, or Off

list == <<nodes, userCount, nodesCount>>
vars == <<list, users, told, broken, stray, phase, at>>

Off == <<>>

\* How long a user has been silent: up to 50 seconds, more, more than 100.
Idle == 0..2

NewUser(c) == [client |-> c, idle |-> 0, warned |-> FALSE]

Init ==
    /\ nodes = <<>> /\ userCount = 0 /\ nodesCount = 0
    /\ users = [a \in {} |-> NewUser(Null)]
    /\ told = Null
    /\ broken = FALSE /\ stray = FALSE
    /\ phase = "serving"
    /\ at = Off

-----------------------------------------------------------------------------
(* Looking for a user.                                                     *)

Positions == (1..Len(nodes)) \X (1..CAP)

\* The entries in use.
Entries == {e \in Positions : e[2] <= nodes[e[1]].count}

\* The pointer at a position.
User(e) == nodes[e[1]].arr[e[2]]

\* Mutant: the last entry is not looked at.
LimitShort == nodes[1].count - 1

\* Mutant: every array is looked at to its end.
LimitCap == CAP

\* removeUser looks at as many entries of every node as the FIRST node has.
Limit == nodes[1].count

Looked == {e \in Positions : e[2] <= Limit}

Before(d, e) == d[1] < e[1] \/ (d[1] = e[1] /\ d[2] < e[2])

\* equals() of the user that the pointer leads to, if it leads to one.
Matches(e, c) == User(e) \in DOMAIN users /\ users[User(e)].client = c

\* Where a loop over the positions P finds the user of c: nowhere, or at one position.
Hits(P, c) ==
    LET those == {e \in P : Matches(e, c)}
    IN  {e \in those : \A d \in those : ~Before(d, e)}

\* What the loop follows on its way there.
Passed(P, c) ==
    LET hits == Hits(P, c)
    IN  {d \in P : \A e \in hits : Before(d, e)}

\* To follow a null pointer is the end of the program.  Freed memory may end it too,
\* by its pages or because the remains of a user match, which is then used or
\* deleted again; or they match nothing.
MayBreak(P, c) == \E d \in Passed(P, c) : User(d) \notin DOMAIN users
MayPass(P, c) == \A d \in Passed(P, c) : User(d) # Null

\* findUser
Find(c) == Hits(Entries, c)

-----------------------------------------------------------------------------
(* The operations.                                                         *)

\* The node once arr[j] is x and it counts n users.
Updated(node, j, x, n) == [arr |-> [node.arr EXCEPT ![j] = x], count |-> n]

PutAt(k, a) ==
    LET n == nodes[k].count
    IN  [nodes EXCEPT ![k] = Updated(@, n + 1, a, n + 1)]

NodeOf(a) == [arr |-> [i \in 1..CAP |-> IF i = 1 THEN a ELSE Null], count |-> 1]

Allocated(a, c) == [b \in DOMAIN users \union {a} |-> IF b = a THEN NewUser(c) ELSE users[b]]

\* Mutant: a node is taken to have room for one more than its array has.
AddUserPast(c) ==
    LET room == {k \in 1..Len(nodes) : nodes[k].count <= CAP} IN
    \E a \in Mem \ DOMAIN users :
        /\ IF room # {}
           THEN /\ \E k \in room : (\A l \in room : k <= l) /\ nodes' = PutAt(k, a)
                /\ UNCHANGED nodesCount
           ELSE /\ nodes' = Append(nodes, NodeOf(a))
                /\ nodesCount' = nodesCount + 1
        /\ userCount' = userCount + 1
        /\ users' = Allocated(a, c)

\* addUser: into the first node that is not full, or into a new one at the end.  The
\* object is allocated in any free piece of memory.
AddUser(c) ==
    LET room == {k \in 1..Len(nodes) : nodes[k].count < CAP} IN
    \E a \in Mem \ DOMAIN users :
        /\ IF room # {}
           THEN /\ \E k \in room : (\A l \in room : k <= l) /\ nodes' = PutAt(k, a)
                /\ UNCHANGED nodesCount
           ELSE /\ nodes' = Append(nodes, NodeOf(a))
                /\ nodesCount' = nodesCount + 1
        /\ userCount' = userCount + 1
        /\ users' = Allocated(a, c)

Deleted(us, a) == [b \in DOMAIN us \ {a} |-> us[b]]

\* Mutant: the last entry is moved first, and what is deleted is what arr[i] is then.
DropMoved(e, us) ==
    LET k == e[1] i == e[2] n == nodes[k].count IN
    /\ nodes' = [nodes EXCEPT ![k] = Updated(@, i, @.arr[n], n - 1)]
    /\ userCount' = userCount - 1
    /\ users' = Deleted(us, nodes[k].arr[n])
    /\ UNCHANGED nodesCount

\* Mutant: the user is not discounted.
DropUncounted(e, us) ==
    LET k == e[1] i == e[2] n == nodes[k].count IN
    /\ nodes' = [nodes EXCEPT ![k] = Updated(@, i, @.arr[n], n - 1)]
    /\ users' = Deleted(us, User(e))
    /\ UNCHANGED <<userCount, nodesCount>>

\* delete arr[i]; arr[i] = arr[--count]: the last entry in use takes the place, also
\* when i is behind it.
Drop(e, us) ==
    LET k == e[1] i == e[2] n == nodes[k].count IN
    /\ nodes' = [nodes EXCEPT ![k] = Updated(@, i, @.arr[n], n - 1)]
    /\ userCount' = userCount - 1
    /\ users' = Deleted(us, User(e))
    /\ UNCHANGED nodesCount

\* The same in a node that counts nobody: `count' wraps, and arr[count] is far
\* behind the array.
DropFromNone(e, us) ==
    /\ nodes' = [nodes EXCEPT ![e[1]].count = UINT16_MAX]
    /\ userCount' = userCount - 1
    /\ users' = Deleted(us, User(e))
    /\ UNCHANGED nodesCount

-----------------------------------------------------------------------------
(* The dispatcher.                                                         *)

\* A datagram is received; the last one ends the loop of startServer.
Receive ==
    /\ phase # "none" /\ ~broken /\ at = Off
    /\ phase' = IF phase = "last" THEN "none" ELSE phase
    /\ UNCHANGED at

\* The users once the one found at e has been reset.
Reset(e) == [users EXCEPT ![User(e)] = NewUser(@.client)]

\* A pointer that leads to no user is followed, and the program ends.
Break ==
    /\ broken' = TRUE /\ told' = Null
    /\ UNCHANGED <<list, users, stray>>

\* A datagram from c, of whatever kind but a logout: resetTime for a known user.
Datagram(c) ==
    /\ Receive
    /\ \/ MayBreak(Entries, c) /\ Break
       \/ /\ MayPass(Entries, c)
          /\ \/ \E e \in Find(c) : users' = Reset(e) /\ UNCHANGED list
             \/ Find(c) = {} /\ AddUser(c)
          /\ told' = Null
          /\ UNCHANGED <<broken, stray>>

\* removeUser deletes what it has found at e, for the user us.  The answer goes out
\* through the pointer to the user even if that has just been deleted, and then may
\* get lost.
Remove(e, c, us) ==
    /\ \/ nodes[e[1]].count > 0 /\ Drop(e, us) /\ UNCHANGED broken
       \/ nodes[e[1]].count = 0 /\ DropFromNone(e, us) /\ broken' = TRUE
    /\ stray' = (stray \/ e \notin Entries)
    /\ told' \in {c, Null}

\* LOGOUT from a user.  What removeUser returns is not looked at.
Logout(c) ==
    /\ Receive
    /\ \E f \in Find(c) :
          \/ /\ MayBreak(Entries, c) \/ MayBreak(Looked, c)
             /\ Break
          \/ /\ MayPass(Entries, c) /\ MayPass(Looked, c)
             /\ \/ \E e \in Hits(Looked, c) : Remove(e, c, Reset(f))
                \/ /\ Hits(Looked, c) = {}
                   /\ users' = Reset(f)
                   /\ told' = c
                   /\ UNCHANGED <<list, broken, stray>>

Stop ==
    /\ phase = "serving" /\ ~broken
    /\ phase' \in {"last", "none"}
    /\ UNCHANGED <<list, users, told, broken, stray, at>>

-----------------------------------------------------------------------------
(* userControl.                                                            *)

\* Time passes for user a; before the server is told to stop nobody looks at it.
Age(a) ==
    /\ phase # "serving" /\ at = Off
    /\ a \in DOMAIN users /\ users[a].idle < 2
    /\ users' = [users EXCEPT ![a].idle = @ + 1]
    /\ UNCHANGED <<list, told, broken, stray, phase, at>>

\* The next entry of the pass, from <<k, i>>; the counts are read anew each time.
Entry(ns, k, i) ==
    IF k > Len(ns) THEN Off ELSE <<k, i>>

StartControl ==
    /\ phase # "serving" /\ ~broken /\ at = Off
    /\ userCount >= ClearAfter
    /\ at' = Entry(nodes, 1, 1)
    /\ UNCHANGED <<list, users, told, broken, stray, phase>>

NextNode ==
    /\ at # Off /\ ~broken
    /\ at[2] > nodes[at[1]].count
    /\ at' = Entry(nodes, at[1] + 1, 1)
    /\ UNCHANGED <<list, users, told, broken, stray, phase>>

\* timeout() of one user.  After a removal the entry that has taken the place is
\* passed over.
TimeOut(u) ==
    \/ u.warned /\ u.idle = 2 /\ Drop(at, users)
    \/ /\ ~u.warned /\ u.idle > 0
       /\ users' = [users EXCEPT ![User(at)].warned = TRUE]
       /\ UNCHANGED list
    \/ /\ IF u.warned THEN u.idle < 2 ELSE u.idle = 0
       /\ UNCHANGED <<list, users>>

\* One entry of the pass.
Control ==
    /\ at # Off /\ ~broken
    /\ at[2] <= nodes[at[1]].count
    /\ \/ /\ User(at) \in DOMAIN users
          /\ TimeOut(users[User(at)])
          /\ at' = <<at[1], at[2] + 1>>
          /\ UNCHANGED <<told, broken, stray>>
       \/ User(at) \notin DOMAIN users /\ Break /\ UNCHANGED at
    /\ UNCHANGED phase

-----------------------------------------------------------------------------
Next ==
    \/ \E c \in Clients : Datagram(c) \/ Logout(c)
    \/ \E a \in Mem : Age(a)
    \/ Stop \/ StartControl \/ NextNode \/ Control

Spec == Init /\ [][Next]_vars

-----------------------------------------------------------------------------
NodeType == [arr : [1..CAP -> Mem \union {Null}], count : 0..UINT16_MAX]
UserType == [client : Clients, idle : Idle, warned : BOOLEAN]

\* Every variable keeps its type, and no node holds more users than its array.
TypeOK ==
    /\ nodes \in Seq(NodeType)
    /\ ~broken => \A k \in 1..Len(nodes) : nodes[k].count <= CAP
    /\ userCount \in Int /\ nodesCount \in Nat
    /\ DOMAIN users \subseteq Mem
    /\ \A a \in DOMAIN users : users[a] \in UserType
    /\ told \in Clients \union {Null}
    /\ broken \in BOOLEAN /\ stray \in BOOLEAN
    /\ phase \in {"serving", "last", "none"}
    /\ at \in {Off} \union ((1..Len(nodes)) \X (1..(CAP + 1)))

\* The entries in use lead to exactly the users that are allocated, each of them once,
\* and no client has two: taking one out by moving the last into its place loses
\* nobody, and keeps nobody who has been deleted.
ListIsExact ==
    /\ {User(e) : e \in Entries} = DOMAIN users
    /\ \A d, e \in Entries : User(d) = User(e) => d = e
    /\ \A a, b \in DOMAIN users : users[a].client = users[b].client => a = b

\* The counters agree with the list.
CountersAgree ==
    /\ userCount = Cardinality(Entries)
    /\ nodesCount = Len(nodes)

\* Whatever comes and goes, the counters agree with the list, and until a pointer
\* behind the end of a node has been taken for a user (UserList.cpp:35) the list is
\* exact.
ListAccounts ==
    /\ ~stray => ListIsExact
    /\ ~broken => CountersAgree

\* The clients that findUser would find.
Listed == {c \in Clients : Find(c) # {}}

\* A client disappears from the list only by its own logout, or after it has been
\* warned and has stayed silent for more than 100 seconds; or because a pointer
\* behind the end of a node is, or has been, taken for a user (UserList.cpp:35).
NobodyElseLeaves ==
    [][\A c \in Listed \ Listed' :
          \/ Logout(c)
          \/ \E a \in DOMAIN users :
                users[a].client = c /\ users[a].warned /\ users[a].idle = 2
          \/ stray']_vars

\* As long as the list has at most two nodes, no pointer behind the end of an array is
\* followed, and as long as it has one, a logout is a logout.
ShortLists ==
    /\ Len(nodes) <= 2 => ~broken /\ ~stray
    /\ Len(nodes) <= 1 => told \notin Listed

=============================================================================
