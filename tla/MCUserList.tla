----------------------------- MODULE MCUserList -----------------------------
(* Two instances of UserList for TLC in one.  From the empty list a few       *)
(* clients come, go and are timed out.  And after five to eight others have   *)
(* come, some of them come and go, in every order, and the rest stays quiet.  *)
EXTENDS UserList, Functions, TLC

CONSTANTS Few,    \* the clients that the list starts without
          Spare,  \* the memory that they are allocated in
          Movers  \* of the others, those that still send

\* Nothing tells one of the few from another, nor one piece of their memory.
Symmetry == Permutations(Few) \union Permutations(Spare)

\* The memory that one of the others, client c, was allocated in.
Home(c) == 10 + c

Node(cs) ==
    [arr   |-> [i \in 1..CAP |-> IF i <= Len(cs) THEN Home(cs[i]) ELSE Null],
     count |-> Len(cs)]

\* The clients in the nodes after a datagram from each of them.
Starts == {
    << <<1, 2, 3>>, <<4, 5>> >>,
    << <<1, 2, 3>>, <<4, 5, 6>>, <<8>> >>,
    << <<1, 2, 3>>, <<4, 5, 6>>, <<7, 8>> >> }

LongInit ==
    \E s \in Starts :
        LET come == UNION {Range(s[k]) : k \in DOMAIN s} IN
        /\ nodes = [k \in DOMAIN s |-> Node(s[k])]
        /\ userCount = Cardinality(come) /\ nodesCount = Len(s)
        /\ users = [a \in {Home(c) : c \in come} |-> NewUser(a - 10)]
        /\ told = Null
        /\ broken = FALSE /\ stray = FALSE
        /\ phase = "serving"
        /\ at = Off

\* The list started empty: the first pointer of a node, once written, is never null.
Short == \A k \in DOMAIN nodes : nodes[k].arr[1] \in Spare

\* In the long list no time passes, so userControl changes nothing as long as the list
\* is exact; once it is not, nobody logs out any more.
Moves ==
    \/ /\ Short
       /\ \/ \E c \in Few : (Datagram(c) \/ Logout(c)) /\ DOMAIN users' \subseteq Spare
          \/ \E a \in Spare : Age(a)
    \/ /\ ~Short
       /\ \E c \in Movers : Datagram(c) \/ (Logout(c) /\ ~stray)
       /\ DOMAIN users' \cap Spare = {}
    \/ (Short \/ stray) /\ (Stop \/ StartControl)
    \/ NextNode \/ Control

MCSpec == (Init \/ LongInit) /\ [][Moves]_vars
=============================================================================
