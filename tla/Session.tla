------------------------------ MODULE Session ------------------------------
(***************************************************************************)
(* The dispatch of datagrams (startServer) on the User objects, and the    *)
(* requests in the pool that keep a pointer to the user that sent them.    *)
(* The list of users, the pool and the logins are modules of their own:    *)
(* here the list is a function from clients to addresses, the pool is the  *)
(* one JobPool describes, and a login is right or wrong.                   *)
(*                                                                         *)
(* The dispatcher and the slaves share the User objects without a lock:    *)
(* a slave that answers reads the encryption flag, the key and the address *)
(* of the client one after the other, the dispatcher writes them and may   *)
(* delete the object in between.  Freed memory holds anything until the    *)
(* next user is allocated there.                                           *)
(***************************************************************************)
EXTENDS Integers, FiniteSets

CONSTANTS Clients,
          Addr,      \* where User objects are allocated
          Null,      \* the null pointer, and no client
          Jobs,      \* the path requests the clients send
          Capacity,  \* the slots of the pool
          Threads,   \* its slaves
          Data,      \* those of them that are answered with data when they succeed
          Length,    \* Length[j]: the bytes of the answer to j, if it has data
          NoKey,     \* no encryption
          Torn       \* a key that is not completely written

Frame == INSTANCE Framing

ASSUME SessionAssumption ==
    /\ {Null, NoKey, Torn} \intersect (Clients \union Addr) = {}
    /\ NoKey # Torn /\ Null # NoKey /\ Null # Torn
    /\ Data \subseteq Jobs
    /\ Length \in [Jobs -> 0..Frame!MaxData]
    /\ Capacity \in Nat /\ Threads \in Nat

VARIABLES
    user,    \* user[c]: the user that findUser finds for c
    obj,     \* the memory of the User objects
    stage,   \* of the requests, as in JobPool
    ptr,     \* ptr[j]: data.user of request j
    dpc,     \* where the dispatcher is
    du, from, \* its user and the sender of the datagram
    spc,     \* where the slave that answers j is
    key,     \* key[j]: what it has taken to encrypt the answer with
    sent,    \* sent[j]: the final answer
    asker,   \* history: the client that sent j
    private, \* history: the clients that were told that encryption is on
    secret,  \* history: the requests they sent
    orphan,  \* history: the requests whose user was deleted before the answer
    stopped, \* history: the requests whose client stopped encryption before the answer
    rekeyed, \* history: the requests whose client set another key, with encryption on, before the answer
    authed   \* history: the clients that have given a right login since they came

users    == <<user, obj>>
requests == <<stage, ptr, asker, secret>>
slaves   == <<spc, key, sent>>
history  == <<orphan, stopped, rekeyed, authed, private>>
vars     == <<users, requests, dpc, du, from, slaves, history>>

Pool == INSTANCE JobPool

Keys   == Clients \union {NoKey, Torn}
Object == [of : Clients \union {Null}, login : BOOLEAN, encrypted : BOOLEAN, enc : Keys]
Answer == [to : Clients \union {Null}, data : BOOLEAN, key : Keys, len : 0..Frame!Room]

\* The constructor; the keys are what was in the memory.
NewUser(c) == [of |-> c, login |-> FALSE, encrypted |-> FALSE, enc |-> Torn]

\* Memory that is no user holds anything.  What a slave reads there is chosen at each
\* reading (see Read); the dispatcher has no pointer to it.
Raw == [of |-> Null, login |-> TRUE, encrypted |-> TRUE, enc |-> Torn]

Live    == {user[c] : c \in Clients} \ {Null}
Pending == Pool!Held
Of(a)   == {j \in Pending \ orphan : ptr[j] = a}

Init ==
    /\ user = [c \in Clients |-> Null]
    /\ obj = [a \in Addr |-> Raw]
    /\ Pool!Init
    /\ ptr = [j \in Jobs |-> Null]
    /\ dpc = "recv" /\ du = Null /\ from = Null
    /\ spc = [j \in Jobs |-> "run"]
    /\ key = [j \in Jobs |-> NoKey]
    /\ sent = [j \in Jobs |-> Null]
    /\ asker = [j \in Jobs |-> Null]
    /\ secret = {} /\ orphan = {} /\ stopped = {} /\ rekeyed = {} /\ authed = {} /\ private = {}

-----------------------------------------------------------------------------
(* The dispatcher.                                                         *)

\* Mutant: resetTime takes back all the flags instead of one.
ReceiveReset(c) ==
    /\ dpc = "recv"
    /\ from' = c
    /\ IF user[c] # Null
       THEN /\ du' = user[c]
            /\ obj' = [obj EXCEPT ![user[c]].encrypted = FALSE]
            /\ UNCHANGED user
       ELSE \E a \in Addr \ Live :
                /\ du' = a
                /\ user' = [user EXCEPT ![c] = a]
                /\ obj' = [obj EXCEPT ![a] = NewUser(c)]
    /\ dpc' = "handle"
    /\ UNCHANGED <<requests, slaves, history>>

\* Mutant: a new user is not initialised where a login was.
ReceiveStale(c) ==
    /\ dpc = "recv"
    /\ from' = c
    /\ IF user[c] # Null
       THEN du' = user[c] /\ UNCHANGED users
       ELSE \E a \in Addr \ Live :
                /\ du' = a
                /\ user' = [user EXCEPT ![c] = a]
                /\ obj' = [obj EXCEPT ![a].of = c, ![a].encrypted = FALSE]
    /\ dpc' = "handle"
    /\ UNCHANGED <<requests, slaves, history>>

\* A datagram of at least two bytes arrives: findUser or addUser.
Receive(c) ==
    /\ dpc = "recv"
    /\ from' = c
    /\ IF user[c] # Null
       THEN du' = user[c] /\ UNCHANGED users
       ELSE \E a \in Addr \ Live :
                /\ du' = a
                /\ user' = [user EXCEPT ![c] = a]
                /\ obj' = [obj EXCEPT ![a] = NewUser(c)]
    /\ dpc' = "handle"
    /\ UNCHANGED <<requests, slaves, history>>

\* The datagram has been handled.
Back == dpc' = "recv" /\ du' = Null /\ from' = Null

\* Whatever is answered at once and changes no user: a bad code, too few bytes, no
\* login, a wrong login or key, and the requests of the switch that only answer.
\* The code CLIENT_MSG_COUNT passes the first test and may get no answer at all.
HandleOther ==
    /\ dpc = "handle"
    /\ Back
    /\ UNCHANGED <<users, requests, slaves, history>>

\* decryptAES of no bytes runs through the memory (a datagram of two bytes from a
\* user with encryption), and the code CLIENT_MSG_COUNT may be looked up as a path
\* function that is none: the program ends.  When it is started again, nothing is
\* left of what it had in memory.
HandleCrash ==
    /\ dpc = "handle"
    /\ user' = [c \in Clients |-> Null]
    /\ obj' = [a \in Addr |-> Raw]
    /\ stage' = [j \in Jobs |-> "new"]
    /\ ptr' = [j \in Jobs |-> Null]
    /\ Back
    /\ spc' = [j \in Jobs |-> "run"]
    /\ key' = [j \in Jobs |-> NoKey]
    /\ sent' = [j \in Jobs |-> Null]
    /\ asker' = [j \in Jobs |-> Null]
    /\ secret' = {} /\ orphan' = {} /\ stopped' = {} /\ rekeyed' = {}
    /\ authed' = {} /\ private' = {}

\* A right LOGIN, encrypted or not.
HandleLogin ==
    /\ dpc = "handle"
    /\ obj' = [obj EXCEPT ![du].login = TRUE]
    /\ authed' = authed \union {from}
    /\ Back
    /\ UNCHANGED <<user, requests, slaves, orphan, stopped, rekeyed, private>>

\* The requests in the pool whose user gets another key while it has one in use.
Rekey == rekeyed' = IF obj[du].encrypted THEN rekeyed \union (Of(du) \ stopped) ELSE rekeyed

\* Mutant: the flag is set before the key.
HandleSetAesFlagFirst ==
    /\ dpc = "handle"
    /\ obj' = [obj EXCEPT ![du].enc = Torn, ![du].encrypted = TRUE]
    /\ Rekey
    /\ dpc' = "key"
    /\ UNCHANGED <<user, requests, du, from, slaves, orphan, stopped, authed, private>>

\* A right SET_AES, before or after a login, and whether encryption is on or not:
\* setAesKey begins to write the key and leaves the flag as it is.
HandleSetAes ==
    /\ dpc = "handle"
    /\ obj' = [obj EXCEPT ![du].enc = Torn]
    /\ Rekey
    /\ dpc' = "key"
    /\ UNCHANGED <<user, requests, du, from, slaves, orphan, stopped, authed, private>>

KeyWritten ==
    /\ dpc = "key"
    /\ obj' = [obj EXCEPT ![du].enc = from]
    /\ dpc' = "flag"
    /\ UNCHANGED <<user, requests, du, from, slaves, history>>

FlagSet ==
    /\ dpc = "flag"
    /\ obj' = [obj EXCEPT ![du].encrypted = TRUE]
    /\ private' = private \union {from}
    /\ Back
    /\ UNCHANGED <<user, requests, slaves, orphan, stopped, rekeyed, authed>>

\* Everything but LOGIN and SET_AES needs a login.
LoggedIn == dpc = "handle" /\ obj[du].login

HandleStopEncryption ==
    /\ LoggedIn
    /\ obj' = [obj EXCEPT ![du].encrypted = FALSE]
    /\ stopped' = stopped \union Of(du)
    /\ private' = private \ {from}
    /\ Back
    /\ UNCHANGED <<user, requests, slaves, orphan, rekeyed, authed>>

\* removeUser deletes the user; the requests in the pool keep the pointer.
HandleLogout ==
    /\ LoggedIn
    /\ user' = [user EXCEPT ![from] = Null]
    /\ obj' = [obj EXCEPT ![du] = Raw]
    /\ orphan' = orphan \union Of(du)
    /\ authed' = authed \ {from}
    /\ private' = private \ {from}
    /\ Back
    /\ UNCHANGED <<requests, slaves, stopped, rekeyed>>

\* addPathFunction: the request is refused, as the pool is full or the path is
\* restricted, or it waits in the pool with the pointer to its user.
HandlePath(j) ==
    /\ LoggedIn
    /\ \/ (Pool!TurnAway(j) \/ Pool!Reject(j)) /\ UNCHANGED <<ptr, asker, secret>>
       \/ /\ Pool!Accept(j)
          /\ ptr' = [ptr EXCEPT ![j] = du]
          /\ asker' = [asker EXCEPT ![j] = from]
          /\ secret' = IF from \in private THEN secret \union {j} ELSE secret
    /\ Back
    /\ UNCHANGED <<users, slaves, history>>

-----------------------------------------------------------------------------
(* The slaves.                                                             *)

Start(j) ==
    /\ Pool!Start(j)
    /\ UNCHANGED <<users, ptr, asker, secret, dpc, du, from, slaves, history>>

\* What is read from the user of request j; anything, if it has been deleted.
Read(j, value, any) == IF ptr[j] \in Live THEN {value} ELSE any

\* The slot is free; what it holds is not looked at again.
Finish(j) ==
    /\ Pool!Finish(j)
    /\ ptr' = [ptr EXCEPT ![j] = Null]
    /\ spc' = [spc EXCEPT ![j] = "run"]
    /\ key' = [key EXCEPT ![j] = NoKey]
    /\ UNCHANGED <<users, asker, secret, dpc, du, from, history>>

Message(j, to, data) ==
    [to |-> to, data |-> data, key |-> key[j],
     len |-> IF ~data THEN 0 ELSE IF key[j] = NoKey THEN Length[j] ELSE Frame!Received(Length[j])]

\* Mutant: the answer goes to whoever sent the last datagram.
SendToLast(j, data) ==
    /\ sent' = [sent EXCEPT ![j] = Message(j, from, data)]
    /\ Finish(j)

\* sendto reads the address of the client from the user.
Send(j, data) ==
    /\ \E to \in Read(j, obj[ptr[j]].of, Clients \union {Null}) :
          sent' = [sent EXCEPT ![j] = Message(j, to, data)]
    /\ Finish(j)

\* sendData(msgCode): a bare code is never encrypted.
SendCode(j) ==
    /\ stage[j] = "running" /\ spc[j] = "run"
    /\ Send(j, FALSE)

\* sendData with data: first the flag is read ...
ReadFlag(j) ==
    /\ j \in Data
    /\ stage[j] = "running" /\ spc[j] = "run"
    /\ \E encrypted \in Read(j, obj[ptr[j]].encrypted, BOOLEAN) :
          spc' = [spc EXCEPT ![j] = IF encrypted THEN "encrypt" ELSE "send"]
    /\ UNCHANGED <<users, requests, dpc, du, from, key, sent, history>>

\* ... then the key, if it was set, ...
Encrypt(j) ==
    /\ spc[j] = "encrypt"
    /\ \E k \in Read(j, obj[ptr[j]].enc, Keys \ {NoKey}) : key' = [key EXCEPT ![j] = k]
    /\ spc' = [spc EXCEPT ![j] = "send"]
    /\ UNCHANGED <<users, requests, dpc, du, from, sent, history>>

\* ... and the address.
SendData(j) ==
    /\ stage[j] = "running" /\ spc[j] = "send"
    /\ Send(j, TRUE)

-----------------------------------------------------------------------------

Next == \/ \E c \in Clients : Receive(c)
        \/ HandleOther \/ HandleCrash \/ HandleLogin
        \/ HandleSetAes \/ KeyWritten \/ FlagSet
        \/ HandleStopEncryption \/ HandleLogout
        \/ \E j \in Jobs : \/ HandlePath(j) \/ Start(j)
                           \/ SendCode(j) \/ ReadFlag(j) \/ Encrypt(j) \/ SendData(j)

Spec == Init /\ [][Next]_vars

-----------------------------------------------------------------------------
\* Every variable keeps its type; no answer is longer than its message.
TypeOK ==
    /\ user \in [Clients -> Addr \union {Null}]
    /\ obj \in [Addr -> Object]
    /\ stage \in [Jobs -> {"new", "queued", "running", "finished", "busy", "rejected"}]
    /\ ptr \in [Jobs -> Addr \union {Null}]
    /\ dpc \in {"recv", "handle", "key", "flag"}
    /\ du \in Addr \union {Null}
    /\ from \in Clients \union {Null}
    /\ spc \in [Jobs -> {"run", "encrypt", "send"}]
    /\ key \in [Jobs -> Keys]
    /\ sent \in [Jobs -> Answer \union {Null}]
    /\ asker \in [Jobs -> Clients \union {Null}]
    /\ secret \subseteq Jobs /\ orphan \subseteq Jobs /\ stopped \subseteq Jobs
    /\ rekeyed \subseteq Jobs
    /\ authed \subseteq Clients /\ private \subseteq Clients

Answered(j) == sent[j] # Null

\* The answer to a request goes to the client that sent it, as long as this client
\* has not logged out while the request was in the pool: then the pointer leads to
\* freed memory, and to another client when one has come to live there.
RightAddressee ==
    \A j \in Jobs \ orphan : Answered(j) => sent[j].to = asker[j]

\* Nobody is logged in by what the memory of its User held before: who is, has
\* given a right login itself, since it came or came back.
LoginIsOwn ==
    \A c \in Clients : user[c] # Null /\ obj[user[c]].login => c \in authed

\* The keys an answer may be encrypted with: none, the whole key of its client, and one
\* that is half written if the client set it over the one in use while it waited.
KeysFor(j) == {NoKey, asker[j]} \union (IF j \in rekeyed THEN {Torn} ELSE {})

\* An answer is in clear or encrypted with the whole key of its client, whatever the
\* dispatcher does between the reading of the flag and of the key: the first key is
\* complete before the flag is set. It is not so for a client that has stopped the
\* encryption meanwhile (and set a key again), nor for one that has sent SET_AES with
\* encryption on, which rewrites a key that the slaves use (server.cpp:226-238).
KeyIsWhole ==
    \A j \in Jobs \ (orphan \union stopped) :
        Answered(j) => sent[j].key \in KeysFor(j)

\* The data that answer a request, sent after the client was told that encryption is
\* on, are never sent in clear, unless the client stops encryption first.
SecretKept ==
    \A j \in secret \ (orphan \union stopped) :
        Answered(j) /\ sent[j].data => sent[j].key # NoKey

\* Encryption and decryption give back as many bytes as there were, except for the
\* lengths that look like whole chunks and come back with the pad, and what is encrypted fits into the buffer.
LengthKept ==
    \A j \in Jobs :
        Answered(j) /\ sent[j].data =>
            /\ sent[j].len = IF sent[j].key # NoKey /\ Frame!LooksWhole(Length[j])
                             THEN Frame!Whole(Length[j]) ELSE Length[j]
            /\ Frame!Encrypted(Length[j]) <= Frame!Room
=============================================================================
