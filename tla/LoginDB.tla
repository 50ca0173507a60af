------------------------------- MODULE LoginDB -------------------------------
(***************************************************************************)
(* LoginDB and Login (LoginDB.cpp, Login.cpp): a linked list of the logins *)
(* on the heap.  The console thread adds, removes, loads and saves; the    *)
(* dispatcher thread walks over the list to check a login and leaves the   *)
(* pointer it found with the client.  There is no lock: every write of the *)
(* console that a walk can see, and every node of a walk, is a step here.  *)
(*                                                                         *)
(* The program may end at any time, by a crash of its own too; what it     *)
(* leaves behind is the file of the last save, or the part of it that had  *)
(* been written.  Saving and loading are steps as well.                    *)
(***************************************************************************)
EXTENDS Integers, Sequences, FiniteSets

CONSTANTS Addr,     \* where Login objects are allocated (bounds their number)
          Null,     \* the null pointer
          Creds,    \* user names with their passwords
          Lines,    \* Lines[c]: how many restricted folders c was entered with
          Garbage,  \* the name of a login made of bytes that are none
          W,        \* 2^16: count is an unsigned short
          FW,       \* 2^8: restrictedFoldersCount is a uint8_t
          MaxSaved  \* bound: the length of a list that is saved

Login == [cred : Creds \union {Garbage}, folders : Nat]

ASSUME LoginDBAssumption ==
    /\ IsFiniteSet(Addr)
    /\ Null \notin Addr \union Login
    /\ Lines \in [Creds -> Nat]
    /\ {Garbage, Null} \intersect Creds = {}
    /\ Garbage # Null
    /\ W \in Nat \ {0} /\ FW \in Nat \ {0} /\ MaxSaved \in Nat

VARIABLES
    head, next, \* the list
    rec,        \* rec[a]: the login at a, Null where nothing is allocated
    count,      \* the member count
    cpc,        \* where the console is
    cur,        \* its pointer: toDel of remove, curr of save
    pos,        \* its place in the file that is loaded
    file,       \* the file, as the headers and folder lines in it
    dpc,        \* whether the dispatcher is checking a login
    dcur,       \* curr of check
    asked,      \* the credentials that are checked
    login,      \* the pointer a client was given (clients do not disturb each other)
    granted,    \* history: what this client logged in with
    had,        \* history: the list held `asked' when the check began
    disturbed,  \* history: a removal met the check (see Unlink and Cut)
    picked,     \* history: what stood at the place remove was called with
    saved,      \* history: the logins of the last completed save, <<>> if it was cut
    base        \* history: the logins before the load

db      == <<head, next, rec, count>>
console == <<cpc, cur, pos, file>>
check   == <<dpc, dcur, asked, had, disturbed>>
client  == <<login, granted>>
vars    == <<db, console, check, client, picked, saved, base>>

Item  == [cred : Creds \union {Garbage, Null}, n : 0..FW - 1]
Line  == [cred |-> Null, n |-> 0]

\* The nodes that are reached from a, if the pointers are nx: what every set of nodes that
\* has a and does not lead out of itself has.
Closed(nx, S) == \A x \in S : nx[x] \in S \union {Null}
Reach(nx, a)  == {b \in Addr : \A S \in SUBSET Addr : {a} \ {Null} \subseteq S /\ Closed(nx, S) => b \in S}

Nodes(a)  == Reach(next, a)
Number(a) == 1 + Cardinality(Nodes(head) \ Nodes(a))
Length    == Cardinality(Nodes(head))
Logins    == [k \in 1..Length |-> rec[CHOOSE a \in Nodes(head) : Number(a) = k]]
Allocated == {a \in Addr : rec[a] # Null}

Init ==
    /\ head = Null
    /\ next = [a \in Addr |-> Null]
    /\ rec = [a \in Addr |-> Null]
    /\ count = 0
    /\ cpc = "idle" /\ cur = Null /\ pos = 1
    /\ dpc = "idle" /\ dcur = Null /\ asked = Null /\ had = FALSE
    /\ login = Null /\ granted = Null
    /\ disturbed = FALSE /\ picked = Null /\ base = <<>>
    /\ file = <<>> /\ saved = <<>>

-----------------------------------------------------------------------------
(* The console.                                                            *)

\* The process ends and is started again.  Of a file that is being written any
\* part may have left the buffer of the stream (a line that is cut short is read
\* as a line, a header that is cut short is not read at all).
Die ==
    /\ head' = Null
    /\ next' = [a \in Addr |-> Null]
    /\ rec' = [a \in Addr |-> Null]
    /\ count' = 0
    /\ cpc' = "idle" /\ cur' = Null /\ pos' = 1
    /\ dpc' = "idle" /\ dcur' = Null /\ asked' = Null /\ had' = FALSE
    /\ login' = Null /\ granted' = Null
    /\ disturbed' = FALSE /\ picked' = Null /\ base' = <<>>
    /\ IF cpc = "save"
       THEN \E k \in 0..Len(file) : file' = SubSeq(file, 1, k) /\ saved' = <<>>
       ELSE UNCHANGED <<file, saved>>

\* add(Login*): the new object comes to the head of the list.
AddLogin(a, r) ==
    /\ rec[a] = Null
    /\ rec' = [rec EXCEPT ![a] = r]
    /\ next' = [next EXCEPT ![a] = head]
    /\ head' = a
    /\ count' = (count + 1) % W

\* input: the folders are added before the object is in the list.
Input(a, c) ==
    /\ cpc = "idle"
    /\ AddLogin(a, [cred |-> c, folders |-> Lines[c]])
    /\ UNCHANGED <<console, check, client, picked, saved, base>>

Unlinked(a) ==
    /\ cpc' = "cut" /\ cur' = a
    /\ disturbed' = (disturbed \/ (dpc = "walk" /\ rec[a].cred = asked))
    /\ UNCHANGED <<rec, count, pos, file, dpc, dcur, asked, had, client, saved, base>>

RemoveFirst ==
    /\ cpc = "idle" /\ count > 0
    /\ head' = next[head]
    /\ picked' = head
    /\ Unlinked(head)
    /\ UNCHANGED next

\* number > 1: temp is moved number - 1 times and so stands on place `number',
\* not before it.
RemoveLater(temp) ==
    LET toDel == next[temp] IN
    /\ cpc = "idle" /\ temp \in Nodes(head) /\ Number(temp) \in 2..count
    /\ toDel # Null
    /\ next' = [next EXCEPT ![temp] = next[toDel]]
    /\ picked' = temp
    /\ Unlinked(toDel)
    /\ UNCHANGED head

\* For the last one toDel is a null pointer.
RemoveCrash(temp) ==
    /\ cpc = "idle" /\ temp \in Nodes(head) /\ Number(temp) \in 2..count
    /\ next[temp] = Null
    /\ Die

\* Mutant: toDel->next() is left as it was.
CutForgotten ==
    /\ cpc = "cut"
    /\ cpc' = "delete"
    /\ disturbed' = (disturbed \/ dcur = cur)
    /\ UNCHANGED <<db, cur, pos, file, dpc, dcur, asked, had, client, picked, saved, base>>

\* toDel->next() = NULL: from here on a check that stands on toDel ends there.
Cut ==
    /\ cpc = "cut"
    /\ next' = [next EXCEPT ![cur] = Null]
    /\ cpc' = "delete"
    /\ disturbed' = (disturbed \/ dcur = cur)
    /\ UNCHANGED <<head, rec, count, cur, pos, file, dpc, dcur, asked, had, client, picked,
                   saved, base>>

\* delete toDel: the destructor of Login deletes the logins behind it, too.
Delete ==
    /\ cpc = "delete"
    /\ rec' = [a \in Addr |-> IF a \in Nodes(cur) THEN Null ELSE rec[a]]
    /\ next' = [a \in Addr |-> IF a \in Nodes(cur) THEN Null ELSE next[a]]
    /\ count' = (count - 1) % W
    /\ cpc' = "idle" /\ cur' = Null /\ picked' = Null
    /\ UNCHANGED <<head, pos, file, check, client, saved, base>>

\* An empty list is not saved: the file stays as it was.
StartSave ==
    /\ cpc = "idle" /\ head # Null /\ Length <= MaxSaved
    /\ file' = <<>> /\ saved' = <<>>
    /\ cpc' = "save" /\ cur' = head
    /\ UNCHANGED <<db, pos, check, client, picked, base>>

\* Login::save: the number of folders is written in one byte, the folders all.
Record(r) == <<[cred |-> r.cred, n |-> r.folders % FW]>> \o [i \in 1..r.folders |-> Line]

\* Mutant: the last login is not written (while(curr->next)).
SaveButLast ==
    /\ cpc = "save"
    /\ file' = IF next[cur] = Null THEN file ELSE file \o Record(rec[cur])
    /\ cur' = next[cur]
    /\ IF next[cur] = Null THEN cpc' = "idle" /\ saved' = Logins ELSE UNCHANGED <<cpc, saved>>
    /\ UNCHANGED <<db, pos, check, client, picked, base>>

SaveNext ==
    /\ cpc = "save"
    /\ file' = file \o Record(rec[cur])
    /\ cur' = next[cur]
    /\ IF next[cur] = Null THEN cpc' = "idle" /\ saved' = Logins ELSE UNCHANGED <<cpc, saved>>
    /\ UNCHANGED <<db, pos, check, client, picked, base>>

StartLoad ==
    /\ cpc = "idle"
    /\ cpc' = "load" /\ pos' = 1
    /\ base' = Logins
    /\ UNCHANGED <<db, cur, file, check, client, picked, saved>>

\* Mutant: a load that ends at a login it cannot read empties the list.
LoadEndEmpties ==
    /\ cpc = "load" /\ pos > Len(file)
    /\ cpc' = "idle" /\ base' = <<>> /\ pos' = 1
    /\ head' = Null /\ count' = 0
    /\ rec' = [a \in Addr |-> Null] /\ next' = [a \in Addr |-> Null]
    /\ UNCHANGED <<cur, file, check, client, picked, saved>>

\* Nothing more to read: the last Login(FILE*) is not loaded and is deleted.
LoadEnd ==
    /\ cpc = "load" /\ pos > Len(file)
    /\ cpc' = "idle" /\ base' = <<>> /\ pos' = 1
    /\ UNCHANGED <<db, cur, file, check, client, picked, saved>>

\* Mutant: the lines that are missing are passed over.
LoadRecordCut(a) ==
    /\ cpc = "load" /\ pos <= Len(file) /\ file[pos] # Line
    /\ AddLogin(a, [cred |-> file[pos].cred,
                    folders |-> IF pos + file[pos].n <= Len(file) THEN file[pos].n ELSE Len(file) - pos])
    /\ pos' = pos + 1 + file[pos].n
    /\ UNCHANGED <<cpc, cur, file, check, client, picked, saved, base>>

LoadRecord(a) ==
    /\ cpc = "load" /\ pos <= Len(file) /\ file[pos] # Line
    /\ pos + file[pos].n <= Len(file)
    /\ AddLogin(a, [cred |-> file[pos].cred, folders |-> file[pos].n])
    /\ pos' = pos + 1 + file[pos].n
    /\ UNCHANGED <<cpc, cur, file, check, client, picked, saved, base>>

\* fgets meets the end of the file, and strchr is called with a null pointer.
LoadCrash ==
    /\ cpc = "load" /\ pos <= Len(file) /\ file[pos] # Line
    /\ pos + file[pos].n > Len(file)
    /\ Die

\* More lines than the header said: their bytes are taken for a header.
LoseTrack ==
    /\ cpc = "load" /\ pos <= Len(file) /\ file[pos] = Line
    /\ cpc' = "astray"
    /\ UNCHANGED <<db, cur, pos, file, check, client, picked, saved, base>>

\* What is read then may be too short, a login of some kind (its folders are left
\* out), or lead to a crash.
LoadGarbage(a) ==
    /\ cpc = "astray"
    /\ AddLogin(a, [cred |-> Garbage, folders |-> 0])
    /\ UNCHANGED <<console, check, client, picked, saved, base>>

LoadGivesUp ==
    /\ cpc = "astray"
    /\ cpc' = "idle" /\ base' = <<>> /\ pos' = 1
    /\ UNCHANGED <<db, cur, file, check, client, picked, saved>>

-----------------------------------------------------------------------------
(* The dispatcher: LOGIN.                                                  *)

StartCheck(c) ==
    /\ dpc = "idle"
    /\ dpc' = "walk" /\ dcur' = head /\ asked' = c
    /\ had' = (\E a \in Nodes(head) : rec[a].cred = c)
    /\ disturbed' = FALSE
    /\ UNCHANGED <<db, console, client, picked, saved, base>>

CheckEnds ==
    /\ dpc' = "idle" /\ dcur' = Null /\ asked' = Null
    /\ had' = FALSE /\ disturbed' = FALSE
    /\ UNCHANGED <<db, console, picked, saved, base>>

Refuse == UNCHANGED client

Accept == login' = dcur /\ granted' = asked

Match ==
    /\ dpc = "walk" /\ dcur \in Allocated
    /\ rec[dcur].cred = asked
    /\ Accept
    /\ CheckEnds

\* Mutant: the walk passes over every second login.
PassTwo ==
    /\ dpc = "walk" /\ dcur \in Allocated
    /\ rec[dcur].cred # asked
    /\ dcur' = IF next[dcur] = Null THEN Null ELSE next[next[dcur]]
    /\ UNCHANGED <<db, console, dpc, asked, had, disturbed, client, picked, saved, base>>

Pass ==
    /\ dpc = "walk" /\ dcur \in Allocated
    /\ rec[dcur].cred # asked
    /\ dcur' = next[dcur]
    /\ UNCHANGED <<db, console, dpc, asked, had, disturbed, client, picked, saved, base>>

NotFound ==
    /\ dpc = "walk" /\ dcur = Null
    /\ Refuse
    /\ CheckEnds

\* curr has been deleted: the check reads freed memory, and finds its old
\* contents, nothing, or a pointer that leads nowhere.
Stray ==
    /\ dpc = "walk" /\ dcur # Null /\ rec[dcur] = Null
    /\ \/ (Accept \/ Refuse) /\ CheckEnds
       \/ Die

-----------------------------------------------------------------------------

Next ==
    \/ Die
    \/ \E a \in Addr : \/ \E c \in Creds : Input(a, c)
                       \/ LoadRecord(a)
                       \/ RemoveLater(a) \/ RemoveCrash(a)
                       \/ LoadGarbage(a)
    \/ RemoveFirst
    \/ Cut \/ Delete
    \/ StartSave \/ SaveNext
    \/ StartLoad \/ LoadEnd \/ LoadCrash \/ LoseTrack \/ LoadGivesUp
    \/ \E c \in Creds : StartCheck(c)
    \/ Match \/ Pass \/ NotFound \/ Stray

Spec == Init /\ [][Next]_vars

-----------------------------------------------------------------------------
\* Every variable keeps its type; the length of the list is kept in 16 bits.
TypeOK ==
    /\ head \in Addr \union {Null}
    /\ next \in [Addr -> Addr \union {Null}]
    /\ rec \in [Addr -> Login \union {Null}]
    /\ count \in 0..W - 1
    /\ cpc \in {"idle", "cut", "delete", "save", "load", "astray"}
    /\ cur \in Addr \union {Null}
    /\ pos \in Nat \ {0}
    /\ file \in Seq(Item)
    /\ dpc \in {"idle", "walk"}
    /\ dcur \in Addr \union {Null}
    /\ asked \in Creds \union {Null}
    /\ login \in Addr \union {Null}
    /\ granted \in Creds \union {Null}
    /\ had \in BOOLEAN /\ disturbed \in BOOLEAN
    /\ picked \in Addr \union {Null}
    /\ saved \in Seq(Login) /\ base \in Seq(Login)

\* The login that is being removed, if any.
Removed == IF cpc \in {"cut", "delete"} THEN {cur} ELSE {}

\* After any sequence of console operations the allocated logins are the ones in
\* the list and the one that is just being removed: none leaks, none is in the
\* list after it was deleted; and count is the length, as far as 16 bits go.
ListIsExact ==
    /\ Allocated = Nodes(head) \union Removed
    /\ Nodes(head) \intersect Removed = {}
    /\ \A a \in Nodes(head) : next[a] # Null => a \notin Nodes(next[a])
    /\ count = (Length + Cardinality(Removed)) % W

\* A check that runs beside the console answers as if it had been alone, whatever
\* is added and removed meanwhile: unless the removed login is the one asked for,
\* or the walk stands on it when it is cut off.
CheckUndisturbed ==
    [][~disturbed => (Match => had) /\ (NotFound => ~had)]_vars

\* The client's pointer leads to a login with the credentials it gave.
Faithful == login # Null /\ rec[login] # Null /\ rec[login].cred = granted

\* It stops to do so only when the console deletes that very login (the user stays
\* logged in, and its restrictions are read from what lies there then).
PointerKept ==
    [][Faithful /\ login' = login /\ ~Faithful' => cpc = "delete" /\ cur = login]_vars

\* A login never comes back from a file with fewer restricted folders than it was
\* entered with, also from a file that was cut by a crash; except for one with 256
\* folders or more, of whose number a byte is kept.
FoldersKept ==
    \A a \in Allocated :
        rec[a].cred # Garbage =>
            rec[a].folders \in {Lines[rec[a].cred], Lines[rec[a].cred] % FW}

\* A load of a file that was saved to the end puts all its logins, with their
\* folders, in reverse order before the ones there are (check finds the first of
\* two logins with the same credentials), if no login has more folders than fit.
Fits(logins) == \A k \in DOMAIN logins : logins[k].folders < FW
Reversed(s)  == [k \in 1..Len(s) |-> s[Len(s) + 1 - k]]

SaveRestores ==
    [][cpc = "load" /\ cpc' = "idle" /\ saved # <<>> /\ Fits(saved) /\ head' # Null =>
           Logins = Reversed(saved) \o base]_vars

-----------------------------------------------------------------------------
(* What the documentation says, and the code does not do.                  *)

\* "removed the Login in place number (starts with 1)" (LoginDB.h).
RemoveChosen == cpc \in {"cut", "delete"} => cur = picked
=============================================================================
