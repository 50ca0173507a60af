------------------------------ MODULE FileOps ------------------------------
(***************************************************************************)
(* The path requests (fileControl.cpp), as the slaves run them: each       *)
(* request is a sequence of system calls, one action each, and between two *)
(* of them any other slave may change the files.                           *)
(*                                                                         *)
(* The kernel's part (the inodes, the walk along a path, what a call does  *)
(* and when it fails) is external, modelled as far as the code uses it.    *)
(* Paths are those the users' folders lead to: VirtualPath models how they *)
(* come about, IOPool and JobPool how requests get into slots and slaves.  *)
(* There are as many slots here as slaves, so that a request in a slot is  *)
(* always being run.                                                       *)
(***************************************************************************)
EXTENDS Integers, Sequences, FiniteSets, SequencesExt, TLC

CONSTANTS Names,     \* the names of files
          Junk,      \* the name that left-over bytes spell
          Blocks,    \* what the contents of a file consist of
          Inodes, Root, None,
          SlotCount,
          Asked,     \* the paths that requests name, each a sequence of names
          Trees,     \* the contents the served folder may have at the start
          NameLen,   \* NameLen[n]: the length of a name
          BufferSize,  \* SERVER_BUFFER_SIZE
          Requests   \* bound: how many requests arrive

Slots == 1..SlotCount
MinRemaining == 12

ASSUME FileOpsAssumption ==
    /\ Junk \in Names /\ Names \intersect {"/", "nul"} = {} /\ IsFiniteSet(Names)
    /\ Root \in Inodes /\ None \notin Inodes
    /\ SlotCount \in Nat /\ Requests \in Nat /\ BufferSize \in Nat
    /\ NameLen \in [Names -> 1..255]
    /\ \A n \in Names : NameLen[n] + MinRemaining <= BufferSize
    /\ \A p \in Asked : p \in Seq(Names)

VARIABLES
    fs,     \* the inodes
    mem,    \* mem[s]: the characters of data.path in slot s
    job,    \* job[s]: the request in slot s, and the locals of its function.  Three are for
            \* the properties: the files it has found as long as nobody else changes any
            \* (before), whether what it has open was changed by another (spoilt), and whether
            \* something went wrong that the function does not look at (missed)
    asked   \* how many requests have arrived

vars == <<fs, mem, job, asked>>

OnePath == {"mkdir", "remove", "rmtree", "stat", "md5", "ls"}
TwoPath == {"move", "copy", "cptree", "symlink"}

Free == [kind |-> "free"]
File(d) == [kind |-> "file", data |-> d]
Dir(h)  == [kind |-> "dir", has |-> h]
Link(p) == [kind |-> "link", to |-> p]
EmptyDir == Dir([n \in Names |-> None])
IsNode(v) ==
    \/ v = Free
    \/ v.kind = "file" /\ v = File(v.data) /\ v.data \in Seq(Blocks)
    \/ v.kind = "dir" /\ v = Dir(v.has) /\ v.has \in [Names -> Inodes \union {None}]
    \/ v.kind = "link" /\ v = Link(v.to) /\ v.to \in Seq(Names)

\* A slot without a request.
NoJob == [op |-> "none", pc |-> "free", p |-> <<>>, q |-> <<>>, at |-> <<>>,
          in |-> None, out |-> None, size |-> 0, todo |-> <<>>, got |-> {}, sum |-> <<>>,
          used |-> 0, before |-> None, spoilt |-> FALSE, missed |-> FALSE, answer |-> "none"]

-----------------------------------------------------------------------------
(* The kernel.                                                             *)

Nowhere == [dir |-> None, name |-> Junk, ino |-> None, rest |-> <<>>]

\* One step along a path: a link is replaced by its text, unless it is the last
\* component and the call does not follow links.
Along(f, w, follow) ==
    IF w.rest = <<>> THEN w
    ELSE IF w.ino = None \/ (w.ino # None /\ f[w.ino].kind # "dir") THEN Nowhere
    ELSE LET n == Head(w.rest)
             i == f[w.ino].has[n] IN
         IF i # None /\ f[i].kind = "link" /\ (follow \/ Len(w.rest) > 1)
         THEN [Nowhere EXCEPT !.ino = Root, !.rest = f[i].to \o Tail(w.rest)]
         ELSE [dir |-> w.ino, name |-> n, ino |-> i, rest |-> Tail(w.rest)]

Hops == 8

\* How far the kernel goes along a path, and where the path leads: the last directory, the
\* name in it and what that name is.  With too many links it is given up, and leads nowhere.
Hopped(f, p, follow) ==
    LET go[n \in 0..Hops] ==
            IF n = 0 THEN [Nowhere EXCEPT !.ino = Root, !.rest = p]
            ELSE CHOOSE v \in {Along(f, w, follow) : w \in {go[n - 1]}} : TRUE
    IN go[Hops]
Walk(f, p, follow) ==
    CHOOSE v \in {IF w.rest = <<>> THEN w ELSE Nowhere : w \in {Hopped(f, p, follow)}} : TRUE
GivenUp(f, p) == Hopped(f, p, TRUE).rest # <<>>

Is(f, i, kind) == i # None /\ f[i].kind = kind

\* isDirectory and isFileExists.
IsDirectory(f, p)  == Is(f, Walk(f, p, TRUE).ino, "dir")
IsFileExists(f, p) == Walk(f, p, TRUE).ino # None

\* A directory's entries: the inodes, and the names.
Held(f, d) == {f[d].has[n] : n \in Names} \ {None}
Inside(f, d) == {n \in Names : f[d].has[n] # None}
Linked(f) == UNION {Held(f, d) : d \in {i \in Inodes : Is(f, i, "dir")}}

\* An inode's names, each with the directory it stands in.
NamesOf(f, i) == {x \in Inodes \X Names : Is(f, x[1], "dir") /\ f[x[1]].has[x[2]] = i}

\* The folder that is served is a tree at the start, and what is not in it is free.
ASSUME TreesAssumption ==
    \A f \in Trees :
       /\ f = [i \in Inodes |-> f[i]] /\ \A i \in Inodes : IsNode(f[i])
       /\ f[Root].kind = "dir" /\ Root \notin Linked(f)
       /\ \A i \in Inodes \ {Root} : f[i] = Free <=> i \notin Linked(f)
       /\ \A i \in Inodes : \A x, y \in NamesOf(f, i) : x = y

\* d is i or lies in it: it is in every set that has i, and with a directory all it holds.
Beneath(f, d, i) ==
    \A S \in SUBSET Inodes :
       i \in S /\ (\A e \in S : Is(f, e, "dir") => Held(f, e) \subseteq S) => d \in S

Opened(jobs) == {jobs[s].in : s \in Slots} \union {jobs[s].out : s \in Slots}

\* An inode without a name lives until the last descriptor is closed.
Kept(f, jobs) ==
    LET used == {Root} \union Linked(f) \union Opened(jobs)
    IN [i \in Inodes |-> IF i \in used THEN f[i] ELSE Free]

Unused(f) == {i \in Inodes : f[i] = Free}
Creatable(f, w) == w.dir # None /\ w.ino = None /\ Unused(f) # {}
Create(f, w, node) ==
    LET i == CHOOSE u \in Unused(f) : TRUE
    IN [f EXCEPT ![w.dir].has[w.name] = i, ![i] = node]
Take(f, w) == [f EXCEPT ![w.dir].has[w.name] = None]

\* rename.
Renamable(f, w, v) ==
    /\ w.dir # None /\ w.ino # None /\ v.dir # None
    /\ ~Beneath(f, v.dir, w.ino)
    /\ \/ v.ino \in {None, w.ino}
       \/ f[v.ino].kind # "dir" /\ f[w.ino].kind # "dir"
       \/ f[w.ino].kind = "dir" /\ f[v.ino] = EmptyDir
Rename(f, w, v) ==
    IF v.ino = w.ino THEN f
    ELSE [Take(f, w) EXCEPT ![v.dir].has[v.name] = w.ino]

\* unlink and rmdir, as remove() chooses between them.
Removable(f, w) ==
    /\ w.dir # None /\ w.ino # None
    /\ f[w.ino].kind = "dir" => f[w.ino] = EmptyDir

\* The first n of the source over the beginning of what is there.
Over(new, old, n) == SubSeq(new, 1, n) \o SubSeq(old, n + 1, Len(old))

-----------------------------------------------------------------------------
(* The memory of a slot.  Names are one character each.                    *)

Cells == 2 * (1 + CHOOSE n \in {Len(p) : p \in Asked} : \A p \in Asked : Len(p) <= n)

\* A path as it is stored behind the base folder, with its terminator.
Text(p) ==
    IF p = <<>> THEN <<"nul">>
    ELSE [i \in 1..(2 * Len(p)) |->
             IF i % 2 = 1 THEN p[(i + 1) \div 2] ELSE IF i = 2 * Len(p) THEN "nul" ELSE "/"]

Write(m, at, t) == [i \in 1..Cells |-> IF i \in (at + 1)..(at + Len(t)) THEN t[i - at] ELSE m[i]]

\* The components up to the terminator.
Read(m) ==
    LET end == CHOOSE i \in 1..Cells : m[i] = "nul" /\ \A k \in 1..(i - 1) : m[k] # "nul"
    IN SelectSeq(SubSeq(m, 1, end - 1), LAMBDA c : c # "/")

\* getContentDirectory writes a separator over the terminator, unless the path is
\* the base folder, which ends in one.
Slash(m, p) == IF p = <<>> THEN m ELSE [m EXCEPT ![2 * Len(p)] = "/"]

-----------------------------------------------------------------------------
Init ==
    /\ fs \in Trees
    /\ mem = [s \in Slots |-> [i \in 1..Cells |-> "nul"]]
    /\ job = [s \in Slots |-> NoJob]
    /\ asked = 0

First(op) == CASE op = "mkdir" -> "exists" [] op = "move" -> "rename"
               [] op = "copy" -> "source"  [] op = "remove" -> "unlink"
               [] op = "rmtree" -> "tree"  [] op = "cptree" -> "cp"
               [] op = "stat" -> "access"  [] op = "md5" -> "fopen"
               [] op = "symlink" -> "readlink" [] op = "ls" -> "opendir"

\* addPathFunction takes the first free slot.  The memory behind the path keeps what
\* was there.
FirstFree(s) == job[s].pc = "free" /\ \A t \in 1..(s - 1) : job[t].pc # "free"

Request(s, op, p, q) ==
    /\ FirstFree(s) /\ asked < Requests
    /\ asked' = asked + 1
    /\ mem' = [mem EXCEPT ![s] = Write(@, 0, Text(p))]
    /\ job' = [job EXCEPT ![s] = [NoJob EXCEPT !.op = op, !.pc = First(op), !.p = p, !.q = q,
                                               !.at = p, !.before = fs,
                                               !.todo = <<[path |-> p, last |-> FALSE]>>]]
    /\ UNCHANGED fs

\* The first of two paths is in the slot already when the second one is refused.
Refuse(s, p) ==
    /\ FirstFree(s) /\ asked < Requests
    /\ asked' = asked + 1
    /\ mem' = [mem EXCEPT ![s] = Write(@, 0, Text(p))]
    /\ UNCHANGED <<fs, job>>

\* The function of slot s has made a call: its locals are j now, the inodes are f, and its
\* memory is m.  A change of the files disturbs the other requests.
CallOn(s, j, f, m) ==
    \E after \in {Kept(f, [job EXCEPT ![s] = j])} :
       /\ fs' = after
       /\ mem' = [mem EXCEPT ![s] = m]
       /\ job' = [t \in Slots |->
                 IF t = s THEN j
                 ELSE IF after = fs \/ job[t].pc = "free" THEN job[t]
                 ELSE [job[t] EXCEPT !.before = None,
                         !.spoilt = @ \/ \E i \in {job[t].in, job[t].out} \ {None} : after[i] # fs[i]]]
       /\ UNCHANGED asked
Call(s, j, f) == CallOn(s, j, f, mem[s])

At(s, pc) == job[s].pc = pc
Goto(j, pc) == [j EXCEPT !.pc = pc]
Return(j, ok) ==
    [j EXCEPT !.pc = "done", !.answer = IF ok THEN "ACTION_COMPLETED" ELSE "ERROR_OCCURED"]

\* If x is so, the function goes on as if it were not.
Miss(j, x) == [j EXCEPT !.missed = @ \/ x]

-----------------------------------------------------------------------------
(* createDirectory, moveFile, removeFile                                   *)

\* Anything that is there already is as good as a new directory.
MkdirStat(s) ==
    /\ At(s, "exists")
    /\ Call(s, IF Walk(fs, job[s].p, TRUE).ino # None THEN Return(job[s], TRUE)
               ELSE Goto(job[s], "mkdir"), fs)

Mkdir(s) ==
    LET w == Walk(fs, job[s].p, FALSE)  ok == Creatable(fs, w) IN
    /\ At(s, "mkdir")
    /\ Call(s, Return(job[s], ok), IF ok THEN Create(fs, w, EmptyDir) ELSE fs)

\* Mutant: the target is removed to make room for what is moved.
MoveOver(s) ==
    LET w == Walk(fs, job[s].p, FALSE)  v == Walk(fs, job[s].q, FALSE)
        f == IF Removable(fs, v) /\ v.ino # w.ino THEN Take(fs, v) ELSE fs
        ok == Renamable(f, w, v) IN
    /\ At(s, "rename")
    /\ Call(s, Return(job[s], ok), IF ok THEN Rename(f, w, v) ELSE f)

Move(s) ==
    LET w == Walk(fs, job[s].p, FALSE)  v == Walk(fs, job[s].q, FALSE)
        ok == Renamable(fs, w, v) IN
    /\ At(s, "rename")
    /\ Call(s, Return(job[s], ok), IF ok THEN Rename(fs, w, v) ELSE fs)

RemoveFile(s) ==
    LET w == Walk(fs, job[s].p, FALSE)
        ok == Removable(fs, w) /\ ~Is(fs, w.ino, "dir") IN
    /\ At(s, "unlink")
    /\ Call(s, Return(job[s], ok), IF ok THEN Take(fs, w) ELSE fs)

-----------------------------------------------------------------------------
(* copyFile                                                                *)

\* What is there need not be readable: open returns -1 then too, and nobody looks.
CopySource(s) ==
    /\ At(s, "source")
    /\ \E i \in {Walk(fs, job[s].p, TRUE).ino, None} :
          Call(s, [job[s] EXCEPT !.pc = "target", !.in = i], fs)

\* Mutant: a directory is taken for a file that can be written.
CopyTargetAny(s) ==
    LET w == Walk(fs, job[s].q, TRUE)
        f == IF Creatable(fs, w) THEN Create(fs, w, File(<<>>)) ELSE fs IN
    /\ At(s, "target")
    /\ Call(s, [job[s] EXCEPT !.pc = "fstat", !.out = Walk(f, job[s].q, TRUE).ino], f)

\* Mutant: O_TRUNC, so that a file copied to itself is empty when it is read.
CopyTargetTruncating(s) ==
    LET w == Walk(fs, job[s].q, TRUE)
        f == IF Creatable(fs, w) THEN Create(fs, w, File(<<>>)) ELSE fs
        i == Walk(f, job[s].q, TRUE).ino IN
    /\ At(s, "target")
    /\ IF Is(f, i, "file") THEN Call(s, [job[s] EXCEPT !.pc = "fstat", !.out = i], [f EXCEPT ![i] = File(<<>>)])
       ELSE Call(s, [job[s] EXCEPT !.pc = "fstat"], f)

\* O_CREAT without O_TRUNC: a longer file keeps its end.  This open may fail as well.
CopyTarget(s) ==
    LET w == Walk(fs, job[s].q, TRUE)
        f == IF Creatable(fs, w) THEN Create(fs, w, File(<<>>)) ELSE fs
        i == Walk(f, job[s].q, TRUE).ino IN
    /\ At(s, "target")
    /\ \/ Call(s, [job[s] EXCEPT !.pc = "fstat", !.out = IF Is(f, i, "file") THEN i ELSE None], f)
       \/ Call(s, [job[s] EXCEPT !.pc = "fstat"], fs)

\* If no source is open, stat_source stays as the stack was.
CopyStat(s) ==
    LET i == job[s].in IN
    /\ At(s, "fstat")
    /\ \E size \in IF i = None THEN {-1, 1}
                   ELSE IF Is(fs, i, "file") THEN {Len(fs[i].data)} ELSE {1} :
           Call(s, [job[s] EXCEPT !.pc = "sendfile", !.size = size], fs)

\* Mutant: any count that is not an error will do.
CopySendUnchecked(s) ==
    LET j == job[s]  i == j.in  o == j.out IN
    /\ At(s, "sendfile")
    /\ IF Is(fs, i, "file") /\ o # None
       THEN \E n \in 0..j.size :
               /\ n <= Len(fs[i].data)
               /\ Call(s, Return(j, n >= 0), [fs EXCEPT ![o].data = Over(fs[i].data, @, n)])
       ELSE Call(s, Return(j, FALSE), fs)

\* sendfile writes what there is, or less if the disk is full, and returns -1 if one
\* of the descriptors is not a file.
CopySend(s) ==
    LET j == job[s]  i == j.in  o == j.out IN
    /\ At(s, "sendfile")
    /\ IF Is(fs, i, "file") /\ o # None
       THEN \E n \in 0..j.size :
               /\ n <= Len(fs[i].data)
               /\ Call(s, Return(j, n = j.size),
                       [fs EXCEPT ![o].data = Over(fs[i].data, @, n)])
       ELSE Call(s, Return(j, j.size = -1), fs)

-----------------------------------------------------------------------------
(* removeFolder: nftw with FTW_DEPTH and FTW_PHYS                          *)

\* Mutant: without FTW_PHYS.
TreeLookFollowing(s) ==
    LET j == job[s]  x == Head(j.todo).path  w == Walk(fs, x, TRUE)
        self == [path |-> x, last |-> TRUE] IN
    /\ At(s, "tree") /\ ~Head(j.todo).last
    /\ IF w.ino = None THEN Call(s, Return(j, FALSE), fs)
       ELSE \E names \in SetToSeqs(IF Is(fs, w.ino, "dir") THEN Inside(fs, w.ino) ELSE {}) :
              Call(s, [j EXCEPT !.todo = [k \in DOMAIN names |->
                                             [path |-> Append(x, names[k]), last |-> FALSE]]
                                         \o <<self>> \o Tail(@)], fs)

\* The walk looks at the next path: nothing is there, or it cannot be opened, or a directory
\* comes after all that is in it.
TreeLook(s) ==
    LET j == job[s]  x == Head(j.todo).path  w == Walk(fs, x, FALSE)
        self == [path |-> x, last |-> TRUE] IN
    /\ At(s, "tree") /\ ~Head(j.todo).last
    /\ \/ Call(s, Return(j, FALSE), fs)
       \/ /\ w.ino # None
          /\ \E names \in SetToSeqs(IF Is(fs, w.ino, "dir") THEN Inside(fs, w.ino) ELSE {}) :
                Call(s, [j EXCEPT !.todo = [k \in DOMAIN names |->
                                               [path |-> Append(x, names[k]), last |-> FALSE]]
                                           \o <<self>> \o Tail(@)], fs)

\* _remove_file.  The first failure ends the walk.
TreeRemove(s) ==
    LET j == job[s]  w == Walk(fs, Head(j.todo).path, FALSE) IN
    /\ At(s, "tree") /\ Head(j.todo).last
    /\ IF ~Removable(fs, w) THEN Call(s, Return(j, FALSE), fs)
       ELSE Call(s, IF Len(j.todo) = 1 THEN Return(j, TRUE) ELSE [j EXCEPT !.todo = Tail(@)],
                 Take(fs, w))

-----------------------------------------------------------------------------
(* copyFolder: execlp("cp", "-rf", src, dst) makes "-rf" the name of the   *)
(* program, so that cp runs without options.                               *)

\* Into a directory cp copies under the name of the source.
CpTarget(f, p, q) == IF IsDirectory(f, q) THEN Append(q, Last(p)) ELSE q

\* cp leaves out directories, does not copy a file to itself and does not write through a
\* link to nothing.  It may not get as far, or fork may fail.  WEXITSTATUS is taken without
\* WIFEXITED: a cp that a signal has killed left the status 0, that of a success.
CpOpen(s) ==
    LET j == job[s]  i == Walk(fs, j.p, TRUE).ino  q == CpTarget(fs, j.p, j.q)
        w == Walk(fs, q, TRUE)
        f == IF Creatable(fs, w) /\ Walk(fs, q, FALSE).ino = None
             THEN Create(fs, w, File(<<>>)) ELSE fs
        o == Walk(f, q, TRUE).ino IN
    /\ At(s, "cp")
    /\ \/ /\ Is(fs, i, "file") /\ i # o /\ Is(f, o, "file")
          /\ Call(s, [j EXCEPT !.pc = "cpwrite", !.in = i, !.out = o], [f EXCEPT ![o].data = <<>>])
       \/ \E killed \in BOOLEAN : Call(s, Return(Miss(j, killed), killed), fs)

CpWrite(s) ==
    LET j == job[s]  all == fs[j.in].data IN
    /\ At(s, "cpwrite")
    /\ \E n \in 0..Len(all), killed \in BOOLEAN :
          Call(s, Return(Miss(j, killed), killed \/ n = Len(all)),
                  [fs EXCEPT ![j.out].data = Over(all, @, n)])

-----------------------------------------------------------------------------
(* getFileStat, getMD5OfFile                                               *)

Entry(n, dir, size) == [name |-> n, dir |-> dir, size |-> size]

\* getSizeOfFile
SizeOf(f, p) ==
    LET i == Walk(f, p, TRUE).ino IN
    IF Is(f, i, "file") THEN Len(f[i].data) ELSE IF i = None THEN -1 ELSE 1

StatAccess(s) ==
    /\ At(s, "access")
    /\ Call(s, IF IsFileExists(fs, job[s].p) THEN Goto(job[s], "isdir")
               ELSE Return(job[s], FALSE), fs)

\* A directory that cannot be opened is taken for a file.
StatIsDir(s) ==
    LET j == job[s]  dir == IsDirectory(fs, j.p) IN
    /\ At(s, "isdir")
    /\ \E seen \in {dir, FALSE} :
          Call(s, IF seen THEN [Return(j, TRUE) EXCEPT !.got = {Entry(None, TRUE, 0)}]
                  ELSE Goto(Miss(j, dir), "size"), fs)

StatSize(s) ==
    LET j == job[s] IN
    /\ At(s, "size")
    /\ Call(s, [Return(j, TRUE) EXCEPT !.got = {Entry(None, FALSE, SizeOf(fs, j.p))}], fs)

MD5Open(s) ==
    /\ At(s, "fopen")
    /\ \E i \in {Walk(fs, job[s].p, TRUE).ino, None} :
          Call(s, IF i = None THEN Return(job[s], FALSE)
                  ELSE [job[s] EXCEPT !.pc = "fread", !.in = i], fs)

\* Mutant: one block is read.
MD5ReadOnce(s) ==
    LET j == job[s] IN
    /\ At(s, "fread")
    /\ Call(s, [Return(j, TRUE) EXCEPT !.sum = IF Is(fs, j.in, "file")
                                              THEN SubSeq(fs[j.in].data, 1, 1) ELSE <<>>], fs)

\* A directory can be opened, and reads as if it were empty.  So does what cannot be read any
\* more: ferror is not asked.
MD5Read(s) ==
    LET j == job[s]
        rest == IF Is(fs, j.in, "file") THEN SubSeq(fs[j.in].data, Len(j.sum) + 1, Len(fs[j.in].data))
                ELSE <<>> IN
    /\ At(s, "fread")
    /\ \/ Call(s, Return(Miss(j, rest # <<>>), TRUE), fs)
       \/ rest # <<>> /\ Call(s, [j EXCEPT !.sum = Append(@, Head(rest))], fs)

-----------------------------------------------------------------------------
(* symbolicLink                                                            *)

\* Links are followed until there is none.  readlink does not terminate the text, so
\* that bytes left over on the stack may be taken for its end.
ReadLink(s) ==
    LET j == job[s]  i == Walk(fs, j.at, FALSE).ino IN
    /\ At(s, "readlink")
    /\ IF Is(fs, i, "link")
       THEN \E to \in {fs[i].to, <<Junk>>} : Call(s, [Miss(j, to # fs[i].to) EXCEPT !.at = to], fs)
       ELSE Call(s, Goto(j, "symlink"), fs)

Symlink(s) ==
    LET j == job[s]  w == Walk(fs, j.q, FALSE)  ok == Creatable(fs, w) IN
    /\ At(s, "symlink")
    /\ Call(s, Return(j, ok), IF ok THEN Create(fs, w, Link(j.at)) ELSE fs)

-----------------------------------------------------------------------------
(* getContentDirectory                                                     *)

LsOpen(s) ==
    LET m == Slash(mem[s], job[s].p)  d == Walk(fs, Read(m), TRUE).ino
        j == [job[s] EXCEPT !.at = Read(m)] IN
    /\ At(s, "opendir")
    /\ \/ CallOn(s, Return(j, FALSE), fs, m)
       \/ /\ Is(fs, d, "dir")
          /\ \E names \in SetToSeqs(Inside(fs, d)) :
                CallOn(s, [j EXCEPT !.pc = "entry", !.todo = names], fs, m)

\* Mutant: an entry is taken to be no longer than its name.
RoomForName(used, n) == IF used + NameLen[n] >= BufferSize THEN 0 ELSE used

\* The bytes in the buffer before an entry is added: a message is sent if it might
\* not fit.
Room(used, n) == IF used + NameLen[n] >= BufferSize - MinRemaining THEN 0 ELSE used
Packed(j, n) == Room(j.used, n) + 10 + NameLen[n]

\* The entry's name is put behind the path of the request, whatever was opened.
LsEntry(s) ==
    LET j == job[s]  n == Head(j.todo)  dir == IsDirectory(fs, Append(j.p, n)) IN
    /\ At(s, "entry") /\ j.todo # <<>>
    /\ \E seen \in {dir, FALSE} :
          CallOn(s, IF seen
                    THEN [j EXCEPT !.todo = Tail(@), !.got = @ \union {Entry(n, TRUE, 0)},
                                   !.used = Packed(j, n)]
                    ELSE Goto(Miss(j, dir), "entrysize"),
                 fs, Write(mem[s], 2 * Len(j.p), <<n, "nul">>))

\* Mutant: the loop does not go on to the next entry.
LsSizeAgain(s) ==
    LET j == job[s]  n == Head(j.todo) IN
    /\ At(s, "entrysize")
    /\ Call(s, [j EXCEPT !.pc = "entry", !.used = Packed(j, n),
                         !.got = @ \union {Entry(n, FALSE, SizeOf(fs, Append(j.p, n)))}], fs)

LsSize(s) ==
    LET j == job[s]  n == Head(j.todo) IN
    /\ At(s, "entrysize")
    /\ Call(s, [j EXCEPT !.pc = "entry", !.todo = Tail(@), !.used = Packed(j, n),
                         !.got = @ \union {Entry(n, FALSE, SizeOf(fs, Append(j.p, n)))}], fs)

\* readdir has no more entries, or fails.
LsEnd(s) ==
    /\ At(s, "entry")
    /\ Call(s, Return(Miss(job[s], job[s].todo # <<>>), TRUE), fs)

-----------------------------------------------------------------------------
\* The slave answers and gives the slot back.
Release(s) ==
    /\ At(s, "done")
    /\ Call(s, NoJob, fs)

Slave(s) ==
    \/ MkdirStat(s) \/ Mkdir(s) \/ Move(s) \/ RemoveFile(s)
    \/ CopySource(s) \/ CopyTarget(s) \/ CopyStat(s) \/ CopySend(s)
    \/ TreeLook(s) \/ TreeRemove(s) \/ CpOpen(s) \/ CpWrite(s)
    \/ StatAccess(s) \/ StatIsDir(s) \/ StatSize(s) \/ MD5Open(s) \/ MD5Read(s)
    \/ ReadLink(s) \/ Symlink(s) \/ LsOpen(s) \/ LsEntry(s) \/ LsSize(s) \/ LsEnd(s)
    \/ Release(s)

Arrive ==
    \E s \in Slots, p \in Asked :
       \/ \E op \in OnePath : Request(s, op, p, <<>>)
       \/ \E op \in TwoPath, q \in Asked : Request(s, op, p, q)
       \/ Refuse(s, p)

Next == Arrive \/ \E s \in Slots : Slave(s)

Spec == Init /\ [][Next]_vars

\* A slave goes on with its request: again and again a call changes its locals, unless the
\* slot is free, or the slave reads a link to itself over and over.  This is weak fairness of
\* Slave(s), without the question whether it is enabled.
Spins(s) ==
    LET i == Walk(fs, job[s].at, FALSE).ino
    IN At(s, "readlink") /\ Is(fs, i, "link") /\ fs[i].to = job[s].at
GoesOn(s) == []<>(At(s, "free") \/ Spins(s)) \/ []<><<job'[s] # job[s]>>_vars
FairSpec == Spec /\ \A s \in Slots : GoesOn(s)

-----------------------------------------------------------------------------
\* The requests that have just returned what, and which of them have had the files to
\* themselves.
Completed(j, ops) == j.op \in ops /\ j.answer = "ACTION_COMPLETED"
Noticed(j, ops) == Completed(j, ops) /\ ~j.missed
Failed(j, ops) == j.op \in ops /\ j.answer = "ERROR_OCCURED"
Alone(s) == job[s].before # None

Data(f, p) == LET i == Walk(f, p, TRUE).ino IN IF Is(f, i, "file") THEN f[i].data ELSE <<>>
EntryOf(f, p, n) ==
    LET x == Append(p, n)
    IN IF IsDirectory(f, x) THEN Entry(n, TRUE, 0) ELSE Entry(n, FALSE, SizeOf(f, x))
Listed(f, d, p) == {EntryOf(f, p, n) : n \in Inside(f, d)}

\* Every variable keeps its type; the inodes form a tree, in which each of them has one
\* name, or none and is open; what a copy writes to is a file; and a message of a listing
\* fits into a datagram with its code, however long the names are.
TypeOK ==
    /\ fs[Root].kind = "dir" /\ Root \notin Linked(fs)
    /\ \A i \in Inodes \ {Root} :
          /\ fs[i].kind \in {"free", "file", "dir", "link"}
          /\ fs[i].kind = "free" <=> i \notin Linked(fs) \union Opened(job)
          /\ \A x, y \in NamesOf(fs, i) : x = y
    /\ mem \in [Slots -> [1..Cells -> Names \union {"/", "nul"}]]
    /\ \A s \in Slots :
          /\ job[s].op \in OnePath \union TwoPath \union {"none"}
          /\ job[s].out # None => fs[job[s].out].kind = "file"
          /\ job[s].used <= BufferSize - 2
          /\ job[s].answer # "none" <=> job[s].pc = "done"
    /\ asked \in 0..Requests

\* A copy that is answered with ACTION_COMPLETED begins with all of the source, and if cp
\* made it, it is the source, whatever happened to the names meanwhile.  Three cases are left
\* out: another request has written to either file; copyFile could not open the source, and
\* the size it compares with was that of the stack (fileControl.cpp:177); and cp was killed by
\* a signal, which is answered as a success (fileControl.cpp:286).
CopyIsWhole ==
    \A s \in Slots :
       Noticed(job[s], {"copy", "cptree"}) /\ job[s].in # None /\ ~job[s].spoilt =>
          LET new == fs[job[s].in].data  copy == fs[job[s].out].data IN
          /\ IsPrefix(new, copy)
          /\ job[s].op = "cptree" => copy = new

\* The files that request j names as what it changes, as they were when it came, and what
\* lies in them.
Named(j) ==
    LET b == j.before IN
    CASE j.op = "copy" -> {Walk(b, j.q, TRUE).ino}
      [] j.op = "cptree" -> {Walk(b, CpTarget(b, j.p, j.q), TRUE).ino}
      [] j.op = "move" -> {Walk(b, j.q, FALSE).ino}
      [] j.op \in {"remove", "rmtree"} -> {Walk(b, j.p, FALSE).ino}
      [] OTHER -> {}
Meant(j, i) == \E d \in Named(j) \ {None} : Beneath(j.before, i, d)

\* What the answer to request j says of the files f is so.
Truthful(j, f) ==
    LET b == j.before  there(p) == Walk(f, p, TRUE).ino IN
    /\ Failed(j, (OnePath \union TwoPath) \ {"copy", "cptree", "rmtree"}) => f = b
    /\ Completed(j, {"mkdir"}) => IsDirectory(f, j.p) \/ (IsFileExists(b, j.p) /\ f = b)
    /\ Completed(j, {"move"}) =>
          LET v == Walk(b, j.q, FALSE) IN f[v.dir].has[v.name] = Walk(b, j.p, FALSE).ino
    /\ Completed(j, {"remove", "rmtree"}) => Walk(f, j.p, FALSE).ino = None
    /\ Completed(j, {"copy"}) /\ j.in # None => IsPrefix(Data(b, j.p), Data(f, j.q))
    /\ Noticed(j, {"cptree"}) => Data(f, CpTarget(b, j.p, j.q)) = Data(b, j.p)
    /\ Noticed(j, {"symlink"}) =>
          there(j.q) = Walk(b, j.p, TRUE).ino \/ GivenUp(f, j.q) \/ GivenUp(b, j.p)
    /\ Noticed(j, {"stat"}) =>
          j.got = {IF Is(f, there(j.p), "dir") THEN Entry(None, TRUE, 0)
                   ELSE Entry(None, FALSE, Len(Data(f, j.p)))}
    /\ Noticed(j, {"md5"}) => j.sum = Data(f, j.p)
    /\ Noticed(j, {"ls"}) /\ j.at = j.p => j.got = Listed(f, there(j.p), j.p)

\* What a request is told about the files is so, if nobody else changes any file while it runs:
\*  - the folder is made, or something was there already, a folder or not, and nothing is done
\*    (fileControl.cpp:159);
\*  - the file has moved; the file or the tree is gone;
\*  - the target of a copy begins with the source, that of cp is the source;
\*  - a link leads where the path it was made for leads, be that a link or not, unless the
\*    kernel gives up on one of the two for too many links on the way;
\*  - the size, the contents and the entries, each with its size, are the right ones; a
\*    listing's if the folder that was opened is the one that was asked for (see ListsTheNamed).
\* An error leaves the files as they were, but for what a copy has created or written, and what
\* a removal of a tree has removed so far.  What the functions do not look at is left out: a
\* source that copyFile could not open, and whatever sets "missed" (a killed cp, bytes left over
\* behind the text of a link, a directory that cannot be opened to see that it is one, a
\* read that fails).
AnswerIsTrue == \A s \in Slots : Alone(s) => Truthful(job[s], fs)

\* A request that nobody disturbs changes no file but the one it names as its target, or,
\* for a removal, those that lie in it: neither the walk of a removal nor a move follows
\* links.
OthersKept ==
    \A s \in Slots : Alone(s) =>
       \A i \in Inodes :
          job[s].before[i].kind = "file" /\ fs[i] # job[s].before[i] => Meant(job[s], i)

\* Links of which each leads to one of them.
Cyclic(f) ==
    \E S \in SUBSET {i \in Inodes : Is(f, i, "link")} :
       S # {} /\ \A i \in S : Walk(f, f[i].to, FALSE).ino \in S

\* Every request comes to its end, unless there are links that lead in a circle: those
\* symbolicLink follows for good, and its slave is lost.
RequestEnds == \A s \in Slots : job[s].pc # "free" ~> (job[s].pc = "done" \/ Cyclic(fs))

-----------------------------------------------------------------------------
(* What the documentation says, and the code does not do.                  *)

\* "535 - get contents of directory {[code][path]}" (Protocol.txt:61): the directory that is
\* opened is the one the request names.
ListsTheNamed == \A s \in Slots : job[s].op = "ls" /\ job[s].pc = "done" => job[s].at = job[s].p
=============================================================================
