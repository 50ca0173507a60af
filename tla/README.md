# A TLA+ model of aftp-server

aftp-server is a file server over UDP. Clients log in, move around in a tree of
folders, have operations on files carried out, and download or upload files in
blocks of 512 bytes. This directory holds TLA+ modules that model its
components, TLC configurations that check them on small instances, and TLAPS
proofs about them for every value of their constants. All paths below are
relative to the repository.

## 1. The system

Four kinds of threads share one process:

    console  --starts, stops, joins-->  startServer  --starts, joins-->  userControl
    (main.cpp)                          (server.cpp) --starts, joins-->  two I/O slaves
        |                                    |                               |
        +------------- needExit ------------+-------------------------------+
                                             |
      datagram -> findUser/addUser -> decrypt -> checks -> pool | transfer | list | database

| component | state | operations | who touches it |
|---|---|---|---|
| I/O thread pool (`IOThreadPool.*`) | 128 slots, each with an atomic state and the data of a request; an atomic counter | constructor, `addPathFunction`, `slaveThread`, destructor | dispatcher and two slaves, without a lock |
| file transfer (`FileTransfer.*`) | state, number of blocks, block the stream is believed to be at, stream | `reset` (twice), `close`, `askForBlock`, `askForBlocksRange`, `recieveBlock`, destructor | dispatcher |
| user list (`UserList.*`) | linked list of arrays of 1024 pointers, counters, a flag | `addUser`, `findUser`, `removeUser`, `userControl`, `print` | dispatcher, control thread, console |
| user session (`User.*`) | last use, warning, login, current folder, encryption keys, its file transfer | `resetTime`, `timeout`, `logIn`, `moveFolder`, `setAesKey`, `sendData` | dispatcher, slaves, control thread |
| dispatch (`server.cpp`, `server_lookup.h`) | the datagram at hand | one case per message code | dispatcher |
| lifecycle (`main.cpp`, `server.cpp`) | `needExit`, the threads, the socket, what the menu shows | start, stop, the joins, configuration | console, all threads |
| login database (`LoginDB.*`, `Login.*`) | linked list of logins, each with restricted folders | add, remove by number, load, save, check | console, dispatcher |
| virtual paths (`User.cpp`, `Login.cpp`, `fileControl.cpp`) | none: a function of folder, path and login | `parseChangeDir`, `getRealFile`, `isRestrictedFolder` | dispatcher |
| framing of encrypted data (`server.cpp`) | none: a function of the length | `encryptAES`, `decryptAES` | dispatcher, slaves |
| file operations (`fileControl.cpp`) | the file system | one function per operation | slaves |

What is hard in it, and hard to test:

* **The pool has no lock.** A slot is published before it is counted and freed
  before it is discounted; the test for "busy" looks at the counter, the search
  at the slots; the slaves start before the counter is set.
* **Pointers outlive what they point to.** Requests in the pool keep the `User`
  that `LOGOUT` deletes, users keep the `Login` that the console removes.
* **Arithmetic.** Block numbers are 32 bits without sign, stream offsets 64 bits
  with sign, and the stream is only ever moved by differences.
* **Lists under long sequences of calls.** Removal moves the last entry into the
  gap; the bound of one loop is taken from another node.
* **Stopping.** A plain flag, a blocking `recvfrom`, an inverted test, three
  joins in a row.
* **UDP.** Requests and answers get lost, doubled and reordered, so clients ask
  again.
* **One copy of the logins.** The file is overwritten in place, a reader that
  meets the end of it crashes or goes on, and the list in memory is shared with
  the dispatcher.
* **System calls in sequence.** Two slaves work on one tree of files; a function
  that looks before it acts may find something else when it acts. Slots are not
  cleared between requests.

PROJECT.json lists these one by one under "hazards", at their lines.

What makes each component correct:

* pool: a request is refused or run exactly once and answered at most once, its
  slot is nobody else's while it is there, and no accepted request starves;
* transfer: the block that is asked for is the one that is sent, a block that is
  acknowledged is where it belongs, no stream leaks;
* session: an answer goes to whoever asked, under the key that client has set, and
  nobody is logged in who has not logged in;
* user list: it holds each allocated user once, nobody leaves but by a logout or
  a timeout, and a logout is one;
* lifecycle: no thread outlives its server, a stop is seen by everybody and
  completes, the menu tells the truth, silent clients are timed out;
* login database: the login that is removed is the one that was chosen, what is
  saved is what is loaded, also by a program that has crashed in between, and a
  check beside the console answers as if it were alone;
* paths: the result of a path never leaves the base folder, and a restricted
  folder is restricted under each of its names;
* framing: decoding what was encoded gives back the data;
* file operations: what a client is told about the files is so, a request touches
  nothing but what it names, and every request ends.

## 2. The modules

| module | what it is |
|---|---|
| `JobPool` | what the pool promises, without slots, threads and counters |
| `IOPool` | the pool as it is coded; `ImplementsJobPool` says that it implements `JobPool` |
| `FileTransfer` | one file transfer and the cases of the dispatcher that drive it |
| `UserList` | the list of the users, logouts and timeouts |
| `Lifecycle` | the console, the server thread, the control thread and the number of slaves |
| `LoginDB` | the list of logins, the file it is kept in, and checks of logins beside the console |
| `VirtualPath` | how a path is read, from which folder, and which paths are restricted |
| `Framing` | the lengths of `encryptAES` and `decryptAES` |
| `Session` | datagrams, `User` objects and the answers of the slaves; uses `JobPool` for the pool and `Framing` for lengths |
| `FileOps` | the path functions, system call by system call, on a small file system |
| `IOPoolProofs`, `FileTransferProofs`, `UserListProofs`, `LifecycleProofs`, `LoginDBProofs`, `VirtualPathProofs`, `SessionProofs`, `FileOpsProofs` | the theorems about these components |
| `MCIOPool`, `MCFileTransfer`, `MCUserList`, `MCLifecycle`, `MCLoginDB`, `MCVirtualPath`, `MCSession`, `MCFileOps` | the instances for TLC |

How they fit together: `JobPool` is what a user of the pool may rely on. `IOPool`
is shown to implement it (refinement), and `Session` builds on it (composition):
its `HandlePath`, `Start` and `Finish` are steps of `JobPool` joined with what the
dispatcher and the slaves do to the `User` objects. `VirtualPath` says what the
paths are that reach `FileOps`; `LoginDB` what a login is worth that `Session` takes
as right or wrong.

Definitions named "Mutant" in a comment are plausible wrong versions of the
definition that follows them. No specification uses them: they show that each
property would notice such a change.

### IOPool

`state`, `data` and `count` are the members of the same names; `dpc`/`dslot`/`djob`
are where the dispatcher is, `currAdd` and the request; `wpc`/`wslot`/`found` are
where each slave is, `currManaged` and `found`. Each access to one of the two
atomic words is one action, in the order of the code: `CheckCount` (line 33),
`ScanSlot` (35-37), `FillSlot` (39-58), `Publish` (60), `Increment` (61) for the
dispatcher; `Take`/`Skip` (86), `Run` (88), `Reply` (90), `Release` (91),
`Decrement` (92) for a slave. The data of a slot is written only by the dispatcher
in a FREE slot and read only by the slave that has taken it (`Ownership`), so it
needs no finer steps. The atomics are the sequentially consistent ones, as in the
code. The counter starts with an arbitrary value, because the slaves are started
before it is set. `needExit` is a plain `bool`; between two reads of it there is
always an atomic access or a system call, so it is read anew each time.
A path function is one step (`Run`): it answers by itself, or returns a code, or,
for the requests in `Hanging`, never returns (`symbolicLink` on a cycle of links).

`JobPool` has one variable: the stage of each request. A request may be turned
away as busy only if the pool is full up to the number of threads that are just
leaving a slot. This is what the code keeps, and not more: between `Release` and
`Decrement` a slot is free and still counted. Requests that are still waiting
when the server stops are never answered, which `JobPool` allows (no fairness).

### FileTransfer

`state`, `blocksCount`, `cursor` (`currentCursorBlock`) and `open` (`file`) are the
members; `pos`, `size` and `handles` are what the C library keeps for the stream.
Bytes are identified by their offset in the file of the client. The offset given
to `fseek` is `((blockNum - currentCursorBlock) * FILE_BLOCK_SIZE) % WORD`, an
unsigned number, never negative. `askForBlocksRange` is one action per block with
`todo` the rest, because it is the one loop whose end is a question.
`straight`, `acked` and `disk` are history: whether the client has only gone
forward (with gaps, by less than 2^32 bytes at a time) and in whole blocks, what
has been acknowledged, and what the file holds.

Left out: the contents and MD5 sums (a block is right or refused), errors of
`fwrite`, two users that transfer the same file at the same time, and requests
that move the stream beyond `MaxPos` (named bound).

### UserList

`nodes` is the linked list; an array holds pointers, which are addresses of `Mem`, and keeps
what was written behind `count`, since `removeUser` may look there. `users` are the
objects: the pieces of memory that hold a `User` now, each with its client. `addUser` may
allocate in any free piece, also in one that a pointer behind an end still leads to.
`Hits(P, c)` is where a loop over the positions `P` finds the user of client `c`, `Passed`
what it follows before: over `Entries`, the positions in use, for `findUser`, over
`Looked`, the first `Limit` of every node, for `removeUser`. To follow a null pointer ends the
program. To follow one into freed memory may do so (by its pages, or because the remains of a user
match and are used or deleted again), or match nothing. A pointer to a living user matches
if that is the client's, wherever it stands: `Remove` then deletes the user and
takes the last entry of that node away (`Drop`), or wraps the count of a node that has none
(`DropFromNone`). `stray` is history: this has happened. After it the list has entries in use that
dangle, users that it has lost, and perhaps two for one client; the model goes on with all of
it. `broken` means that the program has used a pointer to no user, or outside an
array; nothing of what follows has a defined outcome, and the model stops. A logout is the
request of a client that is logged in; the request of one that is not is one of the other
datagrams. Memory does not run out (`addUser` needs a free piece of `Mem`).

`userControl` is called only after the server has been told to stop. The
dispatcher may then be waiting for one more datagram, which `phase` counts; it
is handled between two passes. Both threads inside the list at the same time are
not modelled: `isSearching` does not keep them apart, and no order of their
reads and writes is promised by the language.

### Lifecycle

`mpc`, `leaving`, `serverRunning` and `port` are the console, `spc` the server
thread (`"none"` when there is nothing to join), `upc`/`seconds` the control thread
and its loop variable, `slaves` the number of slaves that have not ended, `bound`
the ports this process has sockets on: `startServer` never closes one, so a second
start on the same port fails. `ControlEnds` is the test of `server.cpp:121` as it
is written. The slaves end as `IOPool` shows (`SlavesEnd`), but for the `hanging` ones: a
datagram may ask for a link to a path whose links lead in a circle, and the slave that
takes it follows them for ever (`fileControl.cpp:146`).

### LoginDB

`head`, `next` and `rec` are the list on the heap, `count` the member, of width `W`;
`cpc`/`cur`/`pos` are where the console is, `dpc`/`dcur`/`asked` where a check of the
dispatcher is. `LoginDB::remove` is three steps, because a walk can come in between:
`RemoveFirst` or `RemoveLater` unlinks a node, `Cut` clears its pointer, `Delete` runs the
destructor, which deletes the nodes behind it, too (there are none, because of
`Cut`: `ListIsExact` depends on it). `RemoveLater(temp)` unlinks the node *behind* place
`number`, as the code does, and `RemoveCrash` is the null pointer at the end. A walk that
stands on a deleted node reads freed memory (`Stray`): it finds its old contents,
nothing, or a crash.

The file is a sequence of headers (credentials and a number of folders, one byte)
and folder lines. `SaveNext` writes one login; `Die` ends the program at any step,
and of a file that was being written any prefix stays. Loading reads it back with
the code's errors: a record that is cut off crashes the program (`LoadCrash`), and
more lines than a byte counts are taken for headers (`LoseTrack`, `LoadGarbage`).

`disturbed` marks a check that met a removal (of the login it looks for, or of the
node it stands on at the moment it is cut off); these may go wrong, and
`CheckUndisturbed` is about all others. `had`, `granted`, `picked`, `saved` and `base`
are history.

### VirtualPath

A path is a sequence of what stands between its separators, a folder a sequence of
names. `Begin` strips the separator at the end and chooses the folder to begin
with; every turn of the loop of `parseChangeDir` is a step (`Up`, `UpIgnored`,
`UpBreaks`, `Stay`, `Down`), and `ChangeDir` or `GetRealFile` ends it. `touched` is
whether the second character of `newStr` is set: the code tells the root a path began
at from one it came back to, and leaves the loop in the second case, so the rest
of such a path is not read. `Meaning` is the reference: a name stays if nowhere
behind it `..` has taken it away again, counted over the whole path. `Climbs` and
`OnlySlash` name the two exceptions. The names are strings, the lengths of paths
are not modelled.

The module is about the text of a path, as `isRestrictedFolder` is, and not about where
the files are. A symbolic link is no exception of `RestrictedRefused`, but it leads
round the check: a limited user may link to the parent of a restricted folder, because the
parent is not restricted, and every path through the link has a text that lies in no
restricted folder.

### Framing and Session

`Framing` has the lengths alone: chunks of 256 bytes, the rest in blocks of 16,
and one byte that says how much was left over. `Session` sends the answers through it.

In `Session`, `user` is what `findUser` finds, `obj` the memory of the `User` objects: an
address that is no user holds anything, and what a slave reads there is chosen at
each reading (`Read`). `Receive` is the arrival of a datagram with `findUser` or
`addUser`; the `Handle...` actions are the cases of the dispatcher, with `setAesKey` in
steps (`HandleSetAes`, `KeyWritten`, `FlagSet`), since a slave may read between them.
A slave that answers reads the flag (`ReadFlag`), the key (`Encrypt`) and the address
(`SendData`), one after the other. `HandleCrash` is the end of the program and its
restart. `orphan` are the requests whose user was deleted before the answer;
`stopped` those whose client stopped encryption before, and `rekeyed` those whose client
set a key over the one in use: no line of the dispatcher refuses a `SET_AES` that comes
encrypted, and `setAesKey` rewrites the key with the flag set, so that a slave may read
half of it. `KeyIsWhole` allows a torn key for these requests only. `Data` are the requests that are
answered with data, the others get a bare code, which is never encrypted.

### FileOps

A request in a slot is a record with the program counter and the locals of its
function; each action is one system call, and between two calls any other slave may
run. The kernel is external: inodes, the walk along a path with links, and what each
call does and when it fails, as far as the code looks at it. What the code ignores
is left in: a `sendfile` that writes less, an `open` that fails although the file is there
(and a `stat_source` that nobody has set then), a `cp` that a signal has killed, a `readlink`
that does not terminate its text, a directory that `opendir` cannot open to see that it is one,
an `fread` or a `readdir` that fails, `mkdir` on what is there already. `mem` is the memory of
`data.path`: it is not cleared between requests, and `getContentDirectory` writes a
separator over the terminator (`Slash`).

Two fields of a request are history variables of the properties. `before` is the tree when a
request began, as long as nobody else has changed it since: "alone". `missed` is set (`Miss`)
when something has gone wrong that the function does not look at and goes on as if it had not.
`AnswerIsTrue` is about requests that are alone, and what it says of `symbolicLink`,
`copyFolder`, `getFileStat`, `getMD5OfFile` and `getContentDirectory` about those that have
missed nothing (`Noticed`); of `copyFile` about those whose source could be opened. What a
request that is disturbed is told may be true of no moment at all; that the files stay a
tree and that copies are whole (`TypeOK`, `CopyIsWhole`) is about these as well.

`FileOpsAssumption` says of the constants what the code relies on: every name fits into
the buffer of a listing with the least that has to be left (names have up to 255 bytes,
the buffer has 1024). `TreesAssumption` says of the folder that is served at the start
that it is a tree without hard links; no function of the code makes one. `Hopped` is how far
the kernel gets along a path, `Walk` where the path leads; `GivenUp` is a path with too
many links on the way (ELOOP). A new link may lead through itself, or be the one link
too many, and is then given up, and so may the path it is made for: `Truthful` excepts both
for `symbolicLink`. That the path is itself a link is no exception, as long as the texts of
the links were read as they are.

## 3. What the runs check

| run | result | bounds | what it shows |
|---|---|---|---|
| `io_pool` | holds | 2 slots, 2 slaves, 3 requests of which one hangs | ownership of slots, the counter, data kept, `JobPool` implemented, accepted requests answered, slaves end |
| `file_transfer` | holds | blocks of 2 bytes, 8 block numbers, files of 0, 1, 5, 6 and 17 bytes | no stream leaks, forward transfers are right, ranges end |
| `user_list` | holds | nodes of 3; 4 clients in 4 pieces of memory from the empty list; 8 others in 2 or 3 nodes, of which 3 move, in 8 pieces of memory | list and counters exact, nobody else leaves, one-node logouts work, nothing behind an end is followed in two nodes; what remains of that when pointers behind an end are followed, and match |
| `lifecycle` | holds | 3 ports (one taken), 2 slaves, 3 seconds, 3 starts | joins, the stop, when users are controlled |
| `login_db` | holds | 3 addresses, logins of 1 and 2 folders, 2 values for a byte, 2 logins in a saved list | nothing leaks, checks beside the console are right, no login loses folders, what is saved is loaded |
| `virtual_path` | holds | 2 names, paths of 4 parts, folders of depth 2 | no path leaves the base folder, each means what it says, restricted folders are refused under every name |
| `session` | holds | 2 clients, 2 addresses, 2 requests (one answered with 1020 bytes, one with a code), 2 slots, 2 slaves | answers reach their askers, with whole keys, no data in clear, lengths kept |
| `file_ops` | holds | 8 trees of at most 4 inodes, 3 names, 3 paths, 2 slots, 2 requests | copies whole, answers true, others untouched, requests end, messages fit |
| `block_order` | violated | 8 block numbers | a block asked for again is not sent |
| `silent_client` | violated | as `lifecycle` | a silent client is never timed out |
| `remove_chosen` | violated | 3 addresses | another login is removed than the chosen one |
| `lists_named` | violated | as `file_ops` | a listing of another folder than the one that is named |

Why the bounds are enough. The pool: two slots let the dispatcher scan past an
occupied one and find the pool full, two slaves race for one slot, and with three
requests a slot is used again; the third request hangs, so that the
other slave has to do all the rest. Slots and slaves beyond that repeat the same steps, and the
proofs hold for any number, the refinement included. The transfer: modulo 8 an offset
wraps after four blocks, and 17 bytes are nine blocks, one more than there are
numbers; 0, 1, 5 and 6 bytes are the empty, the short, the partly filled and the
whole last block. The list: from
empty, four clients fill one node and begin a second, in every order and with every reuse of
memory, beside `userControl`. That `removeUser` meets a pointer behind an end before it
meets the user takes a short node behind one that hides the user, so three nodes; that such a
pointer is taken for the user in a node that still has somebody takes nodes of three. As this is
too much from empty, `user_list` also starts with the list as five, seven or eight datagrams make it, and
then one client of each node comes and goes, which reaches a second node longer than the first and
both hits (in a node with somebody, and in an empty one). In these lists no time passes
(`Age`), as the users that stay quiet are there to keep their places; `userControl` starts there
only when the list is no longer exact, and then nobody logs out any more. The
lifecycle: with three starts a port that is taken, one used before and a new one all
occur.

The logins: three are a first, a middle and a last one, so every place a removal or
a walk can be at. One of the two kinds of login fits its folders into the byte, the other
one has exactly as many as make it wrap to none. The paths: four parts are enough
for a name that is taken back at the root and something behind it (`/a/../b` has four), and the user's
folder adds two. The session: the second client is the one that comes to live at the address
of the first, the second slave sends while the dispatcher and the first one go on; 1020
bytes end in a chunk that is padded to a whole one, and the proof is for every length. The files: the trees have
a file to copy over, a link to a file, to nothing, to itself and to a folder outside,
and folders with something in them; the second request is the one that comes between
two calls of the first. A listing sees names of 12 characters in messages of 45
bytes, so that a message is full after the first entry.

Symmetry is used where the members of a set run the same code and no property
names one: the four clients and their memory in `user_list`, addresses in `login_db`, clients and addresses in
`session`; never in a run with liveness.

Deadlock is checked in `login_db`, `virtual_path` and `session`, where something can always
happen. It is not checked in the others because the system may stop: the server ends, the console
leaves, or clients send nothing more.

### Fairness

* `IOPool`: weak fairness of every thread that can run (the scheduler), naps
  included since `sleep` returns. None for the arrival of datagrams, for the console,
  or for a function that hangs.
* `FileTransfer`: weak fairness of the loop over a range, which waits for nobody.
* `Lifecycle`: weak fairness of every thread but the slaves that are lost (`hanging`):
  they never see the stop, the destructor of the pool waits for them, and the console for
  the server. None for the console and for the clients, so a stop may also wait in
  `recvfrom` for ever. `StopCompletes` is stated for stops that meet neither.
* `FileOps`: `GoesOn` says of each slave that it makes its next call, unless its slot
  is free or it reads a link to itself over and over (`Spins`). This is weak fairness
  of `Slave(s)` spelled out, because deciding whether it is enabled would cost TLC most of
  its time. Nothing is assumed about requests that arrive.
* `UserList`, `LoginDB`, `VirtualPath` and `Session` state no liveness: what ends in them is a loop over
  a finite list or path, or waits for `IOPool`, which has it.

### Where the code and its documents differ

The four violation runs each show one disagreement, listed under "findings" in
PROJECT.json:

* `block_order` (`FileTransfer.cpp:118`, `FileTransfer.h:59`): a block that is asked for
  again is not sent, because the way back is computed without a sign.
* `silent_client` (`server.cpp:121`, `man.1:12`): the control thread leaves at once, and
  nobody is timed out. The same test has another side: a stop within the first second makes
  the control thread loop for ever, and the console waits for it for ever.
  `StopCompletes` therefore assumes that the control thread has ended. (Its other
  exception, a slave that is lost, is under Fairness.)
* `remove_chosen` (`LoginDB.cpp:49`, `LoginDB.h:45`): `remove(number)` removes the login
  behind the chosen one, unless the first is chosen, and crashes for the last.
* `lists_named` (`fileControl.cpp:88`, `Protocol.txt:61`): a listing opens the path that the
  remains of an earlier request complete.

Others came up while modelling. The modules have the code's side of them, and no run
is spent on them:

* `FileTransfer.cpp:107` lets the block after the last pass, where `recieveBlock` (81) and
  `Protocol.txt:18` do not; it is answered with no bytes.
* `UserList.cpp:35` takes the bound of the loop from the first node: a logout in a
  longer later node is confirmed (`Protocol.txt:32`) and not done. With three nodes pointers behind
  the end of a node are followed; one of them may lead to the client's own new `User`, which is
  then deleted through the wrong node: another user falls out of the list there, and the entry in use
  dangles, or the count of an empty node wraps to 65535. `ShortLists` says that one node is
  safe, and that two follow nothing behind an end; the other properties hold until such a hit.
* A start that fails in `bind` is shown as running (`main.cpp:61`, `man.1:16`).
* `LoginDB.h:24` promises that a failed load leaves a count of 0; the logins read before
  the failure stay. An empty list is not saved at all: the file keeps the old logins.
* `cd /` does nothing, because its only character is taken for a separator at the end.
* A copy of a folder (`Protocol.txt`, 534) copies none: `execlp` takes `-rf` for the
  name of the program, so `cp` runs without options and leaves folders out.
* `copyFile` opens with `O_CREAT` and without `O_TRUNC`: a longer target keeps its end.
* `copyFile` does not look at the descriptors: a source that cannot be opened, or is not there,
  leaves an empty target and a size that was never set, and with -1 the copy is answered as done
  (`fileControl.cpp:173-177`).
* `copyFolder` takes `WEXITSTATUS` without `WIFEXITED`: a `cp` that a signal has killed is
  answered as done, with a part of the copy or none (`fileControl.cpp:286`).
* `createDirectory` is answered with success for anything that is there, a file as well.
* A digest or a listing whose last read fails is that of a part, and is answered as done; a
  folder that `opendir` cannot open is listed as a file (`fileControl.cpp:63`, 106, 232).
* `symbolicLink` makes a link to something else if bytes left over on the stack follow the
  text that `readlink` has read (`fileControl.cpp:146`).
* The MD5 sum of a folder is that of no bytes.
* `symbolicLink` follows links for ever if they lead in a circle, and two ordinary requests
  can lay one (`RequestEnds` names the exception).

## 4. What is proved

All proofs are for every value of the constants that satisfies the assumption of
the module (a positive number of slots, and so on; finite sets only where a
cardinality is taken).

* **IOPoolProofs** (`TypeCorrect`, `OwnershipHolds`, `CountIsExact`,
  `ScanFindsSlot`, `RequestIsKept`). The inductive invariant joins ownership, the
  counter and the free slot ahead. The counter needs the steps under way:
  `count`, plus one between `Publish` and `Increment`, is the number of occupied slots plus
  the number of slaves between `Release` and `Decrement`. From this follows that
  `count # N` leaves a free slot; only the dispatcher fills slots, so it stays ahead
  of the scan. `RequestKept` follows from ownership: a slot is filled only while it is
  FREE.
* **FileTransferProofs** (`TypeCorrect`, `HandlesAreAccounted`,
  `ForwardTransfersAreRight`, `ForwardUploadsAreIntact`). The strengthening says
  where the stream is in a transfer that only went forward: at `cursor * B`, or, for
  a download, at the end of the file; a step forward of less than `WORD` bytes keeps
  this although it is computed modulo `WORD`.
* **UserListProofs** (`TypeCorrect`, `ListStaysExact`,
  `ShortListsAreSafe`, `NobodyElseIsRemoved`). `Entries` is the set of positions in
  use. `AddEffect` and `DropEffect` say what the two operations do to it: one new
  position, or one position less with its user moved into the gap, also if the gap is behind the
  end. The counters follow by counting positions, whatever has happened to the list. That it is exact is
  kept until a hit behind an end (`DropExact`). `ShortLooks` is the argument for short
  lists: what lies behind an end is in the second node, so the entry in use comes first.
* **LifecycleProofs** (`TypeCorrect`, `ThreadsAreJoined`, `ControlNeedsStop`,
  `StopStays`). The strengthening relates the program counters of the threads: who can
  still run when the server thread is where.
* **IOPoolProofs**, the refinement (`PoolIsJobPool`). `PlaceInv` adds to the invariant above
  that a request is in one place at a time: in the dispatcher's hands, in
  one slot that is not FREE, or done, and that it has no answer before its slave
  gives one. The mapping `Stages` reads the stage of a request off this
  place. Busy is the delicate step: `JobPool` allows it only if the requests that are held fill the
  pool up to the slaves that are leaving; the held requests and the
  occupied slots are in bijection, so the exact counter gives just that.
* **LoginDBProofs** (`ListStaysExact`, `FoldersStay`, `PointersStay`, `ChecksStayRight`).
  What is reached along pointers is the least closed set (`Reach`), so the lemmas about it
  need no induction: taking a node out of a list without cycles, in which no two nodes
  point to the same one, takes it out of everything that is reached, and
  pointers off the way do not matter. `ListInv` has this shape and where the console's
  pointer may stand: between unlinking and cutting, the removed node still points into
  the list. `WalkInv` says that an undisturbed walk stands in the list or on that
  node, and that what it looked for is ahead of it exactly if it was there at the
  start. `FileInv` says that each header in the file has the number of folders of its login, as
  far as a byte goes, whichever part of the file is left.
* **LoginDBProofs** (`SavesAreRestored`, the property `SaveRestores`). The place of a node is counted, not walked to, so the
  list is a sequence without an induction: the places of the nodes are all different and
  fill `1..Length`, the next node has the next place, and a new head moves all places by one
  (`Places`, `OrderNext`, `OrderAdded`). `Laid` says that the records of a list stand in the
  file one behind the other. The inductive `SaveInv` says that while a list is saved the
  file holds the logins before the one at hand, afterwards the whole list, and while it is
  loaded the list is the logins read so far, turned round, before the ones it had.
* **VirtualPathProofs** (`PathsStayInside`, `PathsMeanWhatTheySay`,
  `RestrictedUnderEveryName`): no part of `newStr` is ever `.`, `..` or empty, for paths of any
  length. The turns of the loop take the place of an induction over the path: `ReadInv` says
  that `newStr` is the meaning of the parts read so far, or that the loop was left at the
  root. One more part changes the meaning, which is defined by counting, as the turn
  changes `newStr`; `..` takes away the last name that is left because of `Balanced`: from a
  name that is left to the end, the names minus the `..` are as many as the names that are
  left there. A restricted folder is refused exactly if it is a beginning of the meaning.
* **SessionProofs** (`TypeCorrect`, `LoginsAreOwn`, `AnswersReachTheirAsker`, `KeysAreWhole`,
  `SecretsStaySecret`, `LengthsAreKept`). `UserInv`: addresses of live users differ, each object
  is the one of its client, a flag that is set has a whole key behind it,
  unless the dispatcher is rewriting it; the requests that wait then are in `rekeyed`
  (`RekeyIsKnown`). `RequestInv`: the
  user of a request that is no orphan is live and its asker's, and what a slave
  has read of it so far is still what it should send.

* **FileOpsProofs** (`FilesAreWellFormed`, `CopiesAreWhole`). The inductive invariant
  `OpsInv` has three parts. `Sound`: the directories form a tree, a removed directory is
  empty, what has a name is there. What is not free has a name or a descriptor, and the
  other way round; a system call ends with `Kept`, which deletes what has neither. And
  `JobType` and `CopyInv` of each slot: the locals that the next call relies on. A call of
  one slave changes nothing of what another has open, but for what it writes, which
  `spoilt` records (`JobStable`); so one lemma per call is enough, and `CallKeeps`
  does the rest. A copy whose source was not opened, or whose `cp` was killed, is excepted.
* **FileOpsProofs** (`OthersAreKept`, `AnswersAreTrue`). `AloneInv` says of a request that
  nobody disturbs how the files have come from those it found (`Near`: only files it
  is meant to change differ; for a removal, what is there is left of what was there, and
  the list holds only what lies in the folder), what it knows so far (`Knows`: what it has
  read is the beginning of the file, what it has listed and what is still to come are the
  whole listing), and that its answer is so when it is done. Paths need facts about walks in
  two trees. A walk takes a bounded number of hops, so what a hop keeps holds at the end
  (`Hopping`). In what is left of a tree a path leads where it led or nowhere (`ShrunkWalk`);
  behind a folder's path with a name is what the folder has under that name
  (`WalkAppend`), which with links between is not obvious; a path to a free place leads to the
  directory that is made there (`MadeThere`). For a new link two walks are followed hop by
  hop (`Together`): along the path that is linked, before, and along the link, after. They stay
  in step, unless the path itself passes the place of the new link; then the walk comes
  back to where it has been with as much before it, goes round, and is given up
  (`LinkLeads`). A copy under way keeps its source as it was and its target where the path
  leads (`Copying`): opening and writing lose no names, so a call leaves exactly the files it
  has made (`CallExact`), and paths lead where they led (`WalkSame`).

Every safety invariant and action property of the passing runs is a theorem. Only model-checked
are the liveness properties (`AcceptedIsAnswered`, `SlavesEnd`, `RangeEnds`, `StopCompletes`,
`RequestEnds`: the prover does not reach fairness), and of course what the violation runs show.

## 5. Not modelled, and the plan

Done: the pool with its abstract specification, transfers, the user list, the
lifecycle; then the login database, paths, framing, sessions and file operations;
proofs about all of them. What is left, in this order:

1. A composition of `FileOps` with `FileTransfer`: an upload and a path request on one file.
2. `UserList`: a datagram handled while `userControl` is inside a pass. There is at
   most one such datagram, after a stop.
3. `VirtualPath`: overlong paths (`strcpy` into buffers of a fixed size), and paths
   that name the base folder itself as the target of a file operation.

Not planned:

* `UserList::print` and `LoginDB::print`: they only read. What they can meet while the
  dispatcher writes is a data race on plain memory, without defined outcomes.
* The destructors that run when the program ends.
* The base folder, the command line and the key files
  (`main.cpp`): read before the server is started, or between two starts.
* The ciphers and hashes (OpenSSL), and an `execlp` that fails: the child of `copyFolder` would
  go on as a second slave of a copied process. That `cp` can be started is an assumption.
* The Windows branches of the preprocessor, the texts of the menus, the Makefile.
