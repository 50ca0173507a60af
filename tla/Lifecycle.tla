----------------------------- MODULE Lifecycle -----------------------------
(***************************************************************************)
(* Starting and stopping the server (main.cpp, and the frame of            *)
(* startServer in server.cpp): the console thread, the thread that runs    *)
(* startServer, the userControl thread and the slaves it starts.  They     *)
(* share the flag needExit; the console waits for the server thread, which *)
(* waits for userControl and then, in the destructor of the I/O pool, for  *)
(* the slaves.                                                             *)
(***************************************************************************)
EXTENDS Integers

CONSTANTS Ports,      \* the ports the console may configure
          Taken,      \* those on which another program listens
          Threads,    \* IO_THREADS_COUNT
          Wait,       \* WAIT_SECONDS
          MaxStarts   \* bound: how often the server is started

ASSUME LifecycleAssumption ==
    /\ Taken \subseteq Ports
    /\ Threads \in Nat
    /\ Wait \in Nat \ {0}
    /\ MaxStarts \in Nat

VARIABLES
    mpc,           \* the console: at the menu, joining the server thread, or gone
    leaving,       \* `exit': the console leaves once the server has stopped
    serverRunning, \* what the menu shows
    needExit,
    port,
    bound,         \* the ports this process has sockets on: none is ever closed
    starts,        \* how often the server was started
    spc,           \* the server thread; "none" if there is nothing to join
    upc,           \* the userControl thread
    seconds,       \* its variable i
    slaves,        \* the slaves that have not ended
    hanging,       \* those of them that never will: lost in symbolicLink on a cycle of links
    clients        \* "none"; connected; or silent for longer than any timeout

console == <<mpc, leaving, serverRunning, port>>
server  == <<bound, starts, spc>>
control == <<upc, seconds>>
pool    == <<slaves, hanging>>
vars    == <<console, needExit, server, control, pool, clients>>

Init ==
    /\ mpc = "menu" /\ leaving = FALSE /\ serverRunning = FALSE
    /\ needExit = FALSE
    /\ port \in Ports
    /\ bound = {} /\ starts = 0
    /\ spc = "none" /\ upc = "none" /\ seconds = 0 /\ slaves = 0 /\ hanging = 0
    /\ clients = "none"

-----------------------------------------------------------------------------
(* The console.                                                            *)

\* startServerThread; it reports success as soon as the thread exists. When
\* the base folder is missing and cannot be made it returns before any of this: no step.
Start ==
    /\ mpc = "menu" /\ ~serverRunning /\ starts < MaxStarts
    /\ needExit' = FALSE
    /\ spc' = "init"
    /\ serverRunning' = TRUE
    /\ starts' = starts + 1
    /\ UNCHANGED <<mpc, leaving, port, bound, control, pool, clients>>

\* Mutant: the console does not wait for the server thread.
StopDetached ==
    /\ mpc = "menu" /\ serverRunning
    /\ needExit' = TRUE
    /\ serverRunning' = FALSE
    /\ UNCHANGED <<mpc, leaving, port, server, control, pool, clients>>

\* stopServer, from the choice "stop server" or from "exit".
Stop ==
    /\ mpc = "menu" /\ serverRunning
    /\ needExit' = TRUE
    /\ mpc' = "joining"
    /\ leaving' \in BOOLEAN
    /\ UNCHANGED <<serverRunning, port, server, control, pool, clients>>

\* serverThread.join() returns.
Joined ==
    /\ mpc = "joining" /\ spc = "ended"
    /\ spc' = "none"
    /\ serverRunning' = FALSE
    /\ mpc' = IF leaving THEN "gone" ELSE "menu"
    /\ UNCHANGED <<leaving, needExit, port, bound, starts, control, pool, clients>>

\* "exit" when no server runs.
Leave ==
    /\ mpc = "menu" /\ ~serverRunning
    /\ mpc' = "gone"
    /\ UNCHANGED <<leaving, serverRunning, needExit, port, server, control, pool, clients>>

\* The port can be changed only while the server is shown as stopped.
ChangePort ==
    /\ mpc = "menu" /\ ~serverRunning
    /\ port' \in Ports \ {port}
    /\ UNCHANGED <<mpc, leaving, serverRunning, needExit, server, control, pool, clients>>

-----------------------------------------------------------------------------
(* startServer.                                                            *)

\* initServer fails: nobody tells the console.
InitFails ==
    /\ spc = "init"
    /\ port \in Taken \union bound
    /\ spc' = "ended"
    /\ UNCHANGED <<console, needExit, bound, starts, control, pool, clients>>

\* It succeeds; the slaves and userControl are started.
InitServer ==
    /\ spc = "init"
    /\ port \notin Taken \union bound
    /\ bound' = bound \union {port}
    /\ slaves' = Threads
    /\ upc' = "sleep" /\ seconds' = Wait
    /\ spc' = "loop"
    /\ UNCHANGED <<console, needExit, starts, hanging, clients>>

\* Mutant: needExit is read once, as if nobody else could change it.
LoopCached ==
    /\ spc = "loop"
    /\ spc' = "recv"
    /\ UNCHANGED <<console, needExit, bound, starts, control, pool, clients>>

\* while(!needExit)
Loop ==
    /\ spc = "loop"
    /\ spc' = IF needExit THEN "joinControl" ELSE "recv"
    /\ UNCHANGED <<console, needExit, bound, starts, control, pool, clients>>

\* recvfrom returns: it waits for a datagram, not for needExit. The datagram may ask for a
\* link to a path whose links lead in a circle: a slave that takes it follows them for ever.
Datagram ==
    /\ spc = "recv"
    /\ spc' = "loop"
    /\ clients' = "connected"
    /\ hanging' \in {hanging, hanging + 1} /\ hanging' <= slaves
    /\ UNCHANGED <<console, needExit, bound, starts, control, slaves>>

\* Mutant: the control thread is detached.
JoinControlDetached ==
    /\ spc = "joinControl"
    /\ spc' = "joinSlaves"
    /\ UNCHANGED <<console, needExit, bound, starts, control, pool, clients>>

\* userControlThread.join()
JoinControl ==
    /\ spc = "joinControl" /\ upc = "ended"
    /\ spc' = "joinSlaves" /\ upc' = "none"
    /\ UNCHANGED <<console, needExit, bound, starts, seconds, pool, clients>>

\* The destructor of the pool; startServer returns, the socket stays open.
JoinSlaves ==
    /\ spc = "joinSlaves" /\ slaves = 0
    /\ spc' = "ended"
    /\ UNCHANGED <<console, needExit, bound, starts, control, pool, clients>>

ServerStep == InitFails \/ InitServer \/ Loop \/ JoinControl \/ JoinSlaves

-----------------------------------------------------------------------------
(* userControl, the slaves and the clients.                                *)

\* Mutant: no test at all.
ControlNeverEnds == FALSE

\* The test after SLEEP(1): as in the code, the thread leaves if needExit is not set.
ControlEnds == ~needExit

\* Mutant: the loop over the seconds makes one turn too many.
SecondPast ==
    /\ upc = "sleep"
    /\ IF ControlEnds
       THEN upc' = "ended" /\ UNCHANGED seconds
       ELSE /\ seconds' = seconds - 1
            /\ upc' = IF seconds = 0 THEN "control" ELSE "sleep"
    /\ UNCHANGED <<console, needExit, server, pool, clients>>

\* One turn of the loop over the seconds; after the last the users are controlled.
Second ==
    /\ upc = "sleep"
    /\ IF ControlEnds
       THEN upc' = "ended" /\ UNCHANGED seconds
       ELSE /\ seconds' = seconds - 1
            /\ upc' = IF seconds = 1 THEN "control" ELSE "sleep"
    /\ UNCHANGED <<console, needExit, server, pool, clients>>

\* listUsers->userControl(): clients that have been silent are timed out.
Control ==
    /\ upc = "control"
    /\ clients' = IF clients = "silent" THEN "none" ELSE clients
    /\ upc' = "sleep" /\ seconds' = Wait
    /\ UNCHANGED <<console, needExit, server, pool>>

ControlStep == Second \/ Control

\* A slave that is not lost sees needExit (IOPool: SlavesEnd).
SlaveEnds ==
    /\ slaves > hanging /\ needExit
    /\ slaves' = slaves - 1
    /\ UNCHANGED <<console, needExit, server, control, hanging, clients>>

\* The clients stop sending; the list of the users outlives the server.
FallSilent ==
    /\ clients = "connected"
    /\ clients' = "silent"
    /\ UNCHANGED <<console, needExit, server, control, pool>>

-----------------------------------------------------------------------------
Next == \/ Start \/ Stop \/ Joined \/ Leave \/ ChangePort
        \/ ServerStep \/ Datagram \/ ControlStep \/ SlaveEnds \/ FallSilent

Spec == Init /\ [][Next]_vars

\* Threads run when they can; a slave that is lost never ends.  Nothing is assumed of the
\* console and the clients.
FairSpec == /\ Spec
            /\ WF_vars(Joined) /\ WF_vars(ServerStep)
            /\ WF_vars(ControlStep) /\ WF_vars(SlaveEnds)

-----------------------------------------------------------------------------
\* Every variable keeps its type.
TypeOK ==
    /\ mpc \in {"menu", "joining", "gone"}
    /\ leaving \in BOOLEAN /\ serverRunning \in BOOLEAN /\ needExit \in BOOLEAN
    /\ port \in Ports /\ bound \subseteq Ports
    /\ starts \in 0..MaxStarts
    /\ spc \in {"none", "init", "loop", "recv", "joinControl", "joinSlaves", "ended"}
    /\ upc \in {"none", "sleep", "control", "ended"}
    /\ seconds \in 0..Wait
    /\ slaves \in 0..Threads /\ hanging \in 0..slaves
    /\ clients \in {"none", "connected", "silent"}

\* The console starts a server only over a thread that has been joined (assigning to
\* one that has not would end the program), and no thread of a server outlives it:
\* the slaves are gone before the pool, the control thread before the server returns.
NoThreadOutlives ==
    /\ (spc # "none") = serverRunning
    /\ spc \in {"none", "init", "ended"} => upc = "none" /\ slaves = 0
    /\ spc = "joinSlaves" => upc = "none"

\* A stop is never taken back while a thread that has to see it is still there.
StopIsFinal ==
    [][needExit /\ ~needExit' => spc = "none" /\ upc = "none" /\ slaves = 0]_vars

\* userControl() is called only after needExit was set, when startServer handles at
\* most the datagram it waits for: this is what UserList builds on.
ControlIsLate == upc = "control" => needExit /\ mpc = "joining"

\* Once the control thread has ended, which it does after a second without a stop, a
\* stop gets to its end with the next datagram, unless a slave is lost in symbolicLink
\* (fileControl.cpp:146): the destructor of the pool waits for it, and the console with it.
StopCompletes ==
    mpc = "joining" /\ upc = "ended" /\ spc # "recv" ~> mpc # "joining" \/ hanging > 0

-----------------------------------------------------------------------------
(* What the documentation says, and the code does not do.                  *)

\* "the server saves client's connection data until the connection is closed or
\* timed-out" (man.1:12).
SilentTimedOut == clients = "silent" ~> clients # "silent" \/ needExit
=============================================================================
