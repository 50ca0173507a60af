------------------------------- MODULE IOPool -------------------------------
(***************************************************************************)
(* IOThreadPool (IOThreadPool.cpp, IOThreadPool.h): the dispatcher thread  *)
(* (the one that runs startServer) puts the path requests of the clients   *)
(* into an array of slots, the slave threads take them out and run them.   *)
(*                                                                         *)
(* The two sides share no lock.  They meet in the atomic state of each     *)
(* slot and in the atomic counter `count', which are two different words:  *)
(* every access to one of them is a step of its own here, so that all      *)
(* interleavings of the dispatcher and the slaves are considered.          *)
(***************************************************************************)
EXTENDS Integers, FiniteSets, Sequences

CONSTANTS N,        \* IO_DATA_SIZE: the number of slots
          Slaves,   \* the slave threads (IO_THREADS_COUNT of them)
          Jobs,     \* the path requests the clients send
          NoJob,    \* the contents of a slot nothing was ever written to
          Hanging   \* the requests whose function never returns

ASSUME IOPoolAssumption ==
    /\ N \in Nat \ {0}
    /\ IsFiniteSet(Slaves)
    /\ Slaves # {}
    /\ NoJob \notin Jobs
    /\ Hanging \subseteq Jobs

VARIABLES
    state,    \* state[s]: data[s].state
    data,     \* data[s]: user, function and paths written to slot s
    count,    \* the atomic counter the busy test and the naps look at
    needExit, \* set by the console thread to stop the server
    dpc,      \* where the dispatcher is
    dslot,    \* currAdd, the slot the dispatcher looks at
    djob,     \* the request addPathFunction was called with
    wpc,      \* where each slave is
    wslot,    \* currManaged, the slot each slave looks at
    found,    \* the local `found' of each slave
    asked,    \* the requests that have arrived
    outbox    \* outbox[j]: the final answers sent for request j

shared     == <<state, data, count, needExit>>
dispatcher == <<dpc, dslot, djob>>
slaves     == <<wpc, wslot, found>>
history    == <<asked, outbox>>
vars       == <<shared, dispatcher, slaves, history>>

Slot      == 1..N
SlotState == {"FREE", "WAITING", "CONTROLED"}
DState    == {"ctor", "loop", "recv", "check", "scan", "fill", "publish",
              "inc", "join", "gone"}
WState    == {"loop", "nap", "scan", "run", "reply", "free", "dec", "exit"}
Codes     == {"SERVER_BUSY", "ERROR_OCCURED", "RESULT"}

Send(j, code) == outbox' = [outbox EXCEPT ![j] = Append(@, code)]

\* `count' is written only after the slaves have been started (line 20): until
\* then they read what was in memory, of which line 77 only tells 0 from the rest.
UninitialisedCount == {0, 1}

Init ==
    /\ state = [s \in Slot |-> "FREE"]
    /\ data = [s \in Slot |-> NoJob]
    /\ count \in UninitialisedCount
    /\ needExit = FALSE
    /\ dpc = "ctor"
    /\ dslot = 1
    /\ djob = NoJob
    /\ wpc = [w \in Slaves |-> "loop"]
    /\ wslot = [w \in Slaves |-> 1]
    /\ found = [w \in Slaves |-> TRUE]
    /\ asked = {}
    /\ outbox = [j \in Jobs |-> <<>>]

-----------------------------------------------------------------------------
(* The dispatcher: the constructor, addPathFunction and the destructor.    *)

\* Mutant: the constructor forgets to set the counter.
ConstructUncounted ==
    /\ dpc = "ctor"
    /\ dpc' = "loop"
    /\ UNCHANGED <<shared, dslot, djob, slaves, history>>

Construct ==
    /\ dpc = "ctor"
    /\ count' = 0
    /\ dpc' = "loop"
    /\ UNCHANGED <<state, data, needExit, dslot, djob, slaves, history>>

\* while(!needExit): leaving the loop runs the destructor, which joins the slaves.
DLoop ==
    /\ dpc = "loop"
    /\ dpc' = IF needExit THEN "join" ELSE "recv"
    /\ UNCHANGED <<shared, dslot, djob, slaves, history>>

\* A datagram arrives that is not a path request, or one that is refused
\* before it gets to the pool.
ReceiveOther ==
    /\ dpc = "recv"
    /\ dpc' = "loop"
    /\ UNCHANGED <<shared, dslot, djob, slaves, history>>

ReceiveJob(j) ==
    /\ dpc = "recv"
    /\ j \notin asked
    /\ asked' = asked \union {j}
    /\ djob' = j
    /\ dpc' = "check"
    /\ UNCHANGED <<shared, dslot, slaves, outbox>>

\* if (this->count != IO_DATA_SIZE)
CheckCount ==
    /\ dpc = "check"
    /\ dslot' = 1
    /\ IF count # N
       THEN dpc' = "scan" /\ UNCHANGED outbox
       ELSE dpc' = "loop" /\ Send(djob, "SERVER_BUSY")
    /\ UNCHANGED <<shared, djob, slaves, asked>>

\* Mutant: a slot that only waits is taken for an empty one.
ScanIdleSlot ==
    /\ dpc = "scan"
    /\ IF state[dslot] # "CONTROLED" THEN dpc' = "fill" /\ UNCHANGED <<dslot, outbox>>
       ELSE IF dslot < N THEN dslot' = dslot + 1 /\ UNCHANGED <<dpc, outbox>>
       ELSE dpc' = "loop" /\ Send(djob, "SERVER_BUSY") /\ UNCHANGED dslot
    /\ UNCHANGED <<shared, djob, slaves, asked>>

\* One turn of the loop over the slots; past the last one the answer is "busy".
ScanSlot ==
    /\ dpc = "scan"
    /\ IF state[dslot] = "FREE" THEN dpc' = "fill" /\ UNCHANGED <<dslot, outbox>>
       ELSE IF dslot < N THEN dslot' = dslot + 1 /\ UNCHANGED <<dpc, outbox>>
       ELSE dpc' = "loop" /\ Send(djob, "SERVER_BUSY") /\ UNCHANGED dslot
    /\ UNCHANGED <<shared, djob, slaves, asked>>

\* function and user are written before the paths are resolved, so a refused
\* path leaves a FREE slot with the remains of the request in it.
FillSlot ==
    /\ dpc = "fill"
    /\ data' = [data EXCEPT ![dslot] = djob]
    /\ \/ dpc' = "publish" /\ UNCHANGED outbox
       \/ dpc' = "loop" /\ Send(djob, "ERROR_OCCURED")
    /\ UNCHANGED <<state, count, needExit, dslot, djob, slaves, asked>>

Publish ==
    /\ dpc = "publish"
    /\ state' = [state EXCEPT ![dslot] = "WAITING"]
    /\ dpc' = "inc"
    /\ UNCHANGED <<data, count, needExit, dslot, djob, slaves, history>>

\* Mutant: the request is published but not counted.
IncrementLost ==
    /\ dpc = "inc"
    /\ dpc' = "loop"
    /\ UNCHANGED <<shared, dslot, djob, slaves, history>>

Increment ==
    /\ dpc = "inc"
    /\ count' = count + 1
    /\ dpc' = "loop"
    /\ UNCHANGED <<state, data, needExit, dslot, djob, slaves, history>>

Join ==
    /\ dpc = "join"
    /\ \A w \in Slaves : wpc[w] = "exit"
    /\ dpc' = "gone"
    /\ UNCHANGED <<shared, dslot, djob, slaves, history>>

\* The steps of the dispatcher that wait for nobody.
DispatcherStep == \/ Construct \/ DLoop \/ CheckCount \/ ScanSlot \/ FillSlot
                  \/ Publish \/ Increment

-----------------------------------------------------------------------------
(* A slave: slaveThread.                                                   *)

Goto(w, label) == wpc' = [wpc EXCEPT ![w] = label]

\* Mutant: a slave does not leave before all the slots are empty.
ExitWhenEmpty(w) ==
    /\ wpc[w] = "loop"
    /\ needExit /\ count = 0
    /\ Goto(w, "exit")
    /\ UNCHANGED <<shared, dispatcher, wslot, found, history>>

\* while (!needExit)
Exit(w) ==
    /\ wpc[w] = "loop"
    /\ needExit
    /\ Goto(w, "exit")
    /\ UNCHANGED <<shared, dispatcher, wslot, found, history>>

\* currManaged = this->data: a pass over the slots begins.
StartPass(w) ==
    /\ Goto(w, "scan")
    /\ wslot' = [wslot EXCEPT ![w] = 1]
    /\ found' = [found EXCEPT ![w] = FALSE]
    /\ UNCHANGED <<shared, dispatcher, history>>

\* The test before SLEEP(1): a slave that found work goes on without a nap, as
\* long as the counter says there is more.
Idle(w) == ~found[w] \/ count = 0

GoOn(w) ==
    /\ wpc[w] = "loop"
    /\ ~needExit /\ ~Idle(w)
    /\ StartPass(w)

Doze(w) ==
    /\ wpc[w] = "loop"
    /\ ~needExit /\ Idle(w)
    /\ Goto(w, "nap")
    /\ UNCHANGED <<shared, dispatcher, wslot, found, history>>

Wake(w) ==
    /\ wpc[w] = "nap"
    /\ StartPass(w)

\* Mutant: the pass over the slots goes one past the end.
NextSlotPastEnd(w) ==
    IF wslot[w] <= N
    THEN Goto(w, "scan") /\ wslot' = [wslot EXCEPT ![w] = @ + 1]
    ELSE Goto(w, "loop") /\ UNCHANGED wslot

\* Mutant: the pass over the slots ends before the last one.
NextSlotShort(w) ==
    IF wslot[w] < N - 1
    THEN Goto(w, "scan") /\ wslot' = [wslot EXCEPT ![w] = @ + 1]
    ELSE Goto(w, "loop") /\ UNCHANGED wslot

\* ++currManaged, and the end of the pass.
NextSlot(w) ==
    IF wslot[w] < N
    THEN Goto(w, "scan") /\ wslot' = [wslot EXCEPT ![w] = @ + 1]
    ELSE Goto(w, "loop") /\ UNCHANGED wslot

\* The compare-and-exchange WAITING -> CONTROLED fails.
Skip(w) ==
    /\ wpc[w] = "scan"
    /\ state[wslot[w]] # "WAITING"
    /\ NextSlot(w)
    /\ UNCHANGED <<shared, dispatcher, found, history>>

\* Mutant: the exchange only looks whether the slot is occupied.
TakeOccupied(w) ==
    /\ wpc[w] = "scan"
    /\ state[wslot[w]] # "FREE"
    /\ state' = [state EXCEPT ![wslot[w]] = "CONTROLED"]
    /\ Goto(w, "run")
    /\ UNCHANGED <<data, count, needExit, dispatcher, wslot, found, history>>

\* It succeeds.
Take(w) ==
    /\ wpc[w] = "scan"
    /\ state[wslot[w]] = "WAITING"
    /\ state' = [state EXCEPT ![wslot[w]] = "CONTROLED"]
    /\ Goto(w, "run")
    /\ UNCHANGED <<data, count, needExit, dispatcher, wslot, found, history>>

\* Mutant: the function answers itself and returns a code as well.
RunAnswersToo(w) ==
    LET job == data[wslot[w]] IN
    /\ wpc[w] = "run"
    /\ job \notin Hanging
    /\ Goto(w, "reply")
    /\ Send(job, "RESULT")
    /\ UNCHANGED <<shared, dispatcher, wslot, found, asked>>

\* The function of the request runs.  It answers itself and returns -1, or
\* it returns the code to answer with.  A hanging one does neither.
Run(w) ==
    LET job == data[wslot[w]] IN
    /\ wpc[w] = "run"
    /\ job \notin Hanging
    /\ \/ Goto(w, "free") /\ Send(job, "RESULT")
       \/ Goto(w, "reply") /\ UNCHANGED outbox
    /\ UNCHANGED <<shared, dispatcher, wslot, found, asked>>

Reply(w) ==
    /\ wpc[w] = "reply"
    /\ Send(data[wslot[w]], "RESULT")
    /\ Goto(w, "free")
    /\ UNCHANGED <<shared, dispatcher, wslot, found, asked>>

\* Mutant: the slot is given back as one that waits.
ReleaseWaiting(w) ==
    /\ wpc[w] = "free"
    /\ state' = [state EXCEPT ![wslot[w]] = "WAITING"]
    /\ Goto(w, "dec")
    /\ UNCHANGED <<data, count, needExit, dispatcher, wslot, found, history>>

Release(w) ==
    /\ wpc[w] = "free"
    /\ state' = [state EXCEPT ![wslot[w]] = "FREE"]
    /\ Goto(w, "dec")
    /\ UNCHANGED <<data, count, needExit, dispatcher, wslot, found, history>>

Decrement(w) ==
    /\ wpc[w] = "dec"
    /\ count' = count - 1
    /\ found' = [found EXCEPT ![w] = TRUE]
    /\ NextSlot(w)
    /\ UNCHANGED <<state, data, needExit, dispatcher, history>>

SlaveStep(w) == \/ Exit(w) \/ GoOn(w) \/ Doze(w) \/ Wake(w) \/ Skip(w) \/ Take(w)
                \/ Run(w) \/ Reply(w) \/ Release(w) \/ Decrement(w)

-----------------------------------------------------------------------------

\* stopServer, in the console thread, at any time.
Stop ==
    /\ ~needExit
    /\ needExit' = TRUE
    /\ UNCHANGED <<state, data, count, dispatcher, slaves, history>>

Next == \/ DispatcherStep \/ ReceiveOther \/ (\E j \in Jobs : ReceiveJob(j))
        \/ Join \/ (\E w \in Slaves : SlaveStep(w)) \/ Stop

Spec == Init /\ [][Next]_vars

\* The operating system runs every thread that can run, and a nap ends.  No
\* fairness for the arrival of datagrams, for the console, or for a function
\* that hangs (Run is not enabled for it).
FairSpec == /\ Spec
            /\ WF_vars(DispatcherStep)
            /\ WF_vars(Join)
            /\ \A w \in Slaves : WF_vars(SlaveStep(w))

-----------------------------------------------------------------------------
\* Every variable keeps its type: the walks over the slots stay inside the array
\* (currAdd and currManaged never reach `end' inside a loop body).
TypeOK ==
    /\ state \in [Slot -> SlotState]
    /\ data \in [Slot -> Jobs \union {NoJob}]
    /\ count \in Int
    /\ needExit \in BOOLEAN
    /\ dpc \in DState
    /\ dslot \in Slot
    /\ djob \in Jobs \union {NoJob}
    /\ wpc \in [Slaves -> WState]
    /\ wslot \in [Slaves -> Slot]
    /\ found \in [Slaves -> BOOLEAN]
    /\ asked \in SUBSET Jobs
    /\ outbox \in [Jobs -> Seq(Codes)]

Occupied  == {s \in Slot : state[s] # "FREE"}
Leaving   == {w \in Slaves : wpc[w] = "dec"}
Holds(w)  == wpc[w] \in {"run", "reply", "free"}
Adding    == dpc \in {"scan", "fill", "publish", "inc"}

\* A slot is being run exactly when one slave holds it, and by that one alone;
\* the slot the dispatcher writes to belongs to nobody.
Ownership ==
    /\ \A w \in Slaves : Holds(w) => state[wslot[w]] = "CONTROLED"
    /\ \A v, w \in Slaves : Holds(v) /\ Holds(w) /\ wslot[v] = wslot[w] => v = w
    /\ \A s \in Slot : state[s] = "CONTROLED" => \E w \in Slaves : Holds(w) /\ wslot[w] = s
    /\ dpc \in {"fill", "publish"} => state[dslot] = "FREE"

\* The counter and the slots agree up to what is under way: a slot published
\* but not yet counted, slots emptied but not yet discounted.  The counter never
\* exceeds the array, and it leaves room as long as a request is being added.
CountAccounts ==
    /\ dpc # "ctor" =>
          /\ count + (IF dpc = "inc" THEN 1 ELSE 0) = Cardinality(Occupied) + Cardinality(Leaving)
          /\ count <= N
    /\ dpc = "ctor" => Occupied = {} /\ Leaving = {}
    /\ Adding => count < N

\* Once the busy test has passed, a free slot lies ahead of the dispatcher: the
\* "busy" after the loop (line 66 reached from line 34) is never sent.
FreeSlotAhead == dpc = "scan" => \E s \in dslot..N : state[s] = "FREE"

\* Request j waits in a slot; it is in the hands of a slave.
Waiting(j) == \E s \in Slot : data[s] = j /\ state[s] = "WAITING"
InHand(j)  == \E s \in Slot : data[s] = j /\ state[s] = "CONTROLED"

\* What a slot holds is not overwritten before the slot has been freed (the
\* comment of FREE in IOThreadPool.h).
RequestKept ==
    [][\A s \in Slot : state[s] # "FREE" => data'[s] = data[s]]_vars

-----------------------------------------------------------------------------
(* The pool implements JobPool.                                            *)

Outcome == [SERVER_BUSY |-> "busy", ERROR_OCCURED |-> "rejected", RESULT |-> "finished"]

StageOf(j) ==
    IF Waiting(j) THEN "queued"
    ELSE IF InHand(j) THEN "running"
    ELSE IF outbox[j] = <<>> THEN "new"
    ELSE IF Len(outbox[j]) = 1 THEN Outcome[outbox[j][1]]
    ELSE "answered twice"

Stages == [j \in Jobs |-> StageOf(j)]

Abstract == INSTANCE JobPool WITH Capacity <- N, Threads <- Cardinality(Slaves),
                                  stage <- Stages

\* addPathFunction and slaveThread together do what JobPool promises: a request is
\* refused or run once, gets one answer, after its function has run or when it is refused,
\* and is never turned away while there is clearly room.
ImplementsJobPool == Abstract!Spec

-----------------------------------------------------------------------------
(* Liveness.                                                               *)

\* As long as one slave is left that no hanging request occupies, a request
\* that waits in a slot is answered, unless the server is stopped.
AcceptedIsAnswered ==
    Cardinality(Hanging) < Cardinality(Slaves) =>
        \A j \in Jobs \ Hanging : Waiting(j) ~> (outbox[j] # <<>> \/ needExit)

\* Once the server is told to stop, every slave ends, except inside a request
\* that hangs.
SlavesEnd ==
    \A w \in Slaves :
        needExit ~> (wpc[w] = "exit" \/ (wpc[w] = "run" /\ data[wslot[w]] \in Hanging))
=============================================================================
