------------------------------ MODULE JobPool ------------------------------
(***************************************************************************)
(* What the I/O thread pool promises its callers, without slots, threads   *)
(* or counters: every request that reaches it is either refused at once    *)
(* or executed exactly once, at most Threads of them run together, no more *)
(* than Capacity are held, and a request is turned away as "busy" only     *)
(* when the pool is full up to the threads that are just leaving a slot.   *)
(* IOPool is shown to implement this module.                               *)
(***************************************************************************)
EXTENDS Naturals, FiniteSets

CONSTANTS Jobs,      \* the requests
          Capacity,  \* how many requests the pool can hold
          Threads    \* how many of them can be executed together

VARIABLE stage \* stage[j]: "new", "queued", "running", "finished", "busy" or "rejected"

At(st) == {j \in Jobs : stage[j] = st}

\* The requests that occupy room in the pool.
Held == At("queued") \union At("running")

Move(j, from, to) ==
    /\ stage[j] = from
    /\ stage' = [stage EXCEPT ![j] = to]

Init == stage = [j \in Jobs |-> "new"]

Accept(j) == /\ Cardinality(Held) < Capacity
             /\ Move(j, "new", "queued")

\* A slot that has been emptied is not available before the thread that
\* emptied it has counted it as free, so "busy" is a promise up to Threads.
TurnAway(j) == /\ Cardinality(Held) + Threads >= Capacity
               /\ Move(j, "new", "busy")

\* The path of the request is refused; how full the pool is does not matter.
Reject(j) == Move(j, "new", "rejected")

Start(j) == /\ Cardinality(At("running")) < Threads
            /\ Move(j, "queued", "running")

Finish(j) == Move(j, "running", "finished")

Next == \E j \in Jobs : Accept(j) \/ TurnAway(j) \/ Reject(j) \/ Start(j) \/ Finish(j)

Spec == Init /\ [][Next]_stage
=============================================================================
