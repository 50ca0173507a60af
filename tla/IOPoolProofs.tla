---------------------------- MODULE IOPoolProofs ----------------------------
(***************************************************************************)
(* Proofs about IOPool, for every number of slots, every finite set of     *)
(* slaves and every set of requests.                                       *)
(***************************************************************************)
EXTENDS IOPool, FiniteSetTheorems, TLAPS

-----------------------------------------------------------------------------
(* Type correctness.                                                       *)

\* The dispatcher works on a request that has arrived, never on the empty mark.
DispatcherHasJob == dpc \in {"check", "scan", "fill", "publish"} => djob \in Jobs

\* A slot that is not free was filled before it was published.
OccupiedHasJob ==
    /\ \A s \in Slot : state[s] # "FREE" => data[s] \in Jobs
    /\ dpc = "publish" => data[dslot] \in Jobs

\* Answers are sent for what a slot holds, so the types of the outbox depend on
\* who owns the slots: the type invariant is inductive only with these facts.
TypeInv == TypeOK /\ DispatcherHasJob /\ OccupiedHasJob /\ Ownership

LEMMA InitTypeInv == Init => TypeInv
  <1> SUFFICES ASSUME Init PROVE TypeInv
    OBVIOUS
  <1> USE IOPoolAssumption DEF Init
  <1>1. TypeOK
    <2>1. 1 \in Slot
      BY DEF Slot
    <2>2. outbox \in [Jobs -> Seq(Codes)]
      OBVIOUS
    <2>3. count \in Int
      BY DEF UninitialisedCount
    <2>4. QED
      BY <2>1, <2>2, <2>3 DEF TypeOK, SlotState, DState, WState
  <1>2. DispatcherHasJob /\ OccupiedHasJob
    BY DEF DispatcherHasJob, OccupiedHasJob
  <1>3. Ownership
    BY DEF Ownership, Holds
  <1>4. QED
    BY <1>1, <1>2, <1>3 DEF TypeInv

\* Appending a final answer to the outbox of a request keeps the outbox typed.
LEMMA SendType ==
    ASSUME TypeOK, NEW j \in Jobs, NEW c \in Codes, Send(j, c)
    PROVE  outbox' \in [Jobs -> Seq(Codes)]
  <1>1. Append(outbox[j], c) \in Seq(Codes)
    BY DEF TypeOK
  <1>2. QED
    BY <1>1 DEF Send, TypeOK

\* Moving on to the next slot keeps the position of a slave inside the array.
LEMMA NextSlotType ==
    ASSUME TypeOK, NEW w \in Slaves, NextSlot(w)
    PROVE  /\ wpc' \in [Slaves -> WState]
           /\ wslot' \in [Slaves -> Slot]
  <1>1. wpc' \in [Slaves -> WState]
    BY DEF NextSlot, Goto, TypeOK, WState
  <1>2. wslot[w] < N => wslot[w] + 1 \in Slot
    BY IOPoolAssumption DEF TypeOK, Slot
  <1>3. wslot' \in [Slaves -> Slot]
    BY <1>2 DEF NextSlot, TypeOK
  <1>4. QED
    BY <1>1, <1>3

LEMMA DispatcherType ==
    ASSUME TypeInv, DispatcherStep
    PROVE  TypeOK'
  <1> USE DEF shared, dispatcher, slaves, history
  <1>1. CASE Construct
    BY <1>1 DEF TypeInv, TypeOK, Construct, DState
  <1>2. CASE DLoop
    BY <1>2 DEF TypeInv, TypeOK, DLoop, DState
  <1>3. CASE CheckCount
    <2>1. outbox' \in [Jobs -> Seq(Codes)]
      BY <1>3, SendType DEF TypeInv, TypeOK, CheckCount, DispatcherHasJob, Codes
    <2>2. dslot' \in Slot
      BY <1>3, IOPoolAssumption DEF CheckCount, Slot
    <2>3. QED
      BY <1>3, <2>1, <2>2 DEF TypeInv, TypeOK, CheckCount, DState
  <1>4. CASE ScanSlot
    <2>1. outbox' \in [Jobs -> Seq(Codes)]
      BY <1>4, SendType DEF TypeInv, TypeOK, ScanSlot, DispatcherHasJob, Codes
    <2>2. dslot' \in Slot
      BY <1>4, IOPoolAssumption DEF TypeInv, TypeOK, ScanSlot, Slot
    <2>3. QED
      BY <1>4, <2>1, <2>2 DEF TypeInv, TypeOK, ScanSlot, DState
  <1>5. CASE FillSlot
    <2>1. outbox' \in [Jobs -> Seq(Codes)]
      BY <1>5, SendType DEF TypeInv, TypeOK, FillSlot, DispatcherHasJob, Codes
    <2>2. QED
      BY <1>5, <2>1 DEF TypeInv, TypeOK, FillSlot, DState
  <1>6. CASE Publish
    BY <1>6 DEF TypeInv, TypeOK, Publish, DState, SlotState
  <1>7. CASE Increment
    BY <1>7 DEF TypeInv, TypeOK, Increment, DState
  <1>8. QED
    BY <1>1, <1>2, <1>3, <1>4, <1>5, <1>6, <1>7 DEF DispatcherStep

\* The request a slave answers is one that arrived.
LEMMA HolderHasJob ==
    ASSUME TypeInv, NEW w \in Slaves, Holds(w)
    PROVE  data[wslot[w]] \in Jobs
  BY DEF TypeInv, TypeOK, Ownership, OccupiedHasJob

LEMMA SlaveType ==
    ASSUME TypeInv, NEW w \in Slaves, SlaveStep(w)
    PROVE  TypeOK'
  <1> USE DEF shared, dispatcher, slaves, history
  <1>0. TypeOK
    BY DEF TypeInv
  <1>1. CASE Exit(w) \/ Doze(w)
    BY <1>0, <1>1 DEF TypeOK, Exit, Doze, Goto, WState
  <1>2. CASE GoOn(w) \/ Wake(w)
    <2>1. 1 \in Slot
      BY IOPoolAssumption DEF Slot
    <2>2. QED
      BY <1>0, <1>2, <2>1 DEF TypeOK, GoOn, Wake, StartPass, Goto, WState
  <1>3. CASE Skip(w)
    BY <1>0, <1>3, NextSlotType DEF TypeOK, Skip
  <1>4. CASE Take(w)
    BY <1>0, <1>4 DEF TypeOK, Take, Goto, WState, SlotState
  <1>5. CASE Run(w)
    <2>1. outbox' \in [Jobs -> Seq(Codes)]
      BY <1>0, <1>5, SendType, HolderHasJob DEF TypeOK, Run, Holds, Codes
    <2>2. QED
      BY <1>0, <1>5, <2>1 DEF TypeOK, Run, Goto, WState
  <1>6. CASE Reply(w)
    <2>1. outbox' \in [Jobs -> Seq(Codes)]
      BY <1>0, <1>6, SendType, HolderHasJob DEF TypeOK, Reply, Holds, Codes
    <2>2. QED
      BY <1>0, <1>6, <2>1 DEF TypeOK, Reply, Goto, WState
  <1>7. CASE Release(w)
    BY <1>0, <1>7 DEF TypeOK, Release, Goto, WState, SlotState
  <1>8. CASE Decrement(w)
    BY <1>0, <1>8, NextSlotType DEF TypeOK, Decrement
  <1>9. QED
    BY <1>1, <1>2, <1>3, <1>4, <1>5, <1>6, <1>7, <1>8 DEF SlaveStep

LEMMA TypeStep ==
    ASSUME TypeInv, [Next]_vars
    PROVE  TypeOK'
  <1> USE DEF shared, dispatcher, slaves, history
  <1>0. TypeOK
    BY DEF TypeInv
  <1>1. CASE DispatcherStep
    BY <1>1, DispatcherType
  <1>2. CASE ReceiveOther \/ Join \/ Stop
    BY <1>0, <1>2 DEF TypeOK, ReceiveOther, Join, Stop, DState
  <1>3. ASSUME NEW j \in Jobs, ReceiveJob(j) PROVE TypeOK'
    BY <1>0, <1>3 DEF TypeOK, ReceiveJob, DState
  <1>4. ASSUME NEW w \in Slaves, SlaveStep(w) PROVE TypeOK'
    BY <1>4, SlaveType
  <1>5. CASE UNCHANGED vars
    BY <1>0, <1>5 DEF TypeOK, vars
  <1>6. QED
    BY <1>1, <1>2, <1>3, <1>4, <1>5 DEF Next

-----------------------------------------------------------------------------
(* Who owns a slot, and what it holds.                                     *)

\* Every step of the dispatcher keeps the requests in its hands and in the
\* slots real, and the ownership of the slots.
LEMMA DispatcherOwnership ==
    ASSUME TypeInv, DispatcherStep
    PROVE  (DispatcherHasJob /\ OccupiedHasJob /\ Ownership)'
  <1> USE DEF shared, dispatcher, slaves, history, Holds
  <1>0. TypeOK /\ DispatcherHasJob /\ OccupiedHasJob /\ Ownership
    BY DEF TypeInv
  <1>1. CASE Construct \/ DLoop \/ CheckCount \/ Increment
    <2>1. UNCHANGED <<state, data, slaves, djob>>
      BY <1>1 DEF Construct, DLoop, CheckCount, Increment
    <2>2. /\ dpc' \notin {"fill", "publish"}
          /\ dpc' = "scan" => dpc = "check"
          /\ dpc' # "check"
      BY <1>1 DEF Construct, DLoop, CheckCount, Increment
    <2>3. QED
      BY <1>0, <2>1, <2>2 DEF DispatcherHasJob, OccupiedHasJob, Ownership
  <1>2. CASE ScanSlot
    BY <1>0, <1>2 DEF ScanSlot, DispatcherHasJob, OccupiedHasJob, Ownership
  <1>3. CASE FillSlot
    BY <1>0, <1>3 DEF FillSlot, DispatcherHasJob, OccupiedHasJob, Ownership, TypeOK
  <1>4. CASE Publish
    BY <1>0, <1>4 DEF Publish, DispatcherHasJob, OccupiedHasJob, Ownership, TypeOK
  <1>5. QED
    BY <1>1, <1>2, <1>3, <1>4 DEF DispatcherStep

\* A slave that walks over the slots owns none of them.
LEMMA WalkOwnership ==
    ASSUME TypeInv, NEW w \in Slaves, ~Holds(w), UNCHANGED <<state, data, dispatcher>>,
           wpc' \in [Slaves -> WState], wslot' \in [Slaves -> Slot],
           wpc'[w] \notin {"run", "reply", "free"},
           \A v \in Slaves \ {w} : wpc'[v] = wpc[v] /\ wslot'[v] = wslot[v]
    PROVE  (DispatcherHasJob /\ OccupiedHasJob /\ Ownership)'
  <1>1. \A v \in Slaves : Holds(v)' <=> Holds(v)
    BY DEF Holds
  <1>2. \A v \in Slaves : Holds(v) => wslot'[v] = wslot[v]
    OBVIOUS
  <1>3. QED
    BY <1>1, <1>2 DEF TypeInv, DispatcherHasJob, OccupiedHasJob, Ownership, dispatcher

LEMMA SlaveOwnership ==
    ASSUME TypeInv, NEW w \in Slaves, SlaveStep(w)
    PROVE  (DispatcherHasJob /\ OccupiedHasJob /\ Ownership)'
  <1> USE DEF shared, dispatcher, slaves, history
  <1>0. TypeOK /\ DispatcherHasJob /\ OccupiedHasJob /\ Ownership
    BY DEF TypeInv
  <1>t. wpc' \in [Slaves -> WState] /\ wslot' \in [Slaves -> Slot]
    BY SlaveType DEF TypeOK
  <1>1. CASE Exit(w) \/ Doze(w) \/ GoOn(w) \/ Wake(w) \/ Skip(w) \/ Decrement(w)
    <2>1. /\ ~Holds(w)
          /\ wpc'[w] \notin {"run", "reply", "free"}
          /\ \A v \in Slaves \ {w} : wpc'[v] = wpc[v] /\ wslot'[v] = wslot[v]
      BY <1>0, <1>1 DEF Exit, Doze, GoOn, Wake, StartPass, Skip, Decrement, NextSlot, Goto,
         Holds, TypeOK
    <2>2. UNCHANGED <<state, data, dispatcher>>
      BY <1>1 DEF Exit, Doze, GoOn, Wake, StartPass, Skip, Decrement
    <2>3. QED
      BY <1>t, <2>1, <2>2, WalkOwnership
  <1>2. CASE Take(w)
    BY <1>0, <1>2 DEF Take, Goto, Holds, DispatcherHasJob, OccupiedHasJob, Ownership, TypeOK
  <1>3. CASE Run(w) \/ Reply(w)
    <2>1. Holds(w) /\ UNCHANGED <<state, data, dispatcher, wslot>>
      BY <1>3 DEF Run, Reply, Holds
    <2>2. \A v \in Slaves : Holds(v)' <=> Holds(v)
      BY <1>0, <1>3 DEF Run, Reply, Goto, Holds, TypeOK
    <2>3. QED
      BY <1>0, <2>1, <2>2 DEF DispatcherHasJob, OccupiedHasJob, Ownership
  <1>4. CASE Release(w)
    <2>1. /\ Holds(w) /\ ~Holds(w)'
          /\ \A v \in Slaves \ {w} : Holds(v)' <=> Holds(v)
          /\ UNCHANGED <<data, dispatcher, wslot>>
      BY <1>0, <1>4 DEF Release, Goto, Holds, TypeOK
    <2>2. state' = [state EXCEPT ![wslot[w]] = "FREE"]
      BY <1>4 DEF Release
    <2>3. \A v \in Slaves \ {w} : Holds(v) => wslot[v] # wslot[w] /\ wslot[v] \in Slot
      BY <1>0, <2>1 DEF Ownership, TypeOK
    <2>4. \A s \in Slot : s # wslot[w] => state'[s] = state[s]
      BY <1>0, <2>2 DEF TypeOK
    <2>5. state'[wslot[w]] = "FREE"
      BY <1>0, <2>2 DEF TypeOK
    <2>6. (DispatcherHasJob /\ OccupiedHasJob)'
      BY <1>0, <2>1, <2>4, <2>5 DEF DispatcherHasJob, OccupiedHasJob
    <2>7. \A v \in Slaves : Holds(v)' => state'[wslot'[v]] = "CONTROLED"
      BY <1>0, <2>1, <2>3, <2>4 DEF Ownership
    <2>8. \A u, v \in Slaves : Holds(u)' /\ Holds(v)' /\ wslot'[u] = wslot'[v] => u = v
      BY <1>0, <2>1 DEF Ownership
    <2>9. \A s \in Slot : state'[s] = "CONTROLED" => \E v \in Slaves : Holds(v)' /\ wslot'[v] = s
      BY <1>0, <2>1, <2>4, <2>5 DEF Ownership
    <2>10. dpc' \in {"fill", "publish"} => state'[dslot'] = "FREE"
      BY <1>0, <2>1, <2>4, <2>5 DEF Ownership, TypeOK
    <2>11. QED
      BY <2>6, <2>7, <2>8, <2>9, <2>10 DEF Ownership
  <1>5. QED
    BY <1>1, <1>2, <1>3, <1>4 DEF SlaveStep

LEMMA TypeInvStep == TypeInv /\ [Next]_vars => TypeInv'
  <1> SUFFICES ASSUME TypeInv, [Next]_vars PROVE TypeInv'
    OBVIOUS
  <1> USE DEF shared, dispatcher, slaves, history
  <1>0. TypeOK /\ DispatcherHasJob /\ OccupiedHasJob /\ Ownership
    BY DEF TypeInv
  <1>1. TypeOK'
    BY TypeStep
  <1>2. CASE DispatcherStep
    BY <1>1, <1>2, DispatcherOwnership DEF TypeInv
  <1>3. CASE ReceiveOther \/ Join \/ Stop
    BY <1>0, <1>1, <1>3 DEF TypeInv, ReceiveOther, Join, Stop, DispatcherHasJob,
       OccupiedHasJob, Ownership, Holds
  <1>4. ASSUME NEW j \in Jobs, ReceiveJob(j) PROVE TypeInv'
    BY <1>0, <1>1, <1>4 DEF TypeInv, ReceiveJob, DispatcherHasJob, OccupiedHasJob,
       Ownership, Holds
  <1>5. ASSUME NEW w \in Slaves, SlaveStep(w) PROVE TypeInv'
    BY <1>1, <1>5, SlaveOwnership DEF TypeInv
  <1>6. CASE UNCHANGED vars
    BY <1>0, <1>1, <1>6 DEF TypeInv, vars, DispatcherHasJob, OccupiedHasJob, Ownership, Holds
  <1>7. QED
    BY <1>2, <1>3, <1>4, <1>5, <1>6 DEF Next

LEMMA AlwaysTypeInv == Spec => []TypeInv
  BY InitTypeInv, TypeInvStep, PTL DEF Spec

\* Every variable keeps its type, the outboxes in particular.
THEOREM TypeCorrect == Spec => []TypeOK
  <1>1. TypeInv => TypeOK
    BY DEF TypeInv
  <1>2. QED
    BY <1>1, AlwaysTypeInv, PTL

\* A request is run by one slave only, and the dispatcher writes to slots that
\* nobody runs: the compare-and-exchange on the state is all it takes.
THEOREM OwnershipHolds == Spec => []Ownership
  <1>1. TypeInv => Ownership
    BY DEF TypeInv
  <1>2. QED
    BY <1>1, AlwaysTypeInv, PTL

-----------------------------------------------------------------------------
(* The counter and the slots.                                              *)

\* The sets the counter accounts for are finite.
LEMMA Finiteness ==
    ASSUME TypeOK
    PROVE  /\ IsFiniteSet(Slot) /\ Cardinality(Slot) = N
           /\ IsFiniteSet(Occupied) /\ Cardinality(Occupied) \in 0..N
           /\ IsFiniteSet(Leaving) /\ Cardinality(Leaving) \in Nat
  <1>1. IsFiniteSet(Slot) /\ Cardinality(Slot) = N
    BY FS_Interval, IOPoolAssumption DEF Slot
  <1>2. Occupied \subseteq Slot /\ Leaving \subseteq Slaves
    BY DEF Occupied, Leaving
  <1>3. /\ IsFiniteSet(Occupied)
        /\ Cardinality(Occupied) <= N
        /\ IsFiniteSet(Leaving)
    BY <1>1, <1>2, FS_Subset, IOPoolAssumption
  <1>4. Cardinality(Occupied) \in Nat /\ Cardinality(Leaving) \in Nat
    BY <1>3, FS_CardinalityType
  <1>5. QED
    BY <1>1, <1>3, <1>4, IOPoolAssumption

\* As long as the counter says there is room, some slot is free.
LEMMA RoomMeansFreeSlot ==
    ASSUME TypeOK, Cardinality(Occupied) < N
    PROVE  \E s \in Slot : state[s] = "FREE"
  <1> SUFFICES ASSUME \A s \in Slot : state[s] # "FREE" PROVE FALSE
    OBVIOUS
  <1>1. Occupied = Slot
    BY DEF Occupied
  <1>2. QED
    BY <1>1, Finiteness, IOPoolAssumption

CountInv == TypeInv /\ CountAccounts /\ FreeSlotAhead

\* The steps that touch neither a slot's state nor the counter.
LEMMA QuietCount ==
    ASSUME CountInv, UNCHANGED <<state, count>>, Leaving' = Leaving,
           dpc' = dpc, dslot' = dslot
    PROVE  (CountAccounts /\ FreeSlotAhead)'
  <1>1. Occupied' = Occupied
    BY DEF Occupied
  <1>2. CountAccounts'
    BY <1>1 DEF CountInv, CountAccounts, Adding
  <1>3. FreeSlotAhead'
    BY DEF CountInv, FreeSlotAhead
  <1>4. QED
    BY <1>2, <1>3

LEMMA DispatcherCount ==
    ASSUME CountInv, DispatcherStep
    PROVE  (CountAccounts /\ FreeSlotAhead)'
  <1> USE DEF shared, dispatcher, slaves, history
  <1>0. TypeOK /\ Ownership /\ CountAccounts /\ FreeSlotAhead
    BY DEF CountInv, TypeInv
  <1>f. /\ N \in Nat \ {0} /\ count \in Int /\ dslot \in Slot
        /\ Cardinality(Occupied) \in 0..N /\ Cardinality(Leaving) \in Nat
    BY <1>0, Finiteness, IOPoolAssumption DEF TypeOK
  <1>l. Leaving' = Leaving
    BY DEF DispatcherStep, Construct, DLoop, CheckCount, ScanSlot, FillSlot, Publish,
       Increment, Leaving
  <1>1. CASE Construct
    <2>1. Occupied' = {} /\ Leaving' = {}
      BY <1>0, <1>1, <1>l DEF Construct, Occupied, CountAccounts
    <2>2. QED
      BY <1>1, <1>f, <2>1, FS_EmptySet DEF Construct, CountAccounts, FreeSlotAhead, Adding
  <1>2. CASE DLoop
    <2>1. Occupied' = Occupied
      BY <1>2 DEF DLoop, Occupied
    <2>2. QED
      BY <1>0, <1>2, <1>l, <2>1 DEF DLoop, CountAccounts, FreeSlotAhead, Adding
  <1>3. CASE CheckCount
    <2>1. Occupied' = Occupied
      BY <1>3 DEF CheckCount, Occupied
    <2>2. CountAccounts'
      BY <1>0, <1>3, <1>f, <1>l, <2>1 DEF CheckCount, CountAccounts, Adding
    <2>3. CASE count # N
      <3>1. Cardinality(Occupied) < N
        BY <1>0, <1>3, <1>f, <2>3 DEF CheckCount, CountAccounts
      <3>2. \E s \in Slot : state[s] = "FREE"
        BY <1>0, <3>1, RoomMeansFreeSlot
      <3>3. QED
        BY <1>3, <2>2, <3>2 DEF CheckCount, FreeSlotAhead, Slot
    <2>4. CASE count = N
      BY <1>3, <2>2, <2>4 DEF CheckCount, FreeSlotAhead
    <2>5. QED
      BY <2>3, <2>4
  <1>4. CASE ScanSlot
    <2>1. Occupied' = Occupied
      BY <1>4 DEF ScanSlot, Occupied
    <2>2. CountAccounts'
      BY <1>0, <1>4, <1>f, <1>l, <2>1 DEF ScanSlot, CountAccounts, Adding
    <2>3. PICK s \in dslot..N : state[s] = "FREE"
      BY <1>0, <1>4 DEF ScanSlot, FreeSlotAhead
    <2>4. state[dslot] # "FREE" => s \in (dslot + 1)..N
      BY <1>f, <2>3 DEF Slot
    <2>5. FreeSlotAhead'
      BY <1>4, <1>f, <2>3, <2>4 DEF ScanSlot, FreeSlotAhead, Slot
    <2>6. QED
      BY <2>2, <2>5
  <1>5. CASE FillSlot
    <2>1. Occupied' = Occupied
      BY <1>5 DEF FillSlot, Occupied
    <2>2. QED
      BY <1>0, <1>5, <1>l, <2>1 DEF FillSlot, CountAccounts, FreeSlotAhead, Adding
  <1>6. CASE Publish
    <2>1. dslot \notin Occupied
      BY <1>0, <1>6 DEF Publish, Ownership, Occupied
    <2>2. Occupied' = Occupied \union {dslot}
      BY <1>0, <1>f, <1>6 DEF Publish, Occupied, TypeOK
    <2>3. Cardinality(Occupied') = Cardinality(Occupied) + 1
      BY <1>0, <2>1, <2>2, Finiteness, FS_AddElement
    <2>4. QED
      BY <1>0, <1>f, <1>6, <1>l, <2>3 DEF Publish, CountAccounts, FreeSlotAhead, Adding
  <1>7. CASE Increment
    <2>1. Occupied' = Occupied
      BY <1>7 DEF Increment, Occupied
    <2>2. QED
      BY <1>0, <1>f, <1>7, <1>l, <2>1 DEF Increment, CountAccounts, FreeSlotAhead, Adding
  <1>8. QED
    BY <1>1, <1>2, <1>3, <1>4, <1>5, <1>6, <1>7 DEF DispatcherStep

LEMMA SlaveCount ==
    ASSUME CountInv, NEW w \in Slaves, SlaveStep(w)
    PROVE  (CountAccounts /\ FreeSlotAhead)'
  <1> USE DEF shared, dispatcher, slaves, history
  <1>0. TypeOK /\ Ownership /\ CountAccounts /\ FreeSlotAhead
    BY DEF CountInv, TypeInv
  <1>f. /\ N \in Nat \ {0} /\ count \in Int /\ dslot \in Slot
        /\ Cardinality(Occupied) \in 0..N /\ Cardinality(Leaving) \in Nat
    BY <1>0, Finiteness, IOPoolAssumption DEF TypeOK
  <1>1. CASE Exit(w) \/ Doze(w) \/ GoOn(w) \/ Wake(w) \/ Skip(w) \/ Run(w) \/ Reply(w)
    <2>1. UNCHANGED <<state, count, dpc, dslot>>
      BY <1>1 DEF Exit, Doze, GoOn, Wake, StartPass, Skip, Run, Reply
    <2>2. wpc[w] # "dec" /\ wpc'[w] # "dec" /\ \A v \in Slaves \ {w} : wpc'[v] = wpc[v]
      BY <1>0, <1>1 DEF Exit, Doze, GoOn, Wake, StartPass, Skip, Run, Reply, NextSlot, Goto, TypeOK
    <2>3. Leaving' = Leaving
      BY <2>2 DEF Leaving
    <2>4. QED
      BY <2>1, <2>3, QuietCount
  <1>2. CASE Take(w)
    <2>1. wpc[w] # "dec" /\ wpc'[w] # "dec" /\ \A v \in Slaves \ {w} : wpc'[v] = wpc[v]
      BY <1>0, <1>2 DEF Take, Goto, TypeOK
    <2>2. Leaving' = Leaving
      BY <2>1 DEF Leaving
    <2>3. \A s \in Slot : state'[s] = "FREE" <=> state[s] = "FREE"
      BY <1>0, <1>2 DEF Take, TypeOK
    <2>4. Occupied' = Occupied
      BY <2>3 DEF Occupied
    <2>5. CountAccounts'
      BY <1>0, <1>2, <2>2, <2>4 DEF Take, CountAccounts, Adding
    <2>6. FreeSlotAhead'
      BY <1>0, <1>f, <1>2, <2>3 DEF Take, FreeSlotAhead, Slot
    <2>7. QED
      BY <2>5, <2>6
  <1>3. CASE Release(w)
    <2>1. wslot[w] \in Occupied /\ w \notin Leaving
      BY <1>0, <1>3 DEF Release, Ownership, Holds, Occupied, Leaving, TypeOK
    <2>2. Occupied' = Occupied \ {wslot[w]}
      BY <1>0, <1>3 DEF Release, Occupied, TypeOK
    <2>3. Leaving' = Leaving \union {w}
      BY <1>0, <1>3 DEF Release, Goto, Leaving, TypeOK
    <2>4. Cardinality(Occupied') = Cardinality(Occupied) - 1
      BY <1>0, <2>1, <2>2, Finiteness, FS_RemoveElement
    <2>5. Cardinality(Leaving') = Cardinality(Leaving) + 1
      BY <1>0, <2>1, <2>3, Finiteness, FS_AddElement
    <2>6. dpc # "ctor"
      BY <1>0, <2>1 DEF CountAccounts
    <2>7. CountAccounts'
      BY <1>0, <1>f, <1>3, <2>4, <2>5, <2>6 DEF Release, CountAccounts, Adding
    <2>8. \A s \in Slot : state[s] = "FREE" => state'[s] = "FREE"
      BY <1>0, <1>3 DEF Release, TypeOK
    <2>9. FreeSlotAhead'
      BY <1>0, <1>f, <1>3, <2>8 DEF Release, FreeSlotAhead, Slot
    <2>10. QED
      BY <2>7, <2>9
  <1>4. CASE Decrement(w)
    <2>1. w \in Leaving
      BY <1>4 DEF Decrement, Leaving
    <2>2. Leaving' = Leaving \ {w}
      BY <1>0, <1>4 DEF Decrement, NextSlot, Goto, Leaving, TypeOK
    <2>3. Cardinality(Leaving') = Cardinality(Leaving) - 1
      BY <1>0, <2>1, <2>2, Finiteness, FS_RemoveElement
    <2>4. Occupied' = Occupied
      BY <1>4 DEF Decrement, Occupied
    <2>5. dpc # "ctor"
      BY <1>0, <2>1 DEF CountAccounts
    <2>6. CountAccounts'
      BY <1>0, <1>f, <1>4, <2>3, <2>4, <2>5 DEF Decrement, CountAccounts, Adding
    <2>7. FreeSlotAhead'
      BY <1>0, <1>4 DEF Decrement, FreeSlotAhead
    <2>8. QED
      BY <2>6, <2>7
  <1>5. QED
    BY <1>1, <1>2, <1>3, <1>4 DEF SlaveStep

LEMMA CountInvStep == CountInv /\ [Next]_vars => CountInv'
  <1> SUFFICES ASSUME CountInv, [Next]_vars PROVE CountInv'
    OBVIOUS
  <1> USE DEF shared, dispatcher, slaves, history
  <1>0. CountAccounts /\ FreeSlotAhead
    BY DEF CountInv
  <1>1. TypeInv'
    BY TypeInvStep DEF CountInv
  <1>2. CASE DispatcherStep
    BY <1>1, <1>2, DispatcherCount DEF CountInv
  <1>3. CASE ReceiveOther \/ Join \/ Stop \/ (\E j \in Jobs : ReceiveJob(j))
    <2>1. /\ UNCHANGED <<state, count, dslot, wpc>>
          /\ dpc # "ctor" \/ dpc' = dpc
          /\ dpc = dpc' \/ dpc' \notin {"ctor", "scan", "fill", "publish", "inc"}
          /\ dpc = dpc' \/ dpc # "inc"
      BY <1>3 DEF ReceiveOther, Join, Stop, ReceiveJob
    <2>2. Occupied' = Occupied /\ Leaving' = Leaving
      BY <2>1 DEF Occupied, Leaving
    <2>3. QED
      BY <1>0, <1>1, <2>1, <2>2 DEF CountInv, CountAccounts, FreeSlotAhead, Adding
  <1>4. ASSUME NEW w \in Slaves, SlaveStep(w) PROVE CountInv'
    BY <1>1, <1>4, SlaveCount DEF CountInv
  <1>5. CASE UNCHANGED vars
    <2>1. UNCHANGED <<state, count, dpc, dslot, wpc>>
      BY <1>5 DEF vars
    <2>2. Leaving' = Leaving
      BY <2>1 DEF Leaving
    <2>3. QED
      BY <1>1, <2>1, <2>2, QuietCount DEF CountInv
  <1>6. QED
    BY <1>2, <1>3, <1>4, <1>5 DEF Next

LEMMA InitCountInv == Init => CountInv
  <1> SUFFICES ASSUME Init PROVE CountInv
    OBVIOUS
  <1>1. Occupied = {} /\ Leaving = {}
    BY DEF Init, Occupied, Leaving
  <1>2. QED
    BY <1>1, InitTypeInv DEF Init, CountInv, CountAccounts, FreeSlotAhead, Adding

LEMMA AlwaysCountInv == Spec => []CountInv
  BY InitCountInv, CountInvStep, PTL DEF Spec

\* Although the slots and the counter are updated in two steps each, the counter
\* is exact up to the threads that are between the two, and never above N.
THEOREM CountIsExact == Spec => []CountAccounts
  <1>1. CountInv => CountAccounts
    BY DEF CountInv
  <1>2. QED
    BY <1>1, AlwaysCountInv, PTL

\* The scan that follows a passed busy test always finds a free slot.
THEOREM ScanFindsSlot == Spec => []FreeSlotAhead
  <1>1. CountInv => FreeSlotAhead
    BY DEF CountInv
  <1>2. QED
    BY <1>1, AlwaysCountInv, PTL

\* What a slot holds is not overwritten before the slot has been freed: the
\* dispatcher writes only to a slot that was FREE when it looked, and no slave
\* can have taken it since.
THEOREM RequestIsKept == Spec => RequestKept
  <1>1. TypeInv /\ [Next]_vars => [\A s \in Slot : state[s] # "FREE" => data'[s] = data[s]]_vars
    <2> SUFFICES ASSUME TypeInv, [Next]_vars, NEW s \in Slot, state[s] # "FREE"
                 PROVE  data'[s] = data[s]
      OBVIOUS
    <2> USE DEF shared, dispatcher, slaves, history
    <2>1. CASE DispatcherStep
      BY <2>1 DEF DispatcherStep, Construct, DLoop, CheckCount, ScanSlot, FillSlot, Publish,
         Increment, TypeInv, TypeOK, Ownership
    <2>2. CASE ReceiveOther \/ Join \/ Stop \/ (\E j \in Jobs : ReceiveJob(j))
      BY <2>2 DEF ReceiveOther, Join, Stop, ReceiveJob
    <2>3. ASSUME NEW w \in Slaves, SlaveStep(w) PROVE data'[s] = data[s]
      BY <2>3 DEF SlaveStep, Exit, Doze, GoOn, Wake, StartPass, Skip, Take, Run, Reply,
         Release, Decrement
    <2>4. CASE UNCHANGED vars
      BY <2>4 DEF vars
    <2>5. QED
      BY <2>1, <2>2, <2>3, <2>4 DEF Next
  <1>2. QED
    BY <1>1, AlwaysTypeInv, PTL DEF Spec, RequestKept

-----------------------------------------------------------------------------
(* The pool implements JobPool.                                            *)

HasRequest == dpc \in {"check", "scan", "fill", "publish"}

\* A request is in one place at most, in the hands of the dispatcher or in one slot.
OnePlace ==
    /\ \A s \in Slot : state[s] # "FREE" => data[s] \in asked
    /\ \A s, t \in Slot : state[s] # "FREE" /\ state[t] # "FREE" /\ data[s] = data[t] => s = t
    /\ HasRequest => djob \in asked /\ \A s \in Slot : state[s] # "FREE" => data[s] # djob
    /\ dpc = "publish" => data[dslot] = djob

\* Nothing is answered before its time: a request that is under way has no answer, and one
\* when it is about to leave its slot.
AnswersLater ==
    /\ \A j \in Jobs \ asked : outbox[j] = <<>>
    /\ HasRequest => outbox[djob] = <<>>
    /\ \A s \in Slot : state[s] = "WAITING" => outbox[data[s]] = <<>>
    /\ \A w \in Slaves : wpc[w] \in {"run", "reply"} => outbox[data[wslot[w]]] = <<>>
    /\ \A w \in Slaves : wpc[w] = "free" => outbox[data[wslot[w]]] = <<"RESULT">>

PlaceInv == CountInv /\ OnePlace /\ AnswersLater

LEMMA InitPlaceInv == Init => PlaceInv
  <1> SUFFICES ASSUME Init PROVE PlaceInv
    OBVIOUS
  <1>1. OnePlace
    BY DEF Init, OnePlace, HasRequest
  <1>2. AnswersLater
    BY DEF Init, AnswersLater, HasRequest
  <1>3. QED
    BY <1>1, <1>2, InitCountInv DEF PlaceInv

\* The first answer is the only one.
LEMMA FirstAnswer ==
    ASSUME TypeOK, NEW j \in Jobs, NEW code \in Codes, outbox[j] = <<>>, Send(j, code)
    PROVE  outbox'[j] = <<code>> /\ \A i \in Jobs \ {j} : outbox'[i] = outbox[i]
  <1>1. Append(<<>>, code) = <<code>>
    OBVIOUS
  <1>2. QED
    BY <1>1 DEF Send, TypeOK

\* A slave that holds a slot runs a request that has arrived and that no other slave runs
\* and no slot holds besides.
LEMMA HolderAlone ==
    ASSUME PlaceInv, NEW w \in Slaves, Holds(w)
    PROVE  /\ data[wslot[w]] \in asked /\ data[wslot[w]] \in Jobs
           /\ HasRequest => data[wslot[w]] # djob
           /\ state[wslot[w]] = "CONTROLED" /\ wslot[w] \in Slot
           /\ \A s \in Slot \ {wslot[w]} : state[s] # "FREE" => data[s] # data[wslot[w]]
           /\ \A v \in Slaves \ {w} : Holds(v) => data[wslot[v]] # data[wslot[w]]
  <1>1. /\ \A v \in Slaves : Holds(v) => state[wslot[v]] = "CONTROLED" /\ wslot[v] \in Slot
        /\ \A v \in Slaves \ {w} : Holds(v) => wslot[v] # wslot[w]
    BY DEF PlaceInv, CountInv, TypeInv, TypeOK, Ownership
  <1>2. data[wslot[w]] \in Jobs
    BY HolderHasJob DEF PlaceInv, CountInv
  <1>3. QED
    BY <1>1, <1>2 DEF PlaceInv, OnePlace

\* What does not touch the slots, the outbox or the work of a slave leaves all where it is.
LEMMA QuietPlace ==
    ASSUME PlaceInv, UNCHANGED <<state, data, slaves, history, djob>>,
           HasRequest' => HasRequest, dpc' # "publish"
    PROVE  (OnePlace /\ AnswersLater)'
  <1> USE DEF slaves, history
  <1>1. OnePlace'
    BY DEF PlaceInv, OnePlace
  <1>2. AnswersLater'
    BY DEF PlaceInv, AnswersLater
  <1>3. QED
    BY <1>1, <1>2

LEMMA DispatcherPlace ==
    ASSUME PlaceInv, DispatcherStep
    PROVE  (OnePlace /\ AnswersLater)'
  <1> USE DEF shared, dispatcher, slaves, history
  <1>0. TypeOK /\ Ownership /\ OnePlace /\ AnswersLater
    BY DEF PlaceInv, CountInv, TypeInv
  <1>1. HasRequest => djob \in Jobs
    BY DEF HasRequest, PlaceInv, CountInv, TypeInv, DispatcherHasJob
  <1>2. CASE Construct \/ DLoop \/ Increment
    <2>1. UNCHANGED <<state, data, slaves, history, djob>> /\ ~HasRequest' /\ dpc' # "publish"
      BY <1>2 DEF Construct, DLoop, Increment, HasRequest
    <2>2. QED
      BY <2>1, QuietPlace
  <1>3. CASE dpc' # "loop" /\ (CheckCount \/ ScanSlot)
    <2>1. UNCHANGED <<state, data, slaves, history, djob>> /\ HasRequest /\ dpc' # "publish"
      BY <1>3 DEF CheckCount, ScanSlot, HasRequest
    <2>2. QED
      BY <2>1, QuietPlace
  <1>4. ASSUME NEW code \in Codes, HasRequest, Send(djob, code), dpc' = "loop",
               UNCHANGED <<state, asked, wpc, wslot>>,
               \A s \in Slot : state[s] # "FREE" => data'[s] = data[s]
        PROVE  (OnePlace /\ AnswersLater)'
    <2>1. \A j \in Jobs \ {djob} : outbox'[j] = outbox[j]
      BY <1>0, <1>1, <1>4, FirstAnswer DEF AnswersLater
    <2>2. djob \in asked
      BY <1>0, <1>4 DEF OnePlace
    <2>3. \A s \in Slot : state[s] # "FREE" => data[s] # djob /\ data[s] \in Jobs
      BY <1>0, <1>4 DEF OnePlace, PlaceInv, CountInv, TypeInv, OccupiedHasJob
    <2>4. OnePlace'
      BY <1>0, <1>4 DEF OnePlace, HasRequest
    <2>5. \A w \in Slaves : Holds(w) => /\ data'[wslot[w]] = data[wslot[w]]
                                       /\ data[wslot[w]] \in Jobs \ {djob}
      BY <1>4, HolderAlone
    <2>6. AnswersLater'
      BY <1>0, <1>4, <2>1, <2>2, <2>3, <2>5 DEF AnswersLater, HasRequest, Holds
    <2>7. QED
      BY <2>4, <2>6
  <1>5. CASE dpc' = "loop" /\ (CheckCount \/ ScanSlot)
    <2>1. HasRequest /\ Send(djob, "SERVER_BUSY") /\ UNCHANGED <<state, data, asked, wpc, wslot>>
      BY <1>5 DEF CheckCount, ScanSlot, HasRequest
    <2>2. QED
      BY <1>4, <1>5, <2>1 DEF Codes
  <1>6. CASE FillSlot
    <2>1. /\ HasRequest /\ dpc = "fill" /\ UNCHANGED <<state, asked, wpc, wslot, djob>>
          /\ state[dslot] = "FREE" /\ dslot \in Slot
      BY <1>0, <1>6 DEF FillSlot, HasRequest, Ownership, TypeOK
    <2>2. \A s \in Slot : state[s] # "FREE" => data'[s] = data[s]
      BY <1>0, <1>6, <2>1 DEF FillSlot, TypeOK
    <2>3. CASE dpc' = "loop"
      <3>1. Send(djob, "ERROR_OCCURED")
        BY <1>6, <2>3 DEF FillSlot
      <3>2. QED
        BY <1>4, <2>1, <2>2, <2>3, <3>1 DEF Codes
    <2>4. CASE dpc' = "publish"
      <3>1. UNCHANGED <<outbox, dslot>> /\ data'[dslot] = djob
        BY <1>0, <1>6, <2>1, <2>4 DEF FillSlot, TypeOK
      <3>2. OnePlace'
        BY <1>0, <2>1, <2>2, <2>4, <3>1 DEF OnePlace, HasRequest
      <3>3. \A w \in Slaves : Holds(w) => data'[wslot[w]] = data[wslot[w]]
        BY <2>2, HolderAlone
      <3>4. AnswersLater'
        BY <1>0, <2>1, <2>2, <2>4, <3>1, <3>3 DEF AnswersLater, HasRequest, Holds
      <3>5. QED
        BY <3>2, <3>4
    <2>5. QED
      BY <1>6, <2>3, <2>4 DEF FillSlot
  <1>7. CASE Publish
    <2>1. /\ HasRequest /\ dpc = "publish" /\ dpc' = "inc" /\ data[dslot] = djob /\ dslot \in Slot
          /\ state'[dslot] = "WAITING" /\ \A s \in Slot \ {dslot} : state'[s] = state[s]
          /\ UNCHANGED <<data, djob, asked, outbox, wpc, wslot>>
      BY <1>0, <1>7 DEF Publish, HasRequest, OnePlace, TypeOK
    <2>2. OnePlace'
      BY <1>0, <2>1 DEF OnePlace, HasRequest
    <2>3. AnswersLater'
      BY <1>0, <2>1 DEF AnswersLater, HasRequest
    <2>4. QED
      BY <2>2, <2>3
  <1>8. QED
    BY <1>2, <1>3, <1>5, <1>6, <1>7 DEF DispatcherStep

LEMMA SlavePlace ==
    ASSUME PlaceInv, NEW w \in Slaves, SlaveStep(w)
    PROVE  (OnePlace /\ AnswersLater)'
  <1> USE DEF shared, dispatcher, slaves, history
  <1>0. TypeOK /\ Ownership /\ OnePlace /\ AnswersLater
    BY DEF PlaceInv, CountInv, TypeInv
  <1>1. CASE Exit(w) \/ Doze(w) \/ GoOn(w) \/ Wake(w) \/ Skip(w) \/ Decrement(w)
    <2>1. /\ wpc'[w] \notin {"run", "reply", "free"}
          /\ \A v \in Slaves \ {w} : wpc'[v] = wpc[v] /\ wslot'[v] = wslot[v]
          /\ UNCHANGED <<state, data, dispatcher, history>>
      BY <1>0, <1>1 DEF Exit, Doze, GoOn, Wake, StartPass, Skip, Decrement, NextSlot, Goto, TypeOK
    <2>2. OnePlace'
      BY <1>0, <2>1 DEF OnePlace, HasRequest
    <2>3. AnswersLater'
      BY <1>0, <2>1 DEF AnswersLater, HasRequest
    <2>4. QED
      BY <2>2, <2>3
  <1>2. CASE Take(w)
    <2>1. /\ wslot[w] \in Slot /\ state[wslot[w]] = "WAITING" /\ state'[wslot[w]] = "CONTROLED"
          /\ \A s \in Slot \ {wslot[w]} : state'[s] = state[s]
          /\ wpc'[w] = "run" /\ \A v \in Slaves \ {w} : wpc'[v] = wpc[v]
          /\ UNCHANGED <<data, dispatcher, history, wslot>>
      BY <1>0, <1>2 DEF Take, Goto, TypeOK
    <2>2. OnePlace'
      BY <1>0, <2>1 DEF OnePlace, HasRequest
    <2>3. AnswersLater'
      BY <1>0, <2>1 DEF AnswersLater, HasRequest
    <2>4. QED
      BY <2>2, <2>3
  <1>3. CASE Run(w) \/ Reply(w)
    <2>1. /\ Holds(w) /\ outbox[data[wslot[w]]] = <<>>
          /\ wpc'[w] \in {"reply", "free"} /\ \A v \in Slaves \ {w} : wpc'[v] = wpc[v]
          /\ UNCHANGED <<state, data, dispatcher, asked, wslot>>
          /\ wpc'[w] = "reply" => UNCHANGED outbox
          /\ wpc'[w] = "free" => Send(data[wslot[w]], "RESULT")
      BY <1>0, <1>3 DEF Run, Reply, Goto, Holds, AnswersLater, TypeOK
    <2>2. /\ data[wslot[w]] \in asked /\ data[wslot[w]] \in Jobs
          /\ HasRequest => data[wslot[w]] # djob
          /\ state[wslot[w]] = "CONTROLED" /\ wslot[w] \in Slot
          /\ \A s \in Slot \ {wslot[w]} : state[s] # "FREE" => data[s] # data[wslot[w]]
          /\ \A v \in Slaves \ {w} : Holds(v) => data[wslot[v]] # data[wslot[w]]
      BY <2>1, HolderAlone
    <2>3. /\ \A j \in Jobs \ {data[wslot[w]]} : outbox'[j] = outbox[j]
          /\ wpc'[w] = "reply" => outbox'[data[wslot[w]]] = <<>>
          /\ wpc'[w] = "free" => outbox'[data[wslot[w]]] = <<"RESULT">>
      BY <1>0, <2>1, <2>2, FirstAnswer DEF Codes
    <2>4. OnePlace'
      BY <1>0, <2>1 DEF OnePlace, HasRequest
    <2>5. /\ \A s \in Slot : state[s] # "FREE" => data[s] \in Jobs
          /\ HasRequest => djob \in Jobs
          /\ \A v \in Slaves : Holds(v) => data[wslot[v]] \in Jobs
      BY HolderAlone DEF PlaceInv, CountInv, TypeInv, OccupiedHasJob, DispatcherHasJob, HasRequest
    <2>6. AnswersLater'
      BY <1>0, <2>1, <2>2, <2>3, <2>5 DEF AnswersLater, HasRequest, Holds
    <2>7. QED
      BY <2>4, <2>6
  <1>4. CASE Release(w)
    <2>1. /\ wslot[w] \in Slot /\ state'[wslot[w]] = "FREE"
          /\ \A s \in Slot \ {wslot[w]} : state'[s] = state[s]
          /\ wpc'[w] = "dec" /\ \A v \in Slaves \ {w} : wpc'[v] = wpc[v]
          /\ UNCHANGED <<data, dispatcher, history, wslot>>
      BY <1>0, <1>4 DEF Release, Goto, TypeOK
    <2>2. OnePlace'
      BY <1>0, <2>1 DEF OnePlace, HasRequest
    <2>3. AnswersLater'
      BY <1>0, <2>1 DEF AnswersLater, HasRequest
    <2>4. QED
      BY <2>2, <2>3
  <1>5. QED
    BY <1>1, <1>2, <1>3, <1>4 DEF SlaveStep

LEMMA PlaceInvStep == PlaceInv /\ [Next]_vars => PlaceInv'
  <1> SUFFICES ASSUME PlaceInv, [Next]_vars PROVE PlaceInv'
    OBVIOUS
  <1> USE DEF shared, dispatcher, slaves, history
  <1>1. CountInv'
    BY CountInvStep DEF PlaceInv
  <1>2. CASE DispatcherStep
    BY <1>1, <1>2, DispatcherPlace DEF PlaceInv
  <1>3. CASE ReceiveOther \/ Join \/ Stop
    <2>1. /\ UNCHANGED <<state, data, slaves, history, djob>>
          /\ dslot' = dslot
          /\ dpc' = dpc \/ dpc' \in {"loop", "gone"}
      BY <1>3 DEF ReceiveOther, Join, Stop
    <2>2. OnePlace'
      BY <2>1 DEF PlaceInv, OnePlace, HasRequest
    <2>3. AnswersLater'
      BY <2>1 DEF PlaceInv, AnswersLater, HasRequest
    <2>4. QED
      BY <1>1, <2>2, <2>3 DEF PlaceInv
  <1>4. ASSUME NEW j \in Jobs, ReceiveJob(j) PROVE PlaceInv'
    <2>1. /\ j \notin asked /\ asked' = asked \union {j} /\ djob' = j /\ dpc' = "check"
          /\ ~HasRequest /\ UNCHANGED <<state, data, slaves, outbox>>
      BY <1>4 DEF ReceiveJob, HasRequest
    <2>2. OnePlace'
      BY <2>1 DEF PlaceInv, OnePlace, HasRequest
    <2>3. AnswersLater'
      BY <1>4, <2>1 DEF PlaceInv, AnswersLater, HasRequest
    <2>4. QED
      BY <1>1, <2>2, <2>3 DEF PlaceInv
  <1>5. ASSUME NEW w \in Slaves, SlaveStep(w) PROVE PlaceInv'
    BY <1>1, <1>5, SlavePlace DEF PlaceInv
  <1>6. CASE UNCHANGED vars
    <2>1. UNCHANGED <<state, data, dslot, dpc, djob, wpc, wslot, asked, outbox>>
      BY <1>6 DEF vars
    <2>2. OnePlace' /\ AnswersLater'
      BY <2>1 DEF PlaceInv, OnePlace, AnswersLater, HasRequest
    <2>3. QED
      BY <1>1, <2>2 DEF PlaceInv
  <1>7. QED
    BY <1>2, <1>3, <1>4, <1>5, <1>6 DEF Next

LEMMA AlwaysPlaceInv == Spec => []PlaceInv
  BY InitPlaceInv, PlaceInvStep, PTL DEF Spec

\* What the stage of a request is made of.
LEMMA StageCases ==
    ASSUME NEW j \in Jobs
    PROVE  /\ Waiting(j) => StageOf(j) = "queued"
           /\ ~Waiting(j) /\ InHand(j) => StageOf(j) = "running"
           /\ ~Waiting(j) /\ ~InHand(j) =>
                 /\ outbox[j] = <<>> => StageOf(j) = "new"
                 /\ outbox[j] = <<"SERVER_BUSY">> => StageOf(j) = "busy"
                 /\ outbox[j] = <<"ERROR_OCCURED">> => StageOf(j) = "rejected"
                 /\ outbox[j] = <<"RESULT">> => StageOf(j) = "finished"
  <1>1. ASSUME NEW code \in Codes, outbox[j] = <<code>>, ~Waiting(j), ~InHand(j)
        PROVE  StageOf(j) = Outcome[code]
    <2>1. outbox[j] # <<>> /\ Len(outbox[j]) = 1 /\ outbox[j][1] = code
      BY <1>1
    <2>2. QED
      BY <1>1, <2>1 DEF StageOf
  <1>2. Outcome["SERVER_BUSY"] = "busy" /\ Outcome["ERROR_OCCURED"] = "rejected" /\ Outcome["RESULT"] = "finished"
    BY DEF Outcome
  <1>3. QED
    BY <1>1, <1>2 DEF StageOf, Codes

\* A request keeps its stage if it stays where it is, and its outbox if it is nowhere.
LEMMA SameStage ==
    ASSUME NEW j \in Jobs, Waiting(j)' <=> Waiting(j), InHand(j)' <=> InHand(j),
           ~Waiting(j) /\ ~InHand(j) => outbox'[j] = outbox[j]
    PROVE  StageOf(j)' = StageOf(j)
  BY DEF StageOf

\* If the stage of one request changes, the pool moves it.
LEMMA OneMoves ==
    ASSUME NEW j \in Jobs, NEW from, NEW to,
           StageOf(j) = from, StageOf(j)' = to, \A i \in Jobs \ {j} : StageOf(i)' = StageOf(i)
    PROVE  Abstract!Move(j, from, to)
  BY DEF Abstract!Move, Stages

LEMMA NoneMoves ==
    ASSUME \A i \in Jobs : StageOf(i)' = StageOf(i)
    PROVE  Stages' = Stages
  BY DEF Stages

LEMMA SameCardinality ==
    ASSUME NEW S
    PROVE  Abstract!Cardinality(S) = Cardinality(S)
  BY DEF Abstract!Cardinality, Cardinality

\* The requests the pool holds are in the slots that are not free, each in one, ...
LEMMA HeldInSlots ==
    ASSUME PlaceInv
    PROVE  /\ IsFiniteSet(Abstract!Held)
           /\ Abstract!Cardinality(Abstract!Held) = Cardinality(Occupied)
  <1> DEFINE f == [s \in Occupied |-> data[s]]
  <1>1. \A s \in Occupied : s \in Slot /\ data[s] \in Jobs /\ state[s] \in {"WAITING", "CONTROLED"}
    BY DEF Occupied, PlaceInv, CountInv, TypeInv, TypeOK, OccupiedHasJob, SlotState
  <1>2. \A j \in Jobs : j \in Abstract!Held <=> Waiting(j) \/ InHand(j)
    <2> SUFFICES ASSUME NEW j \in Jobs PROVE j \in Abstract!Held <=> Waiting(j) \/ InHand(j)
      OBVIOUS
    <2>1. j \in Abstract!Held <=> StageOf(j) \in {"queued", "running"}
      BY DEF Abstract!Held, Abstract!At, Stages
    <2>2. ~Waiting(j) /\ ~InHand(j) => StageOf(j) \notin {"queued", "running"}
      <3>1. outbox[j] \in Seq(Codes)
        BY DEF PlaceInv, CountInv, TypeInv, TypeOK
      <3>2. Len(outbox[j]) = 1 => outbox[j][1] \in Codes
        BY <3>1
      <3>3. \A code \in Codes : Outcome[code] \notin {"queued", "running"}
        BY DEF Codes, Outcome
      <3>4. QED
        BY <3>2, <3>3 DEF StageOf
    <2>3. QED
      BY <2>1, <2>2, StageCases
  <1>3. Abstract!Held \subseteq Jobs
    BY DEF Abstract!Held, Abstract!At
  <1>4. \A j \in Abstract!Held : \E s \in Occupied : data[s] = j
    BY <1>2, <1>3 DEF Waiting, InHand, Occupied
  <1>5. \A s \in Occupied : data[s] \in Abstract!Held
    BY <1>1, <1>2 DEF Waiting, InHand
  <1>6. f \in Bijection(Occupied, Abstract!Held)
    <2>1. f \in [Occupied -> Abstract!Held]
      BY <1>5
    <2>2. \A s, t \in Occupied : f[s] = f[t] => s = t
      BY DEF PlaceInv, OnePlace, Occupied
    <2>3. \A j \in Abstract!Held : \E s \in Occupied : f[s] = j
      BY <1>4
    <2>4. QED
      BY <2>1, <2>2, <2>3 DEF Bijection, Injection, Surjection, IsInjective
  <1>7. IsFiniteSet(Occupied)
    BY Finiteness DEF PlaceInv, CountInv, TypeInv
  <1>8. QED
    BY <1>6, <1>7, FS_Bijection, SameCardinality DEF ExistsBijection

\* ... and each one that runs is held by a slave of its own.
LEMMA RunningBySlaves ==
    ASSUME PlaceInv, NEW w \in Slaves, ~Holds(w)
    PROVE  Abstract!Cardinality(Abstract!At("running")) < Cardinality(Slaves)
  <1> DEFINE Holders == {v \in Slaves : Holds(v)}
             Running == Abstract!At("running")
             f == [v \in Holders |-> data[wslot[v]]]
  <1>1. \A v \in Holders : /\ data[wslot[v]] \in Jobs /\ wslot[v] \in Slot
                           /\ state[wslot[v]] = "CONTROLED"
                           /\ \A s \in Slot \ {wslot[v]} : state[s] # "FREE" => data[s] # data[wslot[v]]
    BY HolderAlone
  <1>2. \A v \in Holders : data[wslot[v]] \in Running
    <2> SUFFICES ASSUME NEW v \in Holders PROVE data[wslot[v]] \in Running
      OBVIOUS
    <2>1. InHand(data[wslot[v]]) /\ ~Waiting(data[wslot[v]])
      BY <1>1 DEF InHand, Waiting
    <2>2. QED
      BY <1>1, <2>1, StageCases DEF Abstract!At, Stages
  <1>3. \A j \in Running : \E v \in Holders : data[wslot[v]] = j
    <2> SUFFICES ASSUME NEW j \in Running PROVE \E v \in Holders : data[wslot[v]] = j
      OBVIOUS
    <2>1. j \in Jobs /\ StageOf(j) = "running"
      BY DEF Abstract!At, Stages
    <2>2. InHand(j)
      <3>1. outbox[j] \in Seq(Codes)
        BY <2>1 DEF PlaceInv, CountInv, TypeInv, TypeOK
      <3>2. Len(outbox[j]) = 1 => outbox[j][1] \in Codes
        BY <3>1
      <3>3. \A code \in Codes : Outcome[code] # "running"
        BY DEF Codes, Outcome
      <3>4. QED
        BY <2>1, <3>2, <3>3 DEF StageOf
    <2>3. QED
      BY <2>2 DEF InHand, PlaceInv, CountInv, TypeInv, Ownership
  <1>4. IsFiniteSet(Holders) /\ Cardinality(Holders) < Cardinality(Slaves)
    <2>1. Holders \subseteq Slaves \ {w}
      OBVIOUS
    <2>2. IsFiniteSet(Slaves \ {w}) /\ Cardinality(Slaves \ {w}) = Cardinality(Slaves) - 1
      BY FS_RemoveElement, IOPoolAssumption
    <2>3. IsFiniteSet(Holders) /\ Cardinality(Holders) <= Cardinality(Slaves \ {w})
      BY <2>1, <2>2, FS_Subset
    <2>4. Cardinality(Holders) \in Nat /\ Cardinality(Slaves) \in Nat
      BY <2>3, FS_CardinalityType, IOPoolAssumption
    <2>5. QED
      BY <2>2, <2>3, <2>4
  <1>5. f \in Surjection(Holders, Running)
    <2>1. f \in [Holders -> Running]
      BY <1>2
    <2>2. \A j \in Running : \E v \in Holders : f[v] = j
      BY <1>3
    <2>3. QED
      BY <2>1, <2>2 DEF Surjection
  <1>6. IsFiniteSet(Running) /\ Cardinality(Running) <= Cardinality(Holders)
    BY <1>4, <1>5, FS_Surjection
  <1>7. /\ Cardinality(Running) \in Nat /\ Cardinality(Holders) \in Nat
        /\ Cardinality(Slaves) \in Nat
    BY <1>4, <1>6, FS_CardinalityType, IOPoolAssumption
  <1>8. QED
    BY <1>4, <1>6, <1>7, SameCardinality

\* Writing to a free slot moves no request.
LEMMA SlotsKept ==
    ASSUME UNCHANGED state, \A s \in Slot : state[s] # "FREE" => data'[s] = data[s], NEW j
    PROVE  (Waiting(j)' <=> Waiting(j)) /\ (InHand(j)' <=> InHand(j))
  BY DEF Waiting, InHand

\* A request in the hands of the dispatcher is new, one that has been refused is out.
LEMMA DispatcherRefines ==
    ASSUME PlaceInv, PlaceInv', DispatcherStep
    PROVE  Abstract!Next \/ Stages' = Stages
  <1> USE DEF shared, dispatcher, slaves, history
  <1>0. TypeOK /\ Ownership /\ CountAccounts /\ FreeSlotAhead /\ OnePlace /\ AnswersLater
    BY DEF PlaceInv, CountInv, TypeInv
  <1>1. HasRequest => djob \in Jobs
    BY DEF HasRequest, PlaceInv, CountInv, TypeInv, DispatcherHasJob
  <1>2. HasRequest => ~Waiting(djob) /\ ~InHand(djob) /\ StageOf(djob) = "new"
    <2> SUFFICES ASSUME HasRequest PROVE ~Waiting(djob) /\ ~InHand(djob) /\ StageOf(djob) = "new"
      OBVIOUS
    <2>1. ~Waiting(djob) /\ ~InHand(djob)
      BY <1>0 DEF OnePlace, Waiting, InHand
    <2>2. QED
      BY <1>0, <1>1, <2>1, StageCases DEF AnswersLater
  <1>3. ASSUME NEW code \in Codes, NEW j \in Jobs, j = djob, HasRequest, Send(j, code),
               UNCHANGED state, \A s \in Slot : state[s] # "FREE" => data'[s] = data[s]
        PROVE  /\ code = "SERVER_BUSY" => Abstract!Move(j, "new", "busy")
               /\ code = "ERROR_OCCURED" => Abstract!Move(j, "new", "rejected")
    <2>1. outbox'[j] = <<code>> /\ \A i \in Jobs \ {j} : outbox'[i] = outbox[i]
      BY <1>0, <1>3, FirstAnswer DEF AnswersLater
    <2>2. \A i \in Jobs : (Waiting(i)' <=> Waiting(i)) /\ (InHand(i)' <=> InHand(i))
      BY <1>3, SlotsKept
    <2>3. \A i \in Jobs \ {j} : StageOf(i)' = StageOf(i)
      BY <2>1, <2>2, SameStage
    <2>4. ~Waiting(j)' /\ ~InHand(j)'
      BY <1>2, <1>3, <2>2
    <2>5. StageOf(j)' = Outcome[code]
      <3>1. outbox'[j] # <<>> /\ Len(outbox'[j]) = 1 /\ outbox'[j][1] = code
        BY <2>1
      <3>2. QED
        BY <2>4, <3>1 DEF StageOf, Outcome
    <2>6. Outcome["SERVER_BUSY"] = "busy" /\ Outcome["ERROR_OCCURED"] = "rejected"
      BY DEF Outcome
    <2>7. StageOf(j) = "new"
      BY <1>2, <1>3
    <2>8. QED
      BY <2>3, <2>5, <2>6, <2>7, OneMoves
  <1>4. ASSUME UNCHANGED <<state, outbox>>, \A s \in Slot : state[s] # "FREE" => data'[s] = data[s]
        PROVE  Stages' = Stages
    <2>1. \A i \in Jobs : StageOf(i)' = StageOf(i)
      BY <1>4, SlotsKept, SameStage
    <2>2. QED
      BY <2>1, NoneMoves
  <1>f. /\ N \in Nat \ {0} /\ count \in Int
        /\ Cardinality(Occupied) \in 0..N /\ Cardinality(Leaving) \in Nat
        /\ Cardinality(Slaves) \in Nat /\ Cardinality(Leaving) <= Cardinality(Slaves)
    <2>1. Leaving \subseteq Slaves
      BY DEF Leaving
    <2>2. QED
      BY <1>0, <2>1, Finiteness, FS_Subset, FS_CardinalityType, IOPoolAssumption DEF TypeOK
  <1>5. CASE Construct \/ DLoop \/ Increment \/ ((CheckCount \/ ScanSlot) /\ dpc' # "loop")
    BY <1>4, <1>5 DEF Construct, DLoop, Increment, CheckCount, ScanSlot
  <1>6. CASE CheckCount /\ dpc' = "loop"
    <2>1. HasRequest /\ Send(djob, "SERVER_BUSY") /\ UNCHANGED <<state, data>> /\ count = N
      BY <1>6 DEF CheckCount, HasRequest
    <2>2. Cardinality(Occupied) + Cardinality(Slaves) >= N
      BY <1>0, <1>f, <1>6, <2>1 DEF CheckCount, CountAccounts
    <2>3. PICK j \in Jobs : j = djob
      BY <1>1, <2>1
    <2>4. Abstract!Move(j, "new", "busy")
      BY <1>3, <2>1, <2>3 DEF Codes
    <2>5. Abstract!TurnAway(j)
      BY <2>2, <2>4, HeldInSlots DEF Abstract!TurnAway
    <2>6. QED
      BY <2>5 DEF Abstract!Next
  <1>7. CASE ScanSlot /\ dpc' = "loop"
    <2>1. dslot = N /\ state[dslot] # "FREE" /\ dpc = "scan"
      BY <1>0, <1>7, IOPoolAssumption DEF ScanSlot, TypeOK, Slot
    <2>2. QED
      BY <1>0, <1>f, <2>1 DEF FreeSlotAhead
  <1>8. CASE FillSlot
    <2>1. /\ HasRequest /\ state[dslot] = "FREE" /\ UNCHANGED state
          /\ \A s \in Slot : state[s] # "FREE" => data'[s] = data[s]
      BY <1>0, <1>8 DEF FillSlot, HasRequest, Ownership, TypeOK
    <2>2. CASE dpc' = "publish"
      BY <1>4, <1>8, <2>1, <2>2 DEF FillSlot
    <2>3. CASE dpc' = "loop"
      <3>1. Send(djob, "ERROR_OCCURED")
        BY <1>8, <2>3 DEF FillSlot
      <3>2. PICK j \in Jobs : j = djob
        BY <1>1, <2>1
      <3>3. Abstract!Reject(j)
        BY <1>3, <2>1, <3>1, <3>2 DEF Abstract!Reject, Codes
      <3>4. QED
        BY <3>3 DEF Abstract!Next
    <2>4. QED
      BY <1>8, <2>2, <2>3 DEF FillSlot
  <1>9. CASE Publish
    <2>1. /\ HasRequest /\ dpc = "publish" /\ data[dslot] = djob /\ dslot \in Slot
          /\ state[dslot] = "FREE" /\ state'[dslot] = "WAITING"
          /\ \A s \in Slot \ {dslot} : state'[s] = state[s]
          /\ UNCHANGED <<data, outbox>>
      BY <1>0, <1>9 DEF Publish, HasRequest, OnePlace, Ownership, TypeOK
    <2>2. PICK j \in Jobs : j = djob
      BY <1>1, <2>1
    <2>3. StageOf(j) = "new" /\ StageOf(j)' = "queued"
      BY <1>2, <2>1, <2>2 DEF StageOf, Waiting
    <2>4. \A i \in Jobs \ {j} : (Waiting(i)' <=> Waiting(i)) /\ (InHand(i)' <=> InHand(i))
      BY <2>1, <2>2 DEF Waiting, InHand
    <2>5. \A i \in Jobs \ {j} : StageOf(i)' = StageOf(i)
      BY <2>1, <2>4, SameStage
    <2>6. Cardinality(Occupied) < N
      BY <1>0, <1>f, <2>1 DEF CountAccounts, Adding
    <2>7. Abstract!Move(j, "new", "queued")
      BY <2>3, <2>5, OneMoves
    <2>8. Abstract!Accept(j)
      BY <2>6, <2>7, HeldInSlots DEF Abstract!Accept
    <2>9. QED
      BY <2>8 DEF Abstract!Next
  <1>10. QED
    BY <1>5, <1>6, <1>7, <1>8, <1>9 DEF DispatcherStep

LEMMA SlaveRefines ==
    ASSUME PlaceInv, NEW w \in Slaves, SlaveStep(w)
    PROVE  Abstract!Next \/ Stages' = Stages
  <1> USE DEF shared, dispatcher, slaves, history
  <1>0. TypeOK /\ Ownership /\ OnePlace /\ AnswersLater
    BY DEF PlaceInv, CountInv, TypeInv
  <1>1. CASE Exit(w) \/ Doze(w) \/ GoOn(w) \/ Wake(w) \/ Skip(w) \/ Decrement(w)
    <2>1. UNCHANGED <<state, data, outbox>>
      BY <1>1 DEF Exit, Doze, GoOn, Wake, StartPass, Skip, Decrement
    <2>2. \A i \in Jobs : StageOf(i)' = StageOf(i)
      BY <2>1, SlotsKept, SameStage
    <2>3. QED
      BY <2>2, NoneMoves
  <1>2. CASE Take(w)
    <2>1. PICK s \in Slot : s = wslot[w]
      BY <1>0 DEF TypeOK
    <2>2. /\ state[s] = "WAITING" /\ state'[s] = "CONTROLED"
          /\ \A t \in Slot \ {s} : state'[t] = state[t]
          /\ UNCHANGED <<data, outbox>> /\ ~Holds(w)
      BY <1>0, <1>2, <2>1 DEF Take, TypeOK, Holds
    <2>3. PICK j \in Jobs : j = data[s]
      BY <2>2 DEF PlaceInv, CountInv, TypeInv, OccupiedHasJob
    <2>4. \A t \in Slot \ {s} : state[t] # "FREE" => data[t] # j
      BY <1>0, <2>2, <2>3 DEF OnePlace
    <2>5. StageOf(j) = "queued"
      BY <2>2, <2>3 DEF StageOf, Waiting
    <2>6. ~Waiting(j)' /\ InHand(j)'
      BY <2>2, <2>3, <2>4 DEF Waiting, InHand
    <2>7. StageOf(j)' = "running"
      BY <2>6 DEF StageOf
    <2>8. \A i \in Jobs \ {j} : (Waiting(i)' <=> Waiting(i)) /\ (InHand(i)' <=> InHand(i))
      BY <2>2, <2>3 DEF Waiting, InHand
    <2>9. \A i \in Jobs \ {j} : StageOf(i)' = StageOf(i)
      BY <2>2, <2>8, SameStage
    <2>10. Abstract!Move(j, "queued", "running")
      BY <2>5, <2>7, <2>9, OneMoves
    <2>11. Abstract!Start(j)
      BY <2>2, <2>10, RunningBySlaves DEF Abstract!Start
    <2>12. QED
      BY <2>11 DEF Abstract!Next
  <1>3. CASE Run(w) \/ Reply(w)
    <2>1. /\ Holds(w) /\ UNCHANGED <<state, data>>
          /\ UNCHANGED outbox \/ Send(data[wslot[w]], "RESULT")
          /\ outbox[data[wslot[w]]] = <<>>
      BY <1>0, <1>3 DEF Run, Reply, Holds, AnswersLater
    <2>2. /\ data[wslot[w]] \in Jobs /\ state[wslot[w]] = "CONTROLED" /\ wslot[w] \in Slot
      BY <2>1, HolderAlone
    <2>3. InHand(data[wslot[w]])
      BY <2>2 DEF InHand
    <2>4. \A i \in Jobs : i # data[wslot[w]] => outbox'[i] = outbox[i]
      BY <1>0, <2>1, <2>2, FirstAnswer DEF Codes
    <2>5. \A i \in Jobs : StageOf(i)' = StageOf(i)
      BY <2>1, <2>3, <2>4, SlotsKept, SameStage
    <2>6. QED
      BY <2>5, NoneMoves
  <1>4. CASE Release(w)
    <2>1. PICK s \in Slot : s = wslot[w]
      BY <1>0 DEF TypeOK
    <2>2. /\ Holds(w) /\ state'[s] = "FREE"
          /\ \A t \in Slot \ {s} : state'[t] = state[t]
          /\ UNCHANGED <<data, outbox>> /\ outbox[data[s]] = <<"RESULT">>
      BY <1>0, <1>4, <2>1 DEF Release, TypeOK, Holds, AnswersLater
    <2>3. PICK j \in Jobs : j = data[s]
      BY <2>1, <2>2, HolderAlone
    <2>4. /\ state[s] = "CONTROLED"
          /\ \A t \in Slot \ {s} : state[t] # "FREE" => data[t] # j
      BY <2>1, <2>2, <2>3, HolderAlone
    <2>5. InHand(j) /\ ~Waiting(j)
      BY <2>3, <2>4 DEF InHand, Waiting
    <2>6. StageOf(j) = "running"
      BY <2>5 DEF StageOf
    <2>7. ~Waiting(j)' /\ ~InHand(j)'
      BY <2>2, <2>3, <2>4 DEF Waiting, InHand
    <2>8. StageOf(j)' = "finished"
      <3>1. outbox'[j] = <<"RESULT">>
        BY <2>2, <2>3
      <3>2. outbox'[j] # <<>> /\ Len(outbox'[j]) = 1 /\ outbox'[j][1] = "RESULT"
        BY <3>1
      <3>3. QED
        BY <2>7, <3>2 DEF StageOf, Outcome
    <2>9. \A i \in Jobs \ {j} : (Waiting(i)' <=> Waiting(i)) /\ (InHand(i)' <=> InHand(i))
      BY <2>2, <2>3 DEF Waiting, InHand
    <2>10. \A i \in Jobs \ {j} : StageOf(i)' = StageOf(i)
      BY <2>2, <2>9, SameStage
    <2>11. Abstract!Finish(j)
      BY <2>6, <2>8, <2>10, OneMoves DEF Abstract!Finish
    <2>12. QED
      BY <2>11 DEF Abstract!Next
  <1>5. QED
    BY <1>1, <1>2, <1>3, <1>4 DEF SlaveStep

\* Whatever the dispatcher and the slaves do is a step of JobPool or none at all: a request
\* is refused or run once, and has one answer when it leaves the pool.
THEOREM PoolIsJobPool == Spec => ImplementsJobPool
  <1> USE DEF shared, dispatcher, slaves, history
  <1>1. Init => Abstract!Init
    <2> SUFFICES ASSUME Init PROVE Abstract!Init
      OBVIOUS
    <2>1. \A j \in Jobs : ~Waiting(j) /\ ~InHand(j) /\ outbox[j] = <<>>
      BY DEF Init, Waiting, InHand
    <2>2. \A j \in Jobs : StageOf(j) = "new"
      BY <2>1 DEF StageOf
    <2>3. QED
      BY <2>2 DEF Abstract!Init, Stages
  <1>2. PlaceInv /\ PlaceInv' /\ [Next]_vars => [Abstract!Next]_Stages
    <2> SUFFICES ASSUME PlaceInv, PlaceInv', [Next]_vars PROVE Abstract!Next \/ Stages' = Stages
      OBVIOUS
    <2>1. CASE DispatcherStep
      BY <2>1, DispatcherRefines
    <2>2. ASSUME NEW w \in Slaves, SlaveStep(w) PROVE Abstract!Next \/ Stages' = Stages
      BY <2>2, SlaveRefines
    <2>3. CASE ReceiveOther \/ Join \/ Stop \/ (\E j \in Jobs : ReceiveJob(j)) \/ UNCHANGED vars
      <3>1. UNCHANGED <<state, data, outbox>>
        BY <2>3 DEF ReceiveOther, Join, Stop, ReceiveJob, vars
      <3>2. \A i \in Jobs : StageOf(i)' = StageOf(i)
        BY <3>1, SlotsKept, SameStage
      <3>3. QED
        BY <3>2, NoneMoves
    <2>4. QED
      BY <2>1, <2>2, <2>3 DEF Next
  <1>3. QED
    BY <1>1, <1>2, AlwaysPlaceInv, PTL DEF Spec, ImplementsJobPool, Abstract!Spec
=============================================================================
