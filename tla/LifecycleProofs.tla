-------------------------- MODULE LifecycleProofs --------------------------
(***************************************************************************)
(* Proofs about Lifecycle, for every number of slaves, every waiting time, *)
(* all ports and any number of starts.                                     *)
(***************************************************************************)
EXTENDS Lifecycle, TLAPS

\* Who knows of a stop: while a server is shown as running, needExit is set only by
\* the console, which then joins; the threads that have left their loops have seen it.
StopIsKnown ==
    /\ mpc = "joining" => serverRunning /\ needExit
    /\ serverRunning /\ needExit => mpc = "joining"
    /\ spc \in {"joinControl", "joinSlaves"} => needExit

\* The control thread gets past its first second only if it has seen a stop.
ControlHasSeenStop ==
    /\ upc = "sleep" /\ seconds # Wait => needExit
    /\ upc = "control" => needExit
    /\ upc = "sleep" => seconds >= 1

Inv == TypeOK /\ NoThreadOutlives /\ StopIsKnown /\ ControlHasSeenStop

LEMMA InitInv == Init => Inv
  <1> SUFFICES ASSUME Init PROVE Inv
    OBVIOUS
  <1>1. 0 \in 0..MaxStarts /\ 0 \in 0..Wait /\ 0 \in 0..Threads
    BY LifecycleAssumption
  <1>2. TypeOK
    <2>1. leaving \in BOOLEAN /\ serverRunning \in BOOLEAN /\ needExit \in BOOLEAN
      BY DEF Init
    <2>2. QED
      BY <1>1, <2>1 DEF Init, TypeOK
  <1>3. NoThreadOutlives /\ StopIsKnown /\ ControlHasSeenStop
    BY DEF Init, NoThreadOutlives, StopIsKnown, ControlHasSeenStop
  <1>4. QED
    BY <1>2, <1>3 DEF Inv

LEMMA ConsoleInv ==
    ASSUME Inv, Start \/ Stop \/ Joined \/ Leave \/ ChangePort
    PROVE  Inv'
  <1> USE LifecycleAssumption DEF Inv, NoThreadOutlives, StopIsKnown, ControlHasSeenStop,
          console, server, control, pool
  <1>1. CASE Start
    <2>1. starts + 1 \in 0..MaxStarts
      BY <1>1 DEF Start, TypeOK
    <2>2. TypeOK'
      BY <1>1, <2>1 DEF Start, TypeOK
    <2>3. QED
      BY <1>1, <2>2 DEF Start
  <1>2. CASE Stop
    BY <1>2 DEF Stop, TypeOK
  <1>3. CASE Joined
    BY <1>3 DEF Joined, TypeOK
  <1>4. CASE Leave
    BY <1>4 DEF Leave, TypeOK
  <1>5. CASE ChangePort
    BY <1>5 DEF ChangePort, TypeOK
  <1>6. QED
    BY <1>1, <1>2, <1>3, <1>4, <1>5

LEMMA ServerInv ==
    ASSUME Inv, ServerStep \/ Datagram
    PROVE  Inv'
  <1> USE LifecycleAssumption DEF Inv, NoThreadOutlives, StopIsKnown, ControlHasSeenStop,
          console, server, control, pool
  <1>1. CASE InitFails
    BY <1>1 DEF InitFails, TypeOK
  <1>2. CASE InitServer
    BY <1>2 DEF InitServer, TypeOK
  <1>3. CASE Loop
    BY <1>3 DEF Loop, TypeOK
  <1>4. CASE JoinControl
    BY <1>4 DEF JoinControl, TypeOK
  <1>5. CASE JoinSlaves
    BY <1>5 DEF JoinSlaves, TypeOK
  <1>6. CASE Datagram
    BY <1>6 DEF Datagram, TypeOK
  <1>7. QED
    BY <1>1, <1>2, <1>3, <1>4, <1>5, <1>6 DEF ServerStep

LEMMA OthersInv ==
    ASSUME Inv, ControlStep \/ SlaveEnds \/ FallSilent
    PROVE  Inv'
  <1> USE LifecycleAssumption DEF Inv, NoThreadOutlives, StopIsKnown, ControlHasSeenStop,
          console, server, control, pool
  <1>1. CASE Second
    BY <1>1 DEF Second, ControlEnds, TypeOK
  <1>2. CASE Control
    BY <1>2 DEF Control, TypeOK
  <1>3. CASE SlaveEnds
    BY <1>3 DEF SlaveEnds, TypeOK
  <1>4. CASE FallSilent
    BY <1>4 DEF FallSilent, TypeOK
  <1>5. QED
    BY <1>1, <1>2, <1>3, <1>4 DEF ControlStep

LEMMA InvStep == Inv /\ [Next]_vars => Inv'
  <1> SUFFICES ASSUME Inv, [Next]_vars PROVE Inv'
    OBVIOUS
  <1>1. CASE Start \/ Stop \/ Joined \/ Leave \/ ChangePort
    BY <1>1, ConsoleInv
  <1>2. CASE ServerStep \/ Datagram
    BY <1>2, ServerInv
  <1>3. CASE ControlStep \/ SlaveEnds \/ FallSilent
    BY <1>3, OthersInv
  <1>4. CASE UNCHANGED vars
    BY <1>4 DEF vars, console, server, control, pool, Inv, TypeOK, NoThreadOutlives,
       StopIsKnown, ControlHasSeenStop
  <1>5. QED
    BY <1>1, <1>2, <1>3, <1>4 DEF Next

LEMMA AlwaysInv == Spec => []Inv
  BY InitInv, InvStep, PTL DEF Spec

\* Every variable keeps its type.
THEOREM TypeCorrect == Spec => []TypeOK
  <1>1. Inv => TypeOK
    BY DEF Inv
  <1>2. QED
    BY <1>1, AlwaysInv, PTL

\* No thread of a server outlives it, and none is started over another.
THEOREM ThreadsAreJoined == Spec => []NoThreadOutlives
  <1>1. Inv => NoThreadOutlives
    BY DEF Inv
  <1>2. QED
    BY <1>1, AlwaysInv, PTL

\* The users are controlled only after a stop.
THEOREM ControlNeedsStop == Spec => []ControlIsLate
  <1>1. Inv => ControlIsLate
    BY DEF Inv, ControlIsLate, ControlHasSeenStop, StopIsKnown, NoThreadOutlives, TypeOK
  <1>2. QED
    BY <1>1, AlwaysInv, PTL

\* A stop is never taken back while somebody has still to see it.
THEOREM StopStays == Spec => StopIsFinal
  <1>1. Inv /\ [Next]_vars =>
           [needExit /\ ~needExit' => spc = "none" /\ upc = "none" /\ slaves = 0]_vars
    <2> SUFFICES ASSUME Inv, Next, needExit, ~needExit'
                 PROVE  spc = "none" /\ upc = "none" /\ slaves = 0
      OBVIOUS
    <2>1. Start
      BY DEF Next, Stop, Joined, Leave, ChangePort, ServerStep, InitFails, InitServer, Loop,
         JoinControl, JoinSlaves, Datagram, ControlStep, Second, Control, SlaveEnds,
         FallSilent
    <2>2. QED
      BY <2>1 DEF Start, Inv, NoThreadOutlives
  <1>2. QED
    BY <1>1, AlwaysInv, PTL DEF Spec, StopIsFinal
=============================================================================
