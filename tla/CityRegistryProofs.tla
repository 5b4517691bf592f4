------------------------ MODULE CityRegistryProofs ------------------------
(***************************************************************************)
(* Theorems about the city registry, for every set of cities, runtimes and *)
(* requests and any number of workers.                                     *)
(***************************************************************************)
EXTENDS CityRegistry, TLAPS

\* A city is built only while it has no runtime.
BuildingIsUnregistered == \A c \in building : runtimes[c] = NoRuntime

\* Until stopAll clears the registry, every runtime ever created is there.
CreatedIsRegistered ==
    phase # "stopped" =>
        \A r \in Runtimes : city[r] # Unborn => runtimes[city[r]] = r

\* Only a created runtime runs.
RunningIsCreated == \A r \in Runtimes : running[r] # {} => city[r] # Unborn

\* While the process is stopping, what runs is still to be stopped or late.
StoppingCovers ==
    phase = "stopping" =>
        \A r \in Runtimes : running[r] # {} => r \in stopping \cup late

\* stopAll returns with a cleared registry only once nothing is awaited.
NothingAwaitedAtTheEnd == phase = "stopped" => stopping = {}

\* The inductive invariant: that one runtime is built per city follows from
\* every created runtime being the registered one of its city, which a build
\* preserves because it runs only while the city has none.
IInv ==
    /\ TypeOK
    /\ BuildingIsUnregistered
    /\ CreatedIsRegistered
    /\ RunningIsCreated
    /\ StoppingCovers
    /\ NothingAwaitedAtTheEnd
    /\ WaitersHaveABuild
    /\ ShutdownIsComplete
-----------------------------------------------------------------------------
\* Types are preserved by every step.
LEMMA TypeStep == ASSUME TypeOK, [Next]_vars PROVE TypeOK'
  <1> USE DEF TypeOK, Results, Statuses, Phases
  <1>1. ASSUME NEW q \in Requests, NEW name \in BadNames, RejectName(q, name)
        PROVE  TypeOK'
    BY <1>1 DEF RejectName, Error
  <1>2. ASSUME NEW q \in Requests, NEW c \in Cities, ServeLive(q, c)
        PROVE  TypeOK'
    BY <1>2 DEF ServeLive, Ok
  <1>3. ASSUME NEW q \in Requests, NEW c \in Cities, AwaitBuild(q, c)
        PROVE  TypeOK'
    BY <1>3 DEF AwaitBuild, Missing, Waiting
  <1>4. ASSUME NEW c \in Cities, BuildFindsNothing(c) PROVE TypeOK'
    BY <1>4 DEF BuildFindsNothing, SettleBuild, Riders, Error
  <1>5. ASSUME NEW c \in Cities, CreateThrows(c) PROVE TypeOK'
    BY <1>5 DEF CreateThrows, SettleBuild, Riders, Error
  <1>6. ASSUME NEW c \in Cities, NEW r \in Runtimes, NEW n \in Parts,
               BuildRuntime(c, r, n)
        PROVE  TypeOK'
    <2>1. 0 .. n \in SUBSET Parts
      BY WorkersAssumption DEF Parts
    <2> QED
      BY <1>6, <2>1 DEF BuildRuntime, WithRuntime, Started, SettleBuild, Riders, Error, Ok
  <1>7. CASE BeginStop
    BY <1>7 DEF BeginStop, Registered
  <1>8. ASSUME NEW r \in Runtimes, StopRuntime(r) PROVE TypeOK'
    BY <1>8 DEF StopRuntime
  <1>9. ASSUME NEW r \in Runtimes, StopRejects(r) PROVE TypeOK'
    BY <1>9 DEF StopRejects
  <1>10. CASE FinishStop
    BY <1>10 DEF FinishStop, AllStopped
  <1>11. CASE Relist
    BY <1>11 DEF Relist
  <1>12. CASE UNCHANGED vars
    BY <1>12 DEF vars
  <1> QED
    BY <1>1, <1>2, <1>3, <1>4, <1>5, <1>6, <1>7, <1>8, <1>9, <1>10, <1>11, <1>12
    DEF Next, Build

\* The registry starts empty.
LEMMA InitIInv == Init => IInv
  BY DEF Init, IInv, TypeOK, Phases, Results, Idle, BuildingIsUnregistered,
         CreatedIsRegistered, RunningIsCreated, StoppingCovers,
         NothingAwaitedAtTheEnd, WaitersHaveABuild, ShutdownIsComplete

\* A waiting request is determined by the city it waits for.
LEMMA RequestShape ==
  ASSUME TypeOK
  PROVE  \A q \in Requests : request[q].state = "waiting" =>
             request[q] = [state |-> "waiting", city |-> request[q].city]
  BY DEF TypeOK, Results, Idle

\* A settled build strands no request: those that rode it are answered.
LEMMA SettleKeepsWaiters ==
  ASSUME TypeOK, WaitersHaveABuild, NEW c \in Cities, NEW outcome,
         outcome.state # "waiting", SettleBuild(c, outcome)
  PROVE  WaitersHaveABuild'
  <1> SUFFICES ASSUME NEW q \in Requests, request'[q].state = "waiting"
               PROVE  request'[q].city \in building'
    BY DEF WaitersHaveABuild
  <1>1. request[q] # Waiting(c) /\ request'[q] = request[q]
    BY DEF SettleBuild, Riders
  <1>2. request[q].city \in building
    BY <1>1 DEF WaitersHaveABuild
  <1>3. request[q].city # c
    BY <1>1, RequestShape DEF Waiting
  <1> QED
    BY <1>1, <1>2, <1>3 DEF SettleBuild, Riders

\* Every action preserves the inductive invariant.
LEMMA Step == ASSUME IInv, [Next]_vars PROVE IInv'
  <1>0. TypeOK /\ TypeOK'
    BY TypeStep DEF IInv
  <1> USE RuntimesAssumption, NamesAssumption
      DEF IInv, BuildingIsUnregistered, CreatedIsRegistered, RunningIsCreated,
          StoppingCovers, NothingAwaitedAtTheEnd, WaitersHaveABuild,
          ShutdownIsComplete
  <1>1. ASSUME NEW q \in Requests, NEW name \in BadNames, RejectName(q, name)
        PROVE  IInv'
    BY <1>0, <1>1 DEF RejectName, Error, TypeOK
  <1>2. ASSUME NEW q \in Requests, NEW c \in Cities, ServeLive(q, c)
        PROVE  IInv'
    BY <1>0, <1>2 DEF ServeLive, Ok, TypeOK
  <1>3. ASSUME NEW q \in Requests, NEW c \in Cities, AwaitBuild(q, c)
        PROVE  IInv'
    BY <1>0, <1>3 DEF AwaitBuild, Missing, Waiting, TypeOK
  <1>4. ASSUME NEW c \in Cities, BuildFindsNothing(c) PROVE IInv'
    <2>1. WaitersHaveABuild'
      BY <1>0, <1>4, SettleKeepsWaiters DEF BuildFindsNothing, Error
    <2> QED
      BY <1>0, <1>4, <2>1 DEF BuildFindsNothing, SettleBuild, Riders, TypeOK
  <1>5. ASSUME NEW c \in Cities, CreateThrows(c) PROVE IInv'
    <2>1. WaitersHaveABuild'
      BY <1>0, <1>5, SettleKeepsWaiters DEF CreateThrows, Error
    <2> QED
      BY <1>0, <1>5, <2>1 DEF CreateThrows, SettleBuild, Riders, TypeOK
  <1>6. ASSUME NEW c \in Cities, NEW r \in Runtimes, NEW n \in Parts,
               BuildRuntime(c, r, n)
        PROVE  IInv'
    <2>1. c \in building /\ runtimes[c] = NoRuntime /\ city[r] = Unborn /\ c # Unborn
      BY <1>6 DEF BuildRuntime, WithRuntime, Started, Unborn
    <2>2. BuildingIsUnregistered'
      BY <1>0, <1>6, <2>1 DEF BuildRuntime, WithRuntime, Started, SettleBuild, Riders, TypeOK
    <2>3. CreatedIsRegistered'
      BY <1>0, <1>6, <2>1 DEF BuildRuntime, WithRuntime, Started, TypeOK, NoRuntime
    <2>4. RunningIsCreated'
      BY <1>0, <1>6, <2>1 DEF BuildRuntime, WithRuntime, Started, TypeOK
    <2>5. StoppingCovers' /\ ShutdownIsComplete' /\ NothingAwaitedAtTheEnd'
      BY <1>0, <1>6, <2>1 DEF BuildRuntime, WithRuntime, Started, TypeOK
    <2>6. WaitersHaveABuild'
      BY <1>0, <1>6, SettleKeepsWaiters DEF BuildRuntime, WithRuntime, Started, Ok, Error
    <2> QED
      BY <1>0, <2>2, <2>3, <2>4, <2>5, <2>6
  <1>7. CASE BeginStop
    BY <1>0, <1>7 DEF BeginStop, Registered, TypeOK, NoRuntime
  <1>8. ASSUME NEW r \in Runtimes, StopRuntime(r) PROVE IInv'
    BY <1>0, <1>8 DEF StopRuntime, TypeOK
  <1>9. ASSUME NEW r \in Runtimes, StopRejects(r) PROVE IInv'
    <2>1. BuildingIsUnregistered' /\ WaitersHaveABuild'
      BY <1>9 DEF StopRejects
    <2>2. RunningIsCreated'
      BY <1>0, <1>9 DEF StopRejects, TypeOK
    <2>3. phase' = "aborted" /\ runtimes' = runtimes /\ city' = city
      BY <1>9 DEF StopRejects
    <2>4. phase # "stopped"
      BY <1>9 DEF StopRejects
    <2>5. StoppingCovers' /\ ShutdownIsComplete' /\ NothingAwaitedAtTheEnd'
      BY <2>3
    <2>6. CreatedIsRegistered'
      BY <2>3, <2>4
    <2> QED
      BY <1>0, <2>1, <2>2, <2>5, <2>6
  <1>10. CASE FinishStop
    <2>1. BuildingIsUnregistered' /\ WaitersHaveABuild' /\ RunningIsCreated'
      BY <1>0, <1>10 DEF FinishStop, AllStopped, TypeOK
    <2>2. CreatedIsRegistered' /\ StoppingCovers' /\ NothingAwaitedAtTheEnd'
      BY <1>10 DEF FinishStop, AllStopped
    <2>3. ShutdownIsComplete'
      BY <1>10 DEF FinishStop, AllStopped
    <2> QED
      BY <1>0, <2>1, <2>2, <2>3
  <1>11. CASE Relist
    BY <1>0, <1>11 DEF Relist
  <1>12. CASE UNCHANGED vars
    BY <1>0, <1>12 DEF vars
  <1> QED
    BY <1>1, <1>2, <1>3, <1>4, <1>5, <1>6, <1>7, <1>8, <1>9, <1>10, <1>11, <1>12
    DEF Next, Build

\* The strengthened invariant holds in every reachable state.
LEMMA Inductive == Spec => []IInv
  BY InitIInv, Step, PTL DEF Spec

\* Every variable keeps its type (registry.ts, city-dispatch.ts).
THEOREM TypeCorrect == Spec => []TypeOK
  <1>1. IInv => TypeOK
    BY DEF IInv
  <1> QED
    BY <1>1, Inductive, PTL

\* Until stopAll has cleared the registry at most one runtime is created for
\* a city, and one with a running part is the city's registered runtime.
THEOREM OneRuntimeEach == Spec => []OneRuntime
  <1>1. IInv => OneRuntime
    BY DEF IInv, CreatedIsRegistered, RunningIsCreated, OneRuntime,
           OneRuntimePerCity, NoLeakedRuntime
  <1> QED
    BY <1>1, Inductive, PTL

\* A shutdown that cleared the registry left running only late runtimes.
THEOREM Shutdown == Spec => []ShutdownIsComplete
  <1>1. IInv => ShutdownIsComplete
    BY DEF IInv
  <1> QED
    BY <1>1, Inductive, PTL

\* No request waits for a build that has settled.
THEOREM NoStrandedRequest == Spec => []WaitersHaveABuild
  <1>1. IInv => WaitersHaveABuild
    BY DEF IInv
  <1> QED
    BY <1>1, Inductive, PTL
=============================================================================
