----------------------------- MODULE LiveProofs -----------------------------
(***************************************************************************)
(* The exec runner's semaphore is exact and fair in the order of arrival,  *)
(* for every number of commands and every bound; the polling hooks and the *)
(* event stream hook of a panel have their timers, and the bench that runs *)
(* one of the subjects keeps what each of them keeps.                      *)
(***************************************************************************)
EXTENDS MCLive, FiniteSetTheorems, SequenceTheorems, TLAPS

USE MaxAssumption, NullAssumption, JobsAssumption

LEMMA InitTypeOK == Init => TypeOK
  BY DEF Init, TypeOK, Stages, Children, NoChild, Codes, Outcomes, Pending

\* What releasing a slot leaves typed.
LEMMA ReleaseType ==
  ASSUME TypeOK, NEW j \in Jobs, Release(j)
  PROVE  runningCount' \in Int /\ waiting' \in Seq(Jobs) /\ stage' \in [Jobs -> Stages]
  <1>1. CASE waiting = <<>>
    BY <1>1 DEF Release, TypeOK, Stages
  <1>2. CASE waiting # <<>>
    <2>1. Head(waiting) \in Jobs /\ Tail(waiting) \in Seq(Jobs)
      BY <1>2, HeadTailProperties DEF TypeOK
    <2>2. runningCount' = runningCount /\ waiting' = Tail(waiting)
          /\ stage' = [stage EXCEPT ![j] = "done", ![Head(waiting)] = "granted"]
      BY <1>2 DEF Release
    <2> QED
      BY <2>1, <2>2 DEF TypeOK, Stages
  <1> QED
    BY <1>1, <1>2

LEMMA ResultType ==
  ASSUME NEW code \in Codes, NEW cut \in BOOLEAN
  PROVE  Result(code, cut) \in Outcomes
  BY DEF Result, Codes, Outcomes

LEMMA VerdictType ==
  ASSUME TypeOK, NEW j \in Jobs
  PROVE  Verdict(j) \in Outcomes
  <1>1. child[j].code \in Codes /\ child[j].cut \in BOOLEAN
    BY DEF TypeOK, Children
  <1> QED
    BY <1>1, ResultType DEF Verdict, Outcomes, Rejected

LEMMA TypeStep == TypeOK /\ [Next]_vars => TypeOK'
  <1> SUFFICES ASSUME TypeOK, [Next]_vars PROVE TypeOK'
    OBVIOUS
  <1>1. ASSUME NEW j \in Jobs, Acquire(j) PROVE TypeOK'
    <2>1. arrived' \in Seq(Jobs) /\ Enqueued(j) \in Seq(Jobs)
      BY <1>1, AppendProperties DEF Acquire, TypeOK, Enqueued
    <2>2. runningCount' \in Int /\ waiting' \in Seq(Jobs) /\ stage' \in [Jobs -> Stages]
      <3>1. CASE HasRoom
        BY <1>1, <3>1 DEF Acquire, TypeOK, Stages
      <3>2. CASE ~HasRoom
        BY <1>1, <2>1, <3>2 DEF Acquire, TypeOK, Stages
      <3> QED
        BY <3>1, <3>2
    <2> QED
      BY <1>1, <2>1, <2>2 DEF Acquire, TypeOK
  <1>2. ASSUME NEW j \in Jobs, Spawn(j) PROVE TypeOK'
    BY <1>2 DEF Spawn, TypeOK, Stages, Spawned, Children, Codes
  <1>3. ASSUME NEW j \in Jobs, SpawnError(j) PROVE TypeOK'
    <2>1. child' \in [Jobs -> Children] /\ outcome' \in [Jobs -> Outcomes]
      BY <1>3 DEF SpawnError, TypeOK, Children, Outcomes, Rejected
    <2> QED
      BY <1>3, <2>1, ReleaseType DEF SpawnError, TypeOK
  <1>4. ASSUME NEW j \in Jobs, Overflow(j) PROVE TypeOK'
    BY <1>4 DEF Overflow, TypeOK, Children
  <1>5. ASSUME NEW j \in Jobs, Timer(j) PROVE TypeOK'
    BY <1>5 DEF Timer, TimerLeft, TypeOK, Children
  <1>6. ASSUME NEW j \in Jobs, NEW code \in Codes, Exit(j, code) PROVE TypeOK'
    BY <1>6 DEF Exit, TypeOK, Children
  <1>7. ASSUME NEW j \in Jobs, Close(j) PROVE TypeOK'
    <2>1. child' \in [Jobs -> Children]
      BY <1>7 DEF Close, TypeOK, Children
    <2>2. CASE Unsettled(j)
      BY <1>7, <2>1, <2>2, ReleaseType, VerdictType DEF Close, TypeOK
    <2>3. CASE ~Unsettled(j)
      BY <1>7, <2>1, <2>3 DEF Close, TypeOK
    <2> QED
      BY <2>2, <2>3
  <1>8. CASE UNCHANGED vars
    BY <1>8 DEF vars, TypeOK
  <1> QED
    BY <1>1, <1>2, <1>3, <1>4, <1>5, <1>6, <1>7, <1>8 DEF Next

\* Every variable of the runner keeps its type.
THEOREM TypeCorrect == Spec => []TypeOK
  BY InitTypeOK, TypeStep, PTL DEF Spec
-----------------------------------------------------------------------------
\* What makes the semaphore inductive: a job arrives once, and the queue is
\* exactly the arrivals that have not been granted a slot, in their order.
Granted == Len(arrived) - Len(waiting)

Arrivals ==
    /\ \A i \in 1 .. Len(arrived) : stage[arrived[i]] # "idle"
    /\ \A i, k \in 1 .. Len(arrived) : arrived[i] = arrived[k] => i = k

QueueIsSuffix ==
    /\ Len(waiting) <= Len(arrived)
    /\ \A i \in 1 .. Len(waiting) : waiting[i] = arrived[Granted + i]

QueueIsExact ==
    \A i \in 1 .. Len(arrived) : stage[arrived[i]] = "queued" <=> i > Granted

\* A job that has not settled has no outcome.
PendingUntilDone == \A j \in Jobs : stage[j] # "done" => outcome[j] = Pending

IInv ==
    /\ TypeOK
    /\ SlotsMatchJobs
    /\ Bounded
    /\ WorkConserving
    /\ Arrivals
    /\ QueueIsSuffix
    /\ QueueIsExact
    /\ PendingUntilDone
    /\ KilledIsTimeout

LEMMA InitIInv == Init => IInv
  <1> SUFFICES ASSUME Init PROVE IInv
    OBVIOUS
  <1>1. Holders = {}
    BY DEF Init, Holders
  <1>2. Cardinality(Holders) = 0
    BY <1>1, FS_EmptySet
  <1> QED
    BY <1>2, InitTypeOK
    DEF Init, IInv, SlotsMatchJobs, Bounded, WorkConserving, Arrivals, QueueIsSuffix,
        QueueIsExact, Granted, PendingUntilDone, KilledIsTimeout, Pending

LEMMA HoldersFinite == IsFiniteSet(Holders) /\ Cardinality(Holders) \in Nat
  BY FS_Subset, FS_CardinalityType DEF Holders

\* The longest waiter is still queued.
LEMMA HeadIsQueued ==
  ASSUME IInv, waiting # <<>>
  PROVE  Head(waiting) \in Jobs /\ stage[Head(waiting)] = "queued"
  <1>1. Len(waiting) \in Nat \ {0} /\ Head(waiting) = waiting[1] /\ waiting[1] \in Jobs
    BY HeadTailProperties, LenProperties DEF IInv, TypeOK
  <1>2. Len(arrived) \in Nat /\ Granted + 1 \in 1 .. Len(arrived)
        /\ waiting[1] = arrived[Granted + 1]
    BY <1>1, LenProperties DEF IInv, QueueIsSuffix, Granted, TypeOK
  <1> QED
    BY <1>1, <1>2 DEF IInv, QueueIsExact, Granted

\* Releasing the slot of a running job settles that job and no other.
LEMMA ReleaseSettles ==
  ASSUME IInv, NEW j \in Jobs, stage[j] = "running", Release(j)
  PROVE  /\ stage'[j] = "done"
         /\ \A i \in Jobs \ {j} : stage'[i] # "done" => stage[i] # "done"
  <1>1. CASE waiting = <<>>
    BY <1>1 DEF Release, IInv, TypeOK
  <1>2. CASE waiting # <<>>
    BY <1>2, HeadIsQueued DEF Release, IInv, TypeOK
  <1> QED
    BY <1>1, <1>2

\* The semaphore's part of the invariant.
Semaphore == SlotsMatchJobs /\ Bounded /\ WorkConserving
\* The queue's part.
Queue == Arrivals /\ QueueIsSuffix /\ QueueIsExact
\* The outcomes' part.
Settlement == PendingUntilDone /\ KilledIsTimeout

\* A step that moves no job between slots, queue and the rest.
LEMMA NothingMoves ==
  ASSUME IInv, TypeOK', UNCHANGED <<runningCount, waiting, arrived>>,
         \A j \in Jobs : stage'[j] = stage[j] \/
                         (stage[j] = "granted" /\ stage'[j] = "running")
  PROVE  Semaphore' /\ Queue'
  <1>1. Holders' = Holders
    BY DEF Holders, IInv, TypeOK
  <1>2. Semaphore'
    BY <1>1 DEF IInv, Semaphore, SlotsMatchJobs, Bounded, WorkConserving
  <1>3. \A i \in 1 .. Len(arrived) : arrived[i] \in Jobs
    BY DEF IInv, TypeOK
  <1>4. Queue'
    BY <1>3 DEF IInv, Queue, Arrivals, QueueIsSuffix, QueueIsExact, Granted, TypeOK
  <1> QED
    BY <1>2, <1>4

\* Releasing the slot of a running job hands it to the longest waiter or
\* frees it.
LEMMA ReleaseKeeps ==
  ASSUME IInv, TypeOK', NEW j \in Jobs, stage[j] = "running", Release(j),
         arrived' = arrived
  PROVE  Semaphore' /\ Queue'
  <1>0. IsFiniteSet(Holders) /\ Cardinality(Holders) \in Nat /\ j \in Holders
    BY HoldersFinite DEF Holders
  <1>1. Cardinality(Holders \ {j}) = Cardinality(Holders) - 1 /\ IsFiniteSet(Holders \ {j})
    BY <1>0, FS_RemoveElement
  <1>2. \A i \in 1 .. Len(arrived) : arrived[i] \in Jobs
    BY DEF IInv, TypeOK
  <1>3. CASE waiting = <<>>
    <2>1. stage' = [stage EXCEPT ![j] = "done"] /\ runningCount' = runningCount - 1
          /\ waiting' = waiting
      BY <1>3 DEF Release
    <2>2. Holders' = Holders \ {j}
      BY <2>1 DEF Holders, IInv, TypeOK
    <2>3. Semaphore'
      BY <1>0, <1>1, <1>3, <2>1, <2>2
      DEF IInv, Semaphore, SlotsMatchJobs, Bounded, WorkConserving, TypeOK
    <2>4. Queue'
      BY <1>2, <2>1 DEF IInv, Queue, Arrivals, QueueIsSuffix, QueueIsExact, Granted, TypeOK
    <2> QED
      BY <2>3, <2>4
  <1>4. CASE waiting # <<>>
    <2> DEFINE h == Head(waiting)
    <2>1. stage' = [stage EXCEPT ![j] = "done", ![h] = "granted"]
          /\ runningCount' = runningCount /\ waiting' = Tail(waiting)
      BY <1>4 DEF Release
    <2>2. /\ Len(waiting) \in Nat \ {0} /\ h = waiting[1] /\ h \in Jobs
          /\ Len(waiting') = Len(waiting) - 1
          /\ \A i \in 1 .. Len(waiting') : waiting'[i] = waiting[i + 1]
      BY <1>4, <2>1, HeadTailProperties, LenProperties DEF IInv, TypeOK
    <2>3. /\ Len(arrived) \in Nat /\ Granted + 1 \in 1 .. Len(arrived)
          /\ h = arrived[Granted + 1]
      BY <2>2, LenProperties DEF IInv, QueueIsSuffix, Granted, TypeOK
    <2>4. stage[h] = "queued"
      BY <2>2, <2>3 DEF IInv, QueueIsExact, Granted
    <2>5. h # j /\ h \notin Holders
      BY <2>4 DEF Holders
    <2>6. Holders' = (Holders \ {j}) \cup {h}
      BY <2>1, <2>2, <2>5 DEF Holders, IInv, TypeOK
    <2>7. Cardinality(Holders') = Cardinality(Holders)
      <3>1. h \notin Holders \ {j}
        BY <2>5
      <3>2. Cardinality((Holders \ {j}) \cup {h}) = Cardinality(Holders \ {j}) + 1
        BY <1>1, <3>1, FS_AddElement
      <3> QED
        BY <1>0, <1>1, <2>6, <3>2
    <2>8. Semaphore'
      BY <1>4, <2>1, <2>7 DEF IInv, Semaphore, SlotsMatchJobs, Bounded, WorkConserving
    <2>9. Granted' = Granted + 1
      BY <2>2, <2>3 DEF Granted
    <2>10. \A i \in 1 .. Len(arrived) :
              stage'[arrived[i]] = IF i = Granted + 1 THEN "granted"
                                   ELSE IF arrived[i] = j THEN "done" ELSE stage[arrived[i]]
      BY <1>2, <2>1, <2>3, <2>5 DEF IInv, Arrivals, TypeOK
    <2>11. Arrivals'
      BY <2>10 DEF IInv, Arrivals
    <2>12. QueueIsSuffix'
      <3>1. Len(waiting') <= Len(arrived)
        BY <2>2, <2>3 DEF IInv, QueueIsSuffix
      <3>2. ASSUME NEW i \in 1 .. Len(waiting') PROVE waiting'[i] = arrived[(Granted + 1) + i]
        <4>1. i + 1 \in 1 .. Len(waiting) /\ waiting'[i] = waiting[i + 1]
          BY <2>2
        <4>2. waiting[i + 1] = arrived[Granted + (i + 1)]
          BY <4>1 DEF IInv, QueueIsSuffix
        <4>3. Granted + (i + 1) = (Granted + 1) + i
          BY <2>2, <2>3 DEF Granted
        <4> QED
          BY <4>1, <4>2, <4>3
      <3> QED
        BY <2>9, <3>1, <3>2 DEF QueueIsSuffix
    <2>13. QueueIsExact'
      <3>1. Granted \in Int
        BY <2>2, <2>3 DEF Granted
      <3>2. \A i \in 1 .. Len(arrived) : stage'[arrived[i]] = "queued" <=> i > Granted + 1
        BY <2>3, <2>10, <3>1 DEF IInv, QueueIsExact
      <3> QED
        BY <2>9, <3>2 DEF QueueIsExact
    <2> QED
      BY <2>8, <2>11, <2>12, <2>13 DEF Queue
  <1> QED
    BY <1>3, <1>4

LEMMA AcquireKeeps ==
  ASSUME IInv, TypeOK', NEW j \in Jobs, Acquire(j)
  PROVE  Semaphore' /\ Queue'
  <1>0. IsFiniteSet(Holders) /\ Cardinality(Holders) \in Nat /\ j \notin Holders
    BY HoldersFinite DEF Holders, Acquire
  <1>1. /\ Len(arrived) \in Nat /\ Len(arrived') = Len(arrived) + 1
        /\ \A i \in 1 .. Len(arrived) : arrived'[i] = arrived[i] /\ arrived[i] \in Jobs
        /\ arrived'[Len(arrived) + 1] = j
    BY AppendProperties DEF IInv, TypeOK, Acquire
  <1>2. \A i \in 1 .. Len(arrived) : arrived[i] # j
    BY DEF IInv, Arrivals, Acquire
  <1>3. CASE HasRoom
    <2>1. /\ runningCount' = runningCount + 1 /\ waiting' = waiting
          /\ stage' = [stage EXCEPT ![j] = "granted"]
      BY <1>3 DEF Acquire
    <2>2. waiting = <<>> /\ Len(waiting) = 0
      BY <1>3 DEF IInv, WorkConserving, HasRoom, TypeOK
    <2>3. Holders' = Holders \cup {j}
      BY <2>1 DEF Holders, IInv, TypeOK
    <2>4. Cardinality(Holders') = Cardinality(Holders) + 1
      BY <1>0, <2>3, FS_AddElement
    <2>5. Semaphore'
      BY <1>0, <1>3, <2>1, <2>2, <2>4
      DEF IInv, Semaphore, SlotsMatchJobs, Bounded, WorkConserving, HasRoom
    <2>6. \A i \in 1 .. Len(arrived) : stage'[arrived[i]] = stage[arrived[i]]
      BY <1>1, <1>2, <2>1 DEF IInv, TypeOK
    <2>7. stage'[j] = "granted"
      BY <2>1 DEF IInv, TypeOK
    <2>8. Arrivals'
      BY <1>1, <1>2, <2>6, <2>7 DEF IInv, Arrivals
    <2>9. QueueIsSuffix'
      BY <1>1, <2>1, <2>2 DEF QueueIsSuffix
    <2>10. QueueIsExact'
      BY <1>1, <2>1, <2>2, <2>6, <2>7 DEF IInv, QueueIsExact, Granted
    <2> QED
      BY <2>5, <2>8, <2>9, <2>10 DEF Queue
  <1>4. CASE ~HasRoom
    <2>1. /\ runningCount' = runningCount /\ waiting' = Append(waiting, j)
          /\ stage' = [stage EXCEPT ![j] = "queued"]
      BY <1>4 DEF Acquire, Enqueued
    <2>2. /\ Len(waiting) \in Nat /\ Len(waiting') = Len(waiting) + 1
          /\ \A i \in 1 .. Len(waiting) : waiting'[i] = waiting[i]
          /\ waiting'[Len(waiting) + 1] = j
      BY <2>1, AppendProperties DEF IInv, TypeOK
    <2>3. Holders' = Holders
      BY <1>0, <2>1 DEF Holders, IInv, TypeOK
    <2>4. runningCount = MaxConcurrent
      BY <1>0, <1>4 DEF IInv, SlotsMatchJobs, Bounded, HasRoom, TypeOK
    <2>5. Semaphore'
      BY <2>1, <2>3, <2>4 DEF IInv, Semaphore, SlotsMatchJobs, Bounded, WorkConserving
    <2>6. \A i \in 1 .. Len(arrived) : stage'[arrived[i]] = stage[arrived[i]]
      BY <1>1, <1>2, <2>1 DEF IInv, TypeOK
    <2>7. stage'[j] = "queued"
      BY <2>1 DEF IInv, TypeOK
    <2>8. Granted' = Granted
      BY <1>1, <2>2 DEF Granted
    <2>9. Arrivals'
      BY <1>1, <1>2, <2>6, <2>7 DEF IInv, Arrivals
    <2>10. QueueIsSuffix'
      <3>1. Len(waiting') <= Len(arrived')
        BY <1>1, <2>2 DEF IInv, QueueIsSuffix
      <3>2. ASSUME NEW i \in 1 .. Len(waiting') PROVE waiting'[i] = arrived'[Granted' + i]
        <4>1. CASE i = Len(waiting) + 1
          BY <4>1, <1>1, <2>2, <2>8 DEF Granted
        <4>2. CASE i \in 1 .. Len(waiting)
          <5>1. waiting[i] = arrived[Granted + i] /\ Granted + i \in 1 .. Len(arrived)
            BY <4>2, <1>1, <2>2 DEF IInv, QueueIsSuffix, Granted
          <5> QED
            BY <4>2, <5>1, <1>1, <2>2, <2>8
        <4> QED
          BY <4>1, <4>2, <2>2
      <3> QED
        BY <3>1, <3>2 DEF QueueIsSuffix
    <2>11. QueueIsExact'
      <3>1. Granted <= Len(arrived) /\ Granted \in Int
        BY <1>1, <2>2 DEF Granted
      <3> QED
        BY <1>1, <2>6, <2>7, <2>8, <3>1 DEF IInv, QueueIsExact
    <2> QED
      BY <2>5, <2>9, <2>10, <2>11 DEF Queue
  <1> QED
    BY <1>3, <1>4

LEMMA Step == IInv /\ [Next]_vars => IInv'
  <1> SUFFICES ASSUME IInv, [Next]_vars PROVE IInv'
    OBVIOUS
  <1>0. TypeOK /\ TypeOK'
    BY TypeStep DEF IInv
  <1> DEFINE Goal == Semaphore' /\ Queue' /\ Settlement'
  <1>1. ASSUME NEW j \in Jobs, Acquire(j) PROVE Goal
    <2>1. Settlement'
      BY <1>0, <1>1 DEF Acquire, IInv, Settlement, PendingUntilDone, KilledIsTimeout,
         TypeOK, TimedOut
    <2> QED
      BY <1>0, <1>1, <2>1, AcquireKeeps
  <1>2. ASSUME NEW j \in Jobs, Spawn(j) PROVE Goal
    <2>1. Settlement'
      BY <1>0, <1>2 DEF Spawn, IInv, Settlement, PendingUntilDone, KilledIsTimeout,
         TypeOK, TimedOut, Spawned, Pending
    <2>2. \A i \in Jobs : stage'[i] = stage[i] \/ (stage[i] = "granted" /\ stage'[i] = "running")
      BY <1>0, <1>2 DEF Spawn, TypeOK
    <2> QED
      BY <1>0, <1>2, <2>1, <2>2, NothingMoves DEF Spawn
  <1>3. ASSUME NEW j \in Jobs, SpawnError(j) PROVE Goal
    <2>1. Settlement'
      BY <1>0, <1>3, ReleaseSettles DEF SpawnError, Unsettled, IInv, Settlement,
         PendingUntilDone, KilledIsTimeout, TypeOK, TimedOut, Rejected
    <2> QED
      BY <1>0, <1>3, <2>1, ReleaseKeeps DEF SpawnError, Unsettled
  <1>4. ASSUME NEW j \in Jobs, Overflow(j) PROVE Goal
    <2>1. Settlement'
      BY <1>0, <1>4 DEF Overflow, IInv, Settlement, PendingUntilDone, KilledIsTimeout,
         TypeOK, TimedOut, Children
    <2> QED
      BY <1>0, <1>4, <2>1, NothingMoves DEF Overflow
  <1>5. ASSUME NEW j \in Jobs, Timer(j) PROVE Goal
    <2>1. Settlement'
      BY <1>0, <1>5 DEF Timer, Unsettled, IInv, Settlement, PendingUntilDone,
         KilledIsTimeout, TypeOK, TimedOut, Children, Pending
    <2> QED
      BY <1>0, <1>5, <2>1, NothingMoves DEF Timer
  <1>6. ASSUME NEW j \in Jobs, NEW code \in Codes, Exit(j, code) PROVE Goal
    <2>1. Settlement'
      BY <1>0, <1>6 DEF Exit, IInv, Settlement, PendingUntilDone, KilledIsTimeout,
         TypeOK, TimedOut, Children
    <2> QED
      BY <1>0, <1>6, <2>1, NothingMoves DEF Exit
  <1>7. ASSUME NEW j \in Jobs, Close(j) PROVE Goal
    <2>1. \A i \in Jobs : child'[i].timers = child[i].timers
      BY <1>0, <1>7 DEF Close, TypeOK, Children
    <2>2. CASE Unsettled(j)
      <3>1. TimedOut(j) => Verdict(j).kind # "result"
        BY DEF Verdict, Rejected
      <3>2. Settlement'
        BY <1>0, <1>7, <2>1, <2>2, <3>1, ReleaseSettles DEF Close, Unsettled, IInv,
           Settlement, PendingUntilDone, KilledIsTimeout, TypeOK, TimedOut
      <3> QED
        BY <1>0, <1>7, <2>2, <3>2, ReleaseKeeps DEF Close, Unsettled
    <2>3. CASE ~Unsettled(j)
      <3>1. Settlement'
        BY <1>0, <1>7, <2>1, <2>3 DEF Close, IInv, Settlement, PendingUntilDone,
           KilledIsTimeout, TypeOK, TimedOut
      <3> QED
        BY <1>0, <1>7, <2>3, <3>1, NothingMoves DEF Close
    <2> QED
      BY <2>2, <2>3
  <1>8. ASSUME UNCHANGED vars PROVE Goal
    <2>1. Settlement'
      BY <1>0, <1>8 DEF vars, IInv, Settlement, PendingUntilDone, KilledIsTimeout, TimedOut
    <2> QED
      BY <1>0, <1>8, <2>1, NothingMoves DEF vars
  <1>9. Goal
    BY <1>1, <1>2, <1>3, <1>4, <1>5, <1>6, <1>7, <1>8 DEF Next
  <1> QED
    BY <1>0, <1>9 DEF IInv, Semaphore, Queue, Settlement

\* The strengthened invariant holds in every reachable state.
LEMMA Inductive == Spec => []IInv
  BY InitIInv, Step, PTL DEF Spec

\* The semaphore of acquireSlot and releaseSlot is exact for every bound.
THEOREM SlotsAreExact == Spec => []SemaphoreIsExact
  <1>1. IInv => SemaphoreIsExact
    BY DEF IInv, SemaphoreIsExact
  <1> QED
    BY <1>1, Inductive, PTL

\* Commands get their slots in the order they asked for them.
THEOREM NoOvertaking == Spec => []FirstComeFirstServed
  <1>1. IInv => FirstComeFirstServed
    <2> SUFFICES ASSUME IInv, NEW i \in 1 .. Len(arrived), NEW k \in 1 .. Len(arrived),
                        i < k, stage[arrived[i]] = "queued"
                 PROVE  stage[arrived[k]] = "queued"
      BY DEF FirstComeFirstServed
    <2>1. Granted \in Int
      BY LenProperties DEF IInv, TypeOK, Granted
    <2> QED
      BY <2>1 DEF IInv, QueueIsExact
  <1> QED
    BY <1>1, Inductive, PTL

\* A command that was killed after its timeout never reports a result.
THEOREM KillsAreReported == Spec => []KilledIsTimeout
  <1>1. IInv => KilledIsTimeout
    BY DEF IInv
  <1> QED
    BY <1>1, Inductive, PTL
-----------------------------------------------------------------------------
\* The polling hooks.  The places hold, in this order, hook, needs, enabled,
\* hidden, clock, age, failures, barred, shown and quiet.
\*
\* A poller is mounted before it is enabled.
LEMMA PollInitIInv == ASSUME Poll!Assumptions, Poll!Init PROVE Poll!IInv
  <1>1. Interval \in Nat /\ Interval > 0 /\ MaxBackoff \in Nat /\ MaxFailures \in Nat /\ Slowest \in Nat
    BY DEF Poll!Assumptions
  <1>2. Poll!TypeOK
    <2>1. v5 \in 0 .. Interval - 1 /\ v8 \in 0 .. MaxBackoff /\ v7 \in 0 .. MaxFailures
      BY <1>1 DEF Poll!Init
    <2> QED
      BY <2>1 DEF Poll!Init, Poll!TypeOK
  <1>3. Poll!PollerIsAlive /\ Poll!SilenceIsBounded
    BY <1>1 DEF Poll!Init, Poll!PollerIsAlive, Poll!SilenceIsBounded, Poll!InFlight
  <1> QED
    BY <1>2, <1>3 DEF Poll!IInv

\* A tick that is not skipped begins a load.
LEMMA TickIs ==
    ASSUME Poll!Assumptions, Poll!IInv, Poll!Tick
    PROVE  /\ v6' \in {Poll!None} \cup 0 .. Slowest
           /\ v9' \in {"idle", "loading", "failed", "ready", "refreshing"}
           /\ v9' \in {"loading", "refreshing"} => v6' # Poll!None
           /\ Poll!Skips => v6' = v6
           /\ ~Poll!Skips => v6' = 0
  BY DEF Poll!Assumptions, Poll!IInv, Poll!TypeOK, Poll!PollerIsAlive, Poll!Tick, Poll!InFlight, Poll!None, Poll!Loaded

\* The backoff has a limit.
LEMMA BackoffIs == ASSUME Poll!Assumptions, Poll!TypeOK PROVE Poll!Backoff \in 0 .. MaxBackoff
  BY DEF Poll!Assumptions, Poll!TypeOK, Poll!Backoff, Poll!Least

\* Time passes.
LEMMA PassIInv == ASSUME Poll!Assumptions, Poll!IInv, Poll!Pass PROVE Poll!IInv'
  <1> USE DEF Poll!None
  <1>1. /\ Interval \in Nat /\ Interval > 0 /\ MaxBackoff \in Nat /\ Slowest \in Nat
        /\ v5 \in 0 .. Interval - 1 /\ v8 \in 0 .. MaxBackoff /\ v10 \in Nat
        /\ v6 \in {Poll!None} \cup 0 .. Slowest
        /\ v5' = IF Poll!Elapses THEN 0 ELSE v5 + 1
        /\ v8' = IF v8 = 0 THEN 0 ELSE v8 - 1
        /\ v10' = IF v6' = 0 \/ v4 \/ Poll!InFlight THEN 0 ELSE v10 + 1
        /\ Poll!InFlight => v10 = 0
        /\ v8 > 0 => v10 + v8 <= MaxBackoff
        /\ v10 <= MaxBackoff + v5
    BY DEF Poll!Pass, Poll!Assumptions, Poll!IInv, Poll!TypeOK, Poll!SilenceIsBounded
  <1>2. v5' \in 0 .. Interval - 1 /\ v8' \in 0 .. MaxBackoff /\ v10' \in Nat
    BY <1>1 DEF Poll!Elapses
  <1>3. /\ v6' \in {Poll!None} \cup 0 .. Slowest
        /\ v9' \in {"idle", "loading", "failed", "ready", "refreshing"}
        /\ v9' \in {"loading", "refreshing"} => v6' # Poll!None
        /\ v6' # Poll!None => v6' = 0 \/ Poll!InFlight
    <2>1. CASE Poll!Tick
      BY <2>1, TickIs DEF Poll!InFlight
    <2>2. CASE v6' = (IF Poll!InFlight THEN Poll!Least(v6 + 1, Slowest) ELSE Poll!None) /\ UNCHANGED v9
      BY <1>1, <2>2 DEF Poll!InFlight, Poll!Least, Poll!IInv, Poll!TypeOK, Poll!PollerIsAlive
    <2> QED
      BY <2>1, <2>2 DEF Poll!Pass
  <1>4. Poll!Elapses /\ v8' = 0 => v10' = 0
    <2> SUFFICES ASSUME Poll!Elapses, v8' = 0, ~v4, ~Poll!InFlight
                 PROVE  v6' = 0
      BY <1>1
    <2>1. Poll!Tick /\ v4' = v4 /\ v1 \in {"abortable", "waiting"}
      BY DEF Poll!Pass, Poll!IInv, Poll!TypeOK
    <2> QED
      BY <2>1, TickIs DEF Poll!Skips
  <1>5. /\ v8' > 0 => v10' + v8' <= MaxBackoff
        /\ v10' <= MaxBackoff + v5'
    BY <1>1, <1>4 DEF Poll!Elapses
  <1>6. v6' # Poll!None => v10' = 0
    BY <1>1, <1>3
  <1>7. v10' < MaxBackoff + Interval
    BY <1>1, <1>2, <1>5
  <1>8. UNCHANGED <<v1, v2, v3, v4, v7>>
    BY DEF Poll!Pass
  <1> QED
    BY <1>2, <1>3, <1>5, <1>6, <1>7, <1>8 DEF Poll!IInv, Poll!TypeOK, Poll!PollerIsAlive, Poll!SilenceIsBounded, Poll!InFlight

\* No silence at all is within the bound.
LEMMA NoSilence ==
    ASSUME Poll!Assumptions, NEW c \in 0 .. Interval - 1, NEW b \in 0 .. MaxBackoff
    PROVE  0 < MaxBackoff + Interval /\ 0 + b <= MaxBackoff /\ 0 <= MaxBackoff + c
  BY DEF Poll!Assumptions

\* What ends a silence leaves the types and the load of a spinner to show.
LEMMA SilenceEnds ==
    ASSUME Poll!Assumptions, Poll!TypeOK', v10' = 0, v9' \in {"loading", "refreshing"} => v6' # Poll!None
    PROVE  Poll!IInv'
  <1>1. v5' \in 0 .. Interval - 1 /\ v8' \in 0 .. MaxBackoff
    BY DEF Poll!TypeOK
  <1>2. /\ v10' < MaxBackoff + Interval /\ v10' + v8' <= MaxBackoff
        /\ v10' <= MaxBackoff + v5'
    BY <1>1, NoSilence
  <1> QED
    BY <1>2 DEF Poll!IInv, Poll!PollerIsAlive, Poll!SilenceIsBounded, Poll!InFlight

\* Nothing that happens to a poller lengthens its silence beyond the bound.
LEMMA PollNextIInv == ASSUME Poll!Assumptions, Poll!IInv, [Poll!Next]_(Poll!vars) PROVE Poll!IInv'
  <1>1. /\ Poll!TypeOK /\ (Poll!InFlight => v10 = 0)
        /\ v9 \in {"loading", "refreshing"} => v6 # Poll!None
    BY DEF Poll!IInv, Poll!PollerIsAlive, Poll!SilenceIsBounded, Poll!InFlight
  <1>2. CASE Poll!Pass
    BY <1>2, PassIInv
  <1>3. CASE Poll!Lands
    <2>1. Poll!TypeOK'
      BY <1>1, <1>3 DEF Poll!Lands, Poll!TypeOK, Poll!Assumptions
    <2> QED
      BY <1>1, <1>3, <2>1, SilenceEnds DEF Poll!Lands
  <1>4. CASE Poll!Fails
    <2>1. Poll!Least(v7 + 1, MaxFailures) \in 0 .. MaxFailures
      BY <1>1 DEF Poll!Assumptions, Poll!Least, Poll!TypeOK
    <2>2. v7' \in 0 .. MaxFailures /\ v8' \in 0 .. MaxBackoff
      BY <1>1, <1>4, <2>1, BackoffIs DEF Poll!Fails, Poll!TypeOK
    <2>3. v9' \in {"ready", "failed"} /\ v6' = Poll!None
          /\ UNCHANGED <<v1, v2, v3, v4, v5>>
      BY <1>4 DEF Poll!Fails
    <2>4. Poll!TypeOK'
      BY <1>1, <2>2, <2>3 DEF Poll!TypeOK
    <2> QED
      BY <1>1, <1>4, <2>3, <2>4, SilenceEnds DEF Poll!Fails
  <1>5. CASE Poll!Hides
    <2>1. Poll!TypeOK'
      BY <1>1, <1>5 DEF Poll!Hides, Poll!TypeOK
    <2> QED
      BY <1>1, <1>5, <2>1, SilenceEnds DEF Poll!Hides
  <1>6. CASE Poll!Returns
    <2>1. /\ v6' \in {Poll!None} \cup 0 .. Slowest
          /\ v9' \in {"idle", "loading", "failed", "ready", "refreshing"}
          /\ v9' \in {"loading", "refreshing"} => v6' # Poll!None
      <3>1. CASE Poll!Tick
        BY <3>1, TickIs
      <3>2. CASE UNCHANGED <<v6, v9>>
        BY <1>1, <3>2 DEF Poll!TypeOK
      <3> QED
        BY <1>6, <3>1, <3>2 DEF Poll!Returns
    <2>2. Poll!TypeOK'
      BY <1>1, <1>6, <2>1 DEF Poll!Returns, Poll!TypeOK
    <2> QED
      BY <1>6, <2>1, <2>2, SilenceEnds DEF Poll!Returns
  <1>7. CASE Poll!Enables
    <2>1. /\ v6' \in {Poll!None} \cup 0 .. Slowest
          /\ v9' \in {"idle", "loading", "failed", "ready", "refreshing"}
          /\ v9' \in {"loading", "refreshing"} => v6' # Poll!None
      <3>1. CASE Poll!Tick
        BY <3>1, TickIs
      <3>2. CASE UNCHANGED <<v6, v9>>
        BY <1>1, <3>2 DEF Poll!TypeOK
      <3> QED
        BY <1>7, <3>1, <3>2 DEF Poll!Enables
    <2>2. Poll!TypeOK'
      <3>1. Interval \in Nat /\ Interval > 0
        BY DEF Poll!Assumptions
      <3> QED
        BY <1>1, <1>7, <2>1, <3>1 DEF Poll!Enables, Poll!TypeOK
    <2> QED
      BY <1>7, <2>1, <2>2, SilenceEnds DEF Poll!Enables
  <1>8. CASE Poll!Disables
    <2>1. Interval \in Nat /\ Interval > 0 /\ MaxBackoff \in Nat /\ MaxFailures \in Nat
      BY DEF Poll!Assumptions
    <2>2. Poll!TypeOK'
      <3>1. /\ v7' \in 0 .. MaxFailures /\ v8' \in 0 .. MaxBackoff
            /\ v6' \in {Poll!None} \cup 0 .. Slowest
            /\ v9' \in {"idle", "loading", "failed", "ready", "refreshing"}
        BY <1>1, <1>8, <2>1 DEF Poll!Disables, Poll!TypeOK
      <3>2. 0 \in 0 .. Interval - 1
        BY <2>1
      <3> QED
        BY <1>1, <1>8, <3>1, <3>2 DEF Poll!Disables, Poll!TypeOK
    <2> QED
      BY <1>1, <1>8, <2>2, SilenceEnds DEF Poll!Disables
  <1>9. CASE UNCHANGED Poll!vars
    BY <1>9 DEF Poll!vars, Poll!IInv, Poll!TypeOK, Poll!PollerIsAlive, Poll!SilenceIsBounded, Poll!InFlight
  <1> QED
    BY <1>2, <1>3, <1>4, <1>5, <1>6, <1>7, <1>8, <1>9 DEF Poll!Next
-----------------------------------------------------------------------------
\* The event stream of a panel, for every window of the throttle and every
\* bound on the clock and the events.  The places hold, in this order, now,
\* emitted, connectable, mounted, source, cursor, timers, due, state, gaveUp,
\* lastFire, fires, heard and owed.
\*
\* Before the panel is mounted.
LEMMA StreamInitIInv == ASSUME Stream!Assumptions, Stream!Init PROVE Stream!IInv
  <1>1. Stream!TypeOK
    <2>1. v1 \in 0 .. MaxTime /\ v8 \in 0 .. v1 + Window /\ v11 \in 0 .. v1
      BY DEF Stream!Assumptions, Stream!Init
    <2>2. v2 \in 0 .. MaxEvents /\ v6 \in 0 .. v2 /\ v13 \in SUBSET (1 .. v2)
      BY DEF Stream!Assumptions, Stream!Init
    <2>3. v3 \in BOOLEAN /\ v4 \in BOOLEAN /\ v10 \in BOOLEAN /\ v14 \in BOOLEAN
      BY DEF Stream!Init
    <2> QED
      BY <2>1, <2>2, <2>3 DEF Stream!Init, Stream!TypeOK, Stream!ConnStates, Stream!Timers
  <1> QED
    BY <1>1 DEF Stream!Init, Stream!IInv, Stream!TimersFitTheSource, Stream!EveryStateHasATimer,
      Stream!NothingAfterUnmount,
      Stream!TrailingIsExact, Stream!OwedIsArmed

\* Types are preserved by every step.
LEMMA StreamTypeStep == ASSUME Stream!Assumptions, Stream!IInv, [Stream!Next]_(Stream!vars) PROVE Stream!TypeOK'
  <1> USE DEF Stream!Assumptions, Stream!IInv, Stream!TypeOK, Stream!ConnStates, Stream!Timers,
    Stream!env, Stream!throttle
  <1>1. CASE Stream!Mount
    BY <1>1 DEF Stream!Mount, Stream!Connect
  <1>2. CASE Stream!Unmount
    BY <1>2 DEF Stream!Unmount, Stream!Kept
  <1>3. CASE Stream!Rebind
    BY <1>3 DEF Stream!Rebind, Stream!Connect, Stream!Kept
  <1>4. CASE Stream!Accept
    BY <1>4 DEF Stream!Accept
  <1>5. CASE Stream!OnOpen
    BY <1>5 DEF Stream!OnOpen, Stream!Proven, Stream!Arming
  <1>6. CASE Stream!Match
    <2>1. v13' \in SUBSET (1 .. v2') /\ v6' \in 0 .. v2' /\ v2' = v2
      BY <1>6 DEF Stream!Match
    <2>2. v8' \in 0 .. v1 + Window /\ v11' \in 0 .. v1 /\ v12' \in Nat /\ v14' \in BOOLEAN
      <3>1. CASE Stream!OutsideWindow
        <4>1. v8' = v8 /\ v11' = v1 /\ v12' = v12 + 1 /\ v14' = FALSE
          BY <1>6, <3>1 DEF Stream!Match, Stream!Fire
        <4>2. v1 \in 0 .. v1 /\ v12 + 1 \in Nat
          OBVIOUS
        <4> QED
          BY <4>1, <4>2
      <3>2. CASE ~Stream!OutsideWindow
        <4>1. Stream!DueAt \in 0 .. v1 + Window
          BY <3>2 DEF Stream!OutsideWindow, Stream!DueAt
        <4>2. v8' \in {v8, Stream!DueAt} /\ v11' = v11 /\ v12' = v12 /\ v14' = TRUE
          BY <1>6, <3>2 DEF Stream!Match
        <4> QED
          BY <4>1, <4>2
      <3> QED
        BY <3>1, <3>2
    <2>3. v7' \in SUBSET Stream!Timers /\ v9' \in Stream!ConnStates
      BY <1>6 DEF Stream!Match, Stream!Leading, Stream!Trailing, Stream!Proven, Stream!Arming
    <2> QED
      BY <1>6, <2>1, <2>2, <2>3 DEF Stream!Match
  <1>7. CASE Stream!OnError
    BY <1>7 DEF Stream!OnError, Stream!AfterError
  <1>8. CASE Stream!GoesSilent
    BY <1>8 DEF Stream!GoesSilent
  <1>9. ASSUME NEW malformed \in BOOLEAN, Stream!OtherFrame(malformed) PROVE Stream!TypeOK'
    BY <1>9 DEF Stream!OtherFrame, Stream!Proven, Stream!Arming
  <1>10. CASE Stream!GraceFires
    BY <1>10 DEF Stream!GraceFires, Stream!Proven, Stream!Arming
  <1>11. CASE Stream!WatchdogFires
    BY <1>11 DEF Stream!WatchdogFires
  <1>12. CASE Stream!RetryFires
    BY <1>12 DEF Stream!RetryFires, Stream!Connect
  <1>13. CASE Stream!CoalesceFires
    <2>1. v1' = v1 /\ v11' = v1 /\ v12' = v12 + 1 /\ v14' = FALSE
      BY <1>13 DEF Stream!CoalesceFires, Stream!Fire
    <2>2. v1 \in 0 .. v1 /\ v12 + 1 \in Nat
      OBVIOUS
    <2> QED
      BY <1>13, <2>1, <2>2 DEF Stream!CoalesceFires
  <1>14. CASE Stream!Emit
    <2>1. v2' \in 0 .. MaxEvents /\ v6 \in 0 .. v2' /\ v13 \in SUBSET (1 .. v2')
      BY <1>14 DEF Stream!Emit
    <2> QED
      BY <1>14, <2>1 DEF Stream!Emit
  <1>15. CASE Stream!Tick
    <2>1. v1' \in 0 .. MaxTime /\ v8 \in 0 .. v1' + Window /\ v11 \in 0 .. v1'
      BY <1>15 DEF Stream!Tick
    <2> QED
      BY <1>15, <2>1 DEF Stream!Tick
  <1>16. CASE Stream!CityChanges
    BY <1>16 DEF Stream!CityChanges
  <1>17. CASE UNCHANGED Stream!vars
    BY <1>17 DEF Stream!vars
  <1> QED
    BY <1>1, <1>2, <1>3, <1>4, <1>5, <1>6, <1>7, <1>8, <1>9, <1>10, <1>11, <1>12, <1>13,
      <1>14, <1>15, <1>16, <1>17 DEF Stream!Next, Stream!TimerFires

\* Connection and timers fit after every step.
LEMMA StreamTimersStep ==
    ASSUME Stream!Assumptions, Stream!IInv, [Stream!Next]_(Stream!vars)
    PROVE  Stream!TimersFitTheSource' /\ Stream!EveryStateHasATimer' /\ Stream!NothingAfterUnmount'
  <1> DEFINE Fits == Stream!TimersFitTheSource /\ Stream!EveryStateHasATimer /\ Stream!NothingAfterUnmount
  <1> USE DEF Stream!IInv, Stream!TimersFitTheSource, Stream!EveryStateHasATimer,
    Stream!NothingAfterUnmount, Stream!env, Stream!throttle
  <1>1. CASE Stream!Mount
    BY <1>1 DEF Stream!Mount, Stream!Connect
  <1>2. CASE Stream!Unmount
    BY <1>2 DEF Stream!Unmount, Stream!Kept
  <1>3. CASE Stream!Rebind
    BY <1>3 DEF Stream!Rebind, Stream!Connect, Stream!Kept
  <1>4. CASE Stream!Accept
    BY <1>4 DEF Stream!Accept
  <1>5. CASE Stream!OnOpen
    BY <1>5 DEF Stream!OnOpen, Stream!Proven, Stream!Arming
  <1>6. CASE Stream!Match
    <2>1. /\ v5 = "live" /\ v5' = v5 /\ v9' = "open" /\ v4' = v4
          /\ "watchdog" \in v7' /\ v7' \subseteq v7 \cup {"watchdog", "coalesce"}
      BY <1>6 DEF Stream!Match, Stream!Leading, Stream!Trailing, Stream!Proven, Stream!Arming
    <2> QED
      BY <2>1
  <1>7. CASE Stream!OnError
    BY <1>7 DEF Stream!OnError, Stream!AfterError
  <1>8. CASE Stream!GoesSilent
    BY <1>8 DEF Stream!GoesSilent
  <1>9. ASSUME NEW malformed \in BOOLEAN, Stream!OtherFrame(malformed) PROVE Fits'
    BY <1>9 DEF Stream!OtherFrame, Stream!Proven, Stream!Arming
  <1>10. CASE Stream!GraceFires
    BY <1>10 DEF Stream!GraceFires, Stream!Proven, Stream!Arming
  <1>11. CASE Stream!WatchdogFires
    BY <1>11 DEF Stream!WatchdogFires
  <1>12. CASE Stream!RetryFires
    BY <1>12 DEF Stream!RetryFires, Stream!Connect
  <1>13. CASE Stream!CoalesceFires
    BY <1>13 DEF Stream!CoalesceFires
  <1>14. CASE Stream!Emit \/ Stream!CityChanges \/ Stream!Tick
    BY <1>14 DEF Stream!Emit, Stream!CityChanges, Stream!Tick
  <1>15. CASE UNCHANGED Stream!vars
    BY <1>15 DEF Stream!vars
  <1> QED
    BY <1>1, <1>2, <1>3, <1>4, <1>5, <1>6, <1>7, <1>8, <1>9, <1>10, <1>11, <1>12, <1>13,
      <1>14, <1>15 DEF Stream!Next, Stream!TimerFires

\* The throttle after every step.
LEMMA StreamThrottleStep ==
    ASSUME Stream!Assumptions, Stream!IInv, [Stream!Next]_(Stream!vars)
    PROVE  Stream!TrailingIsExact' /\ Stream!OwedIsArmed'
  <1> DEFINE Exact == Stream!TrailingIsExact /\ Stream!OwedIsArmed
  <1> USE DEF Stream!IInv, Stream!TrailingIsExact, Stream!OwedIsArmed, Stream!NothingAfterUnmount,
    Stream!env, Stream!throttle
  <1>1. CASE Stream!Mount
    BY <1>1 DEF Stream!Mount, Stream!Connect
  <1>2. CASE Stream!Unmount
    BY <1>2 DEF Stream!Unmount, Stream!Kept
  <1>3. CASE Stream!Rebind
    BY <1>3 DEF Stream!Rebind, Stream!Connect, Stream!Kept
  <1>4. CASE Stream!Accept \/ Stream!OnOpen \/ Stream!GoesSilent \/ Stream!OnError
    BY <1>4 DEF Stream!Accept, Stream!OnOpen, Stream!GoesSilent, Stream!OnError, Stream!AfterError,
      Stream!Proven, Stream!Arming
  <1>5. CASE Stream!Match
    <2>1. CASE Stream!OutsideWindow
      BY <1>5, <2>1 DEF Stream!Match, Stream!Leading, Stream!Proven, Stream!Arming, Stream!Fire
    <2>2. CASE ~Stream!OutsideWindow
      <3>1. v8' = v11 + Window
        BY <1>5, <2>2 DEF Stream!Match, Stream!DueAt, Stream!TypeOK, Stream!Assumptions
      <3> QED
        BY <1>5, <2>2, <3>1 DEF Stream!Match, Stream!Trailing
    <2> QED
      BY <2>1, <2>2
  <1>6. ASSUME NEW malformed \in BOOLEAN, Stream!OtherFrame(malformed) PROVE Exact'
    BY <1>6 DEF Stream!OtherFrame, Stream!Proven, Stream!Arming
  <1>7. CASE Stream!GraceFires \/ Stream!WatchdogFires \/ Stream!RetryFires
    BY <1>7 DEF Stream!GraceFires, Stream!WatchdogFires, Stream!RetryFires, Stream!Connect,
      Stream!Proven, Stream!Arming
  <1>8. CASE Stream!CoalesceFires
    BY <1>8 DEF Stream!CoalesceFires, Stream!Fire
  <1>9. CASE Stream!Emit \/ Stream!CityChanges \/ Stream!Tick
    BY <1>9 DEF Stream!Emit, Stream!CityChanges, Stream!Tick
  <1>10. CASE UNCHANGED Stream!vars
    BY <1>10 DEF Stream!vars
  <1> QED
    BY <1>1, <1>2, <1>3, <1>4, <1>5, <1>6, <1>7, <1>8, <1>9, <1>10 DEF Stream!Next, Stream!TimerFires

\* A call of onMatch comes one window after the last.
LEMMA StreamCallsAreSpaced ==
    ASSUME Stream!Assumptions, Stream!IInv, [Stream!Next]_(Stream!vars)
    PROVE  Stream!ThrottledStep
  <1> SUFFICES ASSUME v12' > v12 PROVE v1 - v11 >= Window
    BY DEF Stream!ThrottledStep
  <1> USE DEF Stream!IInv, Stream!TypeOK, Stream!Assumptions
  <1>1. CASE Stream!Match
    BY <1>1 DEF Stream!Match, Stream!OutsideWindow
  <1>2. CASE Stream!CoalesceFires
    BY <1>2 DEF Stream!CoalesceFires, Stream!TrailingIsExact
  <1>3. CASE Stream!Mount
    BY <1>3 DEF Stream!Mount
  <1>4. CASE Stream!Unmount \/ Stream!Rebind \/ Stream!Accept \/ Stream!OnOpen \/ Stream!OnError \/ Stream!GoesSilent
    BY <1>4 DEF Stream!Unmount, Stream!Rebind, Stream!Accept, Stream!OnOpen, Stream!OnError,
      Stream!GoesSilent, Stream!throttle
  <1>5. CASE \E malformed \in BOOLEAN : Stream!OtherFrame(malformed)
    BY <1>5 DEF Stream!OtherFrame, Stream!throttle
  <1>6. CASE Stream!GraceFires \/ Stream!WatchdogFires \/ Stream!RetryFires \/ Stream!Emit \/ Stream!CityChanges \/ Stream!Tick
    BY <1>6 DEF Stream!GraceFires, Stream!WatchdogFires, Stream!RetryFires, Stream!Emit,
      Stream!CityChanges, Stream!Tick, Stream!throttle
  <1>7. CASE UNCHANGED Stream!vars
    BY <1>7 DEF Stream!vars
  <1> QED
    BY <1>1, <1>2, <1>3, <1>4, <1>5, <1>6, <1>7 DEF Stream!Next, Stream!TimerFires

\* No step breaks the invariant.
LEMMA StreamNextIInv == ASSUME Stream!Assumptions, Stream!IInv, [Stream!Next]_(Stream!vars) PROVE Stream!IInv'
  BY StreamTypeStep, StreamTimersStep, StreamThrottleStep DEF Stream!IInv

\* The invariant holds of every behaviour.
LEMMA StreamInvariant == ASSUME Stream!Assumptions PROVE Stream!Spec => []Stream!IInv
  <1>1. Stream!Init => Stream!IInv
    BY StreamInitIInv
  <1>2. Stream!IInv /\ [Stream!Next]_(Stream!vars) => Stream!IInv'
    BY StreamNextIInv
  <1> QED
    BY <1>1, <1>2, PTL DEF Stream!Spec
-----------------------------------------------------------------------------
\* No state of the connection is a dead end: each has the timer that ends it
\* (connect, onopen, onerror and the idle watchdog).
THEOREM NoDeadEnd == ASSUME Stream!Assumptions PROVE Stream!Spec => []Stream!EveryStateHasATimer
  <1>1. Stream!IInv => Stream!EveryStateHasATimer
    BY DEF Stream!IInv
  <1> QED
    BY <1>1, StreamInvariant, PTL

\* Nothing calls back a panel that was unmounted (the cleanup of the effect).
THEOREM CleanupIsComplete == ASSUME Stream!Assumptions PROVE Stream!Spec => []Stream!NothingAfterUnmount
  <1>1. Stream!IInv => Stream!NothingAfterUnmount
    BY DEF Stream!IInv
  <1> QED
    BY <1>1, StreamInvariant, PTL

\* A match inside the window is owed to the trailing timer, which is due
\* within one window of the last call (scheduleMatch).
THEOREM MatchesAreKept == ASSUME Stream!Assumptions PROVE Stream!Spec => []Stream!OwedIsScheduled
  <1>1. ASSUME Stream!Assumptions PROVE Stream!IInv => Stream!OwedIsScheduled
    BY <1>1 DEF Stream!Assumptions, Stream!IInv, Stream!TypeOK, Stream!OwedIsScheduled,
      Stream!OwedIsArmed, Stream!TrailingIsExact
  <1> QED
    BY <1>1, StreamInvariant, PTL

\* Two calls of onMatch are a window apart (fireMatch, scheduleMatch).
THEOREM CallsAreThrottled == ASSUME Stream!Assumptions PROVE Stream!Spec => Stream!Throttled
  <1>1. Stream!IInv /\ [Stream!Next]_(Stream!vars) => [Stream!ThrottledStep]_(Stream!vars)
    BY StreamCallsAreSpaced
  <1> QED
    BY <1>1, StreamInvariant, PTL DEF Stream!Spec, Stream!Throttled
-----------------------------------------------------------------------------
\* The subject of a behaviour stays, and its steps are steps of its component.
LEMMA OneSubject ==
    ASSUME [LiveNext]_All
    PROVE  /\ subject' = subject
           /\ [Next]_vars
           /\ subject = "client" => [Client!Next]_(Client!vars)
           /\ subject = "jobs" => [Triage!Next]_(Triage!vars)
           /\ subject = "stream" => [Stream!Next]_(Stream!vars)
           /\ subject = "poll" => [Poll!Next]_(Poll!vars)
  <1> USE DEF Pool, Spare4, Spare10, Spare14
  <1>1. CASE UNCHANGED All
    BY <1>1 DEF All, Client!vars, Triage!vars, Triage!jobs, Triage!files, Triage!pages,
      Stream!vars, Poll!vars
  <1>2. CASE ExecNext
    BY <1>2 DEF ExecNext, ExecStep
  <1>3. CASE ClientNext
    BY <1>3 DEF ClientNext, ClientStep
  <1>4. CASE TriageNext
    BY <1>4 DEF TriageNext, TriageStep, Triage!Next
  <1>5. CASE StreamNext
    BY <1>5 DEF StreamNext, StreamStep
  <1>6. CASE PollNext
    BY <1>6 DEF PollNext, PollStep
  <1> QED
    BY <1>1, <1>2, <1>3, <1>4, <1>5, <1>6 DEF LiveNext

\* The invariant of the component that is the subject.
SubjectIInv ==
    /\ subject = "client" => Client!IInv
    /\ subject = "jobs" => Triage!FullIInv
    /\ subject = "stream" => Stream!IInv
    /\ subject = "poll" => Poll!IInv

\* No step of the bench breaks it.
LEMMA SubjectStep == ASSUME SubjectIInv, [LiveNext]_All PROVE SubjectIInv'
  <1> USE InstancesAreAllowed
  <1>1. subject = "client" => Client!IInv'
    BY OneSubject, Client!NextIInv DEF SubjectIInv
  <1>2. subject = "jobs" => Triage!FullIInv'
    BY OneSubject, Triage!NextFullIInv DEF SubjectIInv
  <1>3. subject = "stream" => Stream!IInv'
    BY OneSubject, StreamNextIInv DEF SubjectIInv
  <1>4. subject = "poll" => Poll!IInv'
    BY OneSubject, PollNextIInv DEF SubjectIInv
  <1> QED
    BY <1>1, <1>2, <1>3, <1>4, OneSubject DEF SubjectIInv

\* It holds of every behaviour of the bench.
LEMMA LiveInvariant == LiveSpec => []SubjectIInv
  <1>1. ASSUME LiveInit PROVE SubjectIInv
    BY <1>1, InstancesAreAllowed, Client!InitIInv, Triage!InitFullIInv, StreamInitIInv, PollInitIInv
    DEF LiveInit, SubjectIInv
  <1>2. LiveSpec => LiveInit /\ [][LiveNext]_All
    BY DEF LiveSpec
  <1> QED
    BY <1>1, <1>2, SubjectStep, PTL
-----------------------------------------------------------------------------
\* Every subject keeps the types its module states.
THEOREM LiveTypes == LiveSpec => []TypesOK
  <1>1. SubjectIInv => TypesOK
    <2>1. Triage!FullIInv => Triage!TypeOK
      BY InstancesAreAllowed, Triage!TypeIs DEF Triage!FullIInv
    <2> QED
      BY <2>1 DEF SubjectIInv, TypesOK, Client!IInv, Stream!IInv, Poll!IInv
  <1> QED
    BY <1>1, LiveInvariant, PTL

\* Each state of the stream hook has the timer that ends it, an owed call of
\* onMatch the trailing timer, a spinner its load, and no silence of a poller
\* outlasts the longest backoff and one interval (useGcEvents.ts,
\* useAbortableVisibleRefresh.ts, useVisibleRefresh.ts).
THEOREM TimersArmed == LiveSpec => []TimersAreArmed
  <1>1. SubjectIInv => TimersAreArmed
    <2>1. ASSUME Stream!IInv
          PROVE  Stream!EveryStateHasATimer /\ Stream!NothingAfterUnmount /\ Stream!OwedIsScheduled
      <3>1. Stream!OwedIsScheduled
        BY <2>1, InstancesAreAllowed DEF Stream!Assumptions, Stream!IInv, Stream!TypeOK,
          Stream!OwedIsScheduled, Stream!OwedIsArmed, Stream!TrailingIsExact
      <3> QED
        BY <2>1, <3>1 DEF Stream!IInv
    <2> QED
      BY <2>1 DEF SubjectIInv, TimersAreArmed, Poll!IInv
  <1> QED
    BY <1>1, LiveInvariant, PTL

\* Two calls of onMatch are a window apart (fireMatch, scheduleMatch).
THEOREM CallsThrottled == LiveSpec => Throttled
  <1>1. ASSUME SubjectIInv, [LiveNext]_All PROVE [subject = "stream" => Stream!ThrottledStep]_All
    BY <1>1, OneSubject, InstancesAreAllowed, StreamCallsAreSpaced DEF SubjectIInv
  <1>2. LiveSpec => [][LiveNext]_All
    BY DEF LiveSpec
  <1> QED
    BY <1>1, <1>2, LiveInvariant, PTL DEF Throttled
=============================================================================
