------------------------------ MODULE ExecPool ------------------------------
(***************************************************************************)
(* The runner every host command goes through: a counting semaphore with a *)
(* FIFO of waiters, and the life of one child process with its timers, its *)
(* output cap and its 'error' and 'close' events                           *)
(* (backend/src/exec-core.ts).                                             *)
(***************************************************************************)
EXTENDS Integers, Sequences, FiniteSets

CONSTANTS
    Jobs,           \* calls of runExec
    MaxConcurrent,  \* maxConcurrent
    Null            \* the exit code of a child that died of a signal

ASSUME MaxAssumption == MaxConcurrent \in Nat \ {0}
ASSUME NullAssumption == Null \notin Int
ASSUME JobsAssumption == IsFiniteSet(Jobs)

VARIABLES
    runningCount,   \* slots taken
    waiting,        \* FIFO of the jobs whose tryAcquire waits
    stage,          \* job -> where its runExec stands
    child,          \* job -> its child process and timers
    outcome,        \* job -> how its promise settled
    arrived         \* history: the jobs in the order they asked

vars == <<runningCount, waiting, stage, child, outcome, arrived>>

Stages == {"idle", "queued", "granted", "running", "done"}
Holders == {j \in Jobs : stage[j] \in {"granted", "running"}}

\* A child: whether it lives, whether its pipes have closed, how many of its
\* two timers have fired, whether its output was cut, and its exit code.
Codes == {0, 1, Null}
NoChild == [alive |-> FALSE, closed |-> TRUE, timers |-> 0, cut |-> FALSE, code |-> Null]
Spawned == [alive |-> TRUE, closed |-> FALSE, timers |-> 0, cut |-> FALSE, code |-> Null]
Children == [alive : BOOLEAN, closed : BOOLEAN, timers : 0 .. 2, cut : BOOLEAN,
             code : Codes]
TimedOut(j) == child[j].timers = 2
Signalled(j) == child[j].timers > 0 \/ child[j].cut

\* Definitions ending in _Fault are plausible bugs in the definition they
\* precede; each is what some property below must notice.
Pending == [kind |-> "pending"]
Result_Fault(code, cut) == [kind |-> "result", code |-> code, truncated |-> cut]
Result(code, cut) == [kind |-> "result", code |-> IF code = Null THEN -1 ELSE code,
                      truncated |-> cut]
Rejected(k) == [kind |-> k]
Outcomes == {Pending, Rejected("spawn"), Rejected("timeout")}
    \cup [kind : {"result"}, code : {-1, 0, 1}, truncated : BOOLEAN]

Init ==
    /\ runningCount = 0
    /\ waiting = <<>>
    /\ stage = [j \in Jobs |-> "idle"]
    /\ child = [j \in Jobs |-> NoChild]
    /\ outcome = [j \in Jobs |-> Pending]
    /\ arrived = <<>>

HasRoom == runningCount < MaxConcurrent

Enqueued_Fault(j) == <<j>> \o waiting
Enqueued(j) == Append(waiting, j)

\* runExec asks for a slot: it gets one, or tryAcquire joins the queue.
Acquire(j) ==
    /\ stage[j] = "idle"
    /\ arrived' = Append(arrived, j)
    /\ IF HasRoom
       THEN /\ runningCount' = runningCount + 1
            /\ stage' = [stage EXCEPT ![j] = "granted"]
            /\ UNCHANGED waiting
       ELSE /\ waiting' = Enqueued(j)
            /\ stage' = [stage EXCEPT ![j] = "queued"]
            /\ UNCHANGED runningCount
    /\ UNCHANGED <<child, outcome>>

\* The awaited slot arrives and the child is spawned.
Spawn(j) ==
    /\ stage[j] = "granted"
    /\ stage' = [stage EXCEPT ![j] = "running"]
    /\ child' = [child EXCEPT ![j] = Spawned]
    /\ UNCHANGED <<runningCount, waiting, outcome, arrived>>

\* releaseSlot, called once by the finally of runExec: the count drops and
\* the longest waiter takes the slot before anyone else can ask for it.
Release(j) ==
    IF waiting = <<>>
    THEN /\ runningCount' = runningCount - 1
         /\ stage' = [stage EXCEPT ![j] = "done"]
         /\ UNCHANGED waiting
    ELSE /\ stage' = [stage EXCEPT ![j] = "done", ![Head(waiting)] = "granted"]
         /\ waiting' = Tail(waiting)
         /\ UNCHANGED runningCount

\* The promise of a child settles at most once; an event after that finds
\* it settled.
Unsettled_Fault(j) == stage[j] \in {"running", "done"}
Unsettled(j) == stage[j] = "running"

\* The executable cannot be spawned: 'error', which 'close' still follows.
SpawnError(j) ==
    /\ Unsettled(j)
    /\ child[j] = Spawned
    /\ child' = [child EXCEPT ![j].alive = FALSE]
    /\ outcome' = [outcome EXCEPT ![j] = Rejected("spawn")]
    /\ Release(j)
    /\ UNCHANGED arrived

\* Output beyond maxBytes is cut and the child is sent SIGTERM.
Overflow(j) ==
    /\ Unsettled(j)
    /\ ~child[j].closed
    /\ child' = [child EXCEPT ![j].cut = TRUE]
    /\ UNCHANGED <<runningCount, waiting, stage, outcome, arrived>>

\* After timeoutMs spawn sends SIGTERM; 500 ms later the runner's own timer
\* marks the job timed out and sends SIGKILL.  The events clear the timer.
TimerLeft_Fault(j) == child[j].timers < 1
TimerLeft(j) == child[j].timers < 2

Timer(j) ==
    /\ Unsettled(j)
    /\ TimerLeft(j)
    /\ child' = [child EXCEPT ![j].timers = @ + 1]
    /\ UNCHANGED <<runningCount, waiting, stage, outcome, arrived>>

\* The child exits: by itself, or of a signal it was sent.
Exit(j, code) ==
    /\ child[j].alive
    /\ code = Null => Signalled(j)
    /\ child' = [child EXCEPT ![j].alive = FALSE, ![j].code = code]
    /\ UNCHANGED <<runningCount, waiting, stage, outcome, arrived>>

Verdict_Fault(j) == Result(child[j].code, child[j].cut)
Verdict(j) ==
    IF TimedOut(j) THEN Rejected("timeout") ELSE Result(child[j].code, child[j].cut)

\* 'close': the child is gone and its pipes are closed.
Close(j) ==
    /\ ~child[j].alive
    /\ ~child[j].closed
    /\ child' = [child EXCEPT ![j].closed = TRUE]
    /\ IF Unsettled(j)
       THEN /\ outcome' = [outcome EXCEPT ![j] = Verdict(j)]
            /\ Release(j)
       ELSE UNCHANGED <<runningCount, waiting, stage, outcome>>
    /\ UNCHANGED arrived

Next == \E j \in Jobs :
    \/ Acquire(j)
    \/ Spawn(j)
    \/ SpawnError(j)
    \/ Overflow(j)
    \/ Timer(j)
    \/ \E code \in Codes : Exit(j, code)
    \/ Close(j)

\* A granted job spawns, timers fire, a child sent SIGKILL dies and its pipes
\* close; nothing else is owed by the outside.
Fairness == \A j \in Jobs :
    /\ WF_vars(Spawn(j))
    /\ WF_vars(Timer(j))
    /\ WF_vars(TimedOut(j) /\ \E code \in Codes : Exit(j, code))
    /\ WF_vars(Close(j))

Spec == Init /\ [][Next]_vars
-----------------------------------------------------------------------------
\* Every variable stays in its domain.
TypeOK ==
    /\ runningCount \in Int
    /\ waiting \in Seq(Jobs)
    /\ stage \in [Jobs -> Stages]
    /\ child \in [Jobs -> Children]
    /\ outcome \in [Jobs -> Outcomes]
    /\ arrived \in Seq(Jobs)

\* Every slot taken is held by a job, and each job holds one: no path through
\* 'error', 'close', the timers or both events leaks or returns a slot twice.
SlotsMatchJobs == runningCount = Cardinality(Holders)

\* At most MaxConcurrent commands hold a slot at once.
Bounded == Cardinality(Holders) <= MaxConcurrent

\* A job waits only while every slot is taken.
WorkConserving == waiting # <<>> => runningCount = MaxConcurrent

\* The semaphore neither leaks a slot, nor grants one too many, nor lets one
\* lie idle while a job waits.
SemaphoreIsExact == SlotsMatchJobs /\ Bounded /\ WorkConserving

\* Slots are granted in the order they were asked for: a newcomer never
\* overtakes a waiter between a release and the waiter's wake-up.
FirstComeFirstServed ==
    \A i, k \in 1 .. Len(arrived) :
        i < k /\ stage[arrived[i]] = "queued" => stage[arrived[k]] = "queued"

\* A command that had to be killed is never reported as a result (the
\* verdict 'timeout' wins over whatever the exit code says).
KilledIsTimeout ==
    \A j \in Jobs : outcome[j].kind = "result" => ~TimedOut(j)
=============================================================================
