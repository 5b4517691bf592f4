-------------------------------- MODULE MCLive --------------------------------
(*****************************************************************************)
(* The subjects that must make progress, on small instances for TLC: the     *)
(* runner of host commands (ExecPool), the backend's coalesced reads         *)
(* (GcClient), the refreshes of the maintainer's module (MaintainerTriage,   *)
(* without its pages), the event stream hook of a panel (GcEventStream) and  *)
(* the two polling hooks (VisibleRefresh).  They do not interact: a          *)
(* behaviour is one of one of them.                                          *)
(*****************************************************************************)
EXTENDS ExecPool

CONSTANTS
  Callers, Aborting, Operations, Fetches,                           \* of GcClient
  Items, Pages, TmpNames, MaxOps, Missing, Torn, Unread,            \* of MaintainerTriage
  Window, MaxTime, MaxEvents,                                       \* of GcEventStream
  Interval, InitialBackoff, MaxBackoff, MaxFailures, Slowest        \* of VisibleRefresh

VARIABLES
  subject,   \* whose behaviour this is
  v1, v2, v3, v4, v5, v6, v7, v8, v9, v10, v11, v12, v13, v14, v15, v16, v17
  \* the places its variables are kept in

Pool == vars
All == <<Pool, subject, v1, v2, v3, v4, v5, v6, v7, v8, v9, v10, v11, v12, v13,
  v14, v15, v16, v17>>

\* A module of theorems is instantiated in place of the one it extends, so that
\* what is proved of a component can be cited of the bench.
Client == INSTANCE GcClientProofs WITH
  inflight <- v1, fetch <- v2, caller <- v3, abandoned <- v4

Triage == INSTANCE MaintainerTriageProofs WITH
  vetted <- v1, stage <- v2, fetched
  <- v3, cacheQ <- v4, tmp <- v5, tmpOf <- v6, cacheFile <- v7, slungFile <-
  v8, slungQ <- v9, misread <- v10, open <- v11, event <- v12, get <- v13,
  half <- v14, shown <- v15, failed <- v16, missed <- v17

Stream == INSTANCE GcEventStream WITH
  now <- v1, emitted <- v2,
  connectable <- v3, mounted <- v4, source <- v5, cursor <- v6, timers <- v7,
  due <- v8, state <- v9, gaveUp <- v10, lastFire <- v11, fires <- v12, heard
  <- v13, owed <- v14

Poll == INSTANCE VisibleRefresh WITH
  hook <- v1, needs <- v2, enabled <- v3, hidden <- v4, clock <-
  v5, age <- v6, failures <- v7, barred <- v8, shown <- v9, quiet <- v10

\* The places a subject has no variable for.
Spare4 == <<v5, v6, v7, v8, v9, v10, v11, v12, v13, v14, v15, v16, v17>>
Spare10 == <<v11, v12, v13, v14, v15, v16, v17>>
Spare14 == <<v15, v16, v17>>
Empty4 == v5 = "-" /\ v6 = "-" /\ v7 = "-" /\ v8 = "-" /\ v9 = "-" /\ v10 =
  "-" /\ v11 = "-" /\ v12 = "-" /\ v13 = "-" /\ v14 = "-" /\ v15 = "-" /\ v16
  = "-" /\ v17 = "-"
Empty10 == v11 = "-" /\ v12 = "-" /\ v13 = "-" /\ v14 = "-" /\ v15 = "-" /\
  v16 = "-" /\ v17 = "-"
Empty14 == v15 = "-" /\ v16 = "-" /\ v17 = "-"

Empty == v1 = "-" /\ v2 = "-" /\ v3 = "-" /\ v4 = "-" /\ Empty4

LiveInit ==
  /\ Init
  /\ \/ subject = "exec" /\ Empty
     \/ subject = "client" /\ Client!Init /\ Empty4
     \/ subject = "jobs" /\ Triage!Init
     \/ subject = "stream" /\ Stream!Init /\ Empty14
     \/ subject = "poll" /\ Poll!Init /\ Empty10

\* A step of the subject leaves the other places alone.
ExecStep(step) == subject = "exec" /\ step /\ UNCHANGED <<subject, v1, v2, v3, v4, Spare4>>
ClientStep(step) == subject = "client" /\ step /\ UNCHANGED <<subject, Pool, Spare4>>
TriageStep(step) == subject = "jobs" /\ step /\ UNCHANGED <<subject, Pool>>
StreamStep(step) == subject = "stream" /\ step /\ UNCHANGED <<subject, Pool, Spare14>>
PollStep(step) == subject = "poll" /\ step /\ UNCHANGED <<subject, Pool, Spare10>>

\* Where the runner may stop: every command settled and its child closed.
ExecRests == \A j \in Jobs : stage[j] = "done" /\ child[j].closed

ExecNext == ExecStep(Next) \/ ExecStep(ExecRests /\ UNCHANGED Pool)
ClientNext == ClientStep(Client!Next)
TriageNext == TriageStep(Triage!NextJobs)
StreamNext == StreamStep(Stream!Next)
PollNext == PollStep(Poll!Next)
LiveNext == ExecNext \/ ClientNext \/ TriageNext \/ StreamNext \/ PollNext

\* The assumptions each module makes of its constants.
ASSUME InstancesAreAllowed ==
  Client!Assumptions /\ Triage!Assumptions /\ Stream!Assumptions /\ Poll!Assumptions

\* What each of them is promised: ExecPool's own Fairness, fetchOnce aborts upstream after its timeout,
\* disk operations and the bounded gh commands of a fetch come to an end, the
\* event loop runs a timer that is due, and a load that may answer does before
\* more time passes for ever.
ClientFairness == \A x \in Fetches :
  WF_All(ClientStep(\E how \in Client!Outcomes : Client!Settle(x, how)))
TriageFairness ==
  /\ \A j \in Triage!RefreshJobs : WF_All(TriageStep(Triage!RefreshStep(j)))
  /\ WF_All(TriageStep(Triage!SlungStep))
StreamFairness ==
  /\ WF_All(StreamStep(Stream!GraceFires))
  /\ WF_All(StreamStep(Stream!WatchdogFires))
  /\ WF_All(StreamStep(Stream!RetryFires))
PollFairness ==
  /\ WF_All(PollStep(Poll!Pass))
  /\ SF_All(PollStep(Poll!Lands \/ Poll!Fails))

LiveSpec ==
  /\ LiveInit /\ [][LiveNext]_All
  /\ Fairness /\ ClientFairness /\ TriageFairness /\ StreamFairness /\ PollFairness
-----------------------------------------------------------------------------
\* Each subject keeps the types its module states.
TypesOK ==
  /\ subject = "client" => Client!TypeOK
  /\ subject = "jobs" => Triage!TypeOK
  /\ subject = "stream" => Stream!TypeOK
  /\ subject = "poll" => Poll!TypeOK

\* What was asked for ends: every command of the runner settles and gives its
\* slot back, a child that ignores SIGTERM included; every call of the client
\* ends, whoever aborted before it; every refresh of the triage cache ends,
\* whatever the one before it on the write chain met, and through crashes
\* (exec-core.ts, gc-client.ts, views/modules/maintainer/cache.ts).
WorkEnds ==
  /\ \A j \in Jobs :
       (subject = "exec" /\ stage[j] = "queued") ~> (subject = "exec" /\ stage[j] = "done")
  /\ \A c \in Callers :
       (subject = "client" /\ Client!Awaits(c)) ~> (subject = "client" /\ Client!Free(c))
  /\ \A j \in Triage!RefreshJobs :
       (subject = "jobs" /\ Triage!Refreshing(j)) ~> (subject = "jobs" /\ ~Triage!Refreshing(j))

\* Nothing of a panel stalls.  Each state of the stream hook has the timer
\* that ends it, an owed call of onMatch has the trailing timer, an unmounted
\* panel keeps neither timer nor stream; a polling hook that shows a spinner
\* has a load behind it, and failures slow a visible poller down by no more
\* than the longest backoff and the interval it ends in (useGcEvents.ts,
\* useAbortableVisibleRefresh.ts, useVisibleRefresh.ts).
TimersAreArmed ==
  /\ subject = "stream" =>
       Stream!EveryStateHasATimer /\ Stream!NothingAfterUnmount /\ Stream!OwedIsScheduled
  /\ subject = "poll" => Poll!PollerIsAlive

\* Two calls of onMatch are at least one window apart, however late the
\* trailing timer runs and however often the stream reconnects.
Throttled == [][subject = "stream" => Stream!ThrottledStep]_All

\* A stream that went silent, or never opened, does not read as open for ever.
NotStuckOpen ==
  (subject = "stream" /\ Stream!StuckOpen) ~> (subject = "stream" /\ ~Stream!StuckOpen)

\* A load that needs less than the interval is not given up for ever by the
\* ticks that abort the load before them.
LoadsLand ==
  (subject = "poll" /\ Poll!Hopeful) ~> (subject = "poll" /\ ~Poll!Hopeful)
===============================================================================
