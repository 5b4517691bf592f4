----------------------------- MODULE RunSummary -----------------------------
(***************************************************************************)
(* The one run-summary subscription of the browser: its cached-data hook,  *)
(* last-good retention, one-time upgrade, bounded retry and event-driven   *)
(* refresh (frontend/src/runs/runSummarySubscription.tsx over              *)
(* frontend/src/hooks/useCachedData.ts), for one city.                     *)
(*                                                                         *)
(* A state update becomes visible to the refs and effects of the component *)
(* only when React renders it: Render is a step of its own, and timers,    *)
(* events and answers may come before it.  A snapshot is represented by    *)
(* how it is labelled and by the version of the beads it shows.            *)
(***************************************************************************)
EXTENDS Integers, FiniteSets

CONSTANTS
    Loads,          \* calls of runFetcher that may be in flight at once
    None,           \* no load
    MaxWorld        \* bound on the changes of the beads

\* What the constants are to be; an instance for TLC assumes it.
Assumptions ==
  /\ None \notin Loads /\ Cardinality(Loads) > 1
  /\ MaxWorld \in Nat \ {0}

VARIABLES
    world,      \* supervisor: version of the beads
    told,       \* whether the stream has yet to call onMatch for a change
    load,       \* load -> its fetcher and the version it has read
    latest,     \* the load whose id is runIdRef.current
    data,       \* useCachedData: data
    dirty,      \* whether data was set since the last render
    shown,      \* the rendered data (runs, runsStatusRef)
    showsLoading, \* the rendered loading (loadingRef)
    lastGood,   \* lastGoodRef
    failed,     \* staleDueToFailureRef
    upgraded,   \* fullRefreshKeyRef names the city
    attempt,    \* retryAttemptRef
    retry,      \* whether the retry timer is armed
    pending,    \* pendingRefreshRef
    trailing,   \* trailingTimerRef
    recent,     \* whether lastRefreshAt is less than REFRESH_DEBOUNCE_MS ago
    kept,       \* history: the newest version a match announced and was not
                \* dropped by the debounce floor
    masked      \* history: a superseded wide load has cleared the failure
                \* behind the current data

reads == <<load, latest>>
state == <<data, dirty>>
rendered == <<shown, showsLoading, lastGood>>
recovery == <<upgraded, attempt, retry>>
events == <<pending, trailing, recent>>
history == <<kept, masked>>
vars == <<world, told, reads, state, rendered, failed, recovery, events, history>>

Versions == 1 .. MaxWorld
MaxAttempts == 3
Idle == [kind |-> "idle", seen |-> 0]
Begun(kind) == [kind |-> kind, seen |-> 0]
InFlight(l) == load[l].kind # "idle"
Loading == latest # None

Snapshot(status, seen, empty) == [status |-> status, seen |-> seen, empty |-> empty]
Nothing == Snapshot("none", 0, FALSE)
Failure == Snapshot("error", 0, FALSE)
HasLanes(s) == s.status \in {"fresh", "stale"}

\* The mount effect has called the preview fetcher.
Init ==
    /\ world = 1 /\ told = FALSE
    /\ \E l \in Loads :
          /\ load = [x \in Loads |-> IF x = l THEN Begun("preview") ELSE Idle]
          /\ latest = l
    /\ data = Nothing /\ dirty = FALSE
    /\ shown = Nothing /\ showsLoading = TRUE /\ lastGood = Nothing
    /\ failed = FALSE
    /\ upgraded = FALSE /\ attempt = 0 /\ retry = FALSE
    /\ pending = FALSE /\ trailing = "none" /\ recent = FALSE
    /\ kept = 0 /\ masked = FALSE

\* runFetcher: the new load supersedes the one in flight, which goes on.
Start(kind) ==
    \E l \in Loads :
        /\ ~InFlight(l)
        /\ load' = [load EXCEPT ![l] = Begun(kind)]
        /\ latest' = l

\* The upstream read of a load.
Read(l) ==
    /\ InFlight(l)
    /\ load[l].seen = 0
    /\ load' = [load EXCEPT ![l].seen = world]
    /\ UNCHANGED <<world, told, latest, state, rendered, failed, recovery, events, history>>

\* Definitions ending in _Fault are plausible bugs in the definition they
\* precede; each is what some property below must notice.

\* What a refresher returns for a failed read: the last good snapshot, as
\* stale.  The preview has no such wrapper.
Retained_Fault(kind) == Failure
Retained(kind) ==
    IF kind = "preview" \/ lastGood = Nothing THEN Failure
    ELSE [lastGood EXCEPT !.status = "stale"]

\* staleDueToFailureRef after a load: only a wide success clears it.
FailedAfter(kind, how) ==
    CASE how = "error" -> failed \/ (kind # "preview" /\ lastGood # Nothing)
      [] OTHER -> failed /\ kind # "wide"

\* useCachedData: the latest load's result is adopted, a superseded one only
\* while there is no data at all.
Adopts(l) == l = latest \/ data = Nothing

\* Only the end of the latest load ends loading.
LatestAfter_Fault(l) == latest
LatestAfter(l) == IF l = latest THEN None ELSE latest

Settle(l, how) ==
    LET kind == load[l].kind IN
    /\ InFlight(l)
    /\ how # "error" => load[l].seen # 0
    /\ load' = [load EXCEPT ![l] = Idle]
    /\ latest' = LatestAfter(l)
    /\ failed' = FailedAfter(kind, how)
    /\ IF Adopts(l)
       THEN /\ data' = IF how = "error" THEN Retained(kind)
                       ELSE Snapshot("fresh", load[l].seen, how = "empty")
            /\ dirty' = TRUE /\ masked' = FALSE
       ELSE masked' = (masked \/ (failed /\ ~failed')) /\ UNCHANGED state
    /\ UNCHANGED <<world, told, rendered, recovery, events, kept>>

\* The retry effect: a result that is no recovery takes the next delay.
Degraded(s) == s.status = "error" \/ failed \/ s.empty
Retry ==
    CASE ~dirty -> UNCHANGED <<attempt, retry>>
      [] dirty /\ ~Degraded(data) -> attempt' = 0 /\ retry' = FALSE
      [] dirty /\ Degraded(data) ->
            /\ retry' = (attempt < MaxAttempts)
            /\ attempt' = IF attempt < MaxAttempts THEN attempt + 1 ELSE attempt

\* The trailing effect: a match queued during the load refreshes when it has
\* settled, no sooner than the floor.
Scheduled_Fault == IF recent THEN "none" ELSE "due"
Scheduled == IF recent THEN "waiting" ELSE "due"

Trail ==
    CASE showsLoading = Loading -> UNCHANGED <<pending, trailing>>
      [] showsLoading # Loading /\ pending /\ ~Loading ->
            /\ pending' = FALSE
            /\ trailing' = Scheduled
      [] OTHER -> trailing' = "none" /\ UNCHANGED pending

\* The first snapshot with lanes is upgraded once by a wide load.
Upgrades == dirty /\ HasLanes(data) /\ ~upgraded
Upgrade ==
    /\ upgraded' = (upgraded \/ Upgrades)
    /\ IF Upgrades THEN Start("wide") ELSE UNCHANGED reads

Render ==
    /\ dirty \/ showsLoading # Loading
    /\ dirty' = FALSE
    /\ shown' = data
    /\ showsLoading' = Loading
    /\ lastGood' = IF HasLanes(data) THEN data ELSE lastGood
    /\ Upgrade
    /\ Retry
    /\ Trail
    /\ UNCHANGED <<world, told, data, failed, recent, history>>

RetryFires ==
    /\ retry
    /\ retry' = FALSE
    /\ Start("wide")
    /\ UNCHANGED <<world, told, state, rendered, failed, upgraded, attempt, events, history>>

\* The operator presses Refresh.
ManualRefresh ==
    /\ Start("wide")
    /\ UNCHANGED <<world, told, state, rendered, failed, recovery, events, history>>

\* runRefresh: a refresh of the event path, which stands for a queued one.
AfterRefresh_Fault == trailing
AfterRefresh == "none"
RunRefresh ==
    /\ Start("cheap")
    /\ trailing' = AfterRefresh
    /\ recent' = TRUE

\* onSseMatch.
Queues == showsLoading

OnSseMatch ==
    /\ told
    /\ told' = FALSE
    /\ \/ /\ shown = Nothing
          /\ kept' = world
          /\ UNCHANGED <<reads, events>>
       \/ /\ shown # Nothing /\ Queues
          /\ pending' = TRUE
          /\ kept' = world
          /\ UNCHANGED <<reads, trailing, recent>>
       \/ /\ shown # Nothing /\ ~Queues /\ recent
          /\ UNCHANGED <<reads, events, kept>>
       \/ /\ shown # Nothing /\ ~Queues /\ ~recent
          /\ RunRefresh
          /\ kept' = world
          /\ UNCHANGED pending
    /\ UNCHANGED <<world, state, rendered, failed, recovery, masked>>

TrailingFires ==
    /\ trailing = "due"
    /\ RunRefresh
    /\ UNCHANGED <<world, told, state, rendered, failed, recovery, pending, history>>

\* REFRESH_DEBOUNCE_MS have passed since the last event refresh.
FloorPasses ==
    /\ recent
    /\ recent' = FALSE
    /\ trailing' = IF trailing = "waiting" THEN "due" ELSE trailing
    /\ UNCHANGED <<world, told, reads, state, rendered, failed, recovery, pending, history>>

BeadsChange ==
    /\ world < MaxWorld
    /\ world' = world + 1
    /\ told' = TRUE
    /\ UNCHANGED <<reads, state, rendered, failed, recovery, events, history>>

Next ==
    \/ \E l \in Loads : Read(l)
    \/ \E l \in Loads, how \in {"ok", "empty", "error"} : Settle(l, how)
    \/ Render \/ RetryFires \/ TrailingFires \/ FloorPasses
    \/ ManualRefresh \/ OnSseMatch \/ BeadsChange

Spec == Init /\ [][Next]_vars
-----------------------------------------------------------------------------
Snapshots == [status : {"none", "error", "fresh", "stale"}, seen : 0 .. MaxWorld,
              empty : BOOLEAN]

\* Every variable stays in its domain, and loading means that the latest load
\* is in flight.
TypeOK ==
    /\ world \in Versions /\ kept \in 0 .. world
    /\ load \in [Loads -> [kind : {"idle", "preview", "wide", "cheap"},
                           seen : 0 .. MaxWorld]]
    /\ latest \in Loads \cup {None}
    /\ latest # None => InFlight(latest)
    /\ data \in Snapshots /\ shown \in Snapshots /\ lastGood \in Snapshots
    /\ {told, dirty, showsLoading, failed, upgraded, retry, pending, recent, masked}
          \subseteq BOOLEAN
    /\ attempt \in 0 .. MaxAttempts
    /\ trailing \in {"none", "waiting", "due"}

\* A transient failure never blanks lanes the operator already sees
\* (runSummarySubscription.tsx:75-82), whichever load fails and when.
Keeps == HasLanes(shown) => HasLanes(shown')

\* Nothing is under way, and nothing is scheduled.
AtRest ==
    /\ ~Loading /\ ~showsLoading /\ ~dirty /\ ~retry /\ trailing = "none"

\* The subscription comes to rest with retries left only on a snapshot that
\* is good and shows every change it was told of: no failure, no load in
\* flight and no timer loses a match (lines 92 and 226-230).  A match inside
\* the debounce floor of the last event refresh is dropped (line 271).
RestsOnGoodData ==
    AtRest /\ attempt < MaxAttempts /\ ~masked =>
        HasLanes(shown) /\ ~shown.empty /\ shown.seen >= kept

\* Two event refreshes never start within one floor (lines 235-238): neither
\* a due trailing timer beside a leading refresh, nor a match seen before the
\* load it should have waited for is rendered.
KeepsFloor ==
    \A l \in Loads : ~InFlight(l) /\ load'[l].kind = "cheap" => ~recent
=============================================================================
