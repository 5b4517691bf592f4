--------------------------- MODULE CityRegistry ---------------------------
(***************************************************************************)
(* The per-city request plane: the dispatch middleware, the lazy registry  *)
(* of city runtimes and its shared builds, the start and stop of a runtime *)
(* and the shutdown of the process (backend/src/city/registry.ts,          *)
(* city/runtime.ts, middleware/city-dispatch.ts, app.ts, server.ts).       *)
(*                                                                         *)
(* A runtime consists of its samplers (part 0) and its module workers      *)
(* (parts 1 .. Workers), started in that order.  Building is asynchronous  *)
(* only in the listing of the cities; what follows it, up to the return of *)
(* start(), runs without interruption and is one action.                   *)
(***************************************************************************)
EXTENDS Integers, FiniteSets

CONSTANTS
    Cities,     \* valid city names
    BadNames,   \* names the validity check refuses
    Runtimes,   \* identities of the runtimes a process may create
    Requests,   \* concurrent HTTP requests
    Workers     \* number of module workers of a runtime

ASSUME WorkersAssumption == Workers \in Nat
ASSUME NamesAssumption == Cities \cap BadNames = {} /\ "unborn" \notin Cities
ASSUME RuntimesAssumption == "none" \notin Runtimes

VARIABLES
    phase,      \* the process: "up", "stopping", "stopped", or "aborted"
    managed,    \* the cities the supervisor lists
    runtimes,   \* runtimes: city -> runtime, or NoRuntime
    building,   \* the cities whose construction is in flight
    city,       \* runtime -> the city it was created for, or Unborn
    running,    \* runtime -> its parts that run
    request,    \* what each request waits for, or its outcome
    stopping,   \* the runtimes whose stop() stopAll still awaits
    late,       \* history: the runtimes created after shutdown began
    failed      \* history: the cities whose latest build failed

vars == <<phase, managed, runtimes, building, city, running, request,
          stopping, late, failed>>

NoRuntime == "none"
Unborn == "unborn"
Parts == 0 .. Workers
Phases == {"up", "stopping", "stopped", "aborted"}

Idle == [state |-> "idle"]
Waiting(c) == [state |-> "waiting", city |-> c]
Ok(r) == [state |-> "ok", runtime |-> r]
Error(s) == [state |-> "error", status |-> s]

\* writeRouteError's statuses: an invalid name, an unknown city, a start or
\* a mount that throws, and the supervisor failing or timing out.
Statuses == {400, 404, 500, 502, 504}

Results == {Idle} \cup [state : {"waiting"}, city : Cities]
    \cup [state : {"ok"}, runtime : Runtimes]
    \cup [state : {"error"}, status : Statuses]

Init ==
    /\ phase = "up"
    /\ managed \in SUBSET Cities
    /\ runtimes = [c \in Cities |-> NoRuntime]
    /\ building = {}
    /\ city = [r \in Runtimes |-> Unborn]
    /\ running = [r \in Runtimes |-> {}]
    /\ request = [q \in Requests |-> Idle]
    /\ stopping = {}
    /\ late = {}
    /\ failed = {}

\* The server accepts requests until stopAll has returned.
\* Definitions ending in _Fault are plausible bugs in the definition they
\* precede; each is what some property below must notice.
Accepts(q) == phase \in {"up", "stopping"} /\ request[q].state # "waiting"

\* A name that fails the check is refused before any supervisor call.
RejectName(q, name) ==
    /\ Accepts(q)
    /\ name \in BadNames
    /\ request' = [request EXCEPT ![q] = Error(400)]
    /\ UNCHANGED <<phase, managed, runtimes, building, city, running,
                   stopping, late, failed>>

\* resolve finds a registered runtime.
ServeLive(q, c) ==
    /\ Accepts(q)
    /\ runtimes[c] # NoRuntime
    /\ request' = [request EXCEPT ![q] = Ok(runtimes[c])]
    /\ UNCHANGED <<phase, managed, runtimes, building, city, running,
                   stopping, late, failed>>

\* resolve joins the build in flight for the city, or begins one.
Missing(c) == runtimes[c] = NoRuntime

AwaitBuild(q, c) ==
    /\ Accepts(q)
    /\ Missing(c)
    /\ building' = building \cup {c}
    /\ request' = [request EXCEPT ![q] = Waiting(c)]
    /\ UNCHANGED <<phase, managed, runtimes, city, running, stopping, late, failed>>

\* The shared promise settles: its slot is cleared and every request riding
\* it gets the same outcome.
Riders_Fault(c) == {q \in Requests : request[q] = Waiting(c) /\ c \in managed}
Riders(c) == {q \in Requests : request[q] = Waiting(c)}

SettleBuild(c, outcome) ==
    /\ building' = building \ {c}
    /\ request' = [q \in Requests |->
                     IF q \in Riders(c) THEN outcome ELSE request[q]]

\* The listing fails, times out, or does not name the city.
BuildFindsNothing(c) ==
    /\ c \in building
    /\ \/ \E s \in {502, 504} : SettleBuild(c, Error(s))
       \/ c \notin managed /\ SettleBuild(c, Error(404))
    /\ failed' = failed \cup {c}
    /\ UNCHANGED <<phase, managed, runtimes, city, running, stopping, late>>

\* A module's mount throws while the runtime is created.
CreateThrows(c) ==
    /\ c \in building \cap managed
    /\ SettleBuild(c, Error(500))
    /\ failed' = failed \cup {c}
    /\ UNCHANGED <<phase, managed, runtimes, city, running, stopping, late>>

\* What is registered when the start has run n of the workers, and what runs.
WithRuntime_Fault(c, r, n) ==
    IF n = Workers THEN [runtimes EXCEPT ![c] = r] ELSE runtimes
WithRuntime(c, r, n) == [runtimes EXCEPT ![c] = r]
Started_Fault(n) == 0 .. n + 1
Started(n) == 0 .. n

\* The runtime is created, registered, and only then started; the start of
\* worker n + 1 throws if n < Workers, and leaves the parts before it running.
BuildRuntime(c, r, n) ==
    /\ c \in building \cap managed
    /\ city[r] = Unborn
    /\ city' = [city EXCEPT ![r] = c]
    /\ runtimes' = WithRuntime(c, r, n)
    /\ running' = [running EXCEPT ![r] = Started(n)]
    /\ SettleBuild(c, IF n = Workers THEN Ok(r) ELSE Error(500))
    /\ failed' = IF n = Workers THEN failed \ {c} ELSE failed \cup {c}
    /\ late' = IF phase = "up" THEN late ELSE late \cup {r}
    /\ UNCHANGED <<phase, managed, stopping>>

Registered == {runtimes[c] : c \in Cities} \ {NoRuntime}

\* SIGTERM: stopAll calls stop() on every registered runtime.  The server
\* still listens and builds still run.
BeginStop ==
    /\ phase = "up"
    /\ phase' = "stopping"
    /\ stopping' = Registered
    /\ UNCHANGED <<managed, runtimes, building, city, running, request, late, failed>>

\* A runtime's stop(): its workers, then its samplers.
StopRuntime(r) ==
    /\ r \in stopping
    /\ running' = [running EXCEPT ![r] = {}]
    /\ stopping' = stopping \ {r}
    /\ UNCHANGED <<phase, managed, runtimes, building, city, request, late, failed>>

\* A worker's stop() rejects: the samplers are never stopped, Promise.all
\* rejects at once and stopAll returns without clearing the registry, while
\* the other runtimes go on stopping.
StopRejects(r) ==
    /\ r \in stopping
    /\ Workers > 0
    /\ running' = [running EXCEPT ![r] = running[r] \cap {0}]
    /\ stopping' = stopping \ {r}
    /\ phase' = "aborted"
    /\ UNCHANGED <<managed, runtimes, building, city, request, late, failed>>

\* Every stop() resolved: stopAll clears the registry and returns.
AllStopped_Fault == stopping \subseteq Runtimes
AllStopped == stopping = {}

FinishStop ==
    /\ phase = "stopping"
    /\ AllStopped
    /\ phase' = "stopped"
    /\ runtimes' = [c \in Cities |-> NoRuntime]
    /\ UNCHANGED <<managed, building, city, running, request, stopping, late, failed>>

\* The supervisor begins or ceases to manage a city.
Relist ==
    /\ managed' \in SUBSET Cities
    /\ UNCHANGED <<phase, runtimes, building, city, running, request,
                   stopping, late, failed>>

Build(c) ==
    \/ BuildFindsNothing(c)
    \/ CreateThrows(c)
    \/ \E r \in Runtimes, n \in Parts : BuildRuntime(c, r, n)

Next ==
    \/ \E q \in Requests, name \in BadNames : RejectName(q, name)
    \/ \E q \in Requests, c \in Cities : ServeLive(q, c) \/ AwaitBuild(q, c)
    \/ \E c \in Cities : Build(c)
    \/ BeginStop
    \/ \E r \in Runtimes : StopRuntime(r) \/ StopRejects(r)
    \/ FinishStop
    \/ Relist

\* The cities listing is bounded by the client's timeout, so builds settle,
\* and the stop() of a runtime only clears timers, so it settles too.
Fairness ==
    /\ \A c \in Cities : WF_vars(Build(c))
    /\ \A r \in Runtimes : WF_vars(StopRuntime(r) \/ StopRejects(r))
    /\ WF_vars(FinishStop)

Spec == Init /\ [][Next]_vars
FairSpec == Spec /\ Fairness
-----------------------------------------------------------------------------
\* Every variable stays in its domain.
TypeOK ==
    /\ phase \in Phases
    /\ managed \in SUBSET Cities
    /\ runtimes \in [Cities -> Runtimes \cup {NoRuntime}]
    /\ building \in SUBSET Cities
    /\ city \in [Runtimes -> Cities \cup {Unborn}]
    /\ running \in [Runtimes -> SUBSET Parts]
    /\ request \in [Requests -> Results]
    /\ stopping \in SUBSET Runtimes
    /\ late \in SUBSET Runtimes
    /\ failed \in SUBSET Cities

\* Exactly one runtime is ever built for a city (registry.ts:39-43): until
\* shutdown, no second one is created whatever requests race and builds fail.
OneRuntimePerCity ==
    phase # "stopped" => \A r, s \in Runtimes :
        city[r] # Unborn /\ city[r] = city[s] => r = s

\* A runtime with a running part is registered under its city, so stopAll
\* can tear it down, even one whose start() threw half way (92-99).
NoLeakedRuntime ==
    phase # "stopped" => \A r \in Runtimes :
        running[r] # {} => city[r] # Unborn /\ runtimes[city[r]] = r

\* Every city has at most one runtime, and the registry holds it.
OneRuntime == OneRuntimePerCity /\ NoLeakedRuntime

\* No request waits for a build that is not in flight: a settled build's
\* slot never strands a request that joined it.
WaitersHaveABuild ==
    \A q \in Requests : request[q].state = "waiting" => request[q].city \in building

\* When stopAll has returned with the registry cleared (registry.ts:45-46),
\* every runtime created before the shutdown began is fully stopped: only a
\* build that was in flight, or a request served meanwhile, leaves one behind.
ShutdownIsComplete ==
    phase = "stopped" => \A r \in Runtimes : running[r] # {} => r \in late

\* A request that waits is answered.
RequestsAreAnswered ==
    \A q \in Requests :
        request[q].state = "waiting" ~> request[q].state # "waiting"

\* After a build failure the next request for the city retries (registry.ts
\* lines 69 and 121): it is not answered with what the failed build left.
NextRequestRetries ==
    [][\A q \in Requests, c \in Cities : ServeLive(q, c) => c \notin failed]_vars
=============================================================================
