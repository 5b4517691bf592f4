# TLA+ verification of the gas-city dashboard

The dashboard is a React single-page application, an Express backend and a
shared TypeScript library, in front of the gc *supervisor* (an external Go
service that owns cities, beads, sessions, runs and mail). This directory holds
TLA+ models of the parts of the dashboard where order, failure and staleness
matter, TLC configurations that check them on small instances, and TLAPS proofs
of the facts that matter most.

## 1. Inventory

| Part | State it keeps | Operations | What is hard | What makes it correct |
|---|---|---|---|---|
| Supervisor transport proxy and its cache (`backend/src/routes/supervisor-transport-proxy.ts`, `lib/ttl-single-flight-cache.ts`) | key -> in-flight load or ready value | `getOrFetch` plain and forced, settle, sweep | superseded loads resolving late, failures, coalescing, forced refresh | answers respect a freshness floor, the cache never regresses, nobody is stranded |
| City registry and dispatch (`city/registry.ts`, `city/runtime.ts`, `middleware/city-dispatch.ts`, `app.ts`, `server.ts`) | live runtimes, builds in flight | `resolve`, `build`, `start`, `stop`, `stopAll` | shared builds, throwing `start()`, shutdown during a build | one runtime per city, none leaked, every request answered |
| Exec runner (`exec-core.ts`, `exec.ts`) | running count, FIFO of waiters; per process: timers, buffers, verdict | `acquireSlot`, `releaseSlot`, spawn, kill, truncate | close racing a timeout or a spawn error, slot leaks | never more than the bound, every waiter runs, one settlement per run |
| GcClient and samplers (`gc-client.ts`, `routes/dolt.ts`, `routes/supervisor-status.ts`, `routes/rig-store-health.ts`) | in-flight read per operation; last sample, ring | `getOperation`, `sampleOnce`, `start`, `stop`, reports, the probe of one rig's store | aborting callers of a shared read, samples landing out of order or after stop | a caller's abort never cancels another; a report is what some sample said; a green store was good |
| Run diff (`runs/diff.ts`, `runs/run-diff-policy.ts`) | none between answers | three git reads at once, then two, then one per untracked file within a budget | lists that are cut, reads that fail, a working tree that moves meanwhile | an answer not called truncated lists and shows exactly what differs |
| Maintainer module (`views/modules/maintainer/`) | triage envelope on disk, sling records, SSE clients, refresher timers | scheduled and manual refresh, sling record, purge, overlay, SSE | read-modify-write of a file by two writers, crash between write and rename, older fetch overwriting a newer | no sling is lost, a reader never sees half a file, each item is listed once with the mark on the next thing to do |
| Health, git, builds, client-error routes | none | host reads | - | - |
| SSE stream hook (`frontend/src/hooks/useGcEvents.ts`) | connection, grace, watchdog, retry and coalesce timers | open, message, error, timers, cleanup | a callback of an old source after reconnect or unmount | at most one source, no callback after cleanup, always reconnecting |
| Cached data hook (`frontend/src/hooks/useCachedData.ts`, `api/cache.ts`) | shared cache, run id, active key, data/error/loading | mount, refresh, cheap refresh, settle, key change | a slow answer for an old key or an old run | the screen shows the active key's data; the latest run wins |
| Run summary subscription (`frontend/src/runs/runSummarySubscription.tsx`) | last good snapshot, failure flag, pending event, retry timer, force flag | wide and cheap refresh, SSE match, retry, manual refresh | stale flags, bounded retries, debounce losing events | a failure never erases the last good snapshot, retries are bounded |
| Session stream, run detail, bead detail, viewing-as, city bootstrap, pollers (`frontend/src/hooks/*`, `contexts/*`) | per hook: abort controllers, generation counters, backoff | fetch, abort, switch, tick | answers for what the operator no longer looks at; a tick that aborts the load before it | stale answers are dropped, a load faster than the interval lands |
| Mail, beads and maintainer pages (`frontend/src/routes/*.tsx`, `supervisor/*Writes.ts`) | selection, what is open, the action under way | open, close, mark, bulk, create, sling | an action awaited while the operator moves on; one write of several failing | an answer is shown under its question; what failed is reported |
| Attention (`frontend/src/attention/`) | facts, age and failure per domain; which reads are out | poll, derive, compose | one contributor failing, hanging, or ageing | a failure is shown, not hidden; a calm board was read |
| Run model (`shared/src/runs/`) | none (pure) | phase mapping, lanes, health, liveness, stranded, blocked, execution instances | classification priority, cycles | total, priority respected |
| Links, convoys, triage, mail, session resolution (`shared/src/links`, `convoy`, `maintainer-triage.ts`, `operator-mail.ts`, `session-resolve.ts`) | none (pure) | projections | cycles, ambiguous names | deterministic, ambiguity never guessed |
| Aquarium (`frontend/src/aquarium/`) | three cached reads, the memory of the derivation, the snapshot; simulated fish | derive, diff, remember; `advanceSim` ticks | reads landing out of order, a leg that fails, a list of rigs that changes | what is eaten has left, what moves moved, the counts agree with the rows |
| Generated client, React views, CSS, scripts | - | - | - | not modelled |

The browser talks to the supervisor through the proxy and to
`/api/city/:name/*`; the latter is dispatched to a city runtime, whose samplers
read the supervisor through one GcClient and whose maintainer module runs a
refresher against the exec runner.

### Behaviours that are hard

* **Superseded work.** Everywhere a read is started it may be overtaken by a
  newer one: forced refreshes in the proxy cache, `runIdRef` in the browser,
  overlapping samples in the backend. What must never happen is that the older
  answer wins.
* **Shared work.** The cache, the city registry and `GcClient` let callers ride
  one operation. What must never happen is that a rider is stranded, that the
  abort of one cancels the others, or that an idle slot is left behind.
* **Chains and files.** The maintainer module serialises writes on promise
  chains and renames temporary files into place, while readers read two files
  in two steps and the process may die between any two.
* **Timers.** The event stream hook and the run summary live on grace, watchdog,
  retry, throttle and trailing timers; every connection state must keep one, and
  none may survive the panel.
* **Delivery.** Server-sent events are lost while a stream is down. The code
  refetches rather than resumes, so what matters is which loss is healed by what.

`PROJECT.json` lists the main hazards one by one, each at the line where it bites,
with the properties that catch it or the reason why none does.

## 2. The modules

Each module names its CONSTANTS, states its variables beside the names they
have in the code, and has one action per handler. JavaScript runs a handler to
its next `await`: a handler, or the piece of one between two awaits, is one
action, and the interleaving is that of handlers. Modules of pure rules have
operators instead, one per function, and are checked over sets of inputs.

### The backend

| Module | Models | State and code |
|---|---|---|
| `SingleFlightCache` | `backend/src/lib/ttl-single-flight-cache.ts` as `routes/supervisor-transport-proxy.ts` calls it | `slot` is `entries`; `Call` is `getOrFetch` with its sweep, hit, join and fetch paths; `Resolve` and `Fail` are the loader's settlement with the ownership test on the token; `Sample` is the upstream read. A value is the instant at which the upstream read it. |
| `FreshnessContract` | what the cache promises, abstractly | a caller asks with a floor, and is delivered something at least that new, or refused; the published value of a key only grows. |
| `CityRegistry` | `city/registry.ts`, `city/runtime.ts`, `middleware/city-dispatch.ts`, the shutdown of `server.ts` | `runtimes` and `building` are the two maps of the registry; what follows the listing of the cities, up to the return of `start()`, is one action, since no await separates it; a `start()` that throws leaves the runtime registered with the parts stopped that `start()` itself stops. |
| `ExecPool` | `exec-core.ts` | `runningCount` and `waiting` are the semaphore; a child has its two timers, its output cap and its `error` and `close` events, whose verdicts are those of `runExec`. |
| `GcClient` | `gc-client.ts` | `inflight` is the map of coalesced reads; `Hears`/`Settle` is `fetchOnce` with its timeout, `Cut`/`Abort` is `withCallerAbort`. |
| `StatusSamplers` | the samplers of `routes/dolt.ts`, `routes/supervisor-status.ts`, `routes/rig-store-health.ts` over the coalesced read | `Sample` starts or joins a read, `Settle` gives all of its riders the answer: the trend pushes, the snapshot replaces or degrades, the rig sample goes on to its probes. |
| `MaintainerTriage` | `worker.ts`, `storage.ts`, `slung-state.ts`, `serve-overlay.ts`, `router.ts`, `sse.ts`, and the page `Maintainer.tsx` | the two files, the temporary files, the two promise chains `cacheQ` and `slungQ`, the stages of a refresh, the two reads of `GET /triage`, the event clients and what the page shows. |
| `MaintainerRules` | `triage.ts`, `classifier.ts`, `triage-assessment.ts`, `blast-radius.ts`, `topics.ts`, `serve-overlay.ts` | no state: what `fetchTriage` makes of the open issues and pull requests, in the order of its stages, with tiers, clusters, the one mark and the overlay of slings. |
| `RunDiff` | `runs/diff.ts`, `runs/run-diff-policy.ts`, the git views of `exec.ts` | one answer: its first three reads, the two that need the comparison, the loop over untracked files in the order of `Rank` with its budget, over a `tree` that an agent may change. |
| `RigStores` | `routes/rig-store-health.ts` | one probe: directory, port file, doctor, connection, and the colour of `rollupFor`, over a `machine` that may change between two looks. |

### The browser

| Module | Models | State and code |
|---|---|---|
| `GcEventStream` | `hooks/useGcEvents.ts` | `source` is the EventSource and how far it is, `timers` those armed, `state` the connection state shown; `Match` with `Leading`/`Trailing` is the throttle. |
| `VisibleRefresh` | `hooks/useAbortableVisibleRefresh.ts`, `hooks/useVisibleRefresh.ts` | `clock` is the interval, `age` the load that is out, `failures` and `barred` the backoff; a tick, a landing, a failure, hiding and showing the tab are actions. |
| `CachedPanel` | `hooks/useCachedData.ts` over `api/cache.ts` | `latest` is `runIdRef`, a load remembers the key its answer is filed under and the key it asked for; rendering under another key and its effect are two actions. |
| `RunSummary` | `runs/runSummarySubscription.tsx` over the hook | `data`/`shown` what was set and what was rendered, `failed`, `attempt`, `pending`, `trailing`, `recent` the refs; `Render` runs the effects that depend on what changed. |
| `MailMarks` | the table of `routes/Mail.tsx` on `CachedPanel` | the selection, the bulk under way and its writes in flight, the flags at the supervisor. |
| `MailThread` | the modal of `routes/Mail.tsx` | what is open, the thread shown, the reads and the one action that are out. |
| `ViewingAs` | `contexts/ViewingAsContext.tsx` | operator, alias and what session storage holds; the two reads of the list with their chain of retries. |
| `SessionTail` | `hooks/useSessionStream.ts`, `LiveSessionPeek.tsx`, `SessionPeek.tsx` | one record per subscription: its read, its stream, and what it has shown. |
| `DetailReads` | `useBeadDetail.ts`, `useEntityLinks.ts`, `useConvoyView.ts`, `useConvoyRoots.ts` | the focus, the reads that are out with their order, what is shown and said. |
| `SlingForms` | the bulk sling of `Maintainer.tsx`, `sling-dispatch.ts`, and the new-bead form of `Beads.tsx` over `beadWrites.ts` | the batch and its chunk, what is recorded, the slings that went out; the form, its error and the beads created. |
| `AttentionRules` | `attention/derive/*`, `compose.ts` | no state: facts to items per domain, then badge, short list, overflow, highlight. |
| `Attention` | `attention/liveContributors.ts`, `components/BoardLiveness.tsx` | facts and age per domain, the reads that are out, the poll that waits for all of them. |
| `RunLanes` | `shared/src/runs`: phase mapping, summary, status, liveness, health; the enrichment of `supervisor/runSummary.ts` | the beads of one run, when they were written, registry and feed, sessions, and the mark that one refresh leaves to the next; the lane is an operator of them. |
| `RunGraph` | `shared/src/runs`: groups, node-shape, execution-instances, edges, display-state, status | no state: the graph of a looped run from what the supervisor says of its beads. |
| `RunDetail` | `supervisor/runDetail.ts`, `coreRead.ts`, `useFormulaRunDetail.ts`; `shared/src/runs`: formula-name, session-link, execution-path, enrich; `RunNodeSessionPanel.tsx` | no state: one load from the outcomes of its three reads — the page it gives, the name of the formula and where it is from, the session of a bead, the folder of the run, the execution whose transcript opens. |
| `RunPage` | `routes/FormulaRunDetail.tsx` with `useFormulaRunDetail.ts`, `useRunDiff.ts`, `useRunNodeSelection.ts`, `runEventIdentity.ts` on `CachedPanel` | two panels: the detail keyed by the run, the diff keyed by the run and the folder which that detail names; the route and its effects, the events, the button and the selected node. |
| `Links` | `shared/src/links`, `shared/src/convoy`, `session-resolve.ts`, `entityLinks.ts`, `convoyReads.ts` | no state: index and neighbours, subtree with its notice, the session of a target. |
| `Reef` | `aquarium/page/useAquariumData.ts`, `aquarium/derive/*`, `AquariumPage.tsx`, `page/ledgerEligibility.ts`, the list of `supervisor/beadReads.ts` | the beads with what takes each off the list (closed, put off, or a type or label that is filtered out), the three reads and their keys, the memory that one derivation leaves to the next, and the snapshot drawn from whatever has landed. |

### Composition

`StatusSamplers` composes the samplers with the join rule of `GcClient`, whose
callers and aborts are checked on their own. `MailMarks` and `RunPage` extend `CachedPanel`;
`RunPage` has a second instance of it, whose key is made of what landed in the
first; and `Attention` extends `AttentionRules`. `RunSummary` takes the calls of
`onMatch` from any moment after a change of the beads, which is what
`GcEventStream` promises; the throttle between the two is checked there.

`MCLive`, `MCServer` and `Pages` extend one module (`ExecPool`, `StatusSamplers`,
`RunSummary`) and each put several of these modules on one
bench; `MCPages` gives `Pages` its small instance. Their parts share no state in the code either (other hooks, other
files), so nothing is gained by interleaving them: the variable `subject` says
whose behaviour this is, an initial state chooses it, and the variables of the
subject live in the places `v1`, `v2`, … given to it by INSTANCE; the places it does
not need hold a mark that no step touches. The constants of a bench are those of
its subjects, under a name of its own where two subjects share one (`Workers` are
the sessions of the aquarium, `PageRuns` the keys of the page of a run). One bench
answers one question about one half of the system, and each of its properties
names what several subjects owe of the same kind. The pure rules of the browser
are subjects too: `Inputs` says what each is tried on, the theorems are about all
inputs that the reads can give (`InputsAreAllowed`), and `MCPages` holds those of
the run.

External behaviour — the supervisor, the clock, the processes run by the
commands, the crash of the backend — is an action without a source line, marked
external in `PROJECT.json`, and as free as the code allows for.

Operators ending in `_Fault` are not part of a model. Each is a plausible bug in
the operator below it and exists so that a reader can put it in its place and
see which property notices.

## 3. The runs

All bounds are CONSTANTS of the modules, given by the MC modules or the `.cfg`
files.

| Run | Instance | States | Shows |
|---|---|---|---|
| `MCSingleFlightCache` | one key, three loads, two callers, TTL 2, four instants | 0.1 M | nothing is orphaned, answers respect the floor and the TTL, the cache does not regress, duplicates are forced, the contract is implemented, callers are answered |
| `MCCityRegistry` | two cities, two runtimes, two requests, two workers | 87 k | one runtime per city and none leaked, shutdown is complete, requests are answered |
| `MCLive` | `ExecPool` (three jobs, one slot), `GcClient` (three callers, two of which abort, two operations, two fetches), the refreshes of `MaintainerTriage` (no page), `GcEventStream` (window 2, seven instants, three events), `VisibleRefresh` (interval 3, loads of at most 4) | 0.15 M | what must keep going does: slots are exact and granted in order, a killed command is a timeout; commands, calls and refreshes end, every state has the timer that ends it, matches are spaced, silence is noticed, loads land |
| `MCServer` | `GcClient` (three fetches), `StatusSamplers` (two reads, two versions, a trend of two), `MaintainerTriage` with a page and with two items, `MaintainerRules` over its cases, `RunDiff` (four files, one of the control plane), `RigStores` (two changes of the machine) | 1.5 M | what the backend is told it keeps: aborts are private, the trend is in order, snapshots and slings are retained, the cache file is whole, a page that missed nothing is current, triage lists each item once with the mark on the next thing to do; what it reports was so: a diff is that of its tree, a green store was good |
| `MCPages` | thirteen subjects of the browser (two loads, two messages, three subscriptions, five detail reads, two items to sling, two polled domains, a run of two stages, a page of one run with two runs, two loads of the detail and two of the diff, an aquarium of two rigs) and nine sets of inputs | 0.72 M | the parts of the browser: see the properties below |
| `MCCityRegistryRetry` | as `MCCityRegistry` | – | **violated**: a runtime whose `start()` threw is served to the next request (finding 1) |
| `MCMaintainerTriagePurge` | one item | – | **violated**: the purge is not only hygiene (finding 2) |
| `MCGcEventStreamGap` | one mounted panel | – | **violated**: a reconnect does not resume (finding 3) |
| `MCMaintainerFiles` | three numbers, two files | – | **violated**: issues never inherit files (finding 4) |
| `MCRunLanesThrash` | one looped step, three attempts | – | **violated**: a step that climbs is not thrashing when each retry has an id of its own (finding 5) |
| `MCReefMoves` | two beads in two rigs, one session | – | **violated**: a rig is said to move in a city where nothing happens (finding 7) |
| `MCAttentionHardError` | one domain | – | **violated**: a domain that cannot be read leaves "all live" (finding 6) |

The properties of `MCPages`:

* `RestsOnGoodData`: what the runs page shows rests on a complete read that knows
  of every change it was told about, or on a failure that is shown as one.
* `AnswersBelong`: an answer is shown under the question it answers — a thread
  under its message, turns under their session, none of them twice, a bead or a
  convoy under its focus, a table under its key — however the operator moves on
  while answers are out. On the page of one run the detail and the selected node
  are those of the run in the address, the diff is that of the folder this very
  detail names, and at rest nothing is older than the last event it was
  refreshed for.
* `WritesAreSeen`: a message marked read does not come back as unread; a bead that
  was created and never slung was reported.
* `EyesAreChosen`: the tab reads as the one the operator chose; what it says of
  missing lists is true; each identity is offered once.
* `NothingUrgentIsHidden`: a calm board is one that was read; "all live" does not
  outlast a read that hangs; each need of the beads is asked once and none that is
  open is left out; what the short list leaves out is counted under its domain and
  is no more urgent than what it shows; a read that failed is shown and colours no
  badge.
* `RunsAreHonest`: a failed step shows in the lane, the phase shown was reached, a
  run called stranded is one nobody drives, thrashing is one step that climbs;
  the graph puts each verdict on the node and the pass it belongs to, and is not
  done while a bead of it runs; the detail is blank only when its one core read
  failed, a name guessed from a title says so, a transcript is that of the session
  the bead recorded, and the diff is taken in the worktree of the run when its
  root records one.
* `LinksAreTrue`: a link leads to a bead that is there and back again; a convoy
  shown as whole is whole; the session of a target is found, or none is guessed.
* `ReefIsTrue`: what is drawn as eaten has left since it was last drawn — closed,
  put off or filtered out, never merely missed by a leg — in a rig said to move
  work moved, an inventory called complete is the city, and the counts are those
  of the rows.
* `NothingIsUndone`: no failure blanks lanes that were shown; a fish leaves only
  when it was missing for the whole window; event refreshes keep
  their floor; an item is slung twice only after a failure that was shown; when a
  send ends each item of it was slung or is still selected.

Why the bounds suffice. The races of the cache need a load, a forced one that
supersedes it and a third that runs after either has left its slot: three loads,
two callers, and a clock that passes the TTL once between two instants it
separates. The registry needs a second request for the city being built and a
second city beside it. A semaphore of one slot has every order of waiters, since
three jobs can be held, queued and arriving. A superseded load, its superseder
and the change of beads between their reads are all that the guards of
`RunSummary` tell apart, so its run has two loads and three worlds, of which the
third comes only once lanes were upgraded and no retry is under way; `RestIsGood`
is proved for any number. One temporary name makes every pair of writers
collide, as two writers in one millisecond do. The throttle repeats after a
window, and seven instants hold three windows. Two messages, two boxes and two
loads have every crossing of two answers; a third subscription is what follows
a cancelled one. A poller is told apart by whether a load is shorter than the
interval, equal to it or longer: interval 3, loads up to 4. The board has two polled
domains, facts that are stale after two intervals and reads that take one longer
than an interval at most. The short list holds five, and its cases have more than
that. The inputs of a rule are those that differ in what the rule looks at: three
beads each of which is off a plain one in a few respects, one row or two per
domain, three or four beads of a city and several pages of them, runs of two steps. The files of a diff
have sizes below, at and above what one of them may take, two of them pass the
bound on their number, and one change of the tree falls before, between and
after any two reads. The page of a run needs a run that moves to another folder, one that stays, and
two loads of each panel: the load that is superseded and its superseder. Two beads in two rigs, one of which waits for the other, and
a session that may own either, have every step between waiting, held, stranded,
put off, refiled and eaten; a third bead is one more row.

Constraints and symmetry. `FewProbes` of `MCServer` cuts two rig samples of the
same version that probe at once; samples of different versions still overlap.
`NotStrayed` of `MCPages` goes no further once bulk marks ended early or under
another table than they began, where no promise is left to check, nor once
the beads of the aquarium were read under another key, or cached under a third
list of rigs; and of the mail table it
follows two messages in one box (`marks`) or one message in two (`boxes`). It also
stops where the third world of the summary comes before the upgrade or during a
retry, where the stream of the board is open or closed, which the line takes as it
takes one that connects or is degraded, and where the sessions of a run list a
worker, which its lane takes as a list unread. The theorems have no such limits. `MCServer`
takes callers and fetches as interchangeable, `MCPages` the loads of the panels and
those of the diff; neither has a
liveness property, for which symmetry would be unsound. `CHECK_DEADLOCK FALSE` is
used where the behaviour really ends: the clock and the events of
`MCGcEventStreamGap` run out, a diff and a probe are answered once, and the inputs
of a pure rule take no step. `MCLive` checks deadlock: the one place its runner may
rest, every command settled and its child closed, is the step `ExecRests`.

### Properties stated up to something

* `ShownIsCurrent` holds for a page that has missed no event: events fired before
  the stream is open, or while it reconnects, are lost and nothing refetches.
* `NoSlingIsLost` and `ShownIsCurrent` hold up to `misread`: a read error hides
  the slung file from a writer, which the code documents as accepted.
* `RestsOnGoodData` excludes two orders, both reachable hazards of the
  code: a match inside the debounce floor (dropped by design), and `masked`,
  where a superseded wide load clears the failure flag between the failure of the
  latest load and its render.
* `TimersAreArmed` lets a panel rest at closed when there was nothing to connect
  to.
* `AnswersBelong` holds of the mail modal up to `crossed`: neither `openThread` nor
  an action compares what is open when it answers, so the modal can show the
  thread of another message when it was opened or changed while an answer was
  due. The model has that order, and the property says it is the only one.
* `WritesAreSeen` does not promise that the table reflects the supervisor after
  bulk marks of which one failed: the table is read again while others are still
  in flight (`strayed`). A retry of the new-bead form makes a second bead; what
  holds is that the failure was reported.
* `ReefIsTrue` speaks of memory kept under one key: a list of rigs that differs
  keys the beads anew, and the next derivation shows what is missing as eaten
  (`rekeyed`, once beads were read). It does not say that what is eaten was closed,
  for it need not be: a deferred bead has no pellet (`pellets.ts:174`), one of
  another type or with a `gc:` label is filtered out of the list
  (`beadReads.ts:163`), and the page draws either as eaten, under the word "closed"
  (`contracts.ts:91`), and counts its rig as moving. The history `left` holds the
  beads that were off the list at some moment since they were last drawn. Movement counts such a bead, and one that
  was drawn before its session was known, and completeness is asked only of reads
  that are up to date: asking again clears the error of a read, so "complete" can
  stand over older data meanwhile.
* `ReportsAreHonest` holds of a diff up to `moves` and `quiet`: the reads are not
  one snapshot, and a list of names, a patch without an upstream or a file that
  cannot be read is left out with nothing but a line in the log.
* `NothingIsUndone` allows the second sling of an item whose record failed: it was
  reported as failed.

### Fairness

Fairness is stated only for what the code or the platform owes.

* Cache: `WF(Resolve \/ Fail)` for every load — the HTTP client bounds the wait.
* Registry: a build, the stop of each runtime and the end of `stopAll` — the
  listing of the cities has a timeout, and `stop()` settles.
* Exec: a granted job is spawned, timers fire, a child sent SIGKILL dies and its
  pipes close. A child that is never killed owes nothing.
* `GcClient`: every fetch settles, since `fetchOnce` aborts it after its timeout.
* Maintainer: a refresh and the slung chain take their next step; the commands
  are bounded by the exec runner.
* Event stream: a timer that is armed fires.
* Pollers: time passes, and a load that may answer does, before it is given up
  for ever: strong fairness of `Lands \/ Fails`, since each tick aborts the load
  before it and so disables its answer again and again. `LoadsLand` is stated
  only of loads faster than the interval; a slower one never lands, and the
  model has that behaviour.

Nothing obliges a caller to call, an event to occur, or a tab to be shown.

## 4. Findings

1. **A runtime that failed to start is served as healthy** (`MCCityRegistryRetry`).
   `registry.ts` registers a runtime before it calls `start()`; when that throws
   the entry stays, so the next request gets it instead of a new build.
2. **The purge of slung state is not only hygiene** (`MCMaintainerTriagePurge`).
   The worker computes the purge from its own envelope; a slower `POST /refresh`
   may have replaced the cache in between, and the purge then changes what
   `/triage` serves.
3. **A reconnect does not resume the event stream** (`MCGcEventStreamGap`). The
   hook closes the EventSource on an error and builds a new one, so the browser
   sends no `Last-Event-ID`, contrary to the comment beside it.
4. **Issues never inherit the files of their pull requests** (`MCMaintainerFiles`).
   `fetchTriage` calls `inheritIssueFiles` before the pass that gives an issue the
   numbers it inherits from, so no issue joins a cluster by file.
5. **Thrashing is not seen across retries with ids of their own**
   (`MCRunLanesThrash`). The streak asks for the same raw `gc.step_id` on both
   refreshes; a retry carries its attempt in that id.
6. **A domain that cannot be read leaves the board saying "all live"**
   (`MCAttentionHardError`). The fetchers return a failure as facts, so the cached
   read succeeds, and neither its error nor its age shows.
7. **The aquarium invents movement while its reads land** (`MCReefMoves`). A bead
   in progress whose session is not among those read so far is drawn as
   stranded, and counts as picked up when the sessions arrive.

Each is quoted with its line in `PROJECT.json`.

## 5. The proofs

Eight modules hold theorems. Those of `SingleFlightCacheProofs`,
`CityRegistryProofs`, `GcClientProofs` and `MaintainerTriageProofs` extend the
component they are about; `LiveProofs`, `ServerProofs` and `PagesProofs` (with
`PanelsProofs`, its first half) extend the three benches, prove about the
component the bench extends and about the subjects it instantiates, and state
their theorems of the specification the run checks. All hold for every value of
the constants. A component that runs on a bench states what it asks of its
constants as `Assumptions`; the bench assumes it of its instances
(`InstancesAreAllowed`), TLC evaluates that, and the theorems of the component
assume it. TLC found each property to hold of a small instance before it was
proved.

**A bench** is argued once. `OneSubject` says that a step of the bench is a step of
the subject at work, or leaves its variables alone; so the invariant of the bench
(`SubjectIInv`) is, subject by subject, the inductive invariant of its module, and
each property of the run follows from the part of it that names the same
subjects. A module with proofs of its own takes part as an instance of them
(`Client == INSTANCE GcClientProofs`, likewise `Triage` and `Slings`), whose
lemmas are cited with the constants and variables of the bench in place.

**`SingleFlightCacheProofs`** assumes only that the TTL and the clock bound are
naturals. That an answer is fresh is not inductive: it needs that whoever waits
on a load waits for one that started at or after its floor (`FloorsBelowStart`),
that the load owning a slot is younger than all that was ever cached under the
key (`OwnerIsNewest`), and that loads read after they start (`LoadTimes`). These
with the type invariant, `NoOrphanedSlot`, `NoLostCaller` and `DuplicatesAreForced`
form `IInv`. From it follow `TypeCorrect`, `NothingIsOrphaned`, `AnswersAreFresh`,
`CacheIsMonotone`, `SingleFlight`, and `Refinement`: every step of the cache is,
under the mapping `published <- stored`, a step of the freshness contract or a
stutter. Monotonicity is the argument of the token: a superseded load does not
own the slot, hence cannot write, hence what is written is newer than what was.

**`CityRegistryProofs`** assumes that valid and invalid names are disjoint and
that the two marks used for absence are no names. One runtime per city follows
from every created runtime being the registered one of its city
(`CreatedIsRegistered`), which a build preserves because it runs only while its
city has none (`BuildingIsUnregistered`); that nothing leaks follows from running
parts belonging to created runtimes. `Shutdown` needs that what `stopAll` awaits
covers what still runs (`StoppingCovers`). `NoStrandedRequest` says that a request
that waits waits for a build in flight. `TypeCorrect` is of the full type
invariant.

**`GcClientProofs`** assumes that the mark for no fetch is no fetch and that those
who may abort are callers. That a fetch one may join is live (`JoinableIsLive`)
is not inductive alone: it needs that whoever waits waits for a live fetch
(`AwaitedIsLive`), that what a starter abandoned is forgotten
(`AbandonedIsForgotten`), and that a running fetch that was not abandoned is the
one its operation joins (`KeptIsJoinable`), from which two fetches of one operation
overlap only after an abort. `NobodyIsStranded` is the safety half of `CallsEnd`.

**`MaintainerTriageProofs`** assumes that the marks for a missing, a torn and an
unread file are no contents. No reader finds a torn file because the writer is the
head of the chain (`WriterIsHead`) and what it has written is whole when it is
renamed (`WrittenIsWhole`), even when every writer picks the same temporary name. No sling is
lost because only the head of its chain has read the slung file, and the file is
still as it read it (`OperationsFit`), and because a purge names only what is vetted
(`FetchedIsVetted`). The types need that a purge is queued only while the worker
purges, and once (`OnePurge`). `PagesAreCurrent` is about a page, both files and
both chains at once: between its two reads a page that was told of nothing since
holds half of the answer of now (`HalfIsCurrent`), because a change is announced,
or the page has a read due, and a read that began before it is superseded. The
theorems hold through crashes; `SlingsStay` and `PagesAreCurrent` are stated up to
a read error, as the properties are.

**`LiveProofs`**, of the exec runner, assumes a positive bound and a finite set of
jobs. The queue is the suffix of the arrivals that have not been granted a slot
(`QueueIsSuffix`, `QueueIsExact`), which makes first come, first served a matter of
indices; `SlotsMatchJobs` relates the counter to the cardinality of the holders
and is preserved because a release either hands its slot to the head of the
queue or gives it back, never both. `SlotsAreExact`, `NoOvertaking` and
`KillsAreReported` follow. Of the event stream, no state of the connection is a
dead end (`NoDeadEnd`): a timer that leaves a state still has the stream that state
speaks of (`TimersFitTheSource`). The throttle (`CallsAreThrottled`, `MatchesAreKept`)
needs that the trailing timer is due exactly one window after the last call
(`TrailingIsExact`) and that what is owed has its timer (`OwedIsArmed`). Of the
bench: `LiveTypes`, `CallsThrottled` and `TimersArmed`, for which a poller needs
that no silence lasts while a load is out, and that the silence so far and what is still barred are one backoff
(`SilenceIsBounded`).

**`ServerProofs`**, of the samplers, needs only that there is room for one. The
trend is in order because the samples share a read: whoever awaits a read awaits
the one in flight (`OneRead`), and what was sampled before is no newer than the
answer that is due (`ReportsAreBehind`). The lemma `PushedIs` says what a push of
any number of samples makes of the ring. Of the bench: `ServerTypes`,
`ReadsShared`, `CacheWhole`, `SlingsKept`, `ShownCurrent`, and `ReportsHonest`, which
is two arguments. A diff: each read said what there was, or a part of it and then
a flag is set (`ReadsWereTrue`), and the loop takes each untracked file once, from
the budget the patch left (`LoopIsFair`); the sum of sizes is a constant of the
module that is assumed to be additive, so the proof folds nothing. A store: the
doctor called a server well only when it was, or left a note when it said
nothing (`DoctorWasRight`). And `TriageSorted`, which cites `AnyListIsSorted`: what
the maintainer is served of any list of issues and pull requests, under any slings.
No item is in two clusters, because a file claims only what no cluster has yet, in
whatever order the files come (`ByFile`, kept by each claim), the topics sort what the
files left, and taking out what is slung leaves the rest apart (`RemovedIs`). The
mark is on a highest candidate, which a finite list has (`HighestExists`); that it is
never handed to an issue is no accident of the cases: the issues a candidate closes
have a pull request in flight, the candidate itself (`WinnerIs`).

**`PanelsProofs`** begins with the run summary (`RestIsGood`, `LanesStay`,
`FloorIsKept`). A rest on good data is a statement about one moment; the invariant says of every moment before it what will still
bring what was announced (`Announced`): the latest load, a queued match, the
trailing timer, the upgrade that is still to come, or else the last answer has it
or was a failure, in which case a retry is armed (`RetryIsArmed`). `QueueFits` keeps
the queue and the timer from waiting for each other, `LanesAreKept` what is shown
from being forgotten, and `PreviewIsFirst` a late preview from landing over more.
`masked` is the one exception: the answer of a superseded load clears a failure,
and what it was to retry is not retried. Then come the lemmas of the panels (mail,
identity, sessions, details, forms, the page of a run) and of the aquarium.

**`PagesProofs`** has the attention board, the lanes of a run, the pure rules, and
the theorems of the whole bench. `PagesTypes` is of every variable of every page.

* `AnswersAreOfTheQuestion` (`AnswersBelong`). In the modal what is due, what acts
  and what is shown are about one message until somebody takes it over
  (`AboutOneMessage`). Of the subscriptions to a session all but the last are reads
  that were cancelled (`OneIsCurrent`), and the state is what the phase of the last
  has made of it (`StateFollows`). A detail that is still wanted is of the focus and
  no older than what is shown (`WantedOfFocus`, `InOrder`, `OneIsWanted`). The page of
  a run is two panels in a chain: what is shown and cached is what was asked for
  (`DetailAsFiled`, `DiffAsFiled`), the key of the diff is that of the detail on screen
  (`DiffFollows`), and the latest load covers every event the page was refreshed
  for, or has settled and what is shown covers it (`LatestCovers`).
* `WritesStayInSight` (`WritesAreSeen`). The marks of a bulk are the ones that fly
  (`BulkIsWhole`), and when none is in flight the latest read of the table has not
  answered or its answer is still true (`ReadAfterBulk`). A bead beyond those told of
  is on its way to be slung (`OrphansOnTheWay`).
* `EyesStayChosen` (`EyesAreChosen`): each retry is one question more
  (`RetriesAreCounted`).
* `ReefTellsTheTruth` (`ReefIsTrue`). The snapshot is of what is read and agrees
  with the memory left to the next derivation (`SnapshotIsRead`, `HoldersAreRead`);
  what the reads miss of a rig that answered has left since it was drawn
  (`NothingIsMissed`, which needs that every read is kept under its key,
  `ReadsAreKept`); where a bead that was drawn has left, is shown without a holder,
  or is held since it was last seen, work moved (`WorkMoved`). The proof found that the sum of what is not drawn is true rig
  by rig, so the property says so.
* `NothingUndone` (`NothingIsUndone`). That an item is slung once, and that a send
  drops none, needs that each item of a send waits, flies, failed or was slung
  (`BatchIsWhole`), and that what the next send would sling was chosen or excused
  (`SlingIsExcused`).
* `UrgencyStaysInSight` (`NothingUrgentIsHidden`), of the board. While a poll is out
  no read of the board is younger than it, but for the time a read may take
  (`PollHoldsUp`): so one read that hangs lets the others age, and the line stops
  saying "all live". That a calm board was read is so of any facts.
* `LanesAreHonest`, and `RunsStayHonest` (`RunsAreHonest`). A feed read after the grace
  that misses a registered run is one the run has moved out of (`MissedHasMoved`),
  which is why a run called stranded is an orphan. A mark names an attempt that
  was poured, and counts no more refreshes than the attempt climbed over
  (`MarkIsOfTheRun`). That every climb is called thrashing is proved where only the
  steps of a loop are tried again (`LoopedClimb`), which is the hypothesis of
  `RunsStayHonest` and the case of the run: without it the property is the one
  finding 5 refutes, and `LanesAreHonest` has the rest with no hypothesis.
* `LinksStayTrue` (`LinksAreTrue`) and the other rules, see below.

**The rules, for any input.** What the pages derive is proved of any input and not
only of those of the run: `NeedsAreAskedOnce`, `NothingIsDroppedFromTheList`,
`LinksLeadTrue`, `ConvoysAreWhole`, `TargetsAreFound`, `GraphsAreHonest`,
`DetailsAreHonest`, `NodeOpensOnTranscript`; the theorems of the bench cite them. Each
assumes of its input only what the reads give: that beads are finitely many, with
ids of their own (`Kept`, `Gathered`), that the browser has a page of the city
(`Told`), that a walk finds what was below the root (`Read`), that each step of a
pass is poured once (`Poured`), that a session has an id (`Answered`), that the
checkout of a rig is never the folder of a root (`Recorded`). The bench assumes
these of `Inputs` (`InputsAreAllowed`), so TLC evaluates them of every input of the
run. `AnyListIsSorted` is the same for the backend: it assumes that the list is finite,
that a number is of an issue or a pull request, that only a pull request closes anything
and that a severity is at most 4 (`Open`), and `InstancesAreAllowed` assumes that of the
`Inputs` of `MCServer`.

Some of these rules go step by step: the short list leaves out the last item again
and again, a subtree grows until it does not. No induction theorem of the library
can be used, so each such argument is by a least counterexample: a set of numbers has a
least one (`LeastExists`), hence what is made step by step exists for any number of
steps (`RecursionExists`), a growing set of finitely many ends (`GrowthEnds`), and a
finite union of finite sets is finite (`FiniteUnion`). With them `ItemsForemostIs`
says that nothing the short list leaves out comes before what it keeps,
`FileClustersAre` that the claims of the files keep clusters apart, and
`ConvoyUnderIs` with `ConvoyDescendantsAreUnder` that what the browser collects
below a root leads up to it, and is all that does when the page has the whole
city, cycles included.

**Only model-checked.** Liveness (`CallersAreAnswered`, `RequestsAreAnswered`,
`WorkEnds`, `NotStuckOpen`, `LoadsLand`) and ENABLED, which the prover does not
treat. No safety invariant and no action property of a passing run is without a
theorem.

## 6. What is not modelled

Components with their reasons are in `PROJECT.json`. Rendering, formatting, the
audit log, the generated client and the decoding of answers are left out. Of the parts that are modelled:

* **Backend.** A second termination signal (which runs `stopAll` again); the exit that
  `server.ts:32` forces after five seconds, which can cut requests that wait; the
  heartbeat and the timers of the maintainer worker; contributor tiers, the topic
  of a title and the migration of legacy paths. A record of a sling that cannot
  be written is only logged (`recordMaintainerSling`), which the model has as a
  record that failed. The transfer of the one mark to a parent
  (`selectMarkWinner`) is there though `fetchTriage` never meets it.
* **Browser cache.** `invalidate`, which nothing calls.
* **Runs.** The scan of titles for the word "blocked"; formulas without stages and
  the keyword scan they fall back to. The ladder can show an
  earlier failed stage as complete while a later step is in flight: the model
  has it, `FailureIsShown` speaks of the lane. The time a run is judged at is
  taken after both reads have settled, and so is the time of the observation of the
  feed; the model stamps it with the read, since the gap is at most the 15 seconds
  the beads may take and the grace is ten minutes. `RunGraph` leaves out `tracks`
  dependencies and the precedence of `logical_edges`.
* **Run detail.** The scope in the address, the lane shown while the first detail
  loads and the related entities below it. The shape of a session id is a
  constructor of `RunDetail`, not a pattern. A bead whose recorded session is no
  longer listed may be linked to a later session of the same name, and a
  `gc.work_dir` on the root, which dispatch may pass on from the rig, wins over the
  worktree of a child: both are in the model, and `TranscriptIsTheBeads` and
  `PathIsTheRuns` are stated up to them. An event that arrives while no detail is
  shown is dropped, so `FreshAtRest` counts from the events the page was refreshed
  for.
* **Attention.** A list of sessions marked partial is taken for a whole one
  (`liveContributors.ts:209`), and so it is in the model.
* **Mail.** The limit is applied before the filter (`mailReads.ts:48`), composing
  a message and the wording of subjects are left out.
* **Session tail.** The hook opens the stream without a cursor and appends each turn
  it is sent. That a turn is sent once, after a reconnect too, is taken of the
  supervisor; what is checked is under which session turns are shown.
* **Links.** The city of `LinksAreTrue` is what the queries select: `entityLinks.ts:21`
  does not ask for all beads, so what the supervisor leaves out by default, as
  closed ones, is outside it.
* **Details.** `useBeadDetail` leaves `loading` set when it returns early, and
  `useEntityLinks` keeps the links of the last focus while it reads: both are in
  the model, and no property forbids them. A page whose first list of sessions
  fails reads "Loading" for ever (`AgentDetail`), and the footnote of the
  identity menu names agents and mail when a search left only the operator; no
  module has these two.
* **Selection.** Boxes ticked while a bulk send is under way are overwritten by
  its outcome.
* **Aquarium.** Rendering, kinematics, camera and formations, which are geometry in
  real numbers; poses, pending questions, the table of agents and the text of a
  read's error.
* **Run diff.** Renames, the kind of a file, names cut in the middle and the checks
  of the path.
* **Rig stores.** The number of issues in a report, and its clock.

## 7. Plan

Every safety property of the passing runs is proved. What is left to model, in this order; each joins the bench of
its side under the property that already asks its question, unless it has one of
its own.

1. **Filters and remaining writes of beads** — close, reassign and label, and the
   filters of their tables: instances of `AnswersBelong` and `WritesAreSeen`.
2. **Contributors** — the tier of a contributor from its history, the cap of the
   lookups and the migration of the legacy files as a sequence that may be cut
   by a crash: `CacheIsWhole`, `TriageIsSorted`.
3. **Heartbeat and shutdown** — the timers of the maintainer worker and a second
   termination signal: `ShutdownIsComplete`.
4. **Requests** — the order of the checks of a request (host, CSRF, read allowlist)
   as rules over cases, and the memo of the tool versions.

