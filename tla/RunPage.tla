------------------------------- MODULE RunPage -------------------------------
(***************************************************************************)
(* The page of one run (frontend/src/routes/FormulaRunDetail.tsx): its     *)
(* detail and the diff of the folder that detail names, two panels of the  *)
(* stale-while-revalidate hook (useFormulaRunDetail.ts, useRunDiff.ts over *)
(* CachedPanel), the events that refresh them (runEventIdentity.ts) and    *)
(* the selected node (useRunNodeSelection.ts).                             *)
(*                                                                         *)
(* CachedPanel's variables are those of the detail, keyed by the run.  The *)
(* diff is keyed by the run and the folder of the detail on screen, so its *)
(* key follows what lands in the first panel; until the effects of a new   *)
(* route have run, the detail on screen is still that of the run before.   *)
(* An effect of a render whose keys stay is taken with that render.        *)
(* (Each operator ending in _Fault is a plausible bug in the one below it.)*)
(***************************************************************************)
EXTENDS CachedPanel

CONSTANTS
  Diffs,      \* identities of the loads of the diff that can be in flight
  Moves,      \* Moves[r][b]: where run r works, by whether it moved
  Linked,     \* Linked[r]: the node the address of run r names, or None
  First,      \* what the supervisor may say of the runs when the page opens
  MaxWorld,   \* bound on the changes of the run, for TLC
  MaxOps      \* bound on what the operator does, for TLC

VARIABLES
  dkey, dpending, dlatest, dload, ddata, derror, dcache,  \* the panel of the diff
  sel,      \* the selected node, the route it was selected on, and by whom
  owed,     \* the event of the last change, not delivered yet, or None
  heard,    \* the world of the last event this page was refreshed for
  ops       \* how often the operator did something

diffVars == <<dkey, dpending, dlatest, dload, ddata, derror, dcache>>
vars == <<panelVars, diffVars, sel, owed, heard, ops>>

Runs == Keys
Worlds == {world \in [n : 0 .. MaxWorld, kind : {"running", "done", "missing"}, moved : BOOLEAN] :
             world.moved <=> world.n > 0 /\ world.kind = "running"}
PathOf(run, world) == Moves[run][world.moved]
DiffKeys == Runs \X UNION {{Moves[r][b] : b \in BOOLEAN} : r \in Runs}

Diff == INSTANCE CachedPanel WITH
  Keys <- DiffKeys, Loads <- Diffs, None <- None, key <- dkey, pending <- dpending,
  latest <- dlatest, load <- dload, data <- ddata, error <- derror, cache <- dcache,
  truth <- 0

\* What the constants are to be; an instance for TLC assumes it.
Assumptions ==
  /\ PanelAssumptions /\ NoneIsApart(Worlds)
  /\ Diff!PanelAssumptions /\ Diff!NoneIsApart({0})
  /\ MaxWorld \in Nat /\ MaxOps \in Nat

(***************************************************************************)
(* What is on screen: an answer that says the snapshot is missing is kept  *)
(* like any other, and then there is no detail.                            *)
(***************************************************************************)
DetailOf(answer) == IF answer # None /\ answer.seen.kind # "missing" THEN answer ELSE None
Detail == DetailOf(data)
runDiffCacheKey_Fault(run, detail) ==
  IF detail = None THEN None ELSE <<run, Moves[run][FALSE]>>
runDiffCacheKey(run, detail) ==
  IF detail = None THEN None ELSE <<run, PathOf(detail.of, detail.seen)>>

(* A run moves only as it goes on; then it has lost the node "x".           *)
NodesOf(detail) == IF detail.seen.moved THEN {"y"} ELSE {"x", "y"}
selectedRouteNodeId(route, detail) ==
  IF Linked[route] \in NodesOf(detail) THEN Linked[route] ELSE None

(* The effect of useRunNodeSelection, with the detail of its render.       *)
Reselected_Fault(s, route, detail) ==
  IF detail = None \/ s.by = "user" \/ (s.route = route /\ s.node = selectedRouteNodeId(route, detail))
  THEN s
  ELSE [node |-> selectedRouteNodeId(route, detail), route |-> route, by |-> "route"]
Reselected(s, route, detail) ==
  IF \/ detail = None
     \/ s.route = route /\ (s.by = "user" \/ s.node = selectedRouteNodeId(route, detail))
  THEN s
  ELSE [node |-> selectedRouteNodeId(route, detail), route |-> route, by |-> "route"]

(* The render after the detail became `answer'.                            *)
Rendered(answer) ==
  LET k == runDiffCacheKey(key', DetailOf(answer))
  IN  dkey' = k /\ dpending' = (dpending \/ k # dkey)

Operates == ops < MaxOps /\ ops' = ops + 1

(***************************************************************************)
(* Routes and effects.                                                     *)
(***************************************************************************)
Navigate(run) ==
  /\ run # key /\ ~pending /\ Operates
  /\ key' = run
  /\ pending' = TRUE
  /\ Rendered(data)
  /\ heard' = 0
  /\ UNCHANGED <<latest, load, data, error, cache, truth, dlatest, dload, ddata, derror, dcache,
                 sel, owed>>

LoadDetail == LET l == CHOOSE i \in Idle : TRUE IN Start(key, l)

(* A diff has its answer from the start: the tree it reads is RunDiff's.   *)
StartDiff ==
  LET l == CHOOSE i \in Diff!Idle : TRUE
  IN  /\ dload' = [dload EXCEPT ![l] = [key |-> dkey, of |-> dkey, seen |-> 0]]
      /\ dlatest' = l
      /\ derror' = FALSE

(* Without a detail the diff asks for nothing.                             *)
LoadDiff ==
  IF dkey = None
  THEN /\ dlatest' = None /\ derror' = FALSE /\ ddata' = None
       /\ UNCHANGED dload
  ELSE /\ ddata' = dcache[dkey]
       /\ StartDiff

Effects ==
  /\ pending \/ dpending
  /\ pending => Idle # {}
  /\ dpending /\ dkey # None => Diff!Idle # {}
  /\ IF pending
     THEN /\ data' = cache[key] /\ LoadDetail
          /\ sel' = Reselected(Reselected(sel, key, Detail), key, DetailOf(cache[key]))
     ELSE UNCHANGED <<data, latest, load, error, sel>>
  /\ IF dpending THEN LoadDiff ELSE UNCHANGED <<dlatest, dload, ddata, derror>>
  /\ pending' = FALSE
  /\ key' = key
  /\ LET k == runDiffCacheKey(key, DetailOf(data')) IN dkey' = k /\ dpending' = (k # dkey)
  /\ UNCHANGED <<cache, truth, dcache, owed, heard, ops>>

(***************************************************************************)
(* Refreshes: refreshRunResources.                                         *)
(***************************************************************************)
refreshRunResources ==
  /\ Idle # {} /\ LoadDetail
  /\ IF dkey = None
     THEN UNCHANGED <<dlatest, dload, derror>>
     ELSE /\ Diff!Idle # {}
          /\ StartDiff
  /\ UNCHANGED <<key, pending, data, cache, truth, dkey, dpending, ddata, dcache>>

(* The button: not while a load of what is on screen is running.           *)
Refreshing ==
  \/ Detail # None /\ Loading
  \/ data = None /\ ~error
  \/ Detail # None /\ (dlatest # None \/ (ddata = None /\ ~derror))
Press ==
  /\ ~pending /\ ~dpending /\ ~Refreshing /\ Operates
  /\ refreshRunResources
  /\ UNCHANGED <<sel, owed, heard>>

(* `matches': an event that names no run is for a run that is going on.    *)
Matches(event) == Detail # None /\ (Detail.seen.kind = "done" => event = "mine")
Hear ==
  /\ owed # None /\ ~pending /\ ~dpending
  /\ owed' = None
  /\ IF Matches(owed)
     THEN refreshRunResources /\ heard' = truth.n
     ELSE UNCHANGED <<panelVars, diffVars, heard>>
  /\ UNCHANGED <<sel, ops>>

(***************************************************************************)
(* The supervisor, and the answers.                                        *)
(***************************************************************************)
Change ==
  /\ truth.n < MaxWorld /\ owed = None
  /\ \E world \in Worlds, event \in {"mine", "ambient"} :
       /\ world.n = truth.n + 1
       /\ truth' = world
       /\ owed' = event
  /\ UNCHANGED <<key, pending, latest, load, data, error, cache, diffVars, sel, heard, ops>>

DetailSampled(l) == Sample(l) /\ UNCHANGED <<diffVars, sel, owed, heard, ops>>
DetailLands(l) ==
  /\ Land(l)
  /\ Rendered(data')
  /\ sel' = IF data' = data THEN sel ELSE Reselected(sel, key, DetailOf(data'))
  /\ UNCHANGED <<dlatest, dload, ddata, derror, dcache, owed, heard, ops>>
DetailFails(l) == Fail(l) /\ UNCHANGED <<diffVars, sel, owed, heard, ops>>

Elsewhere == UNCHANGED <<panelVars, sel, owed, heard, ops>>
DiffLands(l) == Diff!Land(l) /\ Elsewhere
DiffFails(l) == Diff!Fail(l) /\ Elsewhere

(***************************************************************************)
(* The selection: a click on a node of the graph, and the escape key.      *)
(***************************************************************************)
toggleNode ==
  /\ ~pending /\ Detail # None /\ Operates
  /\ \E node \in NodesOf(Detail) :
       sel' = [node |-> IF sel.node = node THEN None ELSE node, route |-> key, by |-> "user"]
  /\ UNCHANGED <<panelVars, diffVars, owed, heard>>
clearSelection ==
  /\ Operates
  /\ sel' = [sel EXCEPT !.node = None, !.by = "user"]
  /\ UNCHANGED <<panelVars, diffVars, owed, heard>>

Init ==
  /\ \E world \in Worlds : world.n = 0 /\ world.kind \in First /\ PanelInit(world)
  /\ dkey = None /\ dpending = FALSE /\ dlatest = None
  /\ dload = [l \in Diffs |-> None]
  /\ ddata = None /\ derror = FALSE
  /\ dcache = [k \in DiffKeys |-> None]
  /\ sel = [node |-> None, route |-> None, by |-> "route"]
  /\ owed = None /\ heard = 0 /\ ops = 0

Next ==
  \/ \E run \in Runs : Navigate(run)
  \/ Effects \/ Press \/ Hear \/ Change
  \/ \E l \in Loads : DetailSampled(l) \/ DetailLands(l) \/ DetailFails(l)
  \/ \E l \in Diffs : DiffLands(l) \/ DiffFails(l)
  \/ toggleNode \/ clearSelection

(***************************************************************************)
(* Properties.                                                             *)
(***************************************************************************)
TypeOK ==
  /\ PanelTypeOK(Worlds) /\ CacheIsKeyed
  /\ dkey \in DiffKeys \cup {None} /\ dpending \in BOOLEAN /\ derror \in BOOLEAN
  /\ dlatest \in Diff!InFlight \cup {None}
  /\ dload \in [Diffs -> Diff!Fetches({0}) \cup {None}]
  /\ dcache \in [DiffKeys -> Diff!Answers({0}) \cup {None}]
  /\ ddata \in Diff!Answers({0}) \cup {None}
  /\ sel \in [node : {"x", "y", None}, route : Runs \cup {None}, by : {"route", "user"}]
  /\ owed \in {"mine", "ambient", None}
  /\ heard \in 0 .. MaxWorld /\ ops \in 0 .. MaxOps

(* The detail is that of the run in the address, and the diff beside it is *)
(* of that run, in the folder this very detail names.                      *)
PanelsBelong ==
  ~pending /\ ~dpending =>
    /\ data # None => data.tag = key /\ data.of = key
    /\ ddata # None =>
         /\ Detail # None
         /\ ddata.tag = <<key, PathOf(key, Detail.seen)>> /\ ddata.of = ddata.tag

(* A node picked on one run is not picked on the next, though they name    *)
(* their nodes alike; a node the address names is picked as long as it is  *)
(* there and the operator picked no other.                                 *)
SelectionBelongs ==
  ~pending /\ Detail # None =>
    /\ sel.route = key
    /\ sel.by = "route" => sel.node = selectedRouteNodeId(key, Detail)

(* When nothing is loading and nothing failed, what is on screen is no     *)
(* older than the last event that the page was refreshed for, whichever    *)
(* order the answers came in.                                              *)
FreshAtRest ==
  ~pending /\ ~Loading /\ ~error /\ data # None => data.seen.n >= heard

RunPageIsTrue == PanelsBelong /\ SelectionBelongs /\ FreshAtRest

(* What every step keeps.  A refresh of this page asks for what it is      *)
(* filed under; the key of the diff is that of the detail on screen, and   *)
(* what the diff shows is filed under it.                                  *)
DetailAsFiled ==
  /\ \A l \in InFlight : load[l].of = load[l].key
  /\ \A k \in Runs : cache[k] # None => cache[k].of = k
  /\ data # None => data.of = data.tag

DiffAsFiled ==
  /\ \A l \in Diff!InFlight : dload[l].of = dload[l].key
  /\ \A k \in DiffKeys : dcache[k] # None => dcache[k].of = k
  /\ ddata # None => ddata.of = ddata.tag

DiffFollows ==
  /\ dkey = runDiffCacheKey(key, Detail)
  /\ Diff!CacheIsKeyed
  /\ ~dpending /\ ddata # None => ddata.tag = dkey

(* The latest load of the detail is of this run, and covers what the page  *)
(* was refreshed for; or it has settled, and what is shown covers it.      *)
LatestCovers ==
  /\ heard <= truth.n
  /\ pending => heard = 0
  /\ ~pending /\ latest # None =>
       /\ load[latest].key = key
       /\ load[latest].seen # None => load[latest].seen.n >= heard
  /\ ~pending /\ latest = None /\ ~error => data # None /\ data.seen.n >= heard

IInv ==
  /\ TypeOK /\ ShownUnderItsKey /\ DetailAsFiled /\ DiffAsFiled /\ DiffFollows
  /\ SelectionBelongs /\ LatestCovers
=============================================================================
