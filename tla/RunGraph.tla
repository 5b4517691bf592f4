------------------------------ MODULE RunGraph ------------------------------
(***************************************************************************)
(* The graph the run page draws of one run (shared/src/runs: groups,       *)
(* node-shape, execution-instances, edges, display-state, status).         *)
(*                                                                         *)
(* The run is a check loop: each pass pours every step again, as a retry   *)
(* bead with one bead per attempt, and a scope check behind each step that *)
(* is hidden and becomes a badge.  The beads are named by what they are:   *)
(* <<"retry", pass, step>>, <<"attempt", pass, step, n>> and               *)
(* <<"check", pass, step>>; the supervisor says more or less of how they   *)
(* belong together:                                                        *)
(*   run.passes      the passes poured so far, 1 .. passes                 *)
(*   run.attempts    attempts of a step in a pass                          *)
(*   run.logical     attempts name their retry bead (gc.logical_bead_id)   *)
(*   run.stepId      beads name their step (gc.step_id), pass left out     *)
(*   run.numbered    a retry bead has the number of its latest attempt     *)
(*   run.status      the status of each bead, read as presentationStatus   *)
(*   run.node        what resolveBeadIdentities makes of all this          *)
(***************************************************************************)
EXTENDS Naturals, Sequences, FiniteSets, FiniteSetsExt, Functions

CONSTANT Line         \* the steps of a pass, a sequence: each depends on the one before

Terminal == {"completed", "failed", "skipped"}

Retries(run) == {"retry"} \X (1 .. run.passes) \X Range(Line)
Attempts(run) == UNION {{<<"attempt", r[2], r[3], n>> : n \in 1 .. run.attempts[r[2]][r[3]]} : r \in Retries(run)}
Checks(run) == {"check"} \X (1 .. run.passes) \X Range(Line)

(* isHiddenConstruct hides the checks.                                     *)
Visible(run) == Retries(run) \cup Attempts(run)
Pass(b) == b[2]
Step(b) == b[3]
ShellOf(b) == <<"retry", Pass(b), Step(b)>>

LatestOf(run, b) == run.attempts[Pass(b)][Step(b)]
attemptFor(run, b) ==
  IF b[1] = "attempt" THEN b[4] ELSE IF run.numbered THEN LatestOf(run, b) ELSE 0

(***************************************************************************)
(* Which node a bead is drawn in (groups.ts).                              *)
(***************************************************************************)
referencedPhysicalLogicalTargets(run) ==
  IF run.logical THEN {ShellOf(b) : b \in Attempts(run)} ELSE {}

(* The reference of a step names the pass; without its first segment, that *)
(* is its identity, and its last segment is the step.                      *)
fullStepRefIdentity(b) == <<"ref", Pass(b), Step(b), IF b[1] = "attempt" THEN b[4] ELSE 0>>

semanticNodeIdFor(run, b) ==
  IF run.logical /\ b[1] = "attempt" THEN ShellOf(b) ELSE <<"step", Step(b)>>

groupingBaseSemanticId(run, b) ==
  IF b \in referencedPhysicalLogicalTargets(run) THEN b ELSE semanticNodeIdFor(run, b)

stableSemanticIdentity(run, b) ==
  IF run.logical /\ b[1] = "attempt" THEN ShellOf(b)
  ELSE IF run.stepId THEN <<"step", Step(b)>> ELSE fullStepRefIdentity(b)

duplicateResolutionIdentity(run, b) ==
  IF b \in referencedPhysicalLogicalTargets(run) THEN groupingBaseSemanticId(run, b)
  ELSE stableSemanticIdentity(run, b)

(* A base that names several things is told apart.                         *)
resolveBeadIdentities(run) ==
  LET base == [b \in Visible(run) |-> groupingBaseSemanticId(run, b)]
      own == [b \in Visible(run) |-> duplicateResolutionIdentity(run, b)]
  IN  [b \in Visible(run) |->
         IF \E c, d \in Visible(run) : base[c] = base[b] /\ base[d] = base[b] /\ own[c] # own[d]
         THEN own[b] ELSE base[b]]

Nodes(run) == Range(run.node)
BeadsOf(run, node) == {b \in Visible(run) : run.node[b] = node}

(* visibleNodeAliases; an alias of two nodes is dropped.                   *)
AliasesOf(run, b) ==
  {run.node[b], semanticNodeIdFor(run, b), groupingBaseSemanticId(run, b),
   duplicateResolutionIdentity(run, b), stableSemanticIdentity(run, b),
   fullStepRefIdentity(b), b}
  \cup (IF run.stepId THEN {<<"step", Step(b)>>} ELSE {})
Aliased(run, alias) == {run.node[b] : b \in {c \in Visible(run) : alias \in AliasesOf(run, c)}}

CandidatesOf_Fault(run, check) ==
  LET step == <<"step", Step(check)>>
      segment == <<"segment", Step(check)>>
  IN  IF run.stepId THEN <<step, segment>> ELSE <<segment>>

(* hiddenBadgeTargetCandidates: the pass it checks, then the step, then    *)
(* the last segment, which may be no node.                                 *)
CandidatesOf(run, check) ==
  LET ref == <<"ref", Pass(check), Step(check), 0>>
      step == <<"step", Step(check)>>
      segment == <<"segment", Step(check)>>
  IN  IF run.stepId THEN <<ref, step, segment>> ELSE <<ref, segment>>
resolveBadgeTarget(run, check) ==
  LET found == {i \in DOMAIN CandidatesOf(run, check) :
                  Cardinality(Aliased(run, CandidatesOf(run, check)[i])) = 1}
  IN  IF found = {} THEN <<"segment", Step(check)>>
      ELSE CHOOSE node \in Aliased(run, CandidatesOf(run, check)[Min(found)]) : TRUE

(***************************************************************************)
(* What a node shows (execution-instances.ts).                             *)
(***************************************************************************)
statusProgressOrder(status) ==
  CASE status \in Terminal -> 4 [] status = "active" -> 3 [] status = "ready" -> 2
    [] status = "blocked" -> 1 [] OTHER -> 0

(* compareVisiblePreference; a tie of equals is settled by the id.         *)
Precedes(run, b, c) ==
  \/ Pass(b) < Pass(c)
  \/ Pass(b) = Pass(c) /\ attemptFor(run, b) < attemptFor(run, c)
  \/ /\ Pass(b) = Pass(c) /\ attemptFor(run, b) = attemptFor(run, c)
     /\ statusProgressOrder(run.status[b]) < statusProgressOrder(run.status[c])

preferredExecutionInstance(run, node) ==
  CHOOSE b \in BeadsOf(run, node) : \A c \in BeadsOf(run, node) : ~Precedes(run, b, c)

(* Every pass belongs to the one loop: an older one leaves the graph.      *)
latestIterationsByLoop(run) == run.passes
historicalOnly(run, node) == Pass(preferredExecutionInstance(run, node)) < latestIterationsByLoop(run)

currentIteration(run, b) ==
  LET node == run.node[b]
  IN  ~historicalOnly(run, node) /\ Pass(b) = Pass(preferredExecutionInstance(run, node))
streamable(run, b) == currentIteration(run, b) /\ run.status[b] = "active"

aggregateStatus_Fault(run, node) == run.status[preferredExecutionInstance(run, node)]

aggregateStatus(run, node) ==
  IF \E b \in BeadsOf(run, node) : run.status[b] = "active" THEN "active"
  ELSE run.status[preferredExecutionInstance(run, node)]

(***************************************************************************)
(* The edges (edges.ts): the dependencies of the beads, with the hidden    *)
(* checks bridged.  A step waits for the check of the step before it, and  *)
(* the first step of a pass for the check of the last step of the pass     *)
(* before.                                                                 *)
(***************************************************************************)
Deps(run) ==
  {<<r, <<"check", Pass(r), Step(r)>>>> : r \in Retries(run)}
  \cup {<<<<"check", i, Line[k]>>, <<"retry", i, Line[k + 1]>>>> :
          i \in 1 .. run.passes, k \in 1 .. Len(Line) - 1}
  \cup {<<<<"check", i, Line[Len(Line)]>>, <<"retry", i + 1, Line[1]>>>> : i \in 1 .. run.passes - 1}

Drawn(run) == {node \in Nodes(run) : ~historicalOnly(run, node)}

projectEdges(run) ==
  LET deps == Deps(run)
      drawn == Drawn(run)
      ends == {<<run.node[path[1][1]], run.node[path[2][2]]>> :
                 path \in {p \in deps \X deps : p[1][1] \in Visible(run) /\ p[1][2] = p[2][1]}}
  IN  {e \in ends : e[1] # e[2] /\ e[1] \in drawn /\ e[2] \in drawn}

(* applyDisplayNodeStates.                                                 *)
displayStatusFor(run, node) ==
  LET status == aggregateStatus(run, node)
      blockers == {e[1] : e \in {f \in projectEdges(run) : f[2] = node}}
  IN  IF status # "pending" THEN status
      ELSE IF \A b \in blockers : aggregateStatus(run, b) \in Terminal THEN "ready" ELSE "waiting"

(* A run as it is poured: each step of a pass once, and any number of      *)
(* passes and of attempts.                                                 *)
Poured(run) ==
  /\ Line \in Seq(Range(Line)) /\ IsInjective(Line)
  /\ run.passes \in Nat \ {0}
  /\ \A i \in 1 .. run.passes, s \in Range(Line) : run.attempts[i][s] \in Nat
  /\ run.logical \in BOOLEAN /\ run.stepId \in BOOLEAN /\ run.numbered \in BOOLEAN
  /\ run.node = resolveBeadIdentities(run)

(***************************************************************************)
(* Properties, over every run.                                             *)
(***************************************************************************)

(* The verdict on one pass is never pinned on another: the badge of a      *)
(* check lands on the node of the step it checks, and where the passes     *)
(* have nodes of their own, on the one of its pass.                        *)
BadgesStayInTheirPass(run) ==
  \A check \in Checks(run) :
    LET node == resolveBadgeTarget(run, check)
    IN  node \in Nodes(run) =>
          /\ \A b \in BeadsOf(run, node) : Step(b) = Step(check)
          /\ \E b \in BeadsOf(run, node) : Pass(b) = Pass(check)

(* Every check of a run whose beads name their steps or their retries has  *)
(* a node for its badge.                                                   *)
BadgesAreKept(run) ==
  run.logical \/ run.stepId =>
    \A check \in Checks(run) : resolveBadgeTarget(run, check) \in Nodes(run)

(* Whatever is running in the pass of now is on the graph, shown as active *)
(* and can be watched; nothing of an older pass is.                        *)
RunningIsWatched(run) ==
  \A b \in Visible(run) : run.status[b] = "active" =>
    /\ Pass(b) = run.passes =>
         /\ run.node[b] \in Drawn(run) /\ streamable(run, b)
         /\ displayStatusFor(run, run.node[b]) = "active"
    /\ Pass(b) < run.passes => ~streamable(run, b)

(* The lag between an attempt and its shell: a node whose latest attempt   *)
(* has ended does not say that it waits to be claimed.                     *)
EndedIsNotWaiting(run) ==
  \A b \in Attempts(run) :
    (run.logical /\ b[4] = LatestOf(run, b) /\ run.status[b] \in Terminal)
      => aggregateStatus(run, run.node[b]) \notin {"pending", "blocked"}

(* Unless its bead says so itself, nothing is called ready over an         *)
(* unfinished step before it in its pass.                                  *)
ReadyIsReady(run) ==
  \A k \in 1 .. Len(Line) - 1 :
    LET before == run.node[<<"retry", run.passes, Line[k]>>]
        after == run.node[<<"retry", run.passes, Line[k + 1]>>]
    IN  displayStatusFor(run, after) = "ready" =>
          aggregateStatus(run, after) = "ready" \/ aggregateStatus(run, before) \in Terminal

GraphIsHonest(run) ==
  /\ BadgesStayInTheirPass(run) /\ BadgesAreKept(run) /\ RunningIsWatched(run)
  /\ EndedIsNotWaiting(run) /\ ReadyIsReady(run)
=============================================================================
