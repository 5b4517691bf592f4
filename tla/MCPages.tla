------------------------------- MODULE MCPages --------------------------------
(*****************************************************************************)
(* Small instances of the browser's pages (Pages) for TLC, the inputs on     *)
(* which it checks the pure rules, and what it does not follow.              *)
(*****************************************************************************)
EXTENDS Pages, TLC

CONSTANTS m1, b1, b2, r1, r2

Symmetry == Permutations(Loads) \cup Permutations(Diffs)
TwoStages == <<{"work"}, {"gate"}>>
StepTokens == [work |-> {"implementation"}, gate |-> {"approval", "review"}]
StepAttempts == [work |-> 3, gate |-> 1]
TwoBeads == {b1, b2}
TwoRigs == {r1, r2}
HomeRig == [b \in TwoBeads |-> IF b = b1 THEN r1 ELSE r2]
Urgent == {b2}
DependsOn == [b \in TwoBeads |-> IF b = b1 THEN {b2} ELSE {}]
Works == (r1 :> (FALSE :> "here" @@ TRUE :> "there")) @@ (r2 :> (FALSE :> "here" @@ TRUE :> "here"))
TwoSteps == <<"a", "b">>
Addressed == (r1 :> "x") @@ (r2 :> None)

(***************************************************************************)
(* AttentionRules: three beads, each off a plain one in a few respects.    *)
(***************************************************************************)
Variants ==
  {bead \in [status : {"open", "in_progress"}, engineering : BOOLEAN,
             labels : SUBSET {"decision", "gc:escalation"}, assigned : BOOLEAN,
             age : {0, 1, 3}, slug : {None, "s"}, moved : {0, 1}, id : {0}] :
     /\ bead.slug # None => "decision" \in bead.labels
     /\ bead.moved = 1 => bead.slug # None
     /\ bead.age # 1 => bead.labels = {} /\ bead.engineering
     /\ bead.assigned => bead.labels = {}
     /\ bead.labels # {} => bead.engineering = ("decision" \in bead.labels)
     /\ bead.status # "open" => bead.age = 1}
BeadCases ==
  {[i \in 1 .. 3 |-> [beads[i] EXCEPT !.id = i]] :
     beads \in {b \in [1 .. 3 -> Variants] : "decision" \in b[3].labels}}

(* One row or two of every domain.                                         *)
Bead(age) == [status |-> "open", engineering |-> TRUE, labels |-> {}, assigned |-> FALSE,
              age |-> age, slug |-> None, moved |-> 0, id |-> 1]
Agent == [pending |-> FALSE, state |-> "idle", running |-> TRUE, session |-> TRUE,
          listed |-> TRUE, prompted |-> FALSE]
Agents ==
  {Agent, [Agent EXCEPT !.prompted = TRUE], [Agent EXCEPT !.state = "failed"],
   [Agent EXCEPT !.session = FALSE, !.prompted = TRUE]}
Lane(health, kind) == [health |-> health, kind |-> kind]
RunSources ==
  {[status |-> "error"],
   [status |-> "fresh", partial |-> TRUE, lanes |-> [l |-> Lane(TRUE, "stranded"), k |-> Lane(FALSE, "ok")]]}
FactsOf(age, agent, event, cpu, source, slung, beads, agents) ==
  [beads |-> [b |-> Bead(age)], agents |-> [a |-> agent],
   mail |-> [m |-> [read |-> FALSE, pool |-> age = 3, age |-> 1]],
   events |-> [e |-> event], deploys |-> [d |-> IF event = "crashed" THEN "failed" ELSE "in-progress"],
   marker |-> FALSE,
   levels |-> [cpu |-> cpu, disk |-> "high"], starting |-> FALSE, status |-> "ok",
   missing |-> {"mem"}, runs |-> source,
   triage |-> [i |-> [slung |-> slung, needsYou |-> FALSE, assessed |-> TRUE]],
   reads |-> [beads |-> beads, agents |-> agents]]
Moved ==
  {[d \in {"agents", "beads", "runs", "mail", "activity", "health", "maintainer"} |->
      IF d \in moving THEN 1 ELSE 0] : moving \in {{}, {"beads"}, {"activity", "health"}}}
BoardCases ==
  {[facts |-> FactsOf(age, agent, event, cpu, source, slung, beads, agents),
    moved |-> moved] :
     age \in {1, 3}, agent \in Agents, event \in {"crashed", "suspended"},
     cpu \in {"elevated", "high"}, source \in RunSources,
     slung \in {None, "resolved", "sent"}, moved \in Moved,
     beads \in {[list |-> "partial", decisions |-> "failed", escalations |-> "ok"],
                [list |-> "failed", decisions |-> "ok", escalations |-> "ok"]},
     agents \in {[list |-> "ok", pending |-> "failed"], [list |-> "failed", pending |-> "failed"]}}

(***************************************************************************)
(* RunGraph: two passes of two steps, up to two attempts in the last pass. *)
(***************************************************************************)
Shapes ==
  {[passes |-> p,
    attempts |-> [i \in 1 .. 2 |-> [s \in {"a", "b"} |->
                    IF i = p THEN (IF s = "a" THEN n ELSE m) ELSE IF i > p THEN 0 ELSE 1]],
    logical |-> logical, stepId |-> stepId, numbered |-> numbered] :
     p \in 1 .. 2, n \in 0 .. 2, m \in 0 .. 1, logical, stepId, numbered \in BOOLEAN}
StatusOf(run, last, shell, late, b) ==
  IF Graph!Pass(b) < run.passes
  THEN IF b[1] = "attempt" /\ b[3] = "b" THEN late ELSE "completed"
  ELSE IF b[1] = "retry" THEN shell[Graph!Step(b)]
  ELSE IF b[4] = Graph!LatestOf(run, b) THEN last[Graph!Step(b)] ELSE "failed"
Drawn == {shape @@ [node |-> Graph!resolveBeadIdentities(shape)] : shape \in Shapes}
GraphCases ==
  {run @@ [status |-> [b \in Graph!Visible(run) |-> StatusOf(run, last, shell, late, b)]] :
     run \in Drawn,
     last \in [a : {"pending", "active", "completed", "blocked"}, b : {"pending", "active"}],
     shell \in [a : {"pending", "completed"}, b : {"pending"}],
     late \in {"active", "completed"}}

(***************************************************************************)
(* Links: three or four beads and a parent (<<"bead", 9>>) of another city. *)
(***************************************************************************)
B(n) == <<"bead", n>>
Attempt(molecule, step, n) == [molecule |-> molecule, step |-> step, attempt |-> n]
Attempts2 ==
  {Attempt(None, None, None), Attempt(B(1), None, None), Attempt(B(1), "s", 1), Attempt(B(1), "s", 2)}
Kin(b, older) == {None, B(9)} \cup older
Refs == {[pr |-> None, session |-> None], [pr |-> <<"pr", 1>>, session |-> None],
         [pr |-> None, session |-> <<"session", 1>>]}
LinkCity(p2, p3, a2, a3, ref) ==
  LET row(parent, tried, r) == [parent |-> parent] @@ tried @@ r
      none == [pr |-> None, session |-> None]
  IN  (B(1) :> row(None, Attempt(None, None, None), none)) @@ (B(2) :> row(p2, a2, none))
        @@ (B(3) :> row(p3, a3, ref))
LinkCases ==
  {[city |-> LinkCity(p2, p3, a2, a3, ref), page |-> page, sessions |-> sessions] :
     p2 \in Kin(2, {B(1)}), p3 \in Kin(3, {B(1), B(2)}), a2, a3 \in Attempts2, ref \in Refs,
     page \in {{B(1), B(2), B(3)}, {B(2), B(3)}, {B(1), B(3)}},
     sessions \in {{}, {<<"session", 1>>}}}

Parents ==
  {f \in [{B(n) : n \in 1 .. 4} -> {None} \cup {B(n) : n \in 1 .. 3}] :
     /\ f[B(1)] = None /\ f[B(2)] \in {B(1), B(3)}
     /\ f[B(3)] \in {None, B(1), B(2)} /\ f[B(4)] \in {B(1), B(2), B(3)}}
(* The steps below a root of graph.v2 are not materialised.                *)
Rootless == {f \in Parents : \A b \in DOMAIN f : f[b] # B(1)}
ConvoyCity(parents, done, needs, graphV2) ==
  [b \in {B(n) : n \in 1 .. 4} |->
     [parent |-> parents[b], status |-> IF b \in done THEN "closed" ELSE "open",
      needs |-> IF b = B(4) THEN needs ELSE {}, graphV2 |-> b = B(1) /\ graphV2]]
ConvoyCases ==
  UNION {{[city |-> city, page |-> page \cup {B(1)}, walked |-> walked, root |-> B(1)] :
            page \in SUBSET {B(2), B(3), B(4)},
            walked \in {None, Linked!Under(city, B(1)),
                        Linked!Under(city, B(1)) \cup {B(5)}}} :
         city \in {ConvoyCity(parents, done, needs, FALSE) :
                     parents \in Parents, done, needs \in SUBSET {B(2), B(3)}}
                 \cup {ConvoyCity(parents, {}, {}, TRUE) : parents \in Rootless}}

Names == {"t", "u"}
TargetCases ==
  [sessions : [1 .. 2 -> [alias : Names, pool : {"t", None}, aliasTail : Names, nameTail : Names,
                          state : {"active", "asleep"}]],
   target : {"t"}]
(***************************************************************************)
(* RunDetail: roots and reads, then beads and sessions, then the folders   *)
(* of a root and a bead, then the executions of a node.                    *)
(***************************************************************************)
Root == [graphV2 |-> TRUE, status |-> "in_progress", formula |-> "f", formulaName |-> None,
         runTarget |-> None, routedTo |-> "t", assignee |-> None, title |-> "mol-title"]
Roots ==
  {[Root EXCEPT !.graphV2 = graphV2, !.status = status, !.formula = formula, !.formulaName = name,
                !.runTarget = target, !.routedTo = routed, !.assignee = assignee, !.title = title] :
     graphV2 \in BOOLEAN, status \in {"open", "closed"}, formula \in {None, "f"}, name \in {None, "g"},
     target, routed, assignee \in {None, "t"}, title \in {None, "mol-title"}}
Handle(base, id) == [base |-> base, id |-> id]
Worker == [status |-> "active", sessionId |-> None, sessionName |-> None, assignee |-> Handle("w", None)]
Load == [root |-> Root, identified |-> TRUE, partial |-> FALSE, first |-> "ok", second |-> "ok",
         formula |-> "ok", canonical |-> "f", sessions |-> << >>, bead |-> Worker]
Reads == {"ok", "timeout", "5xx", "4xx", "404"}
Listed(id, names) == [id : {id}, names : names, template : {Handle("tmpl", None)}, active : BOOLEAN]
First == Listed(1, {{}, {Handle("w", None)}, {Handle("w", 1)}})
Second == Listed(2, {{}, {Handle("w", None)}})
SessionLists ==
  {None, << >>} \cup {<<s>> : s \in First}
    \cup UNION {{<<s, t>>, <<t, s>>} : s \in First, t \in Second}
Handles == {None, Handle("w", 1), Handle("w", None), Handle("w", 3)}
DetailLoads ==
  {[Load EXCEPT !.root = root, !.formula = read, !.canonical = canonical] :
     root \in Roots, read \in {"ok", "404", "timeout"}, canonical \in {"f", "h"}}
  \cup {[Load EXCEPT !.first = first, !.second = second, !.identified = identified, !.partial = partial,
                     !.sessions = sessions, !.root.graphV2 = graphV2] :
          first, second \in Reads, identified, partial, graphV2 \in BOOLEAN, sessions \in {None, << >>}}
  \cup {[Load EXCEPT !.sessions = sessions,
                     !.bead = [status |-> status, sessionId |-> id, sessionName |-> name,
                               assignee |-> assignee]] :
          sessions \in SessionLists, status \in {"pending", "completed"},
          id \in Handles \cup {Handle(None, 1)}, name \in Handles,
          assignee \in Handles \cup {Handle("tmpl", None)}}

Folders(own) == {[cwd |-> cwd, workDir |-> dir, gcWorkDir |-> shared, rigRoot |-> "checkout"] :
                   cwd, dir \in {None, own}, shared \in {None, "checkout"}}
FolderCases == [root : Folders("worktree"), bead : Folders("worktree")]

Executions == [attached : BOOLEAN, current : BOOLEAN, status : {"active", "completed"}]
NodeCases ==
  UNION {[instances : [1 .. n -> Executions], visible : 1 .. n] : n \in 1 .. 3}

RuleInputs ==
  [beads |-> BeadCases, items |-> BoardCases, graph |-> GraphCases, links |-> LinkCases,
   convoy |-> ConvoyCases, target |-> TargetCases, detail |-> DetailLoads, folders |-> FolderCases,
   nodes |-> NodeCases]
-----------------------------------------------------------------------------
\* What TLC does not follow further.  Of the summary: a third change of the
\* beads before the lanes were upgraded or in a row of retries.  Of the board:
\* a stream that is open or closed, which the line takes as it takes one that
\* connects or is degraded.  Of the lanes: a list of sessions with a worker,
\* which the lane takes as one unread.  Of the mail table: bulk marks that
\* ended early or under another table than they began; it has two messages in
\* one box or one message in both.  Of the aquarium: beads that were keyed
\* anew, or cached under a third list of rigs.
OneMessage == \A m \in Messages \ {m1} : v8[m] = "unread" /\ m \notin v9
NotStrayed ==
  /\ subject = "summary" => world <= 2 \/ (upgraded /\ attempt = 0)
  /\ subject = "board" => v9 \in {"connecting", "degraded"}
  /\ subject = "lanes" => v7 # "worker"
  /\ subject = "marks" => Marks!Orderly /\ v1 \in Inbox
  /\ subject = "boxes" => Marks!Orderly /\ OneMessage
  /\ subject = "reef" => Water!SameKey /\ Cardinality(DOMAIN v5) <= 2
===============================================================================
