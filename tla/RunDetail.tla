------------------------------ MODULE RunDetail ------------------------------
(***************************************************************************)
(* One load of the detail of a run: the three reads behind it              *)
(* (frontend/src/supervisor/runDetail.ts, coreRead.ts), what is made of    *)
(* them (shared/src/runs: enrich, formula-run, formula-name, session-link, *)
(* execution-path) and which page they give                                *)
(* (frontend/src/hooks/useFormulaRunDetail.ts).                            *)
(*                                                                         *)
(* The root of a run is a record: whether its contract is graph.v2, its    *)
(* status, and its metadata, None where a key is absent or blank.  A       *)
(* handle is what a bead records of its session: [base, id] is the name    *)
(* `base-id' of a pool worker, an id alone is a session id, a base alone   *)
(* is a bare name or a template.                                           *)
(* (Each operator ending in _Fault is a plausible bug in the one below it.)*)
(***************************************************************************)
EXTENDS Naturals, Sequences, FiniteSets, FiniteSetsExt, SequencesExt

CONSTANT None

(* a ?? b ?? ...                                                           *)
FirstOf(seq) ==
  LET present == {i \in DOMAIN seq : seq[i] # None}
  IN  IF present = {} THEN None ELSE seq[Min(present)]

(***************************************************************************)
(* The name of the formula (formula-name.ts), for the page.                *)
(***************************************************************************)
isTerminalRunRootStatus(status) == status \in {"closed", "completed", "done", "failed", "skipped"}
rootRunTarget(root) == FirstOf(<<root.runTarget, root.routedTo>>)
runFormulaTarget(root) == FirstOf(<<rootRunTarget(root), root.assignee>>)
runFormulaMetadataName(root) == FirstOf(<<root.formula, root.formulaName>>)
runFormulaTitleFallback(root) ==
  IF root.graphV2 /\ rootRunTarget(root) # None /\ ~isTerminalRunRootStatus(root.status)
  THEN root.title ELSE None

(* `detail' is the name in the supervisor's answer, looked at only by the  *)
(* modes "detail" and "state"; "route" asks for that answer.               *)
resolveRunFormulaIdentity(mode, root, detail) ==
  LET answer == IF mode \in {"detail", "state"} THEN detail ELSE None
      name == FirstOf(<<runFormulaMetadataName(root), answer, runFormulaTitleFallback(root)>>)
  IN  [name |-> name,
       source |-> IF name = None THEN None
                  ELSE IF runFormulaMetadataName(root) # None THEN "metadata"
                  ELSE IF answer # None THEN "formula_detail" ELSE "title_fallback",
       target |-> runFormulaTarget(root)]

(* Any other source is shown as canonical.                                 *)
runFormulaState(root, detail) ==
  LET resolved == resolveRunFormulaIdentity("state", root, detail)
  IN  IF resolved.name = None THEN None
      ELSE [name |-> resolved.name,
            source |-> IF resolved.source = "title_fallback" THEN "title_fallback" ELSE "metadata"]

(* loadRunFormulaDetail, with the outcome of its read and the name the     *)
(* supervisor calls the formula by.                                        *)
loadRunFormulaDetail(root, read, canonical) ==
  LET asked == resolveRunFormulaIdentity("route", root, None)
  IN  CASE asked.name = None ->
             [reason |-> "missing_formula_metadata", name |-> None, detail |-> None]
        [] asked.name # None /\ asked.target = None ->
             [reason |-> "missing_run_target", name |-> asked.name, detail |-> None]
        [] asked.name # None /\ asked.target # None /\ read = "ok" ->
             [reason |-> None, name |-> asked.name, detail |-> canonical]
        [] OTHER ->
             [reason |-> IF read = "404" THEN "not_found" ELSE "upstream_error",
              name |-> asked.name, detail |-> None]

(***************************************************************************)
(* The session of a bead (session-link.ts, session-handle.ts).             *)
(***************************************************************************)
SessionId(id) == [base |-> None, id |-> id]

(* SESSION_ID_RE, and the id at the end of a handle.                       *)
IsSessionId(handle) == handle # None /\ handle.base = None
supervisorSessionIdFrom_Fault(handle) == IF IsSessionId(handle) THEN handle ELSE None
supervisorSessionIdFrom(handle) ==
  IF handle = None \/ handle.id = None THEN None ELSE SessionId(handle.id)

(* A session of the list: id, the names it goes by, template, active.      *)
byId(sessions, key) == {i \in DOMAIN sessions : SessionId(sessions[i].id) = key}
byName(sessions, key) == {i \in DOMAIN sessions : key \in sessions[i].names}
uniquePreferredSession(sessions, key) ==
  LET matching == {i \in DOMAIN sessions : sessions[i].template = key}
      active == {i \in matching : sessions[i].active}
  IN  IF Cardinality(active) = 1 THEN active ELSE IF Cardinality(matching) = 1 THEN matching ELSE {}

(* By id, then name, then template, of those the first in the list.        *)
Hits(sessions, key) ==
  IF byId(sessions, key) # {} THEN byId(sessions, key)
  ELSE IF byName(sessions, key) # {} THEN byName(sessions, key)
  ELSE uniquePreferredSession(sessions, key)

(* The first candidate that finds one.                                     *)
resolveRunSessionSummary(sessions, candidates) ==
  LET found == {j \in DOMAIN candidates : Hits(sessions, candidates[j]) # {}}
  IN  IF found = {} THEN None ELSE SessionId(sessions[Min(Hits(sessions, candidates[Min(found)]))].id)

RecordedId(bead) ==
  LET raw == FirstOf(<<bead.sessionId, bead.assignee>>)
  IN  FirstOf(<<supervisorSessionIdFrom(raw), raw>>)

runSessionLinkFor(bead, sessions) ==
  LET id == RecordedId(bead)
      name == FirstOf(<<bead.sessionName, bead.assignee, id>>)
      link == FirstOf(<<resolveRunSessionSummary(sessions,
                          <<FirstOf(<<id, name>>), name, FirstOf(<<bead.assignee, name>>)>>),
                        id, name>>)
  IN  IF bead.status \in {"pending", "ready"} \/ name = None \/ ~IsSessionId(link)
      THEN None ELSE link

(***************************************************************************)
(* Where the run works (execution-path.ts): each folder a bead records, in *)
(* the supervisor's order, the root's first.                               *)
(***************************************************************************)
executionWorkDirs_Fault(bead) == <<bead.cwd, bead.gcWorkDir, bead.workDir>>
executionWorkDirs(bead) == <<bead.cwd, bead.workDir, bead.gcWorkDir>>
resolveRunExecutionPath(root, beads) ==
  LET rows == <<root>> \o beads
      dirs == [i \in DOMAIN rows |-> FirstOf(executionWorkDirs(rows[i]))]
      rigs == [i \in DOMAIN rows |-> rows[i].rigRoot]
  IN  FirstOf(<<FirstOf(dirs), FirstOf(rigs)>>)

(***************************************************************************)
(* The load.                                                               *)
(***************************************************************************)
isTransientSupervisorError(outcome) == outcome \in {"timeout", "5xx"}
fetchCoreRead(first, second) == IF isTransientSupervisorError(first) THEN second ELSE first

(* The refusals of enrichFormulaRun.                                       *)
enrichFormulaRun(load) ==
  IF ~load.root.graphV2 THEN "not_run_view"
  ELSE IF ~load.identified THEN "invalid_snapshot" ELSE "ok"

(* loadFormulaRunDetail of the hook.                                       *)
payload(load) ==
  LET core == fetchCoreRead(load.first, load.second)
  IN  IF core = "404" THEN "not_found"
      ELSE IF core # "ok" THEN "failed"
      ELSE CASE enrichFormulaRun(load) = "ok" -> "loaded"
             [] enrichFormulaRun(load) = "not_run_view" -> "unsupported"
             [] OTHER -> "failed"

FormulaLookup(load) == loadRunFormulaDetail(load.root, load.formula, load.canonical)

(* The reasons why what is shown is partial; none: complete.               *)
completeness(load) ==
  (IF load.partial THEN {"supervisor_snapshot_partial"} ELSE {})
  \cup (IF load.sessions = None THEN {"session_list_failed"} ELSE {})
  \cup (IF FormulaLookup(load).reason # None THEN {"formula_detail"} ELSE {})
SessionsOf(load) == IF load.sessions = None THEN << >> ELSE load.sessions

(* FormulaRunPartialNotice leaves the formula's reasons to its own cell.   *)
pageLevelPartialReasons(load) == completeness(load) \ {"formula_detail"}

(***************************************************************************)
(* Which execution of a node its session tab opens                         *)
(* (components/run/RunNodeSessionPanel.tsx): a sequence of instances in    *)
(* the order of their iteration and attempt, `visible' the one the graph   *)
(* shows.                                                                  *)
(***************************************************************************)
streamable(instance) == instance.attached /\ instance.current /\ instance.status = "active"
preferredInstance(instances, visible) ==
  LET at(test(_)) == {i \in DOMAIN instances : test(instances[i])}
      live == at(streamable)
      attached == at(LAMBDA x : x.attached)
      lowest(S) == CHOOSE i \in S : \A j \in S : i <= j
      highest(S) == CHOOSE i \in S : \A j \in S : i >= j
  IN  CASE live # {} -> lowest(live)
        [] live = {} /\ visible \in attached -> visible
        [] live = {} /\ visible \notin attached /\ attached # {} -> highest(attached)
        [] OTHER -> visible

(* A load as the answers make it: a session has an id and no name that is  *)
(* one, a handle is a name or has an id, and None is none of these.        *)
Answered(load) ==
  LET root == load.root
      handles == {load.bead.sessionId, load.bead.sessionName, load.bead.assignee} \ {None}
  IN  /\ root.graphV2 \in BOOLEAN /\ load.identified \in BOOLEAN /\ load.partial \in BOOLEAN
      /\ None \notin {"missing_formula_metadata", "missing_run_target", "not_found", "upstream_error",
                      "metadata", "formula_detail", "title_fallback"}
      /\ \A name \in {root.formula, root.formulaName, root.title, load.canonical} :
           \A source \in {"metadata", "title_fallback"} : [name |-> name, source |-> source] # None
      /\ DOMAIN SessionsOf(load) \subseteq Nat
      /\ \A s \in ToSet(SessionsOf(load)) :
           s.id # None /\ SessionId(s.id) # None /\ \A n \in s.names \cup {s.template} : n.base # None
      /\ \A h \in handles : (h.base # None \/ h.id # None) /\ SessionId(h.id) # None

(* Folders as they are recorded: the checkout of the rig is never the      *)
(* root's own.                                                             *)
Recorded(root) == None # "worktree" /\ "checkout" \notin {root.cwd, root.workDir}

(***************************************************************************)
(* Properties.                                                             *)
(***************************************************************************)

(* A name guessed from the title of the root says so, and no root that is  *)
(* over gets one; the two resolvers agree: a detail that could not be      *)
(* fetched is missed under the very name the page shows.                   *)
NameIsAccountedFor(load) ==
  LET lookup == FormulaLookup(load)
      shown == runFormulaState(load.root, lookup.detail)
  IN  payload(load) = "loaded" =>
        /\ lookup.detail = None =>
             IF shown = None THEN lookup.name = None ELSE shown.name = lookup.name
        /\ shown # None /\ shown.source = "metadata" =>
             shown.name \in {load.root.formula, load.root.formulaName, lookup.detail}
        /\ isTerminalRunRootStatus(load.root.status) =>
             shown = None \/ shown.source = "metadata"

(* The page is blank, or says that there is no such view, only if the one  *)
(* read it cannot do without said so, and not for a read that failed once  *)
(* and was better a moment later; a read that only adds to the page never  *)
(* blanks it, and what it left out is accounted for.                       *)
OnlyTheCoreBlanks(load) ==
  /\ payload(load) = "loaded" <=>
       /\ load.root.graphV2 /\ load.identified
       /\ \/ load.first = "ok"
          \/ isTransientSupervisorError(load.first) /\ load.second = "ok"
  /\ (load.sessions = None \/ load.partial) <=> pageLevelPartialReasons(load) # {}
  /\ completeness(load) = {} => runFormulaState(load.root, FormulaLookup(load).detail) # None

(* The transcript of a bead is that of the session it recorded, as long as *)
(* the supervisor lists that one: a name, or a template shared by several, *)
(* only ever stands in for a session that is gone or was never recorded.   *)
TranscriptIsTheBeads(load) ==
  LET bead == load.bead
      link == runSessionLinkFor(bead, SessionsOf(load))
      listed == {s.id : s \in ToSet(SessionsOf(load))}
      handles == {bead.sessionId, bead.sessionName, bead.assignee} \ {None}
  IN  /\ link # None => IsSessionId(link)
      /\ bead.sessionId # None /\ bead.sessionId.id \in listed /\ bead.status \notin {"pending", "ready"} =>
           link = SessionId(bead.sessionId.id)
      /\ link # None /\ link.id \notin {h.id : h \in handles} =>
           \E s \in ToSet(SessionsOf(load)) :
             s.id = link.id /\ (s.names \cup {s.template}) \cap handles # {}
      /\ load.sessions = None /\ (\A h \in handles : h.id = None) => link = None

(* The diff is taken in the run's own worktree where the bead records one, *)
(* not in the checkout of the rig its dispatch passed on.                  *)
PathIsTheRuns(root, beads) ==
  resolveRunExecutionPath(root, beads) = "checkout" =>
    root.cwd # "worktree" /\ root.workDir # "worktree"

(* The session tab never opens on an execution without a transcript while  *)
(* another of the node has one, and on none that is over while one can be  *)
(* watched.                                                                *)
OpensOnATranscript(instances, visible) ==
  LET chosen == instances[preferredInstance(instances, visible)]
  IN  /\ (\E i \in DOMAIN instances : instances[i].attached) => chosen.attached
      /\ (\E i \in DOMAIN instances : streamable(instances[i])) => streamable(chosen)

DetailIsHonest(load) ==
  NameIsAccountedFor(load) /\ OnlyTheCoreBlanks(load) /\ TranscriptIsTheBeads(load)
=============================================================================
