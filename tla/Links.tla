-------------------------------- MODULE Links --------------------------------
(***************************************************************************)
(* What the browser works out of one bounded read of a city's beads: the   *)
(* entities related to one of them (shared/src/links, supervisor/          *)
(* entityLinks.ts) and the steps below the root of a convoy (shared/src/   *)
(* convoy, supervisor/convoyReads.ts).                                     *)
(*                                                                         *)
(* city[b] is a bead: its parent, molecule, step, attempt, pr and session, *)
(* each of which may be None, its status and whether it is graph.v2, a     *)
(* root whose steps the supervisor never materialises.  A read has the     *)
(* beads of its page and the sessions that were listed.                    *)
(***************************************************************************)
EXTENDS Naturals, FiniteSets

CONSTANT None

(* listIsIncomplete: the page is short of what the city holds.             *)
listIsIncomplete(city, page) == page # DOMAIN city

(***************************************************************************)
(* The relation index.                                                     *)
(***************************************************************************)
retryKey(bead) == <<bead.molecule, bead.step>>
Numbered(bead) == None \notin {bead.molecule, bead.step, bead.attempt}

markSuperseded(city, page) ==
  {b \in page : Numbered(city[b]) /\ \E c \in page :
     /\ Numbered(city[c]) /\ retryKey(city[c]) = retryKey(city[b])
     /\ city[c].attempt > city[b].attempt}

Live_Fault(city, page) == page

Live(city, page) == page \ markSuperseded(city, page)
childrenOf(city, page, b) == {c \in Live(city, page) : city[c].parent = b}
membersOfMolecule(city, page, m) == {c \in Live(city, page) : city[c].molecule = m}
beadsForPr(city, page, pr) == {c \in Live(city, page) : city[c].pr = pr}
beadsForSession(city, page, s) == {c \in Live(city, page) : city[c].session = s}

(***************************************************************************)
(* One hop from a focus.                                                   *)
(***************************************************************************)
Link(to, relation, resolved) == [to |-> to, relation |-> relation, resolved |-> resolved]
linkBeads(beads, relation) == {Link(b, relation, TRUE) : b \in beads}

(* A pull request is never fetched: its node is a reference.               *)
addBeadEdges(city, page, sessions, b) ==
  LET bead == city[b]
      live == Live(city, page)
      molecule == membersOfMolecule(city, page, bead.molecule) \cup ({bead.molecule} \cap live)
  IN  (IF bead.parent = None THEN {} ELSE {Link(bead.parent, "parent", bead.parent \in live)})
      \cup linkBeads(childrenOf(city, page, b) \ {b}, "child")
      \cup (IF bead.molecule = None THEN {} ELSE linkBeads(molecule \ {b}, "molecule"))
      \cup (IF bead.pr = None THEN {} ELSE {Link(bead.pr, "pr", FALSE)})
      \cup (IF bead.session = None THEN {} ELSE {Link(bead.session, "session", bead.session \in sessions)})

(* resolveFocus: a bead, live or superseded, else a session, else nothing. *)
buildLinkView(city, page, sessions, ref) ==
  LET live == Live(city, page)
      ofPr == beadsForPr(city, page, ref)
      ofSession == beadsForSession(city, page, ref)
      view(type, resolved, links, candidates) ==
        [type |-> type, resolved |-> resolved, links |-> links, candidates |-> candidates,
         partial |-> ~resolved \/ listIsIncomplete(city, page)]
  IN  CASE ref[1] = "pr" -> view("github_pr", ofPr # {}, linkBeads(ofPr, "bead"), Cardinality(ofPr))
        [] ref[1] # "pr" /\ ref \in live ->
             view("bead", TRUE, addBeadEdges(city, page, sessions, ref), 1)
        [] ref[1] # "pr" /\ ref \in page \ live -> view("bead", TRUE, {}, 1)
        [] ref[1] # "pr" /\ ref \notin page /\ (ref \in sessions \/ ofSession # {}) ->
             view("session", TRUE, linkBeads(ofSession, "bead"), 1)
        [] OTHER -> view("bead", FALSE, {}, 0)

descendantsOf_Fault(city, page, root) == {c \in page : city[c].parent = root}

(***************************************************************************)
(* A convoy.                                                               *)
(***************************************************************************)
(* Breadth first from the root; what has been seen is not queued again.    *)
descendantsOf(city, page, root) ==
  LET below(beads) == {c \in page : city[c].parent \in beads /\ city[c].parent # c}
      reach[n \in 0 .. Cardinality(page)] ==
        IF n = 0 THEN {root} ELSE reach[n - 1] \cup below(reach[n - 1])
  IN  reach[Cardinality(page)] \ {root}

isGraphV2RunRoot(bead) == bead.graphV2
computeExposure(city, children, root) ==
  IF children # {} THEN "exposed"
  ELSE IF isGraphV2RunRoot(city[root]) THEN "graph_v2_root_only" ELSE "no_children"

blockedBy(city, graph, b) == {c \in city[b].needs \cap graph : city[c].status # "closed"}

(* loadConvoyView: the page is read of the city, then, if it is short, the *)
(* subtree is walked in what the city has become (`walked', None when the  *)
(* walk failed; a bead is closed, not removed, so it holds what the page   *)
(* was read of).                                                           *)
loadConvoyView(city, page, walked, root) ==
  LET children == descendantsOf(city, page, root)
      exposure == computeExposure(city, children, root)
      deriveConvoyPartial ==
        /\ listIsIncomplete(city, page)
        /\ exposure # "graph_v2_root_only"
        /\ walked # None => ~(walked \subseteq children)
  IN  [steps |-> children, exposure |-> exposure, partial |-> deriveConvoyPartial,
       blocked |-> {b \in children : blockedBy(city, children \cup {root}, b) # {}}]

(***************************************************************************)
(* resolveSessionForTarget: the session that carries a target, the active  *)
(* ones first, in the order of the list; a name matches whole or by its    *)
(* last segment.                                                           *)
(***************************************************************************)
matchesSessionTarget(session, target) ==
  \/ target \in {session.alias, session.pool}
  \/ target = session.aliasTail
  \/ target = session.nameTail

resolveSessionForTarget_Fault(sessions, target) ==
  LET matching == {i \in DOMAIN sessions : matchesSessionTarget(sessions[i], target)}
  IN  IF matching = {} THEN None ELSE CHOOSE i \in matching : \A j \in matching : i <= j

resolveSessionForTarget(sessions, target) ==
  LET matching == {i \in DOMAIN sessions : matchesSessionTarget(sessions[i], target)}
      active == {i \in matching : sessions[i].state = "active"}
      first(set) == CHOOSE i \in set : \A j \in set : i <= j
  IN  IF active # {} THEN first(active) ELSE IF matching # {} THEN first(matching) ELSE None

(* A page of the city: the beads the browser read, of which none is a      *)
(* session, the name of nobody, or a pull request of the city's own.       *)
Told(city, page, sessions) ==
  /\ page \subseteq DOMAIN city /\ page \cap sessions = {} /\ None \notin page
  /\ \A b \in page : b[1] # "pr"

(***************************************************************************)
(* Properties, for any city and any page of it.                            *)
(***************************************************************************)
(* A superseded attempt is reached from nowhere and leads nowhere, parent  *)
(* and child name each other, and what a view that is not partial cannot   *)
(* resolve is really not live in the city, whatever other pages hold.      *)
LinksAreTrue(city, page, sessions) ==
  LET view == [b \in page |-> buildLinkView(city, page, sessions, b)]
      retired == markSuperseded(city, page)
  IN  /\ \A b \in page : \A link \in view[b].links : link.resolved => link.to \notin retired
      /\ \A b \in page \cap retired : view[b].links = {}
      /\ \A b, c \in page : b # c =>
           (Link(c, "child", TRUE) \in view[b].links <=> Link(b, "parent", TRUE) \in view[c].links)
      /\ \A b \in page : ~view[b].partial =>
           /\ \A link \in view[b].links : link.relation = "parent" /\ ~link.resolved =>
                link.to \notin Live(city, DOMAIN city)
           /\ \A link \in view[b].links : link.relation \in {"parent", "child", "molecule"} /\ link.resolved =>
                link.to \in Live(city, DOMAIN city)

(* What is below a bead, found from below: the beads whose parents, one    *)
(* after another, lead to it.                                              *)
Under(city, root) ==
  LET above(b) == {city[b].parent} \cap DOMAIN city
      lead[n \in 0 .. Cardinality(DOMAIN city)] ==
        [b \in DOMAIN city |->
           IF n = 0 THEN above(b)
           ELSE lead[n - 1][b] \cup UNION {above(a) : a \in lead[n - 1][b]}]
  IN  {b \in DOMAIN city \ {root} : root \in lead[Cardinality(DOMAIN city)][b]}

(* A convoy as it is read: its root is on the page, a walk finds what was  *)
(* below the root when the page was read, and the steps below the root of  *)
(* a graph.v2 run are not materialised.                                    *)
Read(city, page, walked, root) ==
  /\ IsFiniteSet(DOMAIN city) /\ page \subseteq DOMAIN city /\ root \in page
  /\ walked # None => Under(city, root) \subseteq walked
  /\ isGraphV2RunRoot(city[root]) => Under(city, root) = {}

(* A convoy that is shown without the notice of being partial has every    *)
(* step that was below its root when the page was read, though a step in   *)
(* the middle fell off the page and took with it those that did not; and   *)
(* a step shown as free waits for nothing that is open.                    *)
ConvoyIsWhole(city, page, walked, root) ==
  LET load == loadConvoyView(city, page, walked, root)
      truth == Under(city, root)
  IN  ~load.partial =>
        /\ load.steps = truth
        /\ \A b \in truth \ load.blocked :
             \A c \in city[b].needs \cap (truth \cup {root}) : city[c].status = "closed"

(* A live session that carries the target is never passed over for one     *)
(* that has ended, and a target that some session carries finds one.       *)
TargetIsFound(sessions, target) ==
  LET found == resolveSessionForTarget(sessions, target)
  IN  \A i \in DOMAIN sessions : matchesSessionTarget(sessions[i], target) =>
        /\ found # None /\ matchesSessionTarget(sessions[found], target)
        /\ sessions[i].state = "active" => sessions[found].state = "active" /\ found <= i
=============================================================================
