--------------------------- MODULE MaintainerRules ---------------------------
(***************************************************************************)
(* From the open issues and pull requests of a repository to the envelope  *)
(* the maintainer's page is served                                         *)
(* (backend/src/views/modules/maintainer: triage, classifier,              *)
(* triage-assessment, blast-radius, topics, serve-overlay).                *)
(*                                                                         *)
(* gh[n] is what GitHub says of number n: its kind, whether it is a draft  *)
(* and its review, the labels that are read (`kind/bug' and the rest       *)
(* without their prefix), the severity and the simplicity an agent gave it *)
(* or None, its size, its files, the issues its body closes and the topic  *)
(* of its title.  Files are numbers, in the order of their names.          *)
(***************************************************************************)
EXTENDS Naturals, FiniteSets, FiniteSetsExt

CONSTANT None

(***************************************************************************)
(* fetchTriage.                                                            *)
(***************************************************************************)
derivePrStatus(pr) ==
  IF pr.draft THEN "draft"
  ELSE IF pr.review \in {"approved", "changes_requested", "needs_review"} THEN pr.review ELSE "open"

(* An issue has no files of its own, and no links before the reverse map.  *)
mapIssue(it) == [kind |-> "issue", status |-> "open", blast_files |-> {}, linked |-> {}]
mapPr(pr) ==
  [kind |-> "pr", status |-> derivePrStatus(pr), blast_files |-> pr.files, linked |-> pr.closes]
mapped(gh) == [n \in DOMAIN gh |-> IF gh[n].kind = "pr" THEN mapPr(gh[n]) ELSE mapIssue(gh[n])]

inheritIssueFiles(items) ==
  [n \in DOMAIN items |->
     LET prs == {p \in items[n].linked \cap DOMAIN items : items[p].kind = "pr"}
     IN  IF items[n].kind = "issue" /\ prs # {}
         THEN [items[n] EXCEPT !.blast_files = UNION {items[p].blast_files : p \in prs}]
         ELSE items[n]]

prsByFixedIssue(items) ==
  [n \in DOMAIN items |->
     IF items[n].kind = "pr" THEN items[n]
     ELSE [items[n] EXCEPT !.linked = {p \in DOMAIN items : items[p].kind = "pr" /\ n \in items[p].linked}]]

(* In this order.                                                          *)
fetchTriage(gh) == prsByFixedIssue(inheritIssueFiles(mapped(gh)))

(***************************************************************************)
(* The classifier and what an agent has assessed.                          *)
(***************************************************************************)
Tiers == {"regression_breaking", "regression", "stability"}
classifyTier(it) ==
  IF "bug" \notin it.labels THEN "stability"
  ELSE IF {"p0", "p1"} \cap it.labels # {} THEN "regression_breaking" ELSE "regression"

severityBase(tier) ==
  CASE tier = "regression_breaking" -> 300 [] tier = "regression" -> 200 [] OTHER -> 100

Sum(addends) == FoldSet(LAMBDA a, total : a[2] + total, 0, addends)
sizeBonus(lines) ==
  CASE lines < 50 -> 50 [] lines < 200 -> 35 [] lines < 500 -> 20 [] lines < 1000 -> 10 [] OTHER -> 0
statusBonus(status) ==
  CASE status = "approved" -> 35 [] status = "needs_review" -> 30 [] status = "draft" -> 5
    [] status = "changes_requested" -> 10 [] OTHER -> 20
Penalty == {<<"needs-info", 25>>, <<"needs-repro", 25>>, <<"stale", 30>>, <<"help-wanted", 15>>}

(* Shifted by 20 for a pull request, by 95 for an issue, so as to stay     *)
(* among the naturals: see computeTriageScore.                             *)
simplicityBonus(it, item) ==
  IF item.kind = "pr" THEN sizeBonus(it.lines) + statusBonus(item.status)
  ELSE (95 + IF item.linked # {} THEN 40 ELSE 0) - Sum({p \in Penalty : p[1] \in it.labels})
computeTriageScore(it, item) ==
  (severityBase(classifyTier(it)) + simplicityBonus(it, item))
    - (IF item.kind = "pr" THEN 20 ELSE 95)

(* The marker, a severity and a simplicity, or nothing.                    *)
parseTriageAssessment(it) ==
  IF "vetted" \notin it.labels \/ None \in {it.severity, it.simplicity} THEN None
  ELSE (300 - 50 * it.severity)
       + CASE it.simplicity = "low" -> 10 [] it.simplicity = "medium" -> 30 [] OTHER -> 50

isMarkCandidate(item) ==
  /\ item.kind = "pr" /\ item.tier = "regression_breaking" /\ item.slung = None
  /\ item.status \notin {"draft", "changes_requested"}

sortScore(item) == IF item.assessment # None THEN item.assessment ELSE item.score

classifyItem(it, item) ==
  [kind |-> item.kind, status |-> item.status, linked |-> item.linked,
   files |-> item.blast_files, topic |-> it.topic, slung |-> None,
   tier |-> classifyTier(it), score |-> computeTriageScore(it, item),
   assessment |-> parseTriageAssessment(it)]

issueNumbersWithInFlightPr_Fault(items) == {}

(***************************************************************************)
(* The one mark.                                                           *)
(***************************************************************************)
issueNumbersWithInFlightPr(items) ==
  UNION {items[p].linked : p \in {q \in DOMAIN items :
           items[q].kind = "pr" /\ items[q].status \notin {"merged", "closed"}}}
computeHasInFlightPr(items, n) == items[n].kind = "issue" /\ n \in issueNumbersWithInFlightPr(items)

(* A tie is settled by the place in the list, here by the number; a parent *)
(* issue takes the mark of a pull request that is not in flight.           *)
selectMarkWinner(items) ==
  LET busy == issueNumbersWithInFlightPr(items)
      candidates == {n \in DOMAIN items : isMarkCandidate(items[n]) /\ ~computeHasInFlightPr(items, n)}
      top == Min({n \in candidates : \A m \in candidates : sortScore(items[m]) <= sortScore(items[n])})
      parents == {i \in items[top].linked \cap DOMAIN items : items[i].kind = "issue" /\ i \notin busy}
  IN  IF candidates = {} THEN None ELSE IF parents = {} THEN top ELSE Min(parents)

(***************************************************************************)
(* Clusters: by a shared file, then by topic.                              *)
(***************************************************************************)
Cluster(by, members) == [by |-> by, items |-> members]
Members(items, tier, file) == {n \in tier : file \in items[n].files}

(* Files in the order of how many items of the tier they touch; an item is *)
(* in the cluster of the first that still has two for it.                  *)
buildClusters(items, tier) ==
  LET size(f) == Cardinality(Members(items, tier, f))
      shared == {f \in UNION {items[n].files : n \in tier} : size(f) >= 2}
      first(left) == CHOOSE f \in left : \A g \in left : size(f) > size(g) \/ (size(f) = size(g) /\ f <= g)
      claim(made) ==
        LET f == first(made.left)
            eligible == Members(items, tier, f) \ UNION {c.items : c \in made.clusters}
        IN  [left |-> made.left \ {f},
             clusters |-> IF Cardinality(eligible) < 2 THEN made.clusters
                          ELSE made.clusters \cup {Cluster(<<"file", f>>, eligible)}]
      made[n \in 0 .. Cardinality(shared)] ==
        IF n = 0 THEN [left |-> shared, clusters |-> {}] ELSE claim(made[n - 1])
  IN  made[Cardinality(shared)].clusters

buildTopicClusters(items, rest) ==
  LET about(t) == {n \in rest : items[n].topic = t}
  IN  {Cluster(<<"topic", t>>, about(t)) :
         t \in {t \in {items[n].topic : n \in rest} \ {None} : Cardinality(about(t)) >= 2}}

composeTier(items, tier) ==
  LET in == {n \in DOMAIN items : items[n].tier = tier}
      byFile == buildClusters(items, in)
      rest == in \ UNION {c.items : c \in byFile}
      clusters == byFile \cup buildTopicClusters(items, rest)
  IN  [clusters |-> clusters, unclustered |-> in \ UNION {c.items : c \in clusters}]

composeEnvelope(gh) ==
  LET fetched == fetchTriage(gh)
      items == [n \in DOMAIN gh |-> classifyItem(gh[n], fetched[n])]
  IN  [items |-> items, tiers |-> [t \in Tiers |-> composeTier(items, t)],
       marked |-> selectMarkWinner(items), slung_section |-> {}]

(***************************************************************************)
(* Serving: slings[n] is when n was slung, or None.                        *)
(***************************************************************************)
activeSling(item, slung) == IF item.assessment = None THEN slung ELSE None

removeItemsFromTiers(tiers, gone) ==
  [t \in Tiers |->
     [clusters |-> {c \in {Cluster(c.by, c.items \ gone) : c \in tiers[t].clusters} : c.items # {}},
      unclustered |-> tiers[t].unclustered \ gone]]

applySlungOverlay(envelope, slings) ==
  LET items == [n \in DOMAIN envelope.items |->
                  [envelope.items[n] EXCEPT !.slung = activeSling(envelope.items[n], slings[n])]]
      away == {n \in DOMAIN items : items[n].slung # None}
  IN  [items |-> items, marked |-> selectMarkWinner(items), slung_section |-> away,
       tiers |-> removeItemsFromTiers(envelope.tiers, away)]

(* What GitHub lists: a number is of an issue or a pull request, only a     *)
(* pull request closes anything, and an agent grades what is severe.       *)
Open(gh) ==
  /\ DOMAIN gh \subseteq Nat /\ IsFiniteSet(DOMAIN gh) /\ None \notin DOMAIN gh
  /\ IsFiniteSet(UNION {gh[n].files : n \in DOMAIN gh})
  /\ \A n \in DOMAIN gh :
       /\ gh[n].kind \in {"issue", "pr"} /\ gh[n].draft \in BOOLEAN /\ gh[n].lines \in Nat
       /\ gh[n].kind = "issue" => gh[n].closes = {}
       /\ gh[n].severity \in (0 .. 4) \cup {None}

(***************************************************************************)
(* Properties, for any list of issues and pull requests and any slings.    *)
(***************************************************************************)
Places(served, n) ==
  (IF n \in served.slung_section THEN {"slung"} ELSE {})
  \cup {<<t, "alone">> : t \in {u \in Tiers : n \in served.tiers[u].unclustered}}
  \cup UNION {{<<t, c.by>> : c \in {d \in served.tiers[t].clusters : n \in d.items}} : t \in Tiers}

(* The served page has every item in one place, whatever shares files,     *)
(* topics, tiers and slings; the ones with an agent are out of the tiers   *)
(* unless the agent has delivered; and the members of a cluster share what *)
(* it is named for.                                                        *)
EveryItemOnce(gh, slings) ==
  LET served == applySlungOverlay(composeEnvelope(gh), slings)
  IN  /\ \A n \in DOMAIN gh : Cardinality(Places(served, n)) = 1
      /\ \A n \in DOMAIN gh : n \in served.slung_section <=>
           slings[n] # None /\ served.items[n].assessment = None
      /\ \A t \in Tiers : \A c \in served.tiers[t].clusters : \A n \in c.items :
           \/ c.by = <<"topic", gh[n].topic>>
           \/ c.by[1] = "file" /\ c.by[2] \in served.items[n].files

(* The mark of the page is the next thing to do: the served page has it    *)
(* where the cached envelope may have it on an item that was slung since;  *)
(* it is never on a draft, on an item that is with an agent or on an issue *)
(* that a pull request claims; a vetted pull request goes before one that  *)
(* only scores higher; and there is one if there is anything to mark.      *)
MarkIsNext(gh, slings) ==
  LET served == applySlungOverlay(composeEnvelope(gh), slings)
      item == served.items
      ready == {n \in DOMAIN gh :
                  /\ gh[n].kind = "pr" /\ "bug" \in gh[n].labels /\ {"p0", "p1"} \cap gh[n].labels # {}
                  /\ ~gh[n].draft /\ gh[n].review # "changes_requested"
                  /\ n \notin served.slung_section}
  IN  /\ served.marked = None <=> ready = {}
      /\ served.marked # None =>
           /\ served.marked \in ready
           /\ \A n \in ready : sortScore(item[n]) <= sortScore(item[served.marked])
      /\ \A n \in DOMAIN gh : gh[n].kind = "issue" /\ (\E p \in DOMAIN gh : n \in gh[p].closes) =>
           computeHasInFlightPr(item, n) /\ served.marked # n

(* "issues with linked open PRs in this envelope inherit those files so    *)
(* the issue joins the same cluster as its fix-candidate".                 *)
IssueHasItsFixesFiles(gh) ==
  LET items == composeEnvelope(gh).items
  IN  \A i, p \in DOMAIN gh : gh[i].kind = "issue" /\ gh[p].kind = "pr" /\ i \in gh[p].closes
        => gh[p].files \subseteq items[i].files
=============================================================================
