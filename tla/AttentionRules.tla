--------------------------- MODULE AttentionRules ---------------------------
(***************************************************************************)
(* What the dashboard asks of its operator: the rules that turn a domain's *)
(* facts into attention items (frontend/src/attention/derive), the         *)
(* selectors they share with the pages, and the composition of the items   *)
(* into badges, a short list and an overflow (attention/compose.ts).       *)
(*                                                                         *)
(* A fact is abstracted to what a rule reads of it: an age is a number of  *)
(* days, a measure is its band, a read is how it was answered.             *)
(***************************************************************************)
EXTENDS Naturals, Sequences, FiniteSets, SequencesExt

CONSTANTS TopLimit,   \* DEFAULT_TOP_LIMIT
          None

Domains == <<"agents", "beads", "runs", "mail", "activity", "health", "maintainer">>
Severities == <<"attention", "watch", "unavailable">>
Place(seq, x) == CHOOSE i \in DOMAIN seq : seq[i] = x

Item(domain, of, why, severity) ==
  [domain |-> domain, of |-> of, why |-> why, severity |-> severity]

(***************************************************************************)
(* Reads that were not answered whole.  A domain makes several reads; a    *)
(* failed one is kept in the facts beside those that were answered.        *)
(***************************************************************************)
Reads == [agents     |-> [list |-> {"ok", "partial", "failed"}, pending |-> {"ok", "failed"}],
          beads      |-> [list |-> {"ok", "partial", "failed"},
                          decisions |-> {"ok", "failed"}, escalations |-> {"ok", "failed"}],
          mail       |-> [list |-> {"ok", "partial", "failed"}],
          activity   |-> [deploys |-> {"ok", "failed"},
                          events |-> {"ok", "partial", "degraded", "failed"}],
          health     |-> [system |-> {"ok", "failed"}, supervisor |-> {"ok", "failed"},
                          trend |-> {"ok", "unavailable", "failed"}],
          maintainer |-> [triage |-> {"ok", "failed"}]]
Polled == DOMAIN Reads

Failed(domain, read) ==
  CASE domain = "activity" /\ read = "deploys" -> "attention"
    [] domain = "activity" /\ read = "events" -> "watch"
    [] domain = "health" -> "attention"
    [] domain = "maintainer" -> "watch"
    [] OTHER -> "unavailable"

(* A list that lost a part, and a trend that has no source.                *)
Short(domain) == IF domain = "agents" THEN "unavailable" ELSE "watch"

(* The two reads of the dashboard's own health share one item.             *)
Blames(domain, read) ==
  IF domain = "health" /\ read \in {"system", "trend"} THEN "dashboard" ELSE read

Troubles_Fault(domain, facts) ==
  {Item(domain, Blames(domain, r), "unavailable", Failed(domain, r)) :
     r \in {r \in DOMAIN facts : facts[r] = "failed"}}

(* facts[r]: how read r was answered.  An agent list that failed is all    *)
(* that is said of the agents.                                             *)
Troubles(domain, facts) ==
  {IF facts[r] = "failed"
   THEN Item(domain, Blames(domain, r), "unavailable", Failed(domain, r))
   ELSE Item(domain, r, facts[r], Short(domain)) :
     r \in {r \in DOMAIN facts :
              /\ facts[r] # "ok"
              /\ domain = "agents" /\ r = "pending" => facts["list"] # "failed"}}

(***************************************************************************)
(* Beads.  world[i] is a bead; an id is a number.                          *)
(***************************************************************************)
WatchDays == 1
StaleDays == 3

isResolvedStatus(status) == status \in {"closed", "failed", "skipped"}

(* listSupervisorBeads: unresolved engineering beads without a gc: label.  *)
General(world) ==
  {i \in DOMAIN world : /\ ~isResolvedStatus(world[i].status)
                        /\ world[i].engineering
                        /\ "gc:escalation" \notin world[i].labels}
Queue(world, label) ==
  {i \in DOMAIN world : world[i].status = "open" /\ label \in world[i].labels}

displacesHeldDecision(a, b) == a.moved > b.moved \/ (a.moved = b.moved /\ a.id < b.id)

dedupeDecisionsBySlug_Fault(world, queue) == queue

dedupeDecisionsBySlug(world, queue) ==
  {i \in queue : world[i].slug = None \/ \A j \in queue :
     world[j].slug = world[i].slug => ~displacesHeldDecision(world[j], world[i])}

readyUnclaimed(bead) == bead.status = "open" /\ ~bead.assigned /\ bead.age >= WatchDays

deriveBeads(world) ==
  LET decisions == dedupeDecisionsBySlug(world, Queue(world, "decision"))
      escalated == {i \in Queue(world, "gc:escalation") : ~isResolvedStatus(world[i].status)}
      unclaimed == {i \in General(world) : /\ "decision" \notin world[i].labels
                                           /\ readyUnclaimed(world[i])}
  IN  {Item("beads", i, "mayor-decision", "attention") : i \in decisions}
      \cup {Item("beads", i, "escalated", "attention") : i \in escalated}
      \cup {Item("beads", i, "ready-unclaimed",
                 IF world[i].age >= StaleDays THEN "attention" ELSE "watch") : i \in unclaimed}

(***************************************************************************)
(* Agents (shared/src/agents/needsYou.ts): one selector for the badge and  *)
(* the page.                                                               *)
(***************************************************************************)
needsYouReason(agent) ==
  IF agent.pending THEN "awaiting-input"
  ELSE CASE agent.state = "failed" -> "errored"
         [] agent.state = "rate-limited" -> "rate-limited"
         [] agent.state \in {"waiting", "detached"} -> "stalled"
         [] OTHER -> IF agent.running /\ ~agent.session THEN "stalled" ELSE None

selectAgentsNeedingYou(roster) == {a \in DOMAIN roster : needsYouReason(roster[a]) # None}

(* listAgentPendingInteractions: a prompt is looked for only where the     *)
(* agent's session is in the session list.                                 *)
Asked(agent) == agent.session /\ agent.listed /\ agent.prompted

deriveAgents(roster) ==
  LET seen == [a \in DOMAIN roster |-> [roster[a] EXCEPT !.pending = Asked(roster[a])]]
  IN  {Item("agents", a, "needs-you", "attention") : a \in selectAgentsNeedingYou(seen)}

(***************************************************************************)
(* Mail (shared/src/operator-mail.ts), deploys, events and health.         *)
(***************************************************************************)
MailStaleDays == 1

selectOperatorActionableUnread(mail) == {m \in DOMAIN mail : ~mail[m].read /\ ~mail[m].pool}

deriveMail(mail) ==
  {Item("mail", m, IF mail[m].age >= MailStaleDays THEN "unread-stale" ELSE "unread", "attention") :
     m \in selectOperatorActionableUnread(mail)}

supervisorEventSignal(type) ==
  CASE type = "crashed" -> "attention"
    [] type = "suspended" -> "watch"
    [] OTHER -> "event"

deriveActivity(events, deploys, marker) ==
  {Item("activity", e, "event", supervisorEventSignal(events[e])) :
     e \in {e \in DOMAIN events : supervisorEventSignal(events[e]) # "event"}}
  \cup {Item("activity", d, deploys[d],
             IF deploys[d] = "failed" THEN "attention" ELSE "watch") :
          d \in {d \in DOMAIN deploys : deploys[d] \in {"failed", "in-progress"}}}
  \cup IF marker THEN {Item("activity", "failed-marker", "deploy", "attention")} ELSE {}

(* A measure in its upper band is attention, in the one below it watch.    *)
Band(measure, level) ==
  CASE level = "high" -> {Item("health", measure, level, "attention")}
    [] level = "elevated" -> {Item("health", measure, level, "watch")}
    [] OTHER -> {}

deriveHealth(levels, starting, status, missing) ==
  (UNION {Band(measure, levels[measure]) : measure \in DOMAIN levels})
  \cup (IF starting THEN {Item("health", "process", "starting", "attention")} ELSE {})
  \cup (IF status # "ok" THEN {Item("health", "supervisor", "not-ok", "attention")} ELSE {})
  \cup {Item("health", field, "missing", "watch") : field \in missing}

(***************************************************************************)
(* Runs and the maintainer's triage.                                       *)
(***************************************************************************)
deriveRuns(source) ==
  IF source.status = "error"
  THEN {Item("runs", "source", "unavailable", "attention")}
  ELSE (IF source.partial THEN {Item("runs", "lanes", "partial", "unavailable")} ELSE {})
       \cup {Item("runs", l, "health-unavailable", "unavailable") :
               l \in {l \in DOMAIN source.lanes : ~source.lanes[l].health}}
       \cup {Item("runs", l, source.lanes[l].kind, "attention") :
               l \in {l \in DOMAIN source.lanes : source.lanes[l].kind \in {"blocked", "stranded"}}}

deriveMaintainer(triage) ==
  {Item("maintainer", i,
        IF triage[i].slung = None
        THEN IF triage[i].needsYou THEN "needs-you" ELSE "needs-triage"
        ELSE "slung",
        IF triage[i].slung = "resolved" THEN "watch" ELSE "attention") :
     i \in {i \in DOMAIN triage :
              triage[i].slung # None \/ triage[i].needsYou \/ ~triage[i].assessed}}

(***************************************************************************)
(* Composition.                                                            *)
(***************************************************************************)
(* The first field of compareAttentionItems that tells two items apart;    *)
(* `moved' is how recent the items of a domain are (one time for a domain, *)
(* 0 for a domain whose items have none); the index settles a tie.         *)
Before(a, b, moved) ==
  LET s(x) == Place(Severities, x.severity)
      d(x) == Place(Domains, x.domain)
  IN  \/ s(a) < s(b)
      \/ s(a) = s(b) /\ moved[a.domain] > moved[b.domain]
      \/ s(a) = s(b) /\ moved[a.domain] = moved[b.domain] /\ d(a) < d(b)

(* The k foremost: the last is left out again and again.                   *)
Foremost(items, moved, k) ==
  LET butLast(some) == some \ {CHOOSE i \in some : \A j \in some : ~Before(i, j, moved)}
      left[n \in 0 .. Cardinality(items)] == IF n = 0 THEN items ELSE butLast(left[n - 1])
  IN  IF Cardinality(items) <= k THEN items ELSE left[Cardinality(items) - k]

Counts(items, severity) == Cardinality({i \in items : i.severity = severity})

Of(items, domain) == {i \in items : i.domain = domain}

badge(items) ==
  [total |-> Counts(items, "attention") + Counts(items, "watch"),
   severity |-> IF Counts(items, "attention") > 0 THEN "attention"
                ELSE IF Counts(items, "watch") > 0 THEN "watch" ELSE None]

topItems(items, moved) == Foremost(items, moved, TopLimit)

ByDomain(rest) == [d \in {i.domain : i \in rest} |-> Of(rest, d)]
groupOverflow_Fault(items, moved) == ByDomain(items \ Foremost(items, moved, TopLimit + 1))
groupOverflow(items, moved) == ByDomain(items \ topItems(items, moved))

(* The highlight of a row.                                                 *)
resourceAttentionSeverity(items, domain, of) ==
  badge({i \in items : i.domain = domain /\ i.of = of}).severity

(* The facts of the domains, each in a field of its own; reads[d] says how *)
(* the reads of a polled domain were answered.                             *)
attentionItems(facts) ==
  deriveBeads(facts.beads) \cup deriveAgents(facts.agents) \cup deriveMail(facts.mail)
  \cup deriveActivity(facts.events, facts.deploys, facts.marker)
  \cup deriveHealth(facts.levels, facts.starting, facts.status, facts.missing)
  \cup deriveRuns(facts.runs) \cup deriveMaintainer(facts.triage)
  \cup UNION {Troubles(d, facts.reads[d]) : d \in DOMAIN facts.reads}

(* The same facts, had every read that failed found nothing.               *)
Healed(facts) ==
  [facts EXCEPT !.reads = [d \in DOMAIN facts.reads |->
     [r \in DOMAIN facts.reads[d] |-> IF facts.reads[d][r] = "failed" THEN "ok" ELSE facts.reads[d][r]]]]

(* Of everything there are finitely many.                                  *)
Gathered(facts, moved) ==
  /\ IsFiniteSet(DOMAIN facts.beads) /\ IsFiniteSet(DOMAIN facts.agents)
  /\ IsFiniteSet(DOMAIN facts.mail) /\ IsFiniteSet(DOMAIN facts.events)
  /\ IsFiniteSet(DOMAIN facts.deploys) /\ IsFiniteSet(DOMAIN facts.levels)
  /\ IsFiniteSet(facts.missing) /\ IsFiniteSet(DOMAIN facts.triage)
  /\ facts.runs.status # "error" => IsFiniteSet(DOMAIN facts.runs.lanes)
  /\ DOMAIN facts.reads \subseteq Polled
  /\ \A d \in DOMAIN facts.reads : IsFiniteSet(DOMAIN facts.reads[d])
  /\ "agents" \in DOMAIN facts.reads => "list" \in DOMAIN facts.reads["agents"]
  /\ \A d \in ToSet(Domains) : moved[d] \in Nat
  /\ TopLimit \in Nat /\ None \notin {"attention", "watch"}

(* The beads of a world are finitely many, each under a name of its own:   *)
(* the numbers stand for the names and the dates that the code compares.   *)
Kept(world) ==
  /\ IsFiniteSet(DOMAIN world)
  /\ \A i \in DOMAIN world : world[i].id \in Nat /\ world[i].moved \in Nat
  /\ \A i, j \in DOMAIN world : world[i].id = world[j].id => i = j

(***************************************************************************)
(* Properties, for any facts.                                              *)
(***************************************************************************)
(* Three queries of one set of beads, two of them kept apart so that a cap *)
(* on the third loses nothing: a decision filed twice is asked once, a     *)
(* decision is not also reported as unclaimed work, and nothing open and   *)
(* waiting is left out.                                                    *)
EachNeedIsAskedOnce(world) ==
  LET items == deriveBeads(world)
      asks == {i \in items : i.why = "mayor-decision"}
      open == {i \in DOMAIN world : world[i].status = "open"}
  IN  /\ \A i, j \in asks : world[i.of].slug = world[j.of].slug /\ world[i.of].slug # None => i = j
      /\ \A b \in open : "decision" \in world[b].labels =>
           \E i \in asks : i.of = b \/ (world[b].slug # None /\ world[i.of].slug = world[b].slug)
      /\ \A b \in open : "gc:escalation" \in world[b].labels =>
           resourceAttentionSeverity(items, "beads", b) = "attention"
      /\ \A b \in open : /\ world[b].engineering /\ world[b].labels = {}
                         /\ ~world[b].assigned /\ world[b].age >= WatchDays
                         => resourceAttentionSeverity(items, "beads", b) # None
      /\ \A b \in DOMAIN world :
           Cardinality({i \in items : i.of = b /\ i.why # "escalated"}) <= 1

(* The list shows the most severe, what it does not show is counted under  *)
(* its domain, and a row is never marked more severely than its badge; a   *)
(* read that was not answered colours no badge of the agents or the beads, *)
(* and is not dropped for that.                                            *)
NothingUrgentIsHidden(facts, moved) ==
  LET items == attentionItems(facts)
      shown == topItems(items, moved)
      hidden == groupOverflow(items, moved)
      rank(severity) == Place(<<"attention", "watch", None>>, severity)
  IN  /\ shown \cup UNION Range(hidden) = items
      /\ \A a \in shown, d \in DOMAIN hidden : \A b \in hidden[d] :
           /\ Place(Severities, a.severity) <= Place(Severities, b.severity)
           /\ a.severity = b.severity => moved[a.domain] >= moved[b.domain]
      /\ \A i \in items : rank(resourceAttentionSeverity(items, i.domain, i.of))
                             >= rank(badge(Of(items, i.domain)).severity)
      /\ \A d \in {"agents", "beads"} \cap DOMAIN facts.reads :
           "failed" \in Range(facts.reads[d]) =>
             /\ \E i \in Of(items, d) : i.severity = "unavailable"
             /\ badge(Of(items, d)) = badge(Of(attentionItems(Healed(facts)), d))
=============================================================================
