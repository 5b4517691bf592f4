------------------------------ MODULE ViewingAs ------------------------------
(***************************************************************************)
(* Whose mail the operator reads                                           *)
(* (frontend/src/contexts/ViewingAsContext.tsx): an identity kept in the   *)
(* session storage of the tab, an operator whose name is a fallback until  *)
(* the configuration lands, and the list of identities to choose from,     *)
(* made of two reads of which one is retried on a schedule.                *)
(*                                                                         *)
(* An effect runs before the next event of the browser.                    *)
(***************************************************************************)
EXTENDS Naturals, FiniteSets

CONSTANTS Aliases,      \* the identities, without their letter case
          Fallback,     \* the operator's name until the configuration lands
          Real,         \* the operator's name in the configuration
          Wire,         \* the name the supervisor knows the operator by
          Mayor,        \* the identity that has a tier of its own
          Retries,      \* the length of SESSIONS_RETRY_DELAYS_MS
          None

\* What the constants are to be; an instance for TLC assumes it.
Assumptions ==
  /\ {Fallback, Real, Wire, Mayor} \subseteq Aliases
  /\ None \notin Aliases
  /\ Retries \in Nat

VARIABLES
  operator,      \* the operator's name
  alias,         \* whom the tab reads as
  stored,        \* the identity in session storage, or None
  started,       \* the identities were asked for
  sessions,      \* "idle", "asked", "timer", "landed" or "given up"
  attempt,       \* the index of the next retry
  mail,          \* "idle", "asked", "landed" or "failed"
  loading,       \* aliasesLoading
  unavailable,   \* sessionsUnavailable
  picked,        \* history: the operator chose the identity, here or before the reload
  asked          \* history: how often the sessions were asked for

vars == <<operator, alias, stored, started, sessions, attempt,
          mail, loading, unavailable, picked, asked>>

identity == <<operator, alias, stored, picked>>
lists == <<started, sessions, attempt, mail, loading, unavailable, asked>>

readStored(op) == IF stored = None THEN op ELSE stored
Written_Fault(a) == {a, stored}

(* Storage may refuse to keep an identity, never to forget one.            *)
Written(a) == IF a = operator THEN {None} ELSE {a, stored}

(***************************************************************************)
(* The identity.                                                           *)
(***************************************************************************)
setAlias(a) ==
  /\ alias' = a
  /\ stored' \in Written(a)
  /\ picked' = (a # operator)
  /\ UNCHANGED <<operator, lists>>

resetToOperator ==
  /\ alias' = operator /\ stored' = None
  /\ picked' = FALSE
  /\ UNCHANGED <<operator, lists>>

(* The re-sync after the configuration: only of a tab that reads as the    *)
(* name the operator had.                                                  *)
ConfigLands ==
  /\ operator = Fallback /\ Real # Fallback
  /\ operator' = Real
  /\ alias' = IF alias = Fallback THEN readStored(Real) ELSE alias
  /\ UNCHANGED <<stored, picked, lists>>

TabHides ==
  /\ alias # operator
  /\ alias' = operator /\ stored' = None
  /\ picked' = FALSE
  /\ UNCHANGED <<operator, lists>>

(***************************************************************************)
(* The list.                                                               *)
(***************************************************************************)
loadAliases ==
  /\ ~started
  /\ started' = TRUE /\ loading' = TRUE
  /\ sessions' = "asked" /\ mail' = "asked"
  /\ asked' = asked + 1
  /\ UNCHANGED <<identity, attempt, unavailable>>

First == asked = 1

LoadingAfter_Fault(other) == FALSE

(* settleOne: the list has loaded when both reads have settled once.       *)
LoadingAfter(other) == loading /\ other = "asked"

SessionsLand ==
  /\ sessions = "asked"
  /\ sessions' = "landed"
  /\ unavailable' = FALSE
  /\ loading' = IF First THEN LoadingAfter(mail) ELSE loading
  /\ UNCHANGED <<identity, started, attempt, mail, asked>>

getSessionsRetryDelay(i) == i < Retries

(* The first failure raises the flag; each failure sets the next timer.    *)
SessionsFail ==
  /\ sessions = "asked"
  /\ sessions' = IF getSessionsRetryDelay(attempt) THEN "timer" ELSE "given up"
  /\ unavailable' = (unavailable \/ First)
  /\ loading' = IF First THEN LoadingAfter(mail) ELSE loading
  /\ UNCHANGED <<identity, started, attempt, mail, asked>>

RetryFires ==
  /\ sessions = "timer"
  /\ sessions' = "asked"
  /\ attempt' = attempt + 1
  /\ asked' = asked + 1
  /\ UNCHANGED <<identity, started, mail, loading, unavailable>>

SessionsSettledOnce == sessions # "asked" \/ ~First

MailSettles ==
  /\ mail = "asked"
  /\ mail' \in {"landed", "failed"}
  /\ loading' = IF SessionsSettledOnce THEN FALSE ELSE loading
  /\ UNCHANGED <<identity, started, sessions, attempt, unavailable, asked>>

Fresh ==
  /\ started' = FALSE /\ sessions' = "idle" /\ mail' = "idle"
  /\ attempt' = 0 /\ asked' = 0 /\ loading' = FALSE /\ unavailable' = FALSE

(* The page goes with its timer and its outstanding reads, and is loaded   *)
(* again in the same tab.                                                  *)
Reload ==
  /\ operator' = Fallback
  /\ alias' = readStored(Fallback)
  /\ Fresh
  /\ UNCHANGED <<stored, picked>>

Init ==
  /\ operator = Fallback
  /\ stored \in (Aliases \ {Fallback}) \cup {None}
  /\ alias = readStored(Fallback)
  /\ picked = (stored \notin {None, Real})
  /\ started = FALSE
  /\ sessions = "idle" /\ mail = "idle" /\ attempt = 0 /\ asked = 0
  /\ loading = FALSE /\ unavailable = FALSE

Settle == SessionsLand \/ SessionsFail \/ MailSettles

Next ==
  \/ \E a \in Aliases : setAlias(a)
  \/ resetToOperator \/ ConfigLands \/ TabHides
  \/ loadAliases \/ RetryFires \/ Settle \/ Reload

Spec == Init /\ [][Next]_vars

Injected_Fault(seen) == seen

(***************************************************************************)
(* The tiers of the list (hooks/aliasPriority.ts).  `seen' are the         *)
(* identities of the sessions, `wrote' those of the mail; letter case is   *)
(* folded.                                                                 *)
(***************************************************************************)
Injected(seen) == seen \cup {alias}

prioritizeAliases(seen, wrote) ==
  LET others == (Injected(seen) \cup wrote) \ {operator}
  IN  [you    |-> {operator},
       mayor  |-> others \cap {Mayor},
       active |-> (others \cap wrote) \ {Mayor},
       other  |-> others \ (wrote \cup {Mayor})]

Listed(buckets) == UNION {buckets[tier] : tier \in DOMAIN buckets}

(***************************************************************************)
(* Properties.                                                             *)
(***************************************************************************)
TypeOK ==
  /\ {operator, alias} \subseteq Aliases
  /\ stored \in Aliases \cup {None}
  /\ {started, loading, unavailable, picked} \subseteq BOOLEAN
  /\ sessions \in {"idle", "asked", "timer", "landed", "given up"}
  /\ mail \in {"idle", "asked", "landed", "failed"}
  /\ attempt \in 0 .. Retries /\ asked \in 0 .. Retries + 1

(* Nobody is read as another without having asked for it: not when the     *)
(* configuration renames the operator, not after the tab was hidden, and   *)
(* not when the tab is then loaded again.  (A tab loaded again under the   *)
(* operator's configured name has it before the configuration lands.)      *)
NeverAnotherUnasked ==
  ~picked => alias \in {operator, Real} /\ stored \in {None, Real}

(* A supervisor that answers no session read is asked 1 + Retries times    *)
(* and no more, the footnote says so from the first failure until an       *)
(* answer, and the spinner ends when both reads have settled.              *)
FootnoteIsHonest ==
  /\ unavailable <=> (sessions \in {"timer", "given up"} \/ (sessions = "asked" /\ ~First))
  /\ sessions = "given up" => asked = Retries + 1
  /\ loading <=> started /\ ((sessions = "asked" /\ First) \/ mail = "asked")

(* The tiers are disjoint, leave nobody out and always show the reader.    *)
TiersAreAPartition ==
  \A seen, wrote \in SUBSET Aliases :
    LET b == prioritizeAliases(seen, wrote)
    IN  /\ \A t, u \in DOMAIN b : t # u => b[t] \cap b[u] = {}
        /\ Listed(b) = seen \cup wrote \cup {alias, operator}

(* What every step keeps: before the identities were asked for there is    *)
(* nothing of them; then each retry is one question more.                  *)
RetriesAreCounted ==
  /\ ~started => sessions = "idle" /\ mail = "idle" /\ attempt = 0 /\ asked = 0
  /\ started => sessions # "idle" /\ mail # "idle" /\ asked = attempt + 1
  /\ sessions = "timer" => attempt < Retries
  /\ sessions = "given up" => attempt = Retries

IInv == TypeOK /\ NeverAnotherUnasked /\ FootnoteIsHonest /\ RetriesAreCounted
=============================================================================
