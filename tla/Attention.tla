------------------------------ MODULE Attention ------------------------------
(***************************************************************************)
(* The attention board of the browser                                      *)
(* (frontend/src/attention/liveContributors.ts, compose.ts) and the one    *)
(* line that says whether it is current (components/BoardLiveness.tsx).    *)
(*                                                                         *)
(* Each polled domain has a cached read, made when the board mounts and    *)
(* again by a poll that reads all the domains and is not repeated before   *)
(* every one of them has answered.  The runs come from a subscription of   *)
(* their own.  Time passes in refresh intervals.                           *)
(***************************************************************************)
EXTENDS AttentionRules

CONSTANTS Board,        \* the polled domains of this board
          StaleAfter,   \* ATTENTION_READ_STALE_AFTER_MS, in refresh intervals
          Slowest       \* bound: a read that answers does so within this time

\* What the constants are to be; an instance for TLC assumes it.
Assumptions ==
  /\ Board \subseteq Polled
  /\ StaleAfter \in Nat /\ StaleAfter > 1
  /\ Slowest \in Nat

VARIABLES
  facts,     \* facts[d]: what the cached read of d holds, or None
  age,       \* age[d]: time since that read landed
  up,        \* time since the board mounted
  mounting,  \* domains whose first read is outstanding
  polling,   \* domains whose read of the current poll is outstanding
  out,       \* time the current poll has been out
  hidden,    \* document.hidden
  runs,      \* the status of the runs source, or None
  stream     \* the state of the event stream

vars == <<facts, age, up, mounting, polling, out, hidden, runs, stream>>

Longest == Slowest + StaleAfter
Least(a, b) == IF a < b THEN a ELSE b
InFlight == polling # {}
Landed == {d \in Board : facts[d] # None}
Answers(d) == {f \in [DOMAIN Reads[d] -> UNION {Reads[d][r] : r \in DOMAIN Reads[d]}] :
                 \A r \in DOMAIN f : f[r] \in Reads[d][r]}

(***************************************************************************)
(* Reading.                                                                *)
(***************************************************************************)
(* refreshPolledReads, unless the last one is still out.                   *)
Tick == IF InFlight THEN UNCHANGED polling ELSE polling' = Board

Pass ==
  /\ age' = [d \in Board |-> Least(age[d] + 1, StaleAfter)]
  /\ up' = Least(up + 1, Slowest + 1)
  /\ IF hidden THEN UNCHANGED polling ELSE Tick
  /\ out' = IF InFlight THEN Least(out + 1, Longest) ELSE 0
  /\ UNCHANGED <<facts, mounting, hidden, runs, stream>>

(* fetchAgentsAttention and the others catch what fails: every read lands, *)
(* with facts that say what was not answered.                              *)
Keeps(d, f) == facts' = [facts EXCEPT ![d] = f] /\ age' = [age EXCEPT ![d] = 0]

PollLands(d) ==
  /\ d \in polling /\ out <= Slowest
  /\ \E f \in Answers(d) : Keeps(d, f)
  /\ polling' = polling \ {d}
  /\ out' = IF InFlight' THEN out ELSE 0
  /\ UNCHANGED <<up, mounting, hidden, runs, stream>>

(* A first read that a poll has overtaken only fills an empty panel.       *)
FirstLands(d) ==
  /\ d \in mounting /\ up <= Slowest
  /\ IF facts[d] # None
     THEN UNCHANGED <<facts, age>>
     ELSE \E f \in Answers(d) : Keeps(d, f)
  /\ mounting' = mounting \ {d}
  /\ UNCHANGED <<up, polling, out, hidden, runs, stream>>

Hides ==
  /\ ~hidden /\ hidden' = TRUE
  /\ UNCHANGED <<facts, age, up, mounting, polling, out, runs, stream>>

Returns ==
  /\ hidden /\ hidden' = FALSE
  /\ Tick
  /\ UNCHANGED <<facts, age, up, mounting, out, runs, stream>>

(* runsFactsFromSource; the subscription and the stream are RunSummary's.  *)
RunsChange ==
  /\ runs' \in {"fresh", "stale", "error"}
  /\ UNCHANGED <<facts, age, up, mounting, polling, out, hidden, stream>>

StreamChanges ==
  /\ stream' \in {"connecting", "open", "degraded", "closed"}
  /\ UNCHANGED <<facts, age, up, mounting, polling, out, hidden, runs>>

Init ==
  /\ facts = [d \in Board |-> None] /\ age = [d \in Board |-> 0]
  /\ up = 0 /\ mounting = Board /\ polling = {} /\ out = 0
  /\ hidden \in BOOLEAN
  /\ runs = None /\ stream = "connecting"

Next ==
  \/ Pass \/ Hides \/ Returns \/ RunsChange \/ StreamChanges
  \/ \E d \in Board : PollLands(d) \/ FirstLands(d)

Spec == Init /\ [][Next]_vars

effectiveProvenance_Fault(d) == IF d \in Landed THEN "fresh" ELSE None

(***************************************************************************)
(* The line.                                                               *)
(***************************************************************************)
(* withReadFreshness: a cached read that landed is fresh until staleAt.    *)
effectiveProvenance(d) ==
  IF d \notin Landed THEN None ELSE IF age[d] >= StaleAfter THEN "stale" ELSE "fresh"

Degraded ==
  {d \in Board : effectiveProvenance(d) = "stale"}
  \cup IF runs \in {"stale", "error"} THEN {"runs"} ELSE {}

streamDown == stream \in {"closed", "degraded"}

BoardLiveness ==
  IF streamDown THEN "live updates paused"
  ELSE IF Degraded # {} THEN "degraded"
  ELSE IF Landed # {} \/ runs # None THEN "all live"
  ELSE "nothing to say"

(***************************************************************************)
(* Properties.                                                             *)
(***************************************************************************)
TypeOK ==
  /\ DOMAIN facts = Board /\ \A d \in Board : facts[d] \in Answers(d) \cup {None}
  /\ age \in [Board -> 0 .. StaleAfter] /\ up \in 0 .. Slowest + 1
  /\ mounting \subseteq Board /\ polling \subseteq Board
  /\ out \in 0 .. Longest /\ hidden \in BOOLEAN
  /\ runs \in {"fresh", "stale", "error", None}
  /\ stream \in {"connecting", "open", "degraded", "closed"}

(* A board that shows nothing of a domain that was read has had every read *)
(* of it answered, and whole: a failed or short read leaves an item behind *)
(* even where it takes a badge to zero.                                    *)
CalmWasRead ==
  \A d \in Landed :
    Troubles(d, facts[d]) = {} => \A r \in DOMAIN facts[d] : facts[d][r] = "ok"

(* The line does not keep saying "all live" of a board one of whose reads  *)
(* hangs: the poll it holds up lets the other domains age.                 *)
AllLiveIsCurrent ==
  BoardLiveness = "all live" /\ Landed # {} =>
    /\ out < Longest
    /\ \A d \in Landed : age[d] < StaleAfter
    /\ runs \notin {"stale", "error"}

(* "a hard read error on any domain" is one of the three things that flip  *)
(* the line.                                                               *)
HardErrorFlips ==
  \A d \in Landed : (\A r \in DOMAIN facts[d] : facts[d][r] = "failed")
    => BoardLiveness # "all live"

(***************************************************************************)
(* The inductive invariant.                                                *)
(***************************************************************************)
(* While a poll is out no read of the board is younger than it, but for    *)
(* the time a read may take.                                               *)
PollHoldsUp ==
  /\ out > Slowest => up > Slowest
  /\ out <= Slowest => up >= out
  /\ \A d \in Landed : age[d] + Slowest >= out

IInv == TypeOK /\ PollHoldsUp
=============================================================================
