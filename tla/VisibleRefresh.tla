--------------------------- MODULE VisibleRefresh ---------------------------
(***************************************************************************)
(* The two pollers of the browser that stop while the tab is hidden.       *)
(*                                                                         *)
(* hooks/useAbortableVisibleRefresh.ts owns what it loads: each tick gives *)
(* up the load before it, and failures push the next load away.            *)
(* hooks/useVisibleRefresh.ts calls a refresh that lives elsewhere: a tick *)
(* while the last one is out is skipped, and a tab that comes back is a    *)
(* tick.  `hook' says which is mounted; time passes in units.              *)
(***************************************************************************)
EXTENDS Naturals

CONSTANTS Interval,        \* intervalMs
          InitialBackoff,  \* initialBackoffMs
          MaxBackoff,      \* maxBackoffMs
          MaxFailures,     \* bound: failures that are told apart
          Slowest          \* bound: the least time a load may need

\* What the constants are to be; an instance for TLC assumes it.  The last line
\* is arithmetic that no prover of TLAPS has.
Assumptions ==
  /\ Interval \in Nat /\ Interval > 0 /\ MaxBackoff \in Nat
  /\ MaxFailures \in Nat /\ Slowest \in Nat
  /\ \A n \in 0 .. MaxFailures : InitialBackoff * 2 ^ n \in Nat

VARIABLES
  hook,      \* "abortable" or "waiting"
  needs,     \* the least time a load takes
  enabled,   \* the options of the hook
  hidden,    \* document.hidden
  clock,     \* time since the last tick of the interval
  age,       \* age of the load in flight, or -1
  failures,  \* failureCountRef
  barred,    \* time until nextAllowedAtRef
  shown,     \* "idle", "loading", "failed", "ready" or "refreshing"
  quiet      \* history: how long the visible, enabled hook began no load

vars == <<hook, needs, enabled, hidden, clock, age, failures, barred, shown, quiet>>

None == 0 - 1
InFlight == age # None
Least(a, b) == IF a < b THEN a ELSE b

Loaded(s) == s \in {"ready", "refreshing"}

(* tick: a load begins and the one before it is given up, or the call is   *)
(* skipped.                                                                *)
Skips == IF hook = "abortable" THEN barred' > 0 ELSE hidden' \/ InFlight

Tick ==
  IF Skips
  THEN UNCHANGED <<age, shown>>
  ELSE /\ age' = 0
       /\ shown' = IF Loaded(shown) THEN "refreshing" ELSE "loading"

Elapses_Fault == TRUE

(* An interval that elapses in a hidden tab is lost.                       *)
Elapses == clock + 1 = Interval

Pass ==
  /\ enabled
  /\ clock' = IF Elapses THEN 0 ELSE clock + 1
  /\ barred' = IF barred = 0 THEN 0 ELSE barred - 1
  /\ UNCHANGED <<hook, needs, enabled, hidden, failures>>
  /\ IF Elapses /\ ~hidden /\ ~(hook = "waiting" /\ InFlight)
     THEN Tick
     ELSE age' = (IF InFlight THEN Least(age + 1, Slowest) ELSE None) /\ UNCHANGED shown
  /\ quiet' = IF age' = 0 \/ hidden \/ InFlight THEN 0 ELSE quiet + 1

Lands ==
  /\ InFlight /\ age >= needs
  /\ age' = None
  /\ shown' = "ready"
  /\ failures' = 0 /\ barred' = 0
  /\ UNCHANGED <<hook, needs, enabled, hidden, clock, quiet>>

Backoff_Fault == InitialBackoff * 2 ^ failures

Backoff == Least(InitialBackoff * 2 ^ failures, MaxBackoff)

Fails ==
  /\ InFlight /\ age >= needs
  /\ age' = None
  /\ shown' = IF Loaded(shown) THEN "ready" ELSE "failed"
  /\ IF hook = "abortable"
     THEN /\ failures' = Least(failures + 1, MaxFailures)
          /\ barred' = Backoff
     ELSE UNCHANGED <<failures, barred>>
  /\ UNCHANGED <<hook, needs, enabled, hidden, clock, quiet>>

Hides ==
  /\ ~hidden /\ hidden' = TRUE
  /\ quiet' = 0
  /\ UNCHANGED <<hook, needs, enabled, clock, age, failures, barred, shown>>

(* A tab that comes back is a tick of the waiting hook alone.              *)
Returns ==
  /\ hidden /\ hidden' = FALSE
  /\ barred' = barred
  /\ IF hook = "waiting" /\ enabled THEN Tick ELSE UNCHANGED <<age, shown>>
  /\ quiet' = 0
  /\ UNCHANGED <<hook, needs, enabled, clock, failures>>

(* Only the abortable hook loads when it is enabled.                       *)
Enables ==
  /\ ~enabled /\ enabled' = TRUE
  /\ clock' = 0 /\ barred' = barred /\ hidden' = hidden
  /\ IF hook = "abortable" THEN Tick ELSE UNCHANGED <<age, shown>>
  /\ quiet' = 0
  /\ UNCHANGED <<hook, needs, failures>>

Disables ==
  /\ enabled /\ enabled' = FALSE
  /\ clock' = 0 /\ quiet' = 0
  /\ IF hook = "abortable"
     THEN age' = None /\ failures' = 0 /\ barred' = 0 /\ shown' = "idle"
     ELSE UNCHANGED <<age, failures, barred, shown>>
  /\ UNCHANGED <<hook, needs, hidden>>

Init ==
  /\ hook \in {"abortable", "waiting"}
  /\ needs \in 0 .. Slowest
  /\ enabled = FALSE /\ hidden \in BOOLEAN
  /\ clock = 0 /\ age = None /\ failures = 0 /\ barred = 0
  /\ shown = "idle" /\ quiet = 0

Next == Pass \/ Lands \/ Fails \/ Hides \/ Returns \/ Enables \/ Disables

(* Time passes, and a load that may answer does before more time passes    *)
(* for ever.                                                               *)
Fairness == WF_vars(Pass) /\ SF_vars(Lands \/ Fails)
Spec == Init /\ [][Next]_vars /\ Fairness

(***************************************************************************)
(* Properties.                                                             *)
(***************************************************************************)
TypeOK ==
  /\ hook \in {"abortable", "waiting"} /\ enabled \in BOOLEAN /\ hidden \in BOOLEAN
  /\ needs \in 0 .. Slowest /\ age \in {None} \cup 0 .. Slowest
  /\ clock \in 0 .. Interval - 1 /\ failures \in 0 .. MaxFailures
  /\ barred \in 0 .. MaxBackoff
  /\ shown \in {"idle", "loading", "failed", "ready", "refreshing"}

(* A spinner has a load behind it, and failures slow a visible poller down *)
(* by no more than the longest backoff and the interval it ends in.        *)
PollerIsAlive ==
  /\ shown \in {"loading", "refreshing"} => InFlight
  /\ quiet < MaxBackoff + Interval

(* Why: no silence while a load is out, and the silence so far and the time *)
(* that is barred are one backoff, the interval that follows it apart.      *)
SilenceIsBounded ==
  /\ quiet \in Nat /\ (InFlight => quiet = 0)
  /\ barred > 0 => quiet + barred <= MaxBackoff
  /\ quiet <= MaxBackoff + clock
IInv == TypeOK /\ PollerIsAlive /\ SilenceIsBounded

(* A load that needs less than the interval is not given up for ever.      *)
Hopeful == needs < Interval /\ enabled /\ InFlight
LoadsLand == Hopeful ~> ~Hopeful
=============================================================================
