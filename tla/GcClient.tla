------------------------------ MODULE GcClient ------------------------------
(***************************************************************************)
(* Coalesced reads of the supervisor by the backend's client               *)
(* (backend/src/gc-client.ts): callers of one operation share the fetch in *)
(* flight for it, each may abort its own wait, and the fetch is bounded by *)
(* the timeout of the caller that started it.                              *)
(***************************************************************************)
EXTENDS Integers, FiniteSets

CONSTANTS
    Operations,   \* operation keys
    Callers,      \* concurrent calls of getOperation
    Fetches,      \* identities of upstream fetches
    Aborting      \* the callers that pass a signal which may abort

NoFetch == "none"

\* What the constants are to be; an instance for TLC assumes it.
Assumptions ==
  /\ Aborting \subseteq Callers
  /\ NoFetch \notin Fetches

VARIABLES
    inflight,     \* operation -> the fetch callers may join, or NoFetch
    fetch,        \* fetch -> its operation and the caller that started it
    caller,       \* caller -> what it waits for, or how it ended
    abandoned     \* history: fetches whose starter aborted before they settled

vars == <<inflight, fetch, caller, abandoned>>

Dead == [state |-> "dead"]
Running(o, c) == [state |-> "running", op |-> o, starter |-> c]
Live(x) == fetch[x].state = "running"

Idle == [state |-> "idle"]
Awaiting(x) == [state |-> "awaiting", on |-> x]
\* Definitions ending in _Fault are plausible bugs in the definition they
\* precede; each is what some property below must notice.
Ended_Fault(how) == [state |-> "ended", how |-> "undefined"]
Ended(how) == [state |-> "ended", how |-> how]
Outcomes == {"value", "failed", "timeout"}

Waits(c, x) == caller[c] = Awaiting(x)
Awaits(c) == caller[c].state = "awaiting"
Free(c) == ~Awaits(c)

Init ==
    /\ inflight = [o \in Operations |-> NoFetch]
    /\ fetch = [x \in Fetches |-> Dead]
    /\ caller = [c \in Callers |-> Idle]
    /\ abandoned = {}

\* A signal that has already aborted ends the call before any lookup.
CallAborted(c) ==
    /\ Free(c)
    /\ c \in Aborting
    /\ caller' = [caller EXCEPT ![c] = Ended("aborted")]
    /\ UNCHANGED <<inflight, fetch, abandoned>>

Joins_Fault(o) == o \notin Operations
Joins(o) == inflight[o] # NoFetch

Join(c, o) ==
    /\ Free(c)
    /\ Joins(o)
    /\ caller' = [caller EXCEPT ![c] = Awaiting(inflight[o])]
    /\ UNCHANGED <<inflight, fetch, abandoned>>

Start(c, o, x) ==
    /\ Free(c)
    /\ ~Joins(o)
    /\ ~Live(x) /\ \A d \in Callers : ~Waits(d, x)
    /\ fetch' = [fetch EXCEPT ![x] = Running(o, c)]
    /\ inflight' = [inflight EXCEPT ![o] = x]
    /\ caller' = [caller EXCEPT ![c] = Awaiting(x)]
    /\ abandoned' = abandoned \ {x}

\* The finally of the call that started x: it forgets x unless another
\* fetch has taken its place.
Forget_Fault(x) == inflight
Forget(x) ==
    IF inflight[fetch[x].op] = x
    THEN [inflight EXCEPT ![fetch[x].op] = NoFetch]
    ELSE inflight

\* Who ends with a fetch: everyone who still waits on it.
Hears_Fault(x) ==
    {c \in Callers : Waits(c, x) /\ (x \notin abandoned \/ c \in Aborting)}
Hears(x) == {c \in Callers : Waits(c, x)}

\* The fetch settles: a value, an upstream failure, an invalid payload, or
\* the timeout, which aborts it upstream.
Settle(x, how) ==
    /\ Live(x)
    /\ caller' = [c \in Callers |->
                    IF c \in Hears(x) THEN Ended(how) ELSE caller[c]]
    /\ inflight' = IF x \in abandoned THEN inflight ELSE Forget(x)
    /\ fetch' = [fetch EXCEPT ![x] = Dead]
    /\ UNCHANGED abandoned

\* A caller aborts: its wait ends, the fetch goes on.  If the caller started
\* the fetch, its finally forgets it, and the next call starts another.
Cut_Fault(c, x) == {d \in Callers : Waits(d, x)}
Cut(c, x) == {c}

Abort(c, x) ==
    /\ Waits(c, x)
    /\ c \in Aborting
    /\ caller' = [d \in Callers |->
                    IF d \in Cut(c, x) THEN Ended("aborted") ELSE caller[d]]
    /\ IF fetch[x].starter = c
       THEN inflight' = Forget(x) /\ abandoned' = abandoned \cup {x}
       ELSE UNCHANGED <<inflight, abandoned>>
    /\ UNCHANGED fetch

Next ==
    \/ \E c \in Callers : CallAborted(c)
    \/ \E c \in Callers, o \in Operations :
          Join(c, o) \/ \E x \in Fetches : Start(c, o, x)
    \/ \E x \in Fetches, how \in Outcomes : Settle(x, how)
    \/ \E c \in Callers, x \in Fetches : Abort(c, x)

\* fetchOnce aborts upstream after its timeout, so every fetch settles.
Fairness == \A x \in Fetches : WF_vars(\E how \in Outcomes : Settle(x, how))

Spec == Init /\ [][Next]_vars
FairSpec == Spec /\ Fairness
-----------------------------------------------------------------------------
\* Every variable stays in its domain, and a fetch is joined for its own
\* operation only.
TypeOK ==
    /\ inflight \in [Operations -> Fetches \cup {NoFetch}]
    /\ fetch \in [Fetches -> {Dead} \cup
                    [state : {"running"}, op : Operations, starter : Callers]]
    /\ caller \in [Callers -> {Idle} \cup [state : {"awaiting"}, on : Fetches]
                    \cup [state : {"ended"}, how : Outcomes \cup {"aborted"}]]
    /\ abandoned \in SUBSET Fetches

\* A caller without an abortable signal is never cancelled by the abort of
\* another caller that shares its fetch (gc-client.ts:129-133).
AbortIsPrivate == \A c \in Callers \ Aborting : caller[c] # Ended("aborted")

\* The fetch callers may join is running, for that operation, and is still
\* awaited by the caller that started it, whose finally will forget it.
JoinableIsLive ==
    \A o \in Operations : inflight[o] # NoFetch =>
        /\ Live(inflight[o])
        /\ fetch[inflight[o]].op = o
        /\ Waits(fetch[inflight[o]].starter, inflight[o])

\* Concurrent identical reads collapse into one upstream call: a second one
\* runs only beside a fetch its starter abandoned.
DuplicatesWereAbandoned ==
    \A x, y \in Fetches :
        Live(x) /\ Live(y) /\ fetch[x].op = fetch[y].op /\ x # y =>
            x \in abandoned \/ y \in abandoned

\* Every call ends.
CallsEnd == \A c \in Callers : Awaits(c) ~> Free(c)
=============================================================================
