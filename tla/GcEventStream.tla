--------------------------- MODULE GcEventStream ---------------------------
(***************************************************************************)
(* useGcEventRefresh (frontend/src/hooks/useGcEvents.ts): one mounted      *)
(* panel's EventSource on the city event stream, its connecting grace,     *)
(* idle watchdog and reconnect timers, and the leading and trailing        *)
(* throttle that turns matching events into calls of onMatch.              *)
(*                                                                         *)
(* The clock matters to the throttle only; the other timers may fire at    *)
(* any time after they are armed.  The supervisor numbers the matching     *)
(* events it emits; frames that do not match only keep the stream alive.   *)
(***************************************************************************)
EXTENDS Integers, FiniteSets

CONSTANTS
    Window,      \* coalesceMs, in ticks
    MaxTime,     \* bound on the clock
    MaxEvents    \* bound on the matching events emitted

\* What the constants are to be; an instance for TLC assumes it.
Assumptions ==
  /\ Window \in Nat \ {0} /\ MaxTime \in Nat /\ MaxEvents \in Nat /\ MaxTime >= Window

VARIABLES
    now,          \* the clock
    emitted,      \* matching events the supervisor has emitted
    connectable,  \* EventSource exists, a city is active, prefixes are given
    mounted,      \* the effect is in force: cancelled is false
    source,       \* the EventSource: "none", or how far it is
    cursor,       \* the last event the server sent on it
    timers,       \* the timers armed
    due,          \* when the trailing coalesce timer is due
    state,        \* the state the panel shows
    gaveUp,       \* the last connect() found nothing to connect to
    lastFire,     \* lastFireRef
    fires,        \* history: calls of onMatch since the panel mounted
    heard,        \* history: the matching events received
    owed          \* history: one was received since the last onMatch

vars == <<now, emitted, connectable, mounted, source, cursor, timers, due, state,
          gaveUp, lastFire, fires, heard, owed>>
env == <<now, emitted, connectable>>
throttle == <<due, lastFire, fires, heard, owed>>

Timers == {"grace", "watchdog", "retry", "coalesce"}
ConnStates == {"connecting", "open", "degraded", "closed"}

\* Date.now() starts far from lastFireRef, which is 0.
Init ==
    /\ now = Window
    /\ emitted = 0
    /\ connectable \in BOOLEAN
    /\ mounted = FALSE
    /\ source = "none" /\ cursor = 0
    /\ timers = {} /\ due = 0
    /\ state = "connecting"
    /\ gaveUp = FALSE
    /\ lastFire = 0 /\ fires = 0
    /\ heard = {} /\ owed = FALSE

\* connect(): a new EventSource, or nothing to connect to.
Connect(armed) ==
    /\ source' = IF connectable THEN "connecting" ELSE "none"
    /\ state' = IF connectable THEN "connecting" ELSE "closed"
    /\ timers' = IF connectable THEN armed \cup {"grace"} ELSE armed
    /\ gaveUp' = ~connectable
    /\ UNCHANGED cursor

Mount ==
    /\ ~mounted
    /\ mounted' = TRUE
    /\ Connect({})
    /\ lastFire' = 0 /\ fires' = 0
    /\ UNCHANGED <<env, due, heard, owed>>

\* Definitions ending in _Fault are plausible bugs in the definition they
\* precede; each is what some property below must notice.
Kept_Fault == timers \ {"grace", "watchdog", "coalesce"}
Kept == {}

\* The cleanup clears every timer and closes the source.  A match that waits
\* for the trailing edge is dropped with it.
Unmount ==
    /\ mounted
    /\ mounted' = FALSE
    /\ source' = "none"
    /\ timers' = Kept
    /\ owed' = FALSE
    /\ UNCHANGED <<env, cursor, due, state, gaveUp, lastFire, fires, heard>>

\* New prefixes: the cleanup, then the effect with the same lastFireRef.
Rebind ==
    /\ mounted
    /\ Connect(Kept)
    /\ owed' = FALSE
    /\ UNCHANGED <<env, mounted, due, lastFire, fires, heard>>

\* The events that arm the idle watchdog.
Arming(ev) == ev \in {"grace", "opened", "frame"}

Proven(ev) == IF Arming(ev) THEN {"watchdog"} ELSE {}

\* The grace timer: a stream that says nothing for two seconds reads as open.
GraceFires ==
    /\ "grace" \in timers
    /\ timers' = (timers \ {"grace"}) \cup Proven("grace")
    /\ state' = "open"
    /\ UNCHANGED <<env, mounted, source, cursor, gaveUp, throttle>>

\* The server accepts the subscription: it starts with what comes next, since
\* a new EventSource carries no Last-Event-ID and the URL no after_seq.
Accept ==
    /\ source = "connecting"
    /\ source' = "accepted"
    /\ cursor' = emitted
    /\ UNCHANGED <<env, mounted, timers, state, gaveUp, throttle>>

OnOpen ==
    /\ source = "accepted"
    /\ source' = "live"
    /\ timers' = (timers \ {"grace"}) \cup Proven("opened")
    /\ state' = "open"
    /\ UNCHANGED <<env, mounted, cursor, gaveUp, throttle>>

\* A frame that is malformed, or that matches no prefix.
OtherFrame(malformed) ==
    /\ source = "live"
    /\ timers' = timers \cup Proven("frame")
    /\ state' = IF malformed THEN "degraded" ELSE "open"
    /\ UNCHANGED <<env, mounted, source, cursor, gaveUp, throttle>>

\* fireMatch
Fire ==
    /\ lastFire' = now
    /\ fires' = fires + 1
    /\ owed' = FALSE

OutsideWindow == now - lastFire >= Window

DueAt == now + (Window - (now - lastFire))

\* What a match inside the window does to the trailing timer.
Trailing_Fault == timers
Trailing == timers \cup {"coalesce"}

\* What a match outside the window does to it.
Leading_Fault == timers
Leading == timers \ {"coalesce"}

\* handleData on a matching event, then scheduleMatch.
Match ==
    /\ source = "live"
    /\ cursor < emitted
    /\ cursor' = cursor + 1
    /\ heard' = heard \cup {cursor + 1}
    /\ state' = "open"
    /\ IF OutsideWindow
       THEN Fire /\ timers' = Leading \cup Proven("frame") /\ UNCHANGED due
       ELSE /\ timers' = Trailing \cup Proven("frame")
            /\ due' = IF "coalesce" \in timers THEN due ELSE DueAt
            /\ owed' = TRUE
            /\ UNCHANGED <<lastFire, fires>>
    /\ UNCHANGED <<env, mounted, source, gaveUp>>

\* The trailing edge.
CoalesceFires ==
    /\ "coalesce" \in timers
    /\ due <= now
    /\ timers' = timers \ {"coalesce"}
    /\ Fire
    /\ UNCHANGED <<env, mounted, source, cursor, due, state, gaveUp, heard>>

\* The idle watchdog: no frame for five minutes.
WatchdogFires_Fault ==
    /\ "watchdog" \in timers
    /\ IF source = "live" THEN timers' = timers \ {"watchdog"} /\ state' = "degraded"
                          ELSE UNCHANGED <<timers, state>>
    /\ UNCHANGED <<env, mounted, source, cursor, gaveUp, throttle>>
WatchdogFires ==
    /\ "watchdog" \in timers
    /\ timers' = timers \ {"watchdog"}
    /\ state' = "degraded"
    /\ UNCHANGED <<env, mounted, source, cursor, gaveUp, throttle>>

AfterError_Fault == timers \ {"grace", "watchdog"}
AfterError == (timers \ {"grace", "watchdog"}) \cup {"retry"}

\* onerror closes the source, which forgoes the browser's own reconnect.
OnError ==
    /\ source # "none"
    /\ source' = "none"
    /\ timers' = AfterError
    /\ state' = "closed"
    /\ UNCHANGED <<env, mounted, cursor, gaveUp, throttle>>

RetryFires ==
    /\ "retry" \in timers
    /\ Connect(timers \ {"retry"})
    /\ UNCHANGED <<env, mounted, throttle>>

\* The network and the supervisor.
GoesSilent ==
    /\ source = "live"
    /\ source' = "silent"
    /\ UNCHANGED <<env, mounted, cursor, timers, state, gaveUp, throttle>>

Emit ==
    /\ emitted < MaxEvents
    /\ emitted' = emitted + 1
    /\ UNCHANGED <<now, connectable, mounted, source, cursor, timers, state, gaveUp,
                   throttle>>

CityChanges ==
    /\ connectable' = ~connectable
    /\ UNCHANGED <<now, emitted, mounted, source, cursor, timers, state, gaveUp, throttle>>

Tick ==
    /\ now < MaxTime
    /\ now' = now + 1
    /\ UNCHANGED <<emitted, connectable, mounted, source, cursor, timers, state, gaveUp,
                   throttle>>

TimerFires == GraceFires \/ WatchdogFires \/ RetryFires \/ CoalesceFires

Next ==
    \/ Mount \/ Unmount \/ Rebind
    \/ Accept \/ OnOpen \/ Match \/ OnError \/ GoesSilent
    \/ \E malformed \in BOOLEAN : OtherFrame(malformed)
    \/ TimerFires
    \/ Emit \/ CityChanges \/ Tick

\* The event loop runs a timer that is due.
Fairness == WF_vars(GraceFires) /\ WF_vars(WatchdogFires) /\ WF_vars(RetryFires)

Spec == Init /\ [][Next]_vars
FairSpec == Spec /\ Fairness
-----------------------------------------------------------------------------
\* Every variable stays in its domain.
TypeOK ==
    /\ now \in 0 .. MaxTime /\ emitted \in 0 .. MaxEvents
    /\ connectable \in BOOLEAN /\ mounted \in BOOLEAN /\ gaveUp \in BOOLEAN
    /\ source \in {"none", "connecting", "accepted", "live", "silent"}
    /\ cursor \in 0 .. emitted
    /\ timers \in SUBSET Timers /\ due \in 0 .. now + Window
    /\ state \in ConnStates
    /\ lastFire \in 0 .. now /\ fires \in Nat
    /\ heard \in SUBSET (1 .. emitted) /\ owed \in BOOLEAN

\* No connection state is a dead end: a panel that says "open" has the idle
\* watchdog armed over an existing source, "connecting" has the grace timer,
\* and "closed" has a retry unless there was nothing to connect to.
EveryStateHasATimer ==
    mounted => CASE state = "connecting" -> "grace" \in timers
                 [] state = "open" -> "watchdog" \in timers /\ source # "none"
                 [] state = "closed" -> "retry" \in timers \/ gaveUp
                 [] OTHER -> source # "none"

\* An unmounted panel keeps no timer and no stream that could call it back.
NothingAfterUnmount == ~mounted => timers = {} /\ source = "none"

\* A match is never swallowed: until onMatch is called for it, the trailing
\* timer is armed, and due no later than one window after the last call.
OwedIsScheduled == owed => "coalesce" \in timers /\ due <= lastFire + Window

\* Grace and watchdog watch a stream there is; a retry follows one that is gone.
TimersFitTheSource ==
    /\ "grace" \in timers \/ "watchdog" \in timers => source # "none"
    /\ "retry" \in timers => source = "none"

\* The trailing timer is due one window after the last call.
TrailingIsExact == "coalesce" \in timers => due = lastFire + Window

\* What is owed has its timer.
OwedIsArmed == owed => "coalesce" \in timers

\* The inductive invariant: that no state is a dead end needs to know that a
\* timer which leaves a state still has the stream that state speaks of.
IInv ==
    /\ TypeOK
    /\ TimersFitTheSource
    /\ EveryStateHasATimer
    /\ NothingAfterUnmount
    /\ TrailingIsExact
    /\ OwedIsArmed

\* Two calls of onMatch are at least one window apart, however late the
\* trailing timer runs and however often the stream reconnects.
ThrottledStep == fires' > fires /\ fires > 0 => now - lastFire >= Window
Throttled == [][ThrottledStep]_vars

\* "The browser sends Last-Event-ID automatically on reconnect; the supervisor
\* event stream accepts that header directly" (useGcEvents.ts:171-172): while
\* the panel stays mounted, the matching events it hears have no gap.
NoGapInHeard ==
    \A a, c \in heard : \A b \in a .. c : b \in heard

\* A stream that went silent, or that never opened, does not read as open
\* for ever.
StuckOpen == mounted /\ state = "open" /\ source \in {"connecting", "silent"}
NotStuckOpen == StuckOpen ~> ~StuckOpen
=============================================================================
