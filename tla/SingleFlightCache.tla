------------------------- MODULE SingleFlightCache -------------------------
(***************************************************************************)
(* The TTL + single-flight read-through cache the supervisor proxy puts in *)
(* front of its slow reads (backend/src/lib/ttl-single-flight-cache.ts).   *)
(*                                                                         *)
(* A key's slot is empty, holds the load in flight for it, or holds a      *)
(* value with the instant at which it expires.  A value is represented by  *)
(* the instant at which the upstream read it: that is all the properties   *)
(* tell apart.  The event loop runs one handler at a time, so a call, the  *)
(* settling of a load and the cleanup that follows it are one action each; *)
(* what interleaves is calls, upstream reads and settlements.              *)
(***************************************************************************)
EXTENDS Integers, FiniteSets

CONSTANTS
    Keys,      \* cache keys: a resolved upstream URL each
    Loads,     \* identities of upstream loads; one is reused once it is dead
    Callers,   \* concurrent HTTP requests served by the proxy
    TTL,       \* ttlMs
    MaxTime,   \* bound on the clock, for model checking only
    Forcing    \* whether callers may ask for forceFresh

ASSUME TTLAssumption == TTL \in Nat
ASSUME MaxTimeAssumption == MaxTime \in Nat
ASSUME ForcingAssumption == Forcing \in BOOLEAN

VARIABLES
    now,       \* Date.now()
    slot,      \* entries: key -> slot
    load,      \* the loads in progress upstream
    caller,    \* what each caller waits for, or the answer it got
    stored,    \* history: the newest value ever cached under each key
    forcedAt   \* history: when a load was last forced for each key

vars == <<now, slot, load, caller, stored, forcedAt>>

Unsampled == -1
Never == -1

Empty == [state |-> "empty"]
Inflight(l) == [state |-> "inflight", token |-> l]
Ready(v, s) == [state |-> "ready", value |-> v, since |-> s]
Slots == {Empty}
    \cup [state : {"inflight"}, token : Loads]
    \cup [state : {"ready"}, value : Nat, since : Nat]

Dead == [state |-> "dead"]
Running(k, t, v) == [state |-> "running", key |-> k, start |-> t, sample |-> v]
LoadStates == {Dead}
    \cup [state : {"running"}, key : Keys, start : Nat,
          sample : Nat \cup {Unsampled}]

Idle == [state |-> "idle"]
Waiting(k, l, lo) == [state |-> "waiting", key |-> k, on |-> l, floor |-> lo]
Served(k, v, lo, a) ==
    [state |-> "served", key |-> k, value |-> v, floor |-> lo, age |-> a]
Refused == [state |-> "refused"]
CallerStates == {Idle, Refused}
    \cup [state : {"waiting"}, key : Keys, on : Loads, floor : Nat]
    \cup [state : {"served"}, key : Keys, value : Nat, floor : Nat, age : Int]

Live(l) == load[l].state = "running"
Expired(s) == s.state = "ready" /\ now >= s.since + TTL
\* Definitions ending in _Fault are plausible bugs in the definition they
\* precede; each is what some property below must notice.
Owns_Fault(l) == slot[load[l].key].state = "inflight"
Owns_AlwaysFault(l) == Live(l)
Owns(l) == slot[load[l].key] = Inflight(l)
WaitsOn(c, l) == caller[c].state = "waiting" /\ caller[c].on = l

Init ==
    /\ now = 0
    /\ slot = [k \in Keys |-> Empty]
    /\ load = [l \in Loads |-> Dead]
    /\ caller = [c \in Callers |-> Idle]
    /\ stored = [k \in Keys |-> 0]
    /\ forcedAt = [k \in Keys |-> Never]

\* A call begins by dropping every ready entry whose TTL has passed.
SweepExpired == [k \in Keys |-> IF Expired(slot[k]) THEN Empty ELSE slot[k]]

Free(c) == caller[c].state # "waiting"

\* The oldest value a call may be answered with: a forced call must see an
\* upstream read made after it was issued, any other nothing older than
\* what has already been cached.
Floor(k, force) == IF force THEN now ELSE stored[k]

\* A forced call looks at neither a ready value nor a load in flight.
LooksUp_Fault(force) == force \in BOOLEAN
LooksUp(force) == ~force

\* getOrFetch finds a value that has not expired.
Hit(c, k, force) ==
    /\ Free(c)
    /\ LooksUp(force)
    /\ SweepExpired[k].state = "ready"
    /\ slot' = SweepExpired
    /\ caller' = [caller EXCEPT ![c] =
                    Served(k, slot[k].value, Floor(k, force), now - slot[k].since)]
    /\ UNCHANGED <<now, load, stored, forcedAt>>

\* getOrFetch finds a load in flight and waits on its promise.
Join(c, k, force) ==
    /\ Free(c)
    /\ LooksUp(force)
    /\ slot[k].state = "inflight"
    /\ slot' = SweepExpired
    /\ caller' = [caller EXCEPT ![c] =
                    Waiting(k, slot[k].token, Floor(k, force))]
    /\ UNCHANGED <<now, load, stored, forcedAt>>

\* getOrFetch finds nothing, or does not look, and starts a load.
Misses_Fault(k, force) == ~LooksUp(force) \/ SweepExpired[k].state # "ready"
Misses(k, force) == ~LooksUp(force) \/ SweepExpired[k] = Empty

\* The token of a new load is one no slot, load or caller uses.
FreshToken(l) ==
    /\ ~Live(l)
    /\ \A k \in Keys : slot[k] # Inflight(l)
    /\ \A c \in Callers : ~WaitsOn(c, l)

\* The new load takes the slot whatever it held: a forced one may replace a
\* ready value or a load in flight.
Fetch(c, k, l, force) ==
    /\ Free(c)
    /\ Misses(k, force)
    /\ FreshToken(l)
    /\ slot' = [SweepExpired EXCEPT ![k] = Inflight(l)]
    /\ load' = [load EXCEPT ![l] = Running(k, now, Unsampled)]
    /\ caller' = [caller EXCEPT ![c] = Waiting(k, l, Floor(k, force))]
    /\ forcedAt' = IF force THEN [forcedAt EXCEPT ![k] = now] ELSE forcedAt
    /\ UNCHANGED <<now, stored>>

\* The upstream reads the data it will answer with.
Sample(l) ==
    /\ Live(l)
    /\ load[l].sample = Unsampled
    /\ load' = [load EXCEPT ![l].sample = now]
    /\ UNCHANGED <<now, slot, caller, stored, forcedAt>>

\* Everyone awaiting l's promise hears of it, superseded or not.
Told_Fault(l) == {c \in Callers : WaitsOn(c, l) /\ Owns(l)}
Told(l) == {c \in Callers : WaitsOn(c, l)}

\* The load succeeds: its value is cached only if it still owns the slot.
Resolve(l) ==
    /\ Live(l)
    /\ load[l].sample # Unsampled
    /\ slot' = IF Owns(l)
               THEN [slot EXCEPT ![load[l].key] = Ready(load[l].sample, now)]
               ELSE slot
    /\ stored' = IF Owns(l) /\ load[l].sample > stored[load[l].key]
                 THEN [stored EXCEPT ![load[l].key] = load[l].sample]
                 ELSE stored
    /\ caller' = [c \in Callers |->
                    IF c \in Told(l)
                    THEN Served(load[l].key, load[l].sample, caller[c].floor, 0)
                    ELSE caller[c]]
    /\ load' = [load EXCEPT ![l] = Dead]
    /\ UNCHANGED <<now, forcedAt>>

\* A failure is never cached: the slot is freed, unless another load owns it.
AfterFailure_KeptFault(l) == slot
AfterFailure_CachedFault(l) ==
    IF Owns(l) THEN [slot EXCEPT ![load[l].key] = Ready(load[l].sample, now)] ELSE slot
AfterFailure(l) ==
    IF Owns(l) THEN [slot EXCEPT ![load[l].key] = Empty] ELSE slot

\* The load fails (network, non-2xx, timeout).
Fail(l) ==
    /\ Live(l)
    /\ slot' = AfterFailure(l)
    /\ caller' = [c \in Callers |-> IF c \in Told(l) THEN Refused ELSE caller[c]]
    /\ load' = [load EXCEPT ![l] = Dead]
    /\ UNCHANGED <<now, stored, forcedAt>>

Tick ==
    /\ now < MaxTime
    /\ now' = now + 1
    /\ UNCHANGED <<slot, load, caller, stored, forcedAt>>

Call(c, k, force) ==
    \/ Hit(c, k, force)
    \/ Join(c, k, force)
    \/ \E l \in Loads : Fetch(c, k, l, force)

Next ==
    \/ \E c \in Callers, k \in Keys, force \in {FALSE, Forcing} : Call(c, k, force)
    \/ \E l \in Loads : Sample(l) \/ Resolve(l) \/ Fail(l)
    \/ Tick

\* The HTTP client bounds the wait for headers and for the body, so every
\* load settles; nothing obliges a caller to call or the clock to be read.
Fairness == \A l \in Loads : WF_vars(Resolve(l) \/ Fail(l))

Spec == Init /\ [][Next]_vars
FairSpec == Spec /\ Fairness
-----------------------------------------------------------------------------
\* Every variable stays in its domain.
TypeOK ==
    /\ now \in Nat
    /\ slot \in [Keys -> Slots]
    /\ load \in [Loads -> LoadStates]
    /\ caller \in [Callers -> CallerStates]
    /\ stored \in [Keys -> Nat]
    /\ forcedAt \in [Keys -> Nat \cup {Never}]

\* A slot in flight names a load that is running for that key: an orphaned
\* slot would make every unforced caller of the key wait forever, because
\* in-flight entries are never swept (ttl-single-flight-cache.ts:59-62).
NoOrphanedSlot ==
    \A k \in Keys : slot[k].state = "inflight" =>
        Live(slot[k].token) /\ load[slot[k].token].key = k

\* No caller is left waiting on a promise that has settled.
NoLostCaller ==
    \A c \in Callers : caller[c].state = "waiting" =>
        Live(caller[c].on) /\ load[caller[c].on].key = caller[c].key

\* Whatever fails, is superseded or expires, every slot in flight and every
\* waiting caller still hangs on a load that will settle it.
NothingOrphaned == NoOrphanedSlot /\ NoLostCaller

\* A caller is never answered with data older than its floor: an explicit
\* refresh sees an upstream read made after it was issued (lines 76-78), and
\* a plain read nothing older than a value cached before it asked, nor a
\* value that had been cached for TTL or longer (lines 81 and 66).
FreshEnough ==
    \A c \in Callers : caller[c].state = "served" =>
        /\ caller[c].value >= caller[c].floor
        /\ caller[c].age = 0 \/ caller[c].age < TTL

\* What is cached under a key is the newest value ever cached there: a load
\* superseded by a forced one cannot re-pin its stale body (lines 93-95).
CacheNeverRegresses ==
    \A k \in Keys : slot[k].state = "ready" => slot[k].value = stored[k]

\* Two loads of one key run at once only because a refresh forced the
\* second: a running load that lost its slot was superseded by a forced one.
DuplicatesAreForced ==
    \A l \in Loads : Live(l) /\ ~Owns(l) =>
        forcedAt[load[l].key] >= load[l].start

\* Every caller is answered: with a value or with the load's failure.
CallersAreAnswered ==
    \A c \in Callers : caller[c].state = "waiting" ~> caller[c].state # "waiting"
-----------------------------------------------------------------------------
\* What a caller sees of its request, in the terms of the contract.
Request(r) ==
    CASE r.state = "waiting" ->
            [state |-> "asking", key |-> r.key, floor |-> r.floor]
      [] r.state = "served" ->
            [state |-> "answered", key |-> r.key, value |-> r.value]
      [] OTHER -> [state |-> "none"]

Contract == INSTANCE FreshnessContract WITH
    published <- stored,
    request <- [c \in Callers |-> Request(caller[c])]

\* The cache implements the freshness contract of the proxy's reads.
ImplementsContract == Contract!CSpec
=============================================================================
