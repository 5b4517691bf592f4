---------------------- MODULE SingleFlightCacheProofs ----------------------
(***************************************************************************)
(* Theorems about the single-flight cache, for every set of keys, loads    *)
(* and callers, every TTL and every bound on the clock.                    *)
(***************************************************************************)
EXTENDS SingleFlightCache, TLAPS

\* A running load started, and read the upstream, in the past and in order.
LoadTimes ==
    \A l \in Loads : Live(l) =>
        /\ load[l].start <= now
        /\ load[l].sample # Unsampled =>
              load[l].start <= load[l].sample /\ load[l].sample <= now

\* What is cached predates the load that owns the slot, and is not from the
\* future.
OwnerIsNewest ==
    \A k \in Keys :
        /\ stored[k] <= now
        /\ slot[k].state = "inflight" => stored[k] <= load[slot[k].token].start
        /\ slot[k].state = "ready" => slot[k].since <= now

\* Whoever waits on a load waits for one that started at or after its floor.
FloorsBelowStart ==
    \A c \in Callers : caller[c].state = "waiting" =>
        caller[c].floor <= load[caller[c].on].start

\* The inductive invariant.  Freshness of an answer rests on the floors of
\* the callers that wait, these on the owner of the slot being younger than
\* everything cached, and that on a load losing its slot to a newer one only.
IInv ==
    /\ TypeOK
    /\ NoOrphanedSlot
    /\ NoLostCaller
    /\ FreshEnough
    /\ CacheNeverRegresses
    /\ DuplicatesAreForced
    /\ LoadTimes
    /\ OwnerIsNewest
    /\ FloorsBelowStart
-----------------------------------------------------------------------------
\* The cache starts empty, with nothing in flight.
LEMMA InitIInv == Init => IInv
  BY DEF Init, IInv, TypeOK, Slots, LoadStates, CallerStates, Empty, Dead, Idle,
         Never, NoOrphanedSlot, NoLostCaller, FreshEnough, CacheNeverRegresses,
         DuplicatesAreForced, LoadTimes, OwnerIsNewest, FloorsBelowStart, Live

\* Sweeping the expired entries leaves the loads in flight alone and turns
\* ready entries at most into empty ones (sweepExpired).
LEMMA SweepFacts ==
  ASSUME TypeOK, NEW k \in Keys
  PROVE  /\ SweepExpired \in [Keys -> Slots]
         /\ SweepExpired[k] \in {slot[k], Empty}
         /\ slot[k].state = "inflight" => SweepExpired[k] = slot[k]
         /\ SweepExpired[k].state = "ready" =>
               now - slot[k].since < TTL /\ SweepExpired[k] = slot[k]
  BY TTLAssumption
  DEF TypeOK, SweepExpired, Expired, Slots, Empty

\* Types are preserved by every step.
LEMMA TypeStep == ASSUME TypeOK, [Next]_vars PROVE TypeOK'
  <1> USE TTLAssumption, MaxTimeAssumption, ForcingAssumption
  <1>1. ASSUME NEW c \in Callers, NEW k \in Keys, NEW force \in BOOLEAN,
               Hit(c, k, force)
        PROVE  TypeOK'
    BY <1>1, SweepFacts DEF TypeOK, Hit, LooksUp, Served, CallerStates, Floor, Slots, Empty
  <1>2. ASSUME NEW c \in Callers, NEW k \in Keys, NEW force \in BOOLEAN,
               Join(c, k, force)
        PROVE  TypeOK'
    BY <1>2, SweepFacts DEF TypeOK, Join, LooksUp, Waiting, CallerStates, Floor, Slots, Empty
  <1>3. ASSUME NEW c \in Callers, NEW k \in Keys, NEW l \in Loads,
               NEW force \in BOOLEAN, Fetch(c, k, l, force)
        PROVE  TypeOK'
    BY <1>3, SweepFacts
    DEF TypeOK, Fetch, Misses, LooksUp, Waiting, CallerStates, Floor, Slots, Inflight, Running,
        LoadStates, Unsampled, Never
  <1>4. ASSUME NEW l \in Loads, Sample(l) PROVE TypeOK'
    BY <1>4 DEF TypeOK, Sample, LoadStates, Live, Unsampled, Dead
  <1>5. ASSUME NEW l \in Loads, Resolve(l) PROVE TypeOK'
    BY <1>5 DEF TypeOK, Resolve, Told, LoadStates, Live, Unsampled, Dead, WaitsOn, Served,
                CallerStates, Idle, Refused, Slots, Ready, Empty
  <1>6. ASSUME NEW l \in Loads, Fail(l) PROVE TypeOK'
    BY <1>6 DEF TypeOK, Fail, Told, AfterFailure, LoadStates, Live, Dead, WaitsOn, CallerStates, Slots
  <1>7. CASE Tick
    BY <1>7 DEF TypeOK, Tick
  <1>8. CASE UNCHANGED vars
    BY <1>8 DEF TypeOK, vars
  <1> QED
    BY <1>1, <1>2, <1>3, <1>4, <1>5, <1>6, <1>7, <1>8 DEF Next, Call

\* Every variable stays in its domain.
THEOREM TypeCorrect == Spec => []TypeOK
  <1>1. Init => TypeOK
    BY InitIInv DEF IInv
  <1> QED
    BY <1>1, TypeStep, PTL DEF Spec

\* Every action preserves the inductive invariant.
LEMMA Step == ASSUME IInv, [Next]_vars PROVE IInv'
  <1> USE TTLAssumption, MaxTimeAssumption, ForcingAssumption, SweepFacts
  <1>0. TypeOK /\ TypeOK'
    BY TypeStep DEF IInv
  <1>1. ASSUME NEW c \in Callers, NEW k \in Keys, NEW force \in BOOLEAN,
               Hit(c, k, force)
        PROVE  IInv'
    <2>1. NoOrphanedSlot'
      BY <1>0, <1>1
      DEF IInv, TypeOK, NoOrphanedSlot, Live, Owns, Hit, LooksUp, Served, Free, Floor, Slots,
          LoadStates, CallerStates, Empty, Unsampled
    <2>2. NoLostCaller'
      BY <1>0, <1>1
      DEF IInv, TypeOK, NoLostCaller, Live, WaitsOn, Hit, LooksUp, Served, Free, Floor,
          Slots, LoadStates, CallerStates, Empty, Unsampled
    <2>3. FreshEnough'
      BY <1>0, <1>1
      DEF IInv, TypeOK, FreshEnough, CacheNeverRegresses, FloorsBelowStart,
          LoadTimes, WaitsOn, NoLostCaller, Live, Owns, Hit, LooksUp, Served, Free, Floor, Slots,
          LoadStates, CallerStates, Empty, Unsampled
    <2>4. CacheNeverRegresses'
      BY <1>0, <1>1
      DEF IInv, TypeOK, CacheNeverRegresses, OwnerIsNewest, LoadTimes, Owns, Live,
          NoOrphanedSlot, Hit, LooksUp, Served, Free, Floor, Slots, LoadStates, CallerStates,
          Empty, Unsampled
    <2>5. DuplicatesAreForced'
      <3> SUFFICES ASSUME NEW l \in Loads, Live(l)', ~Owns(l)'
                   PROVE  forcedAt'[load'[l].key] >= load'[l].start
        BY DEF DuplicatesAreForced
      <3>1. load' = load /\ forcedAt' = forcedAt /\ slot' = SweepExpired
        BY <1>1 DEF Hit
      <3>2. Live(l) /\ load[l].key \in Keys
        BY <1>0, <3>1 DEF Live, TypeOK, LoadStates, Dead
      <3>3. ~Owns(l)
        BY <1>0, <3>1, <3>2 DEF Owns, Inflight
      <3> QED
        BY <3>1, <3>2, <3>3 DEF IInv, DuplicatesAreForced
    <2>6. LoadTimes'
      BY <1>0, <1>1
      DEF IInv, TypeOK, LoadTimes, Live, Owns, Hit, LooksUp, Served, Free, Floor, Slots,
          LoadStates, CallerStates, Empty, Unsampled
    <2>7. OwnerIsNewest'
      BY <1>0, <1>1
      DEF IInv, TypeOK, OwnerIsNewest, LoadTimes, Live, Owns, NoOrphanedSlot, Hit,
LooksUp,           Served, Free, Floor, Slots, LoadStates, CallerStates, Empty, Unsampled
    <2>8. FloorsBelowStart'
      BY <1>0, <1>1
      DEF IInv, TypeOK, FloorsBelowStart, OwnerIsNewest, NoOrphanedSlot,
          NoLostCaller, Live, WaitsOn, Hit, LooksUp, Served, Free, Floor, Slots, LoadStates,
          CallerStates, Empty, Unsampled
    <2> QED
      BY <1>0, <2>1, <2>2, <2>3, <2>4, <2>5, <2>6, <2>7, <2>8 DEF IInv
  <1>2. ASSUME NEW c \in Callers, NEW k \in Keys, NEW force \in BOOLEAN,
               Join(c, k, force)
        PROVE  IInv'
    <2>1. NoOrphanedSlot'
      BY <1>0, <1>2
      DEF IInv, TypeOK, NoOrphanedSlot, Live, Owns, Join, LooksUp, Waiting, Free, Floor,
          Slots, LoadStates, CallerStates, Empty, Unsampled
    <2>2. NoLostCaller'
      BY <1>0, <1>2
      DEF IInv, TypeOK, NoLostCaller, NoOrphanedSlot, Live, WaitsOn, Join, LooksUp, Waiting,
          Free, Floor, Slots, LoadStates, CallerStates, Empty, Unsampled
    <2>3. FreshEnough'
      BY <1>0, <1>2
      DEF IInv, TypeOK, FreshEnough, CacheNeverRegresses, FloorsBelowStart,
          LoadTimes, WaitsOn, NoLostCaller, Live, Owns, Join, LooksUp, Waiting, Free, Floor,
          Slots, LoadStates, CallerStates, Empty, Unsampled
    <2>4. CacheNeverRegresses'
      BY <1>0, <1>2
      DEF IInv, TypeOK, CacheNeverRegresses, OwnerIsNewest, LoadTimes, Owns, Live,
          NoOrphanedSlot, Join, LooksUp, Waiting, Free, Floor, Slots, LoadStates, CallerStates,
          Empty, Unsampled
    <2>5. DuplicatesAreForced'
      <3> SUFFICES ASSUME NEW l \in Loads, Live(l)', ~Owns(l)'
                   PROVE  forcedAt'[load'[l].key] >= load'[l].start
        BY DEF DuplicatesAreForced
      <3>1. load' = load /\ forcedAt' = forcedAt /\ slot' = SweepExpired
        BY <1>2 DEF Join
      <3>2. Live(l) /\ load[l].key \in Keys
        BY <1>0, <3>1 DEF Live, TypeOK, LoadStates, Dead
      <3>3. ~Owns(l)
        BY <1>0, <3>1, <3>2 DEF Owns, Inflight
      <3> QED
        BY <3>1, <3>2, <3>3 DEF IInv, DuplicatesAreForced
    <2>6. LoadTimes'
      BY <1>0, <1>2
      DEF IInv, TypeOK, LoadTimes, Live, Owns, Join, LooksUp, Waiting, Free, Floor, Slots,
          LoadStates, CallerStates, Empty, Unsampled
    <2>7. OwnerIsNewest'
      BY <1>0, <1>2
      DEF IInv, TypeOK, OwnerIsNewest, LoadTimes, Live, Owns, NoOrphanedSlot, Join,
LooksUp,           Waiting, Free, Floor, Slots, LoadStates, CallerStates, Empty, Unsampled
    <2>8. FloorsBelowStart'
      BY <1>0, <1>2
      DEF IInv, TypeOK, FloorsBelowStart, OwnerIsNewest, NoOrphanedSlot,
          NoLostCaller, NoOrphanedSlot, Live, WaitsOn, Join, LooksUp, Waiting, Free, Floor,
          Slots, LoadStates, CallerStates, Empty, Unsampled
    <2> QED
      BY <1>0, <2>1, <2>2, <2>3, <2>4, <2>5, <2>6, <2>7, <2>8 DEF IInv
  <1>3. ASSUME NEW c \in Callers, NEW k \in Keys, NEW l \in Loads,
               NEW force \in BOOLEAN, Fetch(c, k, l, force)
        PROVE  IInv'
    <2>1. NoOrphanedSlot'
      BY <1>0, <1>3
      DEF IInv, TypeOK, NoOrphanedSlot, Live, Owns, Fetch, Misses, LooksUp, Waiting, Free, Floor,
          FreshToken, Inflight, Running, Slots, LoadStates, CallerStates, Empty,
          Unsampled
    <2>2. NoLostCaller'
      BY <1>0, <1>3
      DEF IInv, TypeOK, NoLostCaller, Live, WaitsOn, Fetch, Misses, LooksUp, Waiting, Free, Floor,
          FreshToken, Inflight, Running, Slots, LoadStates, CallerStates, Empty,
          Unsampled
    <2>3. FreshEnough'
      BY <1>0, <1>3
      DEF IInv, TypeOK, FreshEnough, CacheNeverRegresses, FloorsBelowStart,
          LoadTimes, WaitsOn, NoLostCaller, Live, Owns, Fetch, Misses, LooksUp, Waiting, Free, Floor,
          FreshToken, Inflight, Running, Slots, LoadStates, CallerStates, Empty,
          Unsampled
    <2>4. CacheNeverRegresses'
      BY <1>0, <1>3
      DEF IInv, TypeOK, CacheNeverRegresses, OwnerIsNewest, LoadTimes, Owns, Live,
          NoOrphanedSlot, Fetch, Misses, LooksUp, Waiting, Free, Floor, FreshToken, Inflight, Running,
          Slots, LoadStates, CallerStates, Empty, Unsampled
    <2>5. DuplicatesAreForced'
      BY <1>0, <1>3
      DEF IInv, TypeOK, DuplicatesAreForced, Owns, Live, LoadTimes, Fetch, Misses, LooksUp, Waiting,
          Free, Floor, FreshToken, Inflight, Running, Slots, LoadStates, CallerStates,
          Empty, Unsampled
    <2>6. LoadTimes'
      BY <1>0, <1>3
      DEF IInv, TypeOK, LoadTimes, Live, Owns, Fetch, Misses, LooksUp, Waiting, Free, Floor,
          FreshToken, Inflight, Running, Slots, LoadStates, CallerStates, Empty,
          Unsampled
    <2>7. OwnerIsNewest'
      BY <1>0, <1>3
      DEF IInv, TypeOK, OwnerIsNewest, LoadTimes, Live, Owns, NoOrphanedSlot, Fetch, Misses, LooksUp,
          Waiting, Free, Floor, FreshToken, Inflight, Running, Slots, LoadStates,
          CallerStates, Empty, Unsampled
    <2>8. FloorsBelowStart'
      BY <1>0, <1>3
      DEF IInv, TypeOK, FloorsBelowStart, OwnerIsNewest, NoOrphanedSlot,
          NoLostCaller, Live, WaitsOn, Fetch, Misses, LooksUp, Waiting, Free, Floor, FreshToken,
          Inflight, Running, Slots, LoadStates, CallerStates, Empty, Unsampled
    <2> QED
      BY <1>0, <2>1, <2>2, <2>3, <2>4, <2>5, <2>6, <2>7, <2>8 DEF IInv
  <1>4. ASSUME NEW l \in Loads, Sample(l)
        PROVE  IInv'
    <2>1. NoOrphanedSlot'
      BY <1>0, <1>4
      DEF IInv, TypeOK, NoOrphanedSlot, Live, Owns, Sample, Slots, LoadStates,
          CallerStates, Empty, Unsampled
    <2>2. NoLostCaller'
      BY <1>0, <1>4
      DEF IInv, TypeOK, NoLostCaller, Live, WaitsOn, Sample, Slots, LoadStates,
          CallerStates, Empty, Unsampled
    <2>3. FreshEnough'
      BY <1>0, <1>4
      DEF IInv, TypeOK, FreshEnough, CacheNeverRegresses, FloorsBelowStart,
          LoadTimes, WaitsOn, NoLostCaller, Live, Owns, Sample, Slots, LoadStates,
          CallerStates, Empty, Unsampled
    <2>4. CacheNeverRegresses'
      BY <1>0, <1>4
      DEF IInv, TypeOK, CacheNeverRegresses, OwnerIsNewest, LoadTimes, Owns, Live,
          NoOrphanedSlot, Sample, Slots, LoadStates, CallerStates, Empty, Unsampled
    <2>5. DuplicatesAreForced'
      BY <1>0, <1>4
      DEF IInv, TypeOK, DuplicatesAreForced, Owns, Live, LoadTimes, Sample, Slots,
          LoadStates, CallerStates, Empty, Unsampled
    <2>6. LoadTimes'
      BY <1>0, <1>4
      DEF IInv, TypeOK, LoadTimes, Live, Owns, Sample, Slots, LoadStates,
          CallerStates, Empty, Unsampled
    <2>7. OwnerIsNewest'
      BY <1>0, <1>4
      DEF IInv, TypeOK, OwnerIsNewest, LoadTimes, Live, Owns, NoOrphanedSlot,
          Sample, Slots, LoadStates, CallerStates, Empty, Unsampled
    <2>8. FloorsBelowStart'
      BY <1>0, <1>4
      DEF IInv, TypeOK, FloorsBelowStart, OwnerIsNewest, NoOrphanedSlot,
          NoLostCaller, Live, WaitsOn, Sample, Slots, LoadStates, CallerStates, Empty,
          Unsampled
    <2> QED
      BY <1>0, <2>1, <2>2, <2>3, <2>4, <2>5, <2>6, <2>7, <2>8 DEF IInv
  <1>5. ASSUME NEW l \in Loads, Resolve(l)
        PROVE  IInv'
    <2>1. NoOrphanedSlot'
      BY <1>0, <1>5
      DEF IInv, TypeOK, NoOrphanedSlot, Live, Owns, Resolve, Told, Served, Ready,
          Inflight, Dead, Slots, LoadStates, CallerStates, Empty, Unsampled
    <2>2. NoLostCaller'
      BY <1>0, <1>5
      DEF IInv, TypeOK, NoLostCaller, Live, WaitsOn, Resolve, Told, Served, Ready,
          Inflight, Dead, Slots, LoadStates, CallerStates, Empty, Unsampled
    <2>l. load[l].start <= load[l].sample /\ load[l].sample \in Nat
      BY <1>0, <1>5 DEF IInv, TypeOK, LoadTimes, Resolve, Told, Live, LoadStates, Unsampled, Dead
    <2>k. load[l].key \in Keys /\ load[l].start \in Nat
      BY <1>0, <1>5 DEF TypeOK, Resolve, Told, Live, LoadStates, Dead
    <2>3. FreshEnough'
      <3> SUFFICES ASSUME NEW c \in Callers, caller'[c].state = "served"
                   PROVE  /\ caller'[c].value >= caller'[c].floor
                          /\ caller'[c].age = 0 \/ caller'[c].age < TTL
        BY DEF FreshEnough
      <3>1. CASE WaitsOn(c, l)
        <4>1. caller'[c] = Served(load[l].key, load[l].sample, caller[c].floor, 0)
          BY <1>5, <3>1 DEF Resolve, Told
        <4>2. caller[c].floor \in Nat /\ caller[c].floor <= load[l].start
          BY <1>0, <3>1 DEF IInv, FloorsBelowStart, WaitsOn, TypeOK, CallerStates, Idle, Refused
        <4> QED
          BY <4>1, <4>2, <2>l, <2>k DEF Served
      <3>2. CASE ~WaitsOn(c, l)
        <4>1. caller'[c] = caller[c]
          BY <1>5, <3>2 DEF Resolve, Told
        <4> QED
          BY <4>1 DEF IInv, FreshEnough
      <3> QED
        BY <3>1, <3>2
    <2>4. CacheNeverRegresses'
      <3>1. CASE Owns(l)
        <4>1. stored[load[l].key] <= load[l].start
          BY <2>k, <3>1 DEF IInv, OwnerIsNewest, Owns, Inflight
        <4>s. stored[load[l].key] \in Nat
          BY <1>0, <2>k DEF TypeOK
        <4>2. CASE load[l].sample > stored[load[l].key]
          <5>1. stored' = [stored EXCEPT ![load[l].key] = load[l].sample]
            BY <1>5, <3>1, <4>2 DEF Resolve, Told
          <5> QED
            BY <1>0, <1>5, <2>k, <3>1, <5>1
            DEF IInv, TypeOK, CacheNeverRegresses, Ready, Resolve, Told
        <4>3. CASE ~(load[l].sample > stored[load[l].key])
          <5>1. stored' = stored /\ stored[load[l].key] = load[l].sample
            BY <1>5, <2>k, <2>l, <3>1, <4>s, <4>1, <4>3 DEF Resolve, Told
          <5> QED
            BY <1>0, <1>5, <2>k, <3>1, <5>1
            DEF IInv, TypeOK, CacheNeverRegresses, Ready, Resolve, Told
        <4> QED
          BY <4>2, <4>3
      <3>2. CASE ~Owns(l)
        BY <1>5, <3>2 DEF IInv, CacheNeverRegresses, Resolve, Told
      <3> QED
        BY <3>1, <3>2
    <2>5. DuplicatesAreForced'
      BY <1>0, <1>5
      DEF IInv, TypeOK, DuplicatesAreForced, Owns, Live, LoadTimes, Resolve, Told, Served,
          Ready, Inflight, Dead, Slots, LoadStates, CallerStates, Empty, Unsampled
    <2>6. LoadTimes'
      BY <1>0, <1>5
      DEF IInv, TypeOK, LoadTimes, Live, Owns, Resolve, Told, Served, Ready, Inflight,
          Dead, Slots, LoadStates, CallerStates, Empty, Unsampled
    <2>7. OwnerIsNewest'
      BY <1>0, <1>5
      DEF IInv, TypeOK, OwnerIsNewest, LoadTimes, Live, Owns, NoOrphanedSlot,
          Resolve, Told, Served, Ready, Inflight, Dead, Slots, LoadStates, CallerStates,
          Empty, Unsampled
    <2>8. FloorsBelowStart'
      BY <1>0, <1>5
      DEF IInv, TypeOK, FloorsBelowStart, OwnerIsNewest, NoOrphanedSlot,
          NoLostCaller, Live, WaitsOn, Resolve, Told, Served, Ready, Inflight, Dead, Slots,
          LoadStates, CallerStates, Empty, Unsampled
    <2> QED
      BY <1>0, <2>1, <2>2, <2>3, <2>4, <2>5, <2>6, <2>7, <2>8 DEF IInv
  <1>6. ASSUME NEW l \in Loads, Fail(l)
        PROVE  IInv'
    <2>1. NoOrphanedSlot'
      BY <1>0, <1>6
      DEF IInv, TypeOK, NoOrphanedSlot, Live, Owns, Fail, Told, AfterFailure, Refused, Inflight, Dead,
          Slots, LoadStates, CallerStates, Empty, Unsampled
    <2>2. NoLostCaller'
      BY <1>0, <1>6
      DEF IInv, TypeOK, NoLostCaller, Live, WaitsOn, Fail, Told, AfterFailure, Refused, Inflight, Dead,
          Slots, LoadStates, CallerStates, Empty, Unsampled
    <2>3. FreshEnough'
      BY <1>0, <1>6
      DEF IInv, TypeOK, FreshEnough, CacheNeverRegresses, FloorsBelowStart,
          LoadTimes, WaitsOn, NoLostCaller, Live, Owns, Fail, Told, AfterFailure, Refused, Inflight, Dead,
          Slots, LoadStates, CallerStates, Empty, Unsampled
    <2>4. CacheNeverRegresses'
      BY <1>0, <1>6
      DEF IInv, TypeOK, CacheNeverRegresses, OwnerIsNewest, LoadTimes, Owns, Live,
          NoOrphanedSlot, Fail, Told, AfterFailure, Refused, Inflight, Dead, Slots, LoadStates,
          CallerStates, Empty, Unsampled
    <2>5. DuplicatesAreForced'
      BY <1>0, <1>6
      DEF IInv, TypeOK, DuplicatesAreForced, Owns, Live, LoadTimes, Fail, Told, AfterFailure, Refused,
          Inflight, Dead, Slots, LoadStates, CallerStates, Empty, Unsampled
    <2>6. LoadTimes'
      BY <1>0, <1>6
      DEF IInv, TypeOK, LoadTimes, Live, Owns, Fail, Told, AfterFailure, Refused, Inflight, Dead, Slots,
          LoadStates, CallerStates, Empty, Unsampled
    <2>7. OwnerIsNewest'
      BY <1>0, <1>6
      DEF IInv, TypeOK, OwnerIsNewest, LoadTimes, Live, Owns, NoOrphanedSlot, Fail, Told, AfterFailure,
          Refused, Inflight, Dead, Slots, LoadStates, CallerStates, Empty, Unsampled
    <2>8. FloorsBelowStart'
      BY <1>0, <1>6
      DEF IInv, TypeOK, FloorsBelowStart, OwnerIsNewest, NoOrphanedSlot,
          NoLostCaller, Live, WaitsOn, Fail, Told, AfterFailure, Refused, Inflight, Dead, Slots, LoadStates,
          CallerStates, Empty, Unsampled
    <2> QED
      BY <1>0, <2>1, <2>2, <2>3, <2>4, <2>5, <2>6, <2>7, <2>8 DEF IInv
  <1>7. CASE Tick
    <2>1. now' = now + 1 /\ UNCHANGED <<slot, load, caller, stored, forcedAt>>
      BY <1>7 DEF Tick
    <2>2. NoOrphanedSlot' /\ NoLostCaller' /\ FreshEnough' /\ FloorsBelowStart'
      BY <2>1 DEF IInv, NoOrphanedSlot, NoLostCaller, FreshEnough, FloorsBelowStart, Live
    <2>3. CacheNeverRegresses' /\ DuplicatesAreForced'
      BY <2>1 DEF IInv, CacheNeverRegresses, DuplicatesAreForced, Live, Owns
    <2>4. LoadTimes'
      BY <1>0, <2>1 DEF IInv, LoadTimes, Live, TypeOK, LoadStates, Unsampled, Dead
    <2>5. OwnerIsNewest'
      BY <1>0, <2>1 DEF IInv, OwnerIsNewest, TypeOK, Slots, Empty
    <2> QED
      BY <1>0, <2>2, <2>3, <2>4, <2>5 DEF IInv
  <1>8. CASE UNCHANGED vars
    BY <1>0, <1>8
    DEF IInv, vars, NoOrphanedSlot, NoLostCaller, FreshEnough,
        CacheNeverRegresses, DuplicatesAreForced, LoadTimes, OwnerIsNewest,
        FloorsBelowStart, Live, Owns
  <1> QED
    BY <1>1, <1>2, <1>3, <1>4, <1>5, <1>6, <1>7, <1>8 DEF Next, Call

\* The strengthened invariant holds in every reachable state.
LEMMA Inductive == Spec => []IInv
  BY InitIInv, Step, PTL DEF Spec

\* No in-flight slot is orphaned and no caller is left on a dead promise.
THEOREM NothingIsOrphaned == Spec => []NothingOrphaned
  <1>1. IInv => NothingOrphaned
    BY DEF IInv, NothingOrphaned
  <1> QED
    BY <1>1, Inductive, PTL

\* No caller is ever answered below its floor or beyond the TTL: a forced
\* read never coalesces onto, or is answered from, anything older than it.
THEOREM AnswersAreFresh == Spec => []FreshEnough
  <1>1. IInv => FreshEnough
    BY DEF IInv
  <1> QED
    BY <1>1, Inductive, PTL

\* The cached value of a key never goes back to an older upstream read.
THEOREM CacheIsMonotone == Spec => []CacheNeverRegresses
  <1>1. IInv => CacheNeverRegresses
    BY DEF IInv
  <1> QED
    BY <1>1, Inductive, PTL

\* Concurrent loads of one key exist only because a refresh forced them.
THEOREM SingleFlight == Spec => []DuplicatesAreForced
  <1>1. IInv => DuplicatesAreForced
    BY DEF IInv
  <1> QED
    BY <1>1, Inductive, PTL
-----------------------------------------------------------------------------
request == [c \in Callers |-> Request(caller[c])]

\* How a caller's state reads in the contract.
LEMMA RequestCases ==
  ASSUME TypeOK, NEW c \in Callers
  PROVE  /\ caller[c].state = "waiting" =>
               request[c] = Contract!Asking(caller[c].key, caller[c].floor)
         /\ caller[c].state = "served" =>
               request[c] = Contract!Answered(caller[c].key, caller[c].value)
         /\ caller[c].state # "waiting" => request[c].state # "asking"
  BY DEF TypeOK, CallerStates, Idle, Refused, request, Request,
         Contract!Asking, Contract!Answered

\* Every step of the cache is a step of the contract, or leaves what the
\* contract sees unchanged.
LEMMA StepRefines ==
  ASSUME IInv, [Next]_vars PROVE [Contract!CNext]_<<now, stored, request>>
  <1>0. TypeOK /\ TypeOK'
    BY TypeStep DEF IInv
  <1>1. ASSUME NEW c \in Callers, NEW k \in Keys, NEW force \in BOOLEAN,
               Hit(c, k, force)
        PROVE  Contract!ReadPublished(c, k)
    <2>1. slot[k].state = "ready" /\ slot[k].value = stored[k]
      BY <1>0, <1>1, SweepFacts
      DEF Hit, LooksUp, IInv, CacheNeverRegresses, Empty, TypeOK, Slots
    <2>2. request' = [request EXCEPT ![c] = Contract!Answered(k, stored[k])]
      BY <1>0, <1>1, <2>1
      DEF Hit, LooksUp, request, Request, Served, Contract!Answered, TypeOK
    <2>3. request[c].state # "asking"
      BY <1>0, <1>1, RequestCases DEF Hit, LooksUp, Free
    <2> QED
      BY <1>1, <2>2, <2>3 DEF Hit, LooksUp, Contract!ReadPublished, request
  <1>2. ASSUME NEW c \in Callers, NEW k \in Keys, NEW l \in Loads,
               NEW lo \in {stored[k], now},
               Free(c), caller' = [caller EXCEPT ![c] = Waiting(k, l, lo)],
               UNCHANGED <<now, stored>>
        PROVE  Contract!Ask(c, k)
    <2>1. request' = [request EXCEPT ![c] = Contract!Asking(k, lo)]
      BY <1>0, <1>2 DEF request, Request, Waiting, Contract!Asking, TypeOK
    <2>2. request[c].state # "asking"
      BY <1>0, <1>2, RequestCases DEF Free
    <2> QED
      BY <1>2, <2>1, <2>2 DEF Contract!Ask, request
  <1>3. ASSUME NEW c \in Callers, NEW k \in Keys, NEW force \in BOOLEAN,
               Join(c, k, force)
        PROVE  Contract!Ask(c, k)
    <2>1. slot[k].token \in Loads
      BY <1>0, <1>3 DEF Join, LooksUp, TypeOK, Slots, Empty
    <2> QED
      BY <1>2, <1>3, <2>1 DEF Join, LooksUp, Floor
  <1>4. ASSUME NEW c \in Callers, NEW k \in Keys, NEW l \in Loads,
               NEW force \in BOOLEAN, Fetch(c, k, l, force)
        PROVE  Contract!Ask(c, k)
    BY <1>2, <1>4 DEF Fetch, Misses, LooksUp, Floor
  <1>5. ASSUME NEW l \in Loads, Resolve(l)
        PROVE  Contract!Deliver(load[l].key, {c \in Callers : WaitsOn(c, l)},
                                load[l].sample)
               /\ load[l].key \in Keys /\ load[l].sample \in 0 .. now
    <2> DEFINE S == {c \in Callers : WaitsOn(c, l)}
    <2>1. /\ load[l].key \in Keys
          /\ load[l].sample \in Nat
          /\ load[l].start \in Nat
          /\ load[l].start <= load[l].sample /\ load[l].sample <= now
      BY <1>0, <1>5
      DEF IInv, TypeOK, LoadTimes, Resolve, Told, Live, LoadStates, Unsampled, Dead
    <2>2. ASSUME NEW c \in S
          PROVE  /\ request[c].state = "asking"
                 /\ request[c].key = load[l].key
                 /\ request[c].floor <= load[l].sample
      <3>1. caller[c].floor <= load[l].start /\ caller[c].floor \in Nat
        BY <1>0 DEF IInv, FloorsBelowStart, WaitsOn, TypeOK, CallerStates, Idle, Refused
      <3>2. caller[c].key = load[l].key
        BY DEF IInv, NoLostCaller, WaitsOn
      <3>3. request[c] = Contract!Asking(caller[c].key, caller[c].floor)
        BY <1>0, RequestCases DEF WaitsOn
      <3> QED
        BY <2>1, <3>1, <3>2, <3>3 DEF Contract!Asking
    <2>3. request' = [c \in Callers |->
                        IF c \in S
                        THEN Contract!Answered(load[l].key, load[l].sample)
                        ELSE request[c]]
      BY <1>0, <1>5 DEF Resolve, Told, request, Request, Served, Contract!Answered
    <2>4. stored' \in {stored,
                       [stored EXCEPT ![load[l].key] =
                          IF load[l].sample > @ THEN load[l].sample ELSE @]}
      <3>1. CASE Owns(l) /\ load[l].sample > stored[load[l].key]
        <4>1. stored' = [stored EXCEPT ![load[l].key] = load[l].sample]
          BY <1>5, <3>1 DEF Resolve, Told
        <4>2. load[l].sample =
                IF load[l].sample > stored[load[l].key]
                THEN load[l].sample ELSE stored[load[l].key]
          BY <3>1
        <4> QED
          BY <1>0, <2>1, <4>1, <4>2 DEF TypeOK
      <3>2. CASE ~(Owns(l) /\ load[l].sample > stored[load[l].key])
        BY <1>5, <3>2 DEF Resolve, Told
      <3> QED
        BY <3>1, <3>2
    <2>5. load[l].sample \in 0 .. now
      BY <1>0, <2>1 DEF TypeOK
    <2>6. now' = now
      BY <1>5 DEF Resolve, Told
    <2>7. Contract!Deliver(load[l].key, S, load[l].sample)
      BY <2>1, <2>2, <2>3, <2>4, <2>6, Zenon DEF Contract!Deliver, request
    <2> QED
      BY <2>1, <2>5, <2>7
  <1>6. ASSUME NEW l \in Loads, Fail(l)
        PROVE  Contract!Refuse({c \in Callers : WaitsOn(c, l)})
    <2>1. \A c \in {d \in Callers : WaitsOn(d, l)} : request[c].state = "asking"
      <3> SUFFICES ASSUME NEW c \in Callers, WaitsOn(c, l)
                   PROVE  request[c].state = "asking"
        OBVIOUS
      <3>1. request[c] = Contract!Asking(caller[c].key, caller[c].floor)
        BY <1>0, RequestCases DEF WaitsOn
      <3> QED
        BY <3>1 DEF Contract!Asking
    <2>2. request' = [c \in Callers |->
                        IF c \in {d \in Callers : WaitsOn(d, l)}
                        THEN Contract!None ELSE request[c]]
      BY <1>0, <1>6 DEF Fail, Told, AfterFailure, request, Request, Refused, Contract!None
    <2> QED
      BY <1>6, <2>1, <2>2 DEF Contract!Refuse, Fail, Told, AfterFailure, request
  <1>7. CASE Tick
    BY <1>7 DEF Tick, Contract!CNext, Contract!Pass, request
  <1>8. ASSUME NEW l \in Loads, Sample(l)
        PROVE  UNCHANGED <<now, stored, request>>
    BY <1>8 DEF Sample, request
  <1>9. CASE UNCHANGED vars
    BY <1>9 DEF vars, request
  <1> QED
    BY <1>1, <1>3, <1>4, <1>5, <1>6, <1>7, <1>8, <1>9, ForcingAssumption
    DEF Next, Call, Contract!CNext, request

\* The cache implements the freshness contract: every answer a caller gets,
\* by a hit, by joining a load or by starting one, is one the contract allows.
THEOREM Refinement == Spec => ImplementsContract
  <1>1. Init => Contract!CInit
    BY DEF Init, Contract!CInit, Request, Idle, Contract!None
  <1>2. IInv /\ [Next]_vars => [Contract!CNext]_(Contract!cvars)
    BY StepRefines DEF Contract!cvars, request
  <1> QED
    BY <1>1, <1>2, Inductive, PTL DEF Spec, ImplementsContract, Contract!CSpec
=============================================================================
