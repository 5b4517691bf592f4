---------------------------- MODULE CachedPanel ----------------------------
(***************************************************************************)
(* The stale-while-revalidate hook of the browser                          *)
(* (frontend/src/hooks/useCachedData.ts) over the module-level cache       *)
(* (frontend/src/api/cache.ts), with a key that changes under it.          *)
(*                                                                         *)
(* A panel renders with a key; an effect then seeds it from the cache and  *)
(* starts a load.  `refresh' is a callback made by a render: one that was  *)
(* kept across an await may be called after the key has changed.  It files *)
(* its answer under the key it was made for but asks with the fetcher of   *)
(* the latest render, so `of', what was asked for, and `key', what the     *)
(* answer is filed under, are two fields of a load.                        *)
(***************************************************************************)
EXTENDS Naturals, FiniteSets

CONSTANTS Keys,    \* the keys a panel can render with
          Loads,   \* identities of the runs of runFetcher that can be in flight
          None     \* the absence of a value

\* What the constants are to be; an instance for TLC assumes it.
PanelAssumptions ==
  /\ None \notin Keys
  /\ None \notin Loads

VARIABLES
  key,       \* the key of the latest render (currentKeyRef)
  pending,   \* the effect of that render has not run yet
  latest,    \* the run whose id is runIdRef, or None
  load,      \* load[l]: the run l, or None
  data,      \* what the panel holds: an answer, or None
  error,     \* the panel shows an error
  cache,     \* cache[k]: the stored answer of key k, or None
  truth      \* what the upstream would answer now

panel == <<key, pending, latest, load, data, error>>
panelVars == <<key, pending, latest, load, data, error, cache, truth>>

(***************************************************************************)
(* Answers and runs, of an upstream that answers one of T.                 *)
(***************************************************************************)
Answers(T) == [tag : Keys, of : Keys, seen : T]
Fetches(T) == [key : Keys, of : Keys, seen : T \cup {None}]

\* The absence of a value is none of them.
NoneIsApart(T) == None \notin T \cup Answers(T) \cup Fetches(T)

Answer(run) == [tag |-> run.key, of |-> run.of, seen |-> run.seen]
InFlight == {l \in Loads : load[l] # None}
Asked == {l \in InFlight : load[l].seen = None}
Idle == Loads \ InFlight
Loading == latest # None

Started(k, l) == [load EXCEPT ![l] = [key |-> k, of |-> key, seen |-> None]]

(* runFetcher up to its await, called through a callback made under key k. *)
Start(k, l) ==
  /\ l \in Idle
  /\ load' = Started(k, l)
  /\ latest' = l
  /\ error' = FALSE

(***************************************************************************)
(* Rendering.                                                              *)
(***************************************************************************)
SwitchKey(k) ==
  /\ k # key
  /\ key' = k
  /\ pending' = TRUE
  /\ UNCHANGED <<latest, load, data, error, cache, truth>>

(* The clean-up of the last effect, then the effect: seed, and load.       *)
Effect(l) ==
  /\ pending
  /\ pending' = FALSE
  /\ data' = cache[key]
  /\ Start(key, l)
  /\ UNCHANGED <<key, cache, truth>>

Refresh(k, l) ==
  /\ Start(k, l)
  /\ UNCHANGED <<key, pending, data, cache, truth>>

(***************************************************************************)
(* Settlements.                                                            *)
(***************************************************************************)
Sample(l) ==
  /\ l \in Asked
  /\ load' = [load EXCEPT ![l].seen = truth]
  /\ UNCHANGED <<key, pending, latest, data, error, cache, truth>>

IsLatest_Fault(l) == TRUE

IsLatest(l) == latest = l
IsActive(l) == load[l].key = key
Settles(l) == /\ load' = [load EXCEPT ![l] = None]
              /\ latest' = IF IsLatest(l) THEN None ELSE latest

(* A superseded run of the active key may only fill an empty panel.        *)
Adopted(l) ==
  IF IsActive(l) /\ (IsLatest(l) \/ data = None) THEN Answer(load[l]) ELSE data

Stored(l) ==
  IF IsActive(l) /\ IsLatest(l) THEN [cache EXCEPT ![key] = Answer(load[l])] ELSE cache

Land(l) ==
  /\ l \in InFlight \ Asked
  /\ data' = Adopted(l)
  /\ cache' = Stored(l)
  /\ Settles(l)
  /\ UNCHANGED <<key, pending, error, truth>>

Fail(l) ==
  /\ l \in InFlight
  /\ error' = (error \/ IsLatest(l))
  /\ Settles(l)
  /\ UNCHANGED <<key, pending, data, cache, truth>>

PanelInit(t) ==
  /\ key \in Keys
  /\ pending = TRUE
  /\ latest = None
  /\ load = [l \in Loads |-> None]
  /\ data = None
  /\ error = FALSE
  /\ cache = [k \in Keys |-> None]
  /\ truth = t

(***************************************************************************)
(* Properties.                                                             *)
(***************************************************************************)
PanelTypeOK(T) ==
  /\ key \in Keys
  /\ pending \in BOOLEAN
  /\ latest \in InFlight \cup {None}
  /\ load \in [Loads -> Fetches(T) \cup {None}]
  /\ data \in Answers(T) \cup {None}
  /\ error \in BOOLEAN
  /\ cache \in [Keys -> Answers(T) \cup {None}]
  /\ truth \in T

(* A stored answer was asked for under the key it is stored under.         *)
CacheIsKeyed == \A k \in Keys : cache[k] # None => cache[k].tag = k

(* No answer asked for under a key the panel has left is shown under the   *)
(* key it has now, however the keys change while answers are outstanding:  *)
(* the two comparisons after the await of runFetcher.                      *)
ShownUnderItsKey == ~pending /\ data # None => data.tag = key
=============================================================================
