-------------------------------- MODULE Reef ---------------------------------
(***************************************************************************)
(* The aquarium page of the browser (frontend/src/aquarium): three cached  *)
(* reads that land on their own, the snapshot derived from whatever has    *)
(* landed, and what one snapshot remembers for the next (page/             *)
(* useAquariumData.ts, derive/*, page/ledgerEligibility.ts).               *)
(*                                                                         *)
(* The read of the beads has one leg per rig and is cached under the list  *)
(* of the rigs, so a list of rigs that differs changes its key.  A bead is *)
(* off the list when it is closed or filtered out (its type or its labels  *)
(* changed), and on the list without a pellet when it is deferred; either  *)
(* way the page draws its pellet as eaten, with the word closed.  Geometry,*)
(* agents and pending questions are left out, and a behaviour is shorter   *)
(* than the window in which movement is observed; the age of what was last *)
(* seen stops growing when it is old.  A read that fails leaves what is    *)
(* shown and takes no step.                                                *)
(***************************************************************************)
EXTENDS Naturals, FiniteSets, Functions

CONSTANTS Beads, Rigs, Sessions,
          RigOf,         \* RigOf[b]: the rig that keeps bead b
          P0,            \* the beads of the highest priority
          Needs,         \* Needs[b]: the beads that b depends on
          RenderCap,     \* PELLET_RENDER_CAP_PER_RIG
          Window,        \* TOMBSTONE_WINDOW_MS
          MaxChanges,    \* bound: the changes of the city
          MaxLost,       \* bound: the legs that fail in one read of the beads
          None

Reads == {"sessions", "rigs", "beads"}
Listed == {"open", "in_progress", "blocked"}   \* the states that have a pellet
Pellets == {"drifting", "held", "orphaned", "sunken"}

\* The functions from a part of S into T, and what was read.
Partial(S, T) == UNION {[part -> T] : part \in SUBSET S}
States == [status : Listed \cup {"deferred", "closed"}, owner : Sessions \cup {None},
           kept : BOOLEAN]      \* defaultBeadFilter keeps it
Names(S) == [names : SUBSET S, whole : BOOLEAN]
BeadReads == [rigs : SUBSET Rigs, lost : SUBSET Rigs, items : Partial(Beads, States)]

\* What the constants are to be; an instance for TLC assumes it.
Assumptions ==
  /\ IsFiniteSet(Beads)
  /\ None \notin Names(Sessions) \cup Names(Rigs) \cup BeadReads
  /\ RigOf \in [Beads -> Rigs] /\ P0 \subseteq Beads /\ Needs \in [Beads -> SUBSET Beads]
  /\ RenderCap \in Nat
  /\ Window \in Nat \ {0} /\ None \notin Sessions

VARIABLES
  bead,      \* the supervisor's beads: status and owner
  up,        \* the sessions that live
  rigs,      \* the rigs that are registered
  read,      \* what each cached read shows: data or None
  cache,     \* the reads of the beads that were cached, by key
  memory,    \* DeriveMemory
  snapshot,  \* WorldSnapshot
  changes,   \* bounds the changes of the city
  moved,     \* history: the rigs in which a bead was picked up or left, or was
             \* drawn without its holder
  rekeyed,   \* history: the key of the beads changed when they had been read
  left       \* history: the beads that were off the list since last drawn

vars == <<bead, up, rigs, read, cache, memory, snapshot, changes, moved,
          rekeyed, left>>
city == <<bead, up, rigs, changes>>

\* A leg that answers lists a bead; and the page has a pellet for it.
Fed(item) == item.kept /\ item.status # "closed"
Shown(item) == item.kept /\ item.status \in Listed

\* The function f, and g where f has nothing; and the function of nothing.
Over(f, g) == [x \in DOMAIN f \cup DOMAIN g |-> IF x \in DOMAIN f THEN f[x] ELSE g[x]]
Nothing == [x \in {} |-> None]

----------------------------------------------------------------------------
\* What a snapshot is derived from: nothing stands for a read that has not
\* answered.
Live(r) == IF r.sessions = None THEN {} ELSE r.sessions.names
RigNames(r) == IF r.rigs = None THEN {} ELSE r.rigs.names
Items(r) == IF r.beads = None THEN Nothing ELSE r.beads.items
Drawn(r) == {b \in DOMAIN Items(r) : Items(r)[b].status \in Listed}
Unavailable(r) == IF r.beads = None THEN {} ELSE r.beads.lost
Asked(r) == IF r.beads = None THEN {} ELSE r.beads.rigs

\* toPellet, of a bead that has a pellet: in progress with an owner that is not
\* among the sessions, it is shown without a holder.
Pellet(item, live) ==
  CASE item.status = "open" -> "drifting"
    [] item.status = "blocked" -> "sunken"
    [] item.status = "in_progress" /\ item.owner \in live -> "held"
    [] item.status = "in_progress" /\ item.owner \notin live -> "orphaned"

\* retainUnavailableRigHolders over the beadHolders of buildPellets.  (An
\* operator ending in _Fault is a plausible bug in the one below it.)
Holders_Fault(r, previous) == [b \in Drawn(r) |-> Pellet(Items(r)[b], Live(r))]
Holders(r, previous) ==
  LET current == [b \in Drawn(r) |-> Pellet(Items(r)[b], Live(r))]
      retained == {b \in DOMAIN previous : RigOf[b] \in Unavailable(r)}
  IN  Over(current, Restrict(previous, retained))

\* diffEatenPellets.
Eaten(holders, previous) == DOMAIN previous \ DOMAIN holders

\* capPerRig: the budget of a rig is for the ordinary pellets only.
HighSignal(b, state) == state # "drifting" \/ b \in P0
Rendered(holders, rg) ==
  LET mine == {b \in DOMAIN holders : RigOf[b] = rg}
      required == {b \in mine : HighSignal(b, holders[b])}
      budget == IF Cardinality(required) >= RenderCap
                THEN 0 ELSE RenderCap - Cardinality(required)
  IN  IF Cardinality(mine) <= RenderCap THEN mine
      ELSE required \cup CHOOSE some \in SUBSET (mine \ required) :
                           Cardinality(some) = budget

\* isStranded: an owner that is gone, and no dependency left in the store.
Stranded(r) ==
  {b \in DOMAIN Items(r) :
     /\ Items(r)[b].owner \notin Live(r) \cup {None}
     /\ Needs[b] \cap DOMAIN Items(r) = {}}

\* detectEvents: the rigs of beads picked up and of beads that left.
Events(r, holders, previous) ==
  {RigOf[b] : b \in {x \in DOMAIN previous :
     \/ x \notin DOMAIN holders
     \/ previous[x] # "held" /\ holders[x] = "held"}} \ Unavailable(r)

\* reconcileFishTombstones: a ghost keeps the age it was last seen at.
LastSeen(r, seen) ==
  Over([s \in Live(r) |-> 0], Restrict(seen, {s \in DOMAIN seen : seen[s] < Window}))

\* countP0Waiting.
P0Waiting(r, holders) ==
  {b \in DOMAIN holders \cap P0 : holders[b] # "held" /\ RigOf[b] \notin Unavailable(r)}

\* deriveWorldSnapshot with observeFlow; `listed' are the holders of this read
\* alone, which are what is drawn.  (A singleton is evaluated once.)
Derive(r) ==
  \E holders \in {Holders(r, memory.holders)} :
  \E listed \in {Restrict(holders, Drawn(r))} :
  LET seen == LastSeen(r, memory.seen)
      events == memory.events \cup Events(r, holders, memory.holders)
      backlog == {rg \in Asked(r) \ Unavailable(r) :
                    \E b \in DOMAIN Items(r) : RigOf[b] = rg}
  IN  /\ memory' = [holders |-> holders, seen |-> seen, events |-> events]
      /\ snapshot' =
           [fish |-> DOMAIN seen, states |-> listed,
            pellets |-> UNION {Rendered(listed, rg) : rg \in Asked(r)},
            overflow |-> [rg \in Asked(r) |->
              Cardinality({b \in DOMAIN listed : RigOf[b] = rg})
                - Cardinality(Rendered(listed, rg))],
            eaten |-> Eaten(holders, memory.holders),
            stranded |-> Stranded(r),
            p0Waiting |-> Cardinality(P0Waiting(r, holders)),
            moving |-> backlog \cap events]
      /\ moved' = moved \cup {RigOf[b] : b \in {x \in DOMAIN listed : listed[x] = "orphaned"}}
      /\ left' = left \ {b \in DOMAIN listed : Shown(bead[b])}

----------------------------------------------------------------------------
Init ==
  /\ bead \in [Beads -> [status : {"open", "deferred"}, owner : {None}, kept : {TRUE}]
                       \cup [status : {"in_progress"}, owner : Sessions, kept : {TRUE}]]
  /\ up = Sessions /\ rigs = Rigs
  /\ read = [sessions |-> None, rigs |-> None, beads |-> None] /\ cache = Nothing
  /\ memory = [holders |-> Nothing, seen |-> Nothing, events |-> {}]
  /\ snapshot = [fish |-> {}, states |-> Nothing, pellets |-> {}, overflow |-> Nothing,
                 eaten |-> {}, stranded |-> {}, p0Waiting |-> 0, moving |-> {}]
  /\ changes = 0 /\ moved = {} /\ rekeyed = FALSE
  /\ left = {b \in Beads : ~Shown(bead[b])}

\* The city changes: the business of the supervisor.
Change ==
  /\ changes < MaxChanges /\ changes' = changes + 1
  /\ UNCHANGED <<read, cache, memory, snapshot, rekeyed>>

Claim(b, s) ==
  /\ Change /\ s \in up /\ bead[b].status \in {"open", "blocked"}
  /\ bead' = [bead EXCEPT ![b].status = "in_progress", ![b].owner = s]
  /\ moved' = moved \cup {RigOf[b]}
  /\ UNCHANGED <<up, rigs, left>>

Shelve(b) ==
  /\ Change /\ bead[b].status = "in_progress"
  /\ bead' = [bead EXCEPT ![b].status = "blocked"]
  /\ UNCHANGED <<up, rigs, moved, left>>

\* A bead is closed, put off, or given a type or a label that is filtered out,
\* and comes back.
Leaves(b) ==
  /\ Change /\ left' = left \cup {b} /\ moved' = moved \cup {RigOf[b]}
  /\ UNCHANGED <<up, rigs>>

Close(b) ==
  bead[b].status # "closed" /\ Leaves(b) /\ bead' = [bead EXCEPT ![b].status = "closed"]

Defer(b) ==
  bead[b].status \in Listed /\ Leaves(b) /\ bead' = [bead EXCEPT ![b].status = "deferred"]

Refile(b) ==
  bead[b].kept /\ Leaves(b) /\ bead' = [bead EXCEPT ![b].kept = FALSE]

Return(b) ==
  /\ Change /\ ~Shown(bead[b])
  /\ bead' = [bead EXCEPT ![b].kept = TRUE, ![b].status = IF @ \in Listed THEN @ ELSE "open"]
  /\ UNCHANGED <<up, rigs, moved, left>>

Dies(s) ==
  /\ Change /\ s \in up /\ up' = up \ {s}
  /\ UNCHANGED <<bead, rigs, moved, left>>

Unregister(rg) ==
  /\ Change /\ rg \in rigs /\ rigs' = rigs \ {rg}
  /\ UNCHANGED <<bead, up, moved, left>>

----------------------------------------------------------------------------
\* A list is whole, or says that it is not.
Sample(all) == {[names |-> part, whole |-> part = all] : part \in SUBSET all}

SessionsLand ==
  /\ \E answer \in Sample(up) :
       LET r == [read EXCEPT !.sessions = answer]
       IN  /\ read' = r /\ Derive(r)
  /\ UNCHANGED <<city, cache, rekeyed>>

\* A list of other rigs changes the key: the page shows what was cached under
\* the new key, or nothing, and the load under the old key is given up.
RigsLand ==
  /\ \E answer \in Sample(rigs) :
       LET same == read.rigs # None /\ answer.names = RigNames(read)
           beads == IF answer.names \in DOMAIN cache THEN cache[answer.names] ELSE None
           r == IF same THEN [read EXCEPT !.rigs = answer]
                ELSE [read EXCEPT !.rigs = answer, !.beads = beads]
       IN  /\ read' = r /\ Derive(r)
           /\ rekeyed' = (rekeyed \/ (~same /\ \E key \in DOMAIN cache : key # {}))
  /\ UNCHANGED <<city, cache>>

\* fetchBeadsByRig: a leg that failed has no items, a partial one has some, and
\* no leg has what is closed or filtered out (listSupervisorBeads).
BeadsLand ==
  /\ \E lost \in {some \in SUBSET RigNames(read) : Cardinality(some) <= MaxLost} :
     \E missing \in SUBSET {b \in Beads : RigOf[b] \in lost} :
       LET there == {b \in Beads \ missing :
                       RigOf[b] \in RigNames(read) /\ Fed(bead[b])}
           answer == [rigs |-> RigNames(read), lost |-> lost, items |-> Restrict(bead, there)]
           r == [read EXCEPT !.beads = answer]
       IN  /\ read' = r /\ Derive(r)
           /\ cache' = Over([key \in {RigNames(read)} |-> answer], cache)
  /\ UNCHANGED <<city, rekeyed>>

\* Time makes what is remembered older, and draws nothing anew.
Tick ==
  /\ memory' = [memory EXCEPT !.seen =
       [s \in DOMAIN @ |-> IF @[s] = Window THEN Window ELSE @[s] + 1]]
  /\ UNCHANGED <<city, read, cache, snapshot, moved, rekeyed, left>>

Next ==
  \/ \E b \in Beads : \/ Shelve(b) \/ Close(b) \/ Defer(b) \/ Refile(b) \/ Return(b)
                      \/ \E s \in Sessions : Claim(b, s)
  \/ \E s \in Sessions : Dies(s)
  \/ \E rg \in Rigs : Unregister(rg)
  \/ SessionsLand \/ RigsLand \/ BeadsLand
  \/ Tick

Spec == Init /\ [][Next]_vars

----------------------------------------------------------------------------
\* What the ledger and the panels say of the snapshot.
\* dataState, of reads none of which failed last.
DataState ==
  CASE \E k \in Reads : read[k] = None -> "loading"
    [] (\A k \in Reads : read[k] # None)
         /\ (~read.sessions.whole \/ ~read.rigs.whole \/ read.beads.lost # {}) -> "partial"
    [] OTHER -> "complete"

\* isWaitingP0: the rows of the panel are the pellets that are drawn.
P0Rows == {b \in snapshot.pellets \cap P0 :
             snapshot.states[b] # "held" /\ RigOf[b] \notin Unavailable(read)}

\* The types.
TypeOK ==
  /\ bead \in [Beads -> States] /\ up \subseteq Sessions /\ rigs \subseteq Rigs
  /\ read \in [sessions : Names(Sessions) \cup {None}, rigs : Names(Rigs) \cup {None},
               beads : BeadReads \cup {None}]
  /\ DOMAIN cache \subseteq SUBSET Rigs
  /\ cache \in [DOMAIN cache -> BeadReads]
  /\ memory \in [holders : Partial(Beads, Pellets), seen : Partial(Sessions, 0 .. Window),
                 events : SUBSET Rigs]
  /\ {snapshot.pellets, snapshot.eaten, snapshot.stranded} \subseteq SUBSET Beads
  /\ moved \subseteq Rigs /\ rekeyed \in BOOLEAN /\ left \subseteq Beads

\* A pellet is shown as eaten only when its bead left since it was last drawn
\* (it was closed, put off or filtered out), and a rig is said to move only when
\* work moved in it: a leg that failed, or came short, is neither (deriveWorld.ts,
\* eating.ts, flow.ts).  Stated up to a change of the list of rigs once the beads
\* were read, after which every bead is shown as eaten; and a bead drawn before
\* its session was known counts as picked up when the session is.
SameKey == ~rekeyed
EatenHasLeft == SameKey => snapshot.eaten \subseteq left
MovingMeansMoved == SameKey => snapshot.moving \subseteq moved

\* An inventory that is called complete, over reads that are not behind the
\* city, is the city: who holds what, what is stranded and what waits.
There == {b \in Beads : RigOf[b] \in rigs /\ Fed(bead[b])}
UpToDate ==
  /\ Live(read) = up /\ RigNames(read) = rigs
  /\ \A b \in There : RigOf[b] \in Asked(read) \ Unavailable(read) => b \in DOMAIN Items(read)
  /\ \A b \in DOMAIN Items(read) : b \in There /\ Items(read)[b] = bead[b]
CompleteMeansTrue ==
  (DataState = "complete" /\ UpToDate) =>
    LET there == There
        shown == {b \in there : Shown(bead[b])}
        held == {b \in there : bead[b].status = "in_progress" /\ bead[b].owner \in up}
    IN  /\ DOMAIN snapshot.states = shown
        /\ {b \in shown : snapshot.states[b] = "held"} = held
        /\ snapshot.p0Waiting = Cardinality((shown \cap P0) \ held)
        /\ snapshot.stranded =
             {b \in there : bead[b].owner \notin up \cup {None} /\ Needs[b] \cap there = {}}

\* The count of the tide line is the number of rows of the panel behind it,
\* and what is not drawn is counted: the cap of a rig takes only what is
\* ordinary (capPerRig, countP0Waiting, ledgerEligibility.ts).
CountsAgree ==
  /\ snapshot.p0Waiting = Cardinality(P0Rows)
  /\ \A b \in DOMAIN snapshot.states \ snapshot.pellets : RigOf[b] \in DOMAIN snapshot.overflow
  /\ \A rg \in DOMAIN snapshot.overflow :
       snapshot.overflow[rg] = Cardinality({b \in DOMAIN snapshot.states \ snapshot.pellets : RigOf[b] = rg})

\* The four of them.
ReefIsTrue == EatenHasLeft /\ MovingMeansMoved /\ CompleteMeansTrue /\ CountsAgree

\* While nothing happens in the city, no rig is said to move: movement is not
\* invented from the order in which the reads land (flow.ts, flow.test.ts).
NothingIsInvented == changes = 0 => snapshot.moving = {}

\* A fish leaves only when it was missing for the whole window: one poll that
\* came short is not a death (tombstones.ts).
FishStay ==
  \A s \in snapshot.fish \ snapshot'.fish : memory.seen[s] >= Window

----------------------------------------------------------------------------
\* What every step keeps.
\*
\* The read of the beads is the one kept for the rigs, and what it misses of a
\* rig that answered has left.
Answers(answer) ==
  /\ answer.lost \subseteq answer.rigs
  /\ \A b \in DOMAIN answer.items : RigOf[b] \in answer.rigs
ReadsAreKept ==
  /\ \A key \in DOMAIN cache : cache[key].rigs = key /\ Answers(cache[key])
  /\ read.beads = IF RigNames(read) \in DOMAIN cache THEN cache[RigNames(read)] ELSE None
NothingIsMissed ==
  /\ \A b \in Beads \ left : Shown(bead[b])
  /\ SameKey => DOMAIN cache \subseteq {{}, RigNames(read)}
  /\ SameKey => \A b \in Beads \ left :
       RigOf[b] \in Asked(read) \ Unavailable(read) => b \in Drawn(read)

\* The snapshot is of what is read, and so is what is remembered, but for the
\* beads of the rigs that did not answer.
SnapshotIsRead ==
  /\ DOMAIN snapshot.states = Drawn(read)
  /\ \A b \in Drawn(read) : snapshot.states[b] = Pellet(Items(read)[b], Live(read))
  /\ snapshot.fish = DOMAIN memory.seen
  /\ snapshot.pellets = UNION {Rendered(snapshot.states, rg) : rg \in Asked(read)}
  /\ snapshot.overflow = [rg \in Asked(read) |->
       Cardinality({b \in DOMAIN snapshot.states : RigOf[b] = rg})
         - Cardinality(Rendered(snapshot.states, rg))]
  /\ snapshot.stranded = Stranded(read)
  /\ snapshot.p0Waiting = Cardinality(P0Waiting(read, memory.holders))
  /\ snapshot.moving \subseteq memory.events
HoldersAreRead ==
  /\ Drawn(read) \subseteq DOMAIN memory.holders
  /\ \A b \in Drawn(read) : memory.holders[b] = snapshot.states[b]
  /\ \A b \in DOMAIN memory.holders \ Drawn(read) : RigOf[b] \in Unavailable(read)

\* Where a bead has left since it was drawn, is shown without a holder, or is
\* held since it was last seen, work moved.
WorkMoved ==
  SameKey =>
    /\ \A b \in left \cap DOMAIN memory.holders : RigOf[b] \in moved
    /\ memory.events \subseteq moved
    /\ \A b \in DOMAIN memory.holders :
         memory.holders[b] = "orphaned"
           \/ (memory.holders[b] # "held" /\ bead[b].status = "in_progress")
           => RigOf[b] \in moved

IInv ==
  /\ TypeOK /\ ReadsAreKept /\ NothingIsMissed /\ SnapshotIsRead /\ HoldersAreRead
  /\ WorkMoved /\ EatenHasLeft /\ MovingMeansMoved
===============================================================================
